------------------------------ MODULE Handover ------------------------------
(***************************************************************************)
(* What the replacement of a manager promises to the owner of a source.    *)
(* The managers on duty are those to whom the source's leads go.  The new  *)
(* one joins the old one before the replacement is sealed; from then on the*)
(* old one leaves and nothing turns back.  Until then it can be undone, and*)
(* the old manager is on duty throughout.  Replacement implements it.      *)
(***************************************************************************)
VARIABLES duty,    \* the managers on duty, of "old" and "new"
          phase,   \* how far the handover is
          debt     \* a part of the undoing was passed over

Init == duty = {"old"} /\ phase = "before" /\ debt = FALSE

Join ==
  /\ phase = "before" /\ duty' = {"old", "new"}
  /\ UNCHANGED <<phase, debt>>

Seal ==
  /\ phase = "before" /\ duty = {"old", "new"}
  /\ phase' = "sealed"
  /\ UNCHANGED <<duty, debt>>

Retire ==
  /\ phase = "sealed" /\ duty' = {"new"}
  /\ UNCHANGED <<phase, debt>>

Finish ==
  /\ phase = "sealed" /\ duty = {"new"}
  /\ phase' = "done"
  /\ UNCHANGED <<duty, debt>>

\* Nothing was begun yet.
Abandon ==
  /\ phase = "before" /\ duty = {"old"}
  /\ phase' = "undone"
  /\ UNCHANGED <<duty, debt>>

TurnBack ==
  /\ phase = "before"
  /\ phase' = "undoing"
  /\ UNCHANGED <<duty, debt>>

\* An undoing may be repeated after it was closed.
Withdraw ==
  /\ phase \in {"undoing", "undone"} /\ duty' = {"old"}
  /\ UNCHANGED <<phase, debt>>

PassOver ==
  /\ phase \in {"undoing", "undone"} /\ debt' = TRUE
  /\ UNCHANGED <<duty, phase>>

Close ==
  /\ phase = "undoing" /\ (duty = {"old"} \/ debt)
  /\ phase' = "undone"
  /\ UNCHANGED <<duty, debt>>

\* Somebody goes on with a handover that is being undone: nothing is promised
\* any more.  It cannot happen to one that is sealed or done.
Muddle ==
  /\ phase \in {"undoing", "undone", "muddled"}
  /\ phase' = "muddled"

Next ==
  \/ Join \/ Seal \/ Retire \/ Finish \/ Abandon
  \/ TurnBack \/ Withdraw \/ PassOver \/ Close \/ Muddle

Spec == Init /\ [][Next]_<<duty, phase, debt>>
=============================================================================
