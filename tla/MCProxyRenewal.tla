--------------------------- MODULE MCProxyRenewal ---------------------------
(* Small instances of ProxyRenewal for TLC.                                *)
EXTENDS ProxyRenewal

CONSTANT l1

OneLease == {l1}
Engines  == {"autorenew", "auto"}
=============================================================================
