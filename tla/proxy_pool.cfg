SPECIFICATION Spec
CONSTANTS
  m1 = m1
  m2 = m2
  m3 = m3
  Manager <- ThreeManagers
  NoManager = NoManager
  MaxLease = 2
  MaxFaults = 1
SYMMETRY KeySymmetry
INVARIANTS LinksAgree SharedIsChosen OneLeaseAfterAssign UsedIsRenewed
