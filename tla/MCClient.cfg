CONSTANTS
  u1 = u1
  u2 = u2
  H = H
  Users <- TwoUsers
  MaxMsgs = 2
SPECIFICATION Spec
INVARIANTS TypeOK DoneMeansDown OneReaper ToldWhenDown
PROPERTIES SilentAfterEnd  HandlerLeaves
CHECK_DEADLOCK FALSE
