CONSTANTS
  u1 = u1
  u2 = u2
  H = H
  Users <- OneUser
  MaxMsgs = 1
SPECIFICATION SafeSpec
INVARIANT FreeIsSafe
CHECK_DEADLOCK FALSE
