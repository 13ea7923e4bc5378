SPECIFICATION SessionsSpec
CONSTANTS
  p1 = p1
  p2 = p2
  p3 = p3
  Pid = {p1, p2, p3}
  NoPid = NoPid
  a1 = a1
  Anon = {}
  NoSid = NoSid
  u1 = u1
  u2 = u2
  Program = {u1, u2}
  MaxUnclear = 1
CHECK_DEADLOCK FALSE
PROPERTY
  SidEndsExactClaim
