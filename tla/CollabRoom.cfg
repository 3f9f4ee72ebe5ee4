\* Two sockets; three expiries, or an expiry and two handlers at a time.
SPECIFICATION Spec
CONSTANTS
  Sid = {s1, s2}
  Greenlet = {g1, g2}
  MaxTrouble = 3
  None = None
INVARIANT Agreement
PROPERTIES LeaderStays LeaderRecovers
CHECK_DEADLOCK FALSE
