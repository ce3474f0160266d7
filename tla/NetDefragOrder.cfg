CONSTANTS
  UNIT = 2
  IP_MAXUDP = 22
  Datagrams <- MCDatagrams
  Length <- MCLength
  ip_id <- MCIds
  FRAG = 4
  FirstFirst = FALSE
  LateCopies = FALSE
SPECIFICATION Spec
CHECK_DEADLOCK FALSE
INVARIANT ReturnedIsComplete
