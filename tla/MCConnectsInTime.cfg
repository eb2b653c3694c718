SPECIFICATION LifeSpec
CONSTANTS
  Procs = {p1, p2}
  EnumTimeout = 30
  MockWait = 3
  ReadWait = 1
  MaxLines = 2
  LineWait = 10
  RtmpWait = 1
  ConnectLimit = 20
PROPERTY
  ConnectsInTime
