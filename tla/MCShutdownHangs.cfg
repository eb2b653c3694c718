SPECIFICATION FairSpec
CONSTANTS
  a = a
  b = b
  None = None
  Types = {"video"}
  Devices <- MCDevice
  Names <- MCDevice
  Ids = {1}
  NameOf <- MCNameOfA
  TypeOf <- MCTypeOfA
  Cached <- MCCachedA
  Placeholder <- MCPlaceholderA
  MapChoices <- MCMapChoicesA
  Procs = {1, 2, 3}
  MaxFailures = 1
  Flaky = {}
  RtmpDebug = {TRUE, FALSE}
PROPERTY
  ShutdownCompletes
