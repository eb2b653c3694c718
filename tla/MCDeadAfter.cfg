SPECIFICATION Spec
CONSTANTS
  a = a
  b = b
  None = None
  Types = {"video"}
  Devices <- MCDevices
  Names <- MCDevices
  Ids = {1, 2}
  NameOf <- MCNameOf
  TypeOf <- MCTypeOf
  Cached <- MCCached
  Placeholder <- MCPlaceholder
  MapChoices <- MCMapChoices
  Procs = {1, 2, 3, 4}
  MaxFailures = 5
  Flaky = {b}
  RtmpDebug = {TRUE, FALSE}
INVARIANT
  DeadAfterMaxFailures
