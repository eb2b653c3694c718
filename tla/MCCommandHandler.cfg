SPECIFICATION HandlerSpec
CONSTANTS
  cam1 = cam1
  cam2 = cam2
  mic = mic
  pcam = pcam
  pghost = pghost
  amic = amic
  aghost = aghost
  lens = lens
  ghost = ghost
  Types = {"video", "audio"}
  Devices <- MCDevices
  Names <- MCNames
  Ids = {1, 2}
  NameOf <- MCNameOf
  TypeOf <- MCTypeOf
  Cached <- MCCached
  Placeholder <- MCPlaceholder
  MapChoices <- MCMapChoices
  RtmpDebug = {FALSE}
INVARIANTS
  NoNamesakes
PROPERTIES
  DisableLeavesNone
