SPECIFICATION Spec
CONSTANTS
  Drivers = {"dshow", "avfoundation", "v4l2"}
  Roots = {"cam", "loop"}
  Forms = {"plain", "capital"}
  Plain = "plain"
  Keywords <- MCKeywords
  Lines <- MCLines
  ServerNames <- MCServerNames
  MaxDevices = 4
INVARIANTS
  IdsDistinct
  LostEnablesClash
