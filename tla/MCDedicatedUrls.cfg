SPECIFICATION Spec
CONSTANTS
  Devices = {d1, d2}
  Letters = {"x"}
  MaxName = 2
  Ids = {1, 2}
INVARIANTS
  DedicatedUrls
