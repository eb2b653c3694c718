SPECIFICATION Spec
CONSTANTS
  Devices = {d1, d2}
  Letters = {"x"}
  MaxName = 1
  Ids = {1, 2}
INVARIANTS
  NamedAsServer
