SPECIFICATION Spec
CONSTANTS
  Devices = {d1}
  Letters = {"x", "y"}
  MaxName = 5
  Ids = {1, 2}
INVARIANTS
  SafeNames
  SpacedNamesAgree
