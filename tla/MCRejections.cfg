SPECIFICATION Spec
CONSTANTS
  m1 = m1
  m2 = m2
  NoMaps = NoMaps
  NoToken = NoToken
  MapChoices <- MCMapChoices
  InitialBackoff = 1
  MaxBackoff = 3
  MaxData = 3
  MaxInbox = 2
INVARIANT
  RejectionsBackOff
