SPECIFICATION Spec
CONSTANTS
  Cameras = {c1, c2}
  Microphones = {m1}
  Builds <- MCBuilds
  VideoPriority <- MCVideoPriority
  AudioPriority <- MCAudioPriority
  PreferredSizes <- MCPreferredSizes
  PreferredRates <- MCPreferredRates
  PreferredFormats <- MCPreferredFormats
  Offers <- MCOffers
INVARIANTS
  MfPreferred
