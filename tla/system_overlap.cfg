CONSTANTS
  Api = {a1, a2}
  MaxMissed = 2
  MaxOverlap = 2
  MaxCodes = 1
  MaxSetbacks = 0
SPECIFICATION SystemSpec
PROPERTIES OnlyDeactivationClears
