SPECIFICATION MCSpec
CONSTANTS
  OnDisconnect = "reset"
  BeamEvidenceReports = 0
  MaxRounds = 5
  SlowAnswers = TRUE
  OthersCommand = {TRUE, FALSE}
  SlowingWords = {"Run", "Hold"}
  Faults = {"port", "abort"}
  MaxAsks = 2
  MaxWire = 1
  MaxGone = 1
CONSTRAINT StopUndisturbed
INVARIANT TypeOK
PROPERTY EachRungOnce BeamAddressed ToggleNeverLights OnlyAHoldIsEarly QuietEndIsDark
CHECK_DEADLOCK FALSE
