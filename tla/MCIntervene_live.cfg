SPECIFICATION MCFairSpec
CONSTANTS
  OnDisconnect = "hold"
  BeamEvidenceReports = 0
  MaxRounds = 5
  SlowAnswers = FALSE
  OthersCommand = {FALSE}
  SlowingWords = {"Run", "Hold"}
  Faults = {"port"}
  MaxAsks = 2
  MaxWire = 1
  MaxGone = 1
PROPERTY LadderEnds UnattendedBeamGoesOut
CHECK_DEADLOCK FALSE
