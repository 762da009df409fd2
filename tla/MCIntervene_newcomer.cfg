SPECIFICATION Spec
CONSTANTS
  OnDisconnect = "reset"
  BeamEvidenceReports = 0
  MaxRounds = 5
  SlowAnswers = FALSE
  OthersCommand = {FALSE}
  SlowingWords = {"Run", "Hold"}
  Faults = {}
  MaxAsks = 2
  MaxWire = 1
  MaxGone = 1
PROPERTY NewcomerEndsTheWait
CHECK_DEADLOCK FALSE
