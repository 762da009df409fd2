SPECIFICATION FairSpec
CONSTANTS
  Adders = {device, ladder}
  Joined = {device}
  Closers = {run}
  Events = {alarm, error, client}
  Kept = {alarm, error}
  NoEvent = none
  Depth = 2
  QueueMax = 2
  FileMax = 2
  Faults = {"power", "open", "rename"}
  MaxEvents = 4
  MaxFaults = 1
INVARIANT TypeOK RingIsRecent Accounted Bounded NothingLeftBehind
PROPERTY CloseEnds
