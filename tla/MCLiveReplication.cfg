SPECIFICATION ColdStartsAloneSpec
CONSTANTS
  SecondsToIgnore = 3
  Overlap = 1
  KeepTime = 10
  StampLag = 1
  CommitLag = 1
  Syncers = {s1, s2}
  Readers = {}
  ReaderTypes <- NoReaders
  Options <- FollowOnly
  MaxChanges = 3
  MaxEditClock = 1
  MaxClock = 4
  s1 = s1
  s2 = s2
  edits = edits
  all = all
INVARIANTS NoGap
PROPERTIES NoLateRow
