SPECIFICATION Spec
CONSTANTS
  SecondsToIgnore = 3
  Overlap = 1
  KeepTime = 1
  StampLag = 1
  CommitLag = 1
  Syncers = {s1}
  Readers = {edits}
  ReaderTypes <- EditsReader
  Options <- AllOptions
  MaxChanges = 2
  MaxEditClock = 4
  MaxClock = 5
  s1 = s1
  s2 = s2
  edits = edits
  all = all
INVARIANTS TypeOK ReaderComplete
PROPERTIES FeedSpec
