SPECIFICATION MessagesSpec
CONSTANTS
  HistoryLimit = 4
  MaxTalkEdits = 5
  MaxMessageErrors = 2
CHECK_DEADLOCK FALSE
INVARIANT LostPostsAreExamined
