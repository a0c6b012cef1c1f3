SPECIFICATION AlgorithmsSpec
CONSTANTS
  Queues <- MCQueues
  MaxRows = 3
  MaxPriority = 1
  MaxDate = 1
  MaxDepth = 7
  Chunks <- MCChunks
  TagChunks <- MCTagChunks
  DeepOpening <- MCDeepOpening
  MaxChunks = 5
  MaxTagged = 4
  SiteAnswer <- MCSiteAnswer
  Capital <- MCCapital
  TitleSymbols <- MCTitleSymbols
  MaxTitleSymbols = 4
  FieldSymbols <- MCFieldSymbols
  MaxFieldSymbols = 4
  MarkerChunks <- MCMarkerChunks
  MaxMarkerChunks = 4
  NewSections <- MCNewSections
  ApiLimit = 3
  Limits <- MCLimits
  ItemDates = {0, 2, 3}
  MaxKey = 4
  MaxListChanges = 1
  Asked <- MCAsked
  NormalForm <- MCNormalForm
  RedirectMaps <- MCRedirectMaps
  PropsOf <- MCPropsOf
  UnknownProtections = {2}
  BadTitles = {"bad"}
  SpecialTitles = {"special"}
  InterwikiTitles = {"iw"}
  TitlesLimit = 2
  Epochs <- MCEpochs
  Delays = {0, 3600, 2592000}
  WrittenWords <- MCWrittenWords
  FutureDelay = 8040
  MaxNotes = 2
  Bytes <- MCBytes
  MaxBytes = 4
  Keys <- MCKeys
  Strings <- MCStrings
  Paths <- MCPaths
  MaxChanges = 2
  JsonChunks <- MCJsonChunks
  MaxJsonChunks = 4
INVARIANTS VisitsInOrder ParsesInTwoPasses TitlesNormalizeOnce NodesReadBack MarkersAreRespected ListIsReadOnce PagesAreReadCompletely DatesReadBack JsonReadsBack
CHECK_DEADLOCK FALSE
