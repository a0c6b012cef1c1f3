SPECIFICATION Spec
CONSTANTS
  Threads = {t1, t2}
  LastDay = 2
  Counters = {3}
  MaxTalkRevid = 4
  MaxFailures = 1
  Posts <- MCPosts
  Templates <- MCTemplates
  Requests = {q1, q2}
  LastMonth = 3
  Watched = 1
  MaxRequestEdits = 4
  MaxRequestErrors = 2
  Titles = {p1, p2}
  FirstTitles = {p1}
  OtherTitles = {other}
  SubpageNames = {talk1}
  NoRedirectNames = {}
  MaxMoves = 3
  MaxMoveErrors = 1
  Subscribers <- MCSubscribers
  KeepOld = {}
  FlowBoards = {"r"}
  OtherPages = {"r"}
  LastIssue = 3
  MaxPageEdits = 1
  MaxPostErrors = 1
  Articles = {a1, a2}
  MainTitles = {m1, m2}
  DraftTitles = {d1}
  MaxBatch = 2
  MaxDraftErrors = 1
  Drafts = {d1, d3}
  StandardDraft = d3
  DraftWorkers = {w1, w2}
  BannerLimit = 1
  MaxPeopleEdits = 1
  MaxHandlerErrors = 1
  HistoryLimit = 3
  MaxTalkEdits = 4
  MaxMessageErrors = 1
  FeaturedArticles = {f1}
  NoArticle = other
  LastTime = 3
  DayLength = 3
  Delay = 1
  Trust = 2
  MaxSourceEdits = 2
  MaxMainPageErrors = 1

CHECK_DEADLOCK FALSE
INVARIANTS NothingIsLost ArchivesHaveNoHole StableMeansNothingToDo RequestsInOnePlace SubpagesFollowTheirPage
  OneMessagePerIssue PublishedDraftsAreListed NoticesAreNotRepeated RepliesOnceAndAlone StaleTargetsArePending
PROPERTIES RepliesSurvive
