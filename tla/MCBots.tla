-------------------------------- MODULE MCBots --------------------------------
(***************************************************************************)
(* The bots share nothing but the wiki, and each edits pages of its own:   *)
(* every behaviour is one of a single bot, chosen at the start.            *)
(***************************************************************************)
EXTENDS TalkArchiver, BotRequests, SubpagesMover, Newsletters, PublishedDrafts, ArticleToDraft,
        LostMessages, MainPage

VARIABLE bot

AllBots == {"archiver", "requests", "subpages", "newsletters", "drafts", "articles", "messages", "main page"}

MCTemplates ==
  LET Parameters(algos, left, toArchive, numbered, tracking) ==
        [algos |-> algos, minLeft |-> left, minToArchive |-> toArchive, numbered |-> numbered,
         maxSize |-> 1, tracking |-> tracking, subpage |-> TRUE]
      Algo(name, age) == [name |-> name, age |-> age]
  IN  {Parameters({Algo("old", 1), Algo("erasenewsletters", 0)}, 0, 1, TRUE, FALSE),
       Parameters({Algo("oldtitle", 1)}, NotSet, NotSet, FALSE, TRUE)}

MCPosts ==
  LET Thread(level, kind, signed) == [level |-> level, kind |-> kind, signed |-> signed]
  IN  {Thread(1, "talk", TRUE), Thread(2, "talk", FALSE), Thread(2, "newsletter", TRUE), Thread(2, "dated", TRUE)}

MCSubscribers == <<"p", "q">>

Init ==
  /\ bot \in AllBots
  /\ ArchiverInit /\ RequestsInit /\ MoverInit /\ NewslettersInit
  /\ DraftsInit /\ ArticleInit /\ MessagesInit /\ MainPageInit

\* The variables of the other bots.
Others(name) ==
  /\ bot = name /\ UNCHANGED bot
  /\ name # "archiver" => UNCHANGED archiverVars
  /\ name # "requests" => UNCHANGED requestVars
  /\ name # "subpages" => UNCHANGED moverVars
  /\ name # "newsletters" => UNCHANGED newsletterVars
  /\ name # "drafts" => UNCHANGED draftVars
  /\ name # "articles" => UNCHANGED articleVars
  /\ name # "messages" => UNCHANGED messageVars
  /\ name # "main page" => UNCHANGED mainPageVars

Next ==
  \/ Others("archiver") /\ ArchiverNext
  \/ Others("requests") /\ RequestsNext
  \/ Others("subpages") /\ MoverNext
  \/ Others("newsletters") /\ NewslettersNext
  \/ Others("drafts") /\ DraftsNext
  \/ Others("articles") /\ ArticleNext
  \/ Others("messages") /\ MessagesNext
  \/ Others("main page") /\ MainPageNext

Spec == Init /\ [][Next]_<<bot, archiverVars, requestVars, moverVars, newsletterVars, draftVars,
                           articleVars, messageVars, mainPageVars>>
===============================================================================
