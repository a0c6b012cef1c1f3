---------------------------- MODULE EditorsProofs ----------------------------
(***************************************************************************)
(* Proofs about the bots that write to users and about those that keep a   *)
(* page up to date from what happens on others: ArticleToDraft, for any    *)
(* drafts, runners and limit, LostMessages, Newsletters, MainPage, for any *)
(* articles, length of the day and delays, and PublishedDrafts, for any    *)
(* articles and titles.                                                    *)
(***************************************************************************)
EXTENDS ArticleToDraft, LostMessages, Newsletters, MainPage, PublishedDrafts, Lemmas,
        SequenceTheorems, TLAPS

---------------------------------------------------------------------------
(* The handler of articles turned into drafts.                             *)

AllDrafts == Drafts \cup {StandardDraft}

ArticleTypeOK ==
  /\ talk \in [drafts : Seq(AllDrafts), index : {"none", "old", "recent"},
               kind : {"text", "redirect", "excluded"}]
  /\ draftPage \in [banners : Seq(AllDrafts), kind : {"text", "to_article", "redirect", "excluded"}]
  /\ worker \in [DraftWorkers -> [step : {"idle", "read_talk", "talk", "read_draft", "draft"},
                                  draft : AllDrafts, stale : BOOLEAN]]

\* What a runner saw before its write is still true if no other write made it stale.
ReadsAreFresh ==
  \A w \in DraftWorkers : ~worker[w].stale =>
    /\ worker[w].step = "talk" => \A i \in DOMAIN talk.drafts : talk.drafts[i] # worker[w].draft
    /\ worker[w].step = "draft" =>
         /\ \A i \in DOMAIN draftPage.banners : draftPage.banners[i] # worker[w].draft
         /\ Len(draftPage.banners) < BannerLimit

ArticleInv == ArticleTypeOK /\ ReadsAreFresh /\ NoticesAreNotRepeated

LEMMA ArticleInvInit == ArticleInit => ArticleInv
<1> SUFFICES ASSUME ArticleInit  PROVE ArticleInv
  OBVIOUS
<1>1. ArticleTypeOK
  BY DEF ArticleInit, ArticleTypeOK, NoWork, AllDrafts
<1>2. ReadsAreFresh
  BY DEF ArticleInit, ReadsAreFresh, NoWork
<1>3. NoticesAreNotRepeated
  BY BannerLimitAssumption DEF ArticleInit, NoticesAreNotRepeated, IsInjective
<1> QED BY <1>1, <1>2, <1>3 DEF ArticleInv

\* The other runners keep their job and only become stale.
LEMMA StaleWorkers ==
  ASSUME ArticleTypeOK, NEW step
  PROVE  /\ Stale(step) \in [DraftWorkers -> [step : {"idle", "read_talk", "talk", "read_draft", "draft"},
                                              draft : AllDrafts, stale : BOOLEAN]]
         /\ \A w \in DraftWorkers :
              /\ Stale(step)[w].step = worker[w].step /\ Stale(step)[w].draft = worker[w].draft
              /\ worker[w].stale \/ worker[w].step = step => Stale(step)[w].stale
              /\ worker[w].step # step => Stale(step)[w] = worker[w]
  BY DEF ArticleTypeOK, Stale

LEMMA ArticleInvStep == ArticleInv /\ [ArticleNext]_articleVars => ArticleInv'
<1> SUFFICES ASSUME ArticleInv, [ArticleNext]_articleVars  PROVE ArticleInv'
  OBVIOUS
<1> USE DEF ArticleInv
<1> DEFINE Steps == {"idle", "read_talk", "talk", "read_draft", "draft"}
           Works == [step : Steps, draft : AllDrafts, stale : BOOLEAN]
<1>1. ASSUME NEW i \in {"none", "old", "recent"}, NEW k \in {"text", "redirect", "excluded"}, NEW c \in BOOLEAN,
             EditTalk(i, k, c)
      PROVE  ArticleInv'
  <2>1. talk' \in [drafts : Seq(AllDrafts), index : {"none", "old", "recent"},
                   kind : {"text", "redirect", "excluded"}]
    BY <1>1 DEF EditTalk, ArticleTypeOK
  <2>2. talk'.drafts = <<>> \/ talk'.drafts = talk.drafts
    BY <1>1 DEF EditTalk
  <2>3. draftPage' = draftPage /\ worker' = Stale("talk")
    BY <1>1 DEF EditTalk
  <2>4. ArticleTypeOK'
    BY <2>1, <2>3, StaleWorkers DEF ArticleTypeOK
  <2>5. ReadsAreFresh'
    BY <2>3, StaleWorkers DEF ReadsAreFresh, ArticleTypeOK
  <2>6. NoticesAreNotRepeated'
    BY <2>2, <2>3 DEF NoticesAreNotRepeated, IsInjective
  <2> QED BY <2>4, <2>5, <2>6
<1>2. ASSUME NEW k \in {"text", "to_article", "redirect", "excluded"}, EditDraft(k)
      PROVE  ArticleInv'
  <2>1. draftPage' \in [banners : Seq(AllDrafts), kind : {"text", "to_article", "redirect", "excluded"}]
    BY <1>2 DEF EditDraft, ArticleTypeOK
  <2>2. draftPage'.banners = <<>> \/ draftPage'.banners = draftPage.banners
    BY <1>2 DEF EditDraft
  <2>3. talk' = talk /\ worker' = Stale("draft")
    BY <1>2 DEF EditDraft
  <2>4. ArticleTypeOK'
    BY <2>1, <2>3, StaleWorkers DEF ArticleTypeOK
  <2>5. ReadsAreFresh'
    BY <2>3, StaleWorkers DEF ReadsAreFresh, ArticleTypeOK
  <2>6. NoticesAreNotRepeated'
    BY <2>2, <2>3, BannerLimitAssumption DEF NoticesAreNotRepeated, IsInjective
  <2> QED BY <2>4, <2>5, <2>6
\* A runner that writes nothing: only what it is about to write matters.
<1>3. ASSUME NEW w \in DraftWorkers, NEW work \in Works, UNCHANGED <<talk, draftPage>>,
             worker' = [worker EXCEPT ![w] = work],
             work.step = "talk" => \A i \in DOMAIN talk.drafts : talk.drafts[i] # work.draft,
             work.step = "draft" => /\ \A i \in DOMAIN draftPage.banners : draftPage.banners[i] # work.draft
                                    /\ Len(draftPage.banners) < BannerLimit
      PROVE  ArticleInv'
  <2>1. ArticleTypeOK'
    BY <1>3 DEF ArticleTypeOK
  <2>2. ReadsAreFresh'
    BY <1>3 DEF ReadsAreFresh, ArticleTypeOK
  <2>3. NoticesAreNotRepeated'
    BY <1>3 DEF NoticesAreNotRepeated, IsInjective
  <2> QED BY <2>1, <2>2, <2>3
<1>4. NoWork \in Works /\ NoWork.step = "idle"
  BY DEF NoWork, AllDrafts
<1>5. ASSUME NEW w \in DraftWorkers, NEW draft \in Drafts, NEW concerned \in BOOLEAN, TakeJob(w, draft, concerned)
      PROVE  ArticleInv'
  <2>1. CASE concerned
    <3> DEFINE work == [NoWork EXCEPT !.step = "read_talk", !.draft = draft]
    <3>1. work \in Works /\ work.step = "read_talk"
      BY DEF NoWork, AllDrafts
    <3>2. worker' = [worker EXCEPT ![w] = work] /\ UNCHANGED <<talk, draftPage>>
      BY <1>5, <2>1 DEF TakeJob, Does
    <3> HIDE DEF work
    <3> QED BY <3>1, <3>2, <1>3
  <2>2. CASE ~concerned
    BY <1>5, <2>2 DEF TakeJob, ArticleTypeOK, ReadsAreFresh, NoticesAreNotRepeated
  <2> QED BY <2>1, <2>2
<1>6. ASSUME NEW w \in DraftWorkers, EndJob(w), UNCHANGED <<talk, draftPage>>
      PROVE  ArticleInv'
  BY <1>6, <1>3, <1>4 DEF EndJob, Does
<1>7. ASSUME NEW w \in DraftWorkers, NEW step \in Steps
      PROVE  /\ [worker[w] EXCEPT !.step = step] \in Works
             /\ [worker[w] EXCEPT !.step = step].step = step
             /\ [worker[w] EXCEPT !.step = step, !.stale = FALSE] \in Works
             /\ [worker[w] EXCEPT !.step = step, !.stale = FALSE].step = step
             /\ [worker[w] EXCEPT !.step = step, !.stale = FALSE].draft = worker[w].draft
  BY DEF ArticleTypeOK
<1>8. ASSUME NEW w \in DraftWorkers, NEW temporary \in BOOLEAN, ReadDraftOrEnd(w, temporary),
             UNCHANGED <<talk, draftPage>>
      PROVE  ArticleInv'
  <2>1. CASE EndJob(w)
    BY <2>1, <1>6, <1>8
  <2>2. CASE Does(w, [worker[w] EXCEPT !.step = "read_draft", !.stale = FALSE])
    BY <2>2, <1>3, <1>7, <1>8 DEF Does
  <2> QED BY <2>1, <2>2, <1>8 DEF ReadDraftOrEnd
<1>9. ASSUME NEW w \in DraftWorkers, NEW temporary \in BOOLEAN, ReadTalk(w, temporary)
      PROVE  ArticleInv'
  <2>1. UNCHANGED <<talk, draftPage>>
    BY <1>9 DEF ReadTalk
  <2>2. CASE EndJob(w)
    BY <2>1, <2>2, <1>6
  <2>3. CASE ReadDraftOrEnd(w, temporary)
    BY <2>1, <2>3, <1>8
  <2>4. CASE SendsMessage(worker[w].draft) /\ Does(w, [worker[w] EXCEPT !.step = "talk", !.stale = FALSE])
    <3>1. \A i \in DOMAIN talk.drafts : talk.drafts[i] # worker[w].draft
      BY <2>4 DEF SendsMessage, ToSet
    <3> DEFINE work == [worker[w] EXCEPT !.step = "talk", !.stale = FALSE]
    <3>2. work \in Works /\ work.step = "talk" /\ work.draft = worker[w].draft
      BY <1>7
    <3>3. worker' = [worker EXCEPT ![w] = work]
      BY <2>4 DEF Does
    <3> HIDE DEF work
    <3> QED BY <2>1, <3>1, <3>2, <3>3, <1>3
  <2> QED BY <2>2, <2>3, <2>4, <1>9 DEF ReadTalk
<1>10. ASSUME NEW w \in DraftWorkers, ReadDraft(w)
       PROVE  ArticleInv'
  <2>1. UNCHANGED <<talk, draftPage>>
    BY <1>10 DEF ReadDraft
  <2>2. CASE EndJob(w)
    BY <2>1, <2>2, <1>6
  <2>3. CASE AddsBanner(worker[w].draft) /\ Does(w, [worker[w] EXCEPT !.step = "draft", !.stale = FALSE])
    <3>1. \A i \in DOMAIN draftPage.banners : draftPage.banners[i] # worker[w].draft
      BY <2>3 DEF AddsBanner, ToSet
    <3>2. Len(draftPage.banners) < BannerLimit
      BY <2>3 DEF AddsBanner
    <3> DEFINE work == [worker[w] EXCEPT !.step = "draft", !.stale = FALSE]
    <3>3. work \in Works /\ work.step = "draft" /\ work.draft = worker[w].draft
      BY <1>7
    <3>4. worker' = [worker EXCEPT ![w] = work]
      BY <2>3 DEF Does
    <3> HIDE DEF work
    <3> QED BY <2>1, <3>1, <3>2, <3>3, <3>4, <1>3
  <2> QED BY <2>2, <2>3, <1>10 DEF ReadDraft
<1>11. ASSUME NEW w \in DraftWorkers, NEW outcome \in HandlerOutcomes, NEW temporary \in BOOLEAN,
              WriteTalk(w, outcome, temporary)
       PROVE  ArticleInv'
  <2> DEFINE written == outcome # "failed" /\ ~worker[w].stale
             others == IF written THEN Stale("talk") ELSE worker
  <2>1. draftPage' = draftPage /\ worker[w].step = "talk"
    BY <1>11 DEF WriteTalk
  <2>2. PICK work \in {NoWork, [worker[w] EXCEPT !.step = "read_talk"], [worker[w] EXCEPT !.step = "read_draft"]} :
          worker' = [others EXCEPT ![w] = work]
    BY <1>11 DEF WriteTalk
  <2>3. work \in Works /\ work.step \in {"idle", "read_talk", "read_draft"}
    <3>1. CASE work = NoWork
      BY <3>1, <1>4
    <3>2. CASE work = [worker[w] EXCEPT !.step = "read_talk"]
      BY <3>2, <1>7
    <3>3. CASE work = [worker[w] EXCEPT !.step = "read_draft"]
      BY <3>3, <1>7
    <3> QED BY <2>2, <3>1, <3>2, <3>3
  <2>4. CASE ~written
    <3>1. talk' = talk
      BY <1>11, <2>4 DEF WriteTalk
    <3>2. worker' = [worker EXCEPT ![w] = work]
      BY <2>2, <2>4
    <3> QED BY <2>1, <2>3, <3>1, <3>2, <1>3
  <2>5. CASE written
    <3>1. talk' = [talk EXCEPT !.drafts = Append(talk.drafts, worker[w].draft)]
      BY <1>11, <2>5 DEF WriteTalk
    <3>2. worker' = [Stale("talk") EXCEPT ![w] = work]
      BY <2>2, <2>5
    <3>3. talk.drafts \in Seq(AllDrafts) /\ worker[w].draft \in AllDrafts
      BY DEF ArticleTypeOK
    <3>4. talk'.drafts = Append(talk.drafts, worker[w].draft)
      BY <3>1 DEF ArticleTypeOK
    <3>5. \A i \in DOMAIN talk.drafts : talk.drafts[i] # worker[w].draft
      BY <2>1, <2>5 DEF ReadsAreFresh
    <3>6. ArticleTypeOK'
      <4>1. talk' \in [drafts : Seq(AllDrafts), index : {"none", "old", "recent"},
                       kind : {"text", "redirect", "excluded"}]
        <5> DEFINE drafts == Append(talk.drafts, worker[w].draft)
        <5>1. drafts \in Seq(AllDrafts) /\ talk' = [talk EXCEPT !.drafts = drafts]
          BY <3>1, <3>3
        <5> HIDE DEF drafts
        <5> QED BY <5>1 DEF ArticleTypeOK
      <4>2. worker' \in [DraftWorkers -> Works]
        BY <3>2, <2>3, StaleWorkers
      <4> QED BY <4>1, <4>2, <2>1 DEF ArticleTypeOK
    <3>7. ReadsAreFresh'
      BY <3>2, <2>1, <2>3, StaleWorkers DEF ReadsAreFresh, ArticleTypeOK
    <3>8. NoticesAreNotRepeated'
      BY <2>1, <3>3, <3>4, <3>5 DEF NoticesAreNotRepeated, IsInjective
    <3> QED BY <3>6, <3>7, <3>8
  <2> QED BY <2>4, <2>5
<1>12. ASSUME NEW w \in DraftWorkers, NEW outcome \in HandlerOutcomes, WriteDraft(w, outcome)
       PROVE  ArticleInv'
  <2> DEFINE written == outcome # "failed" /\ ~worker[w].stale
             others == IF written THEN Stale("draft") ELSE worker
  <2>1. talk' = talk /\ worker[w].step = "draft"
    BY <1>12 DEF WriteDraft
  <2>2. PICK work \in {NoWork, [worker[w] EXCEPT !.step = "read_draft"]} :
          worker' = [others EXCEPT ![w] = work]
    BY <1>12 DEF WriteDraft
  <2>3. work \in Works /\ work.step \in {"idle", "read_draft"}
    <3>1. CASE work = NoWork
      BY <3>1, <1>4
    <3>2. CASE work = [worker[w] EXCEPT !.step = "read_draft"]
      BY <3>2, <1>7
    <3> QED BY <2>2, <3>1, <3>2
  <2>4. CASE ~written
    <3>1. draftPage' = draftPage
      BY <1>12, <2>4 DEF WriteDraft
    <3>2. worker' = [worker EXCEPT ![w] = work]
      BY <2>2, <2>4
    <3> QED BY <2>1, <2>3, <3>1, <3>2, <1>3
  <2>5. CASE written
    <3> DEFINE banners == <<worker[w].draft>> \o draftPage.banners
    <3>1. draftPage' = [banners |-> banners, kind |-> "text"]
      BY <1>12, <2>5 DEF WriteDraft
    <3>2. worker' = [Stale("draft") EXCEPT ![w] = work]
      BY <2>2, <2>5
    <3>3. draftPage.banners \in Seq(AllDrafts) /\ worker[w].draft \in AllDrafts
      BY DEF ArticleTypeOK
    <3>4. /\ \A i \in DOMAIN draftPage.banners : draftPage.banners[i] # worker[w].draft
          /\ Len(draftPage.banners) < BannerLimit
      BY <2>1, <2>5 DEF ReadsAreFresh
    <3>5. ArticleTypeOK'
      <4>1. banners \in Seq(AllDrafts)
        BY <3>3
      <4> HIDE DEF banners
      <4>2. draftPage' \in [banners : Seq(AllDrafts), kind : {"text", "to_article", "redirect", "excluded"}]
        BY <3>1, <4>1
      <4>3. worker' \in [DraftWorkers -> Works]
        BY <3>2, <2>3, StaleWorkers
      <4> QED BY <4>2, <4>3, <2>1 DEF ArticleTypeOK
    <3>6. ReadsAreFresh'
      BY <3>2, <2>1, <2>3, StaleWorkers DEF ReadsAreFresh, ArticleTypeOK
    <3>7. Len(banners) = Len(draftPage.banners) + 1 /\ Len(draftPage.banners) \in Nat
      BY <3>3
    <3>8. \A i \in DOMAIN banners : \/ i = 1 /\ banners[i] = worker[w].draft
                                    \/ i - 1 \in DOMAIN draftPage.banners /\ banners[i] = draftPage.banners[i - 1]
      BY <3>3
    <3>9. IsInjective(banners)
      <4> HIDE DEF banners
      <4>1. \A i \in DOMAIN banners : i \in Int
        BY <3>8, <3>3
      <4> QED BY <3>4, <3>8, <4>1 DEF NoticesAreNotRepeated, IsInjective
    <3>10. NoticesAreNotRepeated'
      BY <2>1, <3>1, <3>4, <3>7, <3>9, BannerLimitAssumption DEF NoticesAreNotRepeated
    <3> QED BY <3>5, <3>6, <3>10
  <2> QED BY <2>4, <2>5
<1>13. CASE UNCHANGED articleVars
  BY <1>13 DEF articleVars, ArticleTypeOK, ReadsAreFresh, NoticesAreNotRepeated
<1> QED BY <1>1, <1>2, <1>5, <1>9, <1>10, <1>11, <1>12, <1>13 DEF ArticleNext

\* Whatever the drafts, the runners and the limit, and whenever calls fail or
\* two runners work on the same draft, the talk page has one message about each
\* draft, and the standard draft one banner about each and no more than the limit.
THEOREM NoticesAreNeverRepeated == ArticleSpec => []NoticesAreNotRepeated
<1>1. ArticleInv => NoticesAreNotRepeated
  BY DEF ArticleInv
<1> QED BY ArticleInvInit, ArticleInvStep, <1>1, PTL DEF ArticleSpec

---------------------------------------------------------------------------
(* The bot that looks for messages nobody would see.                       *)

Revisions == [author : Authors, text : Nat]

\* A post was the last revision, and only the owner and other bots had edited
\* the page: a run that is about to reply knows its post, and the revisions up
\* to the post stay what they were.
PostWasAlone ==
  /\ search.post # 0 =>
       /\ search.post \in DOMAIN history /\ AuthorOf(search.post) = "owner"
       /\ \A i \in 1 .. search.post : AuthorOf(i) \in Bots \cup {"owner"}
  /\ search.step \in {"question", "thanks", "reply"} => search.post # 0

MessagesInv ==
  /\ history \in Seq(Revisions) /\ mentorNotes \in Nat /\ search.post \in Nat
  /\ search = [step |-> search.step, upTo |-> search.upTo, toCheck |-> search.toCheck,
               ignored |-> search.ignored, post |-> search.post]
  /\ PostWasAlone /\ RepliesOnceAndAlone

LEMMA MessagesInvInit == MessagesInit => MessagesInv
  BY DEF MessagesInit, MessagesInv, NoSearch, PostWasAlone, RepliesOnceAndAlone

LEMMA MessagesInvStep == MessagesInv /\ [MessagesNext]_messageVars => MessagesInv'
<1> SUFFICES ASSUME MessagesInv, [MessagesNext]_messageVars  PROVE MessagesInv'
  OBVIOUS
<1> USE DEF MessagesInv
\* The page gets one more revision.
<1>1. ASSUME NEW revision \in Revisions, history' = Append(history, revision)
      PROVE  /\ history' \in Seq(Revisions) /\ DOMAIN history \subseteq DOMAIN history'
             /\ Len(history') = Len(history) + 1 /\ history'[Len(history')] = revision
             /\ \A i \in DOMAIN history : history'[i] = history[i]
             /\ DOMAIN history = 1 .. Len(history) /\ DOMAIN history' = 1 .. Len(history) + 1
             /\ Len(history) \in Nat
  <2>1. history \in Seq(Revisions)
    OBVIOUS
  <2> QED BY <1>1, <2>1
\* The run still knows its post, and the replies made before are what they were.
<1>2. ASSUME NEW revision \in Revisions, history' = Append(history, revision),
             search'.post = search.post,
             search'.step \in {"question", "thanks", "reply"} => search.post # 0,
             revision.author = "autoreply" => search.post # 0 /\ TextUnchanged,
             mentorNotes' = mentorNotes
      PROVE  PostWasAlone' /\ RepliesOnceAndAlone'
  <2>1. PostWasAlone'
    BY <1>1, <1>2 DEF PostWasAlone, AuthorOf
  <2>2. ASSUME NEW i \in DOMAIN history', history'[i].author = "autoreply"
        PROVE  AddedAlone(i)'
    <3>1. PICK n \in Nat : n = Len(history) /\ DOMAIN history = 1 .. n /\ DOMAIN history' = 1 .. n + 1
                           /\ history'[n + 1] = revision /\ \A k \in 1 .. n : history'[k] = history[k]
      BY <1>1, <1>2
    <3>2. CASE i \in 1 .. n
      <4>1. AddedAlone(i)
        BY <2>2, <3>1, <3>2 DEF RepliesOnceAndAlone, AuthorOf
      <4>2. PICK j \in 1 .. i - 1 : /\ history[j].author = "owner" /\ history[j].text = history[i - 1].text
                                    /\ \A k \in 1 .. j : history[k].author \in Bots \cup {"owner"}
        BY <4>1 DEF AddedAlone, AuthorOf, TextOf
      <4>3. j \in 1 .. n /\ i - 1 \in 1 .. n /\ 1 .. j \subseteq 1 .. n
        BY <3>2
      <4>4. /\ history'[j].author = "owner" /\ history'[j].text = history'[i - 1].text
            /\ \A k \in 1 .. j : history'[k].author \in Bots \cup {"owner"}
        BY <3>1, <4>2, <4>3
      <4> QED BY <4>4 DEF AddedAlone, AuthorOf, TextOf
    <3>3. CASE i = n + 1
      <4>1. PICK j \in Nat : j = search.post
        OBVIOUS
      <4>2. /\ j \in 1 .. n /\ history[j].author = "owner"
            /\ \A k \in 1 .. j : history[k].author \in Bots \cup {"owner"}
        BY <1>2, <2>2, <3>1, <3>3, <4>1 DEF PostWasAlone, AuthorOf
      <4>3. history[j].text = history[n].text
        BY <1>2, <2>2, <3>1, <3>3, <4>1 DEF TextUnchanged, TextOf
      <4>4. j \in 1 .. i - 1 /\ i - 1 = n /\ n \in 1 .. n /\ 1 .. j \subseteq 1 .. n
        BY <3>3, <4>2
      <4>5. /\ history'[j].author = "owner" /\ history'[j].text = history'[i - 1].text
            /\ \A k \in 1 .. j : history'[k].author \in Bots \cup {"owner"}
        BY <3>1, <4>2, <4>3, <4>4
      <4> QED BY <4>4, <4>5 DEF AddedAlone, AuthorOf, TextOf
    <3> QED BY <3>1, <3>2, <3>3
  <2> QED BY <1>2, <2>1, <2>2 DEF RepliesOnceAndAlone, AuthorOf
\* A step of the run that leaves the pages alone.
<1>3. ASSUME UNCHANGED <<history, mentorNotes>>, PostWasAlone', search'.post \in Nat,
             search' = [step |-> search'.step, upTo |-> search'.upTo, toCheck |-> search'.toCheck,
                        ignored |-> search'.ignored, post |-> search'.post]
      PROVE  MessagesInv'
  BY <1>3 DEF RepliesOnceAndAlone, AddedAlone, AuthorOf, TextOf
<1>4. ASSUME NEW step, Search(step)
      PROVE  /\ search' = [step |-> search'.step, upTo |-> search'.upTo, toCheck |-> search'.toCheck,
                           ignored |-> search'.ignored, post |-> search'.post]
             /\ search'.post = search.post /\ search'.step = step
  BY <1>4 DEF Search
<1>5. ASSUME NEW author \in Authors \ {"autoreply"}, NEW text \in OldTexts \cup {NewText},
             EditTalkPage(author, text)
      PROVE  MessagesInv'
  <2>1. PICK revision : /\ revision = [author |-> author, text |-> text]
                        /\ history' = Append(history, revision) /\ UNCHANGED <<search, mentorNotes>>
    BY <1>5 DEF EditTalkPage
  <2>2. text \in Nat
    <3>1. PICK h \in Seq(Revisions) : h = history
      OBVIOUS
    <3>2. \A i \in DOMAIN h : h[i] \in Revisions
      BY <3>1
    <3>3. \A i \in DOMAIN h : h[i].text \in Nat
      BY <3>2 DEF Revisions
    <3>4. CASE text \in OldTexts
      BY <3>1, <3>3, <3>4 DEF OldTexts, TextOf
    <3>5. CASE text = NewText
      BY <3>1, <3>5 DEF NewText
    <3> QED BY <3>4, <3>5
  <2>3. revision \in Revisions /\ revision.author # "autoreply"
    BY <1>5, <2>1, <2>2 DEF Revisions
  <2>4. PostWasAlone' /\ RepliesOnceAndAlone'
    BY <2>1, <2>3, <1>2 DEF PostWasAlone
  <2> QED BY <2>1, <2>3, <2>4, <1>1
<1>6. ASSUME NEW recently \in 0 .. readToken, ReadChanges(recently)
      PROVE  MessagesInv'
  <2>1. search'.step = "check" /\ search'.post = 0 /\ UNCHANGED <<history, mentorNotes>>
    BY <1>6 DEF ReadChanges, NoSearch
  <2>2. search' = [step |-> search'.step, upTo |-> search'.upTo, toCheck |-> search'.toCheck,
                   ignored |-> search'.ignored, post |-> search'.post]
    BY <1>6 DEF ReadChanges, NoSearch
  <2> QED BY <2>1, <2>2, <1>3 DEF PostWasAlone, AuthorOf
<1>7. ASSUME search' = NoSearch, UNCHANGED <<history, mentorNotes>>
      PROVE  MessagesInv'
  BY <1>7, <1>3 DEF NoSearch, PostWasAlone
<1>8. CASE CheckRevision
  <2> DEFINE revid == Head(search.toCheck)
             found == ~search.ignored /\ IsPost(revid)
  <2>1. UNCHANGED <<history, mentorNotes>> /\ search.step = "check"
    BY <1>8 DEF CheckRevision
  <2>2. /\ search' = [step |-> search'.step, upTo |-> search'.upTo, toCheck |-> search'.toCheck,
                      ignored |-> search'.ignored, post |-> search'.post]
        /\ search'.step = "check"
        /\ search'.post = search.post \/ (search'.post = revid /\ IsPost(revid))
    BY <1>8 DEF CheckRevision
  <2>3. CASE search'.post = search.post
    BY <2>1, <2>2, <2>3, <1>3 DEF PostWasAlone, AuthorOf
  <2>4. CASE search'.post = revid /\ IsPost(revid)
    <3>1. revid = Len(history) /\ AuthorOf(revid) = "owner"
      BY <2>4 DEF IsPost
    <3>2. \A i \in DOMAIN history : AuthorOf(i) \in Bots \cup {"owner"}
      BY <2>4 DEF IsPost
    <3> HIDE DEF revid
    <3>3. search'.post \in Nat /\ (search'.post # 0 => search'.post \in DOMAIN history)
      BY <2>4, <3>1
    <3>4. AuthorOf(search'.post) = "owner" /\ \A i \in 1 .. search'.post : AuthorOf(i) \in Bots \cup {"owner"}
      BY <2>4, <3>1, <3>2
    <3> QED BY <2>1, <2>2, <3>3, <3>4, <1>3 DEF PostWasAlone, AuthorOf
  <2> QED BY <2>2, <2>3, <2>4
<1>9. CASE NothingFound
  <2>1. Search("save") /\ UNCHANGED <<history, mentorNotes>>
    BY <1>9 DEF NothingFound
  <2> QED BY <2>1, <1>3, <1>4 DEF PostWasAlone, AuthorOf
<1>10. ASSUME NEW category, NEW c, NEW w, NEW o, AnalyzePost(category, c, w, o)
       PROVE  MessagesInv'
  <2>1. PICK step : Search(step)
    BY <1>10 DEF AnalyzePost
  <2>2. search.post # 0 /\ UNCHANGED <<history, mentorNotes>>
    BY <1>10 DEF AnalyzePost
  <2> QED BY <2>1, <2>2, <1>3, <1>4 DEF PostWasAlone, AuthorOf
<1>11. ASSUME NEW available \in BOOLEAN, NEW outcome, PostToMentor(available, outcome)
       PROVE  MessagesInv'
  <2>1. /\ history' = history
        /\ mentorNotes' = mentorNotes \/ (mentorNotes = 0 /\ mentorNotes' = mentorNotes + 1)
    BY <1>11 DEF PostToMentor
  <2>2. history' = history /\ search.post # 0 /\ \E step : Search(step)
    BY <1>11 DEF PostToMentor, PostWasAlone
  <2>3. PostWasAlone'
    BY <2>2, <1>4 DEF PostWasAlone, AuthorOf
  <2>4. RepliesOnceAndAlone' /\ mentorNotes' \in Nat
    BY <2>1, <2>2 DEF RepliesOnceAndAlone, AddedAlone, AuthorOf, TextOf
  <2> QED BY <2>2, <2>3, <2>4, <1>4
<1>12. ASSUME NEW outcome, ReplyOnPage(outcome)
       PROVE  MessagesInv'
  <2>1. PICK step : /\ mentorNotes' = mentorNotes /\ Search(step)
    BY <1>12 DEF ReplyOnPage
  <2>2. search.post # 0
    BY <1>12 DEF ReplyOnPage, PostWasAlone
  <2>3. CASE history' = history
    BY <2>1, <2>2, <2>3, <1>3, <1>4 DEF PostWasAlone, AuthorOf
  <2>4. CASE history' # history
    <3>1. PICK revision : /\ revision = [author |-> "autoreply", text |-> NewText]
                          /\ history' = Append(history, revision) /\ TextUnchanged
      BY <1>12, <2>4 DEF ReplyOnPage
    <3>2. revision \in Revisions
      BY <3>1 DEF Revisions, Authors, NewText
    <3>3. PostWasAlone' /\ RepliesOnceAndAlone'
      BY <2>1, <2>2, <3>1, <3>2, <1>2, <1>4
    <3> QED BY <2>1, <3>1, <3>2, <3>3, <1>1, <1>4
  <2> QED BY <2>3, <2>4
<1>13. ASSUME NEW outcome, LogPost(outcome)
       PROVE  MessagesInv'
  <2>1. UNCHANGED <<history, mentorNotes>> /\ (search' = NoSearch \/ Search("save"))
    BY <1>13 DEF LogPost, Search
  <2>2. CASE search' = NoSearch
    BY <2>1, <2>2, <1>7
  <2>3. CASE Search("save")
    BY <2>1, <2>3, <1>3, <1>4 DEF PostWasAlone, AuthorOf
  <2> QED BY <2>1, <2>2, <2>3
<1>14. CASE SaveToken
  BY <1>14, <1>7 DEF SaveToken
<1>15. CASE SearchCrashes
  BY <1>15, <1>7 DEF SearchCrashes
<1>16. CASE UNCHANGED messageVars
  <2>1. UNCHANGED <<history, mentorNotes, search>>
    BY <1>16 DEF messageVars
  <2> QED BY <2>1 DEF PostWasAlone, RepliesOnceAndAlone, AddedAlone, AuthorOf, TextOf
<1> QED BY <1>5, <1>6, <1>8, <1>9, <1>10, <1>11, <1>12, <1>13, <1>14, <1>15, <1>16 DEF MessagesNext

\* However long the history, whoever edits the page or undoes edits while a run
\* reads, classifies and replies, and whichever calls fail or runs crash: every
\* reply is added to a text that the user and bots alone had written, and the
\* mentor has at most one message.
THEOREM RepliesAreAlone == MessagesSpec => []RepliesOnceAndAlone
<1>1. MessagesInv => RepliesOnceAndAlone
  BY DEF MessagesInv
<1> QED BY MessagesInvInit, MessagesInvStep, <1>1, PTL DEF MessagesSpec
---------------------------------------------------------------------------
(* The distributor of newsletters.                                         *)

Sections == [issue : Int, changed : BOOLEAN]
Jobs == [step : {"idle", "check", "read", "write"}, issue : Int, force : BOOLEAN,
         todo : Seq(SubscriberPages), target : SubscriberPages \cup {NoPage},
         flow : BOOLEAN, fresh : BOOLEAN, content : Seq(Sections)]

NewslettersTypeOK ==
  /\ sections \in [SubscriberPages -> Seq(Sections)] /\ boards \subseteq SubscriberPages
  /\ redirect \in [SubscriberPages -> SubscriberPages \cup {NoPage}]
  /\ newMove \in [issue : Int, allowed : BOOLEAN]
  /\ job \in Jobs /\ (job.step = "write" => job.todo # <<>>)

OnePerIssue(content) == \A i, j \in DOMAIN content : content[i].issue = content[j].issue => i = j
RepliedIn(content) == {s \in ToSet(content) : s.changed}

\* A page left for another one is only a redirect.
RedirectsAreEmpty == \A p \in SubscriberPages : redirect[p] # NoPage => sections[p] = <<>>

\* What a run is about to write keeps the replies of the page, unless the page
\* changed meanwhile and the write will be refused.
WriteIsSound ==
  job.step = "write" /\ ~job.flow /\ job.fresh =>
    /\ job.target \in SubscriberPages /\ redirect[job.target] = NoPage
    /\ OnePerIssue(job.content)
    /\ RepliedIn(sections[job.target]) \subseteq RepliedIn(job.content)

NewslettersInv == NewslettersTypeOK /\ RedirectsAreEmpty /\ WriteIsSound /\ OneMessagePerIssue

RepliesStay == \A p \in SubscriberPages : Replied(p) \subseteq Replied(Target(p))'
StepIsRight == NewslettersInv' /\ RepliesStay

\* The new content of a page has all its sections with a reply and, if the page
\* did not have the issue, one message for each issue, this one included.
LEMMA NewContentIsSound ==
  ASSUME NEW content \in Seq(Sections), NEW issue \in Int, NEW deleteOld
  PROVE  /\ NewContent(content, issue, deleteOld) \in Seq(Sections)
         /\ OnePerIssue(content) /\ ~HasIssue(content, issue)
              => OnePerIssue(NewContent(content, issue, deleteOld))
         /\ RepliedIn(content) \subseteq RepliedIn(NewContent(content, issue, deleteOld))
<1> DEFINE gone == IF deleteOld THEN Removed(content, issue) ELSE {}
           places == [k \in DOMAIN content |-> k]
           kept == Selected(places, DOMAIN content \ gone)
           left == [k \in DOMAIN kept |-> content[kept[k]]]
           new == Append(left, [issue |-> issue, changed |-> FALSE])
<1>1. PICK n \in Nat : n = Len(content) /\ DOMAIN content = 1 .. n
  OBVIOUS
<1>2. /\ places \in Seq(1 .. n) /\ ToSet(places) = 1 .. n /\ IsInjective(places)
  BY <1>1 DEF ToSet, IsInjective
<1>3. \A i \in gone : ~content[i].changed
  BY DEF Removed
<1>4. kept \in Seq(1 .. n) /\ ToSet(kept) = 1 .. n \ gone /\ IsInjective(kept)
  <2> HIDE DEF places, gone
  <2>1. /\ kept \in Seq(1 .. n)
        /\ ToSet(kept) = ToSet(places) \cap (DOMAIN content \ gone)
        /\ IsInjective(places) => IsInjective(kept)
    BY <1>2, SelectedProperties
  <2> QED BY <1>1, <1>2, <2>1
<1> HIDE DEF kept, gone
<1>5. PICK m \in Nat : m = Len(kept) /\ DOMAIN kept = 1 .. m /\ \A k \in 1 .. m : kept[k] \in 1 .. n
  BY <1>4
<1>6. left \in Seq(Sections) /\ Len(left) = m /\ DOMAIN left = 1 .. m
  BY <1>1, <1>5
<1>7. \A k \in 1 .. m : left[k] = content[kept[k]]
  BY <1>5
<1> HIDE DEF left
<1>8. [issue |-> issue, changed |-> FALSE] \in Sections
  BY DEF Sections
<1>9. /\ new \in Seq(Sections) /\ DOMAIN new = 1 .. m + 1
      /\ \A k \in 1 .. m : new[k] = content[kept[k]]
      /\ new[m + 1] = [issue |-> issue, changed |-> FALSE]
  BY <1>6, <1>7, <1>8
<1>10. NewContent(content, issue, deleteOld) = new
  BY DEF NewContent, left, kept, gone
<1> HIDE DEF new
<1>11. ASSUME OnePerIssue(content), ~HasIssue(content, issue)  PROVE OnePerIssue(new)
  <2>1. \A k \in 1 .. m : new[k].issue # issue
    BY <1>1, <1>5, <1>9, <1>11 DEF HasIssue
  <2>2. \A k, l \in 1 .. m : kept[k] = kept[l] => k = l
    BY <1>4, <1>5 DEF IsInjective
  <2>3. \A i, j \in 1 .. n : content[i].issue = content[j].issue => i = j
    BY <1>1, <1>11 DEF OnePerIssue
  <2>4. \A k, l \in 1 .. m : new[k].issue = new[l].issue => k = l
    <3> SUFFICES ASSUME NEW k \in 1 .. m, NEW l \in 1 .. m, new[k].issue = new[l].issue
                 PROVE  kept[k] = kept[l]
      BY <2>2
    <3>1. new[k] = content[kept[k]] /\ new[l] = content[kept[l]]
      BY <1>9
    <3>2. kept[k] \in 1 .. n /\ kept[l] \in 1 .. n
      BY <1>5
    <3> QED BY <2>3, <3>1, <3>2
  <2>5. new[m + 1].issue = issue /\ \A k \in 1 .. m + 1 : (k \in 1 .. m \/ k = m + 1)
    BY <1>9
  <2>6. \A k, l \in 1 .. m + 1 : new[k].issue = new[l].issue => k = l
    <3> SUFFICES ASSUME NEW k \in 1 .. m + 1, NEW l \in 1 .. m + 1, new[k].issue = new[l].issue
                 PROVE  k = l
      OBVIOUS
    <3>1. CASE k \in 1 .. m /\ l \in 1 .. m
      BY <2>4, <3>1
    <3>2. CASE k = m + 1 \/ l = m + 1
      BY <2>1, <2>5, <3>2
    <3> QED BY <2>5, <3>1, <3>2
  <2> QED BY <1>9, <2>6 DEF OnePerIssue
<1>12. RepliedIn(content) \subseteq RepliedIn(new)
  <2> SUFFICES ASSUME NEW i \in 1 .. n, content[i].changed  PROVE content[i] \in ToSet(new)
    BY <1>1 DEF RepliedIn, ToSet
  <2>1. i \in ToSet(kept)
    BY <1>3, <1>4
  <2>2. PICK k \in 1 .. m : kept[k] = i
    BY <1>5, <2>1 DEF ToSet
  <2>3. k \in DOMAIN new /\ new[k] = content[i]
    BY <1>9, <2>2
  <2> QED BY <2>3 DEF ToSet
<1> QED BY <1>9, <1>10, <1>11, <1>12

LEMMA NewslettersInvInit == NewslettersInit => NewslettersInv
<1> SUFFICES ASSUME NewslettersInit  PROVE NewslettersInv
  OBVIOUS
<1>1. NoJob \in Jobs /\ NoMove \in [issue : Int, allowed : BOOLEAN]
  BY DEF NoJob, NoMove, Jobs
<1>2. NewslettersTypeOK
  <2>1. <<>> \in Seq(Sections)
    OBVIOUS
  <2>2. /\ sections \in [SubscriberPages -> Seq(Sections)] /\ boards \subseteq SubscriberPages
        /\ redirect \in [SubscriberPages -> SubscriberPages \cup {NoPage}]
    BY <2>1, SubscribersAssumption DEF NewslettersInit
  <2>3. job.step # "write"
    BY DEF NewslettersInit, NoJob
  <2> QED BY <1>1, <2>2, <2>3 DEF NewslettersInit, NewslettersTypeOK
<1>3. RedirectsAreEmpty /\ WriteIsSound /\ OneMessagePerIssue
  BY DEF NewslettersInit, RedirectsAreEmpty, WriteIsSound, OneMessagePerIssue, NoJob
<1> QED BY <1>2, <1>3 DEF NewslettersInv

\* As long as no page changes nor loses its name, its replies stay there.
LEMMA KeptWithTheirPages ==
  ASSUME RedirectsAreEmpty, UNCHANGED <<sections, redirect>>
  PROVE  \A p \in SubscriberPages : Replied(p) \subseteq Replied(Target(p))'
<1> SUFFICES ASSUME NEW p \in SubscriberPages, NEW s \in Replied(p)  PROVE s \in Replied(Target(p))'
  OBVIOUS
<1>1. redirect[p] = NoPage
  BY DEF RedirectsAreEmpty, Replied, ToSet
<1> QED BY <1>1 DEF Replied, Target

\* A run that does not come to a write, while no page changes.
LEMMA WaitingJobKeeps ==
  ASSUME NewslettersInv, NEW new \in Jobs, job' = new, new.step # "write",
         newMove' \in [issue : Int, allowed : BOOLEAN], UNCHANGED <<sections, boards, redirect>>
  PROVE  StepIsRight
<1>1. NewslettersTypeOK'
  BY DEF NewslettersInv, NewslettersTypeOK
<1>2. RedirectsAreEmpty' /\ WriteIsSound' /\ OneMessagePerIssue'
  BY DEF NewslettersInv, RedirectsAreEmpty, WriteIsSound, OneMessagePerIssue
<1>3. \A p \in SubscriberPages : Replied(p) \subseteq Replied(Target(p))'
  BY KeptWithTheirPages DEF NewslettersInv
<1> QED BY <1>1, <1>2, <1>3 DEF NewslettersInv, StepIsRight, RepliesStay

\* A user edits pages: what a run would write is refused if it read one of them.
LEMMA EditedJob ==
  ASSUME NewslettersTypeOK, NEW edited, SubscriberEdits(edited)
  PROVE  /\ job' \in Jobs /\ newMove' = newMove
         /\ job'.step = job.step /\ job'.flow = job.flow /\ job'.target = job.target
         /\ job'.content = job.content /\ job'.todo = job.todo
         /\ job'.fresh => job.fresh /\ job.target \notin edited
<1>1. job' = IF job.target \in edited THEN [job EXCEPT !.fresh = FALSE] ELSE job
  BY DEF SubscriberEdits
<1>2. PICK o, todos, targets, contents :
        o = job /\ todos = Seq(SubscriberPages) /\ targets = SubscriberPages \cup {NoPage} /\ contents = Seq(Sections)
  OBVIOUS
<1>3. o \in [step : {"idle", "check", "read", "write"}, issue : Int, force : BOOLEAN, todo : todos,
             target : targets, flow : BOOLEAN, fresh : BOOLEAN, content : contents]
  BY <1>2 DEF NewslettersTypeOK, Jobs
<1>4. PICK new : new = job' /\ new = IF o.target \in edited THEN [o EXCEPT !.fresh = FALSE] ELSE o
  BY <1>1, <1>2
<1>5. new \in [step : {"idle", "check", "read", "write"}, issue : Int, force : BOOLEAN, todo : todos,
               target : targets, flow : BOOLEAN, fresh : BOOLEAN, content : contents]
  BY <1>3, <1>4
<1>6. /\ new.step = o.step /\ new.flow = o.flow /\ new.target = o.target /\ new.content = o.content
      /\ new.todo = o.todo
      /\ new.fresh => o.fresh /\ o.target \notin edited
  BY <1>3, <1>4
<1>7. job' \in Jobs
  BY <1>2, <1>4, <1>5 DEF Jobs
<1>8. newMove' = newMove
  BY DEF SubscriberEdits
<1> QED BY <1>2, <1>4, <1>6, <1>7, <1>8

LEMMA ReplyKeeps ==
  ASSUME NewslettersInv, NEW p \in SubscriberPages, NEW i \in DOMAIN sections[p], ReplyToMessage(p, i)
  PROVE  StepIsRight
<1>1. /\ SubscriberEdits({p}) /\ ~sections[p][i].changed /\ UNCHANGED <<boards, redirect>>
      /\ sections' = [sections EXCEPT ![p][i].changed = TRUE]
  BY DEF ReplyToMessage
<1>2. /\ job' \in Jobs /\ newMove' = newMove
      /\ job'.step = job.step /\ job'.flow = job.flow /\ job'.target = job.target
      /\ job'.content = job.content /\ job'.todo = job.todo
      /\ job'.fresh => job.fresh /\ job.target \notin {p}
  BY <1>1, EditedJob DEF NewslettersInv
<1>3. PICK old, new : /\ old = sections[p] /\ old \in Seq(Sections)
                      /\ new = [old EXCEPT ![i].changed = TRUE] /\ sections' = [sections EXCEPT ![p] = new]
  BY <1>1 DEF NewslettersInv, NewslettersTypeOK
<1>4. /\ new \in Seq(Sections) /\ DOMAIN new = DOMAIN old
      /\ \A k \in DOMAIN old : new[k].issue = old[k].issue /\ (k # i => new[k] = old[k])
  <2>1. PICK o \in Sections : o = old[i]
    BY <1>3
  <2>2. PICK s : s = [o EXCEPT !.changed = TRUE]
    OBVIOUS
  <2>3. s \in Sections /\ s.issue = o.issue
    BY <2>2 DEF Sections
  <2>4. new = [old EXCEPT ![i] = s]
    BY <1>3, <2>1, <2>2
  <2>5. new \in Seq(Sections)
    <3>1. PICK n \in Nat : DOMAIN old = 1 .. n /\ old \in [1 .. n -> Sections]
      BY <1>3
    <3>2. new \in [1 .. n -> Sections]
      BY <2>3, <2>4, <3>1
    <3> QED BY <3>2
  <2>6. DOMAIN new = DOMAIN old /\ new[i] = s /\ \A k \in DOMAIN old : k # i => new[k] = old[k]
    BY <1>3, <2>4
  <2> QED BY <2>1, <2>3, <2>5, <2>6
<1>5. /\ sections' \in [SubscriberPages -> Seq(Sections)] /\ sections'[p] = new
      /\ \A q \in SubscriberPages : q # p => sections'[q] = sections[q]
  BY <1>3, <1>4 DEF NewslettersInv, NewslettersTypeOK
<1>6. NewslettersTypeOK'
  BY <1>1, <1>2, <1>5 DEF NewslettersInv, NewslettersTypeOK
<1>7. RedirectsAreEmpty'
  <2>1. redirect[p] = NoPage
    BY <1>3 DEF NewslettersInv, RedirectsAreEmpty
  <2> QED BY <1>1, <1>5, <2>1 DEF NewslettersInv, RedirectsAreEmpty
<1>8. WriteIsSound'
  BY <1>1, <1>2, <1>5 DEF NewslettersInv, WriteIsSound
<1>9. OneMessagePerIssue'
  <2>1. \A k, l \in DOMAIN old : old[k].issue = old[l].issue => k = l
    BY <1>3 DEF NewslettersInv, OneMessagePerIssue
  <2>2. \A k, l \in DOMAIN new : new[k].issue = new[l].issue => k = l
    BY <1>4, <2>1
  <2> QED BY <1>5, <2>2 DEF NewslettersInv, OneMessagePerIssue
<1>10. ASSUME NEW q \in SubscriberPages, NEW s \in Replied(q)
       PROVE  s \in Replied(Target(q))'
  <2>1. redirect[q] = NoPage
    BY <1>10 DEF NewslettersInv, RedirectsAreEmpty, Replied, ToSet
  <2>2. Target(q)' = q
    BY <1>1, <2>1 DEF Target
  <2>3. CASE q # p
    BY <1>5, <1>10, <2>2, <2>3 DEF Replied
  <2>4. CASE q = p
    <3>1. PICK k \in DOMAIN old : s = old[k] /\ s.changed
      BY <1>3, <1>10, <2>4 DEF Replied, ToSet
    <3>2. k # i
      BY <1>1, <1>3, <3>1
    <3>3. s = new[k] /\ k \in DOMAIN new
      BY <1>4, <3>1, <3>2
    <3> QED BY <1>5, <2>2, <2>4, <3>1, <3>3 DEF Replied, ToSet
  <2> QED BY <2>3, <2>4
<1> QED BY <1>6, <1>7, <1>8, <1>9, <1>10 DEF NewslettersInv, StepIsRight, RepliesStay

LEMMA RenameKeeps ==
  ASSUME NewslettersInv, NEW p \in SubscriberPages, NEW q \in SubscriberPages, RenameAccount(p, q)
  PROVE  StepIsRight
<1>1. /\ SubscriberEdits({p, q}) /\ p # q /\ redirect[p] = NoPage /\ redirect[q] = NoPage
      /\ sections[q] = <<>> /\ redirect' = [redirect EXCEPT ![p] = q]
      /\ sections' = [sections EXCEPT ![q] = sections[p], ![p] = <<>>]
      /\ boards' = IF p \in boards THEN (boards \ {p}) \cup {q} ELSE boards
  BY DEF RenameAccount
<1>2. /\ job' \in Jobs /\ newMove' = newMove
      /\ job'.step = job.step /\ job'.flow = job.flow /\ job'.target = job.target
      /\ job'.content = job.content /\ job'.todo = job.todo
      /\ job'.fresh => job.fresh /\ job.target \notin {p, q}
  BY <1>1, EditedJob DEF NewslettersInv
<1>3. PICK old : old = sections[p] /\ old \in Seq(Sections)
  BY DEF NewslettersInv, NewslettersTypeOK
<1>4. /\ sections' \in [SubscriberPages -> Seq(Sections)] /\ sections'[p] = <<>> /\ sections'[q] = old
      /\ \A x \in SubscriberPages : x # p /\ x # q => sections'[x] = sections[x]
  <2>1. <<>> \in Seq(Sections)
    OBVIOUS
  <2> QED BY <1>1, <1>3, <2>1 DEF NewslettersInv, NewslettersTypeOK
<1>5. /\ redirect' \in [SubscriberPages -> SubscriberPages \cup {NoPage}] /\ redirect'[p] = q
      /\ \A x \in SubscriberPages : x # p => redirect'[x] = redirect[x]
  BY <1>1 DEF NewslettersInv, NewslettersTypeOK
<1>6. NewslettersTypeOK'
  BY <1>1, <1>2, <1>4, <1>5 DEF NewslettersInv, NewslettersTypeOK
<1>7. RedirectsAreEmpty'
  BY <1>1, <1>4, <1>5 DEF NewslettersInv, RedirectsAreEmpty
<1>8. WriteIsSound'
  BY <1>2, <1>4, <1>5 DEF NewslettersInv, WriteIsSound
<1>9. OneMessagePerIssue'
  <2>1. DOMAIN <<>> = {}
    OBVIOUS
  <2>2. \A x \in SubscriberPages : x = p \/ sections'[x] = sections[x] \/ sections'[x] = sections[p]
    BY <1>3, <1>4
  <2> QED BY <1>4, <2>1, <2>2 DEF NewslettersInv, OneMessagePerIssue
<1>10. ASSUME NEW x \in SubscriberPages, NEW s \in Replied(x)
       PROVE  s \in Replied(Target(x))'
  <2>1. redirect[x] = NoPage /\ sections[x] # <<>>
    BY <1>10 DEF NewslettersInv, RedirectsAreEmpty, Replied, ToSet
  <2>2. x # q
    BY <1>1, <2>1
  <2>3. q # NoPage
    BY SubscribersAssumption
  <2>4. CASE x = p
    BY <1>3, <1>4, <1>5, <1>10, <2>3, <2>4 DEF Replied, Target
  <2>5. CASE x # p
    BY <1>4, <1>5, <1>10, <2>1, <2>2, <2>5 DEF Replied, Target
  <2> QED BY <2>4, <2>5
<1> QED BY <1>6, <1>7, <1>8, <1>9, <1>10 DEF NewslettersInv, StepIsRight, RepliesStay

\* The work on the next subscriber.
LEMMA NextSubscriberWaits ==
  ASSUME NewslettersTypeOK, job.todo # <<>>
  PROVE  NextSubscriber \in Jobs /\ NextSubscriber.step = "read"
<1>1. PICK o, todos, targets, contents :
        o = job /\ todos = Seq(SubscriberPages) /\ targets = SubscriberPages \cup {NoPage} /\ contents = Seq(Sections)
  OBVIOUS
<1>2. o \in [step : {"idle", "check", "read", "write"}, issue : Int, force : BOOLEAN, todo : todos,
             target : targets, flow : BOOLEAN, fresh : BOOLEAN, content : contents]
  BY <1>1 DEF NewslettersTypeOK, Jobs
<1>3. PICK rest : rest = Tail(o.todo) /\ rest \in todos
  <2>1. o.todo \in Seq(SubscriberPages) /\ o.todo # <<>>
    BY <1>1, <1>2
  <2>2. Tail(o.todo) \in Seq(SubscriberPages)
    BY <2>1, HeadTailProperties
  <2> QED BY <1>1, <2>2
<1>4. <<>> \in contents /\ NoPage \in targets
  BY <1>1
<1>5. NextSubscriber = [o EXCEPT !.step = "read", !.todo = rest, !.content = <<>>, !.target = NoPage,
                          !.flow = FALSE, !.fresh = FALSE]
  BY <1>1, <1>2, <1>3 DEF NextSubscriber
<1>6. /\ NextSubscriber \in [step : {"idle", "check", "read", "write"}, issue : Int, force : BOOLEAN, todo : todos,
                             target : targets, flow : BOOLEAN, fresh : BOOLEAN, content : contents]
      /\ NextSubscriber.step = "read"
  BY <1>2, <1>3, <1>4, <1>5
<1> QED BY <1>1, <1>6 DEF Jobs

LEMMA ReadKeeps ==
  ASSUME NewslettersInv, NEW excluded \in BOOLEAN, ReadSubscriber(excluded)
  PROVE  StepIsRight
<1> DEFINE page == Head(job.todo)
           found == Target(page)
           flow == found \in boards
           skipped == \/ redirect[found] # NoPage
                      \/ ~flow /\ (excluded \/ HasIssue(sections[found], job.issue))
           content == NewContent(sections[found], job.issue, page \notin KeepOld)
           reading == [job EXCEPT !.step = "write", !.target = found, !.flow = flow, !.fresh = TRUE,
                                  !.content = content]
<1>1. /\ job.step = "read" /\ job.todo # <<>>
      /\ job' = IF skipped THEN NextSubscriber ELSE reading
      /\ UNCHANGED <<sections, boards, redirect, newMove>>
  BY DEF ReadSubscriber, SubscribersWait
<1>2. newMove' \in [issue : Int, allowed : BOOLEAN]
  BY <1>1 DEF NewslettersInv, NewslettersTypeOK
<1>3. CASE skipped
  <2>1. NextSubscriber \in Jobs /\ NextSubscriber.step = "read"
    BY <1>1, NextSubscriberWaits DEF NewslettersInv
  <2>2. job' = NextSubscriber
    BY <1>1, <1>3
  <2>3. PICK new \in Jobs : job' = new /\ new.step # "write"
    BY <2>1, <2>2
  <2> HIDE DEF skipped, reading
  <2> QED BY <1>1, <1>2, <2>3, WaitingJobKeeps
<1>4. CASE ~skipped
  <2>1. page \in SubscriberPages
    <3>1. job.todo \in Seq(SubscriberPages)
      BY DEF NewslettersInv, NewslettersTypeOK, Jobs
    <3> QED BY <1>1, <3>1, HeadTailProperties
  <2>2. found \in SubscriberPages
    BY <2>1 DEF Target, NewslettersInv, NewslettersTypeOK
  <2>3. redirect[found] = NoPage /\ (flow \/ ~HasIssue(sections[found], job.issue))
    BY <1>4
  <2>4. job' = reading
    BY <1>1, <1>4
  <2> HIDE DEF skipped, found
  <2>5. sections[found] \in Seq(Sections) /\ OnePerIssue(sections[found]) /\ job.issue \in Int
    BY <2>2 DEF NewslettersInv, NewslettersTypeOK, Jobs, OneMessagePerIssue, OnePerIssue
  <2>6. PICK c, f, t : c = content /\ f = flow /\ t = found
    OBVIOUS
  <2>7. c \in Seq(Sections)
    BY <2>5, <2>6, NewContentIsSound
  <2>8. ~f => OnePerIssue(c) /\ RepliedIn(sections[t]) \subseteq RepliedIn(c)
    BY <2>3, <2>5, <2>6, NewContentIsSound
  <2>9. /\ job' \in Jobs /\ job'.step = "write" /\ job'.target = t /\ job'.flow = f /\ job'.content = c
        /\ job'.todo = job.todo
    <3>1. PICK o, todos, targets, contents :
            o = job /\ todos = Seq(SubscriberPages) /\ targets = SubscriberPages \cup {NoPage} /\ contents = Seq(Sections)
      OBVIOUS
    <3>2. o \in [step : {"idle", "check", "read", "write"}, issue : Int, force : BOOLEAN, todo : todos,
                 target : targets, flow : BOOLEAN, fresh : BOOLEAN, content : contents]
      BY <3>1 DEF NewslettersInv, NewslettersTypeOK, Jobs
    <3>3. c \in contents /\ t \in targets /\ f \in BOOLEAN
      BY <2>2, <2>6, <2>7, <3>1
    <3>4. PICK new : new = job' /\ new = [o EXCEPT !.step = "write", !.target = t, !.flow = f, !.fresh = TRUE,
                                                   !.content = c]
      BY <2>4, <2>6, <3>1
    <3>5. /\ new \in [step : {"idle", "check", "read", "write"}, issue : Int, force : BOOLEAN, todo : todos,
                      target : targets, flow : BOOLEAN, fresh : BOOLEAN, content : contents]
          /\ new.step = "write" /\ new.target = t /\ new.flow = f /\ new.content = c /\ new.todo = o.todo
      BY <3>2, <3>3, <3>4
    <3> QED BY <3>1, <3>4, <3>5 DEF Jobs
  <2>10. NewslettersTypeOK'
    BY <1>1, <2>9 DEF NewslettersInv, NewslettersTypeOK
  <2>11. WriteIsSound'
    BY <1>1, <2>2, <2>3, <2>6, <2>8, <2>9 DEF WriteIsSound
  <2>12. RedirectsAreEmpty' /\ OneMessagePerIssue'
    BY <1>1 DEF NewslettersInv, RedirectsAreEmpty, OneMessagePerIssue
  <2>13. \A p \in SubscriberPages : Replied(p) \subseteq Replied(Target(p))'
    BY <1>1, KeptWithTheirPages DEF NewslettersInv
  <2> QED BY <2>10, <2>11, <2>12, <2>13 DEF NewslettersInv, StepIsRight, RepliesStay
<1> QED BY <1>3, <1>4

LEMMA PostKeeps ==
  ASSUME NewslettersInv, NEW outcome, PostMessage(outcome)
  PROVE  StepIsRight
<1>1. /\ job.step = "write" /\ job' = NextSubscriber /\ UNCHANGED <<boards, redirect, newMove>>
      /\ sections' = IF ~job.flow /\ MessageIsWritten(outcome)
                     THEN [sections EXCEPT ![job.target] = job.content] ELSE sections
  BY DEF PostMessage, SubscribersWait
<1>2. newMove' \in [issue : Int, allowed : BOOLEAN]
  BY <1>1 DEF NewslettersInv, NewslettersTypeOK
<1>3. NextSubscriber \in Jobs /\ NextSubscriber.step = "read"
  BY <1>1, NextSubscriberWaits DEF NewslettersInv, NewslettersTypeOK
<1>4. PICK new \in Jobs : job' = new /\ new.step = "read"
  BY <1>1, <1>3
<1>5. CASE sections' = sections
  BY <1>1, <1>2, <1>4, <1>5, WaitingJobKeeps
<1>6. CASE ~job.flow /\ MessageIsWritten(outcome)
  <2>1. PICK t, c : /\ t = job.target /\ c = job.content /\ t \in SubscriberPages /\ redirect[t] = NoPage
                    /\ c \in Seq(Sections) /\ OnePerIssue(c)
                    /\ RepliedIn(sections[t]) \subseteq RepliedIn(c)
    BY <1>1, <1>6 DEF NewslettersInv, NewslettersTypeOK, Jobs, WriteIsSound, MessageIsWritten
  <2>2. /\ sections' \in [SubscriberPages -> Seq(Sections)] /\ sections'[t] = c
        /\ \A p \in SubscriberPages : p # t => sections'[p] = sections[p]
    BY <1>1, <1>6, <2>1 DEF NewslettersInv, NewslettersTypeOK
  <2>3. NewslettersTypeOK'
    BY <1>1, <1>2, <1>4, <2>2 DEF NewslettersInv, NewslettersTypeOK
  <2>4. RedirectsAreEmpty'
    BY <1>1, <2>1, <2>2 DEF NewslettersInv, RedirectsAreEmpty
  <2>5. WriteIsSound'
    BY <1>4 DEF WriteIsSound
  <2>6. OneMessagePerIssue'
    BY <2>1, <2>2 DEF NewslettersInv, OneMessagePerIssue, OnePerIssue
  <2>7. ASSUME NEW p \in SubscriberPages, NEW s \in Replied(p)
        PROVE  s \in Replied(Target(p))'
    <3>1. redirect[p] = NoPage
      BY <2>7 DEF NewslettersInv, RedirectsAreEmpty, Replied, ToSet
    <3>2. Target(p)' = p
      BY <1>1, <3>1 DEF Target
    <3>3. s \in RepliedIn(sections'[p])
      BY <2>1, <2>2, <2>7 DEF Replied, RepliedIn
    <3> QED BY <3>2, <3>3 DEF Replied, RepliedIn
  <2> QED BY <2>3, <2>4, <2>5, <2>6, <2>7 DEF NewslettersInv, StepIsRight, RepliesStay
<1> QED BY <1>1, <1>5, <1>6

\* One step keeps the invariant, and the replies.
LEMMA NewslettersStep ==
  ASSUME NewslettersInv, NewslettersNext
  PROVE  StepIsRight
<1>1. /\ NoJob \in Jobs /\ NoJob.step = "idle" /\ NoMove \in [issue : Int, allowed : BOOLEAN]
      /\ newMove \in [issue : Int, allowed : BOOLEAN] /\ job \in Jobs
  BY DEF NoJob, NoMove, Jobs, NewslettersInv, NewslettersTypeOK
<1>2. ASSUME NEW issue \in 1 .. LastIssue, NEW allowed \in BOOLEAN, MoveIssue(issue, allowed)
      PROVE  StepIsRight
  <2>1. /\ newMove' \in [issue : Int, allowed : BOOLEAN] /\ UNCHANGED <<sections, boards, redirect, job>>
    BY <1>2 DEF MoveIssue
  <2>2. NewslettersInv'
    BY <2>1 DEF NewslettersInv, NewslettersTypeOK, RedirectsAreEmpty, WriteIsSound, OneMessagePerIssue
  <2> QED BY <2>1, <2>2, KeptWithTheirPages DEF NewslettersInv, StepIsRight, RepliesStay
<1>3. ASSUME NEW p \in SubscriberPages, NEW i \in DOMAIN sections[p], ReplyToMessage(p, i)
      PROVE  StepIsRight
  BY <1>3, ReplyKeeps
<1>4. ASSUME NEW p \in SubscriberPages, NEW q \in SubscriberPages, RenameAccount(p, q)
      PROVE  StepIsRight
  BY <1>4, RenameKeeps
<1>5. CASE FindNewIssue
  <2>1. newMove' = NoMove /\ UNCHANGED <<sections, boards, redirect>>
    BY <1>5 DEF FindNewIssue, SubscribersWait
  <2>2. [NoJob EXCEPT !.step = "check", !.issue = newMove.issue] \in Jobs
    BY <1>1 DEF NoJob, Jobs
  <2>3. PICK new \in Jobs : job' = new /\ new.step # "write"
    BY <1>1, <1>5, <2>2 DEF FindNewIssue, NoJob
  <2> QED BY <1>1, <2>1, <2>3, WaitingJobKeeps
<1>6. ASSUME NEW issue \in 1 .. LastIssue, NEW from \in DOMAIN Subscribers, NEW single \in BOOLEAN,
             ForceIssue(issue, from, single)
      PROVE  StepIsRight
  <2>1. newMove' = newMove /\ UNCHANGED <<sections, boards, redirect>>
    BY <1>6 DEF ForceIssue, SubscribersWait
  <2>2. PICK served \in Seq(SubscriberPages) :
          served = SubSeq(Subscribers, from, IF single THEN from ELSE Len(Subscribers))
    <3>1. PICK upTo \in 1 .. Len(Subscribers) : upTo = IF single THEN from ELSE Len(Subscribers)
      BY SubscribersAssumption
    <3>2. SubSeq(Subscribers, from, upTo) \in Seq(SubscriberPages)
      BY <3>1, SubscribersAssumption, SubSeqProperties
    <3> QED BY <3>1, <3>2
  <2>3. PICK new : job' = new /\ new = [NoJob EXCEPT !.step = "check", !.issue = issue, !.force = TRUE, !.todo = served]
    BY <1>6, <2>2 DEF ForceIssue
  <2>4. new \in Jobs /\ new.step # "write"
    <3>1. PICK todos : todos = Seq(SubscriberPages) /\ served \in todos
      OBVIOUS
    <3>2. PICK contents, empty : contents = Seq(Sections) /\ empty = <<>> /\ empty \in contents
      <4>1. <<>> \in Seq(Sections)
        OBVIOUS
      <4> QED BY <4>1
    <3>3. PICK none : /\ none = NoJob
            /\ none \in [step : {"idle", "check", "read", "write"}, issue : Int, force : BOOLEAN, todo : todos,
                         target : SubscriberPages \cup {NoPage}, flow : BOOLEAN, fresh : BOOLEAN, content : contents]
      BY <1>1, <3>1, <3>2 DEF Jobs
    <3>4. new = [none EXCEPT !.step = "check", !.issue = issue, !.force = TRUE, !.todo = served]
      BY <2>3, <3>3
    <3>5. issue \in Int
      BY SubscribersAssumption
    <3>6. /\ new \in [step : {"idle", "check", "read", "write"}, issue : Int, force : BOOLEAN, todo : todos,
                      target : SubscriberPages \cup {NoPage}, flow : BOOLEAN, fresh : BOOLEAN, content : contents]
          /\ new.step = "check"
      BY <3>1, <3>3, <3>4, <3>5
    <3> QED BY <3>1, <3>2, <3>6 DEF Jobs
  <2> QED BY <1>1, <2>1, <2>3, <2>4, WaitingJobKeeps
<1>7. ASSUME NEW ready \in BOOLEAN, CheckIssue(ready)
      PROVE  StepIsRight
  <2>1. newMove' = newMove /\ UNCHANGED <<sections, boards, redirect>>
    BY <1>7 DEF CheckIssue, SubscribersWait
  <2>2. PICK new : /\ job' = new
                   /\ \/ new = NoJob
                      \/ new = [job EXCEPT !.step = "read", !.todo = IF job.force THEN @ ELSE Subscribers]
    BY <1>7 DEF CheckIssue
  <2>3. new \in Jobs /\ new.step # "write"
    <3>1. CASE new = NoJob
      BY <1>1, <3>1
    <3>2. CASE new = [job EXCEPT !.step = "read", !.todo = IF job.force THEN @ ELSE Subscribers]
      <4>1. PICK o, todos, targets, contents :
              o = job /\ todos = Seq(SubscriberPages) /\ targets = SubscriberPages \cup {NoPage} /\ contents = Seq(Sections)
        OBVIOUS
      <4>2. o \in [step : {"idle", "check", "read", "write"}, issue : Int, force : BOOLEAN, todo : todos,
                   target : targets, flow : BOOLEAN, fresh : BOOLEAN, content : contents]
        BY <1>1, <4>1 DEF Jobs
      <4>3. PICK all : all = Subscribers /\ all \in todos
        BY <4>1, SubscribersAssumption
      <4>4. new = [o EXCEPT !.step = "read", !.todo = IF o.force THEN o.todo ELSE all]
        BY <3>2, <4>1, <4>3
      <4>5. /\ new \in [step : {"idle", "check", "read", "write"}, issue : Int, force : BOOLEAN, todo : todos,
                        target : targets, flow : BOOLEAN, fresh : BOOLEAN, content : contents]
            /\ new.step = "read"
        BY <4>2, <4>3, <4>4
      <4> QED BY <4>1, <4>5 DEF Jobs
    <3> QED BY <2>2, <3>1, <3>2
  <2> QED BY <1>1, <2>1, <2>2, <2>3, WaitingJobKeeps
<1>8. ASSUME NEW excluded \in BOOLEAN, ReadSubscriber(excluded)
      PROVE  StepIsRight
  BY <1>8, ReadKeeps
<1>9. ASSUME NEW outcome \in PostOutcomes, PostMessage(outcome)
      PROVE  StepIsRight
  BY <1>9, PostKeeps
<1>10. CASE EndOfDistribution \/ DistributorStops
  <2>1. job' = NoJob /\ UNCHANGED <<sections, boards, redirect, newMove>>
    BY <1>10 DEF EndOfDistribution, DistributorStops, SubscribersWait
  <2>2. PICK new \in Jobs : job' = new /\ new.step # "write"
    BY <1>1, <2>1
  <2> QED BY <1>1, <2>1, <2>2, WaitingJobKeeps
<1> QED
  BY <1>2, <1>3, <1>4, <1>5, <1>6, <1>7, <1>8, <1>9, <1>10 DEF NewslettersNext

LEMMA NewslettersInvStep == NewslettersInv /\ [NewslettersNext]_newsletterVars => NewslettersInv'
<1>1. ASSUME NewslettersInv, UNCHANGED newsletterVars  PROVE NewslettersInv'
  BY <1>1 DEF newsletterVars, NewslettersInv, NewslettersTypeOK, RedirectsAreEmpty, WriteIsSound, OneMessagePerIssue
<1> QED BY <1>1, NewslettersStep DEF StepIsRight

\* No page ever holds two messages of one issue, for any subscribers, any
\* number of issues, renames and failures.
THEOREM IssuesArePostedOnce == NewslettersSpec => []OneMessagePerIssue
<1>1. NewslettersInv => OneMessagePerIssue
  BY DEF NewslettersInv
<1> QED BY <1>1, NewslettersInvInit, NewslettersInvStep, PTL DEF NewslettersSpec

\* The removal of old messages never takes a section with a reply away from its
\* page or from the page's new title.
THEOREM RepliesAreKept == NewslettersSpec => RepliesSurvive
<1>1. NewslettersInv /\ [NewslettersNext]_newsletterVars => [RepliesStay]_newsletterVars
  BY NewslettersStep DEF StepIsRight
<1>2. NewslettersSpec => [][RepliesStay]_newsletterVars
  BY <1>1, NewslettersInvInit, NewslettersInvStep, PTL DEF NewslettersSpec
<1> QED BY <1>2 DEF RepliesSurvive, RepliesStay

---------------------------------------------------------------------------
(* The updater of the main page.                                           *)

AllArticles == FeaturedArticles \cup {NoArticle}
States == [day : Int, featuredDay : Int, article : AllArticles, targets : SUBSET MainPageTargets,
           toCache : SUBSET Sources]

MainPageTypeOK ==
  /\ time \in 0 .. LastTime
  /\ source \in [Sources -> [rev : Nat, time : Nat, byBot : BOOLEAN]]
  /\ target \in [MainPageTargets -> [from : Sources, rev : Nat, template : Int]]
  /\ templateTime \in Int /\ expansions \in [Sources -> [rev : Int, template : Int]]
  /\ unread \subseteq Sources /\ saved \in States
  /\ update \in [step : {"idle", "update"}, day : Int, state : States,
                 failed : SUBSET (MainPageTargets \cup Sources), after : SUBSET Sources]

Shows(t, s) == target[t].from = s /\ target[t].rev = source[s].rev

\* The dates never run ahead: a run has the date of its start, and its article
\* is the one of the state file unless it read the article of that day.  There
\* is an article from the first day one was read.
DatesAreOrdered ==
  /\ saved.day <= Day(time) /\ saved.featuredDay <= Day(time)
  /\ saved.article = NoArticle => saved.featuredDay = -1
  /\ update.step = "update" =>
       /\ update.state.article = NoArticle => update.state.featuredDay = -1
       /\ update.day \in 0 .. Day(time) /\ update.state.day = update.day
       /\ saved.day <= update.day /\ saved.featuredDay <= update.day
       /\ \/ update.state.article = saved.article /\ update.state.featuredDay = saved.featuredDay
          \/ update.state.featuredDay = update.day /\ saved.featuredDay < update.day

\* The same as StaleTargetsArePending for what the run is about to save.
RunKeepsTargets ==
  update.step = "update" =>
    \A t \in MainPageTargets :
      LET s == SourceOf(t, update.state.article, update.day)
      IN  Shows(t, s) \/ t \in update.state.targets \/ t \in update.failed \/ s \in update.after
            \/ (t = "featured" /\ update.state.featuredDay # update.day)

MainPageInv == MainPageTypeOK /\ DatesAreOrdered /\ RunKeepsTargets /\ StaleTargetsArePending

\* Days are numbered in the order of the clock, from 0 to the last one.
LEMMA DayIsMonotonic ==
  ASSUME NEW t \in Nat, NEW u \in Nat, t <= u
  PROVE  Day(t) \in Nat /\ Day(t) <= Day(u)
  BY TimeAssumption DEF Day

LEMMA DayIsShown ==
  ASSUME NEW t \in 0 .. LastTime
  PROVE  Day(t) \in 0 .. LastDayShown /\ LastDayShown \in Nat
<1>1. LastDayShown = Day(LastTime) /\ LastTime \in Nat
  BY TimeAssumption DEF LastDayShown, Day
<1> QED BY <1>1, DayIsMonotonic

LEMMA SourceOfIsSource ==
  ASSUME NEW t \in MainPageTargets, NEW article \in AllArticles, NEW day \in 0 .. LastDayShown
  PROVE  SourceOf(t, article, day) \in Sources
  BY DEF SourceOf, MainPageTargets, Sources, AllArticles

LEMMA MainPageInvInit == MainPageInit => MainPageInv
<1> SUFFICES ASSUME MainPageInit  PROVE MainPageInv
  OBVIOUS
<1>1. time \in 0 .. LastTime /\ Day(time) \in 0 .. LastDayShown
  BY TimeAssumption, DayIsShown DEF MainPageInit
<1>2. EmptyState \in States
  BY DEF EmptyState, States, AllArticles
<1>3. News \in Sources
  BY DEF Sources
<1>4. MainPageTypeOK
  BY <1>1, <1>2, <1>3 DEF MainPageInit, MainPageTypeOK, NoUpdate
<1>5. DatesAreOrdered
  BY <1>1 DEF MainPageInit, DatesAreOrdered, NoUpdate, EmptyState
<1>6. RunKeepsTargets
  BY DEF MainPageInit, RunKeepsTargets, NoUpdate
<1>7. StaleTargetsArePending
  BY <1>1, <1>3 DEF MainPageInit, StaleTargetsArePending, EmptyState, SourceOf, MainPageTargets
<1> QED BY <1>4, <1>5, <1>6, <1>7 DEF MainPageInv

---------------------------------------------------------------------------
(* One lemma per step.                                                     *)

LEMMA TimePassesStep == MainPageInv /\ TimePasses => MainPageInv'
<1> SUFFICES ASSUME MainPageInv, TimePasses  PROVE MainPageInv'
  OBVIOUS
<1> USE DEF MainPageInv
<1>1. /\ time \in 0 .. LastTime /\ time' = time + 1 /\ time' \in 0 .. LastTime
      /\ UNCHANGED <<source, templateTime, expansions, target, unread, saved, update>>
  BY TimeAssumption DEF TimePasses, MainPageTypeOK
<1>2. Day(time) \in Nat /\ Day(time') \in Nat /\ Day(time) <= Day(time')
  BY <1>1, DayIsMonotonic
<1> HIDE DEF Day
<1>3. MainPageTypeOK'
  BY <1>1 DEF MainPageTypeOK
<1>4. saved.day \in Int /\ saved.featuredDay \in Int /\ update.day \in Int
  BY DEF MainPageTypeOK, States
<1>5. Day(time)' = Day(time')
  BY DEF Day
<1>6. DatesAreOrdered'
  BY <1>1, <1>2, <1>4, <1>5 DEF DatesAreOrdered
<1>7. RunKeepsTargets'
  BY <1>1 DEF RunKeepsTargets, Shows, SourceOf
<1>8. ASSUME NEW t \in MainPageTargets
      PROVE  \/ Shows(t, SourceOf(t, saved.article, Day(time')))
             \/ t \in saved.targets \/ SourceOf(t, saved.article, Day(time')) \in unread
             \/ (t = "picture" /\ saved.day # Day(time')) \/ (t = "featured" /\ saved.featuredDay # Day(time'))
  <2> DEFINE s == SourceOf(t, saved.article, Day(time))
  <2>1. CASE Day(time') = Day(time)
    BY <2>1 DEF StaleTargetsArePending, Shows
  <2>2. CASE Day(time') # Day(time)
    <3>1. saved.day < Day(time') /\ saved.featuredDay < Day(time')
      BY <1>2, <1>4, <2>2 DEF DatesAreOrdered
    <3>2. t = "news" \/ t = "picture" \/ t = "featured"
      BY DEF MainPageTargets
    <3>3. t = "news" => SourceOf(t, saved.article, Day(time')) = s
      BY DEF SourceOf
    <3>4. CASE t = "news"
      BY <3>3, <3>4 DEF StaleTargetsArePending, Shows
    <3> QED BY <3>1, <3>2, <3>4, <1>2, <1>4
  <2> QED BY <2>1, <2>2
<1>9. StaleTargetsArePending'
  BY <1>1, <1>5, <1>8 DEF StaleTargetsArePending, Shows, SourceOf
<1> QED BY <1>3, <1>6, <1>7, <1>9

LEMMA EditSourceStep ==
  ASSUME MainPageInv, NEW s \in Sources, NEW byBot \in BOOLEAN, EditSource(s, byBot)
  PROVE  MainPageInv'
<1> USE DEF MainPageInv
<1>1. UNCHANGED <<time, templateTime, expansions, target, saved>> /\ unread' = unread \cup {s}
  BY DEF EditSource
<1>2. source' = [source EXCEPT ![s] = [rev |-> source[s].rev + 1, time |-> time, byBot |-> byBot]]
  BY DEF EditSource
<1>3. source' \in [Sources -> [rev : Nat, time : Nat, byBot : BOOLEAN]]
      /\ \A other \in Sources \ {s} : source'[other] = source[other]
  BY <1>2 DEF MainPageTypeOK
<1>4. /\ update'.step = update.step /\ update'.day = update.day /\ update'.state = update.state
      /\ update'.failed = update.failed
      /\ update.step = "update" => update'.after = update.after \cup {s}
      /\ update' \in [step : {"idle", "update"}, day : Int, state : States,
                      failed : SUBSET (MainPageTargets \cup Sources), after : SUBSET Sources]
  BY DEF EditSource, MainPageTypeOK
<1>5. MainPageTypeOK'
  BY <1>1, <1>3, <1>4 DEF MainPageTypeOK
<1>6. DatesAreOrdered'
  BY <1>1, <1>4 DEF DatesAreOrdered, Day
<1>7. Day(time) \in 0 .. LastDayShown /\ LastDayShown \in Nat /\ saved.article \in AllArticles /\ update.state.article \in AllArticles
  BY DayIsShown DEF MainPageTypeOK, States
<1>8. ASSUME NEW t \in MainPageTargets, NEW x \in Sources, Shows(t, x)
      PROVE  Shows(t, x)' \/ x = s
  BY <1>1, <1>3, <1>8 DEF Shows
<1>9. RunKeepsTargets'
  <2> SUFFICES ASSUME update'.step = "update", NEW t \in MainPageTargets,
                      NEW x, x = SourceOf(t, update.state.article, update.day)
               PROVE  Shows(t, x)' \/ t \in update.state.targets \/ t \in update.failed \/ x \in update'.after
                        \/ (t = "featured" /\ update.state.featuredDay # update.day)
    BY <1>4 DEF RunKeepsTargets, SourceOf
  <2>1. update.day \in 0 .. LastDayShown
    BY <1>4, <1>7 DEF DatesAreOrdered
  <2>2. x \in Sources
    BY <1>7, <2>1, SourceOfIsSource
  <2> QED BY <1>4, <1>8, <2>2 DEF RunKeepsTargets
<1>10. StaleTargetsArePending'
  <2> SUFFICES ASSUME NEW t \in MainPageTargets, NEW x, x = SourceOf(t, saved.article, Day(time))
               PROVE  Shows(t, x)' \/ t \in saved.targets \/ x \in unread'
                        \/ (t = "picture" /\ saved.day # Day(time))
                        \/ (t = "featured" /\ saved.featuredDay # Day(time))
    BY <1>1 DEF StaleTargetsArePending, SourceOf, Shows, Day
  <2>1. x \in Sources
    BY <1>7, SourceOfIsSource
  <2> QED BY <1>1, <1>8, <2>1 DEF StaleTargetsArePending, Shows
<1> QED BY <1>5, <1>6, <1>9, <1>10

LEMMA StartUpdateStep ==
  ASSUME MainPageInv, NEW article \in AllArticles, NEW found \in BOOLEAN, StartUpdate(article, found)
  PROVE  MainPageInv'
<1> USE DEF MainPageInv
<1> DEFINE day == Day(time)
           read == saved.featuredDay # day /\ found
           state == IF read THEN [saved EXCEPT !.featuredDay = day, !.article = article] ELSE saved
           new == [state EXCEPT !.day = day, !.targets = PendingTargets(state, day, read),
                                !.toCache = state.toCache \cup WorthCaching(day, state.article)]
<1>1. UNCHANGED <<time, source, templateTime, expansions, target, unread, saved>>
  BY DEF StartUpdate
<1>2. update' = [step |-> "update", day |-> day, state |-> new, failed |-> {}, after |-> {}]
  BY DEF StartUpdate, NoUpdate
<1>0. read => article # NoArticle
  BY DEF StartUpdate
<1>3. day \in Nat /\ day \in 0 .. LastDayShown
  BY DayIsShown DEF MainPageTypeOK
<1>4. saved \in States
  BY DEF MainPageTypeOK
<1> HIDE DEF day
<1>5. state \in States /\ state.targets = saved.targets /\ state.day = saved.day
  <2>1. ASSUME NEW d \in Int  PROVE [saved EXCEPT !.featuredDay = d, !.article = article] \in States
    BY <1>4, <2>1 DEF States
  <2>2. ASSUME NEW d \in Int
        PROVE  LET x == [saved EXCEPT !.featuredDay = d, !.article = article]
               IN  x.targets = saved.targets /\ x.day = saved.day
    BY <1>4, <2>2 DEF States
  <2>3. day \in Int
    BY <1>3
  <2>4. CASE read
    <3>1. state = [saved EXCEPT !.featuredDay = day, !.article = article]
      BY <2>4
    <3> HIDE DEF state
    <3> QED BY <2>1, <2>2, <2>3, <3>1
  <2>5. CASE ~read
    BY <1>4, <2>5
  <2> QED BY <2>4, <2>5
<1>6. IF read THEN state.featuredDay = day /\ state.article = article
      ELSE state.featuredDay = saved.featuredDay /\ state.article = saved.article
  <2>1. CASE read
    BY <1>4, <2>1, Zenon DEF States
  <2>2. CASE ~read
    BY <2>2
  <2> QED BY <2>1, <2>2
<1>7. WorthCaching(day, state.article) \subseteq Sources
  BY DEF WorthCaching, MainPageTypeOK
<1>8. PendingTargets(state, day, read) \subseteq MainPageTargets
  BY <1>5 DEF PendingTargets, States, MainPageTargets
<1> HIDE DEF state, read
<1>9. /\ new \in States /\ new.day = day /\ new.targets = PendingTargets(state, day, read)
      /\ new.article = state.article /\ new.featuredDay = state.featuredDay
  <2> DEFINE targets == PendingTargets(state, day, read)
             toCache == state.toCache \cup WorthCaching(day, state.article)
  <2>1. targets \in SUBSET MainPageTargets /\ toCache \in SUBSET Sources /\ state \in States
    BY <1>5, <1>7, <1>8 DEF States
  <2>2. new = [state EXCEPT !.day = day, !.targets = targets, !.toCache = toCache]
    OBVIOUS
  <2> HIDE DEF targets, toCache, new
  <2>3. /\ new \in States /\ new.day = day /\ new.targets = targets
        /\ new.article = state.article /\ new.featuredDay = state.featuredDay
    <3>1. PICK r \in States, T \in SUBSET MainPageTargets, C \in SUBSET Sources, d \in Int :
            r = state /\ T = targets /\ C = toCache /\ d = day
      BY <1>3, <2>1
    <3>2. new = [r EXCEPT !.day = d, !.targets = T, !.toCache = C]
      BY <2>2, <3>1
    <3>3. /\ new \in States /\ new.day = d /\ new.targets = T
          /\ new.article = r.article /\ new.featuredDay = r.featuredDay
      BY <3>2 DEF States
    <3> QED BY <3>1, <3>3
  <2> QED BY <2>3 DEF targets
<1> HIDE DEF new
<1>10. MainPageTypeOK'
  BY <1>1, <1>2, <1>3, <1>9 DEF MainPageTypeOK
<1>11. DatesAreOrdered'
  <2>1. saved.day <= day /\ saved.featuredDay <= day
    BY DEF DatesAreOrdered, day
  <2>2. saved.featuredDay \in Int /\ saved.day \in Int
    BY <1>4 DEF States
  <2>3. read => saved.featuredDay < day
    BY <2>1, <2>2, <1>3 DEF read
  <2>4. Day(time)' = day
    BY <1>1 DEF day, Day
  <2>5. /\ saved.article = NoArticle => saved.featuredDay = -1
        /\ new.article = NoArticle => new.featuredDay = -1
    BY <1>0, <1>6, <1>9 DEF DatesAreOrdered
  <2> QED BY <1>1, <1>2, <1>3, <1>6, <1>9, <2>1, <2>3, <2>4, <2>5 DEF DatesAreOrdered
<1>12. RunKeepsTargets'
  <2> SUFFICES ASSUME NEW t \in MainPageTargets
               PROVE  LET x == SourceOf(t, new.article, day)
                      IN  Shows(t, x) \/ t \in new.targets
                            \/ (t = "featured" /\ new.featuredDay # day)
    BY <1>1, <1>2 DEF RunKeepsTargets, Shows, SourceOf
  <2>1. saved.targets \subseteq new.targets
    BY <1>5, <1>9 DEF PendingTargets
  <2>2. SourceOf(t, new.article, day) \in unread => t \in new.targets
    BY <1>9 DEF PendingTargets
  <2>3. t = "picture" /\ saved.day # day => t \in new.targets
    BY <1>9 DEF PendingTargets
  <2>4. t = "featured" /\ read => t \in new.targets
    BY <1>9 DEF PendingTargets
  <2>5. ~read \/ t # "featured" => SourceOf(t, new.article, day) = SourceOf(t, saved.article, day)
    <3>1. CASE ~read
      BY <1>6, <1>9, <3>1
    <3>2. CASE t # "featured"
      BY <3>2 DEF SourceOf, MainPageTargets
    <3> QED BY <3>1, <3>2
  <2>6. ~read => new.featuredDay = saved.featuredDay
    BY <1>6, <1>9
  <2>7. LET x == SourceOf(t, saved.article, day)
        IN  Shows(t, x) \/ t \in saved.targets \/ x \in unread \/ (t = "picture" /\ saved.day # day)
              \/ (t = "featured" /\ saved.featuredDay # day)
    BY DEF StaleTargetsArePending, Shows, day
  <2>8. CASE t = "featured" /\ read
    BY <2>4, <2>8
  <2>9. CASE ~(t = "featured" /\ read)
    BY <2>1, <2>2, <2>3, <2>5, <2>6, <2>7, <2>9
  <2> QED BY <2>8, <2>9
<1>13. StaleTargetsArePending'
  BY <1>1 DEF StaleTargetsArePending, Day, SourceOf
<1> QED BY <1>10, <1>11, <1>12, <1>13

\* The cache holds revisions of sources.
LEMMA ExpandType ==
  ASSUME MainPageTypeOK, NEW s \in Sources
  PROVE  Expand(s) \in [rev : Int, template : Int]
  BY DEF MainPageTypeOK, Expand

LEMMA UpdateTargetStep ==
  ASSUME MainPageInv, NEW t \in MainPageTargets, NEW outcome \in {"done", "failed", "unknown", "unreadable"},
         UpdateTarget(t, outcome)
  PROVE  MainPageInv'
<1> USE DEF MainPageInv
<1>0. PICK s : s = SourceOf(t, update.state.article, update.day)
  OBVIOUS
<1> DEFINE read == outcome # "unreadable" /\ s # Featured(NoArticle)
           accepted == read /\ ~TooRecent(s) /\ Trusted(Expand(s).template, s)
           kept == s = Featured(NoArticle) \/ (accepted /\ outcome = "done")
           shown == [from |-> s, rev |-> source[s].rev, template |-> Expand(s).template]
<1>1. UNCHANGED <<time, source, templateTime, unread, saved>> /\ update.step = "update" /\ t \in update.state.targets
  BY DEF UpdateTarget
<1>2. expansions' = IF read THEN [expansions EXCEPT ![s] = Expand(s)] ELSE expansions
  BY <1>0 DEF UpdateTarget
<1>3. target' = target \/ target' = [target EXCEPT ![t] = shown]
  BY <1>0 DEF UpdateTarget
<1>4. accepted /\ outcome = "done" => target' = [target EXCEPT ![t] = shown]
  BY <1>0 DEF UpdateTarget
<1>5. update' = [update EXCEPT !.state.targets = @ \ {t},
                      !.failed = IF kept THEN @ ELSE @ \cup {t}]
  BY <1>0 DEF UpdateTarget
<1>6. Day(time) \in 0 .. LastDayShown /\ LastDayShown \in Nat /\ saved.article \in AllArticles
      /\ update.state.article \in AllArticles /\ update.day \in Int
  BY DayIsShown DEF MainPageTypeOK, States
<1>7. update.day \in 0 .. LastDayShown /\ update.day \in 0 .. Day(time)
  BY <1>1, <1>6 DEF DatesAreOrdered
<1>8. s \in Sources /\ source[s].rev \in Nat /\ Expand(s).template \in Int
  BY <1>0, <1>6, <1>7, SourceOfIsSource, ExpandType DEF MainPageTypeOK
<1>9. shown \in [from : Sources, rev : Nat, template : Int]
  BY <1>8
<1>10. expansions' \in [Sources -> [rev : Int, template : Int]]
  BY <1>2, <1>8, ExpandType DEF MainPageTypeOK
<1> HIDE DEF accepted, read, kept
<1>11. /\ update'.step = update.step /\ update'.day = update.day /\ update'.after = update.after
       /\ update'.state.article = update.state.article /\ update'.state.day = update.state.day
       /\ update'.state.featuredDay = update.state.featuredDay
       /\ update'.state.targets = update.state.targets \ {t}
       /\ update'.failed = IF kept THEN update.failed ELSE update.failed \cup {t}
       /\ update' \in [step : {"idle", "update"}, day : Int, state : States,
                       failed : SUBSET (MainPageTargets \cup Sources), after : SUBSET Sources]
  BY <1>5 DEF MainPageTypeOK, States
<1>12. target' \in [MainPageTargets -> [from : Sources, rev : Nat, template : Int]]
  BY <1>3, <1>9 DEF MainPageTypeOK
<1>13. MainPageTypeOK'
  BY <1>1, <1>10, <1>11, <1>12 DEF MainPageTypeOK
<1>14. DatesAreOrdered'
  BY <1>1, <1>11 DEF DatesAreOrdered, Day
<1>15. ASSUME NEW u \in MainPageTargets, NEW x \in Sources, Shows(u, x), u # t \/ x = s
       PROVE  Shows(u, x)'
  BY <1>1, <1>3, <1>15 DEF Shows, MainPageTypeOK
<1>16. RunKeepsTargets'
  <2> SUFFICES ASSUME NEW u \in MainPageTargets, NEW x, x = SourceOf(u, update.state.article, update.day)
               PROVE  Shows(u, x)' \/ u \in update'.state.targets \/ u \in update'.failed \/ x \in update.after
                        \/ (u = "featured" /\ update.state.featuredDay # update.day)
    BY <1>11 DEF RunKeepsTargets, SourceOf, Shows
  <2>1. x \in Sources
    BY <1>6, <1>7, SourceOfIsSource
  <2>2. CASE u # t
    BY <1>1, <1>11, <1>15, <2>1, <2>2 DEF RunKeepsTargets
  <2>3. CASE u = t /\ ~kept
    BY <1>11, <2>3
  <2>4. CASE u = t /\ accepted /\ outcome = "done"
    <3>1. Shows(t, s)'
      <4>1. target'[t] = shown
        BY <1>4, <2>4 DEF MainPageTypeOK
      <4> QED BY <1>1, <4>1 DEF Shows
    <3> QED BY <1>0, <3>1, <2>4
  <2>5. CASE u = t /\ s = Featured(NoArticle)
    <3>1. t = "featured" /\ update.state.article = NoArticle
      <4>1. PICK article, day : article = update.state.article /\ day = update.day
        OBVIOUS
      <4>2. s = IF t = "news" THEN <<"news", 0>> ELSE IF t = "picture" THEN <<"picture", day>> ELSE <<"featured", article>>
        BY <1>0, <4>1 DEF SourceOf, Featured, News, Picture
      <4>3. s[1] = "featured" /\ s[2] = NoArticle
        BY <2>5 DEF Featured
      <4>4. t \in {"news", "picture", "featured"}
        BY DEF MainPageTargets
      <4> QED BY <4>1, <4>2, <4>3, <4>4
    <3>2. update.state.featuredDay = -1
      BY <1>1, <3>1 DEF DatesAreOrdered
    <3> QED BY <1>7, <2>5, <3>1, <3>2
  <2> QED BY <2>2, <2>3, <2>4, <2>5 DEF kept
\* A run that shows another source than the one of the state file has another
\* date, or read the article of a day that the state file does not have yet.
<1>17. SourceOf(t, saved.article, Day(time)) = s
         \/ (t = "picture" /\ saved.day # Day(time)) \/ (t = "featured" /\ saved.featuredDay # Day(time))
  <2>1. saved.day \in Int /\ saved.featuredDay \in Int
    BY DEF MainPageTypeOK, States
  <2>2. t = "news" \/ t = "picture" \/ t = "featured"
    BY DEF MainPageTargets
  <2>3. CASE t = "news"
    BY <1>0, <2>3 DEF SourceOf
  <2>4. CASE t = "picture"
    <3>1. update.day = Day(time) \/ saved.day # Day(time)
      BY <1>1, <1>6, <1>7, <2>1 DEF DatesAreOrdered
    <3> QED BY <1>0, <2>4, <3>1 DEF SourceOf
  <2>5. CASE t = "featured"
    <3>1. update.state.article = saved.article \/ saved.featuredDay # Day(time)
      BY <1>1, <1>6, <1>7, <2>1 DEF DatesAreOrdered
    <3> QED BY <1>0, <2>5, <3>1 DEF SourceOf
  <2> QED BY <2>2, <2>3, <2>4, <2>5
<1>18. StaleTargetsArePending'
  <2> SUFFICES ASSUME NEW u \in MainPageTargets, NEW x, x = SourceOf(u, saved.article, Day(time))
               PROVE  Shows(u, x)' \/ u \in saved.targets \/ x \in unread
                        \/ (u = "picture" /\ saved.day # Day(time))
                        \/ (u = "featured" /\ saved.featuredDay # Day(time))
    BY <1>1 DEF StaleTargetsArePending, SourceOf, Shows, Day
  <2>1. x \in Sources
    BY <1>6, SourceOfIsSource
  <2>2. Shows(u, x) \/ u \in saved.targets \/ x \in unread
          \/ (u = "picture" /\ saved.day # Day(time))
          \/ (u = "featured" /\ saved.featuredDay # Day(time))
    BY DEF StaleTargetsArePending, Shows
  <2>3. CASE u # t
    BY <1>15, <2>1, <2>2, <2>3
  <2>4. CASE u = t
    BY <1>15, <1>17, <2>1, <2>2, <2>4
  <2> QED BY <2>3, <2>4
<1> QED BY <1>13, <1>14, <1>16, <1>18

LEMMA CacheSourceStep ==
  ASSUME MainPageInv, NEW s \in Sources, NEW failed \in BOOLEAN, CacheSource(s, failed)
  PROVE  MainPageInv'
<1> USE DEF MainPageInv
<1>1. UNCHANGED <<time, source, templateTime, target, unread, saved>> /\ update.step = "update"
  BY DEF CacheSource
<1>2. expansions' = expansions \/ expansions' = [expansions EXCEPT ![s] = Expand(s)]
  BY DEF CacheSource
<1>3. \/ update' = [update EXCEPT !.failed = update.failed \cup {s}]
      \/ update' = [update EXCEPT !.state.toCache = update.state.toCache \ {s}]
  BY DEF CacheSource
<1>4. /\ update'.step = update.step /\ update'.day = update.day /\ update'.after = update.after
      /\ update'.state.article = update.state.article /\ update'.state.day = update.state.day
      /\ update'.state.featuredDay = update.state.featuredDay
      /\ update'.state.targets = update.state.targets /\ update.failed \subseteq update'.failed
      /\ update' \in [step : {"idle", "update"}, day : Int, state : States,
                      failed : SUBSET (MainPageTargets \cup Sources), after : SUBSET Sources]
  BY <1>3 DEF MainPageTypeOK, States
<1>5. MainPageTypeOK'
  <2>1. expansions' \in [Sources -> [rev : Int, template : Int]]
    BY <1>2, ExpandType DEF MainPageTypeOK
  <2> QED BY <1>1, <1>4, <2>1 DEF MainPageTypeOK
<1>6. DatesAreOrdered'
  BY <1>1, <1>4 DEF DatesAreOrdered, Day
<1>7. RunKeepsTargets'
  BY <1>1, <1>4 DEF RunKeepsTargets, SourceOf, Shows
<1>8. StaleTargetsArePending'
  BY <1>1 DEF StaleTargetsArePending, SourceOf, Day
<1> QED BY <1>5, <1>6, <1>7, <1>8

LEMMA SaveStateStep == MainPageInv /\ SaveState => MainPageInv'
<1> SUFFICES ASSUME MainPageInv, SaveState  PROVE MainPageInv'
  OBVIOUS
<1> USE DEF MainPageInv
<1>1. /\ UNCHANGED <<time, source, templateTime, expansions, target>>
      /\ update.step = "update" /\ update.state.targets = {}
      /\ saved' = [update.state EXCEPT !.targets = FailedTargets]
      /\ unread' = update.after /\ update' = NoUpdate
  BY DEF SaveState
<1>2. /\ saved' \in States /\ saved'.day = update.state.day /\ saved'.featuredDay = update.state.featuredDay
      /\ saved'.article = update.state.article /\ saved'.targets = FailedTargets
  BY <1>1 DEF MainPageTypeOK, States, FailedTargets
<1>3. NoUpdate \in [step : {"idle"}, day : Int, state : States, failed : {{}}, after : {{}}]
  BY DEF NoUpdate, EmptyState, States, AllArticles
<1>4. MainPageTypeOK'
  BY <1>1, <1>2, <1>3 DEF MainPageTypeOK
<1>5. update.day \in Int /\ Day(time) \in Int /\ saved.featuredDay \in Int /\ update.state.featuredDay \in Int
  BY DayIsShown DEF MainPageTypeOK, States
<1>6. update.day <= Day(time) /\ update.state.day = update.day /\ update.state.featuredDay <= update.day
  BY <1>1, <1>5 DEF DatesAreOrdered
<1>7. Day(time)' = Day(time)
  BY <1>1 DEF Day
<1>8. DatesAreOrdered'
  BY <1>1, <1>2, <1>3, <1>5, <1>6, <1>7 DEF DatesAreOrdered
<1>9. RunKeepsTargets'
  BY <1>1, <1>3 DEF RunKeepsTargets
<1>10. StaleTargetsArePending'
  <2> SUFFICES ASSUME NEW t \in MainPageTargets
               PROVE  LET x == SourceOf(t, update.state.article, Day(time))
                      IN  Shows(t, x) \/ t \in FailedTargets \/ x \in update.after
                            \/ (t = "picture" /\ update.day # Day(time))
                            \/ (t = "featured" /\ update.state.featuredDay # Day(time))
    BY <1>1, <1>2, <1>6, <1>7 DEF StaleTargetsArePending, SourceOf, Shows
  <2>1. LET x == SourceOf(t, update.state.article, update.day)
        IN  Shows(t, x) \/ t \in update.failed \/ x \in update.after
              \/ (t = "featured" /\ update.state.featuredDay # update.day)
    BY <1>1 DEF RunKeepsTargets
  <2>2. t \in update.failed => t \in FailedTargets
    BY DEF FailedTargets
  <2>3. t = "featured" /\ update.state.featuredDay # update.day => update.state.featuredDay # Day(time)
    BY <1>5, <1>6
  <2>4. \/ t = "picture" /\ update.day # Day(time)
        \/ SourceOf(t, update.state.article, update.day) = SourceOf(t, update.state.article, Day(time))
    BY DEF SourceOf, MainPageTargets
  <2> QED BY <2>1, <2>2, <2>3, <2>4
<1> QED BY <1>4, <1>8, <1>9, <1>10

LEMMA MainPageInvStep == MainPageInv /\ [MainPageNext]_mainPageVars => MainPageInv'
<1> SUFFICES ASSUME MainPageInv, [MainPageNext]_mainPageVars  PROVE MainPageInv'
  OBVIOUS
<1>1. CASE EditTemplate
  <2>1. UNCHANGED <<time, source, expansions, target, unread, saved, update>> /\ templateTime' = time
    BY <1>1 DEF EditTemplate
  <2> QED BY <2>1 DEF MainPageInv, MainPageTypeOK, DatesAreOrdered, RunKeepsTargets, StaleTargetsArePending,
                      Shows, SourceOf, Day
<1>2. CASE UpdateCrashes
  <2>1. UNCHANGED <<time, source, templateTime, expansions, target, unread, saved>> /\ update' = NoUpdate
    BY <1>2 DEF UpdateCrashes
  <2>2. NoUpdate \in [step : {"idle"}, day : Int, state : States, failed : {{}}, after : {{}}]
    BY DEF NoUpdate, EmptyState, States, AllArticles
  <2> QED BY <2>1, <2>2 DEF MainPageInv, MainPageTypeOK, DatesAreOrdered, RunKeepsTargets, StaleTargetsArePending,
                      SourceOf, Day
<1>3. CASE UNCHANGED mainPageVars
  BY <1>3 DEF mainPageVars, MainPageInv, MainPageTypeOK, DatesAreOrdered, RunKeepsTargets, StaleTargetsArePending,
              Shows, SourceOf, Day
<1> QED BY <1>1, <1>2, <1>3, TimePassesStep, EditSourceStep, StartUpdateStep, UpdateTargetStep, CacheSourceStep,
           SaveStateStep DEF MainPageNext, AllArticles

\* For any articles, delays and length of the day: a part of the main page that
\* does not show the last revision of its source is one the next run finds in
\* its state file, in the changes it has not read or from the date, whichever
\* calls fail, runs crash or users edit in between.
THEOREM NoTargetStaysStale == MainPageSpec => []StaleTargetsArePending
<1>1. MainPageInv => StaleTargetsArePending
  BY DEF MainPageInv
<1> QED BY MainPageInvInit, MainPageInvStep, <1>1, PTL DEF MainPageSpec

---------------------------------------------------------------------------
(* The list of published drafts: the replay of a log.                      *)

DraftEvents == [type : {"move", "delete"}, from : DraftMovesTitles, to : DraftMovesTitles,
                article : Articles \cup {Nobody}, redirect : BOOLEAN, trusted : BOOLEAN,
                together : BOOLEAN]
DraftEntries == [article : Articles \cup {Nobody}, deleted : BOOLEAN, moved : Nat, trusted : BOOLEAN]

Advanced(events, f, n) == IF n = 0 THEN NothingReplayed ELSE Replayed(f[n - 1], events[n])

\* The recursive function that defines Replay exists, up to any length.
LEMMA ReplayExists ==
  ASSUME NEW events, NEW len \in Nat
  PROVE  \E f : f = [n \in 0 .. len |-> Advanced(events, f, n)]
<1> DEFINE Built(k) == \E f : f = [n \in 0 .. k |-> Advanced(events, f, n)]
           N == {k \in 0 .. len : Built(k)}
<1>1. 0 \in N
  <2> DEFINE f == [n \in 0 .. 0 |-> NothingReplayed]
  <2>1. f = [n \in 0 .. 0 |-> Advanced(events, f, n)]
    BY DEF Advanced
  <2> QED BY <2>1
<1>2. ASSUME NEW k \in 1 .. len, k - 1 \in N
      PROVE  k \in N
  <2>1. PICK g : g = [n \in 0 .. k - 1 |-> Advanced(events, g, n)]
    BY <1>2
  <2> DEFINE f == [n \in 0 .. k |-> IF n = k THEN Advanced(events, g, k) ELSE g[n]]
  <2>2. \A n \in 0 .. k : Advanced(events, f, n) = Advanced(events, g, n)
    BY DEF Advanced
  <2>3. \A n \in 0 .. k - 1 : g[n] = Advanced(events, g, n)
    BY <2>1
  <2>4. \A n \in 0 .. k : f[n] = Advanced(events, f, n)
    BY <2>2, <2>3
  <2>5. f = [n \in 0 .. k |-> Advanced(events, f, n)]
    BY <2>4
  <2> HIDE DEF f
  <2>6. Built(k)
    BY <2>5
  <2> QED BY <2>6
<1>3. 0 .. len \subseteq N
  <2> HIDE DEF N
  <2> QED BY <1>1, <1>2, InductionUpTo
<1> QED BY <1>3

LEMMA ReplayIsBuilt ==
  ASSUME NEW T, NEW events \in Seq(T)
  PROVE  \E f : /\ f = [n \in 0 .. Len(events) |-> Advanced(events, f, n)]
                /\ Replay(events) = f[Len(events)]
<1> DEFINE f == CHOOSE f : f = [n \in 0 .. Len(events) |-> Advanced(events, f, n)]
<1>1. f = [n \in 0 .. Len(events) |-> Advanced(events, f, n)]
  <2>1. \E g : g = [n \in 0 .. Len(events) |-> Advanced(events, g, n)]
    <3>1. Len(events) \in Nat
      OBVIOUS
    <3> HIDE DEF f
    <3> QED BY <3>1, ReplayExists
  <2> QED BY <2>1, Zenon
<1>2. Replay(events) = f[Len(events)]
  BY DEF Replay, Advanced
<1> QED BY <1>1, <1>2

LEMMA NothingToReplay == Replay(<<>>) = NothingReplayed
<1>1. <<>> \in Seq({}) /\ Len(<<>>) = 0
  OBVIOUS
<1>2. PICK f : f = [n \in 0 .. 0 |-> Advanced(<<>>, f, n)] /\ Replay(<<>>) = f[0]
  BY <1>1, ReplayIsBuilt
<1>3. f[0] = Advanced(<<>>, f, 0)
  BY <1>2
<1> QED BY <1>2, <1>3 DEF Advanced

\* A new event is replayed after the others.
LEMMA ReplayGrows ==
  ASSUME NEW T, NEW events \in Seq(T), NEW e \in T
  PROVE  Replay(Append(events, e)) = Replayed(Replay(events), e)
<1> DEFINE longer == Append(events, e)
           len == Len(events)
<1>1. /\ longer \in Seq(T) /\ Len(longer) = len + 1 /\ len \in Nat
      /\ longer[len + 1] = e /\ \A n \in 1 .. len : longer[n] = events[n]
  OBVIOUS
<1> HIDE DEF longer, len
<1>2. PICK f : /\ f = [n \in 0 .. len |-> Advanced(events, f, n)]
               /\ Replay(events) = f[len]
  BY ReplayIsBuilt DEF len
<1>3. PICK g : /\ g = [n \in 0 .. len + 1 |-> Advanced(longer, g, n)]
               /\ Replay(longer) = g[len + 1]
  BY <1>1, ReplayIsBuilt
<1>4. /\ \A n \in 0 .. len : f[n] = Advanced(events, f, n)
      /\ \A n \in 0 .. len + 1 : g[n] = Advanced(longer, g, n)
  BY <1>2, <1>3
<1> DEFINE N == {n \in 0 .. len : g[n] = f[n]}
<1>5. 0 \in N
  BY <1>1, <1>4 DEF Advanced
<1>6. ASSUME NEW n \in 1 .. len, n - 1 \in N
      PROVE  n \in N
  <2>1. g[n] = Replayed(g[n - 1], events[n]) /\ f[n] = Replayed(f[n - 1], events[n])
    BY <1>1, <1>4 DEF Advanced
  <2> QED BY <1>6, <2>1
<1>7. 0 .. len \subseteq N
  <2> HIDE DEF N
  <2> QED BY <1>1, <1>5, <1>6, InductionUpTo
<1>8. g[len] = f[len]
  BY <1>1, <1>7
<1>9. g[len + 1] = Replayed(g[len], e)
  BY <1>1, <1>4 DEF Advanced
<1> QED BY <1>2, <1>3, <1>8, <1>9 DEF longer

---------------------------------------------------------------------------
(* What an event does to the drafts that are followed. *)

\* Each entry is followed at one title of the main namespace at most.
ReplayIsSound(s) ==
  /\ s.entries \in Seq(DraftEntries) /\ s.at \in [DraftMovesTitles -> Nat] /\ s.time \in Nat
  /\ \A t \in DraftMovesTitles : s.at[t] <= Len(s.entries)
  /\ \A t \in DraftTitles : s.at[t] = 0
  /\ \A t, u \in DraftMovesTitles : s.at[t] = s.at[u] /\ s.at[t] # 0 => t = u

TimeOf(s, e) == IF e.together THEN s.time ELSE s.time + 1

\* What an event makes of the entries, and of the titles where they are followed.
Moves(s, e) == /\ e.type = "move" /\ s.at[e.from] # 0 /\ e.to \in MainTitles
Leaves(s, e) == /\ s.at[e.from] # 0
                /\ \/ e.type = "move" /\ e.to \notin MainTitles /\ ~e.redirect
                   \/ e.type = "delete" /\ TimeOf(s, e) > s.entries[s.at[e.from]].moved
Enters(s, e) == /\ e.type = "move" /\ s.at[e.from] = 0 /\ e.from \notin MainTitles /\ e.to \in MainTitles

\* The entries, titles and time after the event e.
IsAfter(s, e, after) ==
  /\ after.time = TimeOf(s, e)
  /\ Moves(s, e) => /\ after.entries = [s.entries EXCEPT ![s.at[e.from]].moved = TimeOf(s, e)]
                    /\ after.at = [[s.at EXCEPT ![e.from] = 0] EXCEPT ![e.to] = s.at[e.from]]
  /\ Leaves(s, e) => /\ after.entries = [s.entries EXCEPT ![s.at[e.from]].deleted = TRUE]
                     /\ after.at = [s.at EXCEPT ![e.from] = 0]
  /\ Enters(s, e) => /\ after.entries = Append(s.entries, Entry(e, TimeOf(s, e)))
                     /\ after.at = [s.at EXCEPT ![e.to] = Len(s.entries) + 1]
  /\ \/ Moves(s, e) \/ Leaves(s, e) \/ Enters(s, e)
     \/ after.entries = s.entries /\ after.at = s.at

LEMMA ReplayedShape ==
  ASSUME NEW s, NEW e \in DraftEvents
  PROVE  IsAfter(s, e, Replayed(s, e))
<1>1. e.type = "move" \/ e.type = "delete"
  BY DEF DraftEvents
<1>2. CASE e.type = "move"
  <2> DEFINE next == ReplayMove(s, e, TimeOf(s, e))
  <2>1. Replayed(s, e) = [entries |-> next.entries, at |-> next.at, time |-> TimeOf(s, e)]
    BY <1>2 DEF Replayed, TimeOf
  <2>2. /\ Replayed(s, e).entries = next.entries /\ Replayed(s, e).at = next.at
        /\ Replayed(s, e).time = TimeOf(s, e)
    BY <2>1
  <2>3. CASE Moves(s, e)
    <3>1. /\ next.entries = [s.entries EXCEPT ![s.at[e.from]].moved = TimeOf(s, e)]
          /\ next.at = [[s.at EXCEPT ![e.from] = 0] EXCEPT ![e.to] = s.at[e.from]]
      BY <2>3 DEF Moves, ReplayMove
    <3> QED BY <2>2, <2>3, <3>1 DEF IsAfter, Moves, Leaves, Enters
  <2>4. CASE Leaves(s, e)
    <3>1. /\ next.entries = [s.entries EXCEPT ![s.at[e.from]].deleted = TRUE]
          /\ next.at = [s.at EXCEPT ![e.from] = 0]
      BY <1>2, <2>4 DEF Leaves, ReplayMove
    <3> QED BY <1>2, <2>2, <2>4, <3>1 DEF IsAfter, Moves, Leaves, Enters
  <2>5. CASE Enters(s, e)
    <3>1. /\ next.entries = Append(s.entries, Entry(e, TimeOf(s, e)))
          /\ next.at = [s.at EXCEPT ![e.to] = Len(s.entries) + 1]
      BY <2>5 DEF Enters, ReplayMove
    <3> QED BY <2>2, <2>5, <3>1 DEF IsAfter, Moves, Leaves, Enters
  <2>6. CASE ~Moves(s, e) /\ ~Leaves(s, e) /\ ~Enters(s, e)
    <3>1. next.entries = s.entries /\ next.at = s.at
      BY <1>2, <2>6 DEF Moves, Leaves, Enters, ReplayMove
    <3> QED BY <2>2, <2>6, <3>1 DEF IsAfter
  <2> QED BY <2>3, <2>4, <2>5, <2>6
<1>3. CASE e.type = "delete"
  <2> DEFINE next == ReplayDeletion(s, e, TimeOf(s, e))
  <2>1. Replayed(s, e) = [entries |-> next.entries, at |-> next.at, time |-> TimeOf(s, e)]
    BY <1>3 DEF Replayed, TimeOf
  <2>2. /\ Replayed(s, e).entries = next.entries /\ Replayed(s, e).at = next.at
        /\ Replayed(s, e).time = TimeOf(s, e)
    BY <2>1
  <2>3. ~Moves(s, e) /\ ~Enters(s, e)
    BY <1>3 DEF Moves, Enters
  <2>4. CASE Leaves(s, e)
    <3>1. /\ next.entries = [s.entries EXCEPT ![s.at[e.from]].deleted = TRUE]
          /\ next.at = [s.at EXCEPT ![e.from] = 0]
      BY <1>3, <2>4 DEF Leaves, ReplayDeletion, IsLater
    <3> QED BY <2>2, <2>3, <2>4, <3>1 DEF IsAfter
  <2>5. CASE ~Leaves(s, e)
    <3>1. next.entries = s.entries /\ next.at = s.at
      BY <1>3, <2>5 DEF Leaves, ReplayDeletion, IsLater
    <3> QED BY <2>2, <2>3, <2>5, <3>1 DEF IsAfter
  <2> QED BY <2>4, <2>5
<1> QED BY <1>1, <1>2, <1>3

LEMMA ReplayStaysSound ==
  ASSUME NEW s, ReplayIsSound(s), NEW e \in DraftEvents
  PROVE  ReplayIsSound(Replayed(s, e))
<1> DEFINE entries == s.entries
           at == s.at
           len == Len(s.entries)
           k == s.at[e.from]
<1>1. PICK new : new = Replayed(s, e)
  OBVIOUS
<1>a. IsAfter(s, e, new)
  BY <1>1, ReplayedShape
<1>b. TimeOf(s, e) \in Nat /\ new.time = TimeOf(s, e)
  <2>1. TimeOf(s, e) \in Nat
    BY DEF ReplayIsSound, TimeOf
  <2> QED BY <1>a, <2>1 DEF IsAfter
<1>2. /\ entries \in Seq(DraftEntries) /\ len = Len(entries) /\ len \in Nat /\ at \in [DraftMovesTitles -> 0 .. len]
      /\ \A t \in DraftTitles : at[t] = 0
      /\ \A t, u \in DraftMovesTitles : at[t] = at[u] /\ at[t] # 0 => t = u
      /\ e.from \in DraftMovesTitles /\ e.to \in DraftMovesTitles /\ k = at[e.from] /\ k \in 0 .. len
  BY DEF ReplayIsSound, DraftEvents
<1>3. /\ \A i \in 1 .. len : entries[i] \in DraftEntries
      /\ MainTitles \cap DraftTitles = {} /\ MainTitles \subseteq DraftMovesTitles
      /\ DraftTitles \subseteq DraftMovesTitles
  BY <1>2, DraftTitlesAssumption DEF DraftMovesTitles
<1>4. CASE Moves(s, e)
  <2>1. /\ new.entries = [entries EXCEPT ![k].moved = TimeOf(s, e)]
        /\ new.at = [[at EXCEPT ![e.from] = 0] EXCEPT ![e.to] = k]
        /\ k # 0 /\ e.to \in MainTitles
    BY <1>a, <1>4 DEF IsAfter, Moves
  <2> HIDE DEF entries, at, len, k
  <2>2. [entries[k] EXCEPT !.moved = TimeOf(s, e)] \in DraftEntries
    <3>1. PICK entry \in DraftEntries : entry = entries[k]
      BY <1>2, <1>3, <2>1
    <3> QED BY <1>b, <3>1 DEF DraftEntries
  <2>3. new.entries \in Seq(DraftEntries) /\ Len(new.entries) = len
    BY <1>2, <2>1, <2>2
  <2>4. new.at \in [DraftMovesTitles -> 0 .. len]
    BY <1>2, <1>3, <2>1
  <2>5. \A t \in DraftTitles : new.at[t] = 0
    BY <1>2, <1>3, <2>1
  <2>6. \A t, u \in DraftMovesTitles : new.at[t] = new.at[u] /\ new.at[t] # 0 => t = u
    BY <1>2, <1>3, <2>1
  <2> QED BY <1>1, <1>b, <1>2, <2>3, <2>4, <2>5, <2>6 DEF ReplayIsSound
<1>5. CASE Leaves(s, e)
  <2>1. /\ new.entries = [entries EXCEPT ![k].deleted = TRUE]
        /\ new.at = [at EXCEPT ![e.from] = 0] /\ k # 0
    <3>1. k # 0
      BY <1>5 DEF Leaves
    <3>2. new.entries = [entries EXCEPT ![k].deleted = TRUE]
      BY <1>a, <1>5 DEF IsAfter
    <3>3. new.at = [at EXCEPT ![e.from] = 0]
      BY <1>a, <1>5 DEF IsAfter
    <3> QED BY <3>1, <3>2, <3>3
  <2> HIDE DEF entries, at, len, k
  <2>2. [entries[k] EXCEPT !.deleted = TRUE] \in DraftEntries
    <3>1. PICK entry \in DraftEntries : entry = entries[k]
      BY <1>2, <1>3, <2>1
    <3> QED BY <3>1 DEF DraftEntries
  <2>3. new.entries \in Seq(DraftEntries) /\ Len(new.entries) = len
    BY <1>2, <2>1, <2>2
  <2>4. new.at \in [DraftMovesTitles -> 0 .. len]
    BY <1>2, <1>3, <2>1
  <2>5. \A t \in DraftTitles : new.at[t] = 0
    BY <1>2, <1>3, <2>1
  <2>6. \A t, u \in DraftMovesTitles : new.at[t] = new.at[u] /\ new.at[t] # 0 => t = u
    BY <1>2, <1>3, <2>1
  <2> QED BY <1>1, <1>b, <1>2, <2>3, <2>4, <2>5, <2>6 DEF ReplayIsSound
<1>6. CASE Enters(s, e)
  <2>1. PICK entry : entry = Entry(e, TimeOf(s, e))
    OBVIOUS
  <2>0. entry \in DraftEntries
    BY <1>b, <2>1 DEF Entry, DraftEntries, DraftEvents
  <2>2. /\ new.entries = Append(entries, entry)
        /\ new.at = [at EXCEPT ![e.to] = len + 1] /\ e.to \in MainTitles
    <3>1. e.to \in MainTitles
      BY <1>6 DEF Enters
    <3> QED BY <1>a, <1>6, <2>1, <3>1 DEF IsAfter
  <2> HIDE DEF entries, at, len, k
  <2>3. new.entries \in Seq(DraftEntries) /\ Len(new.entries) = len + 1
    BY <1>2, <2>0, <2>2
  <2>4. new.at \in [DraftMovesTitles -> 0 .. len + 1]
    BY <1>2, <1>3, <2>2
  <2>5. \A t \in DraftTitles : new.at[t] = 0
    BY <1>2, <1>3, <2>2
  <2>6. \A t, u \in DraftMovesTitles : new.at[t] = new.at[u] /\ new.at[t] # 0 => t = u
    BY <1>2, <1>3, <2>2
  <2> QED BY <1>1, <1>b, <1>2, <2>3, <2>4, <2>5, <2>6 DEF ReplayIsSound
<1>7. CASE new.entries = s.entries /\ new.at = s.at
  BY <1>1, <1>b, <1>7 DEF ReplayIsSound
<1> QED BY <1>1, <1>a, <1>4, <1>5, <1>6, <1>7 DEF IsAfter

\* A page is followed at a title: the entry says what it is.
Followed(s, t, a) ==
  /\ s.at[t] # 0
  /\ s.entries[s.at[t]].article = a /\ ~s.entries[s.at[t]].deleted /\ ~s.entries[s.at[t]].trusted

\* An event at other titles.
LEMMA OthersStayFollowed ==
  ASSUME NEW s, ReplayIsSound(s), NEW e \in DraftEvents, NEW t \in DraftMovesTitles, NEW a,
         t # e.from, t # e.to, Followed(s, t, a)
  PROVE  Followed(Replayed(s, e), t, a)
<1> DEFINE entries == s.entries
           at == s.at
           k == s.at[e.from]
           i == s.at[t]
<1>1. PICK new : new = Replayed(s, e)
  OBVIOUS
<1>a. IsAfter(s, e, new)
  BY <1>1, ReplayedShape
<1>2. /\ entries \in Seq(DraftEntries) /\ at \in [DraftMovesTitles -> 0 .. Len(entries)] /\ Len(entries) \in Nat
      /\ e.from \in DraftMovesTitles /\ e.to \in DraftMovesTitles /\ k = at[e.from] /\ i = at[t]
      /\ i \in 1 .. Len(entries) /\ k # i
  BY DEF ReplayIsSound, DraftEvents, Followed
<1>3. CASE Moves(s, e)
  <2>1. new.entries = [entries EXCEPT ![k].moved = TimeOf(s, e)] /\ new.at = [[at EXCEPT ![e.from] = 0] EXCEPT ![e.to] = k]
    BY <1>a, <1>3 DEF IsAfter
  <2>2. new.at[t] = i /\ new.entries[i] = entries[i]
    <3> HIDE DEF entries, at, k, i
    <3> QED BY <1>2, <2>1
  <2> QED BY <1>1, <2>2 DEF Followed
<1>4. CASE Leaves(s, e)
  <2>1. new.entries = [entries EXCEPT ![k].deleted = TRUE] /\ new.at = [at EXCEPT ![e.from] = 0]
    BY <1>a, <1>4 DEF IsAfter
  <2>2. new.at[t] = i /\ new.entries[i] = entries[i]
    <3> HIDE DEF entries, at, k, i
    <3> QED BY <1>2, <2>1
  <2> QED BY <1>1, <2>2 DEF Followed
<1>5. CASE Enters(s, e)
  <2>1. PICK entry : entry = Entry(e, TimeOf(s, e))
    OBVIOUS
  <2>2. new.entries = Append(entries, entry) /\ new.at = [at EXCEPT ![e.to] = Len(entries) + 1]
    BY <1>a, <1>5, <2>1 DEF IsAfter
  <2>3. new.at[t] = i
    <3> HIDE DEF entries, at, k, i
    <3> QED BY <1>2, <2>2
  <2>4. new.entries[i] = entries[i]
    <3> HIDE DEF entries, at, k, i
    <3>1. entry \in {entry} /\ \A n \in 1 .. Len(entries) : Append(entries, entry)[n] = entries[n]
      BY <1>2
    <3> QED BY <1>2, <2>2, <3>1
  <2> QED BY <1>1, <2>3, <2>4 DEF Followed
<1>6. CASE new.entries = s.entries /\ new.at = s.at
  BY <1>1, <1>6 DEF Followed
<1> QED BY <1>1, <1>a, <1>3, <1>4, <1>5, <1>6 DEF IsAfter

\* A draft that is followed goes from a title of the main namespace to another.
LEMMA MovedIsFollowed ==
  ASSUME NEW s, ReplayIsSound(s), NEW e \in DraftEvents, NEW a, e.type = "move", e.to \in MainTitles,
         e.from # e.to, Followed(s, e.from, a)
  PROVE  /\ Followed(Replayed(s, e), e.to, a)
         /\ Replayed(s, e).entries[Replayed(s, e).at[e.to]].moved = Replayed(s, e).time
<1> DEFINE entries == s.entries
           at == s.at
           k == s.at[e.from]
<1>1. PICK new : new = Replayed(s, e)
  OBVIOUS
<1>a. IsAfter(s, e, new)
  BY <1>1, ReplayedShape
<1>b. new.time = TimeOf(s, e)
  BY <1>a DEF IsAfter
<1>2. /\ entries \in Seq(DraftEntries) /\ at \in [DraftMovesTitles -> 0 .. Len(entries)] /\ Len(entries) \in Nat
      /\ e.from \in DraftMovesTitles /\ e.to \in DraftMovesTitles /\ k = at[e.from]
      /\ k \in 1 .. Len(entries) /\ Moves(s, e)
  BY DEF ReplayIsSound, DraftEvents, Followed, Moves
<1>3. new.entries = [entries EXCEPT ![k].moved = TimeOf(s, e)] /\ new.at = [[at EXCEPT ![e.from] = 0] EXCEPT ![e.to] = k]
  BY <1>a, <1>2 DEF IsAfter
<1>4. new.at[e.to] = k /\ new.entries[k] = [entries[k] EXCEPT !.moved = TimeOf(s, e)] /\ entries[k] \in DraftEntries
  <2> HIDE DEF entries, at, k
  <2>1. new.at[e.to] = k /\ entries[k] \in DraftEntries /\ k \in DOMAIN entries
    BY <1>2, <1>3
  <2> QED BY <1>3, <2>1
<1>5. PICK entry \in DraftEntries : entry = entries[k]
  BY <1>4
<1>6. PICK later : later = [entry EXCEPT !.moved = TimeOf(s, e)] /\ later = new.entries[k]
  BY <1>4, <1>5
<1>7. later.article = entry.article /\ later.deleted = entry.deleted /\ later.trusted = entry.trusted
      /\ later.moved = TimeOf(s, e)
  BY <1>5, <1>6 DEF DraftEntries
<1>8. k # 0 /\ entry.article = a /\ ~entry.deleted /\ ~entry.trusted
  BY <1>2, <1>5 DEF Followed
<1> HIDE DEF k
<1> QED BY <1>1, <1>b, <1>4, <1>6, <1>7, <1>8 DEF Followed

\* A draft is published by a user who is not trusted.
LEMMA PublishedIsFollowed ==
  ASSUME NEW s, ReplayIsSound(s), NEW e \in DraftEvents, e.type = "move", e.from \in DraftTitles,
         e.to \in MainTitles, ~e.trusted
  PROVE  /\ Followed(Replayed(s, e), e.to, e.article)
         /\ Replayed(s, e).entries[Replayed(s, e).at[e.to]].moved = Replayed(s, e).time
<1> DEFINE entries == s.entries
           at == s.at
           len == Len(s.entries)
<1>1. PICK new : new = Replayed(s, e)
  OBVIOUS
<1>a. IsAfter(s, e, new)
  BY <1>1, ReplayedShape
<1>b. new.time = TimeOf(s, e)
  BY <1>a DEF IsAfter
<1>2. /\ entries \in Seq(DraftEntries) /\ at \in [DraftMovesTitles -> 0 .. len] /\ len \in Nat
      /\ len = Len(entries) /\ e.to \in DraftMovesTitles /\ Enters(s, e)
  BY DraftTitlesAssumption DEF ReplayIsSound, DraftEvents, Enters
<1>3. PICK entry : entry = Entry(e, TimeOf(s, e))
  OBVIOUS
<1>7. /\ entry.article = e.article /\ ~entry.deleted /\ ~entry.trusted
      /\ entry.moved = TimeOf(s, e)
  BY <1>3 DEF Entry
<1>4. new.entries = Append(entries, entry) /\ new.at = [at EXCEPT ![e.to] = len + 1]
  BY <1>a, <1>2, <1>3 DEF IsAfter
<1> HIDE DEF entries, at, len
<1>5. new.at[e.to] = len + 1 /\ len + 1 # 0
  BY <1>2, <1>4
<1>6. new.entries[len + 1] = entry
  BY <1>2, <1>4
<1> QED BY <1>1, <1>b, <1>5, <1>6, <1>7 DEF Followed

\* The page that was overwritten is deleted in the same second, after the move.
LEMMA OverwritingIsFollowed ==
  ASSUME NEW s, ReplayIsSound(s), NEW e \in DraftEvents, NEW a, e.type = "delete", e.together,
         Followed(s, e.from, a), s.entries[s.at[e.from]].moved = s.time
  PROVE  Followed(Replayed(s, e), e.from, a)
<1>1. TimeOf(s, e) = s.time /\ s.time \in Nat
  BY DEF TimeOf, ReplayIsSound
<1>2. ~Moves(s, e) /\ ~Leaves(s, e) /\ ~Enters(s, e)
  BY <1>1 DEF Moves, Leaves, Enters
<1>a. IsAfter(s, e, Replayed(s, e))
  BY ReplayedShape
<1>3. Replayed(s, e).entries = s.entries /\ Replayed(s, e).at = s.at
  BY <1>2, <1>a DEF IsAfter
<1> QED BY <1>3 DEF Followed

---------------------------------------------------------------------------
(* The list of published drafts: the invariant. *)

\* What a run that starts after the event c of the log will find.
SinceEvent(events, c) == Replay(SubSeq(events, c + 1, Len(events)))

Follows(s, c, T) ==
  \A a \in Articles, t \in T : entered[a] > c /\ place[t] = a => Followed(s, t, a)

FollowedSince(c) ==
  /\ ReplayIsSound(SinceEvent(log, c))
  /\ Follows(SinceEvent(log, c), c, MainTitles)

DraftsTypeOK ==
  /\ place \in [DraftMovesTitles -> Articles \cup {Nobody}]
  /\ log \in Seq(DraftEvents)
  /\ entered \in [Articles -> Int]
  /\ \A a \in Articles : NotPublished <= entered[a] /\ entered[a] <= Len(log)
OneTitleEach == \A t, u \in DraftMovesTitles : place[t] = place[u] /\ place[t] # Nobody => t = u
PendingIsSound ==
  pending # NothingPending =>
    /\ pending.read \in 0 .. Len(log) /\ FollowedSince(pending.read)
    /\ \A a \in Articles, t \in MainTitles :
         entered[a] \in 1 .. pending.read /\ place[t] = a => a \in pending.found
DraftsInv ==
  DraftsTypeOK /\ OneTitleEach /\ FollowedSince(0) /\ PendingIsSound /\ PublishedDraftsAreListed

LEMMA SinceGrows ==
  ASSUME NEW events \in Seq(DraftEvents), NEW e \in DraftEvents, NEW c \in 0 .. Len(events)
  PROVE  SinceEvent(Append(events, e), c) = Replayed(SinceEvent(events, c), e)
<1> DEFINE len == Len(events)
           longer == Append(events, e)
           old == SubSeq(events, c + 1, len)
           new == SubSeq(longer, c + 1, len + 1)
<1>1. len \in Nat /\ longer \in Seq(DraftEvents) /\ Len(longer) = len + 1
      /\ longer[len + 1] = e /\ \A i \in 1 .. len : longer[i] = events[i]
  OBVIOUS
<1>2. old \in Seq(DraftEvents) /\ Len(old) = len - c /\ \A i \in 1 .. len - c : old[i] = events[c + i]
  BY <1>1, SubSeqProperties
<1>3. new \in Seq(DraftEvents) /\ Len(new) = len + 1 - c /\ \A i \in 1 .. len + 1 - c : new[i] = longer[c + i]
  <2> HIDE DEF longer
  <2> QED BY <1>1, SubSeqProperties
<1>4. c \in Nat /\ c <= len /\ len \in Nat
  BY <1>1
<1> HIDE DEF longer, old, new, len
<1>5. /\ Append(old, e) \in Seq(DraftEvents) /\ Len(Append(old, e)) = len - c + 1
      /\ Append(old, e)[len - c + 1] = e /\ \A i \in 1 .. len - c : Append(old, e)[i] = old[i]
  BY <1>2
<1>6. \A i \in 1 .. len + 1 - c : new[i] = Append(old, e)[i]
  <2> SUFFICES ASSUME NEW i \in 1 .. len + 1 - c  PROVE new[i] = Append(old, e)[i]
    OBVIOUS
  <2>1. CASE i = len + 1 - c
    <3>1. c + i = len + 1 /\ i = len - c + 1
      BY <1>4, <2>1
    <3> QED BY <1>1, <1>3, <1>5, <3>1
  <2>2. CASE i # len + 1 - c
    <3>1. i \in 1 .. len - c /\ c + i \in 1 .. len
      BY <1>4, <2>2
    <3>2. new[i] = longer[c + i] /\ Append(old, e)[i] = old[i]
      BY <1>3, <1>5, <3>1
    <3> QED BY <1>1, <1>2, <3>1, <3>2
  <2> QED BY <2>1, <2>2
<1>7. new = Append(old, e)
  <2>1. len + 1 - c = len - c + 1
    BY <1>1, <1>4
  <2> QED BY <1>3, <1>5, <1>6, <2>1, SeqEqual
<1>8. Replay(new) = Replayed(Replay(old), e)
  BY <1>2, <1>7, ReplayGrows
<1> QED BY <1>1, <1>8 DEF SinceEvent, new, old, len, longer

LEMMA SinceTheEnd ==
  ASSUME NEW events \in Seq(DraftEvents)
  PROVE  ReplayIsSound(SinceEvent(events, Len(events)))
<1>1. PICK len \in Nat : len = Len(events)
  OBVIOUS
<1>2. SubSeq(events, len + 1, len) = <<>>
  BY <1>1
<1>3. SinceEvent(events, Len(events)) = NothingReplayed
  BY <1>1, <1>2, NothingToReplay DEF SinceEvent
<1>4. ReplayIsSound(NothingReplayed)
  <2>1. <<>> \in Seq(DraftEntries) /\ Len(<<>>) = 0
    OBVIOUS
  <2> QED BY <2>1 DEF ReplayIsSound, NothingReplayed, DraftMovesTitles
<1> QED BY <1>3, <1>4

\* A page is moved: what is followed afterwards, but for a page that was at the new title.
LEMMA MoveIsFollowed ==
  ASSUME DraftsTypeOK, OneTitleEach, NEW c \in Nat, NEW s, ReplayIsSound(s), NEW e \in DraftEvents, NEW at,
         e.type = "move", e.from # e.to, e.article = place[e.from], place[e.from] # Nobody,
         place' = [place EXCEPT ![e.to] = place[e.from], ![e.from] = Nobody],
         entered' = IF e.from \in DraftTitles /\ e.to \in MainTitles
                    THEN [entered EXCEPT ![place[e.from]] = IF e.trusted THEN NotPublished ELSE at]
                    ELSE entered,
         Follows(s, c, MainTitles \ {e.to})
  PROVE  /\ Follows(Replayed(s, e), c, MainTitles)'
         /\ \A a \in Articles : (entered'[a] > c /\ place'[e.to] = a /\ e.to \in MainTitles) =>
              Replayed(s, e).entries[Replayed(s, e).at[e.to]].moved = Replayed(s, e).time
<1>1. /\ e.from \in DraftMovesTitles /\ e.to \in DraftMovesTitles /\ e.trusted \in BOOLEAN
      /\ MainTitles \subseteq DraftMovesTitles /\ DraftMovesTitles = MainTitles \cup DraftTitles
      /\ Nobody \notin Articles
  BY DraftTitlesAssumption DEF DraftEvents, DraftMovesTitles
<1>2. /\ place' \in [DraftMovesTitles -> Articles \cup {Nobody}]
      /\ place'[e.from] = Nobody /\ place'[e.to] = place[e.from] /\ place[e.from] \in Articles
      /\ \A t \in DraftMovesTitles : t # e.from /\ t # e.to => place'[t] = place[t]
  BY <1>1 DEF DraftsTypeOK
<1>3. \A a \in Articles : a # place[e.from] => entered'[a] = entered[a]
  BY DEF DraftsTypeOK
<1>4. ASSUME NEW a \in Articles, NEW t \in MainTitles, entered'[a] > c, place'[t] = a, t # e.to
      PROVE  Followed(Replayed(s, e), t, a)
  <2>1. t # e.from /\ t \in DraftMovesTitles /\ place[t] = a
    BY <1>1, <1>2, <1>4
  <2>2. a # place[e.from]
    BY <1>1, <2>1 DEF OneTitleEach
  <2>3. Followed(s, t, a)
    BY <1>3, <1>4, <2>1, <2>2 DEF Follows
  <2> QED BY <1>4, <2>1, <2>3, OthersStayFollowed
<1>5. ASSUME NEW a \in Articles, entered'[a] > c, place'[e.to] = a, e.to \in MainTitles
      PROVE  /\ Followed(Replayed(s, e), e.to, a)
             /\ Replayed(s, e).entries[Replayed(s, e).at[e.to]].moved = Replayed(s, e).time
  <2>1. CASE e.from \in MainTitles
    <3>1. entered[a] > c /\ place[e.from] = a
      BY <1>2, <1>5, <2>1, DraftTitlesAssumption
    <3>2. Followed(s, e.from, a)
      BY <2>1, <3>1 DEF Follows
    <3> QED BY <1>5, <3>2, MovedIsFollowed
  <2>2. CASE e.from \in DraftTitles
    <3>1. entered'[a] = IF e.trusted THEN NotPublished ELSE at
      BY <1>2, <1>5, <2>2 DEF DraftsTypeOK
    <3>2. ~e.trusted
      BY <1>1, <1>5, <3>1 DEF NotPublished
    <3> QED BY <1>2, <1>5, <2>2, <3>2, PublishedIsFollowed
  <2> QED BY <1>1, <2>1, <2>2
<1> QED BY <1>4, <1>5 DEF Follows

\* An event at another title.
LEMMA OthersAreFollowed ==
  ASSUME NEW c, NEW s, ReplayIsSound(s), NEW e \in DraftEvents, NEW T \in SUBSET DraftMovesTitles,
         Follows(s, c, T)
  PROVE  Follows(Replayed(s, e), c, T \ {e.from, e.to})
BY OthersStayFollowed DEF Follows

\* MovePage, with the deletion of the page that was at the new title.
LEMMA MovePageIsFollowed ==
  ASSUME DraftsTypeOK, OneTitleEach, NEW c \in 0 .. Len(log), FollowedSince(c),
         NEW from \in DraftMovesTitles, NEW to \in DraftMovesTitles,
         NEW left \in BOOLEAN, NEW trusted \in BOOLEAN, NEW together \in BOOLEAN, NEW deletionFirst \in BOOLEAN,
         MovePage(from, to, left, trusted, together, deletionFirst)
  PROVE  FollowedSince(c)' /\ log' \in Seq(DraftEvents) /\ Len(log') >= Len(log)
<1>1. PICK s : s = SinceEvent(log, c) /\ ReplayIsSound(s) /\ Follows(s, c, MainTitles)
  BY DEF FollowedSince
<1>2. log \in Seq(DraftEvents) /\ Len(log) \in Nat /\ c \in Nat
  BY DEF DraftsTypeOK
<1>3. PICK move : move = Event("move", from, to, left, trusted, together)
  OBVIOUS
<1>4. PICK deletion : deletion = Event("delete", to, to, FALSE, TRUE, together)
  OBVIOUS
<1>5. place[from] \in Articles \cup {Nobody} /\ place[to] \in Articles \cup {Nobody}
  BY DEF DraftsTypeOK
<1>6. /\ move \in DraftEvents /\ move.type = "move" /\ move.from = from /\ move.to = to
      /\ move.article = place[from]
      /\ from \in DraftTitles /\ to \in MainTitles => move.trusted = trusted
  BY <1>3, <1>5 DEF Event, DraftEvents
<1>7. deletion \in DraftEvents /\ deletion.type = "delete" /\ deletion.from = to /\ deletion.to = to
  BY <1>4, <1>5 DEF Event, DraftEvents
<1>8. PICK move2 : move2 = [move EXCEPT !.together = TRUE]
  OBVIOUS
<1>9. /\ move2 \in DraftEvents /\ move2.type = "move" /\ move2.from = from /\ move2.to = to
      /\ move2.article = place[from]
      /\ from \in DraftTitles /\ to \in MainTitles => move2.trusted = trusted
  BY <1>6, <1>8 DEF DraftEvents
<1>10. PICK deletion2 : deletion2 = [deletion EXCEPT !.together = TRUE]
  OBVIOUS
<1>11. /\ deletion2 \in DraftEvents /\ deletion2.type = "delete" /\ deletion2.from = to /\ deletion2.to = to
       /\ deletion2.together
  BY <1>7, <1>10 DEF DraftEvents
<1> DEFINE at == Len(log) + IF place[to] # Nobody /\ deletionFirst THEN 2 ELSE 1
<1>12. /\ from # to /\ place[from] # Nobody
       /\ place' = [place EXCEPT ![to] = place[from], ![from] = Nobody]
       /\ entered' = IF from \in DraftTitles /\ to \in MainTitles
                     THEN [entered EXCEPT ![place[from]] = IF trusted THEN NotPublished ELSE at]
                     ELSE entered
  BY DEF MovePage
<1>13. log' = log \o CASE ~(place[to] # Nobody) -> <<move>>
                       [] place[to] # Nobody /\ deletionFirst -> <<deletion, move2>>
                       [] OTHER -> <<move, deletion2>>
  BY <1>3, <1>4, <1>8, <1>10 DEF MovePage
<1> HIDE DEF at
\* What is followed after the move, when s1 is what was followed before.
<1>14. ASSUME NEW e \in {move, move2}, NEW s1, ReplayIsSound(s1), Follows(s1, c, MainTitles \ {to})
       PROVE  /\ Follows(Replayed(s1, e), c, MainTitles)'
              /\ \A a \in Articles : (entered'[a] > c /\ place'[to] = a /\ to \in MainTitles) =>
                   Replayed(s1, e).entries[Replayed(s1, e).at[to]].moved = Replayed(s1, e).time
  <2>1. /\ e \in DraftEvents /\ e.type = "move" /\ e.from = from /\ e.to = to /\ e.article = place[from]
        /\ from \in DraftTitles /\ to \in MainTitles => e.trusted = trusted
    BY <1>6, <1>9
  <2>2. entered' = IF e.from \in DraftTitles /\ e.to \in MainTitles
                   THEN [entered EXCEPT ![place[e.from]] = IF e.trusted THEN NotPublished ELSE at]
                   ELSE entered
    BY <1>12, <2>1
  <2>3. place' = [place EXCEPT ![e.to] = place[e.from], ![e.from] = Nobody]
    BY <1>12, <2>1
  <2>4. Follows(s1, c, MainTitles \ {e.to}) /\ e.from # e.to /\ e.article = place[e.from] /\ place[e.from] # Nobody
    BY <1>12, <1>14, <2>1
  <2>5. /\ Follows(Replayed(s1, e), c, MainTitles)'
        /\ \A a \in Articles : (entered'[a] > c /\ place'[e.to] = a /\ e.to \in MainTitles) =>
              Replayed(s1, e).entries[Replayed(s1, e).at[e.to]].moved = Replayed(s1, e).time
    BY <1>2, <1>14, <2>1, <2>2, <2>3, <2>4, MoveIsFollowed
  <2> QED BY <2>1, <2>5
<1>15. Follows(s, c, MainTitles \ {to})
  BY <1>1 DEF Follows
<1>16. CASE ~(place[to] # Nobody)
  <2>1. log' = Append(log, move)
    BY <1>2, <1>6, <1>13, <1>16
  <2>2. SinceEvent(log', c) = Replayed(s, move)
    BY <1>1, <1>2, <1>6, <2>1, SinceGrows
  <2>3. ReplayIsSound(Replayed(s, move))
    BY <1>1, <1>6, ReplayStaysSound
  <2>4. Follows(Replayed(s, move), c, MainTitles)'
    BY <1>1, <1>14, <1>15
  <2> QED BY <1>2, <1>6, <2>1, <2>2, <2>3, <2>4 DEF FollowedSince, Follows
<1>17. CASE place[to] # Nobody /\ deletionFirst
  <2>1. PICK log2 : log2 = Append(log, deletion)
    OBVIOUS
  <2>9. log2 \in Seq(DraftEvents) /\ Len(log2) = Len(log) + 1 /\ c \in 0 .. Len(log2)
    BY <1>2, <1>7, <2>1
  <2>2. log' = Append(log2, move2)
    BY <1>2, <1>7, <1>9, <1>13, <1>17, <2>1
  <2>3. PICK s1 : s1 = Replayed(s, deletion)
    OBVIOUS
  <2>4. SinceEvent(log2, c) = s1 /\ ReplayIsSound(s1)
    BY <1>1, <1>2, <1>7, <2>1, <2>3, SinceGrows, ReplayStaysSound
  <2>5. SinceEvent(log', c) = Replayed(s1, move2)
    BY <1>9, <2>2, <2>4, <2>9, SinceGrows
  <2>6. Follows(s1, c, MainTitles \ {to})
    <3>1. MainTitles \in SUBSET DraftMovesTitles
      BY DEF DraftMovesTitles
    <3>2. Follows(s1, c, MainTitles \ {deletion.from, deletion.to})
      BY <1>1, <1>7, <2>3, <3>1, OthersAreFollowed
    <3> QED BY <1>7, <3>2
  <2>7. Follows(Replayed(s1, move2), c, MainTitles)' /\ ReplayIsSound(Replayed(s1, move2))
    BY <1>9, <1>14, <2>4, <2>6, ReplayStaysSound
  <2> QED BY <1>2, <1>9, <2>2, <2>5, <2>7, <2>9 DEF FollowedSince, Follows
<1>18. CASE place[to] # Nobody /\ ~deletionFirst
  <2>1. PICK log2 : log2 = Append(log, move)
    OBVIOUS
  <2>9. log2 \in Seq(DraftEvents) /\ Len(log2) = Len(log) + 1 /\ c \in 0 .. Len(log2)
    BY <1>2, <1>6, <2>1
  <2>2. log' = Append(log2, deletion2)
    BY <1>2, <1>6, <1>11, <1>13, <1>18, <2>1
  <2>3. PICK s1 : s1 = Replayed(s, move)
    OBVIOUS
  <2>4. SinceEvent(log2, c) = s1 /\ ReplayIsSound(s1)
    BY <1>1, <1>2, <1>6, <2>1, <2>3, SinceGrows, ReplayStaysSound
  <2>5. SinceEvent(log', c) = Replayed(s1, deletion2)
    BY <1>11, <2>2, <2>4, <2>9, SinceGrows
  <2>6. /\ Follows(s1, c, MainTitles)'
        /\ \A a \in Articles : (entered'[a] > c /\ place'[to] = a /\ to \in MainTitles) =>
              s1.entries[s1.at[to]].moved = s1.time
    BY <1>1, <1>14, <1>15, <2>3
  <2>7. ReplayIsSound(Replayed(s1, deletion2))
    BY <1>11, <2>4, ReplayStaysSound
  <2>8. ASSUME NEW a \in Articles, NEW t \in MainTitles, entered'[a] > c, place'[t] = a
        PROVE  Followed(Replayed(s1, deletion2), t, a)
    <3>1. Followed(s1, t, a)
      BY <2>6, <2>8 DEF Follows
    <3>2. CASE t # to
      <4>1. t \in DraftMovesTitles /\ t # deletion2.from /\ t # deletion2.to
        BY <1>11, <3>2 DEF DraftMovesTitles
      <4> QED BY <1>11, <2>4, <3>1, <4>1, OthersStayFollowed
    <3>3. CASE t = to
      <4>1. Followed(s1, deletion2.from, a) /\ s1.entries[s1.at[deletion2.from]].moved = s1.time
        BY <1>11, <2>6, <2>8, <3>1, <3>3
      <4>2. Followed(Replayed(s1, deletion2), deletion2.from, a)
        BY <1>11, <2>4, <4>1, OverwritingIsFollowed
      <4> QED BY <1>11, <3>3, <4>2
    <3> QED BY <3>2, <3>3
  <2> QED BY <1>2, <1>11, <2>2, <2>5, <2>7, <2>8, <2>9 DEF FollowedSince, Follows
<1> QED BY <1>16, <1>17, <1>18

LEMMA DeletePageIsFollowed ==
  ASSUME DraftsTypeOK, OneTitleEach, NEW c \in 0 .. Len(log), FollowedSince(c),
         NEW t \in DraftMovesTitles, DeletePage(t)
  PROVE  FollowedSince(c)' /\ log' \in Seq(DraftEvents) /\ Len(log') >= Len(log)
<1>1. PICK s : s = SinceEvent(log, c) /\ ReplayIsSound(s) /\ Follows(s, c, MainTitles)
  BY DEF FollowedSince
<1>2. log \in Seq(DraftEvents) /\ Len(log) \in Nat
  BY DEF DraftsTypeOK
<1>3. PICK e : e = Event("delete", t, t, FALSE, TRUE, FALSE)
  OBVIOUS
<1>4. place[t] \in Articles \cup {Nobody}
  BY DEF DraftsTypeOK
<1>5. e \in DraftEvents /\ e.from = t /\ e.to = t
  BY <1>3, <1>4 DEF Event, DraftEvents
<1>6. log' = Append(log, e) /\ place' = [place EXCEPT ![t] = Nobody] /\ entered' = entered
  BY <1>3 DEF DeletePage
<1>7. SinceEvent(log', c) = Replayed(s, e) /\ ReplayIsSound(Replayed(s, e))
  BY <1>1, <1>2, <1>5, <1>6, SinceGrows, ReplayStaysSound
<1>8. ASSUME NEW a \in Articles, NEW u \in MainTitles, entered'[a] > c, place'[u] = a
      PROVE  Followed(Replayed(s, e), u, a)
  <2>1. u # t /\ place[u] = a /\ u \in DraftMovesTitles
    BY <1>6, <1>8, DraftTitlesAssumption DEF DraftsTypeOK, DraftMovesTitles
  <2>2. Followed(s, u, a)
    BY <1>1, <1>6, <1>8, <2>1 DEF Follows
  <2> QED BY <1>1, <1>5, <2>1, <2>2, OthersStayFollowed
<1> QED BY <1>2, <1>5, <1>6, <1>7, <1>8 DEF FollowedSince, Follows

\* What the moves and deletions of pages leave to the other parts of the invariant.
LEMMA PagesKeepDrafts ==
  ASSUME DraftsInv, UNCHANGED <<list, pending>>,
         \A c \in 0 .. Len(log) : FollowedSince(c) => FollowedSince(c)',
         log' \in Seq(DraftEvents), Len(log') >= Len(log),
         place' \in [DraftMovesTitles -> Articles \cup {Nobody}], OneTitleEach',
         entered' \in [Articles -> Int],
         \A a \in Articles : entered'[a] = entered[a] \/ entered'[a] \in {NotPublished} \cup (Len(log) + 1 .. Len(log')),
         \A a \in Articles : entered'[a] = entered[a] /\ entered[a] >= 0 /\ (\E t \in MainTitles : place'[t] = a)
                               => \E t \in MainTitles : place[t] = a
  PROVE  DraftsInv'
<1>1. log \in Seq(DraftEvents) /\ Len(log) \in Nat /\ Len(log') \in Nat
  BY DEF DraftsInv, DraftsTypeOK
<1>2. DraftsTypeOK'
  <2>1. ASSUME NEW a \in Articles  PROVE NotPublished <= entered'[a] /\ entered'[a] <= Len(log')
    <3>1. entered[a] \in Int /\ NotPublished <= entered[a] /\ entered[a] <= Len(log)
      BY DEF DraftsInv, DraftsTypeOK
    <3>2. entered'[a] = entered[a] \/ entered'[a] = NotPublished \/ entered'[a] \in Len(log) + 1 .. Len(log')
      OBVIOUS
    <3> QED BY <1>1, <3>1, <3>2 DEF NotPublished
  <2> QED BY <2>1 DEF DraftsTypeOK
<1>3. FollowedSince(0)'
  BY <1>1 DEF DraftsInv
<1>4. PendingIsSound'
  <2> SUFFICES ASSUME pending # NothingPending  PROVE PendingIsSound'
    BY DEF PendingIsSound
  <2>1. PICK r, found : r = pending.read /\ found = pending.found
    OBVIOUS
  <2>2. /\ r \in 0 .. Len(log) /\ FollowedSince(r)
        /\ \A a \in Articles, t \in MainTitles : entered[a] \in 1 .. r /\ place[t] = a => a \in found
    BY <2>1 DEF DraftsInv, PendingIsSound
  <2>3. FollowedSince(r)' /\ r \in 0 .. Len(log')
    BY <1>1, <2>2
  <2>4. ASSUME NEW a \in Articles, NEW t \in MainTitles, entered'[a] \in 1 .. r, place'[t] = a
        PROVE  a \in found
    <3>1. entered'[a] = entered[a] /\ entered[a] >= 0
      BY <1>1, <2>2, <2>4 DEF NotPublished
    <3>2. PICK u \in MainTitles : place[u] = a
      BY <2>4, <3>1
    <3> QED BY <2>2, <2>4, <3>1, <3>2
  <2> QED BY <2>1, <2>3, <2>4 DEF PendingIsSound
<1>5. PublishedDraftsAreListed'
  <2> SUFFICES ASSUME NEW a \in Articles, entered'[a] = 0, \E t \in MainTitles : place'[t] = a
               PROVE  a \in list
    BY DEF PublishedDraftsAreListed
  <2>1. entered'[a] = entered[a]
    BY <1>1 DEF NotPublished
  <2> QED BY <2>1 DEF DraftsInv, PublishedDraftsAreListed
<1> QED BY <1>2, <1>3, <1>4, <1>5 DEF DraftsInv

LEMMA MovePageKeepsDrafts ==
  ASSUME DraftsInv, NEW from \in DraftMovesTitles, NEW to \in DraftMovesTitles,
         NEW left \in BOOLEAN, NEW trusted \in BOOLEAN, NEW together \in BOOLEAN, NEW deletionFirst \in BOOLEAN,
         MovePage(from, to, left, trusted, together, deletionFirst)
  PROVE  DraftsInv'
<1> DEFINE at == Len(log) + IF place[to] # Nobody /\ deletionFirst THEN 2 ELSE 1
<1>1. /\ from # to /\ place[from] # Nobody
      /\ place' = [place EXCEPT ![to] = place[from], ![from] = Nobody]
      /\ entered' = IF from \in DraftTitles /\ to \in MainTitles
                    THEN [entered EXCEPT ![place[from]] = IF trusted THEN NotPublished ELSE at]
                    ELSE entered
      /\ UNCHANGED <<list, pending>>
  BY DEF MovePage, DraftsBotWaits
<1>2. /\ place \in [DraftMovesTitles -> Articles \cup {Nobody}] /\ entered \in [Articles -> Int]
      /\ log \in Seq(DraftEvents) /\ Len(log) \in Nat /\ OneTitleEach /\ Nobody \notin Articles
      /\ DraftMovesTitles = MainTitles \cup DraftTitles /\ MainTitles \cap DraftTitles = {}
  BY DraftTitlesAssumption DEF DraftsInv, DraftsTypeOK, DraftMovesTitles
<1>3. \A c \in 0 .. Len(log) : FollowedSince(c) => FollowedSince(c)'
  BY <1>2, MovePageIsFollowed DEF DraftsInv
<1>4. log' \in Seq(DraftEvents) /\ Len(log') >= at
  <2>1. PICK m : m = Event("move", from, to, left, trusted, together)
    OBVIOUS
  <2>2. PICK d : d = Event("delete", to, to, FALSE, TRUE, together)
    OBVIOUS
  <2>3. PICK m2, d2 : m2 = [m EXCEPT !.together = TRUE] /\ d2 = [d EXCEPT !.together = TRUE]
    OBVIOUS
  <2>4. log' = log \o CASE ~(place[to] # Nobody) -> <<m>>
                        [] place[to] # Nobody /\ deletionFirst -> <<d, m2>>
                        [] OTHER -> <<m, d2>>
    BY <2>1, <2>2, <2>3 DEF MovePage
  <2>5. 0 \in 0 .. Len(log) /\ FollowedSince(0)
    BY <1>2 DEF DraftsInv
  <2>6. log' \in Seq(DraftEvents)
    BY <1>2, <2>5, MovePageIsFollowed DEF DraftsInv
  <2>7. CASE ~(place[to] # Nobody)
    BY <1>2, <2>4, <2>6, <2>7
  <2>8. CASE place[to] # Nobody /\ deletionFirst
    BY <1>2, <2>4, <2>6, <2>8
  <2>9. CASE place[to] # Nobody /\ ~deletionFirst
    BY <1>2, <2>4, <2>6, <2>9
  <2> QED BY <2>7, <2>8, <2>9
<1>5. at \in Nat /\ at > Len(log)
  BY <1>2
<1> HIDE DEF at
<1>6. place' \in [DraftMovesTitles -> Articles \cup {Nobody}] /\ OneTitleEach'
  BY <1>1, <1>2 DEF OneTitleEach
<1>7. /\ entered' \in [Articles -> Int]
      /\ \A a \in Articles : entered'[a] = entered[a] \/ entered'[a] \in {NotPublished} \cup (Len(log) + 1 .. Len(log'))
  BY <1>1, <1>2, <1>4, <1>5 DEF NotPublished
<1>8. ASSUME NEW a \in Articles, entered'[a] = entered[a], entered[a] >= 0, NEW t \in MainTitles, place'[t] = a
      PROVE  \E u \in MainTitles : place[u] = a
  <2>1. CASE t # to
    BY <1>1, <1>2, <1>8, <2>1
  <2>2. CASE t = to /\ from \in MainTitles
    BY <1>1, <1>2, <1>8, <2>2
  <2>3. CASE t = to /\ from \in DraftTitles
    <3>1. entered'[a] \in {NotPublished, at} /\ a = place[from]
      BY <1>1, <1>2, <1>8, <2>3
    <3>2. entered[a] <= Len(log) /\ entered[a] \in Int
      BY <1>2 DEF DraftsInv, DraftsTypeOK
    <3> QED BY <1>2, <1>5, <1>8, <3>1, <3>2 DEF NotPublished
  <2> QED BY <1>2, <2>1, <2>2, <2>3
<1>9. Len(log') >= Len(log) /\ UNCHANGED <<list, pending>>
  BY <1>1, <1>2, <1>4, <1>5
<1>10. \A a \in Articles : entered'[a] = entered[a] /\ entered[a] >= 0 /\ (\E t \in MainTitles : place'[t] = a)
                               => \E t \in MainTitles : place[t] = a
  BY <1>8
<1> QED BY <1>3, <1>4, <1>6, <1>7, <1>9, <1>10, PagesKeepDrafts

LEMMA DeletePageKeepsDrafts ==
  ASSUME DraftsInv, NEW t \in DraftMovesTitles, DeletePage(t)
  PROVE  DraftsInv'
<1>1. place' = [place EXCEPT ![t] = Nobody] /\ entered' = entered /\ UNCHANGED <<list, pending>>
  BY DEF DeletePage, DraftsBotWaits
<1>2. /\ place \in [DraftMovesTitles -> Articles \cup {Nobody}] /\ entered \in [Articles -> Int]
      /\ Len(log) \in Nat /\ OneTitleEach /\ DraftsTypeOK /\ Nobody \notin Articles
      /\ FollowedSince(0) /\ MainTitles \subseteq DraftMovesTitles
  BY DraftTitlesAssumption DEF DraftsInv, DraftsTypeOK, DraftMovesTitles
<1>3. \A c \in 0 .. Len(log) : FollowedSince(c) => FollowedSince(c)'
  BY <1>2, DeletePageIsFollowed
<1>4. log' \in Seq(DraftEvents) /\ Len(log') >= Len(log)
  BY <1>2, DeletePageIsFollowed
<1>5. place' \in [DraftMovesTitles -> Articles \cup {Nobody}] /\ OneTitleEach'
  BY <1>1, <1>2 DEF OneTitleEach
<1>6. \A a \in Articles : (\E u \in MainTitles : place'[u] = a) => \E u \in MainTitles : place[u] = a
  BY <1>1, <1>2
<1> QED BY <1>1, <1>2, <1>3, <1>4, <1>5, <1>6, PagesKeepDrafts

LEMMA CreatePageKeepsDrafts ==
  ASSUME DraftsInv, NEW a \in Articles, NEW t \in DraftMovesTitles, CreatePage(a, t)
  PROVE  DraftsInv'
<1>1. /\ place[t] = Nobody /\ \A u \in DraftMovesTitles : place[u] # a
      /\ place' = [place EXCEPT ![t] = a] /\ entered' = [entered EXCEPT ![a] = NotPublished]
      /\ list' = list \ {a} /\ UNCHANGED <<log, pending>>
  BY DEF CreatePage
<1>2. /\ place \in [DraftMovesTitles -> Articles \cup {Nobody}] /\ entered \in [Articles -> Int]
      /\ log \in Seq(DraftEvents) /\ Len(log) \in Nat /\ OneTitleEach
      /\ \A b \in Articles : -1 <= entered[b] /\ entered[b] <= Len(log)
      /\ MainTitles \subseteq DraftMovesTitles /\ Nobody \notin Articles
  BY DraftTitlesAssumption DEF DraftsInv, DraftsTypeOK, DraftMovesTitles, NotPublished
<1>3. /\ entered'[a] = -1 /\ \A b \in Articles : b # a => entered'[b] = entered[b]
      /\ \A b \in Articles, u \in MainTitles : b # a /\ place'[u] = b => place[u] = b
  BY <1>1, <1>2 DEF NotPublished
<1>4. DraftsTypeOK' /\ OneTitleEach'
  <2>1. entered' \in [Articles -> Int] /\ place' \in [DraftMovesTitles -> Articles \cup {Nobody}]
    BY <1>1, <1>2 DEF NotPublished
  <2>2. \A b \in Articles : -1 <= entered'[b] /\ entered'[b] <= Len(log)
    BY <1>2, <1>3
  <2>3. OneTitleEach'
    BY <1>1, <1>2 DEF OneTitleEach
  <2> QED BY <1>1, <1>2, <2>1, <2>2, <2>3 DEF DraftsTypeOK, NotPublished
<1>5. ASSUME NEW c \in Nat, FollowedSince(c)
      PROVE  FollowedSince(c)'
  <2>1. ASSUME NEW b \in Articles, NEW u \in MainTitles, entered'[b] > c, place'[u] = b
        PROVE  entered[b] > c /\ place[u] = b
    BY <1>3, <2>1
  <2> QED BY <1>1, <1>5, <2>1 DEF FollowedSince, Follows
<1>6. FollowedSince(0)'
  BY <1>5 DEF DraftsInv
<1>7. PendingIsSound'
  <2> SUFFICES ASSUME pending # NothingPending  PROVE PendingIsSound'
    BY <1>1 DEF PendingIsSound
  <2>1. PICK r, found : r = pending.read /\ found = pending.found
    OBVIOUS
  <2>2. /\ r \in 0 .. Len(log) /\ FollowedSince(r)
        /\ \A b \in Articles, u \in MainTitles : entered[b] \in 1 .. r /\ place[u] = b => b \in found
    BY <2>1 DEF DraftsInv, PendingIsSound
  <2>3. FollowedSince(r)'
    BY <1>2, <1>5, <2>2
  <2>4. \A b \in Articles, u \in MainTitles : entered'[b] \in 1 .. r /\ place'[u] = b => b \in found
    BY <1>3, <2>2
  <2> QED BY <1>1, <2>1, <2>2, <2>3, <2>4 DEF PendingIsSound
<1>8. PublishedDraftsAreListed'
  BY <1>1, <1>3 DEF DraftsInv, PublishedDraftsAreListed
<1> QED BY <1>4, <1>6, <1>7, <1>8 DEF DraftsInv

\* A run reads the log: it has what is followed, and follows nothing yet of what comes next.
LEMMA ReadDraftLogKeepsDrafts ==
  ASSUME DraftsInv, ReadDraftLog
  PROVE  DraftsInv'
<1>1. pending' = [read |-> Len(log), found |-> NewlyPublished(log)] /\ UNCHANGED <<place, log, list, entered>>
  BY DEF ReadDraftLog
<1>2. /\ log \in Seq(DraftEvents) /\ Len(log) \in Nat /\ entered \in [Articles -> Int]
      /\ \A a \in Articles : entered[a] <= Len(log)
      /\ FollowedSince(0) /\ MainTitles \subseteq DraftMovesTitles
  BY DEF DraftsInv, DraftsTypeOK, DraftMovesTitles
<1>3. PICK s : s = SinceEvent(log, 0) /\ ReplayIsSound(s) /\ Follows(s, 0, MainTitles)
  BY <1>2 DEF FollowedSince
<1>4. s = Replay(log)
  <2>1. SubSeq(log, 0 + 1, Len(log)) = log
    BY <1>2, SubSeqFull
  <2> QED BY <1>3, <2>1 DEF SinceEvent
<1>5. ASSUME NEW a \in Articles, NEW t \in MainTitles, entered[a] > 0, place[t] = a
      PROVE  a \in NewlyPublished(log)
  <2>1. Followed(s, t, a)
    BY <1>3, <1>5 DEF Follows
  <2>2. s.at[t] \in 1 .. Len(s.entries) /\ s.entries \in Seq(DraftEntries)
    BY <1>2, <1>3, <2>1 DEF ReplayIsSound, Followed
  <2>3. s.entries[s.at[t]] \in ToSet(s.entries)
    BY <2>2 DEF ToSet
  <2> QED BY <1>4, <2>1, <2>3 DEF NewlyPublished, Followed
<1>6. FollowedSince(Len(log))
  <2>1. ReplayIsSound(SinceEvent(log, Len(log)))
    BY <1>2, SinceTheEnd
  <2>2. \A a \in Articles : ~(entered[a] > Len(log))
    BY <1>2
  <2> QED BY <2>1, <2>2 DEF FollowedSince, Follows
<1>7. DraftsTypeOK' /\ OneTitleEach' /\ FollowedSince(0)' /\ PublishedDraftsAreListed'
  BY <1>1 DEF DraftsInv, DraftsTypeOK, OneTitleEach, FollowedSince, Follows, PublishedDraftsAreListed
<1>8. PendingIsSound'
  <2>1. PICK r, found : r = Len(log) /\ found = NewlyPublished(log)
    OBVIOUS
  <2>2. pending'.read = r /\ pending'.found = found
    BY <1>1, <2>1
  <2>3. FollowedSince(r)'
    BY <1>1, <1>6, <2>1 DEF FollowedSince, Follows
  <2>4. r \in 0 .. Len(log')
    BY <1>1, <1>2, <2>1
  <2>5. \A a \in Articles, t \in MainTitles : entered'[a] \in 1 .. r /\ place'[t] = a => a \in found
    BY <1>1, <1>2, <1>5, <2>1
  <2> QED BY <2>2, <2>3, <2>4, <2>5 DEF PendingIsSound
<1> QED BY <1>7, <1>8 DEF DraftsInv

LEMMA EditListKeepsDrafts ==
  ASSUME DraftsInv, NEW edited \in BOOLEAN, NEW stored \in BOOLEAN, EditListAndSave(edited, stored)
  PROVE  DraftsInv'
<1>1. /\ pending # NothingPending /\ (stored => edited) /\ pending' = NothingPending /\ place' = place
      /\ list' = IF edited THEN list \cup pending.found ELSE list
      /\ log' = IF stored THEN SubSeq(log, pending.read + 1, Len(log)) ELSE log
      /\ entered' = IF ~stored THEN entered
                    ELSE [a \in Articles |-> CASE entered[a] = NotPublished -> NotPublished
                                               [] entered[a] <= pending.read /\ entered[a] # NotPublished -> 0
                                               [] OTHER -> entered[a] - pending.read]
  BY DEF EditListAndSave, Listed
<1>2. /\ log \in Seq(DraftEvents) /\ Len(log) \in Nat /\ entered \in [Articles -> Int]
      /\ \A a \in Articles : -1 <= entered[a] /\ entered[a] <= Len(log)
  BY DEF DraftsInv, DraftsTypeOK, NotPublished
<1>3. PendingIsSound'
  BY <1>1 DEF PendingIsSound
<1>4. OneTitleEach' /\ place' \in [DraftMovesTitles -> Articles \cup {Nobody}]
  BY <1>1 DEF DraftsInv, OneTitleEach, DraftsTypeOK
<1>5. CASE ~stored
  <2>1. log' = log /\ entered' = entered /\ list \subseteq list'
    BY <1>1, <1>5
  <2>2. DraftsTypeOK' /\ FollowedSince(0)' /\ PublishedDraftsAreListed'
    BY <1>1, <2>1 DEF DraftsInv, DraftsTypeOK, FollowedSince, Follows, PublishedDraftsAreListed
  <2> QED BY <1>3, <1>4, <2>2 DEF DraftsInv
<1>6. CASE stored
  <2>1. PICK r, found : r = pending.read /\ found = pending.found
    OBVIOUS
  <2>2. /\ r \in 0 .. Len(log) /\ FollowedSince(r)
        /\ \A a \in Articles, t \in MainTitles : entered[a] \in 1 .. r /\ place[t] = a => a \in found
    BY <1>1, <2>1 DEF DraftsInv, PendingIsSound
  <2>3. /\ log' = SubSeq(log, r + 1, Len(log)) /\ list' = list \cup found
        /\ entered' = [a \in Articles |-> CASE entered[a] = NotPublished -> NotPublished
                                            [] entered[a] <= r /\ entered[a] # NotPublished -> 0
                                            [] OTHER -> entered[a] - r]
    BY <1>1, <1>6, <2>1
  <2>4. log' \in Seq(DraftEvents) /\ Len(log') = Len(log) - r
    BY <1>2, <2>2, <2>3, SubSeqProperties
  <2>5. /\ entered' \in [Articles -> Int]
        /\ \A a \in Articles : NotPublished <= entered'[a] /\ entered'[a] <= Len(log')
    BY <1>2, <2>2, <2>3, <2>4 DEF NotPublished
  <2>6. SinceEvent(log', 0) = SinceEvent(log, r)
    <3>1. SubSeq(log', 0 + 1, Len(log')) = log'
      BY <2>4, SubSeqFull
    <3> QED BY <2>3, <3>1 DEF SinceEvent
  <2>7. FollowedSince(0)'
    <3>1. \A a \in Articles : entered'[a] > 0 => entered[a] > r
      BY <1>2, <2>2, <2>3 DEF NotPublished
    <3> QED BY <1>1, <2>2, <2>6, <3>1 DEF FollowedSince, Follows
  <2>8. ASSUME NEW a \in Articles, entered'[a] = 0, NEW t \in MainTitles, place'[t] = a
        PROVE  a \in list'
    <3>1. entered[a] = 0 \/ entered[a] \in 1 .. r
      BY <1>2, <2>2, <2>3, <2>8 DEF NotPublished
    <3>2. CASE entered[a] = 0
      BY <1>1, <2>3, <2>8, <3>2 DEF DraftsInv, PublishedDraftsAreListed
    <3>3. CASE entered[a] \in 1 .. r
      BY <1>1, <2>2, <2>3, <2>8, <3>3
    <3> QED BY <3>1, <3>2, <3>3
  <2>9. PublishedDraftsAreListed'
    BY <2>8 DEF PublishedDraftsAreListed
  <2> QED BY <1>3, <1>4, <2>4, <2>5, <2>7, <2>9 DEF DraftsInv, DraftsTypeOK
<1> QED BY <1>5, <1>6

\* Whatever moves, deletions and failures come between two runs, or during one, the list of
\* draft_moved_to_main_lib.cpp misses no draft that is still in the main namespace.
THEOREM NoDraftIsMissed == DraftsSpec => []PublishedDraftsAreListed
<1>1. DraftsInit => DraftsInv
  <2> SUFFICES ASSUME DraftsInit  PROVE DraftsInv
    OBVIOUS
  <2>1. /\ place = [t \in DraftMovesTitles |-> Nobody] /\ log = <<>> /\ pending = NothingPending
        /\ entered = [a \in Articles |-> NotPublished]
    BY DEF DraftsInit
  <2>2. log \in Seq(DraftEvents) /\ Len(log) = 0
    BY <2>1
  <2>3. DraftsTypeOK /\ OneTitleEach /\ PendingIsSound /\ PublishedDraftsAreListed
    BY <2>1, <2>2 DEF DraftsTypeOK, OneTitleEach, PendingIsSound, PublishedDraftsAreListed, NotPublished
  <2>4. FollowedSince(0)
    <3>1. ReplayIsSound(SinceEvent(log, Len(log)))
      BY <2>2, SinceTheEnd DEF DraftsTypeOK
    <3>2. ReplayIsSound(SinceEvent(log, 0))
      BY <2>2, <3>1
    <3>3. \A a \in Articles : ~(entered[a] > 0)
      BY <2>1 DEF NotPublished
    <3> QED BY <3>2, <3>3 DEF FollowedSince, Follows
  <2> QED BY <2>3, <2>4 DEF DraftsInv
<1>2. DraftsInv /\ [DraftsNext]_draftVars => DraftsInv'
  <2> SUFFICES ASSUME DraftsInv, [DraftsNext]_draftVars  PROVE DraftsInv'
    OBVIOUS
  <2>1. CASE UNCHANGED draftVars
    BY <2>1 DEF draftVars, DraftsInv, DraftsTypeOK, OneTitleEach, PendingIsSound, PublishedDraftsAreListed,
                FollowedSince, Follows
  <2>2. CASE DraftsNext
    BY <2>2, MovePageKeepsDrafts, DeletePageKeepsDrafts, CreatePageKeepsDrafts, ReadDraftLogKeepsDrafts,
       EditListKeepsDrafts DEF DraftsNext
  <2> QED BY <2>1, <2>2
<1>3. DraftsInv => PublishedDraftsAreListed
  BY DEF DraftsInv
<1> QED BY <1>1, <1>2, <1>3, PTL DEF DraftsSpec
===============================================================================
