----------------------------- MODULE LostMessages -----------------------------
(***************************************************************************)
(* The bot that looks for messages nobody would see                        *)
(* (src/orlodrimbot/lost_messages), on the talk page of one user with few  *)
(* edits (those with more than 50 are skipped).  A run reads the recent    *)
(* changes since its token, keeps the last post of the user if only bots   *)
(* edited the page besides, has it classified, tells the mentor or replies *)
(* on the page, lists the post and saves its token.                        *)
(***************************************************************************)
EXTENDS Integers, SequencesExt

CONSTANTS HistoryLimit,       \* longest history considered, 20 in the code
          MaxTalkEdits,       \* bound on the length of the history
          MaxMessageErrors    \* bound on failed calls and crashes

Bots == {"welcome", "other_bot"}
Authors == Bots \cup {"owner", "human", "autoreply"}

VARIABLES history,         \* the revisions of the page: [author, text], a text being
                           \* named by the first revision that had it
          readToken,       \* the state file: the revisions before it were enumerated
          mentorNotes,     \* the messages about the user on the page of the mentor
          thanksSent,      \* the file of mentor states
          search,          \* the run
          examined,        \* revisions whose text was analyzed, a history variable
          messageErrors

messageVars == <<history, readToken, mentorNotes, thanksSent, search, examined, messageErrors>>

AuthorOf(i) == history[i].author
TextOf(i) == history[i].text

NoSearch == [step |-> "idle", upTo |-> 0, toCheck |-> <<>>, ignored |-> FALSE, post |-> 0]

---------------------------------------------------------------------------
(* What a run reads.                                                       *)

\* processRecentChanges: the revisions of the owner that no human, and no
\* reply of this bot, precedes among the changes read.
RevisionsToCheck(from) ==
  LET Stops(i) == \E j \in from + 1 .. i : AuthorOf(j) \in {"human", "autoreply"}
  IN  SetToSortSeq({i \in from + 1 .. Len(history) : AuthorOf(i) = "owner" /\ ~Stops(i)}, <)

\* extractPostOfUser: revid is the last revision, and only the owner and other
\* bots edited the page.
IsPost(revid) ==
  /\ Len(history) <= HistoryLimit /\ revid = Len(history) /\ AuthorOf(revid) = "owner"
  /\ \A i \in DOMAIN history : AuthorOf(i) \in Bots \cup {"owner"}

\* The mentor is named in the message of the bot that created the page.  A
\* post outside the section of that message is for the mentor only if no other
\* bot wrote on the page.
IsReplyToMentor(inWelcomeSection) ==
  AuthorOf(1) = "welcome" /\ (inWelcomeSection \/ \A i \in 1 .. search.post : AuthorOf(i) # "other_bot")

---------------------------------------------------------------------------

MessagesInit ==
  /\ history = <<>> /\ readToken = 0 /\ mentorNotes = 0 /\ thanksSent = FALSE
  /\ search = NoSearch /\ examined = {} /\ messageErrors = 0

\* Anybody edits the page, which gets a new text, or one it had before (an
\* edit that is undone).
NewText == Len(history) + 1
OldTexts == {TextOf(i) : i \in DOMAIN history}
EditTalkPage(author, text) ==
  /\ Len(history) < MaxTalkEdits
  /\ history # <<>> => text # TextOf(Len(history))
  /\ history' = Append(history, [author |-> author, text |-> text])
  /\ UNCHANGED <<readToken, mentorNotes, thanksSent, search, examined, messageErrors>>

---------------------------------------------------------------------------
(* The run.                                                                *)

\* A page that a human edited in the last six hours is ignored, whether or not
\* that is in the changes read.
ReadChanges(recently) ==
  LET found == RevisionsToCheck(readToken)
      edited == \E i \in recently + 1 .. Len(history) : AuthorOf(i) \in {"human", "autoreply"}
  IN  /\ search.step = "idle" /\ recently <= readToken
      /\ search' = [NoSearch EXCEPT !.step = "check", !.upTo = Len(history),
                      !.toCheck = found, !.ignored = edited]
      /\ UNCHANGED <<history, readToken, mentorNotes, thanksSent, examined, messageErrors>>

\* The revisions in the order of the changes: once one of them is not a post,
\* the page is ignored.
CheckRevision ==
  LET revid == Head(search.toCheck)
      found == ~search.ignored /\ IsPost(revid)
  IN  /\ search.step = "check" /\ search.toCheck # <<>>
      /\ search' = [search EXCEPT !.toCheck = Tail(@), !.post = IF found THEN revid ELSE @,
                      !.ignored = @ \/ ~found]
      /\ UNCHANGED <<history, readToken, mentorNotes, thanksSent, examined, messageErrors>>

Search(step) == search' = [search EXCEPT !.step = step]

\* analyzePost and the choice of processPosts.  The post may be only a
\* redirect, a notification or an unblock request; the category comes from the
\* classifier, and so does its confidence.
AnalyzePost(category, confident, inWelcomeSection, optedIn) ==
  LET forMentor == confident /\ IsReplyToMentor(inWelcomeSection)
  IN  /\ search.step = "check" /\ search.toCheck = <<>> /\ search.post # 0
      /\ Search(CASE category = "not_lost" -> "save"
                  [] category = "question" -> IF forMentor THEN "question" ELSE "reply"
                  [] category = "thanks" /\ forMentor /\ (~thanksSent \/ optedIn) -> "thanks"
                  [] OTHER -> "log")
      /\ examined' = examined \cup {search.post}
      /\ UNCHANGED <<history, readToken, mentorNotes, thanksSent, messageErrors>>

NothingFound ==
  /\ search.step = "check" /\ search.toCheck = <<>> /\ search.post = 0
  /\ Search("save")
  /\ UNCHANGED <<history, readToken, mentorNotes, thanksSent, examined, messageErrors>>

CountMessageError(outcome) == messageErrors' = messageErrors + (IF outcome = "done" THEN 0 ELSE 1)

\* postOnMentorTalkPage.  The mentor may be inactive or exclude the bot; a
\* message about the same user is not repeated.  A call that failed after it
\* was executed counts as not sent.
PostToMentor(available, outcome) ==
  LET wanted == available /\ mentorNotes = 0
      sent == wanted /\ outcome = "done"
  IN  /\ search.step \in {"thanks", "question"}
      /\ mentorNotes' = IF wanted /\ outcome # "failed" THEN mentorNotes + 1 ELSE mentorNotes
      /\ thanksSent' = (thanksSent \/ (sent /\ search.step = "thanks"))
      /\ Search(IF search.step = "question" /\ ~sent THEN "reply" ELSE "log")
      /\ CountMessageError(outcome)
      /\ UNCHANGED <<history, readToken, examined>>

\* The page has the text that was analyzed, whatever its history became.
AlwaysUnchanged == TRUE  \* mutant: the body of editPage does not look
TextUnchanged == TextOf(Len(history)) = TextOf(search.post)

\* The body of editPage gives up if the text is not the one analyzed, at the
\* first attempt and at the next ones.  When the answer to an edit that was
\* executed is lost, it is sent again, which conflicts if somebody edited the
\* page meanwhile: the body looks at the page once more.  (The model does not
\* count the attempts, two in the code.)
ReplyOnPage(outcome) ==
  LET unchanged == TextUnchanged
  IN  /\ search.step = "reply" /\ (outcome = "unknown" => unchanged)
      /\ history' = IF unchanged /\ outcome # "failed"
                    THEN Append(history, [author |-> "autoreply", text |-> NewText]) ELSE history
      /\ Search(IF outcome = "unknown" THEN "reply" ELSE "log")
      /\ CountMessageError(outcome)
      /\ UNCHANGED <<readToken, mentorNotes, thanksSent, examined>>

\* The edit of the page that lists the posts found, whose content no other step
\* reads.  An error here ends the program: the token is not saved.
LogPost(outcome) ==
  /\ search.step = "log"
  /\ search' = IF outcome = "done" THEN [search EXCEPT !.step = "save"] ELSE NoSearch
  /\ CountMessageError(outcome)
  /\ UNCHANGED <<history, readToken, mentorNotes, thanksSent, examined>>

SaveToken ==
  /\ search.step = "save"
  /\ readToken' = search.upTo /\ search' = NoSearch
  /\ UNCHANGED <<history, mentorNotes, thanksSent, examined, messageErrors>>

SearchCrashes ==
  /\ search.step # "idle" /\ messageErrors < MaxMessageErrors
  /\ search' = NoSearch /\ messageErrors' = messageErrors + 1
  /\ UNCHANGED <<history, readToken, mentorNotes, thanksSent, examined>>

MessageOutcomes == IF messageErrors < MaxMessageErrors THEN {"done", "failed", "unknown"} ELSE {"done"}

MessagesNext ==
  \/ \E author \in Authors \ {"autoreply"}, text \in OldTexts \cup {NewText} : EditTalkPage(author, text)
  \/ \E recently \in 0 .. readToken : ReadChanges(recently)
  \/ CheckRevision
  \/ NothingFound
  \/ \E category \in {"not_lost", "question", "thanks", "other"}, c, w, o \in BOOLEAN :
       AnalyzePost(category, c, w, o)
  \/ \E outcome \in MessageOutcomes :
       \/ \E available \in BOOLEAN : PostToMentor(available, outcome)
       \/ ReplyOnPage(outcome)
       \/ LogPost(outcome)
  \/ SaveToken
  \/ SearchCrashes

MessagesSpec == MessagesInit /\ [][MessagesNext]_messageVars

---------------------------------------------------------------------------
(* Properties.                                                             *)

\* Every reply of the bot is added to a text that was written when only the
\* user and bots had edited the page, although minutes pass between the reading
\* of the history and the reply, and a run that failed is done again from the
\* same token.  After an edit of a human, or a first reply, the bot replies only
\* if that edit was undone, so two replies never stand on the page together;
\* the mentor has at most one message about the user.
AddedAlone(i) ==
  \E j \in 1 .. i - 1 :
    /\ AuthorOf(j) = "owner" /\ TextOf(j) = TextOf(i - 1)
    /\ \A k \in 1 .. j : AuthorOf(k) \in Bots \cup {"owner"}

RepliesOnceAndAlone ==
  /\ \A i \in DOMAIN history : AuthorOf(i) = "autoreply" => AddedAlone(i)
  /\ mentorNotes <= 1

\* "Returns the first post by `user` if only bots and the user edited the page
\* so far" (lost_messages_lib.h), and the bot says it is made to detect the
\* messages nobody would be told of: when the token is past the last revision
\* and no run failed, a last revision of that kind was analyzed.  Not so when
\* the user saved twice between two runs: the first revision is not the last
\* one, which makes the run ignore the page, and then the second revision.
LostPostsAreExamined ==
  (search.step = "idle" /\ readToken = Len(history) /\ history # <<>> /\ IsPost(Len(history)))
    => Len(history) \in examined
=============================================================================
