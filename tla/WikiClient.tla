------------------------------ MODULE WikiClient ------------------------------
(***************************************************************************)
(* Bots that change one page of a wiki with mwclient: editPage, a read     *)
(* followed by writePage, appendToPage.  A call is a series of API         *)
(* requests: the read, the edit token, the emergency stop test, the edit.  *)
(* Each of them is sent again after an error of the network or the server, *)
(* and may find that the session or the token is gone.                     *)
(*                                                                         *)
(* A page is a set of lines; a line is <<author, call, tag>>.              *)
(***************************************************************************)
EXTENDS Integers, FiniteSets

CONSTANTS
  Clients,         \* processes with a Wiki object of their own
  Requests,        \* what bots ask for: a function of mwclient and a change of the text
  WithPassword,    \* clients that kept their password (no clientLogin)
  Watching,        \* clients with an emergency stop test
  Attempts,        \* MAX_ATTEMPTS
  EditAttempts,    \* attemptsLeft in editPage
  TokenRenewals,   \* renewals of the token in setTokenAndRun
  Human,           \* the author of all other edits
  MaxCalls,        \* bound: calls of a client
  MaxFaults,       \* bound: lost sessions, expired tokens, lagged answers
  MaxHumanEdits    \* bound: edits by others

ASSUME BoundsArePositive ==
  /\ Attempts \in Nat \ {0} /\ EditAttempts \in Nat \ {0} /\ TokenRenewals \in Nat
  /\ MaxCalls \in Nat /\ MaxFaults \in Nat /\ MaxHumanEdits \in Nat
ASSUME ClientsAreTyped ==
  /\ WithPassword \subseteq Clients /\ Watching \subseteq Clients
  /\ Human \notin Clients /\ "anonymous" \notin Clients \cup {Human}
  /\ Requests \subseteq [function : {"editPage", "writePage", "appendToPage"},
                         change : {"add", "addUnlessThere", "cut"}]

VARIABLES
  page,        \* the wiki: number of revisions (0 when missing), text, author of the last one
  stopped,     \* the wiki: somebody wrote on the bots' talk page
  account,     \* each Wiki object: its session and cached token, as the wiki sees them, and whether
               \* m_internalUserName is set
  call,        \* each Wiki object: the call under way
  \* History
  made,        \* calls whose line was put on the page
  faults, humanEdits

wikiVars == <<page, stopped, humanEdits>>
vars == <<wikiVars, account, call, made, faults>>

Asking == {"read", "token", "stop", "write"}
Anonymous == "anonymous"

NoRequest == [function |-> "editPage", change |-> "add"]
NoCall == [pc |-> "idle", request |-> NoRequest, number |-> 0, base |-> 0, seen |-> {}, text |-> {},
           attemptsLeft |-> 0, renewed |-> 0, tries |-> 0, logInRetried |-> FALSE, back |-> "idle",
           outcome |-> "none", calm |-> TRUE]

(***************************************************************************)
(* What a call remembers.                                                  *)
(***************************************************************************)
\* METHOD_POST for appendToPage: a request that would have its effect twice is sent once.
TriesOfAll(c, pc) == Attempts  \* mutant: appendToPage is retried too
TriesOf(c, pc) ==
  IF pc = "write" /\ call[c].request.function = "appendToPage" THEN 1 ELSE Attempts

\* A new apiRequest.
Ask(c, rec, pc) ==
  [rec EXCEPT !.pc = pc, !.tries = TriesOf(c, pc), !.logInRetried = FALSE]

Ended(c, outcome) ==
  [NoCall EXCEPT !.request = call[c].request, !.number = call[c].number,
                 !.outcome = outcome, !.calm = call[c].calm]

\* The call fails because of something the wiki or the network did.
Failed(c) == [Ended(c, "error") EXCEPT !.calm = FALSE]

AfterToken(c) == IF c \in Watching THEN "stop" ELSE "write"

\* The head of the loop of setTokenAndRun.
FirstRequest(c, token) == IF token = "none" THEN "token" ELSE AfterToken(c)

Set(c, rec) == call' = [call EXCEPT ![c] = rec]

(***************************************************************************)
(* The texts.                                                              *)
(***************************************************************************)
Attempt(c) == EditAttempts - call[c].attemptsLeft + 1
LinesOf(c, n, text) == {l \in text : l[1] = c /\ l[2] = n}

\* What the bot makes of the text it reads.
NewText(c, old) ==
  LET line == <<c, call[c].number, Attempt(c)>>
  IN  CASE call[c].request.change = "add" -> old \cup {line}
        [] call[c].request.change = "addUnlessThere" ->
             IF LinesOf(c, call[c].number, old) # {} THEN old ELSE old \cup {line}
        [] call[c].request.change = "cut" -> {l \in old : l[1] # Human}

TokenTypeBlind(c) == "NO_CONFLICT_DETECTION"  \* mutant
\* WriteToken::type
TokenType(c) ==
  IF call[c].request.function = "appendToPage" THEN "NO_CONFLICT_DETECTION"
  ELSE IF call[c].base = 0 THEN "CREATE" ELSE "EDIT"

(***************************************************************************)
(* The wiki: how MediaWiki answers the requests.                           *)
(***************************************************************************)
LoggedIn(c) == account[c].session \in {"live", "sick"}
\* assert=user is sent when the name is set.
Denied(c) == account[c].named /\ ~LoggedIn(c)
TokenAccepted(c) == \/ account[c].token = "good" /\ account[c].session = "live"
                    \/ account[c].token = "anonymous" /\ ~LoggedIn(c)
TokenGiven(c) == IF account[c].session = "live" THEN "good"
                 ELSE IF account[c].session = "sick" THEN "stale" ELSE "anonymous"

\* An edit with a base revision is merged with what happened since.
Saved(c) ==
  LET rec == call[c]
  IN  IF rec.request.function = "appendToPage"
        THEN page.text \cup {<<c, rec.number, page.revisions + 1>>}
      ELSE IF TokenType(c) = "EDIT"
        THEN (page.text \ (rec.seen \ rec.text)) \cup (rec.text \ rec.seen)
      ELSE rec.text

PageExists(c) == TokenType(c) = "CREATE" /\ page.revisions > 0
\* Edits of neighbouring lines cannot be merged.
MayConflict(c) == /\ TokenType(c) = "EDIT" /\ page.revisions # call[c].base
                  /\ page.text \notin {call[c].seen, call[c].text}

\* The same text again is not a new revision.
Store(c) ==
  /\ page' = IF Saved(c) = page.text THEN page
             ELSE [revisions |-> page.revisions + 1, text |-> Saved(c),
                   author |-> IF LoggedIn(c) THEN c ELSE Anonymous]
  /\ made' = IF Saved(c) \subseteq page.text THEN made
             ELSE made \cup {<<c, call[c].number>>}
  /\ UNCHANGED <<stopped, humanEdits>>

HumanEdit(text) ==
  /\ humanEdits < MaxHumanEdits
  /\ humanEdits' = humanEdits + 1
  /\ page' = [revisions |-> page.revisions + 1, text |-> text, author |-> Human]
  /\ UNCHANGED <<stopped, account, call, made, faults>>

\* Others add lines or undo what a bot did.
AddLine == HumanEdit(page.text \cup {<<Human, humanEdits + 1, 0>>})
Undo(l) == l \in page.text /\ l[1] \in Clients /\ HumanEdit(page.text \ {l})

TriggerStop ==
  /\ ~stopped /\ Watching # {}
  /\ stopped' = TRUE
  /\ UNCHANGED <<page, humanEdits, account, call, made, faults>>

CountFault == faults < MaxFaults /\ faults' = faults + 1

\* A fault during a call may make it fail.
Disturb(c) ==
  IF call[c].pc = "idle" THEN UNCHANGED call ELSE Set(c, [call[c] EXCEPT !.calm = FALSE])

Stale(token) == IF token = "none" THEN "none" ELSE "stale"

\* The wiki forgets a session, refuses every token of a session, or refuses the token it gave.
SpoilSession(c, session) ==
  /\ LoggedIn(c)
  /\ CountFault /\ Disturb(c)
  /\ account' = [account EXCEPT ![c].session = session, ![c].token = Stale(@)]
  /\ UNCHANGED <<wikiVars, made>>

Fault(c) ==
  \/ SpoilSession(c, "lost") \/ SpoilSession(c, "sick") \/ SpoilSession(c, account[c].session)

(***************************************************************************)
(* apiRequest: errors of the network and of the server.                    *)
(***************************************************************************)
\* A LowLevelError: sent again as long as there are attempts.
LowLevelError(c) ==
  Set(c, IF call[c].tries > 1 THEN [call[c] EXCEPT !.tries = @ - 1, !.calm = FALSE]
         ELSE Failed(c))

\* Nothing came of the request.
Unreachable(c) ==
  /\ call[c].pc \in Asking
  /\ LowLevelError(c)
  /\ UNCHANGED <<wikiVars, account, made, faults>>

\* maxlag: does not count as an attempt.
Lagged(c) ==
  /\ call[c].pc \in Asking
  /\ CountFault
  /\ UNCHANGED <<wikiVars, account, call, made>>

\* assertuserfailed: retryToLogIn, once per request.
BeginLogin(c, back) ==
  /\ account' = [account EXCEPT ![c].session = "none", ![c].named = FALSE]
  /\ Set(c, [call[c] EXCEPT !.pc = "login", !.back = back])

AssertUserFailed(c) ==
  /\ call[c].pc \in Asking /\ Denied(c)
  /\ IF c \in WithPassword /\ ~call[c].logInRetried
       THEN BeginLogin(c, call[c].pc)
       ELSE Set(c, Ended(c, "error")) /\ UNCHANGED account
  /\ UNCHANGED <<wikiVars, made, faults>>

LogInSucceeds(c) ==
  /\ call[c].pc = "login"
  /\ account' = [account EXCEPT ![c] = [session |-> "live", token |-> Stale(@.token), named |-> TRUE]]
  /\ Set(c, IF call[c].back = "renew" THEN Ask(c, call[c], FirstRequest(c, account[c].token))
            ELSE [call[c] EXCEPT !.pc = call[c].back, !.logInRetried = TRUE])
  /\ UNCHANGED <<wikiVars, made, faults>>

NotRestored(c) == FALSE  \* mutant: the name is not set back
\* RunOnDestroy in loginInternal sets the name back.
NameAfterFailure(c) == TRUE

LogInFails(c) ==
  /\ call[c].pc = "login"
  /\ account' = [account EXCEPT ![c].named = NameAfterFailure(c)]
  /\ Set(c, IF call[c].back = "renew"
              THEN Ask(c, [call[c] EXCEPT !.calm = FALSE], FirstRequest(c, account[c].token))
              ELSE Failed(c))
  /\ UNCHANGED <<wikiVars, made, faults>>

(***************************************************************************)
(* The functions of Wiki.                                                  *)
(***************************************************************************)
StartCall(c, request) ==
  LET fresh == [NoCall EXCEPT !.request = request, !.number = call[c].number + 1,
                 !.attemptsLeft = IF request.function = "editPage" THEN EditAttempts ELSE 1,
                 !.tries = Attempts]
  IN  /\ call[c].pc = "idle" /\ call[c].number < MaxCalls
      /\ Set(c, IF request.function # "appendToPage" THEN [fresh EXCEPT !.pc = "read"]
                ELSE LET pc == FirstRequest(c, account[c].token)
                     IN  [fresh EXCEPT !.pc = pc, !.tries = IF pc = "write" THEN 1 ELSE Attempts])
      /\ UNCHANGED <<wikiVars, account, made, faults>>

\* readPageContentIfExists and transformContent; nothing is written when the text stays the same.
ReadPage(c) ==
  /\ call[c].pc = "read" /\ ~Denied(c)
  /\ Set(c, IF NewText(c, page.text) = page.text THEN Ended(c, "ok")
            ELSE Ask(c, [call[c] EXCEPT !.base = page.revisions, !.seen = page.text,
                                        !.text = NewText(c, page.text), !.renewed = 0],
                     FirstRequest(c, account[c].token)))
  /\ UNCHANGED <<wikiVars, account, made, faults>>

GetToken(c) ==
  /\ call[c].pc = "token" /\ ~Denied(c)
  /\ account' = [account EXCEPT ![c].token = TokenGiven(c)]
  /\ Set(c, Ask(c, call[c], AfterToken(c)))
  /\ UNCHANGED <<wikiVars, made, faults>>

TestStop(c) ==
  /\ call[c].pc = "stop" /\ ~Denied(c)
  /\ Set(c, IF stopped THEN Ended(c, "stopped") ELSE Ask(c, call[c], "write"))
  /\ UNCHANGED <<wikiVars, account, made, faults>>

ExhaustedEarly(c) == call[c].renewed >= TokenRenewals - 1  \* mutant
ExhaustedLate(c) == call[c].renewed > TokenRenewals        \* mutant
RenewalsExhausted(c) == call[c].renewed >= TokenRenewals
RenewalsUncounted(c) == call[c].renewed  \* mutant
RenewalsAfter(c) == call[c].renewed + 1

\* badtoken: a new token, then a new session.
BadToken(c) ==
  /\ call[c].pc = "write" /\ ~Denied(c) /\ ~TokenAccepted(c)
  /\ IF RenewalsExhausted(c)
       THEN Set(c, Ended(c, "error")) /\ UNCHANGED account
     ELSE IF call[c].renewed > 0 /\ c \in WithPassword
       THEN /\ account' = [account EXCEPT ![c] = [session |-> "none", token |-> "none", named |-> FALSE]]
            /\ Set(c, [call[c] EXCEPT !.pc = "login", !.back = "renew", !.renewed = RenewalsAfter(c)])
     ELSE /\ account' = [account EXCEPT ![c].token = "none"]
          /\ Set(c, Ask(c, [call[c] EXCEPT !.renewed = RenewalsAfter(c)], "token"))
  /\ UNCHANGED <<wikiVars, made, faults>>

Sent(c) == call[c].pc = "write" /\ ~Denied(c) /\ TokenAccepted(c)

\* editPage starts again from a new read.
EditConflict(c) ==
  /\ Sent(c) /\ MayConflict(c)
  /\ Set(c, IF call[c].attemptsLeft <= 1 THEN Ended(c, "conflict")
            ELSE Ask(c, [call[c] EXCEPT !.attemptsLeft = @ - 1], "read"))
  /\ UNCHANGED <<wikiVars, account, made, faults>>

PageAlreadyExists(c) ==
  /\ Sent(c) /\ PageExists(c)
  /\ Set(c, Ended(c, "exists"))
  /\ UNCHANGED <<wikiVars, account, made, faults>>

\* Any other error: protected page, filter, answer without "Success".
Refused(c) ==
  /\ Sent(c)
  /\ Set(c, Failed(c))
  /\ UNCHANGED <<wikiVars, account, made, faults>>

Success(c) ==
  /\ Sent(c) /\ ~PageExists(c)
  /\ Store(c)
  /\ Set(c, Ended(c, "ok"))
  /\ UNCHANGED <<account, faults>>

\* The edit is made and its answer is lost.
AnswerLost(c) ==
  /\ Sent(c) /\ ~PageExists(c)
  /\ Store(c)
  /\ LowLevelError(c)
  /\ UNCHANGED <<account, faults>>

Init ==
  /\ page = [revisions |-> 0, text |-> {}, author |-> Human]
  /\ stopped = FALSE
  /\ account = [c \in Clients |-> [session |-> "live", token |-> "none", named |-> TRUE]]
  /\ call = [c \in Clients |-> NoCall]
  /\ made = {}
  /\ faults = 0
  /\ humanEdits = 0

WikiStep == \/ AddLine
            \/ \E l \in page.text : Undo(l)
            \/ TriggerStop
            \/ \E c \in Clients : Fault(c)

Answered(c) ==
  \/ Unreachable(c) \/ AssertUserFailed(c) \/ LogInSucceeds(c) \/ LogInFails(c)
  \/ ReadPage(c) \/ GetToken(c) \/ TestStop(c) \/ BadToken(c)
  \/ EditConflict(c) \/ PageAlreadyExists(c) \/ Refused(c) \/ Success(c) \/ AnswerLost(c)

Next == \/ WikiStep
        \/ \E c \in Clients : \/ \E request \in Requests : StartCall(c, request)
                              \/ Lagged(c)
                              \/ Answered(c)

Spec == Init /\ [][Next]_vars

\* Every request gets an answer or an error in the end, and only finitely many say that the wiki lags.
Fairness == \A c \in Clients : WF_vars(Answered(c))
FairSpec == Spec /\ Fairness

(***************************************************************************)
(* Properties.                                                             *)
(***************************************************************************)
Lines == (Clients \cup {Human}) \X Nat \X Nat
Outcomes == {"none", "ok", "error", "stopped", "conflict", "exists"}
Calls == [pc : Asking \cup {"idle", "login"}, request : Requests \cup {NoRequest}, number : 0..MaxCalls,
          base : Nat, seen : SUBSET Lines, text : SUBSET Lines,
          attemptsLeft : 0..EditAttempts, renewed : 0..TokenRenewals, tries : 0..Attempts,
          logInRetried : BOOLEAN, back : Asking \cup {"idle", "renew"},
          outcome : Outcomes, calm : BOOLEAN]
Accounts == [session : {"none", "live", "sick", "lost"},
             token : {"none", "good", "stale", "anonymous"}, named : BOOLEAN]

TypeOK ==
  /\ page \in [revisions : Nat, text : SUBSET Lines, author : Clients \cup {Human, Anonymous}]
  /\ stopped \in BOOLEAN
  /\ account \in [Clients -> Accounts]
  /\ call \in [Clients -> Calls]
  /\ made \subseteq Clients \X Nat
  /\ faults \in Nat /\ humanEdits \in Nat

\* assert=user and the name that a failed login sets back: no edit is ever made by an IP address, even
\* by a bot whose session and cookies are gone.
NeverLoggedOut == page.author # Anonymous

\* A call puts at most one line on the page, whatever answers are lost, undone edits and conflicts
\* there are: an edit that is sent again is merged with itself, and appendToPage is not sent again.
\* Only a transformContent that adds its line without looking may do so twice after a conflict.
WrittenOnce ==
  \A c \in Clients :
     call[c].request # [function |-> "editPage", change |-> "add"] =>
       Cardinality(LinesOf(c, call[c].number, page.text)) <= 1

\* A call fails with an error only when a request was not answered or refused, a login failed or the
\* session was spoiled during that very call: no earlier failure leaves a Wiki object with cookies, a
\* token or a name that keeps it from working later.
HealthyCallsSucceed ==
  \A c \in WithPassword : call[c].outcome = "error" => ~call[c].calm

\* Every call returns: no retry, renewal or conflict repeats for ever.
CallsReturn == \A c \in Clients : call[c].pc # "idle" ~> call[c].pc = "idle"

\* wiki.h on the emergency stop: "an EmergencyStopError is thrown and the operation is not executed".
StopMeansNotExecuted ==
  \A c \in Clients : call[c].outcome = "stopped" => <<c, call[c].number>> \notin made

\* What a bot sees of all this is PageWrites: a call removes no line it has not read, adds only its own,
\* and success means that its line was put there.
Writes == INSTANCE PageWrites WITH
  Bots <- Clients, page <- page.text,
  number <- [c \in Clients |-> call[c].number],
  open <- [c \in Clients |-> call[c].pc # "idle"],
  adds <- [c \in Clients |-> call[c].request.change # "cut"],
  known <- [c \in Clients |-> call[c].seen],
  said <- [c \in Clients |-> call[c].outcome = "ok"]
PageSpec == Writes!Spec
===============================================================================
