--------------------------- MODULE WikiClientProofs ---------------------------
(***************************************************************************)
(* Proofs about WikiClient, ListReads and ApiReads, for every value of     *)
(* their constants.                                                        *)
(***************************************************************************)
EXTENDS WikiClient, ListReads, ApiReads, Lemmas, TLAPS, FiniteSetTheorems

------------------------------------------------------------------------------
(* The inductive invariant. *)

\* The name is unset only while a login is under way, and a login is for a request.
NameIsSet ==
  \A c \in Clients : IF call[c].pc = "login" THEN call[c].back # "idle" ELSE account[c].named

\* A page that does not exist has no text; a line of a bot comes from one of its calls so far.
PageIsSound ==
  /\ page.revisions = 0 => page.text = {}
  /\ \A l \in page.text : l[1] \in Clients =>
       <<l[1], l[2]>> \in made /\ l[2] <= call[l[1]].number

\* The request a call is at, also while it logs in again.
At(c) == IF call[c].pc = "login" THEN call[c].back ELSE call[c].pc
Writing(c) == At(c) \in {"token", "stop", "write", "renew"}

\* What a call is about to write is what it read, changed by its own line and its cuts.
TextIsSound(c) ==
  /\ \A l \in call[c].text \ call[c].seen : l[1] = c /\ l[2] = call[c].number
  /\ call[c].base = 0 \/ call[c].pc = "idle" => call[c].seen = {}
  /\ Writing(c) /\ call[c].request.function # "appendToPage" /\ call[c].request.change # "cut"
       => call[c].text \ call[c].seen # {}

\* The lines of a call on the page and in its memory are one and the same.
CurrentLines(c) == LinesOf(c, call[c].number, page.text \cup call[c].text)
LineIsUnique(c) ==
  /\ call[c].request # [function |-> "editPage", change |-> "add"] =>
       \A l, m \in CurrentLines(c) : l = m
  /\ call[c].request.function = "appendToPage" /\ call[c].pc # "idle" =>
       /\ CurrentLines(c) = {}
       /\ At(c) # "read"
       /\ At(c) = "write" => call[c].tries = 1
  /\ call[c].request.function = "writePage" /\ call[c].pc # "idle" =>
       /\ call[c].attemptsLeft = 1
       /\ At(c) = "read" => CurrentLines(c) = {}

Inductive ==
  /\ TypeOK /\ NameIsSet /\ PageIsSound
  /\ \A c \in Clients : TextIsSound(c) /\ LineIsUnique(c)

------------------------------------------------------------------------------
(* The records of calls. *)

LEMMA CallTypes ==
  ASSUME TypeOK, NEW c \in Clients
  PROVE  /\ call[c] \in Calls /\ account[c] \in Accounts
         /\ call[c].number \in 0..MaxCalls /\ call[c].number \in Nat
         /\ call[c].attemptsLeft \in 0..EditAttempts
         /\ call[c].seen \subseteq Lines /\ call[c].text \subseteq Lines
         /\ call[c].base \in Nat
         /\ call[c].tries \in 0..Attempts
BY BoundsArePositive DEF TypeOK, Calls

LEMMA RequestTypes ==
  ASSUME TypeOK, NEW c \in Clients
  PROVE  /\ call[c].request.function \in {"editPage", "writePage", "appendToPage"}
         /\ call[c].request.change \in {"add", "addUnlessThere", "cut"}
<1>1. call[c].request \in Requests \cup {NoRequest}
  BY CallTypes DEF Calls
<1>. QED  BY <1>1, ClientsAreTyped DEF NoRequest

LEMMA RequestIs ==
  ASSUME TypeOK, NEW c \in Clients, call[c].request.change = "add",
         call[c].request # [function |-> "editPage", change |-> "add"]
  PROVE  call[c].request.function \in {"writePage", "appendToPage"}
<1>1. call[c].request \in [function : {"editPage", "writePage", "appendToPage"},
                           change : {"add", "addUnlessThere", "cut"}]
  <2>1. call[c].request \in Requests \cup {NoRequest}
    BY CallTypes DEF Calls
  <2>. QED  BY <2>1, ClientsAreTyped DEF NoRequest
<1>. QED  BY <1>1

LEMMA NoCallIsTyped == NoCall \in Calls
BY BoundsArePositive DEF NoCall, Calls, Outcomes

LEMMA EndedCall ==
  ASSUME TypeOK, NEW c \in Clients, NEW o \in Outcomes
  PROVE  /\ Ended(c, o) \in Calls
         /\ Ended(c, o).pc = "idle" /\ Ended(c, o).base = 0
         /\ Ended(c, o).seen = {} /\ Ended(c, o).text = {}
         /\ Ended(c, o).request = call[c].request /\ Ended(c, o).number = call[c].number
         /\ Ended(c, o).outcome = o
<1>. DEFINE rec == call[c]
<1>1. /\ rec.request \in Requests \cup {NoRequest} /\ rec.number \in 0..MaxCalls
      /\ rec.calm \in BOOLEAN
  BY CallTypes DEF Calls
<1>2. NoCall \in Calls /\ NoCall.pc = "idle" /\ NoCall.base = 0 /\ NoCall.seen = {} /\ NoCall.text = {}
  BY NoCallIsTyped DEF NoCall
<1>3. Ended(c, o) = [NoCall EXCEPT !.request = rec.request, !.number = rec.number,
                                   !.outcome = o, !.calm = rec.calm]
  BY DEF Ended
<1>. HIDE DEF rec
<1>. DEFINE kept == [NoCall EXCEPT !.request = rec.request, !.number = rec.number]
<1>4. /\ kept \in Calls /\ kept.pc = "idle" /\ kept.base = 0 /\ kept.seen = {} /\ kept.text = {}
      /\ kept.request = rec.request /\ kept.number = rec.number
  BY <1>1, <1>2 DEF Calls
<1>5. Ended(c, o) = [kept EXCEPT !.outcome = o, !.calm = rec.calm]
  BY <1>3
<1>. HIDE DEF kept
<1>. QED  BY <1>1, <1>4, <1>5 DEF rec, Calls

LEMMA FailedCall ==
  ASSUME TypeOK, NEW c \in Clients
  PROVE  /\ Failed(c) \in Calls
         /\ Failed(c).pc = "idle" /\ Failed(c).base = 0
         /\ Failed(c).seen = {} /\ Failed(c).text = {}
         /\ Failed(c).request = call[c].request /\ Failed(c).number = call[c].number
         /\ Failed(c).outcome = "error"
<1>. DEFINE rec == Ended(c, "error")
<1>1. /\ rec \in Calls /\ rec.pc = "idle" /\ rec.base = 0 /\ rec.seen = {} /\ rec.text = {}
      /\ rec.request = call[c].request /\ rec.number = call[c].number /\ rec.outcome = "error"
  BY EndedCall DEF Outcomes
<1>2. Failed(c) = [rec EXCEPT !.calm = FALSE]
  BY DEF Failed
<1>. HIDE DEF rec
<1>. QED  BY <1>1, <1>2 DEF Calls

LEMMA AskedCall ==
  ASSUME TypeOK, NEW c \in Clients, NEW rec \in Calls, NEW pc \in Asking
  PROVE  /\ Ask(c, rec, pc) \in Calls
         /\ Ask(c, rec, pc).pc = pc /\ Ask(c, rec, pc).tries = TriesOf(c, pc)
         /\ Ask(c, rec, pc).base = rec.base /\ Ask(c, rec, pc).seen = rec.seen
         /\ Ask(c, rec, pc).text = rec.text /\ Ask(c, rec, pc).request = rec.request
         /\ Ask(c, rec, pc).number = rec.number
         /\ Ask(c, rec, pc).attemptsLeft = rec.attemptsLeft
         /\ Ask(c, rec, pc).outcome = rec.outcome
<1>1. TriesOf(c, pc) \in 0..Attempts
  BY BoundsArePositive DEF TriesOf
<1>. QED  BY <1>1 DEF Ask, Calls

\* The record of a call changes for the record of another call.
LEMMA SetCall ==
  ASSUME TypeOK, NEW c \in Clients, NEW rec, Set(c, rec)
  PROVE  /\ call'[c] = rec
         /\ \A d \in Clients : d # c => call'[d] = call[d]
         /\ rec \in Calls => call' \in [Clients -> Calls]
BY DEF TypeOK, Set

\* The record of an account changes in one of three ways.
LEMMA SetSession ==
  ASSUME TypeOK, NEW c \in Clients, NEW session \in {"none", "live", "sick", "lost"},
         NEW token \in {"none", "good", "stale", "anonymous"}, NEW named \in BOOLEAN,
         account' = [account EXCEPT ![c] = [session |-> session, token |-> token, named |-> named]]
  PROVE  /\ account' \in [Clients -> Accounts]
         /\ account'[c].named = named
         /\ \A d \in Clients : d # c => account'[d] = account[d]
<1>. DEFINE fresh == [session |-> session, token |-> token, named |-> named]
<1>1. fresh \in Accounts /\ fresh.named = named
  BY DEF Accounts
<1>2. account \in [Clients -> Accounts]
  BY DEF TypeOK
<1>. HIDE DEF fresh
<1>. QED  BY <1>1, <1>2 DEF fresh

LEMMA SetToken ==
  ASSUME TypeOK, NEW c \in Clients, NEW token \in {"none", "good", "stale", "anonymous"},
         account' = [account EXCEPT ![c].token = token]
  PROVE  /\ account' \in [Clients -> Accounts]
         /\ \A d \in Clients : account'[d].named = account[d].named
<1>1. account \in [Clients -> Accounts]
  BY DEF TypeOK
<1>. QED  BY <1>1 DEF Accounts

LEMMA SetName ==
  ASSUME TypeOK, NEW c \in Clients, NEW session \in {"none", "live", "sick", "lost"},
         NEW named \in BOOLEAN,
         account' = [account EXCEPT ![c].session = session, ![c].named = named]
  PROVE  /\ account' \in [Clients -> Accounts]
         /\ \A d \in Clients : d # c => account'[d] = account[d]
<1>1. account \in [Clients -> Accounts]
  BY DEF TypeOK
<1>. QED  BY <1>1 DEF Accounts

LEMMA SpoiledSession ==
  ASSUME TypeOK, NEW c \in Clients, NEW session \in {"none", "live", "sick", "lost"},
         account' = [account EXCEPT ![c].session = session, ![c].token = Stale(@)]
  PROVE  /\ account' \in [Clients -> Accounts]
         /\ \A d \in Clients : account'[d].named = account[d].named
<1>. DEFINE token == Stale(account[c].token)
<1>1. account \in [Clients -> Accounts]
  BY DEF TypeOK
<1>2. token \in {"none", "good", "stale", "anonymous"}
  BY DEF Stale
<1>3. account' = [account EXCEPT ![c].session = session, ![c].token = token]
  BY <1>1 DEF Accounts
<1>. HIDE DEF token
<1>. DEFINE rec == [account[c] EXCEPT !.session = session, !.token = token]
<1>4. rec \in Accounts /\ rec.named = account[c].named
  <2>1. account[c] \in Accounts
    BY <1>1
  <2>. QED  BY <1>2, <2>1 DEF Accounts
<1>5. account' = [account EXCEPT ![c] = rec]
  BY <1>1, <1>3 DEF Accounts
<1>. HIDE DEF rec
<1>. QED  BY <1>1, <1>4, <1>5

\* A request that gets no answer.
LEMMA RetriedCall ==
  ASSUME TypeOK, NEW c \in Clients, LowLevelError(c)
  PROVE  /\ call' \in [Clients -> Calls]
         /\ \A d \in Clients : d # c => call'[d] = call[d]
         /\ call'[c].request = call[c].request /\ call'[c].number = call[c].number
         /\ \/ call'[c].pc = "idle" /\ call'[c].base = 0 /\ call'[c].outcome = "error"
               /\ call'[c].seen = {} /\ call'[c].text = {}
            \/ /\ call[c].tries > 1
               /\ call'[c].pc = call[c].pc /\ call'[c].back = call[c].back
               /\ call'[c].base = call[c].base /\ call'[c].outcome = call[c].outcome
               /\ call'[c].seen = call[c].seen /\ call'[c].text = call[c].text
               /\ call'[c].attemptsLeft = call[c].attemptsLeft
<1>1. CASE call[c].tries > 1
  <2>. DEFINE rec == [call[c] EXCEPT !.tries = @ - 1, !.calm = FALSE]
  <2>1. call[c] \in Calls /\ call[c].tries \in 0..Attempts
    BY CallTypes
  <2>2. call[c].tries - 1 \in 0..Attempts
    BY <1>1, <2>1, BoundsArePositive
  <2>3. rec \in Calls
    BY <2>1, <2>2 DEF Calls
  <2>4. Set(c, rec)
    BY <1>1 DEF LowLevelError
  <2>5. /\ rec.request = call[c].request /\ rec.number = call[c].number /\ rec.pc = call[c].pc
        /\ rec.back = call[c].back /\ rec.base = call[c].base /\ rec.outcome = call[c].outcome
        /\ rec.seen = call[c].seen /\ rec.text = call[c].text
        /\ rec.attemptsLeft = call[c].attemptsLeft
    BY <2>1 DEF Calls
  <2>. HIDE DEF rec
  <2>. QED  BY <1>1, <2>3, <2>4, <2>5, SetCall
<1>2. CASE ~(call[c].tries > 1)
  <2>1. Set(c, Failed(c))
    BY <1>2 DEF LowLevelError
  <2>. QED  BY <2>1, FailedCall, SetCall
<1>. QED  BY <1>1, <1>2

\* What an answer does to a call: it ends, or goes on with the same texts.
Returns(c, o) ==
  /\ call'[c].pc = "idle" /\ call'[c].base = 0 /\ call'[c].seen = {} /\ call'[c].text = {}
  /\ call'[c].request = call[c].request /\ call'[c].number = call[c].number
  /\ call'[c].outcome = o
Remembers(c) ==
  /\ call'[c].pc # "idle" /\ call'[c].base = call[c].base
  /\ call'[c].seen = call[c].seen /\ call'[c].text = call[c].text
  /\ call'[c].request = call[c].request /\ call'[c].number = call[c].number
  /\ call'[c].attemptsLeft = call[c].attemptsLeft /\ call'[c].outcome = call[c].outcome
AtNext(c) == IF call'[c].pc = "login" THEN call'[c].back ELSE call'[c].pc
GoesOn(c) ==
  /\ Remembers(c)
  /\ \/ AtNext(c) = At(c) /\ (call'[c].tries = call[c].tries \/ call[c].tries > 1)
     \/ /\ Writing(c) /\ AtNext(c) \in {"token", "stop", "write", "renew"}
        /\ AtNext(c) = "write" => call'[c].tries = TriesOf(c, "write")
OthersWait(c) == \A d \in Clients : d # c => call'[d] = call[d]

LEMMA ReturnedCall ==
  ASSUME TypeOK, NEW c \in Clients, NEW o \in Outcomes,
         Set(c, Ended(c, o)) \/ (o = "error" /\ Set(c, Failed(c)))
  PROVE  Returns(c, o) /\ OthersWait(c) /\ call' \in [Clients -> Calls]
BY FailedCall, EndedCall, SetCall DEF Returns, OthersWait

------------------------------------------------------------------------------
(* Types. *)

LEMMA NewTextIsTyped ==
  ASSUME TypeOK, NEW c \in Clients
  PROVE  NewText(c, page.text) \subseteq Lines
<1>. DEFINE line == <<c, call[c].number, Attempt(c)>>
<1>1. page.text \subseteq Lines
  BY DEF TypeOK
<1>2. Attempt(c) \in Nat
  BY CallTypes, BoundsArePositive DEF Attempt
<1>3. line \in Lines
  BY <1>2, CallTypes DEF Lines
<1>4. call[c].request.change \in {"add", "addUnlessThere", "cut"}
  BY RequestTypes
<1>. HIDE DEF line
<1>. QED  BY <1>1, <1>3, <1>4 DEF NewText, line

LEMMA SavedIsTyped ==
  ASSUME TypeOK, NEW c \in Clients
  PROVE  Saved(c) \subseteq Lines
<1>. DEFINE line == <<c, call[c].number, page.revisions + 1>>
<1>1. page.text \subseteq Lines /\ page.revisions \in Nat
  BY DEF TypeOK
<1>2. line \in Lines
  BY <1>1, CallTypes DEF Lines
<1>. HIDE DEF line
<1>. QED  BY <1>1, <1>2, CallTypes DEF Saved, line

LEMMA StoreIsTyped ==
  ASSUME TypeOK, NEW c \in Clients, Store(c)
  PROVE  /\ page' \in [revisions : Nat, text : SUBSET Lines, author : Clients \cup {Human, Anonymous}]
         /\ made' \subseteq Clients \X Nat
         /\ stopped' \in BOOLEAN /\ humanEdits' \in Nat
<1>1. CASE Saved(c) = page.text
  BY <1>1 DEF TypeOK, Store
<1>2. made' \subseteq Clients \X Nat
  BY CallTypes DEF TypeOK, Store
<1>3. page.revisions + 1 \in Nat
  BY DEF TypeOK
<1>4. CASE Saved(c) # page.text
  BY <1>2, <1>3, <1>4, SavedIsTyped DEF TypeOK, Store
<1>. QED  BY <1>1, <1>2, <1>4 DEF TypeOK, Store

LEMMA WikiStepTypes ==
  ASSUME TypeOK, WikiStep
  PROVE  TypeOK'
<1>1. ASSUME NEW text \in SUBSET Lines, HumanEdit(text)
      PROVE  TypeOK'
  <2>1. page.revisions + 1 \in Nat /\ humanEdits + 1 \in Nat
    BY DEF TypeOK
  <2>. QED  BY <1>1, <2>1 DEF TypeOK, HumanEdit
<1>2. CASE AddLine
  <2>1. page.text \cup {<<Human, humanEdits + 1, 0>>} \subseteq Lines
    BY DEF TypeOK, Lines
  <2>. QED  BY <1>1, <1>2, <2>1 DEF AddLine
<1>3. ASSUME NEW l \in page.text, Undo(l)
      PROVE  TypeOK'
  <2>1. page.text \ {l} \subseteq Lines
    BY DEF TypeOK
  <2>. QED  BY <1>1, <1>3, <2>1 DEF Undo
<1>4. CASE TriggerStop
  BY <1>4 DEF TypeOK, TriggerStop
<1>5. ASSUME NEW c \in Clients, NEW session \in {"live", "sick", "lost"}, SpoilSession(c, session)
      PROVE  TypeOK'
  <2>1. account' \in [Clients -> Accounts]
    BY <1>5, SpoiledSession DEF SpoilSession
  <2>2. call' \in [Clients -> Calls]
    <3>1. [call[c] EXCEPT !.calm = FALSE] \in Calls
      <4>1. call[c] \in Calls
        BY CallTypes
      <4>. QED  BY <4>1 DEF Calls
    <3>. QED  BY <1>5, <3>1, SetCall DEF SpoilSession, Disturb, TypeOK
  <2>3. faults' \in Nat
    BY <1>5 DEF TypeOK, SpoilSession, CountFault
  <2>. QED  BY <1>5, <2>1, <2>2, <2>3 DEF TypeOK, SpoilSession, wikiVars
<1>6. ASSUME NEW c \in Clients, Fault(c)
      PROVE  TypeOK'
  <2>1. SpoilSession(c, account[c].session) => account[c].session \in {"live", "sick"}
    BY DEF SpoilSession, LoggedIn
  <2>. QED  BY <1>5, <1>6, <2>1 DEF Fault
<1>. QED  BY <1>2, <1>3, <1>4, <1>6 DEF WikiStep

LEMMA TokenStepTypes ==
  ASSUME NEW c \in Clients, NEW token
  PROVE  FirstRequest(c, token) \in Asking /\ AfterToken(c) \in Asking
BY DEF FirstRequest, AfterToken, Asking

LEMMA StartCallTypes ==
  ASSUME TypeOK, NEW c \in Clients, NEW request \in Requests, StartCall(c, request)
  PROVE  /\ TypeOK'
         /\ call'[c].number = call[c].number + 1 /\ call'[c].request = request
         /\ call'[c].base = 0 /\ call'[c].seen = {} /\ call'[c].text = {}
         /\ call'[c].attemptsLeft = IF request.function = "editPage" THEN EditAttempts ELSE 1
         /\ call'[c].outcome = "none"
         /\ IF request.function # "appendToPage" THEN call'[c].pc = "read"
            ELSE /\ call'[c].pc \in Asking \ {"read"}
                 /\ call'[c].pc = "write" => call'[c].tries = 1
         /\ \A d \in Clients : d # c => call'[d] = call[d]
<1>. DEFINE left == IF request.function = "editPage" THEN EditAttempts ELSE 1
            n == call[c].number + 1
            fresh == [NoCall EXCEPT !.request = request, !.number = n,
                                    !.attemptsLeft = left, !.tries = Attempts]
            pc == FirstRequest(c, account[c].token)
            tries == IF pc = "write" THEN 1 ELSE Attempts
            asked == [fresh EXCEPT !.pc = pc, !.tries = tries]
            reading == [fresh EXCEPT !.pc = "read"]
<1>1. NoCall \in Calls /\ NoCall.base = 0 /\ NoCall.seen = {} /\ NoCall.text = {}
      /\ NoCall.outcome = "none"
  BY NoCallIsTyped DEF NoCall
<1>2. n \in 0..MaxCalls /\ left \in 0..EditAttempts /\ Attempts \in 0..Attempts /\ tries \in 0..Attempts
  BY CallTypes, BoundsArePositive DEF StartCall
<1>3. pc \in Asking \ {"read"}
  BY DEF FirstRequest, AfterToken, Asking
<1>4. Set(c, IF request.function # "appendToPage" THEN reading ELSE asked)
  BY DEF StartCall
<1>. HIDE DEF pc, tries, left, n
<1>5. fresh \in Calls
  BY <1>1, <1>2 DEF Calls
<1>6. /\ fresh.request = request /\ fresh.number = n /\ fresh.base = 0
      /\ fresh.seen = {} /\ fresh.text = {} /\ fresh.outcome = "none" /\ fresh.attemptsLeft = left
  BY <1>1 DEF Calls
<1>. HIDE DEF fresh
<1>7. asked \in Calls /\ reading \in Calls
  BY <1>2, <1>5, <1>3 DEF Calls, Asking
<1>8. \A rec \in {asked, reading} :
        /\ rec.request = request /\ rec.number = n /\ rec.base = 0
        /\ rec.seen = {} /\ rec.text = {} /\ rec.outcome = "none" /\ rec.attemptsLeft = left
  <2>1. \A x \in {"request", "number", "base", "seen", "text", "outcome", "attemptsLeft"} :
          asked[x] = fresh[x] /\ reading[x] = fresh[x]
    BY <1>5 DEF Calls
  <2>. QED  BY <1>6, <2>1
<1>9. reading.pc = "read" /\ asked.pc = pc /\ asked.tries = tries
  BY <1>5 DEF Calls
<1>. HIDE DEF asked, reading
<1>10. /\ call' \in [Clients -> Calls]
       /\ call'[c] = IF request.function # "appendToPage" THEN reading ELSE asked
       /\ \A d \in Clients : d # c => call'[d] = call[d]
  BY <1>4, <1>7, SetCall
<1>11. TypeOK'
  BY <1>10 DEF TypeOK, StartCall, wikiVars
<1>. QED  BY <1>3, <1>8, <1>9, <1>10, <1>11 DEF n, left, tries

LEMMA UnreachableShape ==
  ASSUME TypeOK, NameIsSet, NEW c \in Clients, Unreachable(c)
  PROVE  /\ TypeOK' /\ NameIsSet' /\ OthersWait(c)
         /\ Returns(c, "error") \/ GoesOn(c)
<1>1. call' \in [Clients -> Calls]
  BY RetriedCall DEF Unreachable
<1>2. TypeOK'
  BY <1>1 DEF TypeOK, Unreachable, wikiVars
<1>3. call[c].pc # "idle" /\ call[c].pc # "login"
  BY DEF Unreachable, Asking
<1>4. call'[c].pc # "login" /\ UNCHANGED account
  BY <1>3, RetriedCall DEF Unreachable
<1>5. OthersWait(c) /\ (Returns(c, "error") \/ GoesOn(c))
  BY <1>3, RetriedCall DEF Unreachable, OthersWait, Returns, GoesOn, Remembers, At, AtNext
<1>. QED  BY <1>2, <1>3, <1>4, <1>5 DEF OthersWait, NameIsSet

\* An answer that only moves a call on.
LEMMA AskedOn ==
  ASSUME TypeOK, NEW c \in Clients, NEW rec \in Calls, NEW pc \in Asking \ {"read"},
         Set(c, Ask(c, rec, pc)), Writing(c),
         /\ rec.base = call[c].base /\ rec.seen = call[c].seen /\ rec.text = call[c].text
         /\ rec.request = call[c].request /\ rec.number = call[c].number
         /\ rec.attemptsLeft = call[c].attemptsLeft /\ rec.outcome = call[c].outcome
  PROVE  GoesOn(c) /\ OthersWait(c) /\ call' \in [Clients -> Calls]
<1>1. /\ call'[c] = Ask(c, rec, pc) /\ OthersWait(c) /\ call' \in [Clients -> Calls]
  BY AskedCall, SetCall DEF OthersWait
<1>2. pc # "login" /\ pc # "idle" /\ pc \in {"token", "stop", "write", "renew"}
  BY DEF Asking
<1>. QED  BY <1>1, <1>2, AskedCall DEF GoesOn, Remembers, AtNext

LEMMA LoggingIn ==
  ASSUME TypeOK, NEW c \in Clients, call[c].pc # "login", NEW rec \in Calls, Set(c, rec),
         rec.back = call[c].pc \/ (rec.back = "renew" /\ Writing(c)),
         rec.pc = "login", rec.base = call[c].base, rec.seen = call[c].seen, rec.text = call[c].text,
         rec.request = call[c].request, rec.number = call[c].number,
         rec.attemptsLeft = call[c].attemptsLeft, rec.outcome = call[c].outcome,
         rec.tries = call[c].tries
  PROVE  /\ GoesOn(c) /\ OthersWait(c) /\ call' \in [Clients -> Calls]
         /\ call'[c].pc = "login" /\ call'[c].back = rec.back
<1>1. call'[c] = rec /\ OthersWait(c) /\ call' \in [Clients -> Calls]
  BY SetCall DEF OthersWait
<1>. QED  BY <1>1 DEF GoesOn, Remembers, AtNext, At

LEMMA AssertUserFailedShape ==
  ASSUME TypeOK, NameIsSet, NEW c \in Clients, AssertUserFailed(c)
  PROVE  /\ TypeOK' /\ NameIsSet' /\ OthersWait(c)
         /\ Returns(c, "error") \/ GoesOn(c)
<1>1. call[c].pc \in Asking /\ call[c].pc # "login"
  BY DEF AssertUserFailed, Asking
<1>2. CASE c \in WithPassword /\ ~call[c].logInRetried
  <2>. DEFINE rec == [call[c] EXCEPT !.pc = "login", !.back = call[c].pc]
  <2>1. BeginLogin(c, call[c].pc) /\ Set(c, rec)
    BY <1>2 DEF AssertUserFailed, BeginLogin
  <2>5. /\ rec \in Calls /\ rec.pc = "login" /\ rec.back = call[c].pc
        /\ rec.base = call[c].base /\ rec.seen = call[c].seen /\ rec.text = call[c].text
        /\ rec.request = call[c].request /\ rec.number = call[c].number
        /\ rec.attemptsLeft = call[c].attemptsLeft /\ rec.outcome = call[c].outcome
        /\ rec.tries = call[c].tries
    BY <1>1, CallTypes DEF Calls
  <2>. HIDE DEF rec
  <2>2. /\ GoesOn(c) /\ OthersWait(c) /\ call' \in [Clients -> Calls]
        /\ call'[c].pc = "login" /\ call'[c].back = call[c].pc
    BY <1>1, <2>1, <2>5, LoggingIn
  <2>3. account' \in [Clients -> Accounts]
    BY <2>1, SetName DEF BeginLogin
  <2>4. \A d \in Clients : d # c => account'[d] = account[d]
    BY <2>1, SetName DEF BeginLogin
  <2>. QED  BY <1>1, <2>2, <2>3, <2>4
            DEF TypeOK, NameIsSet, OthersWait, AssertUserFailed, wikiVars, Asking
<1>3. CASE ~(c \in WithPassword /\ ~call[c].logInRetried)
  <2>1. Set(c, Ended(c, "error")) /\ UNCHANGED account
    BY <1>3 DEF AssertUserFailed
  <2>2. Returns(c, "error") /\ OthersWait(c) /\ call' \in [Clients -> Calls]
    BY <2>1, ReturnedCall DEF Outcomes
  <2>. QED  BY <1>1, <2>1, <2>2
            DEF TypeOK, NameIsSet, OthersWait, AssertUserFailed, wikiVars, Returns
<1>. QED  BY <1>2, <1>3

LEMMA LogInSucceedsShape ==
  ASSUME TypeOK, NameIsSet, NEW c \in Clients, LogInSucceeds(c)
  PROVE  TypeOK' /\ NameIsSet' /\ OthersWait(c) /\ GoesOn(c)
<1>. DEFINE next == FirstRequest(c, account[c].token)
<1>1. call[c].pc = "login" /\ At(c) = call[c].back /\ call[c] \in Calls /\ call[c].back # "idle"
  BY CallTypes DEF LogInSucceeds, At, NameIsSet
<1>2. /\ account' \in [Clients -> Accounts] /\ account'[c].named
      /\ \A d \in Clients : d # c => account'[d] = account[d]
  <2>1. Stale(account[c].token) \in {"none", "good", "stale", "anonymous"}
    BY DEF Stale
  <2>. QED  BY <2>1, SetSession DEF LogInSucceeds
<1>3. GoesOn(c) /\ OthersWait(c) /\ call' \in [Clients -> Calls] /\ call'[c].pc # "login"
  <2>1. CASE call[c].back = "renew"
    <3>1. Set(c, Ask(c, call[c], next)) /\ Writing(c)
      BY <1>1, <2>1 DEF LogInSucceeds, Writing
    <3>2. next \in Asking \ {"read"}
      BY DEF FirstRequest, AfterToken, Asking
    <3>. HIDE DEF next
    <3>3. call'[c].pc = next
      BY <1>1, <3>1, <3>2, AskedCall, SetCall
    <3>. QED  BY <1>1, <3>1, <3>2, <3>3, AskedOn DEF Asking
  <2>2. CASE call[c].back # "renew"
    <3>. DEFINE rec == [call[c] EXCEPT !.pc = call[c].back, !.logInRetried = TRUE]
    <3>1. rec \in Calls /\ Set(c, rec) /\ rec.pc = call[c].back
      BY <1>1, <2>2 DEF Calls, LogInSucceeds
    <3>2. /\ rec.base = call[c].base /\ rec.seen = call[c].seen /\ rec.text = call[c].text
          /\ rec.request = call[c].request /\ rec.number = call[c].number
          /\ rec.attemptsLeft = call[c].attemptsLeft /\ rec.outcome = call[c].outcome
          /\ rec.tries = call[c].tries
      BY <1>1 DEF Calls
    <3>3. call[c].back \in Asking
      BY <1>1, <2>2 DEF Calls
    <3>. HIDE DEF rec
    <3>4. call'[c] = rec /\ OthersWait(c) /\ call' \in [Clients -> Calls]
      BY <3>1, SetCall DEF OthersWait
    <3>. QED  BY <1>1, <3>1, <3>2, <3>3, <3>4 DEF GoesOn, Remembers, AtNext, Asking
  <2>. QED  BY <2>1, <2>2
<1>. QED  BY <1>1, <1>2, <1>3 DEF TypeOK, NameIsSet, OthersWait, LogInSucceeds, wikiVars

LEMMA LogInFailsShape ==
  ASSUME TypeOK, NameIsSet, NEW c \in Clients, LogInFails(c)
  PROVE  /\ TypeOK' /\ NameIsSet' /\ OthersWait(c)
         /\ Returns(c, "error") \/ GoesOn(c)
<1>. DEFINE next == FirstRequest(c, account[c].token)
<1>1. call[c].pc = "login" /\ At(c) = call[c].back /\ call[c] \in Calls
  BY CallTypes DEF LogInFails, At
<1>2. /\ account' \in [Clients -> Accounts] /\ account'[c].named
      /\ \A d \in Clients : d # c => account'[d] = account[d]
  BY DEF LogInFails, NameAfterFailure, TypeOK, Accounts
<1>3. /\ Returns(c, "error") \/ GoesOn(c)
      /\ OthersWait(c) /\ call' \in [Clients -> Calls] /\ call'[c].pc # "login"
  <2>1. CASE call[c].back = "renew"
    <3>. DEFINE rec == [call[c] EXCEPT !.calm = FALSE]
    <3>1. Set(c, Ask(c, rec, next)) /\ Writing(c)
      BY <1>1, <2>1 DEF LogInFails, Writing
    <3>2. /\ rec \in Calls
          /\ rec.base = call[c].base /\ rec.seen = call[c].seen /\ rec.text = call[c].text
          /\ rec.request = call[c].request /\ rec.number = call[c].number
          /\ rec.attemptsLeft = call[c].attemptsLeft /\ rec.outcome = call[c].outcome
      BY <1>1 DEF Calls
    <3>3. next \in Asking \ {"read"}
      BY DEF FirstRequest, AfterToken, Asking
    <3>. HIDE DEF next, rec
    <3>4. call'[c].pc = next
      BY <3>1, <3>2, <3>3, AskedCall, SetCall
    <3>. QED  BY <3>1, <3>2, <3>3, <3>4, AskedOn DEF Asking
  <2>2. CASE call[c].back # "renew"
    <3>1. Set(c, Failed(c))
      BY <2>2 DEF LogInFails
    <3>. QED  BY <3>1, ReturnedCall DEF Outcomes, Returns
  <2>. QED  BY <2>1, <2>2
<1>. QED  BY <1>2, <1>3 DEF TypeOK, NameIsSet, OthersWait, LogInFails, wikiVars

LEMMA GetTokenShape ==
  ASSUME TypeOK, NameIsSet, NEW c \in Clients, GetToken(c)
  PROVE  TypeOK' /\ NameIsSet' /\ OthersWait(c) /\ GoesOn(c)
<1>1. Writing(c) /\ call[c] \in Calls /\ call[c].pc = "token"
  BY CallTypes DEF GetToken, Writing, At
<1>2. AfterToken(c) \in Asking \ {"read"} /\ Set(c, Ask(c, call[c], AfterToken(c)))
  BY DEF GetToken, AfterToken, Asking
<1>3. GoesOn(c) /\ OthersWait(c) /\ call' \in [Clients -> Calls]
  BY <1>1, <1>2, AskedOn
<1>4. call'[c].pc # "login"
  BY <1>1, <1>2, AskedCall, SetCall DEF Asking
<1>5. /\ account' \in [Clients -> Accounts]
      /\ \A d \in Clients : account'[d].named = account[d].named
  <2>1. TokenGiven(c) \in {"none", "good", "stale", "anonymous"}
    BY DEF TokenGiven
  <2>. QED  BY <2>1, SetToken DEF GetToken
<1>. QED  BY <1>1, <1>3, <1>4, <1>5 DEF TypeOK, NameIsSet, OthersWait, GetToken, wikiVars

LEMMA TestStopShape ==
  ASSUME TypeOK, NameIsSet, NEW c \in Clients, TestStop(c)
  PROVE  /\ TypeOK' /\ NameIsSet' /\ OthersWait(c)
         /\ Returns(c, "stopped") \/ GoesOn(c)
<1>1. Writing(c) /\ call[c] \in Calls /\ call[c].pc = "stop"
  BY CallTypes DEF TestStop, Writing, At
<1>2. CASE stopped
  <2>1. Set(c, Ended(c, "stopped"))
    BY <1>2 DEF TestStop
  <2>2. Returns(c, "stopped") /\ OthersWait(c) /\ call' \in [Clients -> Calls]
    BY <2>1, ReturnedCall DEF Outcomes
  <2>. QED  BY <1>1, <2>2 DEF TypeOK, NameIsSet, OthersWait, Returns, TestStop, wikiVars
<1>3. CASE ~stopped
  <2>1. Set(c, Ask(c, call[c], "write")) /\ "write" \in Asking \ {"read"}
    BY <1>3 DEF TestStop, Asking
  <2>2. GoesOn(c) /\ OthersWait(c) /\ call' \in [Clients -> Calls]
    BY <1>1, <2>1, AskedOn
  <2>3. call'[c].pc = "write"
    BY <1>1, <2>1, AskedCall, SetCall DEF Asking
  <2>. QED  BY <1>1, <2>2, <2>3 DEF TypeOK, NameIsSet, OthersWait, TestStop, wikiVars
<1>. QED  BY <1>2, <1>3

LEMMA BadTokenShape ==
  ASSUME TypeOK, NameIsSet, NEW c \in Clients, BadToken(c)
  PROVE  /\ TypeOK' /\ NameIsSet' /\ OthersWait(c)
         /\ Returns(c, "error") \/ GoesOn(c)
<1>1. Writing(c) /\ call[c] \in Calls /\ call[c].pc = "write"
  BY CallTypes DEF BadToken, Writing, At
<1>2. CASE RenewalsExhausted(c)
  <2>1. Set(c, Ended(c, "error")) /\ UNCHANGED account
    BY <1>2 DEF BadToken
  <2>2. Returns(c, "error") /\ OthersWait(c) /\ call' \in [Clients -> Calls]
    BY <2>1, ReturnedCall DEF Outcomes
  <2>. QED  BY <1>1, <2>1, <2>2 DEF TypeOK, NameIsSet, OthersWait, Returns, BadToken, wikiVars
<1>. DEFINE n == RenewalsAfter(c)
            login == [call[c] EXCEPT !.pc = "login", !.back = "renew", !.renewed = n]
            again == [call[c] EXCEPT !.renewed = n]
<1>3. CASE ~RenewalsExhausted(c) /\ call[c].renewed > 0 /\ c \in WithPassword
  <2>1. Set(c, login)
    BY <1>3 DEF BadToken
  <2>2. n \in 0..TokenRenewals
    BY <1>1, <1>3, BoundsArePositive DEF Calls, RenewalsAfter, RenewalsExhausted
  <2>. HIDE DEF n
  <2>3. /\ login \in Calls /\ login.pc = "login" /\ login.back = "renew"
        /\ login.base = call[c].base /\ login.seen = call[c].seen /\ login.text = call[c].text
        /\ login.request = call[c].request /\ login.number = call[c].number
        /\ login.attemptsLeft = call[c].attemptsLeft /\ login.outcome = call[c].outcome
        /\ login.tries = call[c].tries
    BY <1>1, <2>2 DEF Calls
  <2>. HIDE DEF login
  <2>4. /\ GoesOn(c) /\ OthersWait(c) /\ call' \in [Clients -> Calls]
        /\ call'[c].pc = "login" /\ call'[c].back = "renew"
    BY <1>1, <2>1, <2>3, LoggingIn
  <2>5. /\ account' \in [Clients -> Accounts]
        /\ \A d \in Clients : d # c => account'[d] = account[d]
    BY <1>3, SetSession DEF BadToken
  <2>. QED  BY <2>4, <2>5 DEF TypeOK, NameIsSet, OthersWait, BadToken, wikiVars
<1>4. CASE ~RenewalsExhausted(c) /\ ~(call[c].renewed > 0 /\ c \in WithPassword)
  <2>1. Set(c, Ask(c, again, "token")) /\ "token" \in Asking \ {"read"}
    BY <1>4 DEF BadToken, Asking
  <2>2. n \in 0..TokenRenewals
    BY <1>1, <1>4, BoundsArePositive DEF Calls, RenewalsAfter, RenewalsExhausted
  <2>. HIDE DEF n
  <2>3. /\ again \in Calls
        /\ again.base = call[c].base /\ again.seen = call[c].seen /\ again.text = call[c].text
        /\ again.request = call[c].request /\ again.number = call[c].number
        /\ again.attemptsLeft = call[c].attemptsLeft /\ again.outcome = call[c].outcome
    BY <1>1, <2>2 DEF Calls
  <2>. HIDE DEF again
  <2>4. GoesOn(c) /\ OthersWait(c) /\ call' \in [Clients -> Calls]
    BY <1>1, <2>1, <2>3, AskedOn
  <2>5. call'[c].pc = "token"
    BY <2>1, <2>3, AskedCall, SetCall DEF Asking
  <2>6. /\ account' \in [Clients -> Accounts]
        /\ \A d \in Clients : account'[d].named = account[d].named
    BY <1>4, SetToken DEF BadToken
  <2>. QED  BY <1>1, <2>4, <2>5, <2>6 DEF TypeOK, NameIsSet, OthersWait, BadToken, wikiVars
<1>. QED  BY <1>2, <1>3, <1>4

LEMMA PageAlreadyExistsShape ==
  ASSUME TypeOK, NameIsSet, NEW c \in Clients, PageAlreadyExists(c)
  PROVE  TypeOK' /\ NameIsSet' /\ OthersWait(c) /\ Returns(c, "exists")
<1>1. Returns(c, "exists") /\ OthersWait(c) /\ call' \in [Clients -> Calls]
  BY ReturnedCall DEF Outcomes, PageAlreadyExists
<1>. QED  BY <1>1 DEF TypeOK, NameIsSet, OthersWait, Returns, PageAlreadyExists, wikiVars, Sent

LEMMA RefusedShape ==
  ASSUME TypeOK, NameIsSet, NEW c \in Clients, Refused(c)
  PROVE  TypeOK' /\ NameIsSet' /\ OthersWait(c) /\ Returns(c, "error")
<1>1. Returns(c, "error") /\ OthersWait(c) /\ call' \in [Clients -> Calls]
  BY ReturnedCall DEF Outcomes, Refused
<1>. QED  BY <1>1 DEF TypeOK, NameIsSet, OthersWait, Returns, Refused, wikiVars, Sent

LEMMA SuccessShape ==
  ASSUME TypeOK, NameIsSet, NEW c \in Clients, Success(c)
  PROVE  TypeOK' /\ NameIsSet' /\ OthersWait(c) /\ Returns(c, "ok")
<1>1. Returns(c, "ok") /\ OthersWait(c) /\ call' \in [Clients -> Calls]
  BY ReturnedCall DEF Outcomes, Success
<1>2. Store(c)
  BY DEF Success
<1>3. TypeOK'
  BY <1>1, <1>2, StoreIsTyped DEF TypeOK, Success
<1>. QED  BY <1>1, <1>3 DEF NameIsSet, OthersWait, Returns, Success, Sent

LEMMA AnswerLostShape ==
  ASSUME TypeOK, NameIsSet, NEW c \in Clients, AnswerLost(c)
  PROVE  /\ TypeOK' /\ NameIsSet' /\ OthersWait(c)
         /\ \/ Returns(c, "error")
            \/ GoesOn(c) /\ AtNext(c) = "write" /\ call[c].tries > 1
<1>1. /\ call' \in [Clients -> Calls] /\ OthersWait(c) /\ call[c].pc = "write"
      /\ call'[c].pc # "login"
      /\ \/ Returns(c, "error")
         \/ GoesOn(c) /\ AtNext(c) = "write" /\ call[c].tries > 1
  BY RetriedCall DEF AnswerLost, Sent, OthersWait, Returns, GoesOn, Remembers, At, AtNext
<1>2. Store(c)
  BY DEF AnswerLost
<1>3. TypeOK'
  BY <1>1, <1>2, StoreIsTyped DEF TypeOK, AnswerLost
<1>. QED  BY <1>1, <1>3 DEF NameIsSet, OthersWait, AnswerLost

\* A new read: of a call that starts, or again after a conflict.
LEMMA ReadPageShape ==
  ASSUME TypeOK, NameIsSet, NEW c \in Clients, ReadPage(c)
  PROVE  /\ TypeOK' /\ NameIsSet' /\ OthersWait(c)
         /\ call'[c].request = call[c].request /\ call'[c].number = call[c].number
         /\ IF NewText(c, page.text) = page.text THEN Returns(c, "ok")
            ELSE /\ call'[c].pc \in Asking \ {"read"}
                 /\ call'[c].base = page.revisions /\ call'[c].seen = page.text
                 /\ call'[c].text = NewText(c, page.text)
                 /\ call'[c].attemptsLeft = call[c].attemptsLeft
                 /\ call'[c].outcome = call[c].outcome
<1>1. call[c] \in Calls /\ call[c].pc = "read" /\ UNCHANGED <<wikiVars, account, made, faults>>
  BY CallTypes DEF ReadPage
<1>2. CASE NewText(c, page.text) = page.text
  <2>1. Set(c, Ended(c, "ok"))
    BY <1>2 DEF ReadPage
  <2>2. Returns(c, "ok") /\ OthersWait(c) /\ call' \in [Clients -> Calls]
    BY <2>1, ReturnedCall DEF Outcomes
  <2>. QED  BY <1>1, <1>2, <2>2 DEF TypeOK, NameIsSet, OthersWait, Returns, wikiVars
<1>3. CASE NewText(c, page.text) # page.text
  <2>. DEFINE text == NewText(c, page.text)
              pc == FirstRequest(c, account[c].token)
              rec == [call[c] EXCEPT !.base = page.revisions, !.seen = page.text,
                                     !.text = text, !.renewed = 0]
  <2>1. Set(c, Ask(c, rec, pc))
    BY <1>3 DEF ReadPage
  <2>2. text \subseteq Lines /\ page.text \subseteq Lines /\ page.revisions \in Nat
        /\ 0 \in 0..TokenRenewals
    BY NewTextIsTyped, BoundsArePositive DEF TypeOK
  <2>3. pc \in Asking \ {"read"}
    BY DEF FirstRequest, AfterToken, Asking
  <2>. HIDE DEF text, pc
  <2>4. /\ rec \in Calls
        /\ rec.base = page.revisions /\ rec.seen = page.text /\ rec.text = text
        /\ rec.request = call[c].request /\ rec.number = call[c].number
        /\ rec.attemptsLeft = call[c].attemptsLeft /\ rec.outcome = call[c].outcome
    BY <1>1, <2>2 DEF Calls
  <2>. HIDE DEF rec
  <2>5. /\ call' \in [Clients -> Calls] /\ call'[c] = Ask(c, rec, pc) /\ OthersWait(c)
    BY <2>1, <2>3, <2>4, AskedCall, SetCall DEF OthersWait
  <2>6. /\ call'[c].pc = pc /\ pc # "login"
        /\ call'[c].base = page.revisions /\ call'[c].seen = page.text /\ call'[c].text = text
        /\ call'[c].request = call[c].request /\ call'[c].number = call[c].number
        /\ call'[c].attemptsLeft = call[c].attemptsLeft /\ call'[c].outcome = call[c].outcome
    BY <2>3, <2>4, <2>5, AskedCall DEF Asking
  <2>7. TypeOK' /\ NameIsSet'
    BY <1>1, <2>5, <2>6 DEF TypeOK, NameIsSet, OthersWait, wikiVars
  <2>. QED  BY <1>3, <2>3, <2>5, <2>6, <2>7 DEF text
<1>. QED  BY <1>2, <1>3 DEF Returns

LEMMA EditConflictShape ==
  ASSUME TypeOK, NameIsSet, NEW c \in Clients, EditConflict(c)
  PROVE  /\ TypeOK' /\ NameIsSet' /\ OthersWait(c)
         /\ \/ Returns(c, "conflict")
            \/ /\ call[c].attemptsLeft > 1 /\ call'[c].pc = "read"
               /\ call'[c].base = call[c].base /\ call'[c].seen = call[c].seen
               /\ call'[c].text = call[c].text /\ call'[c].outcome = call[c].outcome
               /\ call'[c].request = call[c].request /\ call'[c].number = call[c].number
<1>1. call[c] \in Calls /\ call[c].pc = "write" /\ UNCHANGED <<wikiVars, account, made, faults>>
  BY CallTypes DEF EditConflict, Sent
<1>2. CASE call[c].attemptsLeft <= 1
  <2>1. Set(c, Ended(c, "conflict"))
    BY <1>2 DEF EditConflict
  <2>2. Returns(c, "conflict") /\ OthersWait(c) /\ call' \in [Clients -> Calls]
    BY <2>1, ReturnedCall DEF Outcomes
  <2>. QED  BY <1>1, <2>2 DEF TypeOK, NameIsSet, OthersWait, Returns, wikiVars
<1>3. CASE ~(call[c].attemptsLeft <= 1)
  <2>. DEFINE rec == [call[c] EXCEPT !.attemptsLeft = @ - 1]
  <2>1. Set(c, Ask(c, rec, "read")) /\ "read" \in Asking
    BY <1>3 DEF EditConflict, Asking
  <2>2. call[c].attemptsLeft - 1 \in 0..EditAttempts /\ call[c].attemptsLeft > 1
    BY <1>3, CallTypes, BoundsArePositive
  <2>3. /\ rec \in Calls
        /\ rec.base = call[c].base /\ rec.seen = call[c].seen /\ rec.text = call[c].text
        /\ rec.request = call[c].request /\ rec.number = call[c].number
        /\ rec.outcome = call[c].outcome
    BY <1>1, <2>2 DEF Calls
  <2>. HIDE DEF rec
  <2>4. /\ call' \in [Clients -> Calls] /\ call'[c] = Ask(c, rec, "read") /\ OthersWait(c)
    BY <2>1, <2>3, AskedCall, SetCall DEF OthersWait
  <2>5. /\ call'[c].pc = "read"
        /\ call'[c].base = call[c].base /\ call'[c].seen = call[c].seen
        /\ call'[c].text = call[c].text /\ call'[c].outcome = call[c].outcome
        /\ call'[c].request = call[c].request /\ call'[c].number = call[c].number
    BY <2>1, <2>3, <2>4, AskedCall
  <2>6. TypeOK' /\ NameIsSet'
    BY <1>1, <2>4, <2>5 DEF TypeOK, NameIsSet, OthersWait, wikiVars
  <2>. QED  BY <2>2, <2>4, <2>5, <2>6
<1>. QED  BY <1>2, <1>3

------------------------------------------------------------------------------
(* What the calls remember. *)

\* A call that is not concerned by a step.
Waits(d) ==
  /\ call'[d].pc = call[d].pc /\ call'[d].back = call[d].back /\ call'[d].tries = call[d].tries
  /\ call'[d].base = call[d].base /\ call'[d].seen = call[d].seen /\ call'[d].text = call[d].text
  /\ call'[d].request = call[d].request /\ call'[d].number = call[d].number
  /\ call'[d].attemptsLeft = call[d].attemptsLeft /\ call'[d].outcome = call[d].outcome

LEMMA WaitingCall ==
  ASSUME Inductive, NEW d \in Clients, Waits(d),
         \A l \in page'.text \ page.text : l[1] # d
  PROVE  TextIsSound(d)' /\ LineIsUnique(d)'
<1>1. TextIsSound(d) /\ LineIsUnique(d)
  BY DEF Inductive
<1>2. TextIsSound(d)'
  BY <1>1 DEF TextIsSound, Writing, At, Waits
<1>3. CurrentLines(d)' \subseteq CurrentLines(d)
  BY DEF CurrentLines, LinesOf, Waits
<1>4. LineIsUnique(d)'
  BY <1>1, <1>3 DEF LineIsUnique, At, Waits
<1>. QED  BY <1>2, <1>4

LEMMA ReturnedCallIsSound ==
  ASSUME NEW c \in Clients, NEW o, Returns(c, o),
         call[c].request # [function |-> "editPage", change |-> "add"] =>
           \A l, m \in LinesOf(c, call[c].number, page'.text) : l = m
  PROVE  TextIsSound(c)' /\ LineIsUnique(c)'
<1>1. TextIsSound(c)'
  BY DEF TextIsSound, Writing, At, Returns
<1>2. CurrentLines(c)' = LinesOf(c, call[c].number, page'.text)
  BY DEF CurrentLines, LinesOf, Returns
<1>3. LineIsUnique(c)'
  BY <1>2 DEF LineIsUnique, Returns
<1>. QED  BY <1>1, <1>3

LEMMA ContinuedCallIsSound ==
  ASSUME Inductive, NEW c \in Clients, call[c].pc # "idle", GoesOn(c),
         LinesOf(c, call[c].number, page'.text) \subseteq CurrentLines(c)
  PROVE  TextIsSound(c)' /\ LineIsUnique(c)'
<1>1. TextIsSound(c) /\ LineIsUnique(c)
  BY DEF Inductive
<1>2. Writing(c)' => Writing(c)
  BY DEF GoesOn, Writing, At, AtNext
<1>3. TextIsSound(c)'
  BY <1>1, <1>2 DEF TextIsSound, GoesOn, Remembers
<1>4. CurrentLines(c)' \subseteq CurrentLines(c)
  BY DEF CurrentLines, LinesOf, GoesOn, Remembers
<1>5. LineIsUnique(c)'
  <2>1. At(c)' = AtNext(c)
    BY DEF At, AtNext
  <2>2. call[c].request.function = "appendToPage" =>
          /\ CurrentLines(c)' = {} /\ AtNext(c) # "read"
          /\ AtNext(c) = "write" => call'[c].tries = 1
    BY <1>1, <1>4 DEF LineIsUnique, GoesOn, TriesOf
  <2>3. call[c].request.function = "writePage" =>
          /\ call'[c].attemptsLeft = 1
          /\ AtNext(c) = "read" => CurrentLines(c)' = {}
    BY <1>1, <1>4 DEF LineIsUnique, GoesOn, Remembers
  <2>4. call'[c].request = call[c].request
    BY DEF GoesOn, Remembers
  <2>. QED  BY <1>1, <1>4, <2>1, <2>2, <2>3, <2>4 DEF LineIsUnique
<1>. QED  BY <1>3, <1>5

\* The page does not change and a call ends or goes on.
LEMMA AnsweredCallIsSound ==
  ASSUME Inductive, NEW c \in Clients, call[c].pc # "idle", UNCHANGED page, NEW o,
         Returns(c, o) \/ GoesOn(c)
  PROVE  TextIsSound(c)' /\ LineIsUnique(c)'
<1>1. LinesOf(c, call[c].number, page'.text) \subseteq CurrentLines(c)
  BY DEF CurrentLines, LinesOf
<1>2. LineIsUnique(c)
  BY DEF Inductive
<1>3. CASE GoesOn(c)
  BY <1>1, <1>3, ContinuedCallIsSound
<1>4. CASE Returns(c, o)
  BY <1>1, <1>2, <1>4, ReturnedCallIsSound DEF LineIsUnique
<1>. QED  BY <1>3, <1>4

LEMMA FirstReadIsSound ==
  ASSUME Inductive, NEW c \in Clients, ReadPage(c)
  PROVE  TextIsSound(c)' /\ LineIsUnique(c)'
<1>. DEFINE line == <<c, call[c].number, Attempt(c)>>
            own == LinesOf(c, call[c].number, page.text)
            text == NewText(c, page.text)
<1>1. /\ TypeOK /\ NameIsSet /\ PageIsSound /\ LineIsUnique(c)
      /\ call[c].pc = "read" /\ At(c) = "read" /\ UNCHANGED page
  BY DEF Inductive, ReadPage, wikiVars, At
<1>2. call[c].request.change \in {"add", "addUnlessThere", "cut"}
  BY <1>1, RequestTypes
<1>3. line[1] = c /\ line[2] = call[c].number
  OBVIOUS
<1>4. call[c].request.function # "appendToPage"
  BY <1>1 DEF LineIsUnique
<1>5. CASE text = page.text
  <2>1. Returns(c, "ok")
    BY <1>1, <1>5, ReadPageShape
  <2>. QED  BY <1>1, <2>1, AnsweredCallIsSound
<1>6. CASE text # page.text
  <2>1. /\ call'[c].pc \in Asking \ {"read"} /\ call'[c].base = page.revisions
        /\ call'[c].seen = page.text /\ call'[c].text = text
        /\ call'[c].attemptsLeft = call[c].attemptsLeft
        /\ call'[c].request = call[c].request /\ call'[c].number = call[c].number
    BY <1>1, <1>6, ReadPageShape
  <2>2. text \subseteq page.text \cup {line}
    BY <1>2 DEF NewText
  <2>3. call[c].request.change # "cut" => line \in text \ page.text
    BY <1>2, <1>6 DEF NewText
  <2>. HIDE DEF line, text
  <2>4. TextIsSound(c)'
    BY <1>1, <1>3, <2>1, <2>2, <2>3 DEF TextIsSound, PageIsSound, Asking
  <2>5. \A l, m \in own : call[c].request # [function |-> "editPage", change |-> "add"] => l = m
    BY <1>1 DEF LineIsUnique, CurrentLines, LinesOf
  <2>6. call[c].request # [function |-> "editPage", change |-> "add"] => own = {} \/ text \subseteq page.text
    <3>1. CASE call[c].request.change = "add"
      BY <1>1, <1>4, <3>1, RequestIs DEF LineIsUnique, CurrentLines, LinesOf
    <3>2. CASE call[c].request.change = "addUnlessThere"
      BY <3>2, <1>6 DEF NewText, text
    <3>3. CASE call[c].request.change = "cut"
      BY <3>3 DEF NewText, text
    <3>. QED  BY <1>2, <3>1, <3>2, <3>3
  <2>7. CurrentLines(c)' \subseteq own \cup {line}
    BY <1>1, <2>1, <2>2 DEF CurrentLines, LinesOf
  <2>8. text \subseteq page.text => CurrentLines(c)' \subseteq own
    BY <1>1, <2>1 DEF CurrentLines, LinesOf
  <2>. HIDE DEF own
  <2>9. call[c].request # [function |-> "editPage", change |-> "add"] =>
          \A l, m \in CurrentLines(c)' : l = m
    BY <2>5, <2>6, <2>7, <2>8
  <2>10. LineIsUnique(c)'
    BY <1>1, <1>4, <2>1, <2>9 DEF LineIsUnique, At, Asking
  <2>. QED  BY <2>4, <2>10
<1>. QED  BY <1>5, <1>6

LEMMA ConflictIsSound ==
  ASSUME Inductive, NEW c \in Clients, EditConflict(c)
  PROVE  TextIsSound(c)' /\ LineIsUnique(c)'
<1>1. /\ TypeOK /\ NameIsSet /\ TextIsSound(c) /\ LineIsUnique(c)
      /\ call[c].pc = "write" /\ UNCHANGED page
  BY DEF Inductive, EditConflict, Sent, wikiVars
<1>2. CASE Returns(c, "conflict")
  BY <1>1, <1>2, AnsweredCallIsSound
<1>3. CASE ~Returns(c, "conflict")
  <2>1. /\ call[c].attemptsLeft > 1 /\ call'[c].pc = "read" /\ call'[c].base = call[c].base
        /\ call'[c].seen = call[c].seen /\ call'[c].text = call[c].text
        /\ call'[c].request = call[c].request /\ call'[c].number = call[c].number
    BY <1>1, <1>3, EditConflictShape
  <2>2. call[c].request.function # "appendToPage" /\ call[c].request.function # "writePage"
    BY <1>1, <2>1 DEF EditConflict, MayConflict, TokenType, LineIsUnique
  <2>3. CurrentLines(c)' = CurrentLines(c)
    BY <1>1, <2>1 DEF CurrentLines, LinesOf
  <2>4. TextIsSound(c)'
    BY <1>1, <2>1 DEF TextIsSound, Writing, At
  <2>5. LineIsUnique(c)'
    BY <1>1, <2>1, <2>2, <2>3 DEF LineIsUnique
  <2>. QED  BY <2>4, <2>5
<1>. QED  BY <1>2, <1>3

LEMMA StartedCallIsSound ==
  ASSUME Inductive, NEW c \in Clients, NEW request \in Requests, StartCall(c, request)
  PROVE  TextIsSound(c)' /\ LineIsUnique(c)'
<1>1. /\ TypeOK /\ PageIsSound /\ call[c].number \in Nat /\ page.text \subseteq Lines
      /\ UNCHANGED page
  BY CallTypes DEF Inductive, TypeOK, StartCall, wikiVars
<1>2. /\ call'[c].number = call[c].number + 1 /\ call'[c].request = request
      /\ call'[c].base = 0 /\ call'[c].seen = {} /\ call'[c].text = {}
      /\ call'[c].attemptsLeft = IF request.function = "editPage" THEN EditAttempts ELSE 1
      /\ IF request.function # "appendToPage" THEN call'[c].pc = "read"
         ELSE /\ call'[c].pc \in Asking \ {"read"}
              /\ call'[c].pc = "write" => call'[c].tries = 1
  BY <1>1, StartCallTypes
<1>3. CurrentLines(c)' = {}
  <2>1. \A l \in page.text : l[1] = c => l[2] # call[c].number + 1
    <3>. SUFFICES ASSUME NEW l \in page.text, l[1] = c
                  PROVE  l[2] # call[c].number + 1
      OBVIOUS
    <3>1. l[2] \in Nat
      BY <1>1 DEF Lines
    <3>2. l[2] <= call[c].number
      BY <1>1 DEF PageIsSound
    <3>. QED  BY <1>1, <3>1, <3>2
  <2>. QED  BY <1>1, <1>2, <2>1 DEF CurrentLines, LinesOf
<1>4. TextIsSound(c)'
  BY <1>2 DEF TextIsSound, Writing, At
<1>5. LineIsUnique(c)'
  BY <1>2, <1>3 DEF LineIsUnique, At, Asking
<1>. QED  BY <1>4, <1>5

------------------------------------------------------------------------------
(* The edit. *)

\* An edit removes only what its author read, and adds only its own line.
LEMMA SavedIsMine ==
  ASSUME Inductive, NEW c \in Clients, Sent(c), ~PageExists(c)
  PROVE  /\ page.text \ Saved(c) \subseteq call[c].seen
         /\ \A l \in Saved(c) \ page.text : l[1] = c /\ l[2] = call[c].number
         /\ call[c].request.change # "cut" => \E l \in Saved(c) : l[1] = c /\ l[2] = call[c].number
<1>1. /\ TypeOK /\ PageIsSound /\ TextIsSound(c) /\ Writing(c)
      /\ page.revisions \in Nat
  BY DEF Inductive, Sent, Writing, At, TypeOK
<1>. DEFINE line == <<c, call[c].number, page.revisions + 1>>
<1>2. CASE call[c].request.function = "appendToPage"
  <2>1. Saved(c) = page.text \cup {line} /\ line[1] = c /\ line[2] = call[c].number
    BY <1>2 DEF Saved
  <2>. HIDE DEF line
  <2>. QED  BY <2>1
<1>3. CASE TokenType(c) = "EDIT" /\ call[c].request.function # "appendToPage"
  <2>1. Saved(c) = (page.text \ (call[c].seen \ call[c].text)) \cup (call[c].text \ call[c].seen)
    BY <1>3 DEF Saved
  <2>. QED  BY <1>1, <1>3, <2>1 DEF TextIsSound
<1>4. CASE TokenType(c) # "EDIT" /\ call[c].request.function # "appendToPage"
  <2>1. Saved(c) = call[c].text /\ call[c].base = 0 /\ TokenType(c) = "CREATE"
    BY <1>4 DEF Saved, TokenType
  <2>2. call[c].seen = {} /\ page.text = {}
    BY <1>1, <2>1 DEF PageExists, TextIsSound, PageIsSound
  <2>. QED  BY <1>1, <1>4, <2>1, <2>2 DEF TextIsSound
<1>. QED  BY <1>2, <1>3, <1>4

LEMMA StoredPageIsSound ==
  ASSUME Inductive, NEW c \in Clients, Sent(c), ~PageExists(c), Store(c), OthersWait(c),
         call'[c].number = call[c].number
  PROVE  PageIsSound' /\ page'.text = Saved(c)
<1>1. TypeOK /\ PageIsSound /\ page.revisions \in Nat /\ Saved(c) \subseteq Lines
      /\ call[c].number \in Nat
  BY SavedIsTyped, CallTypes DEF Inductive, TypeOK
<1>2. page'.text = Saved(c) /\ (page'.revisions = 0 => page' = page)
  BY <1>1 DEF Store
<1>3. made \subseteq made'
  BY DEF Store
<1>4. \A d \in Clients : call'[d].number = call[d].number
  BY DEF OthersWait
<1>5. ASSUME NEW l \in Saved(c), l[1] \in Clients
      PROVE  <<l[1], l[2]>> \in made' /\ l[2] <= call'[l[1]].number
  <2>1. CASE l \in page.text
    BY <1>1, <1>3, <1>4, <1>5, <2>1 DEF PageIsSound
  <2>2. CASE l \notin page.text
    <3>1. l[1] = c /\ l[2] = call[c].number
      BY <1>5, <2>2, SavedIsMine
    <3>2. <<c, call[c].number>> \in made'
      BY <1>5, <2>2 DEF Store
    <3>. QED  BY <1>1, <1>4, <3>1, <3>2
  <2>. QED  BY <2>1, <2>2
<1>. QED  BY <1>1, <1>2, <1>5 DEF PageIsSound

\* The line of a call on the page after its edit.
LEMMA SavedOnce ==
  ASSUME Inductive, NEW c \in Clients, Sent(c)
  PROVE  /\ call[c].request.function # "appendToPage" =>
              LinesOf(c, call[c].number, Saved(c)) \subseteq CurrentLines(c)
         /\ call[c].request # [function |-> "editPage", change |-> "add"] =>
              \A l, m \in LinesOf(c, call[c].number, Saved(c)) : l = m
         /\ call[c].request.function = "appendToPage" => call[c].tries = 1
<1>1. LineIsUnique(c) /\ call[c].pc = "write" /\ At(c) = "write"
  BY DEF Inductive, Sent, At
<1>2. CASE call[c].request.function = "appendToPage"
  <2>. DEFINE line == <<c, call[c].number, page.revisions + 1>>
  <2>1. Saved(c) = page.text \cup {line}
    BY <1>2 DEF Saved
  <2>. HIDE DEF line
  <2>2. LinesOf(c, call[c].number, Saved(c)) \subseteq {line} /\ call[c].tries = 1
    BY <1>1, <1>2, <2>1 DEF LineIsUnique, CurrentLines, LinesOf
  <2>. QED  BY <1>2, <2>2
<1>3. CASE call[c].request.function # "appendToPage"
  <2>1. Saved(c) \subseteq page.text \cup call[c].text
    BY <1>3 DEF Saved
  <2>2. LinesOf(c, call[c].number, Saved(c)) \subseteq CurrentLines(c)
    BY <2>1 DEF LinesOf, CurrentLines
  <2>. QED  BY <1>1, <1>3, <2>2 DEF LineIsUnique
<1>. QED  BY <1>2, <1>3

LEMMA StoringKeepsInductive ==
  ASSUME Inductive, NEW c \in Clients, Success(c) \/ AnswerLost(c)
  PROVE  Inductive'
<1>1. TypeOK /\ NameIsSet /\ Sent(c) /\ ~PageExists(c) /\ Store(c) /\ call[c].pc # "idle"
  BY DEF Inductive, Success, AnswerLost, Sent
<1>2. /\ TypeOK' /\ NameIsSet' /\ OthersWait(c) /\ call'[c].number = call[c].number
      /\ \/ \E o \in Outcomes : Returns(c, o)
         \/ GoesOn(c) /\ call[c].tries > 1
  BY <1>1, SuccessShape, AnswerLostShape DEF Returns, GoesOn, Remembers, Outcomes
<1>3. PageIsSound' /\ page'.text = Saved(c)
  BY <1>1, <1>2, StoredPageIsSound
<1>4. TextIsSound(c)' /\ LineIsUnique(c)'
  <2>1. CASE \E o \in Outcomes : Returns(c, o)
    BY <1>1, <1>3, <2>1, SavedOnce, ReturnedCallIsSound
  <2>2. CASE GoesOn(c) /\ call[c].tries > 1
    BY <1>1, <1>3, <2>2, SavedOnce, ContinuedCallIsSound
  <2>. QED  BY <1>2, <2>1, <2>2
<1>5. ASSUME NEW d \in Clients, d # c
      PROVE  TextIsSound(d)' /\ LineIsUnique(d)'
  <2>1. \A l \in page'.text \ page.text : l[1] # d
    BY <1>1, <1>3, <1>5, SavedIsMine
  <2>. QED  BY <1>2, <1>5, <2>1, WaitingCall DEF OthersWait, Waits
<1>. QED  BY <1>2, <1>3, <1>4, <1>5 DEF Inductive

LEMMA AnsweringKeepsInductive ==
  ASSUME Inductive, NEW c \in Clients, Answered(c)
  PROVE  Inductive'
<1>1. CASE Success(c) \/ AnswerLost(c)
  BY <1>1, StoringKeepsInductive
<1>2. CASE ~(Success(c) \/ AnswerLost(c))
  <2>1. TypeOK /\ NameIsSet /\ PageIsSound
    BY DEF Inductive
  <2>2. UNCHANGED <<page, made>> /\ call[c].pc # "idle"
    BY <1>2 DEF Answered, Unreachable, AssertUserFailed, LogInSucceeds, LogInFails, ReadPage,
         GetToken, TestStop, BadToken, EditConflict, PageAlreadyExists, Refused, Sent, Asking, wikiVars
  <2>3. /\ TypeOK' /\ NameIsSet' /\ OthersWait(c) /\ call'[c].number = call[c].number
        /\ TextIsSound(c)' /\ LineIsUnique(c)'
    <3>1. CASE ReadPage(c)
      BY <2>1, <3>1, ReadPageShape, FirstReadIsSound
    <3>2. CASE EditConflict(c)
      BY <2>1, <3>2, EditConflictShape, ConflictIsSound DEF Returns
    <3>3. CASE ~ReadPage(c) /\ ~EditConflict(c)
      <4>1. /\ TypeOK' /\ NameIsSet' /\ OthersWait(c)
            /\ GoesOn(c) \/ \E o \in Outcomes : Returns(c, o)
        BY <1>2, <2>1, <3>3, UnreachableShape, AssertUserFailedShape, LogInSucceedsShape,
           LogInFailsShape, GetTokenShape, TestStopShape, BadTokenShape, PageAlreadyExistsShape,
           RefusedShape DEF Answered, Outcomes
      <4>. QED  BY <2>2, <4>1, AnsweredCallIsSound DEF GoesOn, Remembers, Returns
    <3>. QED  BY <3>1, <3>2, <3>3
  <2>4. PageIsSound'
    <3>1. \A d \in Clients : call'[d].number = call[d].number
      BY <2>3 DEF OthersWait
    <3>. QED  BY <2>1, <2>2, <3>1 DEF PageIsSound
  <2>5. ASSUME NEW d \in Clients, d # c
        PROVE  TextIsSound(d)' /\ LineIsUnique(d)'
    BY <2>2, <2>3, <2>5, WaitingCall DEF OthersWait, Waits
  <2>. QED  BY <2>3, <2>4, <2>5 DEF Inductive
<1>. QED  BY <1>1, <1>2

LEMMA StartingKeepsInductive ==
  ASSUME Inductive, NEW c \in Clients, NEW request \in Requests, StartCall(c, request)
  PROVE  Inductive'
<1>1. /\ TypeOK /\ NameIsSet /\ PageIsSound /\ UNCHANGED <<page, made, account>>
  BY DEF Inductive, StartCall, wikiVars
<1>2. /\ TypeOK' /\ OthersWait(c) /\ call'[c].number = call[c].number + 1
      /\ call'[c].pc # "login" /\ call[c].pc = "idle"
  BY <1>1, StartCallTypes DEF OthersWait, Asking, StartCall
<1>3. NameIsSet'
  BY <1>1, <1>2 DEF NameIsSet, OthersWait
<1>4. PageIsSound'
  <2>1. ASSUME NEW l \in page.text, l[1] \in Clients
        PROVE  l[2] <= call'[l[1]].number
    <3>1. l[2] \in Nat /\ call[l[1]].number \in Nat /\ l[2] <= call[l[1]].number
      BY <1>1, <2>1, CallTypes DEF TypeOK, Lines, PageIsSound
    <3>2. \/ call'[l[1]].number = call[l[1]].number
          \/ call'[l[1]].number = call[l[1]].number + 1
      BY <1>2, <2>1 DEF OthersWait
    <3>. QED  BY <3>1, <3>2
  <2>. QED  BY <1>1, <2>1 DEF PageIsSound
<1>5. ASSUME NEW d \in Clients, d # c
      PROVE  TextIsSound(d)' /\ LineIsUnique(d)'
  BY <1>1, <1>2, <1>5, WaitingCall DEF OthersWait, Waits
<1>. QED  BY <1>2, <1>3, <1>4, <1>5, StartedCallIsSound DEF Inductive

LEMMA WikiLeavesCalls ==
  ASSUME TypeOK, WikiStep, NEW d \in Clients
  PROVE  Waits(d) /\ account'[d].named = account[d].named
<1>1. CASE UNCHANGED <<call, account>>
  BY <1>1 DEF Waits
<1>2. ASSUME NEW c \in Clients, NEW session, SpoilSession(c, session)
      PROVE  Waits(d) /\ account'[d].named = account[d].named
  <2>. DEFINE rec == [call[c] EXCEPT !.calm = FALSE]
  <2>1. call[c] \in Calls
    BY CallTypes
  <2>2. /\ rec.pc = call[c].pc /\ rec.back = call[c].back /\ rec.tries = call[c].tries
        /\ rec.base = call[c].base /\ rec.seen = call[c].seen /\ rec.text = call[c].text
        /\ rec.request = call[c].request /\ rec.number = call[c].number
        /\ rec.attemptsLeft = call[c].attemptsLeft /\ rec.outcome = call[c].outcome
    BY <2>1 DEF Calls
  <2>3. call' = call \/ Set(c, rec)
    BY <1>2 DEF SpoilSession, Disturb
  <2>. HIDE DEF rec
  <2>4. call'[d] = call[d] \/ (d = c /\ call'[d] = rec)
    BY <2>3, SetCall
  <2>5. account'[d].named = account[d].named
    BY <1>2 DEF SpoilSession, TypeOK, Accounts
  <2>. QED  BY <2>2, <2>4, <2>5 DEF Waits
<1>. QED  BY <1>1, <1>2 DEF WikiStep, AddLine, Undo, HumanEdit, TriggerStop, Fault

LEMMA WikiKeepsOthersLines ==
  ASSUME TypeOK, WikiStep
  PROVE  /\ made' = made
         /\ \A l \in page'.text \ page.text : l[1] \notin Clients
         /\ page'.revisions = 0 => page' = page
<1>1. (<<Human, humanEdits + 1, 0>>)[1] \notin Clients
  BY ClientsAreTyped
<1>2. page.revisions + 1 # 0
  BY DEF TypeOK
<1>3. CASE AddLine
  <2>. DEFINE line == <<Human, humanEdits + 1, 0>>
  <2>1. page'.text = page.text \cup {line} /\ page'.revisions = page.revisions + 1 /\ made' = made
    BY <1>3 DEF AddLine, HumanEdit
  <2>. HIDE DEF line
  <2>. QED  BY <1>1, <1>2, <2>1 DEF line
<1>4. CASE \E l \in page.text : Undo(l)
  BY <1>2, <1>4 DEF Undo, HumanEdit
<1>5. CASE TriggerStop \/ \E c \in Clients : Fault(c)
  BY <1>5 DEF TriggerStop, Fault, SpoilSession, wikiVars
<1>. QED  BY <1>3, <1>4, <1>5 DEF WikiStep

LEMMA WikiKeepsInductive ==
  ASSUME Inductive, WikiStep
  PROVE  Inductive'
<1>1. TypeOK /\ NameIsSet /\ PageIsSound /\ TypeOK' /\ page.revisions \in Nat
  BY WikiStepTypes DEF Inductive, TypeOK
<1>2. \A d \in Clients : Waits(d) /\ account'[d].named = account[d].named
  BY <1>1, WikiLeavesCalls
<1>3. /\ made' = made
      /\ \A l \in page'.text \ page.text : l[1] \notin Clients
      /\ page'.revisions = 0 => page' = page
  BY <1>1, WikiKeepsOthersLines
<1>4. NameIsSet'
  BY <1>1, <1>2 DEF NameIsSet, Waits
<1>5. PageIsSound'
  BY <1>1, <1>2, <1>3 DEF PageIsSound, Waits
<1>6. ASSUME NEW d \in Clients
      PROVE  TextIsSound(d)' /\ LineIsUnique(d)'
  <2>1. \A l \in page'.text \ page.text : l[1] # d
    BY <1>3
  <2>. QED  BY <1>2, <2>1, WaitingCall
<1>. QED  BY <1>1, <1>4, <1>5, <1>6 DEF Inductive

LEMMA LaggingKeepsInductive ==
  ASSUME Inductive, UNCHANGED <<page, stopped, humanEdits, account, call, made>>, faults' \in Nat
  PROVE  Inductive'
BY DEF Inductive, TypeOK, NameIsSet, PageIsSound, TextIsSound, LineIsUnique, CurrentLines,
       LinesOf, Writing, At

LEMMA InitIsInductive ==
  ASSUME Init
  PROVE  Inductive
<1>1. NoCall \in Calls /\ NoCall.pc = "idle" /\ NoCall.text = {} /\ NoCall.seen = {} /\ NoCall.base = 0
      /\ page.text = {} /\ page.revisions = 0 /\ \A c \in Clients : call[c] = NoCall
  BY NoCallIsTyped DEF NoCall, Init
<1>2. TypeOK
  BY <1>1 DEF Init, TypeOK, Accounts
<1>3. NameIsSet
  BY <1>1 DEF Init, NameIsSet
<1>4. PageIsSound /\ \A c \in Clients : TextIsSound(c) /\ LineIsUnique(c)
  BY <1>1 DEF PageIsSound, TextIsSound, LineIsUnique, CurrentLines, LinesOf, Writing, At
<1>. QED  BY <1>2, <1>3, <1>4 DEF Inductive

LEMMA NextKeepsInductive ==
  ASSUME Inductive, [Next]_vars
  PROVE  Inductive'
<1>1. CASE WikiStep
  BY <1>1, WikiKeepsInductive
<1>2. ASSUME NEW c \in Clients, NEW request \in Requests, StartCall(c, request)
      PROVE  Inductive'
  BY <1>2, StartingKeepsInductive
<1>3. ASSUME NEW c \in Clients, Lagged(c)
      PROVE  Inductive'
  <2>1. faults' \in Nat
    BY <1>3 DEF Lagged, CountFault, Inductive, TypeOK
  <2>. QED  BY <1>3, <2>1, LaggingKeepsInductive DEF Lagged, wikiVars
<1>4. ASSUME NEW c \in Clients, Answered(c)
      PROVE  Inductive'
  BY <1>4, AnsweringKeepsInductive
<1>5. CASE UNCHANGED vars
  BY <1>5, LaggingKeepsInductive DEF vars, wikiVars, Inductive, TypeOK
<1>. QED  BY <1>1, <1>2, <1>3, <1>4, <1>5 DEF Next

------------------------------------------------------------------------------
(* The theorems. *)

\* In every reachable state, the name of a Wiki object is set unless it is logging in, lines on the page
\* come from known calls, and what a call holds fits what it read.
THEOREM InvariantHolds == Spec => []Inductive
BY InitIsInductive, NextKeepsInductive, PTL DEF Spec

\* The state keeps its types, whatever the requests, answers and faults.
THEOREM TypeCorrect == Spec => []TypeOK
<1>1. Inductive => TypeOK
  BY DEF Inductive
<1>. QED  BY <1>1, InvariantHolds, PTL

\* A call puts at most one line on the page, however often its edit is sent (wiki_base.cpp:56).
THEOREM LinesAreWrittenOnce == Spec => []WrittenOnce
<1>1. ASSUME Inductive
      PROVE  WrittenOnce
  <2>. SUFFICES ASSUME NEW c \in Clients,
                       call[c].request # [function |-> "editPage", change |-> "add"]
                PROVE  Cardinality(LinesOf(c, call[c].number, page.text)) <= 1
    BY DEF WrittenOnce
  <2>. DEFINE own == LinesOf(c, call[c].number, page.text)
  <2>1. \A l, m \in own : l = m
    BY <1>1 DEF Inductive, LineIsUnique, CurrentLines, LinesOf
  <2>. HIDE DEF own
  <2>2. CASE own = {}
    <3>1. Cardinality(own) = 0
      BY <2>2, FS_EmptySet
    <3>. QED  BY <3>1 DEF own
  <2>3. CASE own # {}
    <3>1. PICK l \in own : TRUE
      BY <2>3
    <3>2. own = {l}
      BY <2>1, <3>1
    <3>3. Cardinality(own) = 1
      BY <3>2, FS_Singleton
    <3>. QED  BY <3>3 DEF own
  <2>. QED  BY <2>2, <2>3
<1>. QED  BY <1>1, InvariantHolds, PTL

\* No edit is made by a bot that is logged out (assert=user in wiki_base.cpp, and loginInternal).
THEOREM NoEditIsAnonymous == Spec => []NeverLoggedOut
<1>1. Init => NeverLoggedOut
  BY ClientsAreTyped DEF Init, NeverLoggedOut, Anonymous
<1>2. ASSUME Inductive, NeverLoggedOut, [Next]_vars
      PROVE  NeverLoggedOut'
  <2>1. CASE page' = page
    BY <1>2, <2>1 DEF NeverLoggedOut
  <2>2. ASSUME NEW c \in Clients, Sent(c), Store(c)
        PROVE  NeverLoggedOut'
    <3>1. LoggedIn(c)
      BY <1>2, <2>2 DEF Inductive, NameIsSet, Sent, Denied
    <3>2. page'.author \in {c, page.author}
      BY <2>2, <3>1 DEF Store
    <3>. QED  BY <1>2, <3>2, ClientsAreTyped DEF NeverLoggedOut, Anonymous
  <2>3. ASSUME NEW text, HumanEdit(text)
        PROVE  NeverLoggedOut'
    BY <2>3, ClientsAreTyped DEF HumanEdit, NeverLoggedOut, Anonymous
  <2>4. CASE WikiStep
    BY <2>1, <2>3, <2>4 DEF WikiStep, AddLine, Undo, TriggerStop, Fault, SpoilSession, wikiVars
  <2>5. ASSUME NEW c \in Clients, Answered(c)
        PROVE  NeverLoggedOut'
    BY <2>1, <2>2, <2>5 DEF Answered, Unreachable, AssertUserFailed, LogInSucceeds, LogInFails,
       ReadPage, GetToken, TestStop, BadToken, EditConflict, PageAlreadyExists, Refused, Success,
       AnswerLost, wikiVars
  <2>. QED  BY <1>2, <2>1, <2>4, <2>5 DEF Next, StartCall, Lagged, vars, wikiVars
<1>. QED  BY <1>1, <1>2, InvariantHolds, PTL DEF Spec

------------------------------------------------------------------------------
(* Calls that no fault disturbs. *)

\* What a record of a call keeps when a new request is asked, or when the call ends.
LEMMA AskedHealth ==
  ASSUME NEW c \in Clients, NEW rec \in Calls, NEW pc
  PROVE  /\ Ask(c, rec, pc).pc = pc /\ ~Ask(c, rec, pc).logInRetried
         /\ Ask(c, rec, pc).calm = rec.calm /\ Ask(c, rec, pc).renewed = rec.renewed
         /\ Ask(c, rec, pc).outcome = rec.outcome
<1>1. PICK tries : tries = TriesOf(c, pc)
  OBVIOUS
<1>. QED  BY <1>1 DEF Ask, Calls

LEMMA EndedHealth ==
  ASSUME TypeOK, NEW c \in Clients, NEW o
  PROVE  /\ Ended(c, o).pc = "idle" /\ Ended(c, o).outcome = o /\ Ended(c, o).calm = call[c].calm
         /\ Failed(c).pc = "idle" /\ Failed(c).calm = FALSE
<1>1. PICK rec : rec = call[c] /\ rec.calm \in BOOLEAN
  BY CallTypes DEF Calls
<1>2. PICK ended : ended = Ended(c, o) /\ ended = [NoCall EXCEPT !.request = rec.request, !.number = rec.number,
                                                                 !.outcome = o, !.calm = rec.calm]
  BY <1>1 DEF Ended
<1>3. ended.pc = "idle" /\ ended.outcome = o /\ ended.calm = rec.calm
  BY <1>2 DEF NoCall
<1>4. PICK error : error = Ended(c, "error") /\ error = [NoCall EXCEPT !.request = rec.request, !.number = rec.number,
                                                                 !.outcome = "error", !.calm = rec.calm]
  BY <1>1 DEF Ended
<1>5. [error EXCEPT !.calm = FALSE].pc = "idle" /\ [error EXCEPT !.calm = FALSE].calm = FALSE
  BY <1>4 DEF NoCall
<1>. QED  BY <1>1, <1>2, <1>3, <1>4, <1>5 DEF Failed

\* As long as nothing disturbs a call, a session that was logged in again is live, and the second
\* renewal of the token, which comes with a new session, is the last one needed.
Healthy(rec, acc) ==
  /\ rec.outcome = "error" => ~rec.calm
  /\ rec.calm =>
       /\ rec.pc \in Asking /\ rec.logInRetried => acc.session = "live"
       /\ rec.pc = "login" /\ rec.back = "renew" => acc.token = "none"
       /\ rec.renewed >= 2 =>
            \/ rec.pc = "idle"
            \/ rec.pc = "login" /\ rec.back = "renew"
            \/ rec.pc # "login" /\ acc.session = "live"
                 /\ (rec.pc \in {"stop", "write"} => acc.token = "good")
CallIsHealthy(c) == Healthy(call[c], account[c])

\* A call that is disturbed, or that ends well, is healthy.
LEMMA DisturbedIsHealthy ==
  ASSUME NEW rec, NEW acc, rec.calm = FALSE \/ (rec.pc = "idle" /\ rec.outcome # "error")
  PROVE  Healthy(rec, acc)
BY DEF Healthy, Asking

LEMMA LowLevelErrorIsHealthy ==
  ASSUME TypeOK, NEW c \in Clients, LowLevelError(c)
  PROVE  CallIsHealthy(c)'
<1>1. PICK rec \in Calls : rec = call[c]
  BY CallTypes
<1>2. CASE call[c].tries > 1
  <2>1. PICK new : new = call'[c] /\ new = [rec EXCEPT !.tries = rec.tries - 1, !.calm = FALSE]
    BY <1>1, <1>2, SetCall DEF LowLevelError, Calls
  <2>2. new.calm = FALSE
    BY <2>1 DEF Calls
  <2>. QED  BY <2>1, <2>2, DisturbedIsHealthy DEF CallIsHealthy
<1>3. CASE ~(call[c].tries > 1)
  <2>1. call'[c] = Failed(c)
    BY <1>3, SetCall DEF LowLevelError
  <2>. QED  BY <2>1, EndedHealth, DisturbedIsHealthy DEF CallIsHealthy
<1>. QED  BY <1>2, <1>3

\* The steps of the others.
LEMMA OthersLeaveHealth ==
  ASSUME NEW c \in Clients, CallIsHealthy(c), call'[c] = call[c], account'[c] = account[c]
  PROVE  CallIsHealthy(c)'
BY DEF CallIsHealthy

LEMMA FaultKeepsHealth ==
  ASSUME TypeOK, NEW c \in Clients, CallIsHealthy(c), NEW d \in Clients, Fault(d)
  PROVE  CallIsHealthy(c)'
<1>1. PICK session : SpoilSession(d, session)
  BY DEF Fault
<1>2. account' = [account EXCEPT ![d].session = session, ![d].token = Stale(@)] /\ Disturb(d)
  BY <1>1 DEF SpoilSession
<1>3. account \in [Clients -> Accounts] /\ call \in [Clients -> Calls]
  BY DEF TypeOK
<1>4. CASE d # c
  <2>1. account'[c] = account[c] /\ call'[c] = call[c]
    BY <1>2, <1>3, <1>4 DEF Disturb, Set
  <2>. QED  BY <2>1, OthersLeaveHealth
<1>5. CASE d = c /\ call[c].pc = "idle"
  <2>1. call'[c] = call[c]
    BY <1>2, <1>5 DEF Disturb
  <2>. QED  BY <1>5, <2>1 DEF CallIsHealthy, Healthy, Asking
<1>6. CASE d = c /\ call[c].pc # "idle"
  <2>1. PICK rec \in Calls : rec = call[c] /\ call'[c] = [rec EXCEPT !.calm = FALSE]
    BY <1>2, <1>3, <1>6, SetCall DEF Disturb
  <2>2. call'[c].calm = FALSE
    BY <2>1 DEF Calls
  <2>. QED  BY <2>2, DisturbedIsHealthy DEF CallIsHealthy
<1>. QED  BY <1>4, <1>5, <1>6

LEMMA AnswerKeepsHealth ==
  ASSUME TypeOK, NEW c \in WithPassword, CallIsHealthy(c), TokenRenewals >= 2, Answered(c)
  PROVE  CallIsHealthy(c)'
<1>1. c \in Clients /\ call[c] \in Calls /\ account[c] \in Accounts /\ account \in [Clients -> Accounts]
  BY ClientsAreTyped, CallTypes DEF TypeOK
<1>2. PICK rec, acc : rec = call[c] /\ acc = account[c] /\ rec \in Calls /\ acc \in Accounts
  BY <1>1
<1>3. Healthy(rec, acc)
  BY <1>2 DEF CallIsHealthy
<1>4. TokenRenewals \in Nat /\ rec.renewed \in Nat /\ rec.calm \in BOOLEAN /\ rec.logInRetried \in BOOLEAN
  BY <1>2, BoundsArePositive DEF Calls
<1>5. CASE Unreachable(c) \/ AnswerLost(c)
  BY <1>1, <1>5, LowLevelErrorIsHealthy DEF Unreachable, AnswerLost
<1>6. CASE Refused(c)
  <2>1. call'[c] = Failed(c)
    BY <1>1, <1>6, SetCall DEF Refused
  <2>. QED  BY <1>1, <2>1, EndedHealth, DisturbedIsHealthy DEF CallIsHealthy
<1>7. ASSUME NEW o \in {"ok", "stopped", "conflict", "exists"}, Set(c, Ended(c, o))
      PROVE  CallIsHealthy(c)'
  <2>1. call'[c] = Ended(c, o)
    BY <1>1, <1>7, SetCall
  <2>2. Ended(c, o).pc = "idle" /\ Ended(c, o).outcome = o
    BY <1>1, EndedHealth
  <2>3. PICK new : new = call'[c] /\ new.pc = "idle" /\ new.outcome = o
    BY <2>1, <2>2
  <2>4. Healthy(new, account'[c])
    BY <1>7, <2>3, DisturbedIsHealthy
  <2>. QED  BY <2>3, <2>4 DEF CallIsHealthy
<1>8. CASE Success(c) \/ PageAlreadyExists(c)
  BY <1>7, <1>8 DEF Success, PageAlreadyExists
<1>9. CASE AssertUserFailed(c)
  <2>1. rec.pc \in Asking /\ acc.session \notin {"live", "sick"}
    BY <1>2, <1>9 DEF AssertUserFailed, Denied, LoggedIn
  <2>2. CASE rec.logInRetried
    <3>1. ~rec.calm
      BY <1>3, <1>4, <2>1, <2>2 DEF Healthy
    <3>2. call'[c] = Ended(c, "error")
      BY <1>1, <1>2, <1>9, <2>2, SetCall DEF AssertUserFailed
    <3>3. Ended(c, "error").calm = call[c].calm
      BY <1>1, EndedHealth
    <3>4. call'[c].calm = FALSE
      BY <1>2, <1>4, <3>1, <3>2, <3>3
    <3>. QED  BY <3>4, DisturbedIsHealthy DEF CallIsHealthy
  <2>3. CASE ~rec.logInRetried
    <3>1. PICK new : new = call'[c] /\ new = [rec EXCEPT !.pc = "login", !.back = rec.pc]
      BY <1>1, <1>2, <1>9, <2>3, SetCall DEF AssertUserFailed, BeginLogin
    <3>2. /\ new.pc = "login" /\ new.back = rec.pc /\ new.calm = rec.calm /\ new.renewed = rec.renewed
          /\ new.outcome = rec.outcome
      BY <1>2, <3>1 DEF Calls
    <3>3. rec.pc # "renew" /\ rec.pc # "login" /\ rec.pc # "idle"
      BY <2>1 DEF Asking
    <3>4. rec.calm => ~(rec.renewed >= 2)
      BY <1>3, <2>1, <3>3 DEF Healthy
    <3>5. Healthy(new, account'[c])
      BY <1>3, <3>2, <3>3, <3>4 DEF Healthy, Asking
    <3>. QED  BY <3>1, <3>5 DEF CallIsHealthy
  <2>. QED  BY <2>2, <2>3
<1>10. CASE LogInSucceeds(c)
  <2>1. /\ rec.pc = "login"
        /\ account'[c] = [session |-> "live", token |-> Stale(acc.token), named |-> TRUE]
    BY <1>1, <1>2, <1>10 DEF LogInSucceeds
  <2>2. PICK new : new = account'[c] /\ new.session = "live" /\ new.token = Stale(acc.token)
    BY <2>1
  <2>3. CASE rec.back = "renew"
    <3>1. call'[c] = Ask(c, rec, FirstRequest(c, acc.token))
      BY <1>1, <1>2, <1>10, <2>3, SetCall DEF LogInSucceeds
    <3>2. PICK asked : /\ asked = call'[c] /\ asked.pc = FirstRequest(c, acc.token) /\ ~asked.logInRetried
                       /\ asked.calm = rec.calm /\ asked.renewed = rec.renewed /\ asked.outcome = rec.outcome
      BY <1>1, <1>2, <3>1, AskedHealth
    <3>3. rec.calm => acc.token = "none"
      BY <1>3, <2>1, <2>3 DEF Healthy
    <3>4. rec.calm => asked.pc = "token"
      BY <3>2, <3>3 DEF FirstRequest
    <3>5. Healthy(asked, new)
      BY <1>3, <2>2, <3>2, <3>4 DEF Healthy, Asking
    <3>. QED  BY <2>2, <3>2, <3>5 DEF CallIsHealthy
  <2>4. CASE rec.back # "renew"
    <3>1. PICK next : next = call'[c] /\ next = [rec EXCEPT !.pc = rec.back, !.logInRetried = TRUE]
      BY <1>1, <1>2, <1>10, <2>4, SetCall DEF LogInSucceeds
    <3>2. /\ next.pc = rec.back /\ next.back = rec.back /\ next.calm = rec.calm /\ next.renewed = rec.renewed
          /\ next.outcome = rec.outcome
      BY <1>2, <3>1 DEF Calls
    <3>3. rec.calm => ~(rec.renewed >= 2)
      BY <1>3, <2>1, <2>4 DEF Healthy
    <3>4. Healthy(next, new)
      BY <1>3, <2>2, <2>4, <3>2, <3>3 DEF Healthy
    <3>. QED  BY <2>2, <3>1, <3>4 DEF CallIsHealthy
  <2>. QED  BY <2>3, <2>4
<1>11. CASE LogInFails(c)
  <2>1. CASE rec.back = "renew"
    <3>1. PICK calmless : calmless = [rec EXCEPT !.calm = FALSE]
      OBVIOUS
    <3>2. calmless \in Calls /\ calmless.calm = FALSE
      BY <1>2, <3>1 DEF Calls
    <3>3. call'[c] = Ask(c, calmless, FirstRequest(c, acc.token))
      BY <1>1, <1>2, <1>11, <2>1, <3>1, SetCall DEF LogInFails
    <3>4. Ask(c, calmless, FirstRequest(c, acc.token)).calm = calmless.calm
      BY <1>1, <3>2, AskedHealth
    <3>5. call'[c].calm = FALSE
      BY <3>2, <3>3, <3>4
    <3>. QED  BY <3>5, DisturbedIsHealthy DEF CallIsHealthy
  <2>2. CASE rec.back # "renew"
    <3>1. call'[c] = Failed(c)
      BY <1>1, <1>2, <1>11, <2>2, SetCall DEF LogInFails
    <3>. QED  BY <1>1, <3>1, EndedHealth, DisturbedIsHealthy DEF CallIsHealthy
  <2>. QED  BY <2>1, <2>2
<1>12. CASE ReadPage(c)
  <2>1. CASE NewText(c, page.text) = page.text
    BY <1>7, <1>12, <2>1 DEF ReadPage
  <2>2. CASE NewText(c, page.text) # page.text
    <3>1. PICK base, seen, text : /\ base = page.revisions /\ seen = page.text /\ text = NewText(c, page.text)
                                  /\ base \in Nat /\ seen \subseteq Lines /\ text \subseteq Lines
      BY <1>1, NewTextIsTyped DEF TypeOK
    <3>2. PICK new : new = [rec EXCEPT !.base = base, !.seen = seen, !.text = text, !.renewed = 0]
      OBVIOUS
    <3>3. 0 \in 0..TokenRenewals
      BY <1>4
    <3>4. new \in Calls
      BY <1>2, <3>1, <3>2, <3>3 DEF Calls
    <3>5. new.calm = rec.calm /\ new.outcome = rec.outcome /\ new.renewed = 0
      BY <1>2, <3>2 DEF Calls
    <3>6. call'[c] = Ask(c, new, FirstRequest(c, acc.token))
      BY <1>1, <1>2, <1>12, <2>2, <3>1, <3>2, SetCall DEF ReadPage
    <3>7. PICK asked : /\ asked = call'[c] /\ asked.pc = FirstRequest(c, acc.token) /\ ~asked.logInRetried
                       /\ asked.calm = new.calm /\ asked.renewed = new.renewed /\ asked.outcome = new.outcome
      BY <1>1, <3>4, <3>6, AskedHealth
    <3>8. asked.pc # "login"
      BY <3>7 DEF FirstRequest, AfterToken
    <3>9. Healthy(asked, account'[c])
      BY <1>3, <3>5, <3>7, <3>8 DEF Healthy
    <3>. QED  BY <3>7, <3>9 DEF CallIsHealthy
  <2>. QED  BY <2>1, <2>2
<1>13. CASE GetToken(c)
  <2>1. rec.pc = "token" /\ account' = [account EXCEPT ![c].token = TokenGiven(c)]
    BY <1>2, <1>13 DEF GetToken
  <2>2. PICK token : token = TokenGiven(c) /\ (acc.session = "live" => token = "good")
    BY <1>2 DEF TokenGiven
  <2>3. PICK new : new = account'[c] /\ new = [acc EXCEPT !.token = token]
    BY <1>1, <1>2, <2>1, <2>2
  <2>4. new.session = acc.session /\ new.token = token
    BY <1>2, <2>3 DEF Accounts
  <2>5. call'[c] = Ask(c, rec, AfterToken(c))
    BY <1>1, <1>2, <1>13, SetCall DEF GetToken
  <2>6. PICK asked : /\ asked = call'[c] /\ asked.pc \in {"stop", "write"} /\ ~asked.logInRetried
                     /\ asked.calm = rec.calm /\ asked.renewed = rec.renewed /\ asked.outcome = rec.outcome
    BY <1>1, <1>2, <2>5, AskedHealth DEF AfterToken
  <2>7. rec.calm /\ rec.renewed >= 2 => acc.session = "live"
    BY <1>3, <2>1 DEF Healthy
  <2>8. Healthy(asked, new)
    BY <1>3, <2>2, <2>4, <2>6, <2>7 DEF Healthy
  <2>. QED  BY <2>3, <2>6, <2>8 DEF CallIsHealthy
<1>14. CASE TestStop(c)
  <2>1. CASE stopped
    BY <1>7, <1>14, <2>1 DEF TestStop
  <2>2. CASE ~stopped
    <3>1. rec.pc = "stop" /\ call'[c] = Ask(c, rec, "write") /\ account'[c] = acc
      BY <1>1, <1>2, <1>14, <2>2, SetCall DEF TestStop
    <3>2. PICK asked : /\ asked = call'[c] /\ asked.pc = "write" /\ ~asked.logInRetried
                       /\ asked.calm = rec.calm /\ asked.renewed = rec.renewed /\ asked.outcome = rec.outcome
      BY <1>1, <1>2, <3>1, AskedHealth
    <3>3. Healthy(asked, acc)
      BY <1>3, <3>1, <3>2 DEF Healthy
    <3>. QED  BY <3>1, <3>2, <3>3 DEF CallIsHealthy
  <2>. QED  BY <2>1, <2>2
<1>15. CASE BadToken(c)
  <2>1. rec.pc = "write" /\ ~(acc.token = "good" /\ acc.session = "live")
    BY <1>2, <1>15 DEF BadToken, TokenAccepted
  <2>2. rec.calm => ~(rec.renewed >= 2)
    BY <1>3, <2>1 DEF Healthy
  <2>3. CASE RenewalsExhausted(c)
    <3>1. rec.renewed >= 2
      BY <1>2, <1>4, <2>3 DEF RenewalsExhausted
    <3>2. call'[c] = Ended(c, "error")
      BY <1>1, <1>15, <2>3, SetCall DEF BadToken
    <3>3. Ended(c, "error").calm = call[c].calm
      BY <1>1, EndedHealth
    <3>4. call'[c].calm = FALSE
      BY <1>2, <1>4, <2>2, <3>1, <3>2, <3>3
    <3>. QED  BY <3>4, DisturbedIsHealthy DEF CallIsHealthy
  <2>4. CASE ~RenewalsExhausted(c) /\ rec.renewed > 0
    <3>1. /\ account'[c] = [session |-> "none", token |-> "none", named |-> FALSE]
          /\ call'[c] = [rec EXCEPT !.pc = "login", !.back = "renew", !.renewed = RenewalsAfter(c)]
      BY <1>1, <1>2, <1>15, <2>4, SetCall DEF BadToken
    <3>2. PICK after, acc2, new : after = RenewalsAfter(c) /\ acc2 = account'[c] /\ new = call'[c]
      OBVIOUS
    <3>3. /\ new.pc = "login" /\ new.back = "renew" /\ new.calm = rec.calm /\ new.outcome = rec.outcome
      BY <1>2, <3>1, <3>2 DEF Calls
    <3>4. acc2.token = "none"
      BY <3>1, <3>2
    <3>5. Healthy(new, acc2)
      BY <1>3, <3>3, <3>4 DEF Healthy, Asking
    <3>. QED  BY <3>2, <3>5 DEF CallIsHealthy
  <2>5. CASE ~RenewalsExhausted(c) /\ ~(rec.renewed > 0)
    <3>1. PICK after : after = RenewalsAfter(c) /\ after = 1 /\ after \in 0..TokenRenewals
      BY <1>2, <1>4, <2>5 DEF RenewalsAfter
    <3>2. PICK new : new = [rec EXCEPT !.renewed = after]
      OBVIOUS
    <3>3. new \in Calls
      BY <1>2, <3>1, <3>2 DEF Calls
    <3>4. new.calm = rec.calm /\ new.outcome = rec.outcome /\ new.renewed = 1
      BY <1>2, <3>1, <3>2 DEF Calls
    <3>5. call'[c] = Ask(c, new, "token")
      BY <1>1, <1>2, <1>15, <2>5, <3>1, <3>2, SetCall DEF BadToken
    <3>6. PICK asked : /\ asked = call'[c] /\ asked.pc = "token" /\ ~asked.logInRetried
                       /\ asked.calm = new.calm /\ asked.renewed = new.renewed /\ asked.outcome = new.outcome
      BY <1>1, <3>3, <3>5, AskedHealth
    <3>7. Healthy(asked, account'[c])
      BY <1>3, <3>4, <3>6 DEF Healthy
    <3>. QED  BY <3>6, <3>7 DEF CallIsHealthy
  <2>. QED  BY <2>3, <2>4, <2>5
<1>16. CASE EditConflict(c)
  <2>1. CASE call[c].attemptsLeft <= 1
    BY <1>7, <1>16, <2>1 DEF EditConflict
  <2>2. CASE ~(call[c].attemptsLeft <= 1)
    <3>1. rec.pc = "write" /\ account'[c] = acc
      BY <1>2, <1>16 DEF EditConflict, Sent
    <3>2. PICK left : left = rec.attemptsLeft - 1 /\ left \in 0..EditAttempts
      BY <1>2, <2>2, BoundsArePositive DEF Calls
    <3>3. PICK new : new = [rec EXCEPT !.attemptsLeft = left]
      OBVIOUS
    <3>4. new \in Calls
      BY <1>2, <3>2, <3>3 DEF Calls
    <3>5. new.calm = rec.calm /\ new.outcome = rec.outcome /\ new.renewed = rec.renewed
      BY <1>2, <3>3 DEF Calls
    <3>6. call'[c] = Ask(c, new, "read")
      BY <1>1, <1>2, <1>16, <2>2, <3>2, <3>3, SetCall DEF EditConflict
    <3>7. PICK asked : /\ asked = call'[c] /\ asked.pc = "read" /\ ~asked.logInRetried
                       /\ asked.calm = new.calm /\ asked.renewed = new.renewed /\ asked.outcome = new.outcome
      BY <1>1, <3>4, <3>6, AskedHealth
    <3>8. Healthy(asked, acc)
      BY <1>3, <3>1, <3>5, <3>7 DEF Healthy
    <3>. QED  BY <3>1, <3>7, <3>8 DEF CallIsHealthy
  <2>. QED  BY <2>1, <2>2
<1>. QED  BY <1>5, <1>6, <1>8, <1>9, <1>10, <1>11, <1>12, <1>13, <1>14, <1>15, <1>16 DEF Answered

LEMMA StartIsHealthy ==
  ASSUME TypeOK, NEW c \in Clients, NEW request \in Requests, StartCall(c, request)
  PROVE  CallIsHealthy(c)'
<1>. DEFINE Fresh(rec) == /\ rec.renewed = 0 /\ rec.logInRetried = FALSE /\ rec.outcome = "none"
                          /\ rec.pc # "login"
<1>1. PICK number, attempts : number = call[c].number + 1
        /\ attempts = IF request.function = "editPage" THEN EditAttempts ELSE 1
  OBVIOUS
<1>2. PICK fresh : fresh = [NoCall EXCEPT !.request = request, !.number = number, !.attemptsLeft = attempts,
                                          !.tries = Attempts]
  OBVIOUS
<1>3. CASE request.function # "appendToPage"
  <2>1. call'[c] = [fresh EXCEPT !.pc = "read"]
    BY <1>1, <1>2, <1>3, SetCall DEF StartCall
  <2>2. Fresh(call'[c])
    BY <1>2, <2>1 DEF NoCall
  <2>. QED  BY <2>2 DEF CallIsHealthy, Healthy
<1>4. CASE request.function = "appendToPage"
  <2>1. PICK pc, tries : pc = FirstRequest(c, account[c].token) /\ tries = IF pc = "write" THEN 1 ELSE Attempts
    OBVIOUS
  <2>2. call'[c] = [fresh EXCEPT !.pc = pc, !.tries = tries]
    BY <1>1, <1>2, <1>4, <2>1, SetCall DEF StartCall
  <2>3. pc # "login"
    BY <2>1 DEF FirstRequest, AfterToken
  <2>4. Fresh(call'[c])
    BY <1>2, <2>2, <2>3 DEF NoCall
  <2>. QED  BY <2>4 DEF CallIsHealthy, Healthy
<1>. QED  BY <1>3, <1>4

\* The actions of one client leave the records of the others.
LEMMA ClientsActAlone ==
  ASSUME TypeOK, NEW c \in Clients, NEW d \in Clients, c # d,
         Answered(d) \/ \E request \in Requests : StartCall(d, request)
  PROVE  call'[c] = call[c] /\ account'[c] = account[c]
<1>1. call'[c] = call[c]
  BY SetCall DEF Answered, StartCall, Unreachable, AssertUserFailed, BeginLogin, LogInSucceeds, LogInFails,
     ReadPage, GetToken, TestStop, BadToken, EditConflict, PageAlreadyExists, Refused, Success, AnswerLost,
     LowLevelError
<1>2. account'[c] = account[c]
  BY DEF TypeOK, Answered, StartCall, Unreachable, AssertUserFailed, BeginLogin, LogInSucceeds, LogInFails,
     ReadPage, GetToken, TestStop, BadToken, EditConflict, PageAlreadyExists, Refused, Success, AnswerLost
<1>. QED  BY <1>1, <1>2

\* A call of a client with a password fails only when a request was not answered or refused, a login
\* failed or the session was spoiled meanwhile: two renewals of the token are enough, whatever
\* earlier calls and faults left in the Wiki object (wiki_base.cpp and request.cpp).
THEOREM CallsAreNotHauntedByThePast == TokenRenewals >= 2 => (Spec => []HealthyCallsSucceed)
<1>. SUFFICES ASSUME TokenRenewals >= 2  PROVE Spec => []HealthyCallsSucceed
  OBVIOUS
<1>. DEFINE AllHealthy == \A c \in WithPassword : CallIsHealthy(c)
<1>1. Init => AllHealthy
  BY ClientsAreTyped DEF Init, CallIsHealthy, Healthy, NoCall, Asking
<1>2. ASSUME TypeOK, AllHealthy, [Next]_vars
      PROVE  AllHealthy'
  <2>. SUFFICES ASSUME NEW c \in WithPassword  PROVE CallIsHealthy(c)'
    OBVIOUS
  <2>1. c \in Clients /\ CallIsHealthy(c)
    BY <1>2, ClientsAreTyped
  <2>2. CASE UNCHANGED <<account, call>>
    BY <2>1, <2>2, OthersLeaveHealth
  <2>3. ASSUME NEW d \in Clients, Fault(d)  PROVE CallIsHealthy(c)'
    BY <1>2, <2>1, <2>3, FaultKeepsHealth
  <2>4. CASE WikiStep
    BY <2>2, <2>3, <2>4 DEF WikiStep, AddLine, Undo, HumanEdit, TriggerStop
  <2>5. ASSUME NEW d \in Clients, Answered(d)  PROVE CallIsHealthy(c)'
    <3>1. CASE d = c
      BY <1>2, <2>1, <2>5, <3>1, AnswerKeepsHealth
    <3>2. CASE d # c
      BY <1>2, <2>1, <2>5, <3>2, ClientsActAlone, OthersLeaveHealth
    <3>. QED  BY <3>1, <3>2
  <2>6. ASSUME NEW d \in Clients, NEW request \in Requests, StartCall(d, request)  PROVE CallIsHealthy(c)'
    <3>1. CASE d = c
      BY <1>2, <2>1, <2>6, <3>1, StartIsHealthy
    <3>2. CASE d # c
      BY <1>2, <2>1, <2>6, <3>2, ClientsActAlone, OthersLeaveHealth
    <3>. QED  BY <3>1, <3>2
  <2>7. ASSUME NEW d \in Clients, Lagged(d)  PROVE CallIsHealthy(c)'
    BY <2>2, <2>7 DEF Lagged
  <2>. QED  BY <1>2, <2>2, <2>4, <2>5, <2>6, <2>7 DEF Next, vars
<1>3. AllHealthy => HealthyCallsSucceed
  BY DEF CallIsHealthy, Healthy, HealthyCallsSucceed
<1>. HIDE DEF AllHealthy
<1>. QED  BY <1>1, <1>2, <1>3, TypeCorrect, PTL DEF Spec

------------------------------------------------------------------------------
(* The refinement. *)

\* What a step does to the page and to the history.
EffectOf(c) ==
  /\ page.text \ page'.text \subseteq call[c].seen
  /\ \A l \in page'.text \ page.text : l[1] = c /\ l[2] = call[c].number
  /\ made' = IF page'.text \subseteq page.text THEN made ELSE made \cup {<<c, call[c].number>>}

LEMMA NoEffect ==
  ASSUME NEW c \in Clients, UNCHANGED <<page, made>>
  PROVE  EffectOf(c)
BY DEF EffectOf

LEMMA StoreEffect ==
  ASSUME Inductive, NEW c \in Clients, Sent(c), ~PageExists(c), Store(c)
  PROVE  /\ EffectOf(c)
         /\ call[c].request.change # "cut" => <<c, call[c].number>> \in made'
<1>1. PageIsSound /\ page'.text = Saved(c)
  BY DEF Inductive, Store, PageIsSound
<1>2. EffectOf(c)
  BY <1>1, SavedIsMine DEF EffectOf, Store
<1>3. ASSUME call[c].request.change # "cut"
      PROVE  <<c, call[c].number>> \in made'
  <2>1. PICK l \in Saved(c) : l[1] = c /\ l[2] = call[c].number
    BY <1>3, SavedIsMine
  <2>2. CASE l \in page.text
    <3>1. <<l[1], l[2]>> \in made
      BY <1>1, <2>1, <2>2 DEF PageIsSound
    <3>. QED  BY <2>1, <3>1 DEF Store
  <2>3. CASE l \notin page.text
    BY <2>1, <2>3 DEF Store
  <2>. QED  BY <2>2, <2>3
<1>. QED  BY <1>2, <1>3

\* The parts of the mapped state.
LEMMA MappedSame ==
  ASSUME NEW c \in Clients, OthersWait(c)
  PROVE  /\ call'[c].number = call[c].number =>
              [d \in Clients |-> call[d].number]' = [d \in Clients |-> call[d].number]
         /\ call'[c].request = call[c].request =>
              [d \in Clients |-> call[d].request.change # "cut"]'
              = [d \in Clients |-> call[d].request.change # "cut"]
         /\ call'[c].seen = call[c].seen =>
              [d \in Clients |-> call[d].seen]' = [d \in Clients |-> call[d].seen]
         /\ (call'[c].pc = "idle") = (call[c].pc = "idle") =>
              [d \in Clients |-> call[d].pc # "idle"]' = [d \in Clients |-> call[d].pc # "idle"]
         /\ (call'[c].outcome = "ok") = (call[c].outcome = "ok") =>
              [d \in Clients |-> call[d].outcome = "ok"]' = [d \in Clients |-> call[d].outcome = "ok"]
BY DEF OthersWait

LEMMA MappedEnd ==
  ASSUME NEW c \in Clients, NEW o, call[c].pc # "idle",
         Returns(c, o), OthersWait(c), EffectOf(c),
         o = "ok" /\ call[c].request.change # "cut" => <<c, call[c].number>> \in made'
  PROVE  Writes!Next
<1>1. Writes!Effect(c)
  BY DEF EffectOf, Writes!Effect, Writes!OwnLine
<1>2. Writes!End(c, o = "ok")
  BY <1>1 DEF Writes!End, Returns, OthersWait
<1>. QED  BY <1>2 DEF Writes!Next

LEMMA MappedChange ==
  ASSUME NEW c \in Clients, call[c].pc # "idle", GoesOn(c), OthersWait(c), EffectOf(c)
  PROVE  Writes!Next
<1>1. Writes!Effect(c)
  BY DEF EffectOf, Writes!Effect, Writes!OwnLine
<1>2. Writes!Change(c)
  BY <1>1, MappedSame DEF Writes!Change, GoesOn, Remembers
<1>. QED  BY <1>2 DEF Writes!Next

LEMMA MappedRead ==
  ASSUME Inductive, NEW c \in Clients, ReadPage(c)
  PROVE  Writes!Next
<1>1. /\ TypeOK /\ NameIsSet /\ PageIsSound /\ UNCHANGED <<page, made>>
      /\ call[c].pc = "read"
  BY DEF Inductive, ReadPage, wikiVars
<1>2. CASE NewText(c, page.text) = page.text
  <2>1. Returns(c, "ok") /\ OthersWait(c)
    BY <1>1, <1>2, ReadPageShape
  <2>2. ASSUME call[c].request.change # "cut"
        PROVE  <<c, call[c].number>> \in made'
    <3>. DEFINE line == <<c, call[c].number, Attempt(c)>>
    <3>1. call[c].request.change \in {"add", "addUnlessThere"}
      BY <1>1, <2>2, RequestTypes
    <3>2. line \in page.text \/ LinesOf(c, call[c].number, page.text) # {}
      BY <1>2, <3>1 DEF NewText
    <3>3. line[1] = c /\ line[2] = call[c].number
      OBVIOUS
    <3>. HIDE DEF line
    <3>4. PICK l \in page.text : l[1] = c /\ l[2] = call[c].number
      BY <3>2, <3>3 DEF LinesOf
    <3>. QED  BY <1>1, <3>4 DEF PageIsSound
  <2>. QED  BY <1>1, <2>1, <2>2, NoEffect, MappedEnd
<1>3. CASE NewText(c, page.text) # page.text
  <2>1. /\ OthersWait(c) /\ call'[c].pc # "idle" /\ call'[c].seen = page.text
        /\ call'[c].request = call[c].request /\ call'[c].number = call[c].number
        /\ call'[c].outcome = call[c].outcome
    BY <1>1, <1>3, ReadPageShape DEF Asking
  <2>2. [d \in Clients |-> call[d].seen]' = [[d \in Clients |-> call[d].seen] EXCEPT ![c] = page.text]
    BY <2>1 DEF OthersWait
  <2>3. Writes!Read(c)
    BY <1>1, <2>1, <2>2, MappedSame DEF Writes!Read
  <2>. QED  BY <2>3 DEF Writes!Next
<1>. QED  BY <1>2, <1>3

LEMMA MappedConflict ==
  ASSUME Inductive, NEW c \in Clients, EditConflict(c)
  PROVE  [Writes!Next]_Writes!vars
<1>1. TypeOK /\ NameIsSet /\ UNCHANGED <<page, made>> /\ call[c].pc # "idle"
  BY DEF Inductive, EditConflict, Sent, wikiVars
<1>2. OthersWait(c)
  BY <1>1, EditConflictShape
<1>3. CASE Returns(c, "conflict")
  BY <1>1, <1>2, <1>3, NoEffect, MappedEnd
<1>4. CASE ~Returns(c, "conflict")
  <2>1. /\ call'[c].pc = "read" /\ call'[c].seen = call[c].seen
        /\ call'[c].outcome = call[c].outcome
        /\ call'[c].request = call[c].request /\ call'[c].number = call[c].number
    BY <1>1, <1>4, EditConflictShape
  <2>. QED  BY <1>1, <1>2, <2>1 DEF Writes!vars, OthersWait
<1>. QED  BY <1>3, <1>4

LEMMA MappedAnswer ==
  ASSUME Inductive, NEW c \in Clients, Answered(c)
  PROVE  [Writes!Next]_Writes!vars
<1>1. TypeOK /\ NameIsSet
  BY DEF Inductive
<1>2. CASE Success(c) \/ AnswerLost(c)
  <2>1. Sent(c) /\ ~PageExists(c) /\ Store(c) /\ call[c].pc # "idle"
    BY <1>2 DEF Success, AnswerLost, Sent
  <2>2. /\ OthersWait(c)
        /\ GoesOn(c) \/ \E o \in Outcomes : Returns(c, o)
    BY <1>1, <1>2, SuccessShape, AnswerLostShape DEF Outcomes
  <2>. QED  BY <2>1, <2>2, StoreEffect, MappedEnd, MappedChange
<1>3. CASE ReadPage(c)
  BY <1>3, MappedRead
<1>4. CASE EditConflict(c)
  BY <1>4, MappedConflict
<1>5. CASE ~(Success(c) \/ AnswerLost(c) \/ ReadPage(c) \/ EditConflict(c))
  <2>1. UNCHANGED <<page, made>> /\ call[c].pc # "idle"
    BY <1>5 DEF Answered, Unreachable, AssertUserFailed, LogInSucceeds, LogInFails,
         GetToken, TestStop, BadToken, PageAlreadyExists, Refused, Sent, Asking, wikiVars
  <2>2. /\ OthersWait(c)
        /\ GoesOn(c) \/ \E o \in {"error", "stopped", "exists"} : Returns(c, o)
    BY <1>1, <1>5, UnreachableShape, AssertUserFailedShape, LogInSucceedsShape, LogInFailsShape,
       GetTokenShape, TestStopShape, BadTokenShape, PageAlreadyExistsShape, RefusedShape
       DEF Answered
  <2>. QED  BY <2>1, <2>2, NoEffect, MappedEnd, MappedChange
<1>. QED  BY <1>2, <1>3, <1>4, <1>5

LEMMA MappedStart ==
  ASSUME Inductive, NEW c \in Clients, NEW request \in Requests, StartCall(c, request)
  PROVE  Writes!Next
<1>1. /\ TypeOK /\ UNCHANGED <<page, made>> /\ call[c].pc = "idle" /\ call[c].seen = {}
  BY DEF Inductive, TextIsSound, StartCall, wikiVars
<1>2. /\ OthersWait(c) /\ call'[c].number = call[c].number + 1 /\ call'[c].pc # "idle"
      /\ call'[c].seen = {} /\ call'[c].outcome = "none"
  BY <1>1, StartCallTypes DEF OthersWait, Asking
<1>3. [d \in Clients |-> call'[d].request.change # "cut"]
      = [[d \in Clients |-> call[d].request.change # "cut"]
           EXCEPT ![c] = (call'[c].request.change # "cut")]
  BY <1>2 DEF OthersWait
<1>4. /\ [d \in Clients |-> call[d].number]'
         = [[d \in Clients |-> call[d].number] EXCEPT ![c] = @ + 1]
      /\ [d \in Clients |-> call[d].pc # "idle"]'
         = [[d \in Clients |-> call[d].pc # "idle"] EXCEPT ![c] = TRUE]
      /\ [d \in Clients |-> call[d].outcome = "ok"]'
         = [[d \in Clients |-> call[d].outcome = "ok"] EXCEPT ![c] = FALSE]
  BY <1>2 DEF OthersWait
<1>5. [d \in Clients |-> call[d].request.change # "cut"]'
      \in {[[d \in Clients |-> call[d].request.change # "cut"] EXCEPT ![c] = add] : add \in BOOLEAN}
  BY <1>3
<1>6. ~[d \in Clients |-> call[d].pc # "idle"][c]
  BY <1>1
<1>7. [d \in Clients |-> call[d].seen]' = [d \in Clients |-> call[d].seen]
  BY <1>1, <1>2, MappedSame
<1>8. Writes!Begin(c)
  BY <1>1, <1>4, <1>5, <1>6, <1>7 DEF Writes!Begin
<1>. QED  BY <1>8 DEF Writes!Next

LEMMA MappedWikiStep ==
  ASSUME Inductive, WikiStep
  PROVE  Writes!Next
<1>1. \A d \in Clients : Waits(d)
  BY WikiLeavesCalls DEF Inductive
<1>2. made' = made /\ \A l \in page'.text \ page.text : l[1] \notin Clients
  BY WikiKeepsOthersLines DEF Inductive
<1>3. Writes!Others
  BY <1>1, <1>2 DEF Writes!Others, Waits
<1>. QED  BY <1>3 DEF Writes!Next

\* A bot may rely on PageWrites: its calls add only their line, remove only what they read, and success
\* means that the line was put on the page (wiki_write_api.cpp:164).
THEOREM ImplementsPageWrites == Spec => PageSpec
<1>1. ASSUME Init
      PROVE  Writes!Init
  <2>1. /\ NoCall.number = 0 /\ NoCall.pc = "idle" /\ NoCall.seen = {} /\ NoCall.outcome = "none"
        /\ page.text = {} /\ made = {} /\ call = [c \in Clients |-> NoCall]
    BY <1>1 DEF Init, NoCall
  <2>2. /\ [c \in Clients |-> call[c].number] = [c \in Clients |-> 0]
        /\ [c \in Clients |-> call[c].pc # "idle"] = [c \in Clients |-> FALSE]
        /\ [c \in Clients |-> call[c].seen] = [c \in Clients |-> {}]
        /\ [c \in Clients |-> call[c].outcome = "ok"] = [c \in Clients |-> FALSE]
    BY <2>1
  <2>3. [c \in Clients |-> call[c].request.change # "cut"] \in [Clients -> BOOLEAN]
    OBVIOUS
  <2>. QED  BY <2>1, <2>2, <2>3 DEF Writes!Init
<1>2. ASSUME Inductive, [Next]_vars
      PROVE  [Writes!Next]_Writes!vars
  <2>1. CASE UNCHANGED <<page, call, made>>
    BY <2>1 DEF Writes!vars
  <2>. QED  BY <1>2, <2>1, MappedWikiStep, MappedStart, MappedAnswer
            DEF Next, Lagged, vars, wikiVars
<1>. QED  BY <1>1, <1>2, InvariantHolds, PTL DEF Spec, PageSpec, Writes!Spec

------------------------------------------------------------------------------
(* Reads of lists (ListReads). *)

\* The answers to a query come in an order.
QueriesOfLists ==
  [limit : Limits \cup {All}, newestFirst : BOOLEAN, start : ItemDates \cup {NoDate}, end : ItemDates \cup {NoDate},
   continues : BOOLEAN, sized : BOOLEAN]
ItemKeys == 1 .. MaxKey

LEMMA OrderOfItems ==
  ASSUME NEW q \in QueriesOfLists
  PROVE  /\ \A j \in ItemKeys : ~Later(q, j, j)
         /\ \A j, k \in ItemKeys : j = k \/ Later(q, j, k) \/ Later(q, k, j)
         /\ \A j, k, l \in ItemKeys : Later(q, j, k) /\ ~Later(q, j, l) => Later(q, l, k)
         /\ \A j, k, l \in ItemKeys : ~Later(q, j, k) /\ Later(q, l, k) => Later(q, l, j)
<1>1. q.newestFirst \in BOOLEAN
  BY DEF QueriesOfLists
<1>2. \A k \in ItemKeys : k \in Int
  BY ListAssumption DEF ItemKeys
<1>3. ASSUME NEW j \in Int, NEW k \in Int, NEW l \in Int
      PROVE  /\ ~Later(q, j, j) /\ (j = k \/ Later(q, j, k) \/ Later(q, k, j))
             /\ Later(q, j, k) /\ ~Later(q, j, l) => Later(q, l, k)
             /\ ~Later(q, j, k) /\ Later(q, l, k) => Later(q, l, j)
  <2>1. CASE q.newestFirst
    <3>1. ~Later(q, j, j)
      BY <2>1 DEF Later
    <3>2. j = k \/ Later(q, j, k) \/ Later(q, k, j)
      BY <2>1 DEF Later
    <3>3. ASSUME Later(q, j, k), ~Later(q, j, l)  PROVE Later(q, l, k)
      BY <2>1, <3>3 DEF Later
    <3>4. ASSUME ~Later(q, j, k), Later(q, l, k)  PROVE Later(q, l, j)
      BY <2>1, <3>4 DEF Later
    <3> QED BY <3>1, <3>2, <3>3, <3>4, Zenon
  <2>2. CASE ~q.newestFirst
    <3>1. ~Later(q, j, j)
      BY <2>2 DEF Later
    <3>2. j = k \/ Later(q, j, k) \/ Later(q, k, j)
      BY <2>2 DEF Later
    <3>3. ASSUME Later(q, j, k), ~Later(q, j, l)  PROVE Later(q, l, k)
      BY <2>2, <3>3 DEF Later
    <3>4. ASSUME ~Later(q, j, k), Later(q, l, k)  PROVE Later(q, l, j)
      BY <2>2, <3>4 DEF Later
    <3> QED BY <3>1, <3>2, <3>3, <3>4, Zenon
  <2> QED BY <1>1, <2>1, <2>2
<1> QED BY <1>2, <1>3

\* The first item of those that are left.
LEMMA FirstItem ==
  ASSUME pager.query \in QueriesOfLists, NEW keys, keys \subseteq ItemKeys, keys # {}
  PROVE  FirstIn(keys) \in keys /\ \A other \in keys : ~Later(pager.query, FirstIn(keys), other)
<1> DEFINE q == pager.query
<1>1. q.newestFirst \in BOOLEAN
  BY DEF QueriesOfLists
<1>2. keys \subseteq Nat /\ keys \subseteq Int /\ MaxKey \in Int /\ \A k \in keys : k <= MaxKey
  BY ListAssumption DEF ItemKeys
<1>3. \E k \in keys : \A other \in keys : ~Later(q, k, other)
  <2>1. CASE q.newestFirst
    <3>1. PICK k \in keys : \A other \in keys : other <= k
      BY <1>2, GreatestInteger
    <3> QED BY <1>2, <2>1, <3>1 DEF Later
  <2>2. CASE ~q.newestFirst
    <3>1. PICK k \in keys : \A other \in keys : k <= other
      BY <1>2, LeastNatural
    <3> QED BY <1>2, <2>2, <3>1 DEF Later
  <2> QED BY <1>1, <2>1, <2>2
<1> QED BY <1>3, Zenon DEF FirstIn

\* Every function asks a query of the list.
LEMMA QueriesAreTyped ==
  ASSUME NEW ask \in Questions, NEW query \in Queries(ask)
  PROVE  query \in QueriesOfLists
<1>1. ask \in QueriesOfLists
  BY DEF Questions, QueriesOfLists
<1>2. ASSUME NEW q \in QueriesOfLists
      PROVE  /\ Once(q) \in QueriesOfLists /\ Undated(q) \in QueriesOfLists
             /\ [q EXCEPT !.limit = All] \in QueriesOfLists /\ [q EXCEPT !.newestFirst = FALSE] \in QueriesOfLists
             /\ [q EXCEPT !.sized = TRUE] \in QueriesOfLists
  BY DEF QueriesOfLists, Once, Undated
<1>3. Once(ask) \in QueriesOfLists /\ Once(Undated(ask)) \in QueriesOfLists
  BY <1>1, <1>2
<1>4. /\ [Once(Undated(ask)) EXCEPT !.limit = All] \in QueriesOfLists
      /\ [Once(Undated(ask)) EXCEPT !.sized = TRUE] \in QueriesOfLists
      /\ [Once(ask) EXCEPT !.newestFirst = FALSE] \in QueriesOfLists
      /\ [Once([ask EXCEPT !.limit = All]) EXCEPT !.newestFirst = FALSE] \in QueriesOfLists
  BY <1>1, <1>2, <1>3
<1> QED BY <1>1, <1>3, <1>4 DEF Queries, GetRecentChanges, GetUserContribs, GetHistory, GetLogEvents, CategoryByDate,
                                CategoryByName, GetBacklinks, GetTransclusions, GetUsersInGroup, GetAllPages,
                                GetPagesByPrefix, SearchText, GetExtURLUsage

---------------------------------------------------------------------------
(* The inductive invariant. *)

PagerTypeOK ==
  /\ items \subseteq ItemKeys /\ stayed \subseteq items
  /\ pager = [status |-> pager.status, left |-> pager.left, next |-> pager.next, sent |-> pager.sent,
              sizeAsked |-> pager.sizeAsked, got |-> pager.got, empty |-> pager.empty, query |-> pager.query]
  /\ pager.status \in {"idle", "asking", "returned", "failed"}
  /\ pager.next \in ItemKeys \cup {AtStart, AtEnd}
  /\ pager.got \in Seq(ItemKeys) /\ pager.empty \in BOOLEAN /\ pager.query \in QueriesOfLists

\* What the caller has is in order and before what comes next.
InOrderUpTo(query, got, next) ==
  /\ \A j \in 1 .. Len(got) : /\ Selects(query, got[j])
                              /\ \A k \in 1 .. j - 1 : Later(query, got[j], got[k])
                              /\ next \in ItemKeys => Later(query, next, got[j])
  /\ next = AtStart => got = <<>>

\* Nothing that stayed was skipped.
NoneSkipped(query, got, next) ==
  \A k \in stayed : Selects(query, k) =>
    \/ k \in ToSet(got)
    \/ next = AtStart
    \/ (next \in ItemKeys /\ ~Later(query, next, k))

\* No request of this call was about what comes next, unless the last answer was empty.
SentIsBehind(query, sent, next, empty) ==
  \A r \in sent : \/ next = AtEnd
                  \/ (next \in ItemKeys /\ r[2] = AtStart)
                  \/ /\ next \in ItemKeys /\ r[2] \in ItemKeys /\ ~Later(query, r[2], next)
                     /\ ~empty => Later(query, next, r[2])

StatusIsRight ==
  /\ pager.status = "idle" => pager.next = AtStart
  /\ pager.status = "asking" => pager.next # AtEnd /\ (pager.query.limit = All => pager.left = All)
  /\ pager.status = "returned" /\ pager.next # AtEnd => pager.query.limit # All
  /\ pager.status = "failed" => pager.empty

ListIsGoingOn ==
  /\ PagerTypeOK
  /\ InOrderUpTo(pager.query, pager.got, pager.next)
  /\ NoneSkipped(pager.query, pager.got, pager.next)
  /\ SentIsBehind(pager.query, pager.sent, pager.next, pager.empty)
  /\ StatusIsRight

\* A call that starts asks nothing else about what was read already.
LEMMA StartingIsSound ==
  ASSUME ListIsGoingOn, StartList
  PROVE  ListIsGoingOn'
<1>0. /\ PagerTypeOK /\ StatusIsRight
      /\ InOrderUpTo(pager.query, pager.got, pager.next)
      /\ NoneSkipped(pager.query, pager.got, pager.next)
  BY DEF ListIsGoingOn
<1>a. PICK ask \in Questions : \E query \in Queries(ask) :
        /\ pager.status = "returned" => query = [pager.query EXCEPT !.limit = query.limit]
        /\ pager' = [pager EXCEPT !.status = IF query.limit = 0 THEN "returned" ELSE "asking",
                                  !.query = query, !.left = query.limit, !.sent = {}, !.sizeAsked = query.sized]
  BY DEF StartList
<1>1. PICK query \in Queries(ask) :
        /\ pager.status = "returned" => query = [pager.query EXCEPT !.limit = query.limit]
        /\ pager' = [pager EXCEPT !.status = IF query.limit = 0 THEN "returned" ELSE "asking",
                                  !.query = query, !.left = query.limit, !.sent = {}, !.sizeAsked = query.sized]
  BY <1>a
<1>2. pager.status = "idle" \/ (pager.status = "returned" /\ pager.next # AtEnd) 
  BY DEF StartList
<1>3. items' = items /\ stayed' = stayed
  BY DEF StartList
<1>4. query \in QueriesOfLists
  BY QueriesAreTyped
<1>5. /\ pager'.status = (IF query.limit = 0 THEN "returned" ELSE "asking") /\ pager'.query = query
      /\ pager'.left = query.limit /\ pager'.sent = {} /\ pager'.next = pager.next /\ pager'.got = pager.got
      /\ pager'.empty = pager.empty
      /\ pager' = [status |-> pager'.status, left |-> pager'.left, next |-> pager'.next, sent |-> pager'.sent,
                   sizeAsked |-> pager'.sizeAsked, got |-> pager'.got, empty |-> pager'.empty, query |-> pager'.query]
  BY <1>0, <1>1 DEF PagerTypeOK
<1>6. PagerTypeOK'
  BY <1>0, <1>3, <1>4, <1>5 DEF PagerTypeOK
<1>7. InOrderUpTo(query, pager.got, pager.next) /\ NoneSkipped(query, pager.got, pager.next)
  <2>1. CASE pager.next = AtStart
    <3>1. pager.got = <<>> /\ AtStart \notin ItemKeys
      BY <1>0, <2>1 DEF InOrderUpTo, AtStart, ItemKeys
    <3> QED BY <2>1, <3>1 DEF InOrderUpTo, NoneSkipped
  <2>2. CASE pager.next # AtStart
    <3>1. query = [pager.query EXCEPT !.limit = query.limit]
      BY <1>0, <1>1, <1>2, <2>2 DEF StatusIsRight
    <3>2. query.newestFirst = pager.query.newestFirst /\ query.start = pager.query.start /\ query.end = pager.query.end
      BY <1>0, <3>1 DEF PagerTypeOK, QueriesOfLists
    <3>3. \A j, k : Later(query, j, k) <=> Later(pager.query, j, k)
      BY <3>2 DEF Later
    <3>4. \A k : Selects(query, k) <=> Selects(pager.query, k)
      BY <3>2, <3>3 DEF Selects
    <3> QED BY <1>0, <3>3, <3>4 DEF InOrderUpTo, NoneSkipped
  <2> QED BY <2>1, <2>2
<1>8. (InOrderUpTo(pager.query, pager.got, pager.next))' /\ (NoneSkipped(pager.query, pager.got, pager.next))'
  BY <1>3, <1>5, <1>7 DEF InOrderUpTo, NoneSkipped
<1>9. (SentIsBehind(pager.query, pager.sent, pager.next, pager.empty))'
  BY <1>5 DEF SentIsBehind
<1>10. StatusIsRight'
  BY <1>0, <1>2, <1>5 DEF StatusIsRight, All, AtStart, AtEnd
<1> QED BY <1>6, <1>8, <1>9, <1>10 DEF ListIsGoingOn

\* What comes next after an answer.
LEMMA NextIsAhead ==
  ASSUME PagerTypeOK, NEW answer
  PROVE  \/ NextAfter(answer) = AtEnd /\ Ahead \subseteq ToSet(answer)
         \/ /\ NextAfter(answer) \in Ahead \ ToSet(answer) /\ NextAfter(answer) \in ItemKeys
            /\ \A other \in Ahead \ ToSet(answer) : ~Later(pager.query, NextAfter(answer), other)
<1>1. Ahead \subseteq ItemKeys
  BY DEF Ahead, PagerTypeOK
<1>2. CASE Ahead \subseteq ToSet(answer)
  BY <1>2 DEF NextAfter
<1>3. CASE ~(Ahead \subseteq ToSet(answer))
  <2> DEFINE keys == Ahead \ ToSet(answer)
  <2>1. keys \subseteq ItemKeys /\ keys # {}
    BY <1>1, <1>3
  <2>2. NextAfter(answer) = FirstIn(keys)
    BY <1>3 DEF NextAfter
  <2> HIDE DEF keys
  <2>3. FirstIn(keys) \in keys /\ \A other \in keys : ~Later(pager.query, FirstIn(keys), other)
    BY <2>1, FirstItem DEF PagerTypeOK
  <2>4. NextAfter(answer) \in keys /\ \A other \in keys : ~Later(pager.query, NextAfter(answer), other)
    BY <2>2, <2>3
  <2> QED BY <1>1, <2>4 DEF keys
<1> QED BY <1>2, <1>3

\* An answer goes on from where the one before it stopped.
LEMMA AnsweringIsSound ==
  ASSUME ListIsGoingOn, AnswerList
  PROVE  ListIsGoingOn'
<1>0. /\ PagerTypeOK /\ StatusIsRight
      /\ InOrderUpTo(pager.query, pager.got, pager.next)
      /\ NoneSkipped(pager.query, pager.got, pager.next)
      /\ SentIsBehind(pager.query, pager.sent, pager.next, pager.empty)
  BY DEF ListIsGoingOn
<1>1. PICK answer \in Answers :
        pager' = [pager EXCEPT
             !.status = IF (IF pager.left = All THEN All ELSE pager.left - Len(answer)) = 0 \/ NextAfter(answer) = AtEnd
                        THEN "returned" ELSE "asking",
             !.left = IF pager.left = All THEN All ELSE pager.left - Len(answer),
             !.next = NextAfter(answer), !.sent = @ \cup {Request}, !.sizeAsked = FALSE,
             !.got = @ \o answer, !.empty = answer = <<>>]
  BY DEF AnswerList, ContinueAfter
<1>2. pager.status = "asking" /\ items' = items /\ stayed' = stayed
  BY DEF AnswerList
<1>3. PICK q, got, next, left, after : /\ q = pager.query /\ got = pager.got /\ next = pager.next /\ after = NextAfter(answer)
                          /\ left = IF pager.left = All THEN All ELSE pager.left - Len(answer)
  OBVIOUS
<1>4. /\ pager'.status = (IF left = 0 \/ after = AtEnd THEN "returned" ELSE "asking")
      /\ pager'.query = q /\ pager'.next = after /\ pager'.sent = pager.sent \cup {Request} /\ pager'.left = left
      /\ pager'.got = got \o answer /\ pager'.empty = (answer = <<>>)
      /\ pager' = [status |-> pager'.status, left |-> pager'.left, next |-> pager'.next, sent |-> pager'.sent,
                   sizeAsked |-> pager'.sizeAsked, got |-> pager'.got, empty |-> pager'.empty, query |-> pager'.query]
  BY <1>0, <1>1, <1>3 DEF PagerTypeOK
<1>5. /\ q \in QueriesOfLists /\ got \in Seq(ItemKeys) /\ next \in ItemKeys \cup {AtStart} /\ stayed \subseteq items
      /\ AtStart \notin ItemKeys /\ AtEnd \notin ItemKeys /\ items \subseteq ItemKeys
  BY <1>0, <1>2, <1>3 DEF PagerTypeOK, StatusIsRight, AtStart, AtEnd, ItemKeys
<1>6. PICK n \in Nat : /\ answer \in [1 .. n -> Ahead]
                       /\ \A j \in 1 .. n : /\ \A k \in 1 .. j - 1 : Later(q, answer[j], answer[k])
                                            /\ \A k \in Ahead \ ToSet(answer) : Later(q, k, answer[j])
  BY <1>3 DEF Answers
<1>7. Ahead \subseteq ItemKeys /\ \A k \in Ahead : Selects(q, k) /\ (next # AtStart => ~Later(q, next, k))
  BY <1>3, <1>5 DEF Ahead
<1>8. answer \in Seq(ItemKeys) /\ Len(answer) = n /\ \A j \in 1 .. n : answer[j] \in Ahead
  BY <1>6, <1>7
<1>9. \/ after = AtEnd /\ Ahead \subseteq ToSet(answer)
      \/ /\ after \in Ahead \ ToSet(answer) /\ after \in ItemKeys
         /\ \A other \in Ahead \ ToSet(answer) : ~Later(q, after, other)
  BY <1>0, <1>3, NextIsAhead
<1>10. PICK all : all = got \o answer
  OBVIOUS
<1>11. /\ all \in Seq(ItemKeys) /\ Len(all) = Len(got) + n /\ Len(got) \in Nat
       /\ \A j \in 1 .. Len(got) : all[j] = got[j]
       /\ \A j \in Len(got) + 1 .. Len(got) + n : all[j] = answer[j - Len(got)] /\ j - Len(got) \in 1 .. n
  <2>1. Len(got) \in Nat /\ n \in Nat /\ \A k \in Len(got) + 1 .. Len(got) + n : k - Len(got) \in 1 .. n
    BY <1>5
  <2>2. all \in Seq(ItemKeys) /\ Len(all) = Len(got) + n
    <3>1. Len(answer) = n
      BY <1>8
    <3>2. answer \in Seq(ItemKeys)
      BY <1>8
    <3>3. Len(got \o answer) = Len(got) + Len(answer)
      BY <1>5, <3>2
    <3>4. got \o answer \in Seq(ItemKeys)
      BY <1>5, <3>2
    <3> QED BY <1>10, <3>1, <3>3, <3>4
  <2>3. \A j \in 1 .. Len(got) + n : all[j] = IF j <= Len(got) THEN got[j] ELSE answer[j - Len(got)]
    <3>1. answer \in Seq(ItemKeys) /\ Len(answer) = n
      BY <1>8
    <3> QED BY <1>5, <1>10, <3>1
  <2>4. \A j \in 1 .. Len(got) : all[j] = got[j]
    BY <2>1, <2>3
  <2>5. \A j \in Len(got) + 1 .. Len(got) + n : all[j] = answer[j - Len(got)]
    BY <2>1, <2>3
  <2> QED BY <2>1, <2>2, <2>4, <2>5
<1>12. PagerTypeOK'
  BY <1>0, <1>2, <1>4, <1>5, <1>9, <1>10, <1>11 DEF PagerTypeOK
<1>13. \A j \in 1 .. Len(got) : /\ Selects(q, got[j]) /\ got[j] \in ItemKeys
                                /\ \A k \in 1 .. j - 1 : Later(q, got[j], got[k])
                                /\ \A other \in Ahead : Later(q, other, got[j])
  <2> TAKE j \in 1 .. Len(got)
  <2>1. next # AtStart /\ next \in ItemKeys /\ Later(q, next, got[j])
    BY <1>0, <1>3, <1>5 DEF InOrderUpTo
  <2>2. Selects(q, got[j]) /\ got[j] \in ItemKeys /\ \A k \in 1 .. j - 1 : Later(q, got[j], got[k])
    BY <1>0, <1>3, <1>5 DEF InOrderUpTo
  <2>3. \A k \in Ahead : k \in ItemKeys /\ ~Later(q, next, k)
    BY <1>7, <2>1
  <2> QED BY <1>5, <2>1, <2>2, <2>3, OrderOfItems
<1>14. InOrderUpTo(q, all, after)
  <2>1. ASSUME NEW j \in 1 .. Len(all)
        PROVE  /\ Selects(q, all[j]) /\ \A k \in 1 .. j - 1 : Later(q, all[j], all[k])
               /\ after \in ItemKeys => Later(q, after, all[j])
    <3>1. CASE j \in 1 .. Len(got)
      <4>1. \A k \in 1 .. j - 1 : k \in 1 .. Len(got) /\ all[k] = got[k]
        BY <1>11, <3>1
      <4>2. all[j] = got[j]
        BY <1>11, <3>1
      <4>3. Selects(q, all[j]) /\ \A k \in 1 .. j - 1 : Later(q, all[j], all[k])
        BY <1>13, <3>1, <4>1, <4>2
      <4>4. after \in ItemKeys => after \in Ahead
        BY <1>5, <1>9
      <4>5. after \in ItemKeys => Later(q, after, all[j])
        <5> SUFFICES ASSUME after \in ItemKeys  PROVE Later(q, after, got[j])
          BY <4>2
        <5> QED BY <1>13, <3>1, <4>4, Zenon
      <4> QED BY <4>3, <4>5
    <3>2. CASE j \in Len(got) + 1 .. Len(got) + n
      <4>1. PICK i \in 1 .. n : i = j - Len(got) /\ all[j] = answer[i]
        BY <1>11, <3>2
      <4>2. ASSUME NEW k \in 1 .. j - 1  PROVE Later(q, all[j], all[k])
        <5>1. CASE k \in 1 .. Len(got)
          <6>1. all[k] = got[k] /\ answer[i] \in Ahead
            BY <1>8, <1>11, <4>1, <5>1
          <6>2. Later(q, answer[i], got[k])
            BY <1>13, <5>1, <6>1, Zenon
          <6> QED BY <4>1, <6>1, <6>2
        <5>2. CASE k \notin 1 .. Len(got)
          <6>1. k \in Len(got) + 1 .. Len(got) + n /\ k - Len(got) \in 1 .. i - 1
            BY <1>11, <3>2, <4>1, <5>2
          <6> QED BY <1>6, <1>11, <4>1, <6>1
        <5> QED BY <5>1, <5>2
      <4>3. Selects(q, all[j])
        BY <1>7, <1>8, <4>1
      <4>4. after \in ItemKeys => Later(q, after, all[j])
        BY <1>5, <1>6, <1>9, <4>1
      <4> QED BY <4>2, <4>3, <4>4
    <3> QED BY <1>11, <3>1, <3>2
  <2>2. after # AtStart
    BY <1>5, <1>9 DEF AtStart, AtEnd
  <2> QED BY <2>1, <2>2 DEF InOrderUpTo
<1>15. NoneSkipped(q, all, after)
  <2> SUFFICES ASSUME NEW k \in stayed, Selects(q, k), k \notin ToSet(all)
               PROVE  after \in ItemKeys /\ ~Later(q, after, k)
    BY DEF NoneSkipped
  <2>1. DOMAIN got = 1 .. Len(got) /\ DOMAIN answer = 1 .. n /\ DOMAIN all = 1 .. Len(got) + n
    BY <1>5, <1>8, <1>11
  <2>2. k \notin ToSet(got)
    BY <1>11, <2>1 DEF ToSet
  <2>3. k \notin ToSet(answer)
    <3> SUFFICES ASSUME NEW i \in 1 .. n, answer[i] = k  PROVE FALSE
      BY <2>1 DEF ToSet
    <3>1. i + Len(got) \in Len(got) + 1 .. Len(got) + n /\ (i + Len(got)) - Len(got) = i
      BY <1>11
    <3>2. i + Len(got) \in DOMAIN all /\ all[i + Len(got)] = k
      BY <1>11, <2>1, <3>1
    <3> QED BY <3>2 DEF ToSet
  <2>4. k \in Ahead
    BY <1>0, <1>3, <1>5, <2>2 DEF Ahead, NoneSkipped
  <2> QED BY <1>9, <2>3, <2>4
<1>16. SentIsBehind(q, pager.sent \cup {Request}, after, answer = <<>>)
  <2> SUFFICES ASSUME NEW r \in pager.sent \cup {Request}, after # AtEnd
               PROVE  \/ (after \in ItemKeys /\ r[2] = AtStart)
                      \/ /\ after \in ItemKeys /\ r[2] \in ItemKeys /\ ~Later(q, r[2], after)
                         /\ answer # <<>> => Later(q, after, r[2])
    BY DEF SentIsBehind
  <2>1. after \in Ahead /\ after \in ItemKeys
    BY <1>9
  <2>2. r[2] = AtStart \/ (r[2] \in ItemKeys /\ next \in ItemKeys /\ ~Later(q, r[2], next))
    <3>1. CASE r \in pager.sent
      <4>1. next # AtEnd
        BY <1>5 DEF AtStart, AtEnd
      <4>2. SentIsBehind(q, pager.sent, next, pager.empty)
        BY <1>0, <1>3
      <4> QED BY <3>1, <4>1, <4>2 DEF SentIsBehind
    <3>2. CASE r = Request
      <4>1. r[2] = next
        BY <1>3, <3>2 DEF Request
      <4> QED BY <1>5, <4>1, OrderOfItems
    <3> QED BY <3>1, <3>2
  <2>3. CASE r[2] = AtStart
    BY <2>1, <2>3
  <2>4. CASE r[2] # AtStart
    <3>1. r[2] \in ItemKeys /\ next \in ItemKeys /\ ~Later(q, r[2], next)
      BY <2>2, <2>4
    <3>2. ~Later(q, next, after) /\ next # AtStart
      BY <1>5, <1>7, <2>1, <3>1
    <3>3. ~Later(q, r[2], after)
      BY <1>5, <2>1, <3>1, <3>2, OrderOfItems
    <3>4. ASSUME answer # <<>>  PROVE Later(q, after, r[2])
      <4>1. 1 \in 1 .. n
        BY <1>8, <3>4
      <4>2. answer[1] \in ItemKeys /\ Later(q, after, answer[1]) /\ ~Later(q, next, answer[1])
        BY <1>6, <1>7, <1>8, <1>9, <2>1, <3>2, <4>1
      <4>3. ~Later(q, r[2], answer[1])
        BY <1>5, <3>1, <4>2, OrderOfItems
      <4> QED BY <1>5, <2>1, <3>1, <4>2, <4>3, OrderOfItems
    <3> QED BY <2>1, <3>1, <3>3, <3>4
  <2> QED BY <2>3, <2>4
<1>17. StatusIsRight'
  <2>1. q.limit = All => left = All
    BY <1>0, <1>2, <1>3 DEF StatusIsRight
  <2> QED BY <1>4, <2>1 DEF StatusIsRight, All
<1>18. /\ (InOrderUpTo(pager.query, pager.got, pager.next))' /\ (NoneSkipped(pager.query, pager.got, pager.next))'
       /\ (SentIsBehind(pager.query, pager.sent, pager.next, pager.empty))'
  <2>1. pager'.got = all
    BY <1>4, <1>10
  <2>2. pager'.query = q /\ pager'.next = after /\ pager'.sent = pager.sent \cup {Request}
        /\ pager'.empty = (answer = <<>>) /\ stayed' = stayed
    BY <1>2, <1>4
  <2>3. (InOrderUpTo(pager.query, pager.got, pager.next))' /\ (NoneSkipped(pager.query, pager.got, pager.next))'
    BY <1>14, <1>15, <2>1, <2>2 DEF InOrderUpTo, NoneSkipped
  <2>4. (SentIsBehind(pager.query, pager.sent, pager.next, pager.empty))'
    BY <1>16, <2>2 DEF SentIsBehind
  <2> QED BY <2>3, <2>4
<1> QED BY <1>12, <1>17, <1>18 DEF ListIsGoingOn

\* Whatever comes and goes, items are read in order, once, and those that stay are not skipped; a pager that gives up
\* had nothing in its last answer, for any list, limits and dates.
THEOREM ListsAreReadOnce == ListSpec => []ListIsReadOnce
<1>1. ListInit => ListIsGoingOn
  <2> SUFFICES ASSUME ListInit  PROVE ListIsGoingOn
    OBVIOUS
  <2>1. /\ items \subseteq ItemKeys /\ stayed = items /\ pager.status = "idle" /\ pager.next = AtStart /\ pager.sent = {}
        /\ pager.got = <<>> /\ pager.empty = FALSE /\ pager.left = All
        /\ pager.query = [limit |-> All, newestFirst |-> FALSE, start |-> NoDate, end |-> NoDate,
                          continues |-> TRUE, sized |-> FALSE]
        /\ pager = [status |-> pager.status, left |-> pager.left, next |-> pager.next, sent |-> pager.sent,
                    sizeAsked |-> pager.sizeAsked, got |-> pager.got, empty |-> pager.empty, query |-> pager.query]
    BY DEF ListInit, ItemKeys
  <2>2. pager.query \in QueriesOfLists
    BY <2>1 DEF QueriesOfLists
  <2>3. PagerTypeOK
    <3>1. pager.got \in Seq(ItemKeys)
      <4>1. <<>> \in Seq(ItemKeys)
        OBVIOUS
      <4> QED BY <2>1, <4>1
    <3>3. pager.empty \in BOOLEAN
      BY <2>1
    <3>2. pager.next \in ItemKeys \cup {AtStart, AtEnd} /\ stayed \subseteq items
      BY <2>1
    <3> QED BY <2>1, <2>2, <3>1, <3>2, <3>3 DEF PagerTypeOK
  <2>4. AtStart \notin ItemKeys
    BY DEF AtStart, ItemKeys
  <2>5. /\ InOrderUpTo(pager.query, pager.got, pager.next) /\ NoneSkipped(pager.query, pager.got, pager.next)
        /\ SentIsBehind(pager.query, pager.sent, pager.next, pager.empty) /\ StatusIsRight
    BY <2>1, <2>4 DEF InOrderUpTo, NoneSkipped, SentIsBehind, StatusIsRight
  <2> QED BY <2>3, <2>5 DEF ListIsGoingOn
<1>2. ListIsGoingOn /\ [ListNext]_listVars => ListIsGoingOn'
  <2> SUFFICES ASSUME ListIsGoingOn, [ListNext]_listVars  PROVE ListIsGoingOn'
    OBVIOUS
  <2>1. CASE StartList
    BY <2>1, StartingIsSound
  <2>2. CASE AnswerList
    BY <2>2, AnsweringIsSound
  <2>3. CASE LoopInPager
    <3>1. /\ pager.status = "asking" /\ Request \in pager.sent /\ pager' = [pager EXCEPT !.status = "failed"]
          /\ UNCHANGED <<items, stayed>>
      BY <2>3 DEF LoopInPager
    <3>2. /\ pager'.status = "failed" /\ pager'.query = pager.query /\ pager'.left = pager.left
          /\ pager'.sent = pager.sent /\ pager'.next = pager.next /\ pager'.got = pager.got /\ pager'.empty = pager.empty
          /\ pager' = [status |-> pager'.status, left |-> pager'.left, next |-> pager'.next, sent |-> pager'.sent,
                       sizeAsked |-> pager'.sizeAsked, got |-> pager'.got, empty |-> pager'.empty, query |-> pager'.query]
      BY <3>1 DEF ListIsGoingOn, PagerTypeOK
    <3>3. pager.empty
      <4>1. Request[2] = pager.next
        BY DEF Request
      <4>2. pager.next # AtEnd /\ AtStart \notin ItemKeys /\ pager.query \in QueriesOfLists
        BY <3>1 DEF ListIsGoingOn, StatusIsRight, AtStart, ItemKeys, PagerTypeOK
      <4>3. pager.next \in ItemKeys /\ (~pager.empty => Later(pager.query, pager.next, pager.next))
        BY <3>1, <4>1, <4>2 DEF ListIsGoingOn, SentIsBehind
      <4>4. pager.empty \in BOOLEAN
        BY DEF ListIsGoingOn, PagerTypeOK
      <4> QED BY <4>2, <4>3, <4>4, OrderOfItems
    <3>4. PagerTypeOK'
      BY <3>1, <3>2 DEF ListIsGoingOn, PagerTypeOK
    <3>5. StatusIsRight'
      BY <3>2, <3>3 DEF StatusIsRight
    <3> QED BY <3>1, <3>2, <3>4, <3>5 DEF ListIsGoingOn, InOrderUpTo, NoneSkipped, SentIsBehind
  <2>4. CASE ItemComesOrGoes
    <3>1. pager' = pager /\ items' \subseteq ItemKeys /\ stayed' \subseteq items' /\ stayed' \subseteq stayed
      BY <2>4 DEF ItemComesOrGoes, ListIsGoingOn, PagerTypeOK, ItemKeys
    <3>2. PagerTypeOK'
      BY <3>1 DEF ListIsGoingOn, PagerTypeOK
    <3> QED BY <3>1, <3>2 DEF ListIsGoingOn, InOrderUpTo, NoneSkipped, SentIsBehind, StatusIsRight
  <2>5. CASE UNCHANGED listVars
    BY <2>5 DEF listVars, ListIsGoingOn, PagerTypeOK, InOrderUpTo, NoneSkipped, SentIsBehind, StatusIsRight
  <2> QED BY <2>1, <2>2, <2>3, <2>4, <2>5 DEF ListNext
<1>3. ListIsGoingOn => ListIsReadOnce
  <2> SUFFICES ASSUME ListIsGoingOn  PROVE ListIsReadOnce
    OBVIOUS
  <2>1. DOMAIN pager.got = 1 .. Len(pager.got) /\ AtEnd \notin ItemKeys
    BY DEF ListIsGoingOn, PagerTypeOK, AtEnd, ItemKeys
  <2> QED BY <2>1 DEF ListIsGoingOn, InOrderUpTo, NoneSkipped, StatusIsRight, ListIsReadOnce
<1> QED BY <1>1, <1>2, <1>3, PTL DEF ListSpec

------------------------------------------------------------------------------
(* What ApiReads reads about several pages is what it would read about each. *)

\* The titles that are asked are those that were given, each once.
LEMMA DistinctProperties ==
  ASSUME NEW T, NEW titles \in Seq(T)
  PROVE  Distinct(titles) \in Seq(T) /\ ToSet(Distinct(titles)) = ToSet(titles) /\ IsInjective(Distinct(titles))
<1> DEFINE K == 1 .. Len(titles)
           places == [k \in DOMAIN titles |-> k]
           S == {k \in DOMAIN titles : \A j \in 1 .. k - 1 : titles[j] # titles[k]}
           firsts == Selected(places, S)
<1>1. DOMAIN titles = K /\ Len(titles) \in Nat /\ \A k \in K : titles[k] \in T
  OBVIOUS
<1>2. places \in Seq(K) /\ ToSet(places) = K /\ IsInjective(places) /\ S \subseteq K
  BY <1>1 DEF ToSet, IsInjective
<1>3. firsts \in Seq(K) /\ ToSet(firsts) = S /\ IsInjective(firsts)
  <2> HIDE DEF places, S, K
  <2>1. firsts \in Seq(K) /\ ToSet(firsts) = ToSet(places) \cap S /\ (IsInjective(places) => IsInjective(firsts))
    BY <1>2, SelectedProperties
  <2> QED BY <1>2, <2>1
<1>4. Distinct(titles) = [k \in DOMAIN firsts |-> titles[firsts[k]]]
  BY DEF Distinct
<1> HIDE DEF firsts
<1>5. DOMAIN firsts = 1 .. Len(firsts) /\ Len(firsts) \in Nat /\ \A k \in DOMAIN firsts : firsts[k] \in S
  BY <1>3 DEF ToSet
<1>6. Distinct(titles) \in Seq(T)
  BY <1>1, <1>2, <1>4, <1>5
<1>7. ASSUME NEW k \in K  PROVE \E i \in S : titles[i] = titles[k]
  <2> DEFINE same == {i \in K : titles[i] = titles[k]}
  <2>1. same \subseteq Nat /\ same # {}
    BY <1>1
  <2>2. PICK i \in same : \A j \in same : i <= j
    <3> HIDE DEF same
    <3> QED BY <2>1, LeastNatural
  <2>3. \A j \in 1 .. i - 1 : titles[j] # titles[i]
    BY <1>1, <2>2
  <2> QED BY <1>1, <2>2, <2>3
<1>8. \A i \in S, j \in S : titles[i] = titles[j] => i = j
  <2> SUFFICES ASSUME NEW i \in S, NEW j \in S, titles[i] = titles[j], i < j  PROVE FALSE
    BY <1>1
  <2>1. i \in 1 .. j - 1
    BY <1>1
  <2> QED BY <2>1
<1>9. ToSet(Distinct(titles)) = ToSet(titles)
  <2>1. DOMAIN Distinct(titles) = DOMAIN firsts
    BY <1>4
  <2>2. \A x \in ToSet(Distinct(titles)) : x \in ToSet(titles)
    BY <1>1, <1>2, <1>4, <1>5, <2>1 DEF ToSet
  <2>3. ASSUME NEW x \in ToSet(titles)  PROVE x \in ToSet(Distinct(titles))
    <3>1. PICK k \in K : titles[k] = x
      BY <1>1 DEF ToSet
    <3>2. PICK i \in S : titles[i] = x
      BY <1>7, <3>1
    <3>3. PICK n \in DOMAIN firsts : firsts[n] = i
      <4>1. i \in ToSet(firsts)
        BY <1>3, <3>2
      <4> QED BY <4>1 DEF ToSet
    <3>4. Distinct(titles)[n] = x
      BY <1>4, <3>2, <3>3
    <3> QED BY <2>1, <3>3, <3>4 DEF ToSet
  <2> QED BY <2>2, <2>3
<1>10. IsInjective(Distinct(titles))
  <2>1. DOMAIN Distinct(titles) = DOMAIN firsts /\ \A n \in DOMAIN firsts : Distinct(titles)[n] = titles[firsts[n]]
    BY <1>4
  <2>2. \A a, b \in DOMAIN firsts : titles[firsts[a]] = titles[firsts[b]] => a = b
    <3> HIDE DEF S
    <3> QED BY <1>3, <1>5, <1>8 DEF IsInjective
  <2> QED BY <2>1, <2>2 DEF IsInjective
<1> QED BY <1>6, <1>9, <1>10

\* A range and the next ones have the titles that are left to ask about, each in one of them if no title is
\* there twice.
LEMMA RangesSplitTitles ==
  ASSUME NEW T, reader.todo \in Seq(T), reader.todo # <<>>
  PROVE  /\ TitlesRange \in Seq(T) /\ OtherRanges \in Seq(T)
         /\ ToSet(reader.todo) = ToSet(TitlesRange) \cup ToSet(OtherRanges)
         /\ IsInjective(reader.todo) =>
              /\ IsInjective(TitlesRange) /\ IsInjective(OtherRanges)
              /\ ToSet(TitlesRange) \cap ToSet(OtherRanges) = {}
<1> DEFINE todo == reader.todo
           m == RangeSize
           l == Len(todo)
<1>1. l \in Nat /\ m \in 1 .. l /\ DOMAIN todo = 1 .. l /\ todo \in Seq(T) /\ \A k \in 1 .. l : todo[k] \in T
  BY TitlesLimitAssumption DEF RangeSize
<1>2. TitlesRange = SubSeq(todo, 1, m) /\ OtherRanges = SubSeq(todo, m + 1, l)
  BY DEF TitlesRange, OtherRanges
<1> HIDE DEF m, todo, l
<1>3. /\ TitlesRange \in Seq(T) /\ Len(TitlesRange) = m /\ DOMAIN TitlesRange = 1 .. m
      /\ \A k \in 1 .. m : TitlesRange[k] = todo[k]
  <2>1. \A k \in 1 .. m : todo[k] \in T
    BY <1>1
  <2>2. SubSeq(todo, 1, m) \in Seq(T) /\ Len(SubSeq(todo, 1, m)) = m /\ \A k \in 1 .. m : SubSeq(todo, 1, m)[k] = todo[k]
    BY <1>1, <2>1, SubSeqProperties
  <2> QED BY <1>2, <2>2
<1>4. /\ OtherRanges \in Seq(T) /\ DOMAIN OtherRanges = 1 .. l - m
      /\ \A k \in 1 .. l - m : OtherRanges[k] = todo[m + k]
  <2>1. \A k \in m + 1 .. l : todo[k] \in T
    BY <1>1
  <2>2. /\ SubSeq(todo, m + 1, l) \in Seq(T) /\ Len(SubSeq(todo, m + 1, l)) = l - m
        /\ \A k \in 1 .. l - m : SubSeq(todo, m + 1, l)[k] = todo[m + k]
    BY <1>1, <2>1, SubSeqProperties
  <2> QED BY <1>2, <2>2
<1>5. ToSet(todo) = ToSet(TitlesRange) \cup ToSet(OtherRanges)
  <2>1. \A x \in ToSet(TitlesRange) \cup ToSet(OtherRanges) : x \in ToSet(todo)
    <3>1. \A k \in 1 .. m : k \in 1 .. l /\ TitlesRange[k] = todo[k]
      BY <1>1, <1>3
    <3>2. \A x \in ToSet(TitlesRange) : x \in ToSet(todo)
      BY <1>1, <1>3, <3>1 DEF ToSet
    <3>3. \A k \in 1 .. l - m : m + k \in 1 .. l /\ OtherRanges[k] = todo[m + k]
      BY <1>1, <1>4
    <3>4. \A x \in ToSet(OtherRanges) : x \in ToSet(todo)
      <4> SUFFICES ASSUME NEW x \in ToSet(OtherRanges)  PROVE x \in ToSet(todo)
        OBVIOUS
      <4>1. PICK k \in 1 .. l - m : OtherRanges[k] = x
        BY <1>4 DEF ToSet
      <4>2. m + k \in DOMAIN todo /\ todo[m + k] = x
        BY <1>1, <3>3, <4>1
      <4> QED BY <4>2 DEF ToSet
    <3> QED BY <3>2, <3>4
  <2>2. ASSUME NEW x \in ToSet(todo)  PROVE x \in ToSet(TitlesRange) \cup ToSet(OtherRanges)
    <3>1. PICK k \in 1 .. l : todo[k] = x
      BY <1>1 DEF ToSet
    <3>2. CASE k \in 1 .. m
      BY <1>3, <3>1, <3>2 DEF ToSet
    <3>3. CASE k \notin 1 .. m
      <4>1. k - m \in 1 .. l - m /\ m + (k - m) = k
        BY <1>1, <3>3
      <4>2. OtherRanges[k - m] = x
        BY <1>4, <3>1, <4>1
      <4> QED BY <1>4, <4>1, <4>2 DEF ToSet
    <3> QED BY <3>2, <3>3
  <2> QED BY <2>1, <2>2
<1>6. ASSUME IsInjective(todo)
      PROVE  IsInjective(TitlesRange) /\ IsInjective(OtherRanges) /\ ToSet(TitlesRange) \cap ToSet(OtherRanges) = {}
  <2>1. \A a, b \in 1 .. l : todo[a] = todo[b] => a = b
    BY <1>1, <1>6 DEF IsInjective
  <2>2. IsInjective(TitlesRange)
    BY <1>1, <1>3, <2>1 DEF IsInjective
  <2>3. IsInjective(OtherRanges)
    <3>1. ASSUME NEW a \in 1 .. l - m, NEW b \in 1 .. l - m, OtherRanges[a] = OtherRanges[b]  PROVE a = b
      <4>1. m + a \in 1 .. l /\ m + b \in 1 .. l /\ todo[m + a] = todo[m + b]
        BY <1>1, <1>4, <3>1
      <4>2. m + a = m + b
        BY <2>1, <4>1
      <4> QED BY <1>1, <4>2
    <3> QED BY <1>4, <3>1 DEF IsInjective
  <2>4. ASSUME NEW a \in 1 .. m, NEW b \in 1 .. l - m, TitlesRange[a] = OtherRanges[b]  PROVE FALSE
    <3>1. a \in 1 .. l /\ m + b \in 1 .. l /\ todo[a] = todo[m + b] /\ a # m + b
      BY <1>1, <1>3, <1>4, <2>4
    <3> QED BY <2>1, <3>1
  <2>5. ToSet(TitlesRange) \cap ToSet(OtherRanges) = {}
    BY <1>3, <1>4, <2>4 DEF ToSet
  <2> QED BY <2>2, <2>3, <2>5
<1> QED BY <1>3, <1>4, <1>5, <1>6 DEF todo

\* The recursive function that defines Update exists, up to any length.
Called(title, target, props, f, n) ==
  IF n = 0 THEN reader.result[title]
  ELSE IF TitlesRange[n] = title THEN Callback(reader.kind, f[n - 1], target, props) ELSE f[n - 1]

LEMMA UpdatingExists ==
  ASSUME Len(TitlesRange) \in Nat, NEW title, NEW target, NEW props
  PROVE  \E f : f = [n \in 0 .. Len(TitlesRange) |-> Called(title, target, props, f, n)]
<1> DEFINE len == Len(TitlesRange)
           Built(k) == \E f : f = [n \in 0 .. k |-> Called(title, target, props, f, n)]
           N == {k \in 0 .. len : Built(k)}
<1>1. 0 \in N
  <2> DEFINE f == [n \in 0 .. 0 |-> reader.result[title]]
  <2>1. f = [n \in 0 .. 0 |-> Called(title, target, props, f, n)]
    BY DEF Called
  <2> QED BY <2>1
<1>2. ASSUME NEW k \in 1 .. len, k - 1 \in N
      PROVE  k \in N
  <2>1. PICK g : g = [n \in 0 .. k - 1 |-> Called(title, target, props, g, n)]
    BY <1>2
  <2> DEFINE f == [n \in 0 .. k |-> IF n = k THEN Called(title, target, props, g, k) ELSE g[n]]
  <2>2. \A n \in 0 .. k : Called(title, target, props, f, n) = Called(title, target, props, g, n)
    BY DEF Called
  <2>3. \A n \in 0 .. k - 1 : g[n] = Called(title, target, props, g, n)
    BY <2>1
  <2>4. \A n \in 0 .. k : f[n] = Called(title, target, props, f, n)
    BY <2>2, <2>3
  <2>5. f = [n \in 0 .. k |-> Called(title, target, props, f, n)]
    BY <2>4
  <2> HIDE DEF f
  <2>6. Built(k)
    BY <2>5
  <2> QED BY <2>6
<1>3. 0 .. len \subseteq N
  <2>1. len \in Nat
    OBVIOUS
  <2> HIDE DEF N, len
  <2> QED BY <1>1, <1>2, <2>1, InductionUpTo
<1>4. Built(len)
  <2>1. len \in 0 .. len
    OBVIOUS
  <2> HIDE DEF Built, len
  <2> QED BY <1>3, <2>1
<1> QED BY <1>4

\* Update is the last value of that function.
LEMMA UpdateIsBuilt ==
  ASSUME NEW T, TitlesRange \in Seq(T), NEW title, NEW target, NEW props
  PROVE  \E f : /\ f = [n \in 0 .. Len(TitlesRange) |-> Called(title, target, props, f, n)]
                /\ Update(title, target, props) = f[Len(TitlesRange)]
<1> DEFINE f == CHOOSE f : f = [n \in 0 .. Len(TitlesRange) |-> Called(title, target, props, f, n)]
<1>1. f = [n \in 0 .. Len(TitlesRange) |-> Called(title, target, props, f, n)]
  <2>1. \E g : g = [n \in 0 .. Len(TitlesRange) |-> Called(title, target, props, g, n)]
    <3>1. Len(TitlesRange) \in Nat
      OBVIOUS
    <3> HIDE DEF f
    <3> QED BY <3>1, UpdatingExists
  <2> QED BY <2>1, Zenon
<1>2. Update(title, target, props) = f[Len(TitlesRange)]
  BY DEF Update, Called
<1> QED BY <1>1, <1>2

\* Calling the callback for a title of the range gives the same as calling it once, unless it adds to what
\* is there and the title is there twice.
LEMMA UpdateIsCallback ==
  ASSUME NEW T, TitlesRange \in Seq(T), NEW title \in ToSet(TitlesRange), NEW target, NEW props,
         IsInjective(TitlesRange) \/ reader.kind \in {"item", "size", "status", "revision"}
  PROVE  Update(title, target, props) = Callback(reader.kind, reader.result[title], target, props)
<1> DEFINE l == Len(TitlesRange)
           old == reader.result[title]
           new == Callback(reader.kind, old, target, props)
<1>1. l \in Nat /\ DOMAIN TitlesRange = 1 .. l
  OBVIOUS
<1>2. PICK f : /\ f = [n \in 0 .. Len(TitlesRange) |-> Called(title, target, props, f, n)]
               /\ Update(title, target, props) = f[Len(TitlesRange)]
  BY UpdateIsBuilt
<1>3. f[0] = old
  <2>1. f[0] = Called(title, target, props, f, 0)
    BY <1>1, <1>2
  <2> QED BY <2>1 DEF Called
<1>4. \A n \in 1 .. l : f[n] = IF TitlesRange[n] = title THEN Callback(reader.kind, f[n - 1], target, props) ELSE f[n - 1]
  <2> SUFFICES ASSUME NEW n \in 1 .. l
               PROVE  f[n] = IF TitlesRange[n] = title THEN Callback(reader.kind, f[n - 1], target, props) ELSE f[n - 1]
    OBVIOUS
  <2>1. n \in 0 .. l /\ n # 0
    BY <1>1
  <2>2. f[n] = Called(title, target, props, f, n)
    BY <1>2, <2>1
  <2> QED BY <2>1, <2>2 DEF Called
<1>5. Update(title, target, props) = f[l]
  BY <1>2
<1>6. PICK place \in 1 .. l : TitlesRange[place] = title
  BY <1>1 DEF ToSet
<1> HIDE DEF l, new, old
<1>7. CASE reader.kind \in {"item", "size", "status", "revision"}
  <2>1. Callback(reader.kind, new, target, props) = new
    BY <1>7 DEF new, Callback, GetPagesPageProps, GetImagesSize, GetPagesDisambigStatus, ReadPages
  <2> DEFINE N == {n \in 0 .. l : f[n] \in {old, new} /\ (place <= n => f[n] = new)}
  <2>2. 0 \in N
    BY <1>1, <1>3, <1>6
  <2>3. ASSUME NEW k \in 1 .. l, k - 1 \in N  PROVE k \in N
    <3>1. /\ f[k - 1] \in {old, new} /\ (place <= k - 1 => f[k - 1] = new) /\ k \in 0 .. l
          /\ place <= k <=> (place <= k - 1 \/ place = k)
      BY <1>1, <1>6, <2>3
    <3>2. CASE TitlesRange[k] = title
      <4>1. f[k] = Callback(reader.kind, f[k - 1], target, props)
        BY <1>4, <3>2
      <4>2. f[k] = new
        BY <2>1, <3>1, <4>1 DEF new
      <4> QED BY <3>1, <4>2
    <3>3. CASE TitlesRange[k] # title
      <4>1. f[k] = f[k - 1] /\ place # k
        BY <1>4, <1>6, <3>3
      <4> QED BY <3>1, <4>1
    <3> QED BY <3>2, <3>3
  <2>4. 0 .. l \subseteq N
    <3> HIDE DEF N
    <3> QED BY <1>1, <2>2, <2>3, InductionUpTo
  <2>5. l \in N /\ place <= l
    BY <1>1, <1>6, <2>4
  <2> QED BY <1>5, <2>5 DEF new, old
<1>8. CASE IsInjective(TitlesRange)
  <2>1. \A n \in 1 .. l : TitlesRange[n] = title <=> n = place
    BY <1>1, <1>6, <1>8 DEF IsInjective
  <2> DEFINE N == {n \in 0 .. l : f[n] = IF place <= n THEN new ELSE old}
  <2>2. 0 \in N
    BY <1>1, <1>3, <1>6
  <2>3. ASSUME NEW k \in 1 .. l, k - 1 \in N  PROVE k \in N
    <3>1. k \in 0 .. l /\ (k = place => ~(place <= k - 1)) /\ (place <= k <=> (place <= k - 1 \/ place = k))
          /\ f[k - 1] = IF place <= k - 1 THEN new ELSE old
      BY <1>1, <1>6, <2>3
    <3>2. CASE k = place
      <4>1. f[k] = Callback(reader.kind, f[k - 1], target, props) /\ f[k - 1] = old
        BY <1>4, <2>1, <3>1, <3>2
      <4> QED BY <3>1, <3>2, <4>1 DEF new
    <3>3. CASE k # place
      <4>1. f[k] = f[k - 1]
        BY <1>4, <2>1, <3>3
      <4> QED BY <3>1, <3>3, <4>1
    <3> QED BY <3>2, <3>3
  <2>4. 0 .. l \subseteq N
    <3> HIDE DEF N
    <3> QED BY <1>1, <2>2, <2>3, InductionUpTo
  <2>5. l \in N /\ place <= l
    BY <1>1, <1>6, <2>4
  <2> QED BY <1>5, <2>5 DEF new, old
<1> QED BY <1>7, <1>8

\* What the wiki has to give of a page to a question of some kind.
ToGive(kind, target) ==
  IF Exists(target) THEN IF kind \in {"links", "protections"} THEN PropsOf[target] ELSE FirstProp(target) ELSE <<>>

\* What has been stored for a title is what there is to store once the first n of the properties of its
\* page have been given and, when done, its range has been asked about.
Right(kind, injective, split, title, target, done, n, stored) ==
  /\ kind = "links" /\ injective => stored = SubSeq(ToGive(kind, target), 1, n)
  /\ kind = "protections" /\ injective => stored = Supported(SubSeq(ToGive(kind, target), 1, n))
  /\ kind \in {"item", "size"} =>
       stored \in {<<>>, ToGive(kind, target)} /\ (n = Len(ToGive(kind, target)) => stored = ToGive(kind, target))
  /\ kind = "status" /\ ~split =>
       IF title \in Elsewhere THEN stored = <<>> ELSE done => stored = <<ToGive(kind, target) # <<>>>>
  /\ kind = "revision" /\ ~split =>
       IF title \in Elsewhere THEN stored = <<Invalid>> ELSE done => stored = ReadPages(<<>>, target, ToGive(kind, target))
  /\ kind = "users" /\ done => stored = <<Normal(title)>>
  /\ kind = "revids" /\ ~split => IF Exists(title) THEN done => stored = <<title>> ELSE stored = <<>>

\* What there is to give is a sequence of properties, of at most one when it is not about a list.
LEMMA ToGiveProperties ==
  ASSUME NEW kind, NEW target
  PROVE  /\ ToGive(kind, target) \in Seq(AllProps)
         /\ kind \notin {"links", "protections"} => Len(ToGive(kind, target)) \in 0 .. 1
<1>1. CASE ~Exists(target)
  BY <1>1 DEF ToGive
<1>2. CASE Exists(target)
  <2>1. PropsOf[target] \in Seq(AllProps)
    BY <1>2, PropsAreSequences DEF Exists
  <2>2. FirstProp(target) \in Seq(AllProps) /\ Len(FirstProp(target)) \in 0 .. 1
    <3>1. CASE PropsOf[target] = <<>>
      BY <3>1 DEF FirstProp
    <3>2. CASE PropsOf[target] # <<>>
      <4>1. PropsOf[target][1] \in AllProps
        BY <2>1, <3>2
      <4> QED BY <3>2, <4>1 DEF FirstProp
    <3> QED BY <3>1, <3>2
  <2> QED BY <1>2, <2>1, <2>2 DEF ToGive
<1> QED BY <1>1, <1>2

\* Nothing is right before the first answer.
LEMMA NothingIsRight ==
  ASSUME NEW kind, NEW injective, NEW title, NEW target
  PROVE  Right(kind, injective, FALSE, title, target, FALSE, 0, Nothing(kind))
<1> DEFINE W == ToGive(kind, target)
<1>1. W \in Seq(AllProps)
  BY ToGiveProperties
<1> HIDE DEF W
<1>2. SubSeq(W, 1, 0) = <<>> /\ (Len(W) = 0 => W = <<>>)
  BY <1>1
<1>3. Supported(SubSeq(W, 1, 0)) = <<>>
  BY <1>2, SelectedNothing DEF Supported
<1>4. kind \in {"item", "size"} =>
        Nothing(kind) \in {<<>>, W} /\ (0 = Len(W) => Nothing(kind) = W)
  BY <1>1, <1>2 DEF Nothing
<1>5. kind # "revision" => Nothing(kind) = <<>>
  BY DEF Nothing
<1>6. kind = "revision" => Nothing(kind) = <<Invalid>>
  BY DEF Nothing
<1> QED BY <1>2, <1>3, <1>4, <1>5, <1>6 DEF Right, W

\* An answer that has nothing for a title changes nothing for it.
LEMMA UnansweredIsRight ==
  ASSUME NEW kind, NEW injective, NEW split, NEW split2 \in BOOLEAN, NEW title, NEW target, NEW done, NEW done2,
         NEW n, NEW stored, Right(kind, injective, split, title, target, done, n, stored),
         split => split2, done2 => done \/ title \in Elsewhere, kind \notin {"users", "revids"}
  PROVE  Right(kind, injective, split2, title, target, done2, n, stored)
  BY DEF Right

\* An answer about a range whose title comes back in a later one leaves what is right before that one,
\* unless the callback adds to what is there.
LEMMA RepeatedIsRight ==
  ASSUME NEW kind, NEW injective, NEW split, NEW title, NEW target, NEW n, NEW stored,
         Right(kind, injective, split, title, target, TRUE, Len(ToGive(kind, target)), stored),
         ~injective \/ kind \notin {"links", "protections"}
  PROVE  Right(kind, injective, split, title, target, FALSE, n, stored)
  BY DEF Right

\* There is nothing between nothing and a sequence of one element.
LEMMA NothingOrAll ==
  ASSUME NEW T, NEW s \in Seq(T), Len(s) \in 0 .. 1, NEW n \in Nat, NEW n2 \in n .. Len(s), n2 # n
  PROVE  n = 0 /\ n2 = Len(s) /\ SubSeq(s, n + 1, n2) = s /\ s # <<>>
<1>1. Len(s) = 1
  OBVIOUS
<1>2. n = 0 /\ n2 = 1
  BY <1>1
<1>3. SubSeq(s, 1, 1) = s /\ s # <<>>
  BY <1>1
<1> QED BY <1>1, <1>2, <1>3

\* An answer with the next properties of the page of a title of this wiki.
LEMMA AnsweredIsRight ==
  ASSUME NEW kind \in {"links", "protections", "item", "size", "status", "revision"},
         NEW injective, NEW split \in BOOLEAN, NEW split2 \in BOOLEAN, NEW title, title \notin Elsewhere, NEW target,
         NEW done, NEW n \in Nat, NEW n2 \in n .. Len(ToGive(kind, target)), NEW stored,
         Right(kind, injective, split, title, target, done, n, stored),
         ~split2 => ~split /\ n = 0 /\ n2 = Len(ToGive(kind, target)),
         NEW done2 
  PROVE  Right(kind, injective, split2, title, target, done2, n2,
               Callback(kind, stored, target, SubSeq(ToGive(kind, target), n + 1, n2)))
<1> DEFINE W == ToGive(kind, target)
           props == SubSeq(W, n + 1, n2)
           new == Callback(kind, stored, target, props)
<1>1. W \in Seq(AllProps) /\ Len(W) \in Nat /\ n2 \in n .. Len(W) /\ n2 \in Nat /\ n <= Len(W)
  BY ToGiveProperties
<1>2. kind \notin {"links", "protections"} => Len(W) \in 0 .. 1
  BY ToGiveProperties
<1>3. ~split2 => ~split /\ n = 0 /\ n2 = Len(W)
  OBVIOUS
<1>4. /\ kind = "links" /\ injective => stored = SubSeq(W, 1, n)
      /\ kind = "protections" /\ injective => stored = Supported(SubSeq(W, 1, n))
      /\ kind \in {"item", "size"} => stored \in {<<>>, W} /\ (n = Len(W) => stored = W)
  BY DEF Right
<1> HIDE DEF W
<1>5. SubSeq(W, 1, n) \in Seq(AllProps) /\ props \in Seq(AllProps)
  BY <1>1
<1>6. SubSeq(W, 1, n) \o props = SubSeq(W, 1, n2)
  <2>1. 1 \in 1 .. Len(W) + 1 /\ n \in 1 - 1 .. Len(W) /\ n2 \in n .. Len(W)
    BY <1>1
  <2> QED BY <1>1, <2>1, ConcatAdjacentSubSeq
<1>7. CASE kind = "links"
  <2>1. new = stored \o props
    BY <1>7 DEF Callback, GetPagesLinks, ReadPagesStringProperties
  <2> HIDE DEF new, props
  <2> QED BY <1>4, <1>6, <1>7, <2>1 DEF W, new, props, Right
<1>8. CASE kind = "protections"
  <2>1. new = stored \o Supported(props)
    BY <1>8 DEF Callback, GetPagesProtections
  <2>2. Supported(SubSeq(W, 1, n) \o props) = Supported(SubSeq(W, 1, n)) \o Supported(props)
    <3> DEFINE S == AllProps \ UnknownProtections
               given == SubSeq(W, 1, n)
    <3>1. given \in Seq(AllProps) /\ props \in Seq(AllProps)
      BY <1>5
    <3> HIDE DEF given, props, S
    <3>2. Selected(given \o props, S) = Selected(given, S) \o Selected(props, S)
      BY <3>1, SelectedConcat
    <3> QED BY <3>2 DEF Supported, given, S
  <2> HIDE DEF new, props
  <2> QED BY <1>4, <1>6, <1>8, <2>1, <2>2 DEF W, new, props, Right
<1>9. CASE kind \in {"item", "size"}
  <2>1. new = IF props = <<>> THEN stored ELSE props
    BY <1>9 DEF Callback, GetPagesPageProps, GetImagesSize
  <2>2. CASE n2 = n
    <3>1. props = <<>>
      BY <1>1, <2>2
    <3>2. new = stored
      BY <2>1, <3>1
    <3> HIDE DEF new, props
    <3> QED BY <1>4, <1>9, <2>2, <3>2 DEF W, new, props, Right
  <2>3. CASE n2 # n
    <3>1. Len(W) \in 0 .. 1
      BY <1>2, <1>9
    <3>2. props = W /\ props # <<>>
      BY <1>1, <2>3, <3>1, NothingOrAll
    <3>3. new = W
      BY <2>1, <3>2
    <3> HIDE DEF new, props
    <3> QED BY <1>9, <3>3 DEF W, new, props, Right
  <2> QED BY <2>2, <2>3
<1>10. ~split2 => props = W
  BY <1>1, <1>3
<1>11. CASE kind = "status"
  <2>1. new = <<props # <<>>>>
    BY <1>11 DEF Callback, GetPagesDisambigStatus
  <2> HIDE DEF new, props
  <2> QED BY <1>10, <1>11, <2>1 DEF W, new, props, Right
<1>12. CASE kind = "revision"
  <2>1. new = ReadPages(<<>>, target, props)
    BY <1>12 DEF Callback, ReadPages
  <2> HIDE DEF new, props
  <2> QED BY <1>10, <1>12, <2>1 DEF W, new, props, Right
<1> QED BY <1>7, <1>8, <1>9, <1>11, <1>12

\* The page that a title leads to, and whether the client finds the pages of all titles that were asked.
PageOf(title) == Final(reader.redirects, Normal(title))
TwoHops == \A t \in ToSet(reader.asked) : PageOf(t) = Resolved(t)

\* How many of the properties of its page have been given for a title, and what has been stored for it.
GivenFor(title) ==
  IF title \notin ToSet(reader.todo) THEN Len(ToGive(reader.kind, PageOf(title)))
  ELSE IF title \in ToSet(TitlesRange) /\ Exists(PageOf(title)) THEN reader.given[PageOf(title)] ELSE 0
RightSoFar(title) ==
  Right(reader.kind, IsInjective(reader.asked), reader.split, title, PageOf(title),
        title \notin ToSet(reader.todo), GivenFor(title), reader.result[title])

Kinds == {"links", "protections", "item", "size", "status", "revision", "users", "revids"}
ReaderTypeOK ==
  /\ reader = [status |-> reader.status, kind |-> reader.kind, redirects |-> reader.redirects,
               asked |-> reader.asked, todo |-> reader.todo, given |-> reader.given, split |-> reader.split,
               result |-> reader.result]
  /\ reader.status \in {"reading", "returned", "failed"} /\ reader.kind \in Kinds
  /\ reader.redirects \in RedirectMaps
  /\ reader.asked \in Asked
  /\ reader.todo \in Seq(ToSet(reader.asked))
  /\ reader.given \in [DOMAIN PropsOf -> Nat]
  /\ reader.split \in BOOLEAN /\ (~reader.split => reader.given = NothingGiven)
  /\ reader.result = [t \in ToSet(reader.asked) |-> reader.result[t]]

\* The inductive invariant of a call: a title that is asked once is in one range only, and what has been
\* stored for each title is right so far if the client finds all pages, and the call does not fail then.
ReaderInv ==
  /\ ReaderTypeOK
  /\ reader.kind \in {"links", "protections"} /\ IsInjective(reader.asked) => IsInjective(reader.todo)
  /\ reader.status = "failed" => ~TwoHops \/ reader.kind = "users"
  /\ reader.status \in {"reading", "returned"} /\ TwoHops => \A t \in ToSet(reader.asked) : RightSoFar(t)
  /\ reader.status = "returned" => reader.todo = <<>>

\* A title of another wiki, or that is not valid, leads to no page but itself; others never lead there.
LEMMA PagesAreLocal ==
  ASSUME reader.redirects \in RedirectMaps, NEW title
  PROVE  /\ title \in Elsewhere => Resolved(title) = title /\ Normal(title) = title
         /\ title \notin Elsewhere => Resolved(title) \notin Elsewhere
         /\ title \in Elsewhere => ToGive(reader.kind, Resolved(title)) = <<>> /\ ~Exists(Resolved(title))
<1>1. \A map \in {NormalForm, reader.redirects} : \A t : /\ t \in Elsewhere => Follow(map, t) = t
                                                         /\ t \notin Elsewhere => Follow(map, t) \notin Elsewhere
  BY TitlesAreLocal DEF Follow
<1>2. /\ title \in Elsewhere => Resolved(title) = title /\ Normal(title) = title
      /\ title \notin Elsewhere => Resolved(title) \notin Elsewhere
  BY <1>1 DEF Resolved, FollowTwice, Normal
<1>3. title \in Elsewhere => ~Exists(Resolved(title))
  BY <1>2, PagesAreApart DEF Exists
<1> QED BY <1>2, <1>3 DEF ToGive

\* The titles of a range that are answered are those of this wiki, and the wiki then has something to give
\* for all of them.
LEMMA TitlesOfThisWikiAreAnswered ==
  ASSUME ReaderTypeOK, TwoHops, NEW title \in ToSet(TitlesRange), ToSet(TitlesRange) \subseteq ToSet(reader.asked)
  PROVE  /\ title \in AnsweredTitles <=> title \notin Elsewhere
         /\ title \notin Elsewhere => PageOf(title) \in PagesOf(TitlesRange)
         /\ PagesOf(TitlesRange) \subseteq {Resolved(t) : t \in ToSet(TitlesRange)}
<1>1. \A t \in ToSet(TitlesRange) : PageOf(t) = Resolved(t)
  BY DEF TwoHops
<1>2. PagesOf(TitlesRange) = {Resolved(t) : t \in ToSet(TitlesRange) \ InterwikiTitles}
  BY <1>1 DEF PagesOf, PageOf
<1>3. \A t \in ToSet(TitlesRange) : /\ t \in Elsewhere => Resolved(t) = t
                                    /\ t \notin Elsewhere => Resolved(t) \notin Elsewhere
  BY PagesAreLocal DEF ReaderTypeOK
<1>4. ASSUME title \notin Elsewhere
      PROVE  title \in AnsweredTitles /\ PageOf(title) \in PagesOf(TitlesRange)
  BY <1>1, <1>2, <1>3, <1>4 DEF AnsweredTitles, Elsewhere
<1>5. ASSUME title \in Elsewhere
      PROVE  title \notin AnsweredTitles
  <2>1. CASE title \in BadTitles
    BY <1>3, <1>5, <2>1 DEF AnsweredTitles
  <2>2. CASE title \in InterwikiTitles
    <3>1. Resolved(title) = title
      BY <1>3, <1>5
    <3>2. ASSUME NEW t \in ToSet(TitlesRange) \ InterwikiTitles, Resolved(t) = title  PROVE FALSE
      <4>1. CASE t \in Elsewhere
        BY <1>3, <2>2, <3>2, <4>1
      <4>2. CASE t \notin Elsewhere
        BY <1>3, <1>5, <3>2, <4>2
      <4> QED BY <4>1, <4>2
    <3> QED BY <1>2, <3>1, <3>2 DEF AnsweredTitles
  <2> QED BY <1>5, <2>1, <2>2 DEF Elsewhere
<1> QED BY <1>2, <1>4, <1>5

\* The first step: the question and its first range.
LEMMA StartReadingKeepsInv ==
  ASSUME StartReading
  PROVE  ReaderInv'
<1>1. PICK titles \in Asked, redirects \in RedirectMaps,
           kind \in {"links", "protections", "item", "size", "status", "revision", "users", "revids"} :
        /\ kind # "revision" => DOMAIN redirects = {}
        /\ kind = "users" => ToSet(titles) \cap (Elsewhere \cup SpecialTitles) = {}
        /\ reader' = [status |-> "reading", kind |-> kind, redirects |-> redirects, asked |-> titles,
                      todo |-> ToRead(kind, titles), given |-> NothingGiven, split |-> FALSE,
                      result |-> [t \in ToSet(titles) |-> Nothing(kind)]]
  BY DEF StartReading
<1> DEFINE T == ToSet(titles)
<1>2. titles \in Seq(T)
  BY AskedAreSequences
<1>3. /\ ToRead(kind, titles) \in Seq(T) /\ ToSet(ToRead(kind, titles)) = T
      /\ kind \in {"links", "protections"} => ToRead(kind, titles) = titles
  BY <1>2, DistinctProperties DEF ToRead
<1>4. /\ reader'.status = "reading" /\ reader'.kind = kind /\ reader'.redirects = redirects
      /\ reader'.asked = titles /\ reader'.todo = ToRead(kind, titles) /\ reader'.given = NothingGiven
      /\ reader'.split = FALSE /\ reader'.result = [t \in T |-> Nothing(kind)]
      /\ reader' = [status |-> reader'.status, kind |-> reader'.kind, redirects |-> reader'.redirects,
                    asked |-> reader'.asked, todo |-> reader'.todo, given |-> reader'.given, split |-> reader'.split,
                    result |-> reader'.result]
  BY <1>1
<1>5. NothingGiven \in [DOMAIN PropsOf -> Nat]
  BY DEF NothingGiven
<1>6. ReaderTypeOK'
  <2>1. reader'.result = [t \in ToSet(reader'.asked) |-> reader'.result[t]]
    BY <1>4
  <2>2. reader'.todo \in Seq(ToSet(reader'.asked))
    BY <1>3, <1>4
  <2> QED BY <1>1, <1>4, <1>5, <2>1, <2>2 DEF ReaderTypeOK, Kinds
<1>7. ASSUME NEW t \in T
      PROVE  RightSoFar(t)'
  <2>1. GivenFor(t)' = 0
    <3>1. t \in ToSet(reader'.todo)
      BY <1>3, <1>4
    <3>2. \A target : Exists(target) => NothingGiven[target] = 0
      BY DEF NothingGiven, Exists
    <3> QED BY <1>4, <3>1, <3>2 DEF GivenFor
  <2>2. t \in ToSet(reader'.todo) /\ reader'.result[t] = Nothing(kind)
    BY <1>3, <1>4
  <2>3. Right(kind, IsInjective(titles), FALSE, t, PageOf(t)', FALSE, 0, Nothing(kind))
    BY NothingIsRight
  <2>4. (t \notin ToSet(reader.todo))' = FALSE
    BY <2>2
  <2> QED BY <1>4, <2>1, <2>2, <2>3, <2>4 DEF RightSoFar
<1>8. reader'.kind \in {"links", "protections"} /\ IsInjective(reader'.asked) => IsInjective(reader'.todo)
  BY <1>3, <1>4
<1> QED BY <1>4, <1>6, <1>7, <1>8 DEF ReaderInv

\* What may be given after an answer.
LEMMA GiftsProperties ==
  ASSUME NEW given \in Gifts, reader.given \in [DOMAIN PropsOf -> Nat]
  PROVE  /\ given \in [DOMAIN PropsOf -> Nat] /\ AllGiven \in [DOMAIN PropsOf -> Nat]
         /\ \A target \in DOMAIN PropsOf :
              /\ given[target] \in reader.given[target] .. Len(ToGive(reader.kind, target))
              /\ Wanted(target) = ToGive(reader.kind, target)
              /\ target \in PagesOf(TitlesRange) => AllGiven[target] = Len(ToGive(reader.kind, target))
<1>1. \A target \in DOMAIN PropsOf : Wanted(target) = ToGive(reader.kind, target)
  BY DEF Wanted, ToGive, Exists
<1>2. \A target \in DOMAIN PropsOf : Len(Wanted(target)) \in Nat
  <2> SUFFICES ASSUME NEW target \in DOMAIN PropsOf  PROVE Len(Wanted(target)) \in Nat
    OBVIOUS
  <2>1. ToGive(reader.kind, target) \in Seq(AllProps)
    BY ToGiveProperties
  <2> QED BY <1>1, <2>1
<1>3. \A target \in DOMAIN PropsOf : /\ AllGiven[target] \in 0 .. Len(Wanted(target))
                                     /\ target \in PagesOf(TitlesRange) => AllGiven[target] = Len(Wanted(target))
  BY <1>2 DEF AllGiven
<1>4. AllGiven \in [DOMAIN PropsOf -> Nat]
  BY <1>2 DEF AllGiven
<1>5. /\ given \in [DOMAIN PropsOf -> UNION {0 .. Len(Wanted(target)) : target \in DOMAIN PropsOf}]
      /\ \A target \in DOMAIN PropsOf : given[target] \in reader.given[target] .. AllGiven[target]
  BY DEF Gifts
<1>6. \A target \in DOMAIN PropsOf :
        given[target] \in reader.given[target] .. Len(Wanted(target)) /\ given[target] \in Nat
  <2> SUFFICES ASSUME NEW target \in DOMAIN PropsOf
               PROVE  given[target] \in reader.given[target] .. Len(Wanted(target)) /\ given[target] \in Nat
    OBVIOUS
  <2>1. reader.given[target] \in Nat
    OBVIOUS
  <2>2. Len(Wanted(target)) \in Nat
    BY <1>2
  <2>3. AllGiven[target] \in 0 .. Len(Wanted(target))
    BY <1>3
  <2>4. given[target] \in reader.given[target] .. AllGiven[target]
    BY <1>5
  <2> QED BY <2>1, <2>2, <2>3, <2>4
<1>7. given \in [DOMAIN PropsOf -> Nat]
  BY <1>5, <1>6
<1>8. ASSUME NEW target \in DOMAIN PropsOf
      PROVE  /\ given[target] \in reader.given[target] .. Len(ToGive(reader.kind, target))
             /\ Wanted(target) = ToGive(reader.kind, target)
             /\ target \in PagesOf(TitlesRange) => AllGiven[target] = Len(ToGive(reader.kind, target))
  <2>1. Wanted(target) = ToGive(reader.kind, target)
    BY <1>1
  <2>2. given[target] \in reader.given[target] .. Len(Wanted(target))
    BY <1>6
  <2>3. target \in PagesOf(TitlesRange) => AllGiven[target] = Len(Wanted(target))
    BY <1>3
  <2> QED BY <2>1, <2>2, <2>3
<1> QED BY <1>4, <1>7, <1>8

\* An answer about the pages of a range, or the exception about a page that the client does not find.
LEMMA AnswerPagesKeepsInv ==
  ASSUME ReaderInv, AnswerPages
  PROVE  ReaderInv'
<1> DEFINE T == ToSet(reader.asked)
           range == ToSet(TitlesRange)
<1>1. /\ reader.status = "reading" /\ reader.kind \notin {"users", "revids"} /\ reader.todo # <<>>
      /\ reader.kind \in Kinds /\ reader.todo \in Seq(T) /\ reader.given \in [DOMAIN PropsOf -> Nat]
  BY DEF AnswerPages, ReaderInv, ReaderTypeOK
<1>2. /\ TitlesRange \in Seq(T) /\ OtherRanges \in Seq(T)
      /\ ToSet(reader.todo) = range \cup ToSet(OtherRanges)
      /\ IsInjective(reader.todo) => /\ IsInjective(TitlesRange) /\ IsInjective(OtherRanges)
                                     /\ range \cap ToSet(OtherRanges) = {}
  BY <1>1, RangesSplitTitles
<1>3. range \subseteq T
  BY <1>2 DEF ToSet
<1> DEFINE Props(target, given) ==
             IF Exists(target) THEN SubSeq(Wanted(target), reader.given[target] + 1, given[target]) ELSE <<>>
<1>4. PICK given \in Gifts :
        reader' = IF ~PagesOf(TitlesRange) \subseteq {Resolved(t) : t \in range}
                  THEN [reader EXCEPT !.status = "failed"]
                  ELSE [reader EXCEPT
                          !.result = [t \in DOMAIN @ |-> IF t \in AnsweredTitles
                                                         THEN Update(t, Resolved(t), Props(Resolved(t), given)) ELSE @[t]],
                          !.given = IF given = AllGiven THEN NothingGiven ELSE given,
                          !.todo = IF given = AllGiven THEN OtherRanges ELSE @,
                          !.split = @ \/ ~(given = AllGiven)]
  BY DEF AnswerPages
<1>5. CASE ~PagesOf(TitlesRange) \subseteq {Resolved(t) : t \in range}
  <2>1. reader' = [reader EXCEPT !.status = "failed"]
    BY <1>4, <1>5
  <2>2. ~TwoHops
    <3>1. PICK t \in range : TRUE
      BY <1>5 DEF PagesOf
    <3> QED BY <1>3, <1>5, <3>1, TitlesOfThisWikiAreAnswered DEF ReaderInv
  <2>3. ReaderTypeOK' /\ reader'.status = "failed" /\ reader'.asked = reader.asked /\ reader'.todo = reader.todo
        /\ reader'.redirects = reader.redirects /\ reader'.kind = reader.kind
    BY <2>1 DEF ReaderInv, ReaderTypeOK
  <2>4. ~TwoHops'
    BY <2>2, <2>3 DEF TwoHops, PageOf, Resolved
  <2> QED BY <2>3, <2>4 DEF ReaderInv
<1>6. CASE PagesOf(TitlesRange) \subseteq {Resolved(t) : t \in range}
  <2> DEFINE complete == given = AllGiven
  <2>1. /\ reader'.status = reader.status /\ reader'.kind = reader.kind /\ reader'.redirects = reader.redirects
        /\ reader'.asked = reader.asked
        /\ reader'.todo = IF complete THEN OtherRanges ELSE reader.todo
        /\ reader'.given = IF complete THEN NothingGiven ELSE given
        /\ reader'.split = (reader.split \/ ~complete)
        /\ reader'.result = [t \in T |-> IF t \in AnsweredTitles THEN Update(t, Resolved(t), Props(Resolved(t), given))
                                         ELSE reader.result[t]]
        /\ reader' = [status |-> reader'.status, kind |-> reader'.kind, redirects |-> reader'.redirects,
                      asked |-> reader'.asked, todo |-> reader'.todo, given |-> reader'.given,
                      split |-> reader'.split, result |-> reader'.result]
    <3>1. DOMAIN reader.result = T
      BY DEF ReaderInv, ReaderTypeOK
    <3>2. reader' = [reader EXCEPT
                          !.result = [t \in DOMAIN @ |-> IF t \in AnsweredTitles
                                                         THEN Update(t, Resolved(t), Props(Resolved(t), given)) ELSE @[t]],
                          !.given = IF complete THEN NothingGiven ELSE given,
                          !.todo = IF complete THEN OtherRanges ELSE @,
                          !.split = @ \/ ~complete]
      BY <1>4, <1>6
    <3>3. reader = [status |-> reader.status, kind |-> reader.kind, redirects |-> reader.redirects,
                    asked |-> reader.asked, todo |-> reader.todo, given |-> reader.given, split |-> reader.split,
                    result |-> reader.result]
      BY DEF ReaderInv, ReaderTypeOK
    <3> HIDE DEF complete, Props, T
    <3> QED BY <3>1, <3>2, <3>3
  <2>2. /\ given \in [DOMAIN PropsOf -> Nat]
        /\ \A target \in DOMAIN PropsOf :
              /\ given[target] \in reader.given[target] .. Len(ToGive(reader.kind, target))
              /\ Wanted(target) = ToGive(reader.kind, target)
              /\ target \in PagesOf(TitlesRange) => AllGiven[target] = Len(ToGive(reader.kind, target))
    BY <1>1, GiftsProperties
  <2>3. ReaderTypeOK'
    <3>1. reader'.given \in [DOMAIN PropsOf -> Nat]
      BY <2>1, <2>2 DEF NothingGiven
    <3>2. reader'.todo \in Seq(ToSet(reader'.asked))
      BY <1>1, <1>2, <2>1
    <3>3. reader'.split \in BOOLEAN /\ (~reader'.split => reader'.given = NothingGiven)
      BY <2>1 DEF ReaderInv, ReaderTypeOK
    <3>4. reader'.result = [t \in ToSet(reader'.asked) |-> reader'.result[t]]
      <4> HIDE DEF Props
      <4> QED BY <2>1
    <3>5. /\ reader'.status \in {"reading", "returned", "failed"} /\ reader'.kind \in Kinds
          /\ reader'.redirects \in RedirectMaps /\ reader'.asked \in Asked
      BY <2>1 DEF ReaderInv, ReaderTypeOK
    <3> QED BY <2>1, <3>1, <3>2, <3>3, <3>4, <3>5 DEF ReaderTypeOK
  <2>4. reader'.kind \in {"links", "protections"} /\ IsInjective(reader'.asked) => IsInjective(reader'.todo)
    BY <1>2, <2>1 DEF ReaderInv
  <2>5. ASSUME TwoHops, NEW t \in T
        PROVE  RightSoFar(t)'
    <3> DEFINE p == PageOf(t)
               W == ToGive(reader.kind, p)
               n == GivenFor(t)
               n2 == IF Exists(p) THEN given[p] ELSE 0
               done == t \notin ToSet(reader.todo)
    <3>1. /\ p = Resolved(t) /\ PageOf(t)' = p
          /\ Right(reader.kind, IsInjective(reader.asked), reader.split, t, p, done, n, reader.result[t])
      <4>1. p = Resolved(t)
        BY <2>5 DEF TwoHops
      <4>2. PageOf(t)' = p
        BY <2>1 DEF PageOf
      <4>3. RightSoFar(t)
        BY <1>1, <2>5 DEF ReaderInv
      <4> QED BY <4>1, <4>2, <4>3 DEF RightSoFar
    <3>2. /\ t \in Elsewhere => W = <<>> /\ ~Exists(p)
          /\ t \in range => (t \in AnsweredTitles <=> t \notin Elsewhere)
          /\ t \in range /\ t \notin Elsewhere => p \in PagesOf(TitlesRange)
      <4>1. t \in Elsewhere => ToGive(reader.kind, Resolved(t)) = <<>> /\ ~Exists(Resolved(t))
        BY PagesAreLocal DEF ReaderInv, ReaderTypeOK
      <4>2. t \in range => /\ t \in AnsweredTitles <=> t \notin Elsewhere
                           /\ t \notin Elsewhere => PageOf(t) \in PagesOf(TitlesRange)
        BY <1>3, <2>5, TitlesOfThisWikiAreAnswered DEF ReaderInv
      <4> QED BY <3>1, <4>1, <4>2
    <3>3. ~complete => TitlesRange' = TitlesRange
      BY <2>1 DEF TitlesRange, RangeSize
    <3>4. \A target : Exists(target) => NothingGiven[target] = 0
      BY DEF NothingGiven, Exists
    <3>5. CASE t \notin range \/ t \in Elsewhere
      <4>1. reader'.result[t] = reader.result[t]
        <5>1. t \notin AnsweredTitles
          BY <3>2, <3>5 DEF AnsweredTitles
        <5> HIDE DEF Props
        <5> QED BY <2>1, <5>1
      <4>2. GivenFor(t)' = n
        <5>1. CASE t \in Elsewhere
          <6>1. Len(W) = 0 /\ ~Exists(p)
            BY <3>2, <5>1
          <6>2. GivenFor(t)' = 0
            BY <2>1, <3>1, <6>1 DEF GivenFor
          <6> QED BY <6>1, <6>2 DEF GivenFor
        <5>2. CASE t \notin range
          <6>1. t \in ToSet(reader'.todo) <=> t \in ToSet(reader.todo)
            BY <1>2, <2>1, <5>2
          <6>2. CASE complete
            BY <2>1, <3>1, <3>4, <5>2, <6>1, <6>2 DEF GivenFor
          <6>3. CASE ~complete
            BY <2>1, <3>1, <3>3, <5>2, <6>1, <6>3 DEF GivenFor
          <6> QED BY <6>2, <6>3
        <5> QED BY <3>5, <5>1, <5>2
      <4>3. t \notin ToSet(reader'.todo) => done \/ t \in Elsewhere
        BY <1>2, <2>1, <3>5
      <4>4. reader.split => reader'.split
        BY <2>1
      <4>5. reader'.split \in BOOLEAN
        BY <2>1
      <4>6. Right(reader.kind, IsInjective(reader.asked), reader'.split, t, p, t \notin ToSet(reader'.todo), n,
                  reader.result[t])
        <5> DEFINE kind == reader.kind
                   injective == IsInjective(reader.asked)
                   split == reader.split
                   split2 == reader'.split
                   done2 == t \notin ToSet(reader'.todo)
                   old == reader.result[t]
        <5>1. /\ Right(kind, injective, split, t, p, done, n, old) /\ split2 \in BOOLEAN
              /\ split => split2
              /\ done2 => done \/ t \in Elsewhere
              /\ kind \notin {"users", "revids"}
          BY <1>1, <3>1, <4>3, <4>4, <4>5
        <5> HIDE DEF p, n, done, kind, injective, split, split2, done2, old
        <5>2. Right(kind, injective, split2, t, p, done2, n, old)
          BY <5>1, UnansweredIsRight
        <5> QED BY <5>2 DEF kind, injective, split2, done2, old
      <4> QED BY <2>1, <3>1, <4>1, <4>2, <4>6 DEF RightSoFar
    <3>6. CASE t \in range /\ t \notin Elsewhere
      <4> DEFINE kind == reader.kind
                 injective == IsInjective(reader.asked)
                 split == reader.split
                 split2 == reader'.split
                 done2 == t \notin ToSet(reader'.todo)
                 old == reader.result[t]
                 new == Callback(kind, old, p, SubSeq(W, n + 1, n2))
      <4>1. n = IF Exists(p) THEN reader.given[p] ELSE 0
        BY <1>2, <3>6 DEF GivenFor
      <4>2. /\ Props(p, given) = SubSeq(W, n + 1, n2) /\ n \in Nat /\ n2 \in n .. Len(W)
            /\ complete => n2 = Len(W)
        <5>1. CASE Exists(p)
          <6>1. p \in DOMAIN PropsOf
            BY <5>1 DEF Exists
          <6>2. /\ reader.given[p] \in Nat /\ given[p] \in reader.given[p] .. Len(W) /\ Wanted(p) = W
                /\ complete => given[p] = Len(W)
            BY <1>1, <2>2, <3>2, <3>6, <6>1
          <6> HIDE DEF W, p, n
          <6> QED BY <4>1, <5>1, <6>2
        <5>2. CASE ~Exists(p)
          <6>1. W = <<>> /\ n = 0 /\ n2 = 0
            BY <4>1, <5>2 DEF ToGive
          <6> HIDE DEF W, p, n, n2
          <6>2. SubSeq(W, n + 1, n2) = <<>> /\ Len(W) = 0
            BY <6>1
          <6> QED BY <5>2, <6>1, <6>2
        <5> QED BY <5>1, <5>2
      <4>3. ~split2 => ~split /\ n = 0 /\ n2 = Len(W)
        <5>1. ~split2 => ~split /\ complete
          BY <2>1
        <5>2. ~split => reader.given = NothingGiven
          BY DEF ReaderInv, ReaderTypeOK
        <5>3. ~split => n = 0
          BY <3>4, <4>1, <5>2
        <5> QED BY <4>2, <5>1, <5>3
      <4>4. CASE kind \in {"links", "protections"} /\ ~injective
        BY <2>1, <4>4 DEF RightSoFar, Right
      <4>5. CASE injective \/ kind \notin {"links", "protections"}
        <5>1. reader'.result[t] = new
          <6>1. reader'.result[t] = Update(t, p, Props(p, given))
            <7>1. t \in AnsweredTitles
              BY <3>2, <3>6
            <7> HIDE DEF Props
            <7> QED BY <2>1, <3>1, <7>1
          <6>2. IsInjective(TitlesRange) \/ kind \in {"item", "size", "status", "revision"}
            BY <1>1, <1>2, <4>5 DEF ReaderInv, Kinds
          <6>3. \A props : Update(t, p, props) = Callback(kind, old, p, props)
            BY <1>2, <3>6, <6>2, UpdateIsCallback
          <6> HIDE DEF Props
          <6> QED BY <4>2, <6>1, <6>3
        <5>2. \A d : Right(kind, injective, split2, t, p, d, n2, new)
          <6>1. /\ kind \in {"links", "protections", "item", "size", "status", "revision"}
                /\ split \in BOOLEAN /\ split2 \in BOOLEAN
            BY <1>1, <2>1, <2>3 DEF ReaderInv, ReaderTypeOK, Kinds
          <6>2. Right(kind, injective, split, t, p, done, n, old)
            BY <3>1
          <6>3. /\ n \in Nat /\ n2 \in n .. Len(ToGive(kind, p))
                /\ ~split2 => ~split /\ n = 0 /\ n2 = Len(ToGive(kind, p))
            BY <4>2, <4>3
          <6>4. new = Callback(kind, old, p, SubSeq(ToGive(kind, p), n + 1, n2))
            OBVIOUS
          <6> HIDE DEF p, n, n2, done, kind, injective, split, split2, old, new
          <6> SUFFICES ASSUME NEW d  PROVE Right(kind, injective, split2, t, p, d, n2, new)
            OBVIOUS
          <6> QED BY <3>6, <6>1, <6>2, <6>3, <6>4, AnsweredIsRight
        <5>3. CASE ~complete
          <6>1. t \in ToSet(reader'.todo) /\ GivenFor(t)' = n2
            BY <1>2, <2>1, <3>1, <3>3, <3>6, <5>3 DEF GivenFor
          <6> QED BY <2>1, <3>1, <5>1, <5>2, <6>1 DEF RightSoFar
        <5>4. CASE complete /\ t \notin ToSet(OtherRanges)
          <6>1. t \notin ToSet(reader'.todo) /\ GivenFor(t)' = n2
            BY <2>1, <3>1, <4>2, <5>4 DEF GivenFor
          <6> QED BY <2>1, <3>1, <5>1, <5>2, <6>1 DEF RightSoFar
        <5>5. CASE complete /\ t \in ToSet(OtherRanges)
          <6>1. ~injective \/ kind \notin {"links", "protections"}
            BY <1>2, <3>6, <5>5 DEF ReaderInv
          <6>2. n2 = Len(ToGive(kind, p)) /\ Right(kind, injective, split2, t, p, TRUE, n2, new)
            BY <4>2, <5>2, <5>5
          <6>3. \A k : Right(kind, injective, split2, t, p, FALSE, k, new)
            <7> HIDE DEF p, n, n2, done, kind, injective, split, split2, old, new
            <7> QED BY <6>1, <6>2, RepeatedIsRight
          <6>4. (t \notin ToSet(reader.todo))' = FALSE
            BY <2>1, <5>5
          <6> QED BY <2>1, <3>1, <5>1, <6>3, <6>4 DEF RightSoFar
        <5> QED BY <5>3, <5>4, <5>5
      <4> QED BY <4>4, <4>5
    <3> QED BY <3>5, <3>6
  <2>6. TwoHops' => TwoHops
    BY <2>1 DEF TwoHops, PageOf, Resolved
  <2> QED BY <1>1, <2>1, <2>3, <2>4, <2>5, <2>6 DEF ReaderInv
<1> QED BY <1>5, <1>6

\* An answer about revisions.
LEMMA AnswerRevisionsKeepsInv ==
  ASSUME ReaderInv, AnswerRevisions
  PROVE  ReaderInv'
<1> DEFINE T == ToSet(reader.asked)
           range == ToSet(TitlesRange)
<1>1. /\ reader.status = "reading" /\ reader.kind = "revids" /\ reader.todo # <<>>
      /\ reader.todo \in Seq(T) /\ reader.result = [t \in T |-> reader.result[t]]
  BY DEF AnswerRevisions, ReaderInv, ReaderTypeOK
<1>2. /\ TitlesRange \in Seq(T) /\ OtherRanges \in Seq(T)
      /\ ToSet(reader.todo) = range \cup ToSet(OtherRanges)
  BY <1>1, RangesSplitTitles
<1>3. PICK given \in SUBSET {t \in range : Exists(t)} :
        reader' = [reader EXCEPT !.todo = OtherRanges,
                     !.split = @ \/ \E t \in range \ given : Exists(t),
                     !.result = [t \in DOMAIN @ |-> IF t \in given THEN <<t>> ELSE @[t]]]
  BY DEF AnswerRevisions
<1> DEFINE missed == \E t \in range \ given : Exists(t)
<1>4. /\ reader'.status = reader.status /\ reader'.kind = reader.kind /\ reader'.redirects = reader.redirects
      /\ reader'.asked = reader.asked /\ reader'.todo = OtherRanges /\ reader'.given = reader.given
      /\ reader'.split = (reader.split \/ missed)
      /\ reader'.result = [t \in T |-> IF t \in given THEN <<t>> ELSE reader.result[t]]
      /\ reader' = [status |-> reader'.status, kind |-> reader'.kind, redirects |-> reader'.redirects,
                    asked |-> reader'.asked, todo |-> reader'.todo, given |-> reader'.given,
                    split |-> reader'.split, result |-> reader'.result]
  <2>1. reader = [status |-> reader.status, kind |-> reader.kind, redirects |-> reader.redirects,
                  asked |-> reader.asked, todo |-> reader.todo, given |-> reader.given, split |-> reader.split,
                  result |-> reader.result]
    BY DEF ReaderInv, ReaderTypeOK
  <2>2. DOMAIN reader.result = T
    BY <1>1
  <2>3. reader' = [reader EXCEPT !.todo = OtherRanges, !.split = @ \/ missed,
                     !.result = [t \in DOMAIN @ |-> IF t \in given THEN <<t>> ELSE @[t]]]
    BY <1>3
  <2> HIDE DEF missed, T
  <2> QED BY <2>1, <2>2, <2>3
<1> HIDE DEF missed
<1>5. ReaderTypeOK'
  <2>1. reader'.todo \in Seq(ToSet(reader'.asked))
    BY <1>2, <1>4
  <2>2. reader'.split \in BOOLEAN /\ (~reader'.split => reader'.given = NothingGiven)
    BY <1>4 DEF ReaderInv, ReaderTypeOK, missed
  <2>3. reader'.result = [t \in ToSet(reader'.asked) |-> reader'.result[t]]
    BY <1>4
  <2>4. /\ reader'.status \in {"reading", "returned", "failed"} /\ reader'.kind \in Kinds
        /\ reader'.redirects \in RedirectMaps /\ reader'.asked \in Asked
        /\ reader'.given \in [DOMAIN PropsOf -> Nat]
    BY <1>4 DEF ReaderInv, ReaderTypeOK
  <2> QED BY <1>4, <2>1, <2>2, <2>3, <2>4 DEF ReaderTypeOK
<1>6. ASSUME TwoHops, NEW t \in T
      PROVE  RightSoFar(t)'
  <2>1. ~reader.split => IF Exists(t) THEN t \notin ToSet(reader.todo) => reader.result[t] = <<t>>
                         ELSE reader.result[t] = <<>>
    BY <1>1, <1>6 DEF ReaderInv, RightSoFar, Right
  <2>2. ~reader'.split => ~reader.split /\ \A r \in range : Exists(r) => r \in given
    BY <1>4 DEF missed
  <2>3. reader'.result[t] = IF t \in given THEN <<t>> ELSE reader.result[t]
    BY <1>4
  <2>4. t \in given => t \in range /\ Exists(t)
    BY <1>3
  <2>5. t \notin ToSet(reader'.todo) => t \in range \/ t \notin ToSet(reader.todo)
    BY <1>2, <1>4
  <2>6. ~reader'.split => IF Exists(t) THEN t \notin ToSet(reader'.todo) => reader'.result[t] = <<t>>
                          ELSE reader'.result[t] = <<>>
    BY <2>1, <2>2, <2>3, <2>4, <2>5
  <2> QED BY <1>1, <1>4, <2>6 DEF RightSoFar, Right
<1>7. TwoHops' => TwoHops
  BY <1>4 DEF TwoHops, PageOf, Resolved
<1> QED BY <1>1, <1>4, <1>5, <1>6, <1>7 DEF ReaderInv

\* An answer about users, or the exception about their number.
LEMMA AnswerUsersKeepsInv ==
  ASSUME ReaderInv, AnswerUsers
  PROVE  ReaderInv'
<1> DEFINE T == ToSet(reader.asked)
           range == TitlesRange
           answer == [k \in DOMAIN range |-> Normal(range[k])]
           Place(t) == CHOOSE k \in DOMAIN range : range[k] = t
           Stored(t) == IF t \in ToSet(range) THEN <<answer[Place(t)]>> ELSE reader.result[t]
<1>1. /\ reader.status = "reading" /\ reader.kind = "users" /\ reader.todo # <<>>
      /\ reader.todo \in Seq(T) /\ reader.result = [t \in T |-> reader.result[t]]
      /\ reader = [status |-> reader.status, kind |-> reader.kind, redirects |-> reader.redirects,
                   asked |-> reader.asked, todo |-> reader.todo, given |-> reader.given, split |-> reader.split,
                   result |-> reader.result]
  BY DEF AnswerUsers, ReaderInv, ReaderTypeOK
<1>2. /\ TitlesRange \in Seq(T) /\ OtherRanges \in Seq(T)
      /\ ToSet(reader.todo) = ToSet(range) \cup ToSet(OtherRanges)
  BY <1>1, RangesSplitTitles
<1>3. \/ reader' = [reader EXCEPT !.status = "failed"]
      \/ reader' = [reader EXCEPT !.todo = OtherRanges,
                       !.result = [t \in DOMAIN @ |-> IF t \in ToSet(range) THEN <<answer[Place(t)]>> ELSE @[t]]]
  BY DEF AnswerUsers
<1>4. \A t \in ToSet(range) : answer[Place(t)] = Normal(t)
  <2> SUFFICES ASSUME NEW t \in ToSet(range)  PROVE answer[Place(t)] = Normal(t)
    OBVIOUS
  <2>1. \E k \in DOMAIN range : range[k] = t
    BY DEF ToSet
  <2>2. Place(t) \in DOMAIN range /\ range[Place(t)] = t
    BY <2>1
  <2> HIDE DEF Place
  <2> QED BY <2>2
<1> HIDE DEF answer, Place
<1>5. CASE reader' = [reader EXCEPT !.status = "failed"]
  <2>1. ReaderTypeOK' /\ reader'.status = "failed" /\ reader'.kind = "users" /\ reader'.todo = reader.todo
    BY <1>1, <1>5 DEF ReaderInv, ReaderTypeOK
  <2> QED BY <2>1 DEF ReaderInv
<1>6. CASE reader' = [reader EXCEPT !.todo = OtherRanges,
                        !.result = [t \in DOMAIN @ |-> IF t \in ToSet(range) THEN <<answer[Place(t)]>> ELSE @[t]]]
  <2>1. /\ reader'.status = reader.status /\ reader'.kind = reader.kind /\ reader'.redirects = reader.redirects
        /\ reader'.asked = reader.asked /\ reader'.todo = OtherRanges /\ reader'.given = reader.given
        /\ reader'.split = reader.split /\ reader'.result = [t \in T |-> Stored(t)]
        /\ reader' = [status |-> reader'.status, kind |-> reader'.kind, redirects |-> reader'.redirects,
                      asked |-> reader'.asked, todo |-> reader'.todo, given |-> reader'.given,
                      split |-> reader'.split, result |-> reader'.result]
    <3>1. DOMAIN reader.result = T
      BY <1>1
    <3> HIDE DEF T, range
    <3> QED BY <1>1, <1>6, <3>1
  <2>2. ReaderTypeOK'
    <3>1. reader'.todo \in Seq(ToSet(reader'.asked))
      BY <1>2, <2>1
    <3>2. reader'.result = [t \in ToSet(reader'.asked) |-> reader'.result[t]]
      <4> HIDE DEF Stored
      <4> QED BY <2>1
    <3>3. /\ reader'.status \in {"reading", "returned", "failed"} /\ reader'.kind \in Kinds
          /\ reader'.redirects \in RedirectMaps /\ reader'.asked \in Asked
          /\ reader'.given \in [DOMAIN PropsOf -> Nat]
          /\ reader'.split \in BOOLEAN /\ (~reader'.split => reader'.given = NothingGiven)
      BY <2>1 DEF ReaderInv, ReaderTypeOK
    <3> QED BY <2>1, <3>1, <3>2, <3>3 DEF ReaderTypeOK
  <2>3. ASSUME TwoHops, NEW t \in T
        PROVE  RightSoFar(t)'
    <3>1. t \notin ToSet(reader.todo) => reader.result[t] = <<Normal(t)>>
      BY <1>1, <2>3 DEF ReaderInv, RightSoFar, Right
    <3>2. reader'.result[t] = Stored(t)
      BY <2>1
    <3>3. t \in ToSet(range) => reader'.result[t] = <<Normal(t)>>
      BY <1>4, <3>2
    <3>4. t \notin ToSet(reader'.todo) => reader'.result[t] = <<Normal(t)>>
      BY <1>2, <2>1, <3>1, <3>2, <3>3
    <3> QED BY <1>1, <2>1, <3>4 DEF RightSoFar, Right
  <2>4. TwoHops' => TwoHops
    BY <2>1 DEF TwoHops, PageOf, Resolved
  <2> QED BY <1>1, <2>1, <2>2, <2>3, <2>4 DEF ReaderInv
<1> QED BY <1>3, <1>5, <1>6

\* The end of the call.
LEMMA ReadReturnsKeepsInv ==
  ASSUME ReaderInv, ReadReturns
  PROVE  ReaderInv'
<1>1. /\ reader'.status = "returned" /\ reader'.kind = reader.kind /\ reader'.redirects = reader.redirects
      /\ reader'.asked = reader.asked /\ reader'.todo = reader.todo /\ reader'.given = reader.given
      /\ reader'.split = reader.split /\ reader'.result = reader.result
      /\ reader' = [status |-> reader'.status, kind |-> reader'.kind, redirects |-> reader'.redirects,
                    asked |-> reader'.asked, todo |-> reader'.todo, given |-> reader'.given,
                    split |-> reader'.split, result |-> reader'.result]
      /\ reader.todo = <<>> /\ reader.status = "reading"
  BY DEF ReadReturns, ReaderInv, ReaderTypeOK
<1>2. ReaderTypeOK'
  BY <1>1 DEF ReaderInv, ReaderTypeOK
<1>3. TwoHops' => TwoHops
  BY <1>1 DEF TwoHops, PageOf, Resolved
<1>4. TitlesRange' = TitlesRange
  BY <1>1 DEF TitlesRange, RangeSize
<1>5. ASSUME NEW t, RightSoFar(t)  PROVE RightSoFar(t)'
  BY <1>1, <1>4, <1>5 DEF RightSoFar, GivenFor, PageOf
<1> QED BY <1>1, <1>2, <1>3, <1>5 DEF ReaderInv

\* What has been read at the end is what the wiki has, as readPage and readRevision read it.
LEMMA ReaderInvIsEnough ==
  ASSUME reader.status # "idle" => ReaderInv
  PROVE  PagesAreReadCompletely
<1> DEFINE T == ToSet(reader.asked)
           Props(t) == IF Exists(PageOf(t)) THEN PropsOf[PageOf(t)] ELSE <<>>
           First(t) == IF Exists(PageOf(t)) THEN FirstProp(PageOf(t)) ELSE <<>>
           Correct(t) ==
             /\ reader.kind = "links" /\ IsInjective(reader.asked) => reader.result[t] = Props(t)
             /\ reader.kind = "protections" /\ IsInjective(reader.asked) => reader.result[t] = Supported(Props(t))
             /\ reader.kind \in {"item", "size"} => reader.result[t] = First(t)
             /\ reader.kind = "status" /\ ~reader.split =>
                  reader.result[t] = IF t \in Elsewhere THEN <<>> ELSE <<Props(t) # <<>>>>
             /\ reader.kind = "revision" /\ ~reader.split /\ PageOf(t) \notin SpecialTitles =>
                  reader.result[t] = <<GetSinglePage(IF DOMAIN reader.redirects = {} THEN t ELSE PageOf(t))>>
             /\ reader.kind = "users" => reader.result[t] = <<Normal(t)>>
             /\ reader.kind = "revids" /\ ~reader.split => reader.result[t] = ReadRevision(t)
<1>1. reader.status = "failed" => ~TwoHops \/ reader.kind = "users"
  BY DEF ReaderInv
<1>2. ASSUME reader.status = "returned", TwoHops, NEW t \in T
      PROVE  Correct(t)
  <2> DEFINE p == PageOf(t)
             W == ToGive(reader.kind, p)
  <2>1. ReaderInv /\ reader.todo = <<>> /\ t \notin ToSet(reader.todo) /\ p = Resolved(t)
    BY <1>2 DEF ReaderInv, TwoHops, ToSet
  <2>2. Right(reader.kind, IsInjective(reader.asked), reader.split, t, p, TRUE, Len(W), reader.result[t])
    <3>1. RightSoFar(t)
      BY <1>2, <2>1 DEF ReaderInv
    <3>2. GivenFor(t) = Len(W) /\ (t \notin ToSet(reader.todo)) = TRUE
      BY <2>1 DEF GivenFor
    <3> QED BY <3>1, <3>2 DEF RightSoFar
  <2>3. W \in Seq(AllProps) /\ SubSeq(W, 1, Len(W)) = W
    <3>1. W \in Seq(AllProps)
      BY ToGiveProperties
    <3> HIDE DEF W
    <3> QED BY <3>1
  <2>4. W = IF reader.kind \in {"links", "protections"} THEN Props(t) ELSE First(t)
    BY DEF ToGive
  <2>5. reader.kind = "links" /\ IsInjective(reader.asked) => reader.result[t] = Props(t)
    BY <2>2, <2>3, <2>4 DEF Right
  <2>6. reader.kind = "protections" /\ IsInjective(reader.asked) => reader.result[t] = Supported(Props(t))
    BY <2>2, <2>3, <2>4 DEF Right
  <2>7. reader.kind \in {"item", "size"} => reader.result[t] = First(t)
    BY <2>2, <2>4 DEF Right
  <2>8. /\ t \in Elsewhere => Normal(t) = t /\ p = t
        /\ t \notin Elsewhere => p \notin Elsewhere
        /\ t \in Elsewhere => ~Exists(p)
        /\ p \notin DOMAIN NormalForm
        /\ DOMAIN reader.redirects = {} => Normal(t) = p
    <3>1. reader.redirects \in RedirectMaps
      BY <2>1 DEF ReaderInv, ReaderTypeOK
    <3>2. Normal(t) \notin DOMAIN NormalForm
      BY TitlesAreLocal DEF Normal, Follow
    <3>3. \A x : x \notin DOMAIN NormalForm => Follow(reader.redirects, x) \notin DOMAIN NormalForm
      BY <3>1, TitlesAreLocal DEF Follow
    <3>4. Resolved(t) \notin DOMAIN NormalForm
      BY <3>2, <3>3 DEF Resolved, FollowTwice
    <3>5. DOMAIN reader.redirects = {} => Normal(t) = Resolved(t)
      BY DEF Resolved, FollowTwice, Follow
    <3> QED BY <2>1, <3>1, <3>4, <3>5, PagesAreLocal
  <2>9. FirstProp(p) # <<>> <=> PropsOf[p] # <<>>
    BY DEF FirstProp
  <2>10. ASSUME reader.kind = "status", ~reader.split
         PROVE  reader.result[t] = IF t \in Elsewhere THEN <<>> ELSE <<Props(t) # <<>>>>
    <3>1. W # <<>> <=> Props(t) # <<>>
      BY <2>4, <2>9, <2>10
    <3>2. (W # <<>>) = (Props(t) # <<>>)
      BY <3>1
    <3> QED BY <2>2, <2>10, <3>2 DEF Right
  <2>11. ASSUME reader.kind = "revision", ~reader.split, p \notin SpecialTitles
         PROVE  reader.result[t] = <<GetSinglePage(IF DOMAIN reader.redirects = {} THEN t ELSE PageOf(t))>>
    <3> DEFINE asked == IF DOMAIN reader.redirects = {} THEN t ELSE PageOf(t)
    <3>1. Normal(asked) = p
      <4>1. Normal(p) = p
        BY <2>8 DEF Normal, Follow
      <4> QED BY <2>8, <4>1
    <3>2. CASE t \in Elsewhere
      <4>1. GetSinglePage(asked) = Invalid
        BY <2>8, <3>1, <3>2 DEF GetSinglePage
      <4> QED BY <2>2, <2>11, <3>2, <4>1 DEF Right
    <3>3. CASE t \notin Elsewhere
      <4>1. reader.result[t] = ReadPages(<<>>, p, W)
        BY <2>2, <2>11, <3>3 DEF Right
      <4>2. p \notin Elsewhere \cup SpecialTitles
        BY <2>8, <2>11, <3>3
      <4>3. CASE Exists(p)
        <5>1. W = FirstProp(p)
          BY <2>4, <2>11, <4>3
        <5>2. GetSinglePage(asked) = IF PropsOf[p] = <<>> THEN NoRevision ELSE PropsOf[p][1]
          BY <3>1, <4>2, <4>3 DEF GetSinglePage
        <5>3. ReadPages(<<>>, p, W) = IF PropsOf[p] = <<>> THEN <<NoRevision>> ELSE <<PropsOf[p][1]>>
          BY <4>3, <5>1 DEF ReadPages, FirstProp
        <5> QED BY <4>1, <5>2, <5>3
      <4>4. CASE ~Exists(p)
        <5>1. GetSinglePage(asked) = NotFound
          BY <3>1, <4>2, <4>4 DEF GetSinglePage
        <5>2. ReadPages(<<>>, p, W) = <<NotFound>>
          BY <4>2, <4>4 DEF ReadPages
        <5> QED BY <4>1, <5>1, <5>2
      <4> QED BY <4>3, <4>4
    <3> QED BY <3>2, <3>3
  <2>12. reader.kind = "users" => reader.result[t] = <<Normal(t)>>
    BY <2>2 DEF Right
  <2>13. reader.kind = "revids" /\ ~reader.split => reader.result[t] = ReadRevision(t)
    BY <2>2 DEF Right, ReadRevision
  <2> QED BY <2>5, <2>6, <2>7, <2>10, <2>11, <2>12, <2>13
<1> HIDE DEF Correct
<1>3. /\ reader.status = "failed" => ~TwoHops \/ reader.kind = "users"
      /\ reader.status = "returned" /\ TwoHops => \A t \in T : Correct(t)
  BY <1>1, <1>2
<1> QED BY <1>3 DEF PagesAreReadCompletely, Correct, TwoHops, PageOf, Resolved, FollowTwice

\* Reading about several pages at once gives what reading about each of them gives: the invariant
\* PagesAreReadCompletely holds for all questions, limits, redirects and answers of the wiki.
THEOREM ManyPagesAreReadAsOne == ReaderSpec => []PagesAreReadCompletely
<1> DEFINE Inv == reader.status # "idle" => ReaderInv
<1>1. ReaderInit => Inv
  BY DEF ReaderInit
<1>2. Inv /\ [ReaderNext]_reader => Inv'
  <2> SUFFICES ASSUME Inv, [ReaderNext]_reader  PROVE Inv'
    OBVIOUS
  <2>1. CASE StartReading
    BY <2>1, StartReadingKeepsInv
  <2>2. CASE AnswerPages
    <3>1. ReaderInv
      BY <2>2 DEF AnswerPages
    <3> QED BY <2>2, <3>1, AnswerPagesKeepsInv
  <2>3. CASE AnswerRevisions
    <3>1. ReaderInv
      BY <2>3 DEF AnswerRevisions
    <3> QED BY <2>3, <3>1, AnswerRevisionsKeepsInv
  <2>4. CASE AnswerUsers
    <3>1. ReaderInv
      BY <2>4 DEF AnswerUsers
    <3> QED BY <2>4, <3>1, AnswerUsersKeepsInv
  <2>5. CASE ReadReturns
    <3>1. ReaderInv
      BY <2>5 DEF ReadReturns
    <3> QED BY <2>5, <3>1, ReadReturnsKeepsInv
  <2>6. CASE UNCHANGED reader
    BY <2>6 DEF ReaderInv, ReaderTypeOK, RightSoFar, GivenFor, TwoHops, PageOf, Resolved, TitlesRange, RangeSize
  <2> QED BY <2>1, <2>2, <2>3, <2>4, <2>5, <2>6 DEF ReaderNext
<1>3. Inv => PagesAreReadCompletely
  BY ReaderInvIsEnough
<1> QED BY <1>1, <1>2, <1>3, PTL DEF ReaderSpec
===============================================================================
