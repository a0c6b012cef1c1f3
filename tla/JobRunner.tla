------------------------------ MODULE JobRunner ------------------------------
(***************************************************************************)
(* A JobQueue, a table of jobs in a SQLite database, and the processes     *)
(* that call runJobs on it.  Each method of JobQueue is one transaction;   *)
(* between two of them a runner keeps copies of the jobs of its batch      *)
(* while other processes insert, replace, remove and run jobs.             *)
(***************************************************************************)
EXTENDS JobOrder, Sequences

CONSTANTS
  Runners,             \* processes that run runJobs
  Handlers,            \* handlers that jobs may name
  KnownHandlers,       \* those that are registered
  BatchSize,           \* maxBatchSize of each handler (1000 for an unknown one)
  Requests,            \* jobs that clients insert
  Modes,               \* the insertion modes they use
  Quotas,              \* RunJobOptions::maxCount
  DryRuns,             \* RunJobOptions::dryRun
  SkipLimit,           \* rows with another handler after which a batch is closed: 10
  MinRetryDelay,       \* 3 minutes
  MaxRetryDelay,       \* 200 days
  BackoffRandomness,   \* in percent: 50
  ErrorDelays,         \* JobExecutionError::minRetryDelay
  ErrorPriorities,     \* JobExecutionError::newPriority
  Cancellations,       \* sets of ids that clients remove
  MaxJobs,             \* bound: jobs ever inserted
  MaxMishaps,          \* bound: crashes and failures
  MaxMishapClock,      \* bound: none happens after that time
  MaxInsertClock,      \* bound: no job is inserted after that time
  MaxClock             \* bound: the clock stops there

NullDate == 0            \* run_after of a job that may run at once
Never == MaxClock + 1    \* the year 3000
Forever == -1            \* INFINITE_DELAY
SamePriority == -1       \* no newPriority
AllModes == {"IGNORE_DUPS", "OVERWRITE_IF_EXISTS", "IGNORE_IF_EXISTS"}

ASSUME NumbersAreNatural ==
  /\ Quotas \subseteq Nat \ {0} /\ DryRuns \subseteq BOOLEAN
  /\ SkipLimit \in Nat /\ BackoffRandomness \in Nat
  /\ MinRetryDelay \in Nat /\ MaxRetryDelay \in Nat
  /\ MaxJobs \in Nat /\ MaxMishaps \in Nat
  /\ MaxMishapClock \in Nat /\ MaxInsertClock \in Nat /\ MaxClock \in Nat
ASSUME RequestsAreTyped ==
  /\ KnownHandlers \subseteq Handlers
  /\ BatchSize \in [Handlers -> Nat]
  /\ Requests \subseteq [handler : Handlers, key : STRING, priority : Nat, delay : Nat]
  /\ Modes \subseteq AllModes
  /\ ErrorDelays \subseteq Nat \cup {Forever}
  /\ ErrorPriorities \subseteq Nat \cup {SamePriority}
  /\ Cancellations \subseteq SUBSET Nat

VARIABLES
  clock,        \* Date::now()
  jobs,         \* the table job: id -> row
  newestFirst,  \* the flag start_from_most_recent
  run,          \* what each call of runJobs holds in memory
  \* History
  inserted,     \* the request behind each id ever assigned
  ran,          \* ids whose handler has completed
  cancelled,    \* ids that a client removed
  tried,        \* when each job was last given to its handler, and the gap it is owed before the next try
  missed,       \* batches in a row that left the oldest job out
  mishaps       \* crashes and failures so far

queueVars == <<jobs, newestFirst>>
history == <<inserted, ran, cancelled, tried, missed, mishaps>>
vars == <<clock, queueVars, run, history>>

Ids == 1..Len(inserted)

Smaller(a, b) == IF a < b THEN a ELSE b
Larger(a, b) == IF a > b THEN a ELSE b

NoTries == [unfinished |-> 0, failed |-> 0]  \* retryDelay in unfinishedAttempts and failedAttempts
NotTried == [at |-> 0, gap |-> 0]

CountMishap ==
  /\ mishaps < MaxMishaps /\ clock <= MaxMishapClock
  /\ mishaps' = mishaps + 1

Tick ==
  /\ clock < MaxClock
  /\ clock' = clock + 1
  /\ UNCHANGED <<queueVars, run, history>>

(***************************************************************************)
(* JobQueue, called by clients.                                            *)
(***************************************************************************)
Without(q, ids) == [i \in DOMAIN q \ ids |-> q[i]]

SameJob(i, request) ==
  inserted[i].handler = request.handler /\ inserted[i].key = request.key
DuplicateKeys(request) == {i \in DOMAIN jobs : inserted[i].key = request.key}  \* mutant
Duplicates(request) == {i \in DOMAIN jobs : SameJob(i, request)}

\* The new id is the next one: AUTOINCREMENT.
InsertJob(request, mode) ==
  LET new == Len(inserted) + 1
      replaced == IF mode = "OVERWRITE_IF_EXISTS" THEN Duplicates(request) ELSE {}
      row == [priority |-> request.priority,
              runAfter |-> IF request.delay = 0 THEN NullDate ELSE clock + request.delay,
              ready |-> FALSE, tries |-> NoTries]
  IN  /\ new <= MaxJobs /\ clock <= MaxInsertClock
      /\ mode = "IGNORE_IF_EXISTS" => Duplicates(request) = {}
      /\ jobs' = [i \in (DOMAIN jobs \ replaced) \cup {new} |-> IF i = new THEN row ELSE jobs[i]]
      /\ inserted' = Append(inserted, [handler |-> request.handler, key |-> request.key,
                                       mode |-> mode])
      /\ missed' = IF replaced = {} THEN missed ELSE 0
      /\ UNCHANGED <<clock, newestFirst, run, ran, cancelled, tried, mishaps>>

\* removeJobs: the flag is kept up to date for a single job only.
RemoveJobs(ids) ==
  /\ ids # {} /\ ids \subseteq DOMAIN jobs
  /\ newestFirst' = IF Cardinality(ids) = 1
                    THEN FlagAfter(jobs, newestFirst, CHOOSE i \in ids : TRUE)
                    ELSE newestFirst
  /\ jobs' = Without(jobs, ids)
  /\ cancelled' = cancelled \cup ids
  /\ missed' = 0
  /\ UNCHANGED <<clock, run, inserted, ran, tried, mishaps>>

ReinsertedWhenGone(q, R) ==  \* mutant: a row that was removed meanwhile is written again
  [i \in DOMAIN q \cup {x.id : x \in R} |->
     IF \E x \in R : x.id = i
       THEN LET x == CHOOSE x \in R : x.id = i
            IN  [priority |-> 0, runAfter |-> x.runAfter, ready |-> FALSE, tries |-> x.tries]
       ELSE q[i]]
StillReady(q, R) ==  \* mutant: can_be_processed is not reset
  [i \in DOMAIN q |->
     IF \E x \in R : x.id = i
       THEN [q[i] EXCEPT !.runAfter = (CHOOSE x \in R : x.id = i).runAfter]
       ELSE q[i]]
\* rescheduleJobs writes what the caller remembers of the attempts over what the row holds.
Rescheduled(q, R) ==
  [i \in DOMAIN q |->
     IF \E x \in R : x.id = i
       THEN LET x == CHOOSE x \in R : x.id = i
            IN  [priority |-> IF x.priority = SamePriority THEN q[i].priority ELSE x.priority,
                 runAfter |-> x.runAfter, ready |-> FALSE, tries |-> x.tries]
       ELSE q[i]]

\* All reschedulings but the last are written when the flag is computed.
RescheduleJobs(R, last) ==
  /\ jobs' = Rescheduled(jobs, R)
  /\ newestFirst' = FlagAfter(Rescheduled(jobs, {x \in R : x.id # last}), newestFirst, last)

(***************************************************************************)
(* runJobs.                                                                *)
(***************************************************************************)
NoRun == [pc |-> "idle", quota |-> 0, dry |-> FALSE, batch |-> {}]

Current(r) ==  \* the job of the batch whose turn it is
  CHOOSE x \in run[r].batch : \A y \in run[r].batch : x.place <= y.place
LastOf(batch) == CHOOSE x \in batch : \A y \in batch : y.place <= x.place
IdsOf(batch) == {x.id : x \in batch}

GoTo(r, pc) == run' = [run EXCEPT ![r].pc = pc]
DropCurrent(r, pc) ==
  LET rest == run[r].batch \ {Current(r)}
  IN  run' = [run EXCEPT ![r].pc = pc, ![r].batch = rest]

StartRunner(r, quota, dry) ==
  /\ run[r].pc = "idle"
  /\ run' = [run EXCEPT ![r] = [pc |-> "checking", quota |-> quota, dry |-> dry, batch |-> {}]]
  /\ UNCHANGED <<clock, queueVars, history>>

SomeJobIsReady == Ready(jobs) # {}  \* mutant: jobs that became due are not looked at
\* getFirstJobDate says that a job may run now.
SomeJobIsDue ==
  \/ Ready(jobs) # {}
  \/ \E i \in DOMAIN jobs : jobs[i].runAfter <= clock

\* The head of the loop of runJobs.
CheckQueue(r) ==
  /\ run[r].pc = "checking"
  /\ IF run[r].quota > 0 /\ SomeJobIsDue
       THEN GoTo(r, "picking")
       ELSE run' = [run EXCEPT ![r] = NoRun]
  /\ UNCHANGED <<clock, queueVars, history>>

\* enumerateJobsToRun first marks the jobs that became due.
WithDueJobs(q) == [i \in DOMAIN q |-> [q[i] EXCEPT !.ready = @ \/ q[i].runAfter <= clock]]

LimitWithoutQuota(r, handler) ==  \* mutant
  IF handler \in KnownHandlers THEN BatchSize[handler] ELSE 1000
Limit(r, handler) ==
  Smaller(run[r].quota, IF handler \in KnownHandlers THEN BatchSize[handler] ELSE 1000)

\* The ids the callback of runOneBatchOfJobs keeps: the first, then those with the same priority and
\* handler, until the limit or too many others in a row.
Picked(r, q) ==
  LET Turn(i) == Place(q, newestFirst, i)
      first == CHOOSE i \in Ready(q) : Turn(i) = 1
      handler == inserted[first].handler
      matching == {i \in SameLevel(q, first) : inserted[i].handler = handler}
      FollowsClosely(i) == \E k \in matching : Turn(k) < Turn(i) /\ Turn(i) <= Turn(k) + SkipLimit
      reached == {i \in matching : \A k \in matching :
                     Turn(k) <= Turn(i) => k = first \/ FollowsClosely(k)}
  IN  {i \in reached :
         \/ i = first
         \/ Cardinality({k \in reached : Turn(k) < Turn(i)}) < Limit(r, handler)}

NextStep(r, picked) ==
  IF \E i \in picked : inserted[i].handler \notin KnownHandlers THEN "discarding"
  ELSE IF run[r].dry THEN "starting" ELSE "reserving"

QuotaKept(r, picked) == run[r].quota  \* mutant: maxCount is not decremented
QuotaLeft(r, picked) == run[r].quota - Cardinality(picked)

\* Without a ready job (another runner took them) the loop of runJobs goes on.
PickBatch(r) ==
  LET q == WithDueJobs(jobs)
      picked == IF Ready(q) = {} THEN {} ELSE Picked(r, q)
      copies == {[id |-> i, place |-> Place(q, newestFirst, i), tries |-> q[i].tries] : i \in picked}
  IN  /\ run[r].pc = "picking"
      /\ jobs' = q
      /\ run' = [run EXCEPT
           ![r] = [@ EXCEPT !.pc = IF picked = {} THEN "checking" ELSE NextStep(r, picked),
                            !.quota = QuotaLeft(r, picked), !.batch = copies]]
      /\ UNCHANGED <<clock, newestFirst, history>>

\* Jobs of an unknown handler are removed one by one.
DiscardJob(r) ==
  LET i == Current(r).id
  IN  /\ run[r].pc = "discarding" /\ run[r].batch # {}
      /\ IF run[r].dry
           THEN UNCHANGED <<queueVars, missed>>
           ELSE /\ jobs' = Without(jobs, {i})
                /\ newestFirst' = FlagAfter(jobs, newestFirst, i)
                /\ missed' = IF IsFirst(jobs, i) THEN 0 ELSE missed
      /\ DropCurrent(r, "discarding")
      /\ UNCHANGED <<clock, inserted, ran, cancelled, tried, mishaps>>

RetryDelaysWithoutBackoff(minimum, old) == {Larger(minimum, MinRetryDelay)}  \* mutant
\* randomizeDelay(max(lower bound, twice the old delay), backoffRandomness)
RetryDelays(minimum, old) ==
  LET delay == Larger(Larger(minimum, MinRetryDelay), Smaller(2 * old, MaxRetryDelay))
  IN  delay..(delay + (delay * BackoffRandomness) \div 100)

\* History: each try of a job without an end doubles the gap before the next one, up to the limit.
NextGap(gap) == Smaller(Larger(MinRetryDelay, 2 * gap), MaxRetryDelay)

\* rescheduleBeforeTrying for each job of the batch, in one transaction.
Reserve(r) ==
  LET batch == run[r].batch
  IN  /\ run[r].pc = "reserving"
      /\ \E delay \in [batch -> UNION {RetryDelays(0, x.tries.unfinished) : x \in batch}] :
           /\ \A x \in batch : delay[x] \in RetryDelays(0, x.tries.unfinished)
           /\ RescheduleJobs(
                {[id |-> x.id, priority |-> SamePriority, runAfter |-> clock + delay[x],
                  tries |-> [x.tries EXCEPT !.unfinished = delay[x]]] : x \in batch},
                LastOf(batch).id)
      /\ GoTo(r, "starting")
      /\ tried' = [i \in DOMAIN tried |->
            IF i \in IdsOf(batch) THEN [at |-> clock, gap |-> NextGap(tried[i].gap)]
            ELSE tried[i]]
      /\ missed' = IF \E i \in IdsOf(batch) : IsFirst(jobs, i) THEN 0
                   ELSE IF Ready(jobs) = {} \/ LastOf(batch).id \notin Ready(jobs) THEN missed
                   ELSE missed + 1
      /\ UNCHANGED <<clock, inserted, ran, cancelled, mishaps>>

StartBatch(r) ==
  /\ run[r].pc = "starting"
  /\ GoTo(r, "working")
  /\ UNCHANGED <<clock, queueVars, history>>

OldDelayAsStored(delay) == delay  \* mutant
\* retryDelay as rescheduleHelper reads it back: "infinite" is no number and counts as 0.
OldDelay(delay) == IF delay = Forever THEN 0 ELSE delay

\* rescheduleAfterFailure, nothing in a dry run.
RescheduleFailed(r, x, minimum, priority) ==
  /\ CountMishap
  /\ IF run[r].dry THEN UNCHANGED <<queueVars, tried>>
     ELSE /\ \E delay \in (IF minimum = Forever THEN {Forever} ELSE RetryDelays(minimum, x.tries.failed)) :
               RescheduleJobs(
                 {[id |-> x.id, priority |-> priority,
                   runAfter |-> IF delay = Forever THEN Never ELSE clock + delay,
                   tries |-> [unfinished |-> 0, failed |-> OldDelay(delay)]]},
                 x.id)
          /\ tried' = [tried EXCEPT ![x.id] = NotTried]
  /\ UNCHANGED <<clock, inserted, ran, cancelled, missed>>

\* startBatch threw on a single job: as if its run had failed.
FailSingle(r, minimum, priority) ==
  /\ run[r].pc = "starting" /\ Cardinality(run[r].batch) = 1
  /\ RescheduleFailed(r, Current(r), minimum, priority)
  /\ DropCurrent(r, "checking")

\* startBatch threw on several jobs: the second half goes back to the queue, the first is tried again.
SplitBatch(r) ==
  LET batch == run[r].batch
      kept == {x \in batch : Cardinality({y \in batch : y.place < x.place})
                               < Cardinality(batch) \div 2}
      back == batch \ kept
  IN  /\ run[r].pc = "starting" /\ Cardinality(batch) > 1
      /\ CountMishap
      /\ run' = [run EXCEPT ![r].batch = kept]
      /\ IF run[r].dry THEN UNCHANGED <<queueVars, tried>>
         ELSE /\ RescheduleJobs({[id |-> x.id, priority |-> SamePriority, runAfter |-> NullDate,
                                  tries |-> x.tries] : x \in back}, LastOf(back).id)
              /\ tried' = [i \in DOMAIN tried |->
                             IF i \in IdsOf(back) THEN NotTried ELSE tried[i]]
      /\ UNCHANGED <<clock, inserted, ran, cancelled, missed>>

BeginJob(r) ==
  /\ run[r].pc = "working" /\ run[r].batch # {}
  /\ GoTo(r, "running")
  /\ UNCHANGED <<clock, queueVars, history>>

\* The handler returned; in a dry run it did nothing and the job stays.
FinishJob(r) ==
  /\ run[r].pc = "running"
  /\ IF run[r].dry THEN DropCurrent(r, "working") /\ UNCHANGED ran
     ELSE GoTo(r, "removing") /\ ran' = ran \cup {Current(r).id}
  /\ UNCHANGED <<clock, queueVars, inserted, cancelled, tried, missed, mishaps>>

RemoveFinished(r) ==
  LET i == Current(r).id
  IN  /\ run[r].pc = "removing"
      /\ jobs' = Without(jobs, {i})
      /\ newestFirst' = FlagAfter(jobs, newestFirst, i)
      /\ DropCurrent(r, "working")
      /\ UNCHANGED <<clock, history>>

FailJob(r, minimum, priority) ==
  /\ run[r].pc = "running"
  /\ RescheduleFailed(r, Current(r), minimum, priority)
  /\ DropCurrent(r, "working")

\* endBatch, or the end of the loop over jobs of an unknown handler.
EndBatch(r) ==
  /\ run[r].pc \in {"working", "discarding"} /\ run[r].batch = {}
  /\ GoTo(r, "checking")
  /\ UNCHANGED <<clock, queueVars, history>>

\* The process dies; an exception other than a JobExecutionError ends it too.
Crash(r) ==
  /\ run[r].pc # "idle"
  /\ CountMishap
  /\ run' = [run EXCEPT ![r] = NoRun]
  /\ UNCHANGED <<clock, queueVars, inserted, ran, cancelled, tried, missed>>

Init ==
  /\ clock = 0
  /\ jobs = <<>>
  /\ newestFirst = FALSE
  /\ run = [r \in Runners |-> NoRun]
  /\ inserted = <<>>
  /\ ran = {}
  /\ cancelled = {}
  /\ tried = [i \in 1..MaxJobs |-> NotTried]
  /\ missed = 0
  /\ mishaps = 0

ClientStep ==
  \/ \E request \in Requests, mode \in Modes : InsertJob(request, mode)
  \/ \E ids \in Cancellations : RemoveJobs(ids)

Start(r) == \E quota \in Quotas, dry \in DryRuns : StartRunner(r, quota, dry)

Work(r) ==
  \/ CheckQueue(r) \/ PickBatch(r) \/ DiscardJob(r) \/ Reserve(r) \/ StartBatch(r)
  \/ BeginJob(r) \/ FinishJob(r) \/ RemoveFinished(r) \/ EndBatch(r)

Mishap(r) ==
  \/ \E minimum \in ErrorDelays, priority \in ErrorPriorities :
        FailSingle(r, minimum, priority) \/ FailJob(r, minimum, priority)
  \/ SplitBatch(r)
  \/ Crash(r)

Next == Tick \/ ClientStep \/ \E r \in Runners : Start(r) \/ Work(r) \/ Mishap(r)

Spec == Init /\ [][Next]_vars

\* runJobs is started for good again and again (cron), whatever dry runs are tried by hand in
\* between, and a process that does not die goes on.
StartForGood(r) == \E quota \in Quotas : StartRunner(r, quota, FALSE)
Fairness ==
  WF_vars(Tick) /\ \A r \in Runners : SF_vars(StartForGood(r)) /\ WF_vars(Work(r))
FairSpec == Spec /\ Fairness

(***************************************************************************)
(* Properties.                                                             *)
(***************************************************************************)
RowRecords == [priority : Nat, runAfter : Nat, ready : BOOLEAN,
               tries : [unfinished : Nat, failed : Nat]]
CopyRecords(ids) == [id : ids, place : Nat \ {0}, tries : [unfinished : Nat, failed : Nat]]
RunRecords(ids) ==
  [pc : {"idle", "checking", "picking", "discarding", "reserving", "starting", "working",
         "running", "removing"},
   quota : Int, dry : BOOLEAN, batch : SUBSET CopyRecords(ids)]

TypeOK ==
  /\ clock \in 0..MaxClock
  /\ inserted \in Seq([handler : Handlers, key : STRING, mode : AllModes])
  /\ Len(inserted) <= MaxJobs
  /\ jobs \in [DOMAIN jobs -> RowRecords] /\ DOMAIN jobs \subseteq Ids
  /\ newestFirst \in BOOLEAN
  /\ run \in [Runners -> RunRecords(Ids)]
  /\ ran \subseteq Ids /\ cancelled \subseteq Ids
  /\ tried \in [1..MaxJobs -> [at : 0..MaxClock, gap : Nat]]
  /\ missed \in Nat
  /\ mishaps \in 0..MaxMishaps

\* Request k asked for the jobs with the handler and key of the older id i to be replaced.
Replaces(k, i) ==
  /\ i < k /\ inserted[k].mode = "OVERWRITE_IF_EXISTS"
  /\ inserted[k].handler = inserted[i].handler /\ inserted[k].key = inserted[i].key

\* A call of runJobs reads no more than maxCount jobs.
QuotaIsKept == \A r \in Runners : run[r].quota >= 0

\* A job leaves the table only when its handler has completed, a client removed or replaced it, or
\* nobody can run it: no crash, failure, split or second runner makes it disappear.
NoJobLost ==
  \A i \in Ids :
     \/ i \in DOMAIN jobs \cup ran \cup cancelled
     \/ inserted[i].handler \notin KnownHandlers
     \/ \E k \in Ids : Replaces(k, i)

\* A runner works on copies: it may still run a job that was replaced meanwhile, but never after
\* the job that replaced it, so that the last run for a page is the one last asked for.
ReplacedIsNotRunLast ==
  \A r \in Runners : run[r].pc = "running" /\ ~run[r].dry =>
     \A k \in ran : ~Replaces(k, Current(r).id)

\* can_be_processed is set on due jobs only, so that getFirstJobDate never sends a runner to a table
\* without due jobs; a job given to a handler is in the future until its retry delay is over.
ReadyIsDue == \A i \in Ready(jobs) : jobs[i].runAfter <= clock

\* What NoJobLost and ReplacedIsNotRunLast rest on: a replaced job is gone for good, and the copies
\* a runner holds are what the step it is at expects.
RowsAreNotReplaced == \A i \in DOMAIN jobs : \A k \in Ids : ~Replaces(k, i)
BatchIsSound(r) ==
  /\ run[r].pc \in {"running", "removing"} => run[r].batch # {}
  /\ run[r].pc = "removing" => Current(r).id \in ran
  /\ run[r].pc = "discarding" => \A x \in run[r].batch : inserted[x.id].handler \notin KnownHandlers
Inductive == /\ TypeOK /\ NoJobLost /\ ReadyIsDue /\ RowsAreNotReplaced
             /\ \A r \in Runners : BatchIsSound(r)

\* With one runner: no copy it holds was replaced by another copy or by a job that has run.
CopiesAreNotOutrun ==
  \A r \in Runners : \A x \in run[r].batch : \A k \in ran \cup IdsOf(run[r].batch) :
     ~Replaces(k, x.id)

\* "Reschedule jobs before trying to run them to avoid getting stuck in a crash loop": a job that was
\* tried n times without an end is tried again only after a gap of n doublings of the retry delay.
TriesKeepTheirGap(r) == \A x \in run[r].batch : clock >= tried[x.id].at + tried[x.id].gap
CrashLoopIsSlow == [][\A r \in Runners : Reserve(r) => TriesKeepTheirGap(r)]_vars

\* The alternation of enumerateJobsToRun: of two batches in a row at least one has the job that was
\* first in the order, whatever the handlers, sizes and splits, as long as clients only insert.
OldestIsNotPassedOverTwice == missed <= 1

\* Every job leaves the table in the end, with finitely many crashes and failures.
EveryJobLeaves == \A i \in 1..MaxJobs : i \in DOMAIN jobs ~> i \notin DOMAIN jobs

\* runJobs returns, even in a dry run that leaves every job where it was.
RunnerReturns == \A r \in Runners : run[r].pc # "idle" ~> run[r].pc = "idle"
=============================================================================
