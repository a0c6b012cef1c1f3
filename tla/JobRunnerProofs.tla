--------------------------- MODULE JobRunnerProofs ---------------------------
(***************************************************************************)
(* Proofs about JobRunner: any number of runners, any requests.            *)
(***************************************************************************)
EXTENDS JobRunner, JobOrderProofs, TLAPS

Rows(q) == q \in [DOMAIN q -> RowRecords]

\* The job whose turn it is belongs to the batch.
LEMMA CurrentIsInBatch ==
  ASSUME NEW r \in Runners, NEW ids, run[r].batch \subseteq CopyRecords(ids), run[r].batch # {}
  PROVE  Current(r) \in run[r].batch
<1> DEFINE places == {x.place : x \in run[r].batch}
<1>1. places \subseteq Nat /\ places # {}
  BY DEF CopyRecords
<1>2. PICK p \in places : \A n \in places : p <= n
  <2> HIDE DEF places
  <2> QED BY <1>1, LeastNatural
<1>3. \E x \in run[r].batch : \A y \in run[r].batch : x.place <= y.place
  BY <1>2
<1> QED BY <1>3 DEF Current

\* rescheduleJobs keeps the rows; a row it writes is not ready.
LEMMA ReschedulingKeepsRows ==
  ASSUME NEW q, Rows(q), NEW R,
         R \subseteq [id : Nat, priority : Nat \cup {SamePriority}, runAfter : Nat,
                      tries : [unfinished : Nat, failed : Nat]]
  PROVE  /\ Rows(Rescheduled(q, R))
         /\ DOMAIN Rescheduled(q, R) = DOMAIN q
         /\ \A i \in DOMAIN q : Rescheduled(q, R)[i] = q[i] \/ ~Rescheduled(q, R)[i].ready
<1> DEFINE new == Rescheduled(q, R)
<1>1. new = [i \in DOMAIN q |-> new[i]] /\ DOMAIN new = DOMAIN q
  BY DEF Rescheduled
<1>2. ASSUME NEW i \in DOMAIN q
      PROVE  new[i] \in RowRecords /\ (new[i] = q[i] \/ ~new[i].ready)
  <2>0. q[i] \in RowRecords
    BY DEF Rows
  <2>1. CASE \E x \in R : x.id = i
    <3> DEFINE x == CHOOSE x \in R : x.id = i
    <3>1. x \in R
      BY <2>1
    <3>2. new[i] = [priority |-> IF x.priority = SamePriority THEN q[i].priority ELSE x.priority,
                    runAfter |-> x.runAfter, ready |-> FALSE, tries |-> x.tries]
      BY <2>1 DEF Rescheduled
    <3> HIDE DEF x
    <3> QED BY <2>0, <3>1, <3>2 DEF RowRecords, SamePriority
  <2>2. CASE ~\E x \in R : x.id = i
    BY <2>0, <2>2 DEF Rescheduled
  <2> QED BY <2>1, <2>2
<1> QED BY <1>1, <1>2 DEF Rows

\* updateStartFromMostRecent computes a flag.
LEMMA FlagIsBoolean ==
  ASSUME NEW q, NEW flag \in BOOLEAN, NEW i
  PROVE  FlagAfter(q, flag, i) \in BOOLEAN
BY DEF FlagAfter, IsFirst

\* A retry delay is a natural number.
LEMMA RetryDelaysAreNatural ==
  ASSUME NEW minimum \in Nat, NEW old \in Nat
  PROVE  RetryDelays(minimum, old) \subseteq Nat
<1> DEFINE delay == Larger(Larger(minimum, MinRetryDelay), Smaller(2 * old, MaxRetryDelay))
<1>1. delay \in Nat
  BY NumbersAreNatural DEF Larger, Smaller
<1> HIDE DEF delay
<1>2. RetryDelays(minimum, old) = delay..(delay + (delay * BackoffRandomness) \div 100)
  BY DEF RetryDelays, delay
<1> QED BY <1>1, <1>2

Reschedulings == [id : Nat, priority : Nat \cup {SamePriority}, runAfter : Nat,
                  tries : [unfinished : Nat, failed : Nat]]

\* What RescheduleJobs does to the rows.
LEMMA RescheduleJobsKeepsRows ==
  ASSUME Rows(jobs), newestFirst \in BOOLEAN, NEW R, R \subseteq Reschedulings, NEW last,
         RescheduleJobs(R, last)
  PROVE  /\ jobs' \in [DOMAIN jobs' -> RowRecords]
         /\ DOMAIN jobs' = DOMAIN jobs
         /\ newestFirst' \in BOOLEAN
         /\ \A i \in DOMAIN jobs : jobs'[i] = jobs[i] \/ ~jobs'[i].ready
<1>1. jobs' = Rescheduled(jobs, R) /\ newestFirst' \in BOOLEAN
  BY FlagIsBoolean DEF RescheduleJobs
<1>2. /\ Rows(Rescheduled(jobs, R))
      /\ DOMAIN Rescheduled(jobs, R) = DOMAIN jobs
      /\ \A i \in DOMAIN jobs : Rescheduled(jobs, R)[i] = jobs[i] \/ ~Rescheduled(jobs, R)[i].ready
  BY ReschedulingKeepsRows DEF Reschedulings
<1> QED BY <1>1, <1>2 DEF Rows

\* Each action that reschedules jobs does it with sound values.
LEMMA ReserveReschedules ==
  ASSUME TypeOK, NEW r \in Runners, Reserve(r)
  PROVE  \E R \in SUBSET Reschedulings : \E last : RescheduleJobs(R, last)
<1> DEFINE batch == run[r].batch
           Delays == UNION {RetryDelays(0, x.tries.unfinished) : x \in batch}
<1>1. PICK delay \in [batch -> Delays] :
        /\ \A x \in batch : delay[x] \in RetryDelays(0, x.tries.unfinished)
        /\ RescheduleJobs(
             {[id |-> x.id, priority |-> SamePriority, runAfter |-> clock + delay[x],
               tries |-> [x.tries EXCEPT !.unfinished = delay[x]]] : x \in batch},
             LastOf(batch).id)
  BY DEF Reserve
<1> DEFINE R == {[id |-> x.id, priority |-> SamePriority, runAfter |-> clock + delay[x],
                  tries |-> [x.tries EXCEPT !.unfinished = delay[x]]] : x \in batch}
<1>2. batch \subseteq CopyRecords(Ids) /\ clock \in Nat /\ Ids \subseteq Nat
  BY DEF TypeOK, RunRecords, Ids
<1>3. \A x \in batch : delay[x] \in Nat
  BY <1>1, <1>2, RetryDelaysAreNatural DEF CopyRecords
<1>4. R \in SUBSET Reschedulings
  <2> HIDE DEF batch
  <2>1. ASSUME NEW x \in batch
        PROVE  [id |-> x.id, priority |-> SamePriority, runAfter |-> clock + delay[x],
                tries |-> [x.tries EXCEPT !.unfinished = delay[x]]] \in Reschedulings
    <3>1. x.id \in Nat /\ x.tries \in [unfinished : Nat, failed : Nat] /\ delay[x] \in Nat
      BY <1>2, <1>3 DEF CopyRecords
    <3>2. [x.tries EXCEPT !.unfinished = delay[x]] \in [unfinished : Nat, failed : Nat]
      BY <3>1
    <3>3. clock + delay[x] \in Nat
      BY <1>2, <3>1
    <3> QED BY <3>1, <3>2, <3>3 DEF Reschedulings
  <2> QED BY <2>1
<1>5. RescheduleJobs(R, LastOf(batch).id)
  BY <1>1
<1> HIDE DEF R
<1> QED BY <1>4, <1>5

LEMMA FailureReschedules ==
  ASSUME TypeOK, NEW r \in Runners, run[r].batch # {}, ~run[r].dry,
         NEW minimum \in ErrorDelays, NEW priority \in ErrorPriorities,
         RescheduleFailed(r, Current(r), minimum, priority)
  PROVE  \E R \in SUBSET Reschedulings : \E last : RescheduleJobs(R, last)
<1> DEFINE x == Current(r)
           Delays == IF minimum = Forever THEN {Forever} ELSE RetryDelays(minimum, x.tries.failed)
<1>1. run[r].batch \subseteq CopyRecords(Ids) /\ clock \in Nat /\ Ids \subseteq Nat
  BY DEF TypeOK, RunRecords, Ids
<1>2. x \in CopyRecords(Ids)
  BY <1>1, CurrentIsInBatch
<1>3. x.id \in Nat /\ x.tries.failed \in Nat
  BY <1>1, <1>2 DEF CopyRecords
<1> HIDE DEF x
<1>4. minimum \in Nat \cup {Forever} /\ priority \in Nat \cup {SamePriority}
  BY RequestsAreTyped
<1>5. PICK delay \in Delays :
        RescheduleJobs({[id |-> x.id, priority |-> priority,
                         runAfter |-> IF delay = Forever THEN Never ELSE clock + delay,
                         tries |-> [unfinished |-> 0, failed |-> OldDelay(delay)]]}, x.id)
  BY DEF RescheduleFailed, x
<1>6. delay \in Nat \cup {Forever}
  <2>1. CASE minimum = Forever
    BY <2>1
  <2>2. CASE minimum # Forever
    <3>1. minimum \in Nat
      BY <1>4, <2>2
    <3>2. RetryDelays(minimum, x.tries.failed) \subseteq Nat
      BY <1>3, <3>1, RetryDelaysAreNatural
    <3> QED BY <2>2, <3>2
  <2> QED BY <2>1, <2>2
<1>7. (IF delay = Forever THEN Never ELSE clock + delay) \in Nat /\ OldDelay(delay) \in Nat
  BY <1>1, <1>6, NumbersAreNatural DEF Never, OldDelay
<1> DEFINE new == [id |-> x.id, priority |-> priority,
                   runAfter |-> IF delay = Forever THEN Never ELSE clock + delay,
                   tries |-> [unfinished |-> 0, failed |-> OldDelay(delay)]]
<1>8. {new} \in SUBSET Reschedulings
  BY <1>3, <1>4, <1>7 DEF Reschedulings
<1>9. RescheduleJobs({new}, x.id)
  BY <1>5
<1> HIDE DEF new
<1> QED BY <1>8, <1>9

LEMMA SplitReschedules ==
  ASSUME TypeOK, NEW r \in Runners, SplitBatch(r), ~run[r].dry
  PROVE  \E R \in SUBSET Reschedulings : \E last : RescheduleJobs(R, last)
<1> DEFINE batch == run[r].batch
           kept == {x \in batch : Cardinality({y \in batch : y.place < x.place})
                                    < Cardinality(batch) \div 2}
           back == batch \ kept
           R == {[id |-> x.id, priority |-> SamePriority, runAfter |-> NullDate,
                  tries |-> x.tries] : x \in back}
<1>1. batch \subseteq CopyRecords(Ids) /\ Ids \subseteq Nat
  BY DEF TypeOK, RunRecords, Ids
<1>2. back \subseteq CopyRecords(Ids)
  BY <1>1
<1>3. R \in SUBSET Reschedulings
  <2>1. ASSUME NEW x \in back
        PROVE  [id |-> x.id, priority |-> SamePriority, runAfter |-> NullDate,
                tries |-> x.tries] \in Reschedulings
    <3>1. x \in CopyRecords(Ids)
      BY <1>2
    <3>2. x.id \in Nat /\ x.tries \in [unfinished : Nat, failed : Nat]
      BY <1>1, <3>1 DEF CopyRecords
    <3> QED BY <3>2 DEF Reschedulings, NullDate
  <2> QED BY <2>1
<1>4. RescheduleJobs(R, LastOf(back).id)
  BY DEF SplitBatch
<1> HIDE DEF R
<1> QED BY <1>3, <1>4

LEMMA JobsAreFinite ==
  ASSUME TypeOK
  PROVE  IsFiniteSet(DOMAIN jobs) /\ Ids \subseteq 1..MaxJobs /\ Ids \subseteq Nat \ {0}
<1>1. Len(inserted) \in Nat /\ Len(inserted) <= MaxJobs /\ MaxJobs \in Nat
  BY NumbersAreNatural DEF TypeOK
<1>2. IsFiniteSet(1..Len(inserted))
  BY <1>1, FS_Interval
<1>3. IsFiniteSet(DOMAIN jobs)
  BY <1>2, FS_Subset DEF TypeOK, Ids
<1> QED BY <1>1, <1>3 DEF Ids

\* The batch that PickBatch takes: ready jobs of one handler.
LEMMA PickedJobs ==
  ASSUME TypeOK, NEW r \in Runners, NEW q
  PROVE  /\ Picked(r, q) \subseteq Ready(q)
         /\ \A i, k \in Picked(r, q) : inserted[i].handler = inserted[k].handler
<1> DEFINE first == CHOOSE i \in Ready(q) : Place(q, newestFirst, i) = 1
           handler == inserted[first].handler
           matching == {i \in SameLevel(q, first) : inserted[i].handler = handler}
<1>1. Picked(r, q) \subseteq matching
  BY DEF Picked
<1>2. matching \subseteq Ready(q) /\ \A i, k \in matching : inserted[i].handler = inserted[k].handler
  BY DEF SameLevel
<1> HIDE DEF matching
<1> QED BY <1>1, <1>2

LEMMA DueJobs ==
  ASSUME TypeOK
  PROVE  /\ WithDueJobs(jobs) \in [DOMAIN jobs -> RowRecords]
         /\ DOMAIN WithDueJobs(jobs) = DOMAIN jobs
         /\ \A i \in DOMAIN jobs : /\ WithDueJobs(jobs)[i].runAfter = jobs[i].runAfter
                                   /\ WithDueJobs(jobs)[i].ready =>
                                        jobs[i].ready \/ jobs[i].runAfter <= clock
<1>1. \A i \in DOMAIN jobs : jobs[i] \in RowRecords
  BY DEF TypeOK
<1>2. \A i \in DOMAIN jobs : [jobs[i] EXCEPT !.ready = @ \/ jobs[i].runAfter <= clock] \in RowRecords
  BY <1>1 DEF RowRecords
<1>3. \A i \in DOMAIN jobs :
        /\ [jobs[i] EXCEPT !.ready = @ \/ jobs[i].runAfter <= clock].runAfter = jobs[i].runAfter
        /\ [jobs[i] EXCEPT !.ready = @ \/ jobs[i].runAfter <= clock].ready =>
             jobs[i].ready \/ jobs[i].runAfter <= clock
  BY <1>1 DEF RowRecords
<1> QED BY <1>2, <1>3 DEF WithDueJobs

\* What a runner does to its own memory, while the table of ids stays as it is.
LEMMA RunStaysTyped ==
  ASSUME TypeOK, UNCHANGED inserted, NEW r \in Runners, NEW new \in RunRecords(Ids),
         run' = [run EXCEPT ![r] = new]
  PROVE  run' \in [Runners -> RunRecords(Ids)]'
BY DEF TypeOK, RunRecords, CopyRecords, Ids

LEMMA GoToStaysTyped ==
  ASSUME TypeOK, UNCHANGED inserted, NEW r \in Runners,
         NEW pc \in {"checking", "picking", "starting", "working", "running", "removing"},
         GoTo(r, pc)
  PROVE  run' \in [Runners -> RunRecords(Ids)]'
<1>1. run[r] \in RunRecords(Ids)
  BY DEF TypeOK
<1>2. [run[r] EXCEPT !.pc = pc] \in RunRecords(Ids)
  BY <1>1 DEF RunRecords
<1>3. run' = [run EXCEPT ![r] = [run[r] EXCEPT !.pc = pc]]
  BY DEF GoTo
<1> QED BY <1>2, <1>3, RunStaysTyped

LEMMA DropCurrentStaysTyped ==
  ASSUME TypeOK, UNCHANGED inserted, NEW r \in Runners,
         NEW pc \in {"checking", "working", "discarding"}, DropCurrent(r, pc)
  PROVE  run' \in [Runners -> RunRecords(Ids)]'
<1> DEFINE rest == run[r].batch \ {Current(r)}
           new == [run[r] EXCEPT !.pc = pc, !.batch = rest]
<1>1. run[r] \in RunRecords(Ids)
  BY DEF TypeOK
<1>2. rest \subseteq CopyRecords(Ids)
  BY <1>1 DEF RunRecords
<1>3. new \in RunRecords(Ids)
  <2> HIDE DEF rest
  <2> QED BY <1>1, <1>2 DEF RunRecords
<1>4. run' = [run EXCEPT ![r] = new]
  BY DEF DropCurrent
<1> HIDE DEF new
<1> QED BY <1>3, <1>4, RunStaysTyped

LEMMA InitIsInductive == Init => Inductive
<1> SUFFICES ASSUME Init PROVE Inductive
  OBVIOUS
<1>1. NoRun \in RunRecords(Ids)
  BY NumbersAreNatural DEF NoRun, RunRecords
<1>2. Ids = {} /\ DOMAIN jobs = {}
  BY DEF Init, Ids
<1>3. TypeOK
  <2>1. jobs \in [DOMAIN jobs -> RowRecords]
    BY <1>2 DEF Init
  <2>2. run \in [Runners -> RunRecords(Ids)]
    BY <1>1 DEF Init
  <2>3. tried \in [1..MaxJobs -> [at : 0..MaxClock, gap : Nat]]
    BY NumbersAreNatural DEF Init, NotTried
  <2>4. inserted \in Seq([handler : Handlers, key : STRING, mode : AllModes]) /\ Len(inserted) = 0
    BY DEF Init
  <2>5. /\ clock \in 0..MaxClock /\ newestFirst \in BOOLEAN /\ missed \in Nat
        /\ ran = {} /\ cancelled = {} /\ mishaps \in 0..MaxMishaps
    <3>1. clock = 0 /\ newestFirst = FALSE /\ missed = 0 /\ ran = {} /\ cancelled = {} /\ mishaps = 0
      BY DEF Init
    <3>2. newestFirst \in BOOLEAN
      BY <3>1
    <3>3. MaxClock \in Nat /\ MaxMishaps \in Nat
      BY NumbersAreNatural
    <3>4. clock \in 0..MaxClock /\ mishaps \in 0..MaxMishaps /\ missed \in Nat
      BY <3>1, <3>3
    <3> QED BY <3>1, <3>2, <3>4
  <2> QED BY <1>2, <2>1, <2>2, <2>3, <2>4, <2>5, NumbersAreNatural DEF TypeOK
<1>4. \A r \in Runners : BatchIsSound(r)
  BY DEF BatchIsSound, Init, NoRun
<1> QED BY <1>2, <1>3, <1>4 DEF Inductive, NoJobLost, ReadyIsDue, RowsAreNotReplaced, Ready

\* The history of attempts stays typed when the attempts of some ids are counted or forgotten.
LEMMA TriedStaysTyped ==
  ASSUME TypeOK, NEW ids,
         \/ tried' = [i \in DOMAIN tried |->
                        IF i \in ids THEN [at |-> clock, gap |-> NextGap(tried[i].gap)] ELSE tried[i]]
         \/ tried' = [i \in DOMAIN tried |-> IF i \in ids THEN NotTried ELSE tried[i]]
  PROVE  tried' \in [1..MaxJobs -> [at : 0..MaxClock, gap : Nat]]
<1>1. tried \in [1..MaxJobs -> [at : 0..MaxClock, gap : Nat]] /\ clock \in 0..MaxClock
  BY DEF TypeOK
<1>2. NotTried \in [at : 0..MaxClock, gap : Nat]
  BY NumbersAreNatural DEF NotTried
<1>3. \A i \in 1..MaxJobs : NextGap(tried[i].gap) \in Nat
  BY <1>1, NumbersAreNatural DEF NextGap, Smaller, Larger
<1> QED BY <1>1, <1>2, <1>3

\* What rescheduleAfterFailure does, whether startBatch or run threw.
LEMMA FailureStaysTyped ==
  ASSUME TypeOK, NEW r \in Runners, run[r].batch # {},
         NEW minimum \in ErrorDelays, NEW priority \in ErrorPriorities,
         RescheduleFailed(r, Current(r), minimum, priority)
  PROVE  /\ jobs' \in [DOMAIN jobs' -> RowRecords] /\ DOMAIN jobs' = DOMAIN jobs
         /\ newestFirst' \in BOOLEAN
         /\ \A i \in DOMAIN jobs : jobs'[i] = jobs[i] \/ ~jobs'[i].ready
         /\ tried' \in [1..MaxJobs -> [at : 0..MaxClock, gap : Nat]]
         /\ mishaps' \in 0..MaxMishaps
         /\ UNCHANGED <<clock, inserted, ran, cancelled, missed>>
<1>1. mishaps' \in 0..MaxMishaps /\ UNCHANGED <<clock, inserted, ran, cancelled, missed>>
  BY NumbersAreNatural DEF RescheduleFailed, CountMishap, TypeOK
<1>2. CASE run[r].dry
  BY <1>1, <1>2 DEF RescheduleFailed, queueVars, TypeOK
<1>3. CASE ~run[r].dry
  <2>1. PICK R \in SUBSET Reschedulings : \E last : RescheduleJobs(R, last)
    BY <1>3, FailureReschedules
  <2>2. PICK last : RescheduleJobs(R, last)
    BY <2>1
  <2>3. Rows(jobs) /\ newestFirst \in BOOLEAN
    BY DEF TypeOK, Rows
  <2>4. tried' = [tried EXCEPT ![Current(r).id] = NotTried]
    BY <1>3 DEF RescheduleFailed
  <2>5. tried' \in [1..MaxJobs -> [at : 0..MaxClock, gap : Nat]]
    <3> DEFINE Attempts == [at : 0..MaxClock, gap : Nat]
    <3>1. NotTried \in Attempts /\ tried \in [1..MaxJobs -> Attempts]
      BY NumbersAreNatural DEF NotTried, TypeOK
    <3> HIDE DEF Attempts
    <3>2. [tried EXCEPT ![Current(r).id] = NotTried] \in [1..MaxJobs -> Attempts]
      BY <3>1
    <3> QED BY <2>4, <3>2 DEF Attempts
  <2> QED BY <1>1, <2>2, <2>3, <2>5, RescheduleJobsKeepsRows
<1> QED BY <1>2, <1>3

\* One action after the other keeps TypeOK.
LEMMA NextKeepsTypeOK ==
  ASSUME Inductive, Next
  PROVE  TypeOK'
<1>0. TypeOK /\ \A r \in Runners : BatchIsSound(r)
  BY DEF Inductive
<1>1. CASE Tick
  <2>1. clock' \in 0..MaxClock
    BY <1>0, <1>1, NumbersAreNatural DEF Tick, TypeOK
  <2>2. UNCHANGED <<jobs, newestFirst, run, inserted, ran, cancelled, tried, missed, mishaps>>
    BY <1>1 DEF Tick, queueVars, history
  <2> QED BY <1>0, <2>1, <2>2 DEF TypeOK, Ids
<1>2. ASSUME NEW request \in Requests, NEW mode \in Modes, InsertJob(request, mode)
      PROVE  TypeOK'
  <2> DEFINE new == Len(inserted) + 1
             replaced == IF mode = "OVERWRITE_IF_EXISTS" THEN Duplicates(request) ELSE {}
             row == [priority |-> request.priority,
                     runAfter |-> IF request.delay = 0 THEN NullDate ELSE clock + request.delay,
                     ready |-> FALSE, tries |-> NoTries]
             entry == [handler |-> request.handler, key |-> request.key, mode |-> mode]
             Entries == [handler : Handlers, key : STRING, mode : AllModes]
  <2>1. /\ request \in [handler : Handlers, key : STRING, priority : Nat, delay : Nat]
        /\ mode \in AllModes /\ clock \in Nat
    BY <1>0, RequestsAreTyped DEF TypeOK
  <2>2. row \in RowRecords
    BY <2>1 DEF RowRecords, NoTries, NullDate
  <2>3. entry \in Entries
    BY <2>1
  <2>4. inserted \in Seq(Entries) /\ Len(inserted) \in Nat
    BY <1>0 DEF TypeOK
  <2>5. inserted' = Append(inserted, entry) /\ new <= MaxJobs
    BY <1>2 DEF InsertJob
  <2>6. inserted' \in Seq(Entries) /\ Len(inserted') = new
    <3> HIDE DEF entry, Entries
    <3> QED BY <2>3, <2>4, <2>5
  <2>7. Ids' = 1..new /\ Ids \subseteq Ids' /\ new \in Ids'
    BY <2>4, <2>6 DEF Ids
  <2>8. jobs' = [i \in (DOMAIN jobs \ replaced) \cup {new} |-> IF i = new THEN row ELSE jobs[i]]
    BY <1>2 DEF InsertJob
  <2>9. jobs' \in [DOMAIN jobs' -> RowRecords] /\ DOMAIN jobs' \subseteq Ids'
    <3>1. jobs \in [DOMAIN jobs -> RowRecords] /\ DOMAIN jobs \subseteq Ids
      BY <1>0 DEF TypeOK
    <3> HIDE DEF row, new, replaced
    <3> QED BY <2>2, <2>7, <2>8, <3>1
  <2>10. run' \in [Runners -> RunRecords(Ids)]'
    <3>1. run' = run /\ run \in [Runners -> RunRecords(Ids)]
      BY <1>0, <1>2 DEF InsertJob, TypeOK
    <3>2. CopyRecords(Ids) \subseteq CopyRecords(Ids')
      BY <2>7 DEF CopyRecords
    <3>3. RunRecords(Ids) \subseteq RunRecords(Ids')
      BY <3>2 DEF RunRecords
    <3> QED BY <3>1, <3>3
  <2>11. missed' \in Nat
    BY <1>0, <1>2 DEF InsertJob, TypeOK
  <2>12. UNCHANGED <<clock, newestFirst, ran, cancelled, tried, mishaps>>
    BY <1>2 DEF InsertJob
  <2> QED BY <1>0, <2>5, <2>6, <2>7, <2>9, <2>10, <2>11, <2>12 DEF TypeOK
<1>3. ASSUME NEW ids \in Cancellations, RemoveJobs(ids)
      PROVE  TypeOK'
  <2>1. jobs' = Without(jobs, ids) /\ jobs \in [DOMAIN jobs -> RowRecords]
    BY <1>0, <1>3 DEF RemoveJobs, TypeOK
  <2>2. jobs' \in [DOMAIN jobs' -> RowRecords] /\ DOMAIN jobs' \subseteq DOMAIN jobs
    BY <2>1 DEF Without
  <2>3. newestFirst' \in BOOLEAN
    BY <1>0, <1>3, FlagIsBoolean DEF RemoveJobs, TypeOK
  <2>4. cancelled' \subseteq Ids
    BY <1>0, <1>3 DEF RemoveJobs, TypeOK
  <2>5. UNCHANGED <<clock, run, inserted, ran, tried, mishaps>> /\ missed' \in Nat
    BY <1>3 DEF RemoveJobs
  <2> QED BY <1>0, <2>2, <2>3, <2>4, <2>5 DEF TypeOK, Ids
<1>4. ASSUME NEW r \in Runners, Start(r) PROVE TypeOK'
  <2>1. PICK quota \in Quotas, dry \in DryRuns : StartRunner(r, quota, dry)
    BY <1>4 DEF Start
  <2> DEFINE new == [pc |-> "checking", quota |-> quota, dry |-> dry, batch |-> {}]
  <2>2. quota \in Int /\ dry \in BOOLEAN
    BY NumbersAreNatural
  <2>3. new \in RunRecords(Ids)
    BY <2>2 DEF RunRecords
  <2>4. run' = [run EXCEPT ![r] = new] /\ UNCHANGED <<clock, queueVars, history>>
    BY <2>1 DEF StartRunner
  <2>5. run' \in [Runners -> RunRecords(Ids)]'
    <3> HIDE DEF new
    <3> QED BY <1>0, <2>3, <2>4, RunStaysTyped DEF history
  <2> QED BY <1>0, <2>4, <2>5 DEF TypeOK, queueVars, history, Ids
<1>5. ASSUME NEW r \in Runners, Work(r) PROVE TypeOK'
  <2>1. CASE CheckQueue(r)
    <3>1. UNCHANGED <<clock, queueVars, history>>
      BY <2>1 DEF CheckQueue
    <3>2. GoTo(r, "picking") \/ run' = [run EXCEPT ![r] = NoRun]
      BY <2>1 DEF CheckQueue
    <3>3. NoRun \in RunRecords(Ids)
      BY DEF NoRun, RunRecords
    <3>4. run' \in [Runners -> RunRecords(Ids)]'
      BY <1>0, <3>1, <3>2, <3>3, RunStaysTyped, GoToStaysTyped DEF history
    <3> QED BY <1>0, <3>1, <3>4 DEF TypeOK, queueVars, history, Ids
  <2>2. CASE PickBatch(r)
    <3> DEFINE q == WithDueJobs(jobs)
               picked == IF Ready(q) = {} THEN {} ELSE Picked(r, q)
               copies == {[id |-> i, place |-> Place(q, newestFirst, i), tries |-> q[i].tries] : i \in picked}
               pc == IF picked = {} THEN "checking" ELSE NextStep(r, picked)
               new == [run[r] EXCEPT !.pc = pc, !.quota = QuotaLeft(r, picked), !.batch = copies]
    <3>1. /\ q \in [DOMAIN jobs -> RowRecords] /\ DOMAIN q = DOMAIN jobs
          /\ IsFiniteSet(DOMAIN jobs) /\ DOMAIN jobs \subseteq Ids
      BY <1>0, DueJobs, JobsAreFinite DEF TypeOK
    <3>2. picked \subseteq DOMAIN q
      BY <1>0, PickedJobs DEF Ready
    <3>3. Cardinality(picked) \in Nat
      BY <3>1, <3>2, FS_Subset, FS_CardinalityType
    <3>4. run[r] \in RunRecords(Ids) /\ run[r].quota \in Int
      BY <1>0 DEF TypeOK, RunRecords
    <3>5. QuotaLeft(r, picked) \in Int
      BY <3>3, <3>4 DEF QuotaLeft
    <3>6. copies \subseteq CopyRecords(Ids)
      <4> HIDE DEF q
      <4>1. ASSUME NEW i \in picked
            PROVE  [id |-> i, place |-> Place(q, newestFirst, i), tries |-> q[i].tries] \in CopyRecords(Ids)
        <5>1. Place(q, newestFirst, i) \in Nat \ {0}
          BY <3>1, PlaceIsPositive
        <5>2. i \in Ids /\ q[i] \in RowRecords
          BY <3>1, <3>2
        <5>3. q[i].tries \in [unfinished : Nat, failed : Nat]
          BY <5>2 DEF RowRecords
        <5> QED BY <5>1, <5>2, <5>3 DEF CopyRecords
      <4> QED BY <4>1
    <3>7. pc \in {"checking", "discarding", "starting", "reserving"}
      BY DEF NextStep
    <3>8. new \in RunRecords(Ids)
      <4> HIDE DEF copies, pc, picked
      <4> QED BY <3>4, <3>5, <3>6, <3>7 DEF RunRecords
    <3>9. /\ run' = [run EXCEPT ![r] = new] /\ jobs' = q
          /\ UNCHANGED <<clock, newestFirst, history>>
      BY <2>2 DEF PickBatch
    <3>10. run' \in [Runners -> RunRecords(Ids)]'
      <4> HIDE DEF new
      <4> QED BY <1>0, <3>8, <3>9, RunStaysTyped DEF history
    <3> HIDE DEF q, new
    <3> QED BY <1>0, <3>1, <3>9, <3>10 DEF TypeOK, history, Ids
  <2>3. CASE DiscardJob(r)
    <3>1. UNCHANGED <<clock, inserted, ran, cancelled, tried, mishaps>> /\ DropCurrent(r, "discarding")
      BY <2>3 DEF DiscardJob
    <3>2. run' \in [Runners -> RunRecords(Ids)]'
      BY <1>0, <3>1, DropCurrentStaysTyped
    <3>3. /\ jobs' \in [DOMAIN jobs' -> RowRecords] /\ DOMAIN jobs' \subseteq DOMAIN jobs
          /\ newestFirst' \in BOOLEAN /\ missed' \in Nat
      <4>1. CASE run[r].dry
        BY <1>0, <2>3, <4>1 DEF DiscardJob, queueVars, TypeOK
      <4>2. CASE ~run[r].dry
        <5>1. jobs' = Without(jobs, {Current(r).id})
          BY <2>3, <4>2 DEF DiscardJob
        <5>2. newestFirst' \in BOOLEAN
          BY <1>0, <2>3, <4>2, FlagIsBoolean DEF DiscardJob, TypeOK
        <5>3. missed' \in Nat
          BY <1>0, <2>3, <4>2 DEF DiscardJob, TypeOK
        <5> QED BY <1>0, <5>1, <5>2, <5>3 DEF Without, TypeOK
      <4> QED BY <4>1, <4>2
    <3> QED BY <1>0, <3>1, <3>2, <3>3 DEF TypeOK, Ids
  <2>4. CASE Reserve(r)
    <3>1. PICK R \in SUBSET Reschedulings : \E last : RescheduleJobs(R, last)
      BY <1>0, <2>4, ReserveReschedules
    <3>2. PICK last : RescheduleJobs(R, last)
      BY <3>1
    <3>3. /\ jobs' \in [DOMAIN jobs' -> RowRecords] /\ DOMAIN jobs' = DOMAIN jobs
          /\ newestFirst' \in BOOLEAN
      BY <1>0, <3>2, RescheduleJobsKeepsRows DEF TypeOK, Rows
    <3>4. UNCHANGED <<clock, inserted, ran, cancelled, mishaps>> /\ GoTo(r, "starting")
      BY <2>4 DEF Reserve
    <3>5. run' \in [Runners -> RunRecords(Ids)]'
      BY <1>0, <3>4, GoToStaysTyped
    <3>6. tried' \in [1..MaxJobs -> [at : 0..MaxClock, gap : Nat]]
      BY <1>0, <2>4, TriedStaysTyped DEF Reserve
    <3>7. missed' \in Nat
      BY <1>0, <2>4 DEF Reserve, TypeOK
    <3> QED BY <1>0, <3>3, <3>4, <3>5, <3>6, <3>7 DEF TypeOK, Ids
  <2>5. CASE StartBatch(r) \/ BeginJob(r) \/ EndBatch(r)
    <3>1. /\ UNCHANGED <<clock, queueVars, history>>
          /\ GoTo(r, "working") \/ GoTo(r, "running") \/ GoTo(r, "checking")
      BY <2>5 DEF StartBatch, BeginJob, EndBatch
    <3>2. run' \in [Runners -> RunRecords(Ids)]'
      BY <1>0, <3>1, GoToStaysTyped DEF history
    <3> QED BY <1>0, <3>1, <3>2 DEF TypeOK, queueVars, history, Ids
  <2>6. CASE FinishJob(r)
    <3>1. UNCHANGED <<clock, queueVars, inserted, cancelled, tried, missed, mishaps>>
      BY <2>6 DEF FinishJob
    <3>2. \/ DropCurrent(r, "working") /\ ran' = ran
          \/ GoTo(r, "removing") /\ ran' = ran \cup {Current(r).id}
      BY <2>6 DEF FinishJob
    <3>3. run' \in [Runners -> RunRecords(Ids)]'
      BY <1>0, <3>1, <3>2, DropCurrentStaysTyped, GoToStaysTyped
    <3>4. run[r].batch \subseteq CopyRecords(Ids) /\ run[r].batch # {}
      BY <1>0, <2>6 DEF TypeOK, RunRecords, BatchIsSound, FinishJob
    <3>5. Current(r).id \in Ids
      BY <3>4, CurrentIsInBatch DEF CopyRecords
    <3>6. ran' \subseteq Ids
      BY <1>0, <3>2, <3>5 DEF TypeOK
    <3> QED BY <1>0, <3>1, <3>3, <3>6 DEF TypeOK, queueVars, Ids
  <2>7. CASE RemoveFinished(r)
    <3>1. UNCHANGED <<clock, history>> /\ DropCurrent(r, "working")
      BY <2>7 DEF RemoveFinished
    <3>2. run' \in [Runners -> RunRecords(Ids)]'
      BY <1>0, <3>1, DropCurrentStaysTyped DEF history
    <3>3. jobs' = Without(jobs, {Current(r).id}) /\ newestFirst' \in BOOLEAN
      BY <1>0, <2>7, FlagIsBoolean DEF RemoveFinished, TypeOK
    <3>4. jobs' \in [DOMAIN jobs' -> RowRecords] /\ DOMAIN jobs' \subseteq DOMAIN jobs
      BY <1>0, <3>3 DEF Without, TypeOK
    <3> QED BY <1>0, <3>1, <3>2, <3>3, <3>4 DEF TypeOK, history, Ids
  <2> QED BY <1>5, <2>1, <2>2, <2>3, <2>4, <2>5, <2>6, <2>7 DEF Work
<1>6. ASSUME NEW r \in Runners, Mishap(r) PROVE TypeOK'
  <2>1. ASSUME NEW minimum \in ErrorDelays, NEW priority \in ErrorPriorities,
               FailSingle(r, minimum, priority) \/ FailJob(r, minimum, priority)
        PROVE  TypeOK'
    <3>1. run[r].batch # {}
      <4>1. CASE FailSingle(r, minimum, priority)
        <5>1. Cardinality(run[r].batch) = 1 /\ Cardinality({}) = 0
          BY <4>1, FS_EmptySet DEF FailSingle
        <5> QED BY <5>1
      <4>2. CASE FailJob(r, minimum, priority)
        BY <1>0, <4>2 DEF FailJob, BatchIsSound
      <4> QED BY <2>1, <4>1, <4>2
    <3>2. /\ RescheduleFailed(r, Current(r), minimum, priority)
          /\ DropCurrent(r, "checking") \/ DropCurrent(r, "working")
      BY <2>1 DEF FailSingle, FailJob
    <3>3. /\ jobs' \in [DOMAIN jobs' -> RowRecords] /\ DOMAIN jobs' = DOMAIN jobs
          /\ newestFirst' \in BOOLEAN
          /\ tried' \in [1..MaxJobs -> [at : 0..MaxClock, gap : Nat]]
          /\ mishaps' \in 0..MaxMishaps
          /\ UNCHANGED <<clock, inserted, ran, cancelled, missed>>
      BY <1>0, <3>1, <3>2, FailureStaysTyped
    <3>4. run' \in [Runners -> RunRecords(Ids)]'
      BY <1>0, <3>2, <3>3, DropCurrentStaysTyped
    <3> QED BY <1>0, <3>3, <3>4 DEF TypeOK, Ids
  <2>2. CASE SplitBatch(r)
    <3>1. PICK kept \in SUBSET run[r].batch : run' = [run EXCEPT ![r].batch = kept]
      BY <2>2 DEF SplitBatch
    <3>2. UNCHANGED <<clock, inserted, ran, cancelled, missed>> /\ mishaps' \in 0..MaxMishaps
      BY <1>0, <2>2, NumbersAreNatural DEF SplitBatch, CountMishap, TypeOK
    <3> DEFINE new == [run[r] EXCEPT !.batch = kept]
    <3>3. run[r] \in RunRecords(Ids)
      BY <1>0 DEF TypeOK
    <3>4. new \in RunRecords(Ids)
      BY <3>3 DEF RunRecords
    <3>5. run' = [run EXCEPT ![r] = new]
      BY <3>1
    <3>6. run' \in [Runners -> RunRecords(Ids)]'
      <4> HIDE DEF new
      <4> QED BY <1>0, <3>2, <3>4, <3>5, RunStaysTyped
    <3>7. CASE run[r].dry
      <4>1. UNCHANGED <<jobs, newestFirst, tried>>
        BY <2>2, <3>7 DEF SplitBatch, queueVars
      <4> QED BY <1>0, <3>2, <3>6, <4>1 DEF TypeOK, Ids
    <3>8. CASE ~run[r].dry
      <4>1. PICK R \in SUBSET Reschedulings : \E last : RescheduleJobs(R, last)
        BY <1>0, <2>2, <3>8, SplitReschedules
      <4>2. PICK last : RescheduleJobs(R, last)
        BY <4>1
      <4>3. /\ jobs' \in [DOMAIN jobs' -> RowRecords] /\ DOMAIN jobs' = DOMAIN jobs
            /\ newestFirst' \in BOOLEAN
        BY <1>0, <4>2, RescheduleJobsKeepsRows DEF TypeOK, Rows
      <4>4. tried' \in [1..MaxJobs -> [at : 0..MaxClock, gap : Nat]]
        BY <1>0, <2>2, <3>8, TriedStaysTyped DEF SplitBatch
      <4> QED BY <1>0, <3>2, <3>6, <4>3, <4>4 DEF TypeOK, Ids
    <3> QED BY <3>7, <3>8
  <2>3. CASE Crash(r)
    <3>1. UNCHANGED <<clock, queueVars, inserted, ran, cancelled, tried, missed>>
      BY <2>3 DEF Crash
    <3>2. mishaps' \in 0..MaxMishaps
      BY <1>0, <2>3, NumbersAreNatural DEF Crash, CountMishap, TypeOK
    <3>3. NoRun \in RunRecords(Ids)
      BY DEF NoRun, RunRecords
    <3>4. run' \in [Runners -> RunRecords(Ids)]'
      BY <1>0, <2>3, <3>1, <3>3, RunStaysTyped DEF Crash
    <3> QED BY <1>0, <3>1, <3>2, <3>4 DEF TypeOK, queueVars, Ids
  <2> QED BY <1>6, <2>1, <2>2, <2>3 DEF Mishap
<1> QED BY <1>1, <1>2, <1>3, <1>4, <1>5, <1>6 DEF Next, ClientStep

\* A step that inserts nothing may only take rows out for a reason, and makes only due rows ready.
LEMMA RowsStaySound ==
  ASSUME Inductive, UNCHANGED inserted, DOMAIN jobs' \subseteq DOMAIN jobs,
         ran \subseteq ran', cancelled \subseteq cancelled',
         \A i \in DOMAIN jobs \ DOMAIN jobs' :
            i \in ran' \cup cancelled' \/ inserted[i].handler \notin KnownHandlers,
         \A i \in DOMAIN jobs' : jobs'[i].ready => jobs'[i].runAfter <= clock'
  PROVE  NoJobLost' /\ ReadyIsDue' /\ RowsAreNotReplaced'
<1>1. NoJobLost /\ RowsAreNotReplaced
  BY DEF Inductive
<1>2. \A k, i : Replaces(k, i)' <=> Replaces(k, i)
  BY DEF Replaces
<1>3. Ids' = Ids
  BY DEF Ids
<1>4. NoJobLost'
  BY <1>1, <1>2, <1>3 DEF NoJobLost
<1>5. RowsAreNotReplaced'
  BY <1>1, <1>2, <1>3 DEF RowsAreNotReplaced
<1>6. ReadyIsDue'
  BY DEF ReadyIsDue, Ready
<1> QED BY <1>4, <1>5, <1>6

\* The rows of the table before the step.
LEMMA RowsAreDue ==
  ASSUME Inductive
  PROVE  /\ \A i \in DOMAIN jobs : /\ jobs[i].runAfter \in Nat
                                   /\ jobs[i].ready => jobs[i].runAfter <= clock
         /\ clock \in Nat
BY DEF Inductive, ReadyIsDue, Ready, TypeOK, RowRecords

LEMMA NextKeepsRows ==
  ASSUME Inductive, Next
  PROVE  NoJobLost' /\ ReadyIsDue' /\ RowsAreNotReplaced'
<1>0. TypeOK /\ NoJobLost /\ ReadyIsDue /\ RowsAreNotReplaced /\ \A r \in Runners : BatchIsSound(r)
  BY DEF Inductive
<1> DEFINE Goal == NoJobLost' /\ ReadyIsDue' /\ RowsAreNotReplaced'
<1>a. \A i \in DOMAIN jobs : /\ jobs[i].runAfter \in Nat
                             /\ jobs[i].ready => jobs[i].runAfter <= clock
  BY RowsAreDue
<1>b. ASSUME UNCHANGED <<clock, jobs, inserted, cancelled>>, ran \subseteq ran'
      PROVE  Goal
  BY <1>a, <1>b, RowsStaySound
<1>c. ASSUME NEW i, i \in ran \/ inserted[i].handler \notin KnownHandlers,
             jobs' = Without(jobs, {i}), UNCHANGED <<clock, inserted, ran, cancelled>>
      PROVE  Goal
  <2>1. DOMAIN jobs' = DOMAIN jobs \ {i} /\ \A k \in DOMAIN jobs' : jobs'[k] = jobs[k]
    BY <1>c DEF Without
  <2> QED BY <1>a, <1>c, <2>1, RowsStaySound
<1>d. ASSUME DOMAIN jobs' = DOMAIN jobs, \A i \in DOMAIN jobs : jobs'[i] = jobs[i] \/ ~jobs'[i].ready,
             UNCHANGED <<clock, inserted, ran, cancelled>>
      PROVE  Goal
  BY <1>a, <1>d, RowsStaySound
<1>1. CASE Tick
  <2>1. UNCHANGED <<jobs, inserted, ran, cancelled>> /\ clock' = clock + 1 /\ clock \in Nat
    BY <1>1, RowsAreDue DEF Tick, queueVars, history
  <2>2. \A i \in DOMAIN jobs' : jobs'[i].ready => jobs'[i].runAfter <= clock'
    BY <1>a, <2>1
  <2> QED BY <2>1, <2>2, RowsStaySound
<1>2. ASSUME NEW request \in Requests, NEW mode \in Modes, InsertJob(request, mode)
      PROVE  Goal
  <2> DEFINE new == Len(inserted) + 1
             replaced == IF mode = "OVERWRITE_IF_EXISTS" THEN Duplicates(request) ELSE {}
             entry == [handler |-> request.handler, key |-> request.key, mode |-> mode]
  <2>1. Len(inserted) \in Nat /\ DOMAIN jobs \subseteq Ids /\ inserted \in Seq([handler : Handlers, key : STRING, mode : AllModes])
    BY <1>0 DEF TypeOK
  <2>2. /\ inserted' = Append(inserted, entry)
        /\ DOMAIN jobs' = (DOMAIN jobs \ replaced) \cup {new}
        /\ \A i \in DOMAIN jobs \ replaced : i # new => jobs'[i] = jobs[i]
        /\ jobs'[new].ready = FALSE
        /\ UNCHANGED <<clock, ran, cancelled>>
    BY <1>2 DEF InsertJob
  <2>3. /\ Ids' = Ids \cup {new} /\ new \notin Ids
        /\ \A i \in Ids : i < new /\ inserted'[i] = inserted[i]
        /\ inserted'[new] = entry
    <3> HIDE DEF entry
    <3> QED BY <2>1, <2>2 DEF Ids
  <2> DEFINE ReplacesNow(k, i) == /\ i < k /\ inserted'[k].mode = "OVERWRITE_IF_EXISTS"
                                  /\ inserted'[k].handler = inserted'[i].handler
                                  /\ inserted'[k].key = inserted'[i].key
  <2>a. \A i, k : Replaces(k, i)' <=> ReplacesNow(k, i)
    BY DEF Replaces
  <2>4. \A i \in Ids : ReplacesNow(new, i) <=> mode = "OVERWRITE_IF_EXISTS" /\ SameJob(i, request)
    BY <2>3 DEF SameJob
  <2>5. \A i, k \in Ids : ReplacesNow(k, i) <=> Replaces(k, i)
    BY <2>3 DEF Replaces
  <2>6. \A k \in Ids' : ~ReplacesNow(k, new)
    <3>1. \A k \in Ids : k \in Int /\ ~(new < k)
      BY <2>1, <2>3 DEF Ids
    <3>2. ~(new < new)
      BY <2>1
    <3> QED BY <2>3, <3>1, <3>2
  <2>7. \A i \in DOMAIN jobs : i \in replaced <=> mode = "OVERWRITE_IF_EXISTS" /\ SameJob(i, request)
    BY DEF Duplicates
  <2>b. replaced \subseteq DOMAIN jobs
    BY DEF Duplicates
  <2> HIDE DEF new, replaced, entry, ReplacesNow
  <2>8. NoJobLost'
    <3>1. ASSUME NEW i \in Ids
          PROVE  \/ i \in DOMAIN jobs' \cup ran' \cup cancelled'
                 \/ inserted'[i].handler \notin KnownHandlers
                 \/ \E k \in Ids' : ReplacesNow(k, i)
      <4>1. CASE i \in replaced
        <5>1. ReplacesNow(new, i)
          BY <2>4, <2>7, <2>b, <4>1
        <5> QED BY <2>3, <5>1
      <4>2. CASE i \notin replaced
        BY <1>0, <2>2, <2>3, <2>5, <4>2 DEF NoJobLost
      <4> QED BY <4>1, <4>2
    <3>2. new \in DOMAIN jobs'
      BY <2>2
    <3> QED BY <2>3, <2>a, <3>1, <3>2 DEF NoJobLost
  <2>9. RowsAreNotReplaced'
    <3>1. ASSUME NEW i \in DOMAIN jobs', NEW k \in Ids'
          PROVE  ~ReplacesNow(k, i)
      <4>1. CASE i = new
        BY <2>6, <4>1
      <4>2. CASE i # new /\ k \in Ids
        BY <1>0, <2>1, <2>2, <2>5, <4>2 DEF RowsAreNotReplaced
      <4>3. CASE i # new /\ k = new
        BY <2>1, <2>2, <2>4, <2>7, <4>3
      <4> QED BY <2>3, <4>1, <4>2, <4>3
    <3> QED BY <2>a, <3>1 DEF RowsAreNotReplaced
  <2>10. ReadyIsDue'
    BY <1>a, <2>1, <2>2 DEF ReadyIsDue, Ready
  <2> QED BY <2>8, <2>9, <2>10
<1>3. ASSUME NEW ids \in Cancellations, RemoveJobs(ids)
      PROVE  Goal
  <2>1. /\ DOMAIN jobs' = DOMAIN jobs \ ids /\ \A k \in DOMAIN jobs' : jobs'[k] = jobs[k]
        /\ cancelled' = cancelled \cup ids /\ UNCHANGED <<clock, inserted, ran>>
    BY <1>3 DEF RemoveJobs, Without
  <2> QED BY <1>a, <2>1, RowsStaySound
<1>4. ASSUME NEW r \in Runners, Start(r) PROVE Goal
  BY <1>b, <1>4 DEF Start, StartRunner, queueVars, history
<1>5. ASSUME NEW r \in Runners, Work(r) PROVE Goal
  <2>1. CASE CheckQueue(r) \/ StartBatch(r) \/ BeginJob(r) \/ EndBatch(r)
    BY <1>b, <2>1 DEF CheckQueue, StartBatch, BeginJob, EndBatch, queueVars, history
  <2>2. CASE PickBatch(r)
    <3>1. jobs' = WithDueJobs(jobs) /\ UNCHANGED <<clock, inserted, ran, cancelled>>
      BY <2>2 DEF PickBatch, history
    <3>2. DOMAIN jobs' = DOMAIN jobs /\ \A i \in DOMAIN jobs' : jobs'[i].ready => jobs'[i].runAfter <= clock'
      BY <1>0, <1>a, <3>1, DueJobs
    <3> QED BY <3>1, <3>2, RowsStaySound
  <2>3. CASE DiscardJob(r)
    <3>1. UNCHANGED <<clock, inserted, ran, cancelled>>
      BY <2>3 DEF DiscardJob
    <3>2. run[r].batch \subseteq CopyRecords(Ids) /\ run[r].batch # {}
      BY <1>0, <2>3 DEF TypeOK, RunRecords, DiscardJob
    <3>3. inserted[Current(r).id].handler \notin KnownHandlers
      BY <1>0, <2>3, <3>2, CurrentIsInBatch DEF BatchIsSound, DiscardJob
    <3>4. CASE run[r].dry
      BY <1>b, <2>3, <3>1, <3>4 DEF DiscardJob, queueVars
    <3>5. CASE ~run[r].dry
      <4>1. jobs' = Without(jobs, {Current(r).id})
        BY <2>3, <3>5 DEF DiscardJob
      <4> QED BY <1>c, <3>1, <3>3, <4>1
    <3> QED BY <3>4, <3>5
  <2>4. CASE Reserve(r)
    <3>1. PICK R \in SUBSET Reschedulings : \E last : RescheduleJobs(R, last)
      BY <1>0, <2>4, ReserveReschedules
    <3>2. PICK last : RescheduleJobs(R, last)
      BY <3>1
    <3>3. DOMAIN jobs' = DOMAIN jobs /\ \A i \in DOMAIN jobs : jobs'[i] = jobs[i] \/ ~jobs'[i].ready
      BY <1>0, <3>2, RescheduleJobsKeepsRows DEF TypeOK, Rows
    <3>4. UNCHANGED <<clock, inserted, ran, cancelled>>
      BY <2>4 DEF Reserve
    <3> QED BY <1>d, <3>3, <3>4
  <2>5. CASE FinishJob(r)
    <3>1. UNCHANGED <<clock, jobs, inserted, cancelled>> /\ ran \subseteq ran'
      BY <2>5 DEF FinishJob, queueVars
    <3> QED BY <1>b, <3>1
  <2>6. CASE RemoveFinished(r)
    <3>1. jobs' = Without(jobs, {Current(r).id}) /\ UNCHANGED <<clock, inserted, ran, cancelled>>
      BY <2>6 DEF RemoveFinished, history
    <3>2. Current(r).id \in ran
      BY <1>0, <2>6 DEF RemoveFinished, BatchIsSound
    <3> QED BY <1>c, <3>1, <3>2
  <2> QED BY <1>5, <2>1, <2>2, <2>3, <2>4, <2>5, <2>6 DEF Work
<1>6. ASSUME NEW r \in Runners, Mishap(r) PROVE Goal
  <2>1. ASSUME NEW minimum \in ErrorDelays, NEW priority \in ErrorPriorities,
               FailSingle(r, minimum, priority) \/ FailJob(r, minimum, priority)
        PROVE  Goal
    <3>1. run[r].batch # {}
      <4>1. CASE FailSingle(r, minimum, priority)
        <5>1. Cardinality(run[r].batch) = 1 /\ Cardinality({}) = 0
          BY <4>1, FS_EmptySet DEF FailSingle
        <5> QED BY <5>1
      <4>2. CASE FailJob(r, minimum, priority)
        BY <1>0, <4>2 DEF FailJob, BatchIsSound
      <4> QED BY <2>1, <4>1, <4>2
    <3>2. RescheduleFailed(r, Current(r), minimum, priority)
      BY <2>1 DEF FailSingle, FailJob
    <3>3. /\ DOMAIN jobs' = DOMAIN jobs /\ \A i \in DOMAIN jobs : jobs'[i] = jobs[i] \/ ~jobs'[i].ready
          /\ UNCHANGED <<clock, inserted, ran, cancelled>>
      BY <1>0, <3>1, <3>2, FailureStaysTyped
    <3> QED BY <1>d, <3>3
  <2>2. CASE SplitBatch(r)
    <3>1. UNCHANGED <<clock, inserted, ran, cancelled>>
      BY <2>2 DEF SplitBatch
    <3>2. CASE run[r].dry
      BY <1>b, <2>2, <3>1, <3>2 DEF SplitBatch, queueVars
    <3>3. CASE ~run[r].dry
      <4>1. PICK R \in SUBSET Reschedulings : \E last : RescheduleJobs(R, last)
        BY <1>0, <2>2, <3>3, SplitReschedules
      <4>2. PICK last : RescheduleJobs(R, last)
        BY <4>1
      <4>3. DOMAIN jobs' = DOMAIN jobs /\ \A i \in DOMAIN jobs : jobs'[i] = jobs[i] \/ ~jobs'[i].ready
        BY <1>0, <4>2, RescheduleJobsKeepsRows DEF TypeOK, Rows
      <4> QED BY <1>d, <3>1, <4>3
    <3> QED BY <3>2, <3>3
  <2>3. CASE Crash(r)
    BY <1>b, <2>3 DEF Crash, queueVars
  <2> QED BY <1>6, <2>1, <2>2, <2>3 DEF Mishap
<1> QED BY <1>1, <1>2, <1>3, <1>4, <1>5, <1>6 DEF Next, ClientStep

\* A runner whose memory does not change stays sound: what it holds is never taken back.
LEMMA IdleRunnerStaysSound ==
  ASSUME Inductive, NEW s \in Runners, run'[s] = run[s], ran \subseteq ran',
         \A i \in Ids : inserted'[i] = inserted[i]
  PROVE  BatchIsSound(s)'
<1>1. BatchIsSound(s) /\ run[s].batch \subseteq CopyRecords(Ids)
  BY DEF Inductive, TypeOK, RunRecords
<1>2. \A x \in run[s].batch : x.id \in Ids
  BY <1>1 DEF CopyRecords
<1> QED BY <1>1, <1>2 DEF BatchIsSound, Current

\* Most steps lead a runner to a place where nothing is asked of its batch.
LEMMA CalmRunnerIsSound ==
  ASSUME NEW r \in Runners,
         run'[r].pc \in {"idle", "checking", "picking", "reserving", "starting", "working"}
  PROVE  BatchIsSound(r)'
BY DEF BatchIsSound

LEMMA NextKeepsBatches ==
  ASSUME Inductive, Next
  PROVE  \A s \in Runners : BatchIsSound(s)'
<1>0. TypeOK /\ \A r \in Runners : BatchIsSound(r)
  BY DEF Inductive
<1>a. ASSUME UNCHANGED inserted, ran \subseteq ran', NEW r \in Runners,
             \A s \in Runners \ {r} : run'[s] = run[s], BatchIsSound(r)'
      PROVE  \A s \in Runners : BatchIsSound(s)'
  BY <1>a, IdleRunnerStaysSound
<1>b. ASSUME NEW r \in Runners, NEW pc, GoTo(r, pc)
      PROVE  run'[r].pc = pc /\ run'[r].batch = run[r].batch /\ \A s \in Runners \ {r} : run'[s] = run[s]
  BY <1>0, <1>b DEF GoTo, TypeOK, RunRecords
<1>c. ASSUME NEW r \in Runners, NEW pc, DropCurrent(r, pc)
      PROVE  run'[r].pc = pc /\ run'[r].batch \subseteq run[r].batch /\ \A s \in Runners \ {r} : run'[s] = run[s]
  BY <1>0, <1>c DEF DropCurrent, TypeOK, RunRecords
<1>1. CASE Tick
  BY <1>1, IdleRunnerStaysSound DEF Tick, history
<1>2. ASSUME NEW request \in Requests, NEW mode \in Modes, InsertJob(request, mode)
      PROVE  \A s \in Runners : BatchIsSound(s)'
  <2> DEFINE Entries == [handler : Handlers, key : STRING, mode : AllModes]
             entry == [handler |-> request.handler, key |-> request.key, mode |-> mode]
  <2>1. inserted' = Append(inserted, entry) /\ UNCHANGED <<run, ran>>
    BY <1>2 DEF InsertJob
  <2>2. inserted \in Seq(Entries)
    BY <1>0 DEF TypeOK
  <2>3. \A i \in Ids : inserted'[i] = inserted[i]
    <3> HIDE DEF entry, Entries
    <3> QED BY <2>1, <2>2 DEF Ids
  <2> QED BY <2>1, <2>3, IdleRunnerStaysSound
<1>3. ASSUME NEW ids \in Cancellations, RemoveJobs(ids)
      PROVE  \A s \in Runners : BatchIsSound(s)'
  BY <1>3, IdleRunnerStaysSound DEF RemoveJobs
<1>4. ASSUME NEW r \in Runners, Start(r)
      PROVE  \A s \in Runners : BatchIsSound(s)'
  <2>1. /\ run'[r].pc = "checking" /\ \A s \in Runners \ {r} : run'[s] = run[s]
        /\ UNCHANGED <<inserted, ran>>
    BY <1>0, <1>4 DEF Start, StartRunner, TypeOK, history
  <2> QED BY <1>a, <2>1, CalmRunnerIsSound
<1>5. ASSUME NEW r \in Runners, Work(r)
      PROVE  \A s \in Runners : BatchIsSound(s)'
  <2>1. CASE CheckQueue(r)
    <3>1. /\ run'[r].pc \in {"picking", "idle"} /\ \A s \in Runners \ {r} : run'[s] = run[s]
          /\ UNCHANGED <<inserted, ran>>
      BY <1>0, <1>b, <2>1 DEF CheckQueue, NoRun, TypeOK, history
    <3> QED BY <1>a, <3>1, CalmRunnerIsSound
  <2>2. CASE PickBatch(r)
    <3> DEFINE q == WithDueJobs(jobs)
               picked == IF Ready(q) = {} THEN {} ELSE Picked(r, q)
               copies == {[id |-> i, place |-> Place(q, newestFirst, i), tries |-> q[i].tries] : i \in picked}
               pc == IF picked = {} THEN "checking" ELSE NextStep(r, picked)
    <3>1. \A i, k \in picked : inserted[i].handler = inserted[k].handler
      BY <1>0, PickedJobs
    <3>2. UNCHANGED <<inserted, ran>> /\ \A s \in Runners \ {r} : run'[s] = run[s]
      BY <1>0, <2>2 DEF PickBatch, TypeOK, history
    <3>3. run'[r] = [run[r] EXCEPT !.pc = pc, !.quota = QuotaLeft(r, picked), !.batch = copies]
      <4>1. run' = [run EXCEPT ![r] = [run[r] EXCEPT !.pc = pc, !.quota = QuotaLeft(r, picked), !.batch = copies]]
        BY <2>2 DEF PickBatch
      <4> HIDE DEF pc, copies, picked
      <4> QED BY <1>0, <4>1 DEF TypeOK
    <3>4. run'[r].pc = pc /\ run'[r].batch = copies
      <4> HIDE DEF pc, copies, picked
      <4> QED BY <1>0, <3>3 DEF TypeOK, RunRecords
    <3>5. pc \in {"checking", "discarding", "starting", "reserving"}
      BY DEF NextStep
    <3>6. pc = "discarding" => \A x \in copies : inserted[x.id].handler \notin KnownHandlers
      <4> HIDE DEF picked, q
      <4> QED BY <3>1 DEF NextStep
    <3>7. BatchIsSound(r)'
      <4> HIDE DEF pc, copies, picked
      <4> QED BY <3>2, <3>4, <3>5, <3>6 DEF BatchIsSound
    <3> QED BY <1>a, <3>2, <3>7
  <2>3. CASE DiscardJob(r)
    <3>1. run[r].pc = "discarding" /\ UNCHANGED <<inserted, ran>> /\ DropCurrent(r, "discarding")
      BY <2>3 DEF DiscardJob
    <3>2. \A x \in run[r].batch : inserted[x.id].handler \notin KnownHandlers
      BY <1>0, <3>1 DEF BatchIsSound
    <3>3. BatchIsSound(r)'
      BY <1>c, <3>1, <3>2 DEF BatchIsSound
    <3> QED BY <1>a, <1>c, <3>1, <3>3
  <2>4. CASE Reserve(r) \/ StartBatch(r) \/ EndBatch(r)
    <3>1. /\ UNCHANGED <<inserted, ran>>
          /\ GoTo(r, "starting") \/ GoTo(r, "working") \/ GoTo(r, "checking")
      BY <2>4 DEF Reserve, StartBatch, EndBatch, history
    <3>2. run'[r].pc \in {"starting", "working", "checking"} /\ \A s \in Runners \ {r} : run'[s] = run[s]
      BY <1>b, <3>1
    <3> QED BY <1>a, <3>1, <3>2, CalmRunnerIsSound
  <2>5. CASE BeginJob(r)
    <3>1. UNCHANGED <<inserted, ran>> /\ GoTo(r, "running") /\ run[r].batch # {}
      BY <2>5 DEF BeginJob, history
    <3>2. BatchIsSound(r)'
      BY <1>b, <3>1 DEF BatchIsSound
    <3> QED BY <1>a, <1>b, <3>1, <3>2
  <2>6. CASE FinishJob(r)
    <3>1. UNCHANGED inserted /\ run[r].batch # {}
      BY <1>0, <2>6 DEF FinishJob, BatchIsSound
    <3>2. CASE run[r].dry
      <4>1. DropCurrent(r, "working") /\ ran' = ran
        BY <2>6, <3>2 DEF FinishJob
      <4> QED BY <1>a, <1>c, <3>1, <4>1, CalmRunnerIsSound
    <3>3. CASE ~run[r].dry
      <4>1. GoTo(r, "removing") /\ ran' = ran \cup {Current(r).id}
        BY <2>6, <3>3 DEF FinishJob
      <4>2. run'[r].pc = "removing" /\ run'[r].batch = run[r].batch /\ \A s \in Runners \ {r} : run'[s] = run[s]
        BY <1>b, <4>1
      <4>3. Current(r)' = Current(r)
        BY <4>2 DEF Current
      <4>4. BatchIsSound(r)'
        BY <3>1, <4>1, <4>2, <4>3 DEF BatchIsSound
      <4> QED BY <1>a, <3>1, <4>1, <4>2, <4>4
    <3> QED BY <3>2, <3>3
  <2>7. CASE RemoveFinished(r)
    <3>1. UNCHANGED <<inserted, ran>> /\ DropCurrent(r, "working")
      BY <2>7 DEF RemoveFinished, history
    <3> QED BY <1>a, <1>c, <3>1, CalmRunnerIsSound
  <2> QED BY <1>5, <2>1, <2>2, <2>3, <2>4, <2>5, <2>6, <2>7 DEF Work
<1>6. ASSUME NEW r \in Runners, Mishap(r)
      PROVE  \A s \in Runners : BatchIsSound(s)'
  <2>1. ASSUME NEW minimum \in ErrorDelays, NEW priority \in ErrorPriorities,
               FailSingle(r, minimum, priority) \/ FailJob(r, minimum, priority)
        PROVE  \A s \in Runners : BatchIsSound(s)'
    <3>1. UNCHANGED <<inserted, ran>> /\ (DropCurrent(r, "checking") \/ DropCurrent(r, "working"))
      BY <2>1 DEF FailSingle, FailJob, RescheduleFailed
    <3>2. run'[r].pc \in {"checking", "working"} /\ \A s \in Runners \ {r} : run'[s] = run[s]
      BY <1>c, <3>1
    <3> QED BY <1>a, <3>1, <3>2, CalmRunnerIsSound
  <2>2. CASE SplitBatch(r)
    <3>1. PICK kept : run' = [run EXCEPT ![r].batch = kept]
      BY <2>2 DEF SplitBatch
    <3>2. run'[r].pc = "starting" /\ (\A s \in Runners \ {r} : run'[s] = run[s])
          /\ UNCHANGED <<inserted, ran>>
      BY <1>0, <2>2, <3>1 DEF SplitBatch, TypeOK, RunRecords
    <3> QED BY <1>a, <3>2, CalmRunnerIsSound
  <2>3. CASE Crash(r)
    <3>1. run'[r].pc = "idle" /\ (\A s \in Runners \ {r} : run'[s] = run[s]) /\ UNCHANGED <<inserted, ran>>
      BY <1>0, <2>3 DEF Crash, NoRun, TypeOK
    <3> QED BY <1>a, <3>1, CalmRunnerIsSound
  <2> QED BY <1>6, <2>1, <2>2, <2>3 DEF Mishap
<1> QED BY <1>1, <1>2, <1>3, <1>4, <1>5, <1>6 DEF Next, ClientStep

LEMMA StutterKeepsInductive ==
  ASSUME Inductive, UNCHANGED vars
  PROVE  Inductive'
BY DEF Inductive, vars, queueVars, history, TypeOK, NoJobLost, ReadyIsDue, Ready,
       RowsAreNotReplaced, Replaces, BatchIsSound, Current, Ids

\* The invariant, for any number of runners, requests and crashes.
THEOREM InvariantHolds == Spec => []Inductive
<1>1. Init => Inductive
  BY InitIsInductive
<1>2. Inductive /\ [Next]_vars => Inductive'
  <2>1. ASSUME Inductive, Next PROVE Inductive'
    BY <2>1, NextKeepsTypeOK, NextKeepsRows, NextKeepsBatches DEF Inductive
  <2> QED BY <2>1, StutterKeepsInductive
<1> QED BY <1>1, <1>2, PTL DEF Spec

THEOREM TypeCorrect == Spec => []TypeOK
<1>1. Inductive => TypeOK
  BY DEF Inductive
<1> QED BY <1>1, InvariantHolds, PTL

\* A job leaves the table only when it is done, cancelled, replaced or impossible.
THEOREM NoJobIsLost == Spec => []NoJobLost
<1>1. Inductive => NoJobLost
  BY DEF Inductive
<1> QED BY <1>1, InvariantHolds, PTL

\* getFirstJobDate can be trusted: only due jobs are marked as such.
THEOREM ReadyJobsAreDue == Spec => []ReadyIsDue
<1>1. Inductive => ReadyIsDue
  BY DEF Inductive
<1> QED BY <1>1, InvariantHolds, PTL

-----------------------------------------------------------------------------
(* One runner: the last run for a page is the one last asked for. *)

OneRunner == \A r, s \in Runners : r = s

\* Most steps shrink the batch or add the id of one of its jobs to those that have run.
LEMMA CopiesStayAhead ==
  ASSUME Inductive, CopiesAreNotOutrun, \A i \in Ids : inserted'[i] = inserted[i],
         \A r \in Runners : /\ run'[r].batch \subseteq run[r].batch
                            /\ ran' \subseteq ran \cup IdsOf(run[r].batch)
  PROVE  CopiesAreNotOutrun'
<1>1. ran \subseteq Ids /\ \A r \in Runners : IdsOf(run[r].batch) \subseteq Ids
  BY DEF Inductive, TypeOK, RunRecords, CopyRecords, IdsOf
<1>2. \A i, k \in Ids : Replaces(k, i)' <=> Replaces(k, i)
  BY DEF Replaces
<1>3. ASSUME NEW r \in Runners, NEW x \in run'[r].batch, NEW k \in ran' \cup IdsOf(run'[r].batch)
      PROVE  ~Replaces(k, x.id) /\ k \in Ids /\ x.id \in Ids
  <2>1. x \in run[r].batch /\ k \in ran \cup IdsOf(run[r].batch)
    BY DEF IdsOf
  <2>2. ~Replaces(k, x.id)
    BY <2>1 DEF CopiesAreNotOutrun
  <2>3. x.id \in IdsOf(run[r].batch)
    BY <2>1 DEF IdsOf
  <2> QED BY <1>1, <2>1, <2>2, <2>3
<1>4. ASSUME NEW r \in Runners, NEW x \in run'[r].batch, NEW k \in ran' \cup IdsOf(run'[r].batch)
      PROVE  ~Replaces(k, x.id)'
  <2>1. ~Replaces(k, x.id) /\ k \in Ids /\ x.id \in Ids
    BY <1>3
  <2> QED BY <2>1, <1>2
<1> QED BY <1>4 DEF CopiesAreNotOutrun, IdsOf

LEMMA NextKeepsCopiesAhead ==
  ASSUME Inductive, OneRunner, CopiesAreNotOutrun, [Next]_vars
  PROVE  CopiesAreNotOutrun'
<1>0. TypeOK /\ RowsAreNotReplaced /\ \A r \in Runners : BatchIsSound(r)
  BY DEF Inductive
<1>1. CASE UNCHANGED vars
  BY <1>1, CopiesStayAhead DEF vars, history
<1>2. CASE Tick
  BY <1>2, CopiesStayAhead DEF Tick, history
<1>3. ASSUME NEW request \in Requests, NEW mode \in Modes, InsertJob(request, mode)
      PROVE  CopiesAreNotOutrun'
  <2> DEFINE Entries == [handler : Handlers, key : STRING, mode : AllModes]
             entry == [handler |-> request.handler, key |-> request.key, mode |-> mode]
  <2>1. inserted' = Append(inserted, entry) /\ UNCHANGED <<run, ran>>
    BY <1>3 DEF InsertJob
  <2>2. inserted \in Seq(Entries)
    BY <1>0 DEF TypeOK
  <2>3. \A i \in Ids : inserted'[i] = inserted[i]
    <3> HIDE DEF entry, Entries
    <3> QED BY <2>1, <2>2 DEF Ids
  <2> QED BY <2>1, <2>3, CopiesStayAhead
<1>4. ASSUME NEW ids \in Cancellations, RemoveJobs(ids)
      PROVE  CopiesAreNotOutrun'
  BY <1>4, CopiesStayAhead DEF RemoveJobs
<1>a. ASSUME NEW r \in Runners, run'[r].batch \subseteq run[r].batch, UNCHANGED inserted,
             ran' \subseteq ran \cup IdsOf(run[r].batch)
      PROVE  CopiesAreNotOutrun'
  BY <1>a, CopiesStayAhead DEF OneRunner
<1>b. ASSUME NEW r \in Runners, NEW pc, GoTo(r, pc) \/ DropCurrent(r, pc)
      PROVE  run'[r].batch \subseteq run[r].batch
  <2>1. run \in [Runners -> RunRecords(Ids)]
    BY <1>0 DEF TypeOK
  <2>2. CASE GoTo(r, pc)
    BY <2>1, <2>2 DEF GoTo, RunRecords
  <2>3. CASE DropCurrent(r, pc)
    <3>1. run'[r].batch = run[r].batch \ {Current(r)}
      BY <2>1, <2>3 DEF DropCurrent, RunRecords
    <3> QED BY <3>1
  <2> QED BY <1>b, <2>2, <2>3
<1>5. ASSUME NEW r \in Runners, Start(r)
      PROVE  CopiesAreNotOutrun'
  <2>1. run'[r].batch = {} /\ UNCHANGED <<inserted, ran>>
    BY <1>0, <1>5 DEF Start, StartRunner, TypeOK, history
  <2> QED BY <1>a, <2>1
<1>6. ASSUME NEW r \in Runners, Work(r)
      PROVE  CopiesAreNotOutrun'
  <2>1. CASE PickBatch(r)
    <3> DEFINE q == WithDueJobs(jobs)
               picked == IF Ready(q) = {} THEN {} ELSE Picked(r, q)
               copies == {[id |-> i, place |-> Place(q, newestFirst, i), tries |-> q[i].tries] : i \in picked}
               pc == IF picked = {} THEN "checking" ELSE NextStep(r, picked)
    <3>1. picked \subseteq DOMAIN jobs /\ DOMAIN jobs \subseteq Ids
      BY <1>0, PickedJobs, DueJobs DEF Ready, TypeOK
    <3>2. UNCHANGED <<inserted, ran>>
      BY <2>1 DEF PickBatch, history
    <3>3. run'[r].batch = copies
      <4>1. run' = [run EXCEPT ![r] = [run[r] EXCEPT !.pc = pc, !.quota = QuotaLeft(r, picked), !.batch = copies]]
        BY <2>1 DEF PickBatch
      <4> HIDE DEF pc, copies, picked
      <4> QED BY <1>0, <4>1 DEF TypeOK, RunRecords
    <3>4. \A x \in copies : x.id \in picked
      <4> HIDE DEF picked
      <4> QED OBVIOUS
    <3>5. \A s \in Runners : \A x \in run'[s].batch : x.id \in DOMAIN jobs
      <4> HIDE DEF copies, picked
      <4> QED BY <3>1, <3>3, <3>4 DEF OneRunner
    <3>6. ran' \subseteq Ids /\ Ids' = Ids
      BY <1>0, <3>2 DEF TypeOK, Ids
    <3>7. \A i, k : Replaces(k, i)' <=> Replaces(k, i)
      BY <3>2 DEF Replaces
    <3>8. ASSUME NEW s \in Runners, NEW x \in run'[s].batch, NEW k \in ran' \cup IdsOf(run'[s].batch)
          PROVE  ~Replaces(k, x.id)'
      <4>1. x.id \in DOMAIN jobs
        BY <3>5
      <4>2. k \in Ids
        BY <3>1, <3>5, <3>6 DEF IdsOf
      <4>3. ~Replaces(k, x.id)
        BY <1>0, <4>1, <4>2 DEF RowsAreNotReplaced
      <4> QED BY <3>7, <4>3
    <3> QED BY <3>8 DEF CopiesAreNotOutrun, IdsOf
  <2>2. CASE CheckQueue(r)
    <3>1. run'[r].batch \subseteq run[r].batch /\ UNCHANGED <<inserted, ran>>
      BY <1>0, <1>b, <2>2 DEF CheckQueue, NoRun, TypeOK, history
    <3> QED BY <1>a, <3>1
  <2>3. CASE DiscardJob(r)
    BY <1>a, <1>b, <2>3 DEF DiscardJob
  <2>4. CASE Reserve(r)
    BY <1>a, <1>b, <2>4 DEF Reserve
  <2>5. CASE StartBatch(r) \/ BeginJob(r) \/ EndBatch(r) \/ RemoveFinished(r)
    BY <1>a, <1>b, <2>5 DEF StartBatch, BeginJob, EndBatch, RemoveFinished, history
  <2>6. CASE FinishJob(r)
    <3>1. run[r].batch # {} /\ run[r].batch \subseteq CopyRecords(Ids)
      BY <1>0, <2>6 DEF FinishJob, BatchIsSound, TypeOK, RunRecords
    <3>2. Current(r).id \in IdsOf(run[r].batch)
      BY <3>1, CurrentIsInBatch DEF IdsOf
    <3>3. UNCHANGED inserted /\ ran' \subseteq ran \cup {Current(r).id}
      BY <2>6 DEF FinishJob
    <3>4. run'[r].batch \subseteq run[r].batch
      BY <1>b, <2>6 DEF FinishJob
    <3> QED BY <1>a, <3>2, <3>3, <3>4
  <2> QED BY <1>6, <2>1, <2>2, <2>3, <2>4, <2>5, <2>6 DEF Work
<1>7. ASSUME NEW r \in Runners, Mishap(r)
      PROVE  CopiesAreNotOutrun'
  <2>1. ASSUME NEW minimum \in ErrorDelays, NEW priority \in ErrorPriorities,
               FailSingle(r, minimum, priority) \/ FailJob(r, minimum, priority)
        PROVE  CopiesAreNotOutrun'
    BY <1>a, <1>b, <2>1 DEF FailSingle, FailJob, RescheduleFailed
  <2>2. CASE SplitBatch(r)
    <3>1. PICK kept \in SUBSET run[r].batch : run' = [run EXCEPT ![r].batch = kept]
      BY <2>2 DEF SplitBatch
    <3>2. run'[r].batch \subseteq run[r].batch
      BY <1>0, <3>1 DEF TypeOK, RunRecords
    <3> QED BY <1>a, <2>2, <3>2 DEF SplitBatch
  <2>3. CASE Crash(r)
    <3>1. run'[r].batch = {} /\ UNCHANGED <<inserted, ran>>
      BY <1>0, <2>3 DEF Crash, NoRun, TypeOK
    <3> QED BY <1>a, <3>1
  <2> QED BY <1>7, <2>1, <2>2, <2>3 DEF Mishap
<1> QED BY <1>1, <1>2, <1>3, <1>4, <1>5, <1>6, <1>7 DEF Next, ClientStep

\* A single runner never runs a job after one that replaced it.
THEOREM LastRunIsTheLastAsked ==
  ASSUME OneRunner
  PROVE  Spec => []ReplacedIsNotRunLast
<1>1. Init => CopiesAreNotOutrun
  BY DEF Init, CopiesAreNotOutrun, NoRun
<1>2. Inductive /\ Inductive' /\ CopiesAreNotOutrun /\ [Next]_vars => CopiesAreNotOutrun'
  BY OneRunner, NextKeepsCopiesAhead
<1>3. Inductive /\ CopiesAreNotOutrun => ReplacedIsNotRunLast
  <2> SUFFICES ASSUME Inductive, CopiesAreNotOutrun, NEW r \in Runners, run[r].pc = "running",
                      NEW k \in ran
               PROVE  ~Replaces(k, Current(r).id)
    BY DEF ReplacedIsNotRunLast
  <2>1. run[r].batch # {} /\ run[r].batch \subseteq CopyRecords(Ids)
    BY DEF Inductive, BatchIsSound, TypeOK, RunRecords
  <2>2. Current(r) \in run[r].batch
    BY <2>1, CurrentIsInBatch
  <2> QED BY <2>2 DEF CopiesAreNotOutrun
<1> QED BY <1>1, <1>2, <1>3, InvariantHolds, PTL DEF Spec

-----------------------------------------------------------------------------
(* The quota of a call of runJobs. *)

RowsAreATable(q) == q \in [DOMAIN jobs -> RowRecords]

LEMMA RowsMakeATable ==
  ASSUME TypeOK, NEW q, RowsAreATable(q)
  PROVE  Table(q) /\ DOMAIN q = DOMAIN jobs
<1>1. IsFiniteSet(DOMAIN jobs) /\ DOMAIN jobs \subseteq Int
  BY JobsAreFinite DEF TypeOK
<1>2. DOMAIN q = DOMAIN jobs /\ \A i \in DOMAIN q : q[i] \in RowRecords
  BY DEF RowsAreATable
<1> QED BY <1>1, <1>2 DEF Table, RowRecords

\* The callback of runOneBatchOfJobs stops at the quota.
LEMMA BatchFitsQuota ==
  ASSUME TypeOK, NEW r \in Runners, NEW q, RowsAreATable(q), Ready(q) # {},
         run[r].quota \in Nat \ {0}
  PROVE  IsFiniteSet(Picked(r, q)) /\ Cardinality(Picked(r, q)) <= run[r].quota
<1> DEFINE Turn(i) == Place(q, newestFirst, i)
           first == CHOOSE i \in Ready(q) : Turn(i) = 1
           handler == inserted[first].handler
           matching == {i \in SameLevel(q, first) : inserted[i].handler = handler}
           FollowsClosely(i) == \E k \in matching : Turn(k) < Turn(i) /\ Turn(i) <= Turn(k) + SkipLimit
           reached == {i \in matching : \A k \in matching :
                          Turn(k) <= Turn(i) => k = first \/ FollowsClosely(k)}
           RankOf(i) == Cardinality({k \in reached : Turn(k) < Turn(i)})
<1>1. Table(q) /\ newestFirst \in BOOLEAN /\ IsFiniteSet(DOMAIN q)
  BY RowsMakeATable DEF TypeOK, Table
<1>2. first \in Ready(q) /\ Turn(first) = 1
  BY <1>1, FirstPlace
<1>3. Picked(r, q) = {i \in reached : i = first \/ RankOf(i) < Limit(r, handler)}
  BY DEF Picked
<1>4. reached \subseteq SameLevel(q, first)
  OBVIOUS
<1> HIDE DEF reached, first
<1>5. IsFiniteSet(reached) /\ reached \subseteq Ready(q)
  BY <1>1, <1>4, FS_Subset DEF SameLevel, Ready
<1>6. \A i \in reached : Turn(i) \in Nat \ {0}
  BY <1>1, PlaceIsPositive
<1>7. \A i, k \in reached : i # k => Turn(i) # Turn(k)
  <2> SUFFICES ASSUME NEW i \in reached, NEW k \in reached, i # k  PROVE Turn(i) # Turn(k)
    OBVIOUS
  <2>1. i \in Ready(q) /\ k \in SameLevel(q, i)
    BY <1>4, <1>5 DEF SameLevel
  <2> QED BY <1>1, <2>1, PlacesDiffer
<1>8. RankOf(first) = 0
  <2>1. {k \in reached : Turn(k) < Turn(first)} = {}
    <3> HIDE DEF Turn
    <3> QED BY <1>2, <1>6
  <2> QED BY <2>1, FS_EmptySet
<1>9. \A i \in reached : RankOf(i) \in Nat
  BY <1>5, FS_Subset, FS_CardinalityType
<1>10. Limit(r, handler) <= run[r].quota /\ Limit(r, handler) \in Int
  BY RequestsAreTyped DEF Limit, Smaller
<1> DEFINE early == {i \in reached : RankOf(i) < run[r].quota}
<1>11. Picked(r, q) \subseteq early
  <2> HIDE DEF RankOf
  <2> QED BY <1>3, <1>8, <1>9, <1>10
<1>12. Cardinality(early) <= run[r].quota
  <2> DEFINE turn == [i \in reached |-> Turn(i)]
  <2>1. turn \in [reached -> Nat]
    BY <1>6
  <2>2. \A i, k \in reached : i # k => turn[i] # turn[k]
    BY <1>7
  <2>3. Cardinality({i \in reached : Cardinality({k \in reached : turn[k] < turn[i]}) < run[r].quota})
          <= run[r].quota
    <3> HIDE DEF turn
    <3> QED BY <1>5, <2>1, <2>2, FewAreEarly
  <2>4. \A i \in reached : {k \in reached : turn[k] < turn[i]} = {k \in reached : Turn(k) < Turn(i)}
    OBVIOUS
  <2>5. {i \in reached : Cardinality({k \in reached : turn[k] < turn[i]}) < run[r].quota} = early
    <3> HIDE DEF turn, Turn
    <3> QED BY <2>4
  <2> QED BY <2>3, <2>5
<1>13. IsFiniteSet(early)
  BY <1>5, FS_Subset
<1> HIDE DEF early
<1> QED BY <1>11, <1>12, <1>13, FS_Subset, FS_CardinalityType

\* A runner picks jobs as long as its quota is not used up.
QuotaIsSound(r) == run[r].quota >= 0 /\ (run[r].pc = "picking" => run[r].quota > 0)

LEMMA PickingKeepsQuota ==
  ASSUME TypeOK, NEW r \in Runners, QuotaIsSound(r), PickBatch(r)
  PROVE  QuotaIsSound(r)'
<1> DEFINE q == WithDueJobs(jobs)
           picked == IF Ready(q) = {} THEN {} ELSE Picked(r, q)
           copies == {[id |-> i, place |-> Place(q, newestFirst, i), tries |-> q[i].tries] : i \in picked}
           pc == IF picked = {} THEN "checking" ELSE NextStep(r, picked)
<1>1. RowsAreATable(q)
  BY DueJobs DEF RowsAreATable
<1>2. run[r].pc = "picking" /\ run[r].quota \in Int /\ run[r] \in RunRecords(Ids)
  BY DEF PickBatch, TypeOK, RunRecords
<1>3. run[r].quota \in Nat \ {0}
  BY <1>2 DEF QuotaIsSound
<1>4. Cardinality(picked) \in Nat /\ Cardinality(picked) <= run[r].quota
  <2> HIDE DEF q
  <2>1. CASE Ready(q) = {}
    BY <1>3, <2>1, FS_EmptySet
  <2>2. CASE Ready(q) # {}
    BY <1>1, <1>3, <2>2, BatchFitsQuota, FS_CardinalityType
  <2> QED BY <2>1, <2>2
<1>5. PICK left : left = QuotaLeft(r, picked) /\ left \in Nat
  BY <1>3, <1>4 DEF QuotaLeft
<1>6. pc # "picking"
  BY DEF NextStep
<1>7. run'[r] = [run[r] EXCEPT !.pc = pc, !.quota = left, !.batch = copies]
  BY <1>5 DEF PickBatch, TypeOK
<1> HIDE DEF picked, copies, pc
<1>8. run'[r].pc = pc /\ run'[r].quota = left
  BY <1>2, <1>7 DEF RunRecords
<1> QED BY <1>5, <1>6, <1>8 DEF QuotaIsSound

\* The other steps of a runner keep its quota, or end its call.
LEMMA OtherStepsKeepQuota ==
  ASSUME TypeOK, NEW r \in Runners, QuotaIsSound(r), NEW pc, NEW batch,
         run'[r] = [run[r] EXCEPT !.pc = pc, !.batch = batch], pc = "picking" => run[r].quota > 0
  PROVE  QuotaIsSound(r)'
<1>1. run[r] \in RunRecords(Ids)
  BY DEF TypeOK
<1>2. run'[r].pc = pc /\ run'[r].quota = run[r].quota
  BY <1>1 DEF RunRecords
<1> QED BY <1>2 DEF QuotaIsSound

\* The two shapes of most steps.
LEMMA MovingKeepsQuota ==
  ASSUME TypeOK, NEW r \in Runners, QuotaIsSound(r), NEW pc,
         GoTo(r, pc) \/ DropCurrent(r, pc), pc = "picking" => run[r].quota > 0
  PROVE  QuotaIsSound(r)'
<1>1. run[r] \in RunRecords(Ids)
  BY DEF TypeOK
<1>2. CASE GoTo(r, pc)
  <2>1. run'[r] = [run[r] EXCEPT !.pc = pc]
    BY <1>2 DEF GoTo, TypeOK
  <2> QED BY <1>1, <2>1 DEF QuotaIsSound, RunRecords
<1>3. CASE DropCurrent(r, pc)
  <2>1. run'[r] = [run[r] EXCEPT !.pc = pc, !.batch = run[r].batch \ {Current(r)}]
    BY <1>3 DEF DropCurrent, TypeOK
  <2> QED BY <2>1, OtherStepsKeepQuota
<1> QED BY <1>2, <1>3

LEMMA WorkKeepsQuota ==
  ASSUME TypeOK, NEW r \in Runners, QuotaIsSound(r), Start(r) \/ Work(r) \/ Mishap(r)
  PROVE  QuotaIsSound(r)'
<1>1. run \in [Runners -> RunRecords(Ids)] /\ run[r] \in RunRecords(Ids)
  BY DEF TypeOK
<1>2. CASE run' = [run EXCEPT ![r] = NoRun]
  <2>1. run'[r] = NoRun
    BY <1>1, <1>2
  <2> QED BY <2>1 DEF NoRun, QuotaIsSound
<1>3. CASE Start(r)
  <2>1. PICK quota \in Quotas, dry \in DryRuns : StartRunner(r, quota, dry)
    BY <1>3 DEF Start
  <2>2. run'[r] = [pc |-> "checking", quota |-> quota, dry |-> dry, batch |-> {}]
    BY <1>1, <2>1 DEF StartRunner
  <2> QED BY <2>2, NumbersAreNatural DEF QuotaIsSound
<1>4. CASE CheckQueue(r)
  <2>1. (GoTo(r, "picking") /\ run[r].quota > 0) \/ run' = [run EXCEPT ![r] = NoRun]
    BY <1>4 DEF CheckQueue
  <2> QED BY <1>2, <2>1, MovingKeepsQuota
<1>5. CASE PickBatch(r)
  BY <1>5, PickingKeepsQuota
<1>6. ASSUME NEW pc \in {"discarding", "starting", "working", "running", "checking", "removing"},
             GoTo(r, pc) \/ DropCurrent(r, pc)
      PROVE  QuotaIsSound(r)'
  BY <1>6, MovingKeepsQuota
<1>7. CASE DiscardJob(r) \/ Reserve(r) \/ StartBatch(r) \/ BeginJob(r) \/ RemoveFinished(r) \/ EndBatch(r)
  <2>1. \E pc \in {"discarding", "starting", "working", "running", "checking"} :
           GoTo(r, pc) \/ DropCurrent(r, pc)
    BY <1>7 DEF DiscardJob, Reserve, StartBatch, BeginJob, RemoveFinished, EndBatch
  <2> QED BY <1>6, <2>1
<1>8. CASE FinishJob(r)
  BY <1>6, <1>8 DEF FinishJob
<1>9. CASE SplitBatch(r)
  <2>1. PICK kept : run'[r] = [run[r] EXCEPT !.batch = kept]
    BY <1>1, <1>9 DEF SplitBatch
  <2> QED BY <1>1, <2>1 DEF QuotaIsSound, RunRecords
<1>10. ASSUME NEW minimum \in ErrorDelays, NEW priority \in ErrorPriorities,
              FailSingle(r, minimum, priority) \/ FailJob(r, minimum, priority)
       PROVE  QuotaIsSound(r)'
  BY <1>6, <1>10 DEF FailSingle, FailJob
<1>11. CASE Crash(r)
  BY <1>2, <1>11 DEF Crash
<1> QED BY <1>3, <1>4, <1>5, <1>7, <1>8, <1>9, <1>10, <1>11 DEF Work, Mishap

\* The steps of the others leave its memory alone.
LEMMA OthersLeaveRun ==
  ASSUME TypeOK, NEW r \in Runners, Next, ~(Start(r) \/ Work(r) \/ Mishap(r))
  PROVE  run'[r] = run[r]
<1>1. run \in [Runners -> RunRecords(Ids)]
  BY DEF TypeOK
<1>2. CASE Tick \/ ClientStep
  BY <1>2 DEF Tick, ClientStep, InsertJob, RemoveJobs
<1>3. ASSUME NEW s \in Runners, Start(s) \/ Work(s) \/ Mishap(s)
      PROVE  run'[r] = run[r]
  <2>1. s # r
    BY <1>3
  <2>2. \E new : run' = [run EXCEPT ![s] = new]
    <3>1. CASE Start(s)
      BY <3>1 DEF Start, StartRunner
    <3>2. CASE Work(s)
      BY <3>2 DEF Work, CheckQueue, PickBatch, DiscardJob, Reserve, StartBatch, BeginJob, FinishJob,
                  RemoveFinished, EndBatch, GoTo, DropCurrent
    <3>3. CASE Mishap(s)
      BY <3>3 DEF Mishap, FailSingle, FailJob, SplitBatch, Crash, DropCurrent
    <3> QED BY <1>3, <3>1, <3>2, <3>3
  <2> QED BY <1>1, <2>1, <2>2
<1> QED BY <1>2, <1>3 DEF Next

\* A call of runJobs runs no more jobs than maxCount: Limit counts what it has read in all its batches.
THEOREM CallsStayWithinQuota == Spec => []QuotaIsKept
<1> DEFINE AllSound == \A r \in Runners : QuotaIsSound(r)
<1>1. Init => AllSound
  BY DEF Init, NoRun, QuotaIsSound
<1>2. TypeOK /\ AllSound /\ [Next]_vars => AllSound'
  <2> SUFFICES ASSUME TypeOK, AllSound, [Next]_vars, NEW r \in Runners
               PROVE  QuotaIsSound(r)'
    OBVIOUS
  <2>1. QuotaIsSound(r)
    OBVIOUS
  <2>2. CASE UNCHANGED vars
    BY <2>1, <2>2 DEF vars, QuotaIsSound
  <2>3. CASE Next
    <3>1. CASE Start(r) \/ Work(r) \/ Mishap(r)
      BY <2>1, <3>1, WorkKeepsQuota
    <3>2. CASE ~(Start(r) \/ Work(r) \/ Mishap(r))
      BY <2>1, <2>3, <3>2, OthersLeaveRun DEF QuotaIsSound
    <3> QED BY <3>1, <3>2
  <2> QED BY <2>2, <2>3
<1>3. AllSound => QuotaIsKept
  BY DEF QuotaIsSound, QuotaIsKept
<1> HIDE DEF AllSound
<1> QED BY <1>1, <1>2, <1>3, TypeCorrect, PTL DEF Spec

-----------------------------------------------------------------------------
(* One runner: no two batches in a row leave the oldest job out. *)

\* rescheduleBeforeTrying was called for the jobs of the batch.
HandedOver(r) == \/ run[r].pc \in {"starting", "working", "running"} /\ ~run[r].dry
                 \/ run[r].pc = "removing"
CopiesAreApart(batch) ==
  /\ IsFiniteSet(batch) /\ batch \subseteq CopyRecords(Ids)
  /\ \A x, y \in batch : x.place = y.place => x = y

\* Once the oldest job was left out the flag is down, so that the next batch starts with that job.
FlagIsDown == missed \in {0, 1} /\ (missed = 1 => ~newestFirst)
OldestIsNear(r) ==
  /\ CopiesAreApart(run[r].batch)
  /\ run[r].pc = "reserving" => run[r].batch # {}
  /\ run[r].pc = "reserving" /\ missed = 1 => \E i \in IdsOf(run[r].batch) : IsFirst(jobs, i)
  /\ HandedOver(r) => IdsOf(run[r].batch) \cap Ready(jobs) = {}
OldestIsNext == FlagIsDown /\ \A r \in Runners : OldestIsNear(r)

LEMMA PartIsApart ==
  ASSUME NEW batch, CopiesAreApart(batch), NEW part, part \subseteq batch
  PROVE  CopiesAreApart(part)
BY FS_Subset DEF CopiesAreApart

\* The last copy of a batch.
LEMMA LastIsInBatch ==
  ASSUME TypeOK, NEW batch, CopiesAreApart(batch), batch # {}
  PROVE  LastOf(batch) \in batch /\ \A y \in batch : y.place <= LastOf(batch).place
<1> DEFINE Later(x) == {y \in batch : x.place < y.place}
           counts == {Cardinality(Later(x)) : x \in batch}
<1>1. \A x \in batch : x.place \in Nat
  BY DEF CopiesAreApart, CopyRecords
<1>2. \A x \in batch : IsFiniteSet(Later(x)) /\ Cardinality(Later(x)) \in Nat
  BY FS_Subset, FS_CardinalityType DEF CopiesAreApart
<1>3. counts \subseteq Nat /\ counts # {}
  BY <1>2
<1>4. PICK a \in counts : \A b \in counts : a <= b
  <2> HIDE DEF counts
  <2> QED BY <1>3, LeastNatural
<1>5. PICK x \in batch : \A y \in batch : Cardinality(Later(x)) <= Cardinality(Later(y))
  <2>1. PICK x \in batch : a = Cardinality(Later(x))
    OBVIOUS
  <2>2. \A y \in batch : Cardinality(Later(y)) \in counts
    OBVIOUS
  <2> HIDE DEF counts, Later
  <2> QED BY <1>4, <2>1, <2>2
<1>6. ASSUME NEW y \in batch  PROVE y.place <= x.place
  <2> SUFFICES ASSUME x.place < y.place  PROVE FALSE
    BY <1>1
  <2>1. Later(y) \subseteq Later(x) /\ y \in Later(x) /\ y \notin Later(y)
    BY <1>1
  <2> HIDE DEF Later
  <2>2. Cardinality(Later(y)) <= Cardinality(Later(x)) /\ Cardinality(Later(y)) # Cardinality(Later(x))
    BY <1>2, <2>1, FS_Subset
  <2> QED BY <1>2, <1>5, <2>2
<1> QED BY <1>6 DEF LastOf

\* rescheduleJobs leaves the other rows alone.
LEMMA RescheduledRows ==
  ASSUME NEW q, NEW R
  PROVE  /\ Ready(Rescheduled(q, R)) = Ready(q) \ {x.id : x \in R}
         /\ \A i \in DOMAIN q \ {x.id : x \in R} : Rescheduled(q, R)[i] = q[i]
<1> DEFINE new == Rescheduled(q, R)
<1>1. DOMAIN new = DOMAIN q
  BY DEF Rescheduled
<1>2. ASSUME NEW i \in DOMAIN q, \E x \in R : x.id = i  PROVE ~new[i].ready
  BY <1>2 DEF Rescheduled
<1>3. ASSUME NEW i \in DOMAIN q, ~\E x \in R : x.id = i  PROVE new[i] = q[i]
  BY <1>3 DEF Rescheduled
<1> HIDE DEF new
<1> QED BY <1>1, <1>2, <1>3 DEF Ready, new

\* The flag does not depend on a row that is not ready.
LEMMA QuietRescheduling ==
  ASSUME NEW R, NEW last, RescheduleJobs(R, last), last \notin Ready(jobs)
  PROVE  newestFirst' = newestFirst /\ Ready(jobs') \subseteq Ready(jobs)
<1>1. PICK q : q = Rescheduled(jobs, {x \in R : x.id # last})
  OBVIOUS
<1>2. Ready(q) \subseteq Ready(jobs) /\ Ready(jobs') \subseteq Ready(jobs)
  BY <1>1, RescheduledRows DEF RescheduleJobs
<1>3. newestFirst' = FlagAfter(q, newestFirst, last)
  BY <1>1 DEF RescheduleJobs
<1> QED BY <1>2, <1>3 DEF FlagAfter

\* What a step of a runner does to its memory.
LEMMA MovedRun ==
  ASSUME TypeOK, NEW r \in Runners, NEW pc, GoTo(r, pc) \/ DropCurrent(r, pc)
  PROVE  /\ run'[r].pc = pc /\ run'[r].dry = run[r].dry
         /\ run'[r].batch \subseteq run[r].batch
         /\ GoTo(r, pc) => run'[r].batch = run[r].batch
<1>1. run[r] \in RunRecords(Ids) /\ run \in [Runners -> RunRecords(Ids)]
  BY DEF TypeOK
<1>2. PICK rest : rest = run[r].batch \ {Current(r)}
  OBVIOUS
<1>3. CASE GoTo(r, pc)
  <2>1. run'[r] = [run[r] EXCEPT !.pc = pc]
    BY <1>1, <1>3 DEF GoTo
  <2> QED BY <1>1, <2>1 DEF RunRecords
<1>4. CASE DropCurrent(r, pc) /\ ~GoTo(r, pc)
  <2>1. run'[r] = [run[r] EXCEPT !.pc = pc, !.batch = rest]
    BY <1>1, <1>2, <1>4 DEF DropCurrent
  <2>2. run'[r].pc = pc /\ run'[r].dry = run[r].dry /\ run'[r].batch = rest
    BY <1>1, <2>1 DEF RunRecords
  <2> QED BY <1>2, <1>4, <2>2
<1> QED BY <1>3, <1>4

\* The steps that do not pick a batch.
LEMMA StaysNext ==
  ASSUME OneRunner, OldestIsNext, NEW r \in Runners, Ids' = Ids,
         run'[r].batch \subseteq run[r].batch, run'[r].pc # "reserving", FlagIsDown',
         HandedOver(r)' => IdsOf(run[r].batch) \cap Ready(jobs') = {}
  PROVE  OldestIsNext'
<1>1. CopiesAreApart(run[r].batch)'
  <2>1. CopiesAreApart(run[r].batch)
    BY DEF OldestIsNext, OldestIsNear
  <2>2. PICK part : part = run'[r].batch /\ CopiesAreApart(part)
    BY <2>1, PartIsApart
  <2> QED BY <2>2 DEF CopiesAreApart, CopyRecords
<1>2. IdsOf(run'[r].batch) \subseteq IdsOf(run[r].batch)
  BY DEF IdsOf
<1>3. HandedOver(r)' => IdsOf(run'[r].batch) \cap Ready(jobs') = {}
  BY <1>2
<1>4. OldestIsNear(r)'
  BY <1>1, <1>3 DEF OldestIsNear, IdsOf, Ready
<1> QED BY <1>4 DEF OneRunner, OldestIsNext

\* The steps that leave the table, or take nothing ready from it but what the batch holds no more.
LEMMA QuietSteps ==
  ASSUME OneRunner, OldestIsNext, NEW r \in Runners, UNCHANGED <<newestFirst, missed, inserted>>,
         Ready(jobs') \subseteq Ready(jobs), run'[r].batch \subseteq run[r].batch,
         run'[r].pc # "reserving", HandedOver(r)' => HandedOver(r)
  PROVE  OldestIsNext'
<1>1. FlagIsDown'
  BY DEF OldestIsNext, FlagIsDown
<1>2. HandedOver(r)' => IdsOf(run[r].batch) \cap Ready(jobs') = {}
  BY DEF OldestIsNext, OldestIsNear
<1> QED BY <1>1, <1>2, StaysNext DEF Ids

\* rescheduleBeforeTrying: a batch without the oldest job ends with the flag down.
LEMMA ReserveLowersFlag ==
  ASSUME Inductive, OneRunner, OldestIsNext, NEW r \in Runners, Reserve(r)
  PROVE  OldestIsNext'
<1> DEFINE batch == run[r].batch
           ids == IdsOf(batch)
           last == LastOf(batch).id
<1>0. TypeOK /\ OldestIsNear(r) /\ FlagIsDown
  BY DEF Inductive, OldestIsNext
<1>1. /\ run[r].pc = "reserving" /\ GoTo(r, "starting") /\ UNCHANGED inserted
      /\ missed' = IF \E i \in ids : IsFirst(jobs, i) THEN 0
                   ELSE IF Ready(jobs) = {} \/ last \notin Ready(jobs) THEN missed
                   ELSE missed + 1
  BY DEF Reserve
<1>2. /\ batch # {} /\ CopiesAreApart(batch)
      /\ missed = 1 => \E i \in ids : IsFirst(jobs, i)
  BY <1>0, <1>1 DEF OldestIsNear
<1>3. last \in ids
  BY <1>0, <1>2, LastIsInBatch DEF IdsOf
<1>4. \E R : {x.id : x \in R} = ids /\ RescheduleJobs(R, last)
  <2>1. PICK delay : RescheduleJobs(
                {[id |-> x.id, priority |-> SamePriority, runAfter |-> clock + delay[x],
                  tries |-> [x.tries EXCEPT !.unfinished = delay[x]]] : x \in batch}, last)
    BY DEF Reserve
  <2> DEFINE R == {[id |-> x.id, priority |-> SamePriority, runAfter |-> clock + delay[x],
                    tries |-> [x.tries EXCEPT !.unfinished = delay[x]]] : x \in batch}
  <2>a. \A y \in R : \E x \in batch : y.id = x.id
    OBVIOUS
  <2>b. ASSUME NEW x \in batch  PROVE \E y \in R : y.id = x.id
    <3>1. PICK y : y = [id |-> x.id, priority |-> SamePriority, runAfter |-> clock + delay[x],
                        tries |-> [x.tries EXCEPT !.unfinished = delay[x]]]
      OBVIOUS
    <3>2. y \in R /\ y.id = x.id
      BY <3>1
    <3> QED BY <3>2
  <2> HIDE DEF R, batch
  <2>2. {y.id : y \in R} = ids
    BY <2>a, <2>b DEF IdsOf
  <2> HIDE DEF ids
  <2>3. RescheduleJobs(R, last)
    BY <2>1 DEF R
  <2> QED BY <2>2, <2>3
<1> HIDE DEF batch, ids, last
<1>5. PICK R : {x.id : x \in R} = ids /\ RescheduleJobs(R, last)
  BY <1>4
<1>6. Ready(jobs') = Ready(jobs) \ ids
  BY <1>5, RescheduledRows DEF RescheduleJobs
<1>7. FlagIsDown'
  <2>1. CASE missed' = 0
    BY <2>1 DEF FlagIsDown
  <2>2. CASE missed' # 0
    <3>1. missed = 0 /\ missed' = 1 /\ last \in Ready(jobs) /\ ~\E i \in ids : IsFirst(jobs, i)
      BY <1>0, <1>1, <1>2, <2>2 DEF FlagIsDown
    <3>2. Table(jobs) /\ Ready(jobs) \subseteq DOMAIN jobs
      <4>1. RowsAreATable(jobs)
        BY <1>0 DEF TypeOK, RowsAreATable
      <4> QED BY <1>0, <4>1, RowsMakeATable DEF Ready
    <3>3. PICK f \in Ready(jobs) : \A k \in Ready(jobs) \ {f} : Before(jobs, f, k)
      BY <3>1, <3>2, OldestAndNewest
    <3>4. f \notin ids /\ f # last
      BY <1>3, <3>1, <3>3 DEF IsFirst
    <3>5. PICK others : others = {x \in R : x.id # last}
      OBVIOUS
    <3>6. PICK q : q = Rescheduled(jobs, others)
      OBVIOUS
    <3>7. f \notin {x.id : x \in others} /\ last \notin {x.id : x \in others}
      BY <1>5, <3>4, <3>5
    <3>8. f \in Ready(q) /\ last \in Ready(q) /\ q[f] = jobs[f] /\ q[last] = jobs[last]
      BY <3>1, <3>2, <3>6, <3>7, RescheduledRows
    <3>9. Before(jobs, f, last) /\ ~Before(jobs, last, f)
      BY <3>1, <3>2, <3>3, <3>4, BeforeIsTotal
    <3>10. ~Before(q, last, f)
      BY <3>8, <3>9 DEF Before
    <3>11. ~IsFirst(q, last)
      BY <3>4, <3>8, <3>10 DEF IsFirst
    <3>12. newestFirst' = FlagAfter(q, newestFirst, last)
      BY <1>5, <3>5, <3>6 DEF RescheduleJobs
    <3>13. newestFirst' = FALSE
      BY <3>8, <3>11, <3>12 DEF FlagAfter
    <3> QED BY <3>1, <3>13 DEF FlagIsDown
  <2> QED BY <2>1, <2>2
<1>8. run'[r].pc = "starting" /\ run'[r].batch \subseteq run[r].batch
  BY <1>0, <1>1, MovedRun
<1>9. IdsOf(run[r].batch) \cap Ready(jobs') = {}
  BY <1>6 DEF ids, batch
<1> QED BY <1>1, <1>7, <1>8, <1>9, StaysNext DEF Ids

\* runOneBatchOfJobs starts with the oldest job when the flag is down.
LEMMA PickingTakesOldest ==
  ASSUME TypeOK, OneRunner, OldestIsNext, NEW r \in Runners, PickBatch(r)
  PROVE  OldestIsNext'
<1> DEFINE q == WithDueJobs(jobs)
           picked == IF Ready(q) = {} THEN {} ELSE Picked(r, q)
           copies == {[id |-> i, place |-> Place(q, newestFirst, i), tries |-> q[i].tries] : i \in picked}
           pc == IF picked = {} THEN "checking" ELSE NextStep(r, picked)
<1>1. RowsAreATable(q)
  BY DueJobs DEF RowsAreATable
<1>2. Table(q) /\ DOMAIN q = DOMAIN jobs /\ Ready(q) \subseteq DOMAIN q
  BY <1>1, RowsMakeATable DEF Ready
<1>3. picked \subseteq Ready(q) /\ picked \subseteq Ids /\ IsFiniteSet(picked)
  <2>1. picked \subseteq Ready(q)
    BY PickedJobs
  <2> HIDE DEF picked, q
  <2> QED BY <1>2, <2>1, FS_Subset DEF TypeOK, Table
<1>4. \A i, k \in picked : q[i].priority = q[k].priority
  <2>1. CASE Ready(q) = {}
    BY <2>1
  <2>2. CASE Ready(q) # {}
    <3>1. PICK first : picked \subseteq SameLevel(q, first)
      BY <2>2 DEF Picked
    <3> QED BY <3>1 DEF SameLevel
  <2> QED BY <2>1, <2>2
<1>5. newestFirst \in BOOLEAN
  BY DEF TypeOK
<1>6. Ready(q) # {} => \E i \in picked : Place(q, newestFirst, i) = 1
  <2> SUFFICES ASSUME Ready(q) # {}  PROVE \E i \in Picked(r, q) : Place(q, newestFirst, i) = 1
    OBVIOUS
  <2>1. \E i \in Ready(q) : Place(q, newestFirst, i) = 1
    BY <1>2, <1>5, FirstPlace
  <2>2. PICK first : first = CHOOSE i \in Ready(q) : Place(q, newestFirst, i) = 1
    OBVIOUS
  <2>3. first \in Ready(q) /\ Place(q, newestFirst, first) = 1
    BY <2>1, <2>2
  <2>4. first \in Picked(r, q)
    <3>1. first \in SameLevel(q, first) /\ Place(q, newestFirst, first) = 1
      BY <2>3 DEF SameLevel
    <3> HIDE DEF q
    <3>2. \A k \in SameLevel(q, first) : Place(q, newestFirst, k) <= 1 => k = first
      <4> SUFFICES ASSUME NEW k \in SameLevel(q, first), Place(q, newestFirst, k) <= 1, k # first
                   PROVE  FALSE
        OBVIOUS
      <4>1. Place(q, newestFirst, k) \in Nat \ {0}
        BY <1>2, PlaceIsPositive DEF Table
      <4>2. Place(q, newestFirst, first) # Place(q, newestFirst, k)
        BY <1>2, <1>5, <2>3, PlacesDiffer
      <4> QED BY <2>3, <4>1, <4>2
    <3> QED BY <2>2, <2>3, <3>1, <3>2 DEF Picked
  <2> QED BY <2>3, <2>4
<1>7. CopiesAreApart(copies)
  <2> HIDE DEF q, picked
  <2>1. IsFiniteSet(copies)
    <3>1. PICK copy : copy = [i \in picked |->
                         [id |-> i, place |-> Place(q, newestFirst, i), tries |-> q[i].tries]]
      OBVIOUS
    <3>2. {copy[i] : i \in picked} = copies /\ copy \in [picked -> copies]
      BY <3>1
    <3>3. \A x \in copies : \E i \in picked : x = copy[i]
      BY <3>2
    <3>4. copy \in Surjection(picked, copies)
      BY <3>2, <3>3 DEF Surjection
    <3> QED BY <1>3, <3>4, FS_Surjection
  <2>2. ASSUME NEW i \in picked
        PROVE  [id |-> i, place |-> Place(q, newestFirst, i), tries |-> q[i].tries] \in CopyRecords(Ids)
    <3>1. Place(q, newestFirst, i) \in Nat \ {0}
      BY <1>2, PlaceIsPositive DEF Table
    <3>2. q[i].tries \in [unfinished : Nat, failed : Nat]
      BY <1>1, <1>2, <1>3 DEF RowsAreATable, RowRecords
    <3> QED BY <1>3, <3>1, <3>2 DEF CopyRecords
  <2>3. ASSUME NEW i \in picked, NEW k \in picked, Place(q, newestFirst, i) = Place(q, newestFirst, k)
        PROVE  i = k
    <3>1. i \in Ready(q) /\ k \in SameLevel(q, i)
      BY <1>3, <1>4 DEF SameLevel
    <3> QED BY <1>2, <1>5, <2>3, <3>1, PlacesDiffer
  <2>4. copies \subseteq CopyRecords(Ids)
    BY <2>2
  <2>5. \A x, y \in copies : x.place = y.place => x = y
    BY <2>3
  <2> QED BY <2>1, <2>4, <2>5 DEF CopiesAreApart
<1>8. IdsOf(copies) = picked
  <2> HIDE DEF q, picked
  <2>1. \A x \in copies : x.id \in picked
    OBVIOUS
  <2>2. ASSUME NEW i \in picked  PROVE \E x \in copies : x.id = i
    <3>1. PICK x : x = [id |-> i, place |-> Place(q, newestFirst, i), tries |-> q[i].tries]
      OBVIOUS
    <3>2. x \in copies /\ x.id = i
      BY <3>1
    <3> QED BY <3>2
  <2> HIDE DEF copies
  <2> QED BY <2>1, <2>2 DEF IdsOf
<1>9. jobs' = q /\ UNCHANGED <<newestFirst, missed, inserted>>
  BY DEF PickBatch, history
<1>10. run'[r].pc = pc /\ run'[r].batch = copies /\ run'[r].dry = run[r].dry
  <2>1. run' = [run EXCEPT ![r] = [run[r] EXCEPT !.pc = pc, !.quota = QuotaLeft(r, picked), !.batch = copies]]
    BY DEF PickBatch
  <2> HIDE DEF pc, copies, picked
  <2> QED BY <2>1 DEF TypeOK, RunRecords
<1>11. pc \in {"checking", "discarding", "reserving"} \/ (pc = "starting" /\ run[r].dry)
  BY DEF NextStep
<1>12. pc = "reserving" => picked # {}
  OBVIOUS
<1> HIDE DEF q, picked, copies, pc
<1>13. ~HandedOver(r)'
  BY <1>10, <1>11 DEF HandedOver
<1>14. pc = "reserving" /\ missed' = 1 => \E i \in picked : IsFirst(q, i)
  <2> SUFFICES ASSUME pc = "reserving", missed' = 1  PROVE \E i \in picked : IsFirst(q, i)
    OBVIOUS
  <2>1. newestFirst = FALSE
    BY <1>5, <1>9 DEF OldestIsNext, FlagIsDown
  <2>2. Ready(q) # {}
    BY <1>3, <1>12
  <2>3. PICK i \in picked : Place(q, FALSE, i) = 1
    BY <1>6, <2>1, <2>2
  <2> QED BY <1>2, <1>3, <2>3, FirstInOrder
<1>15. CopiesAreApart(run[r].batch)'
  <2>1. Ids' = Ids
    BY <1>9 DEF Ids
  <2> QED BY <1>7, <1>10, <2>1 DEF CopiesAreApart, CopyRecords
<1>16. run'[r].pc = "reserving" => run'[r].batch # {}
  BY <1>8, <1>10, <1>12 DEF IdsOf
<1>17. run'[r].pc = "reserving" /\ missed' = 1 => \E i \in IdsOf(run'[r].batch) : IsFirst(jobs', i)
  BY <1>8, <1>9, <1>10, <1>14
<1>18. OldestIsNear(r)'
  BY <1>13, <1>15, <1>16, <1>17 DEF OldestIsNear, IdsOf, IsFirst, Ready, Before
<1>19. FlagIsDown'
  BY <1>9 DEF OldestIsNext, FlagIsDown
<1> QED BY <1>18, <1>19 DEF OneRunner, OldestIsNext

\* A second half given back is not ready any more than the first.
LEMMA SplitIsQuiet ==
  ASSUME Inductive, OneRunner, OldestIsNext, NEW r \in Runners, SplitBatch(r)
  PROVE  OldestIsNext'
<1> DEFINE batch == run[r].batch
           kept == {x \in batch : Cardinality({y \in batch : y.place < x.place})
                                    < Cardinality(batch) \div 2}
           back == batch \ kept
<1>0. TypeOK /\ OldestIsNear(r) /\ run[r] \in RunRecords(Ids) /\ run \in [Runners -> RunRecords(Ids)]
  BY DEF Inductive, OldestIsNext, TypeOK
<1>1. /\ run[r].pc = "starting" /\ Cardinality(batch) > 1
      /\ run' = [run EXCEPT ![r].batch = kept]
      /\ UNCHANGED <<missed, inserted>>
  BY DEF SplitBatch
<1>2. run'[r].pc = "starting" /\ run'[r].dry = run[r].dry /\ run'[r].batch = kept /\ kept \subseteq batch
  <2>1. kept \subseteq batch
    OBVIOUS
  <2> HIDE DEF kept, batch
  <2> QED BY <1>0, <1>1, <2>1 DEF RunRecords
<1>3. CASE run[r].dry
  <2>1. UNCHANGED <<jobs, newestFirst>>
    BY <1>3 DEF SplitBatch, queueVars
  <2> QED BY <1>1, <1>2, <2>1, QuietSteps DEF HandedOver, Ready
<1>4. CASE ~run[r].dry
  <2>1. CopiesAreApart(batch) /\ IdsOf(batch) \cap Ready(jobs) = {}
    BY <1>0, <1>1, <1>4 DEF OldestIsNear, HandedOver
  <2>2. PICK n \in Nat : n = Cardinality(batch) /\ n > 1 /\ IsFiniteSet(batch) /\ batch # {}
    BY <1>1, <2>1, FS_CardinalityType, FS_EmptySet DEF CopiesAreApart
  <2>3. PICK x \in batch : \A y \in batch : y.place <= x.place
    BY <1>0, <2>1, <2>2, LastIsInBatch
  <2>4. {y \in batch : y.place < x.place} = batch \ {x}
    BY <2>1, <2>3 DEF CopiesAreApart, CopyRecords
  <2>5. Cardinality(batch \ {x}) = n - 1
    BY <2>2, <2>3, FS_RemoveElement
  <2>6. ~(n - 1 < n \div 2)
    BY <2>2
  <2>7. x \in back
    BY <2>2, <2>4, <2>5, <2>6
  <2>8. PICK last : last = LastOf(back).id
    OBVIOUS
  <2>9. last \in IdsOf(batch)
    <3>1. CopiesAreApart(back) /\ back # {} /\ back \subseteq batch
      BY <2>1, <2>7, PartIsApart
    <3> HIDE DEF back
    <3>2. LastOf(back) \in batch
      BY <1>0, <3>1, LastIsInBatch
    <3> QED BY <2>8, <3>2 DEF IdsOf
  <2>10. \E R : RescheduleJobs(R, last)
    BY <1>4, <2>8 DEF SplitBatch
  <2>11. newestFirst' = newestFirst /\ Ready(jobs') \subseteq Ready(jobs)
    BY <2>1, <2>9, <2>10, QuietRescheduling
  <2> QED BY <1>1, <1>2, <2>11, QuietSteps DEF HandedOver
<1> QED BY <1>3, <1>4

\* rescheduleAfterFailure: the job is not ready when it is run.
LEMMA FailureIsQuiet ==
  ASSUME Inductive, OneRunner, OldestIsNext, NEW r \in Runners, run[r].pc \in {"starting", "running"},
         run[r].batch # {}, NEW minimum, NEW priority, RescheduleFailed(r, Current(r), minimum, priority),
         NEW pc \in {"checking", "working"}, DropCurrent(r, pc), pc = "working" => run[r].pc = "running"
  PROVE  OldestIsNext'
<1>0. TypeOK /\ OldestIsNear(r)
  BY DEF Inductive, OldestIsNext
<1>1. UNCHANGED <<missed, inserted>>
  BY DEF RescheduleFailed
<1>2. run'[r].pc = pc /\ run'[r].dry = run[r].dry /\ run'[r].batch \subseteq run[r].batch
  BY <1>0, MovedRun
<1>3. HandedOver(r)' => HandedOver(r)
  BY <1>2 DEF HandedOver
<1>4. newestFirst' = newestFirst /\ Ready(jobs') \subseteq Ready(jobs)
  <2>1. CASE run[r].dry
    BY <2>1 DEF RescheduleFailed, queueVars, Ready
  <2>2. CASE ~run[r].dry
    <3>1. Current(r).id \in IdsOf(run[r].batch)
      BY <1>0, CurrentIsInBatch DEF OldestIsNear, CopiesAreApart, IdsOf
    <3>2. Current(r).id \notin Ready(jobs)
      BY <1>0, <2>2, <3>1 DEF OldestIsNear, HandedOver
    <3>3. PICK x : x = Current(r)
      OBVIOUS
    <3>4. RescheduleFailed(r, x, minimum, priority)
      BY <3>3
    <3>5. \E R : RescheduleJobs(R, x.id)
      BY <2>2, <3>4 DEF RescheduleFailed
    <3> QED BY <3>2, <3>3, <3>5, QuietRescheduling
  <2> QED BY <2>1, <2>2
<1> QED BY <1>1, <1>2, <1>3, <1>4, QuietSteps

\* The jobs a client takes out or replaces are not ready any more, and the count starts again.
LEMMA ClientsAreQuiet ==
  ASSUME Inductive, OldestIsNext, ClientStep
  PROVE  OldestIsNext'
<1>0. TypeOK /\ FlagIsDown /\ \A r \in Runners : OldestIsNear(r)
  BY DEF Inductive, OldestIsNext
<1>1. UNCHANGED run
  BY DEF ClientStep, InsertJob, RemoveJobs
<1>a. ASSUME Ids \subseteq Ids', Ready(jobs') \subseteq Ready(jobs), FlagIsDown',
             missed' = 1 => \A i \in Ready(jobs) : IsFirst(jobs, i) => IsFirst(jobs', i)
      PROVE  OldestIsNext'
  <2> SUFFICES ASSUME NEW r \in Runners  PROVE OldestIsNear(r)'
    BY <1>a DEF OldestIsNext
  <2>1. run'[r] = run[r] /\ OldestIsNear(r)
    BY <1>0, <1>1
  <2>2. CopiesAreApart(run[r].batch)'
    <3>1. PICK batch : batch = run[r].batch /\ batch = run'[r].batch
      BY <2>1
    <3>2. /\ IsFiniteSet(batch) /\ batch \subseteq CopyRecords(Ids)
          /\ \A x, y \in batch : x.place = y.place => x = y
      BY <2>1, <3>1 DEF OldestIsNear, CopiesAreApart
    <3>3. CopyRecords(Ids) \subseteq CopyRecords(Ids')
      BY <1>a DEF CopyRecords
    <3>4. batch \subseteq CopyRecords(Ids')
      BY <3>2, <3>3
    <3> QED BY <3>1, <3>2, <3>4 DEF CopiesAreApart
  <2>3. HandedOver(r)' => IdsOf(run'[r].batch) \cap Ready(jobs') = {}
    BY <1>a, <2>1 DEF OldestIsNear, HandedOver
  <2>4. run'[r].pc = "reserving" => run'[r].batch # {}
    BY <2>1 DEF OldestIsNear
  <2>5. ASSUME run'[r].pc = "reserving", missed' = 1
        PROVE  \E i \in IdsOf(run'[r].batch) : IsFirst(jobs', i)
    <3>1. missed = 1
      BY <1>0, <2>5 DEF FlagIsDown, ClientStep, InsertJob, RemoveJobs
    <3>2. PICK i \in IdsOf(run[r].batch) : IsFirst(jobs, i)
      BY <2>1, <2>5, <3>1 DEF OldestIsNear
    <3> QED BY <1>a, <2>1, <2>5, <3>2 DEF IsFirst
  <2> QED BY <2>2, <2>3, <2>4, <2>5 DEF OldestIsNear, IdsOf, IsFirst, Ready, Before
<1>2. ASSUME NEW request \in Requests, NEW mode \in Modes, InsertJob(request, mode)
      PROVE  OldestIsNext'
  <2> DEFINE new == Len(inserted) + 1
             replaced == IF mode = "OVERWRITE_IF_EXISTS" THEN Duplicates(request) ELSE {}
             row == [priority |-> request.priority,
                     runAfter |-> IF request.delay = 0 THEN NullDate ELSE clock + request.delay,
                     ready |-> FALSE, tries |-> NoTries]
             Entries == [handler : Handlers, key : STRING, mode : AllModes]
             entry == [handler |-> request.handler, key |-> request.key, mode |-> mode]
  <2>1. /\ jobs' = [i \in (DOMAIN jobs \ replaced) \cup {new} |-> IF i = new THEN row ELSE jobs[i]]
        /\ missed' = IF replaced = {} THEN missed ELSE 0
        /\ newestFirst' = newestFirst /\ inserted' = Append(inserted, entry)
    BY <1>2 DEF InsertJob
  <2>2. inserted \in Seq(Entries) /\ DOMAIN jobs \subseteq Ids
    BY <1>0 DEF TypeOK
  <2>3. Ids \subseteq Ids' /\ new \notin DOMAIN jobs
    <3> HIDE DEF entry, Entries
    <3> QED BY <2>1, <2>2 DEF Ids
  <2>4. Ready(jobs') = Ready(jobs) \ replaced /\ \A i \in Ready(jobs') : jobs'[i] = jobs[i]
    <3>1. row.ready = FALSE
      OBVIOUS
    <3> HIDE DEF new, replaced, row
    <3>2. DOMAIN jobs' = (DOMAIN jobs \ replaced) \cup {new}
          /\ \A i \in DOMAIN jobs' : jobs'[i] = IF i = new THEN row ELSE jobs[i]
      BY <2>1
    <3> QED BY <2>3, <3>1, <3>2 DEF Ready
  <2> HIDE DEF new, replaced, row
  <2>5. FlagIsDown'
    BY <1>0, <2>1 DEF FlagIsDown
  <2>6. missed' = 1 => \A i \in Ready(jobs) : IsFirst(jobs, i) => IsFirst(jobs', i)
    <3>a. missed' = 1 => replaced = {}
      BY <2>1
    <3> SUFFICES ASSUME replaced = {}, NEW i \in Ready(jobs), IsFirst(jobs, i)  PROVE IsFirst(jobs', i)
      BY <3>a
    <3>1. Ready(jobs') = Ready(jobs)
      BY <2>4
    <3>2. \A k \in Ready(jobs') \ {i} : Before(jobs', i, k)
      BY <2>4, <3>1 DEF IsFirst, Before
    <3> QED BY <3>1, <3>2 DEF IsFirst
  <2> QED BY <1>a, <2>3, <2>4, <2>5, <2>6
<1>3. ASSUME NEW ids, RemoveJobs(ids)
      PROVE  OldestIsNext'
  <2>1. missed' = 0 /\ jobs' = Without(jobs, ids) /\ inserted' = inserted
    BY <1>3 DEF RemoveJobs
  <2>2. Ready(jobs') \subseteq Ready(jobs)
    BY <2>1 DEF Without, Ready
  <2>3. FlagIsDown'
    BY <2>1 DEF FlagIsDown
  <2> QED BY <1>a, <2>1, <2>2, <2>3 DEF Ids
<1> QED BY <1>2, <1>3 DEF ClientStep

LEMMA RunnersAreQuiet ==
  ASSUME Inductive, OneRunner, OldestIsNext, NEW r \in Runners, Start(r) \/ Work(r) \/ Mishap(r)
  PROVE  OldestIsNext'
<1>0. /\ TypeOK /\ FlagIsDown /\ OldestIsNear(r) /\ BatchIsSound(r)
      /\ run \in [Runners -> RunRecords(Ids)] /\ run[r] \in RunRecords(Ids)
  BY DEF Inductive, OldestIsNext, TypeOK
<1>a. ASSUME run' = [run EXCEPT ![r] = NoRun], UNCHANGED <<jobs, newestFirst, missed, inserted>>
      PROVE  OldestIsNext'
  <2>1. run'[r] = NoRun
    BY <1>0, <1>a
  <2>2. run'[r].batch = {} /\ run'[r].pc = "idle"
    BY <2>1 DEF NoRun
  <2> QED BY <1>a, <2>2, QuietSteps DEF HandedOver, Ready
<1>b. ASSUME UNCHANGED <<newestFirst, missed, inserted>>, Ready(jobs') \subseteq Ready(jobs), NEW pc, pc # "reserving",
             GoTo(r, pc) \/ DropCurrent(r, pc),
             (pc \in {"starting", "working", "running"} /\ ~run[r].dry) \/ pc = "removing" => HandedOver(r)
      PROVE  OldestIsNext'
  <2>1. run'[r].pc = pc /\ run'[r].dry = run[r].dry /\ run'[r].batch \subseteq run[r].batch
    BY <1>0, <1>b, MovedRun
  <2>2. HandedOver(r)' => HandedOver(r)
    BY <1>b, <2>1 DEF HandedOver
  <2> QED BY <1>b, <2>1, <2>2, QuietSteps
<1>1. CASE Start(r)
  <2>1. PICK quota \in Quotas, dry \in DryRuns : StartRunner(r, quota, dry)
    BY <1>1 DEF Start
  <2>2. run'[r] = [pc |-> "checking", quota |-> quota, dry |-> dry, batch |-> {}]
    BY <1>0, <2>1 DEF StartRunner
  <2>3. run'[r].pc = "checking" /\ run'[r].batch = {} /\ ~HandedOver(r)'
    BY <2>2 DEF HandedOver
  <2>4. UNCHANGED <<jobs, newestFirst, missed, inserted>>
    BY <2>1 DEF StartRunner, queueVars, history
  <2> QED BY <2>3, <2>4, QuietSteps DEF Ready
<1>2. CASE CheckQueue(r)
  <2>1. UNCHANGED <<jobs, newestFirst, missed, inserted>>
    BY <1>2 DEF CheckQueue, queueVars, history
  <2>2. GoTo(r, "picking") \/ run' = [run EXCEPT ![r] = NoRun]
    BY <1>2 DEF CheckQueue
  <2> QED BY <1>a, <1>b, <2>1, <2>2 DEF Ready
<1>3. CASE PickBatch(r)
  BY <1>0, <1>3, PickingTakesOldest
<1>4. CASE DiscardJob(r)
  <2>1. DropCurrent(r, "discarding") /\ UNCHANGED inserted
    BY <1>4 DEF DiscardJob
  <2>2. CASE run[r].dry
    <3>1. UNCHANGED <<jobs, newestFirst, missed, inserted>>
      BY <1>4, <2>2 DEF DiscardJob, queueVars
    <3> QED BY <1>b, <2>1, <3>1 DEF Ready
  <2>3. CASE ~run[r].dry
    <3>1. PICK i : /\ newestFirst' = FlagAfter(jobs, newestFirst, i)
                   /\ missed' = IF IsFirst(jobs, i) THEN 0 ELSE missed
      BY <1>4, <2>3 DEF DiscardJob
    <3>2. FlagIsDown'
      BY <1>0, <3>1 DEF FlagIsDown, FlagAfter
    <3>3. run'[r].pc = "discarding" /\ run'[r].batch \subseteq run[r].batch
      BY <1>0, <2>1, MovedRun
    <3>4. ~HandedOver(r)'
      BY <3>3 DEF HandedOver
    <3> QED BY <2>1, <3>2, <3>3, <3>4, StaysNext DEF Ids
  <2> QED BY <2>2, <2>3
<1>5. CASE Reserve(r)
  BY <1>5, ReserveLowersFlag
<1>6. CASE StartBatch(r) \/ BeginJob(r) \/ EndBatch(r)
  <2>1. UNCHANGED <<jobs, newestFirst, missed, inserted>>
    BY <1>6 DEF StartBatch, BeginJob, EndBatch, queueVars, history
  <2>2. \/ run[r].pc = "starting" /\ GoTo(r, "working")
        \/ run[r].pc = "working" /\ GoTo(r, "running")
        \/ GoTo(r, "checking")
    BY <1>6 DEF StartBatch, BeginJob, EndBatch
  <2> QED BY <1>b, <2>1, <2>2 DEF HandedOver, Ready
<1>7. CASE FinishJob(r)
  <2>1. UNCHANGED <<jobs, newestFirst, missed, inserted>>
    BY <1>7 DEF FinishJob, queueVars
  <2>2. \/ run[r].dry /\ DropCurrent(r, "working")
        \/ ~run[r].dry /\ run[r].pc = "running" /\ GoTo(r, "removing")
    BY <1>7 DEF FinishJob
  <2> QED BY <1>b, <2>1, <2>2 DEF HandedOver, Ready
<1>8. CASE RemoveFinished(r)
  <2>1. PICK i : /\ i = Current(r).id /\ jobs' = Without(jobs, {i})
                 /\ newestFirst' = FlagAfter(jobs, newestFirst, i)
    BY <1>8 DEF RemoveFinished
  <2>2. run[r].pc = "removing" /\ DropCurrent(r, "working") /\ UNCHANGED <<missed, inserted>>
    BY <1>8 DEF RemoveFinished, history
  <2>3. i \notin Ready(jobs)
    <3>1. i \in IdsOf(run[r].batch)
      BY <1>0, <2>1, <2>2, CurrentIsInBatch DEF OldestIsNear, CopiesAreApart, BatchIsSound, IdsOf
    <3> QED BY <1>0, <2>2, <3>1 DEF OldestIsNear, HandedOver
  <2>4. newestFirst' = newestFirst /\ Ready(jobs') \subseteq Ready(jobs)
    BY <2>1, <2>3 DEF FlagAfter, Without, Ready
  <2> QED BY <1>b, <2>2, <2>4 DEF HandedOver
<1>9. ASSUME NEW minimum \in ErrorDelays, NEW priority \in ErrorPriorities, FailSingle(r, minimum, priority)
      PROVE  OldestIsNext'
  <2>1. run[r].batch # {}
    BY <1>9, FS_EmptySet DEF FailSingle
  <2> QED BY <1>9, <2>1, FailureIsQuiet DEF FailSingle
<1>10. ASSUME NEW minimum \in ErrorDelays, NEW priority \in ErrorPriorities, FailJob(r, minimum, priority)
       PROVE  OldestIsNext'
  <2>1. run[r].batch # {}
    BY <1>0, <1>10 DEF FailJob, BatchIsSound
  <2> QED BY <1>10, <2>1, FailureIsQuiet DEF FailJob
<1>11. CASE SplitBatch(r)
  BY <1>11, SplitIsQuiet
<1>12. CASE Crash(r)
  BY <1>a, <1>12 DEF Crash, queueVars
<1> QED BY <1>1, <1>2, <1>3, <1>4, <1>5, <1>6, <1>7, <1>8, <1>9, <1>10, <1>11, <1>12 DEF Work, Mishap

\* A single runner never passes the oldest job over in two batches in a row, whatever the handlers,
\* priorities, batch sizes, failures, splits and crashes.
THEOREM OldestJobIsTakenInTurn ==
  ASSUME OneRunner
  PROVE  Spec => []OldestIsNotPassedOverTwice
<1>1. Init => OldestIsNext
  <2> SUFFICES ASSUME Init  PROVE OldestIsNext
    OBVIOUS
  <2>1. \A r \in Runners : run[r] = NoRun
    BY DEF Init
  <2>2. CopiesAreApart({})
    BY FS_EmptySet DEF CopiesAreApart
  <2>3. \A r \in Runners : OldestIsNear(r)
    BY <2>1, <2>2 DEF NoRun, OldestIsNear, HandedOver
  <2> QED BY <2>3 DEF Init, OldestIsNext, FlagIsDown
<1>2. Inductive /\ OldestIsNext /\ [Next]_vars => OldestIsNext'
  <2> SUFFICES ASSUME Inductive, OldestIsNext, [Next]_vars  PROVE OldestIsNext'
    OBVIOUS
  <2>1. CASE UNCHANGED vars \/ Tick
    BY <2>1 DEF vars, queueVars, history, Tick, OldestIsNext, FlagIsDown, OldestIsNear, CopiesAreApart,
                HandedOver, IdsOf, IsFirst, Ready, Before, Ids
  <2>2. CASE ClientStep
    BY <2>2, ClientsAreQuiet
  <2>3. ASSUME NEW r \in Runners, Start(r) \/ Work(r) \/ Mishap(r)
        PROVE  OldestIsNext'
    BY <2>3, OneRunner, RunnersAreQuiet
  <2> QED BY <2>1, <2>2, <2>3 DEF Next
<1>3. OldestIsNext => OldestIsNotPassedOverTwice
  BY DEF OldestIsNext, FlagIsDown, OldestIsNotPassedOverTwice
<1> QED BY <1>1, <1>2, <1>3, InvariantHolds, PTL DEF Spec

-----------------------------------------------------------------------------
(* One runner: a job that never ends is tried after longer and longer gaps. *)

\* A delay of `unfinished` remembered for job i, which may run from `date` on, respect its gap.
Owed(i, unfinished, date) == unfinished >= tried[i].gap /\ date >= tried[i].at + tried[i].gap

\* The row of a job and the copy that is about to be tried respect its gap; an id is not given twice.
RowsKeepGaps == \A i \in DOMAIN jobs : Owed(i, jobs[i].tries.unfinished, jobs[i].runAfter)
NewIdsAreNotTried == \A i \in 1..MaxJobs : i > Len(inserted) => tried[i] = NotTried
CopiesKeepGaps(r) ==
  run[r].pc = "reserving" => \A x \in run[r].batch : Owed(x.id, x.tries.unfinished, clock)
GapsAreKept == RowsKeepGaps /\ NewIdsAreNotTried /\ \A r \in Runners : CopiesKeepGaps(r)

LEMMA GapsAreTyped ==
  ASSUME TypeOK
  PROVE  /\ clock \in Nat /\ Len(inserted) \in Nat
         /\ \A i \in 1..MaxJobs : tried[i].at \in Nat /\ tried[i].gap \in Nat
         /\ \A i \in DOMAIN jobs : i \in 1..MaxJobs /\ i \in Ids /\ i \in Nat
                                   /\ jobs[i].runAfter \in Nat /\ jobs[i].tries.unfinished \in Nat
         /\ \A r \in Runners : \A x \in run[r].batch :
               x.id \in Ids /\ x.id \in 1..MaxJobs /\ x.tries.unfinished \in Nat
<1>1. clock \in Nat /\ Len(inserted) \in Nat
  BY NumbersAreNatural DEF TypeOK
<1>2. \A i \in 1..MaxJobs : tried[i].at \in Nat /\ tried[i].gap \in Nat
  <2>1. tried \in [1..MaxJobs -> [at : 0..MaxClock, gap : Nat]]
    BY DEF TypeOK
  <2>2. \A i \in 1..MaxJobs : tried[i] \in [at : 0..MaxClock, gap : Nat]
    BY <2>1
  <2>3. 0..MaxClock \subseteq Nat
    BY NumbersAreNatural
  <2> QED BY <2>2, <2>3
<1>3. Ids \subseteq 1..MaxJobs /\ Ids \subseteq Nat /\ DOMAIN jobs \subseteq Ids
  BY JobsAreFinite DEF TypeOK
<1>4. \A i \in DOMAIN jobs : jobs[i].runAfter \in Nat /\ jobs[i].tries.unfinished \in Nat
  BY DEF TypeOK, RowRecords
<1>5. ASSUME NEW r \in Runners, NEW x \in run[r].batch
      PROVE  x.id \in Ids /\ x.tries.unfinished \in Nat
  BY DEF TypeOK, RunRecords, CopyRecords
<1> QED BY <1>1, <1>2, <1>3, <1>4, <1>5

\* The steps that leave rows and tries alone, except for some jobs whose tries are forgotten.
LEMMA GapsStay ==
  ASSUME TypeOK, TypeOK', OneRunner, GapsAreKept, UNCHANGED inserted,
         NEW r \in Runners, run'[r].pc # "reserving", NEW forgotten,
         \A i \in 1..MaxJobs : tried'[i] = IF i \in forgotten THEN NotTried ELSE tried[i],
         \A i \in DOMAIN jobs' :
            \/ i \in forgotten
            \/ i \in DOMAIN jobs /\ jobs'[i].tries = jobs[i].tries /\ jobs'[i].runAfter = jobs[i].runAfter
  PROVE  GapsAreKept'
<1>1. NewIdsAreNotTried'
  BY DEF GapsAreKept, NewIdsAreNotTried
<1>2. ASSUME NEW i \in DOMAIN jobs'  PROVE Owed(i, jobs[i].tries.unfinished, jobs[i].runAfter)'
  <2>1. i \in 1..MaxJobs /\ jobs'[i].runAfter \in Nat /\ jobs'[i].tries.unfinished \in Nat
    <3>1. DOMAIN jobs' \subseteq Ids' /\ Ids' = Ids /\ Ids \subseteq 1..MaxJobs
      BY JobsAreFinite DEF TypeOK, Ids
    <3>2. jobs'[i] \in RowRecords
      BY DEF TypeOK
    <3> QED BY <3>1, <3>2 DEF RowRecords
  <2>2. CASE i \in forgotten
    <3>1. tried'[i] = NotTried
      BY <2>1, <2>2
    <3> QED BY <2>1, <3>1 DEF Owed, NotTried
  <2>3. CASE i \notin forgotten
    <3>1. tried'[i] = tried[i] /\ i \in DOMAIN jobs
      BY <2>1, <2>3
    <3>2. Owed(i, jobs[i].tries.unfinished, jobs[i].runAfter)
      BY <3>1 DEF GapsAreKept, RowsKeepGaps
    <3> QED BY <2>3, <3>1, <3>2 DEF Owed
  <2> QED BY <2>2, <2>3
<1>3. \A s \in Runners : CopiesKeepGaps(s)'
  BY DEF OneRunner, CopiesKeepGaps
<1> QED BY <1>1, <1>2, <1>3 DEF GapsAreKept, RowsKeepGaps

\* The retry delay grows at least as much as the gap.
LEMMA DelaysCoverGaps ==
  ASSUME NEW old \in Nat, NEW gap \in Nat, old >= gap, NEW delay \in RetryDelays(0, old)
  PROVE  delay \in Nat /\ NextGap(gap) \in Nat /\ delay >= NextGap(gap)
<1> DEFINE least == Larger(Larger(0, MinRetryDelay), Smaller(2 * old, MaxRetryDelay))
<1>1. least \in Nat /\ NextGap(gap) \in Nat /\ least >= NextGap(gap)
  BY NumbersAreNatural DEF Larger, Smaller, NextGap
<1> HIDE DEF least
<1>2. RetryDelays(0, old) = least..(least + (least * BackoffRandomness) \div 100)
  BY DEF RetryDelays, least
<1>3. delay \in Nat
  BY RetryDelaysAreNatural
<1>4. PICK most : delay \in least..most
  BY <1>2
<1>5. least <= delay
  BY <1>4
<1> QED BY <1>1, <1>3, <1>5

\* rescheduleBeforeTrying: the new delay respects the doubled gap.
LEMMA ReserveKeepsGaps ==
  ASSUME Inductive, TypeOK', OneRunner, GapsAreKept, NEW r \in Runners, Reserve(r)
  PROVE  GapsAreKept'
<1> DEFINE batch == run[r].batch
<1>0. TypeOK
  BY DEF Inductive
<1>1. PICK delay :
        /\ \A x \in batch : delay[x] \in RetryDelays(0, x.tries.unfinished)
        /\ RescheduleJobs(
             {[id |-> x.id, priority |-> SamePriority, runAfter |-> clock + delay[x],
               tries |-> [x.tries EXCEPT !.unfinished = delay[x]]] : x \in batch},
             LastOf(batch).id)
  BY DEF Reserve
<1>2. /\ run[r].pc = "reserving" /\ GoTo(r, "starting") /\ UNCHANGED <<inserted, clock>>
      /\ tried' = [i \in DOMAIN tried |->
            IF i \in IdsOf(batch) THEN [at |-> clock, gap |-> NextGap(tried[i].gap)] ELSE tried[i]]
  BY DEF Reserve
<1>3. \A x \in batch : Owed(x.id, x.tries.unfinished, clock)
  BY <1>2 DEF GapsAreKept, CopiesKeepGaps
<1>4. DOMAIN tried = 1..MaxJobs
  BY <1>0 DEF TypeOK
<1> DEFINE R == {[id |-> x.id, priority |-> SamePriority, runAfter |-> clock + delay[x],
                  tries |-> [x.tries EXCEPT !.unfinished = delay[x]]] : x \in batch}
<1>5. jobs' = Rescheduled(jobs, R)
  BY <1>1 DEF RescheduleJobs
<1>6. \A y \in R : \E x \in batch : y.id = x.id /\ y.runAfter = clock + delay[x]
                                    /\ y.tries = [x.tries EXCEPT !.unfinished = delay[x]]
  <2> SUFFICES ASSUME NEW y \in R
               PROVE  \E x \in batch : /\ y.id = x.id /\ y.runAfter = clock + delay[x]
                                       /\ y.tries = [x.tries EXCEPT !.unfinished = delay[x]]
    OBVIOUS
  <2>1. PICK x \in batch : y = [id |-> x.id, priority |-> SamePriority, runAfter |-> clock + delay[x],
                                tries |-> [x.tries EXCEPT !.unfinished = delay[x]]]
    OBVIOUS
  <2> HIDE DEF R, batch
  <2>2. y.id = x.id /\ y.runAfter = clock + delay[x]
    BY <2>1
  <2>3. y.tries = [x.tries EXCEPT !.unfinished = delay[x]]
    BY <2>1
  <2> QED BY <2>2, <2>3
<1>7. \A x \in batch : \E y \in R : y.id = x.id
  <2> SUFFICES ASSUME NEW x \in batch  PROVE \E y \in R : y.id = x.id
    OBVIOUS
  <2>1. PICK y : y = [id |-> x.id, priority |-> SamePriority, runAfter |-> clock + delay[x],
                      tries |-> [x.tries EXCEPT !.unfinished = delay[x]]]
    OBVIOUS
  <2>2. y \in R /\ y.id = x.id
    BY <2>1
  <2> QED BY <2>2
<1> HIDE DEF R
<1>8. DOMAIN jobs' = DOMAIN jobs
  BY <1>5 DEF Rescheduled
<1>9. ASSUME NEW i \in DOMAIN jobs'  PROVE Owed(i, jobs[i].tries.unfinished, jobs[i].runAfter)'
  <2>1. i \in DOMAIN jobs /\ i \in DOMAIN tried
    BY <1>0, <1>4, <1>8, GapsAreTyped
  <2>2. CASE i \in IdsOf(batch)
    <3> DEFINE y == CHOOSE z \in R : z.id = i
    <3>1. \E z \in R : z.id = i
      BY <1>7, <2>2 DEF IdsOf
    <3>2. y \in R /\ y.id = i
      BY <3>1
    <3>3. jobs'[i].runAfter = y.runAfter /\ jobs'[i].tries = y.tries
      BY <1>5, <2>1, <3>1 DEF Rescheduled
    <3> HIDE DEF y
    <3>4. PICK x \in batch : /\ x.id = i /\ y.runAfter = clock + delay[x]
                             /\ y.tries = [x.tries EXCEPT !.unfinished = delay[x]]
      BY <1>6, <3>2
    <3>5. /\ x.tries.unfinished \in Nat /\ tried[i].gap \in Nat /\ clock \in Nat
          /\ x.tries.unfinished >= tried[i].gap
      BY <1>0, <1>3, <1>4, <2>1, <3>4, GapsAreTyped DEF Owed
    <3>6. PICK d : d = delay[x] /\ d \in RetryDelays(0, x.tries.unfinished)
      BY <1>1
    <3>7. d \in Nat /\ NextGap(tried[i].gap) \in Nat /\ d >= NextGap(tried[i].gap)
      BY <3>5, <3>6, DelaysCoverGaps
    <3>8. tried'[i] = [at |-> clock, gap |-> NextGap(tried[i].gap)]
      BY <1>2, <2>1, <2>2
    <3>9. x.tries \in [unfinished : Nat, failed : Nat]
      BY <1>0 DEF TypeOK, RunRecords, CopyRecords
    <3>10. jobs'[i].runAfter = clock + d /\ jobs'[i].tries.unfinished = d
      BY <3>3, <3>4, <3>6, <3>9
    <3> QED BY <3>5, <3>7, <3>8, <3>10 DEF Owed
  <2>3. CASE i \notin IdsOf(batch)
    <3>1. i \notin {y.id : y \in R}
      BY <1>6, <2>3 DEF IdsOf
    <3>2. jobs'[i] = jobs[i] /\ tried'[i] = tried[i]
      BY <1>2, <1>5, <2>1, <2>3, <3>1, RescheduledRows
    <3> QED BY <2>1, <3>2 DEF GapsAreKept, RowsKeepGaps, Owed
  <2> QED BY <2>2, <2>3
<1>10. NewIdsAreNotTried'
  <2> SUFFICES ASSUME NEW i \in 1..MaxJobs, i > Len(inserted)  PROVE tried'[i] = NotTried
    BY <1>2 DEF NewIdsAreNotTried
  <2>1. i \notin IdsOf(batch)
    BY <1>0, GapsAreTyped DEF IdsOf, Ids
  <2> QED BY <1>2, <1>4, <2>1 DEF GapsAreKept, NewIdsAreNotTried
<1>11. run'[r].pc = "starting"
  BY <1>0, <1>2, MovedRun
<1>12. \A s \in Runners : CopiesKeepGaps(s)'
  BY <1>11 DEF OneRunner, CopiesKeepGaps
<1> QED BY <1>9, <1>10, <1>12 DEF GapsAreKept, RowsKeepGaps

\* runOneBatchOfJobs takes jobs that are due, with what their rows remember.
LEMMA PickingKeepsGaps ==
  ASSUME Inductive, OneRunner, GapsAreKept, NEW r \in Runners, PickBatch(r)
  PROVE  GapsAreKept'
<1> DEFINE q == WithDueJobs(jobs)
           picked == IF Ready(q) = {} THEN {} ELSE Picked(r, q)
           copies == {[id |-> i, place |-> Place(q, newestFirst, i), tries |-> q[i].tries] : i \in picked}
           pc == IF picked = {} THEN "checking" ELSE NextStep(r, picked)
<1>0. TypeOK /\ ReadyIsDue
  BY DEF Inductive
<1>1. jobs' = q /\ UNCHANGED <<clock, tried, inserted>>
  BY DEF PickBatch, history
<1>2. \A i \in DOMAIN jobs : q[i].tries = jobs[i].tries /\ q[i].runAfter = jobs[i].runAfter
  BY <1>0 DEF WithDueJobs, TypeOK, RowRecords
<1>3. DOMAIN q = DOMAIN jobs
  BY DEF WithDueJobs
<1>4. ASSUME NEW i \in picked
      PROVE  i \in DOMAIN jobs /\ jobs[i].runAfter <= clock
  <2>1. i \in Ready(q)
    BY <1>0, PickedJobs
  <2>2. i \in DOMAIN jobs /\ q[i].ready
    BY <1>3, <2>1 DEF Ready
  <2>3. jobs[i].ready \/ jobs[i].runAfter <= clock
    BY <1>0, <2>2, DueJobs
  <2> QED BY <1>0, <2>2, <2>3 DEF ReadyIsDue, Ready
<1>5. run'[r].batch = copies
  <2>1. run' = [run EXCEPT ![r] = [run[r] EXCEPT !.pc = pc, !.quota = QuotaLeft(r, picked), !.batch = copies]]
    BY DEF PickBatch
  <2> HIDE DEF pc, copies, picked
  <2> QED BY <1>0, <2>1 DEF TypeOK, RunRecords
<1>6. \A x \in copies : \E i \in picked : x.id = i /\ x.tries = q[i].tries
  <2> HIDE DEF picked, q
  <2> QED OBVIOUS
<1> HIDE DEF q, picked, copies
<1>7. RowsKeepGaps /\ NewIdsAreNotTried
  BY DEF GapsAreKept
<1>8. RowsKeepGaps'
  BY <1>1, <1>2, <1>3, <1>7 DEF RowsKeepGaps, Owed
<1>9. NewIdsAreNotTried'
  BY <1>1, <1>7 DEF NewIdsAreNotTried
<1>10. ASSUME NEW x \in run'[r].batch  PROVE Owed(x.id, x.tries.unfinished, clock)'
  <2>1. PICK i \in picked : x.id = i /\ x.tries = q[i].tries
    BY <1>5, <1>6
  <2>2. i \in DOMAIN jobs /\ jobs[i].runAfter <= clock /\ x.tries = jobs[i].tries
    BY <1>2, <1>4, <2>1
  <2>3. Owed(i, jobs[i].tries.unfinished, jobs[i].runAfter)
    BY <1>7, <2>2 DEF RowsKeepGaps
  <2>4. clock \in Nat /\ jobs[i].runAfter \in Nat /\ tried[i].at \in Nat /\ tried[i].gap \in Nat
    BY <1>0, <2>2, GapsAreTyped
  <2> QED BY <1>1, <2>1, <2>2, <2>3, <2>4 DEF Owed
<1> QED BY <1>8, <1>9, <1>10 DEF GapsAreKept, CopiesKeepGaps, OneRunner

\* Clients write new rows, whose ids were never tried, or remove rows.
LEMMA ClientsKeepGaps ==
  ASSUME Inductive, GapsAreKept, ClientStep
  PROVE  GapsAreKept'
<1>0. TypeOK /\ RowsKeepGaps /\ NewIdsAreNotTried
  BY DEF Inductive, GapsAreKept
<1>1. ASSUME NEW request \in Requests, NEW mode \in Modes, InsertJob(request, mode)
      PROVE  GapsAreKept'
  <2> DEFINE new == Len(inserted) + 1
             replaced == IF mode = "OVERWRITE_IF_EXISTS" THEN Duplicates(request) ELSE {}
             row == [priority |-> request.priority,
                     runAfter |-> IF request.delay = 0 THEN NullDate ELSE clock + request.delay,
                     ready |-> FALSE, tries |-> NoTries]
  <2>1. /\ new <= MaxJobs /\ UNCHANGED <<clock, run, tried>>
        /\ jobs' = [i \in (DOMAIN jobs \ replaced) \cup {new} |-> IF i = new THEN row ELSE jobs[i]]
    BY <1>1 DEF InsertJob
  <2>2. Len(inserted') = new /\ new \in 1..MaxJobs /\ new > Len(inserted)
    BY <1>0, <1>1, <2>1, NumbersAreNatural DEF InsertJob, TypeOK
  <2>3. row.runAfter \in Nat /\ row.tries.unfinished = 0
    <3>1. request.delay \in Nat /\ clock \in Nat
      BY <1>0, RequestsAreTyped, GapsAreTyped
    <3> QED BY <3>1 DEF NoTries, NullDate
  <2>4. tried[new] = NotTried
    BY <1>0, <2>2 DEF NewIdsAreNotTried
  <2> HIDE DEF new, row, replaced
  <2>5. ASSUME NEW i \in DOMAIN jobs'  PROVE Owed(i, jobs[i].tries.unfinished, jobs[i].runAfter)'
    <3>1. CASE i = new
      <4>1. jobs'[i] = row
        BY <2>1, <3>1
      <4> QED BY <2>1, <2>3, <2>4, <3>1, <4>1 DEF Owed, NotTried
    <3>2. CASE i # new
      <4>1. i \in DOMAIN jobs /\ jobs'[i] = jobs[i]
        BY <2>1, <3>2
      <4> QED BY <1>0, <2>1, <4>1 DEF RowsKeepGaps, Owed
    <3> QED BY <3>1, <3>2
  <2>6. NewIdsAreNotTried'
    <3>1. Len(inserted) \in Nat
      BY <1>0, GapsAreTyped
    <3> QED BY <1>0, <2>1, <2>2, <3>1 DEF NewIdsAreNotTried, new
  <2>7. \A r \in Runners : CopiesKeepGaps(r)'
    BY <2>1 DEF GapsAreKept, CopiesKeepGaps, Owed
  <2> QED BY <2>5, <2>6, <2>7 DEF GapsAreKept, RowsKeepGaps
<1>2. ASSUME NEW ids \in Cancellations, RemoveJobs(ids)
      PROVE  GapsAreKept'
  <2>1. UNCHANGED <<clock, run, tried, inserted>> /\ jobs' = Without(jobs, ids)
    BY <1>2 DEF RemoveJobs
  <2>2. RowsKeepGaps'
    BY <1>0, <2>1 DEF RowsKeepGaps, Owed, Without
  <2>3. NewIdsAreNotTried'
    BY <1>0, <2>1 DEF NewIdsAreNotTried
  <2>4. \A r \in Runners : CopiesKeepGaps(r)'
    BY <2>1 DEF GapsAreKept, CopiesKeepGaps, Owed
  <2> QED BY <2>2, <2>3, <2>4 DEF GapsAreKept
<1> QED BY <1>1, <1>2 DEF ClientStep

LEMMA RunnersKeepGaps ==
  ASSUME Inductive, TypeOK', OneRunner, GapsAreKept, NEW r \in Runners,
         Start(r) \/ Work(r) \/ Mishap(r)
  PROVE  GapsAreKept'
<1>0. TypeOK /\ run \in [Runners -> RunRecords(Ids)]
  BY DEF Inductive, TypeOK
<1>1. ASSUME run'[r].pc # "reserving", UNCHANGED <<inserted, tried>>,
             \/ UNCHANGED jobs
             \/ \E ids : jobs' = Without(jobs, ids)
      PROVE  GapsAreKept'
  <2>1. \A i \in DOMAIN jobs' : i \in DOMAIN jobs /\ jobs'[i] = jobs[i]
    BY <1>1 DEF Without
  <2>2. PICK none : none = {}
    OBVIOUS
  <2> QED BY <1>0, <1>1, <2>1, <2>2, GapsStay
<1>2. ASSUME NEW pc, pc # "reserving", GoTo(r, pc) \/ DropCurrent(r, pc)
      PROVE  run'[r].pc # "reserving"
  BY <1>0, <1>2, MovedRun
<1>3. CASE Start(r)
  <2>1. run'[r].pc = "checking" /\ UNCHANGED <<inserted, tried, jobs>>
    BY <1>0, <1>3 DEF Start, StartRunner, history, queueVars
  <2> QED BY <1>1, <2>1
<1>4. CASE CheckQueue(r)
  <2>1. GoTo(r, "picking") \/ run' = [run EXCEPT ![r] = NoRun]
    BY <1>4 DEF CheckQueue
  <2>2. run'[r].pc # "reserving"
    BY <1>0, <1>2, <2>1 DEF NoRun
  <2> QED BY <1>1, <1>4, <2>2 DEF CheckQueue, history, queueVars
<1>5. CASE DiscardJob(r)
  <2>1. run'[r].pc # "reserving"
    BY <1>2, <1>5 DEF DiscardJob
  <2> QED BY <1>1, <1>5, <2>1 DEF DiscardJob, queueVars
<1>6. CASE StartBatch(r) \/ BeginJob(r) \/ EndBatch(r) \/ RemoveFinished(r)
  <2>1. run'[r].pc # "reserving"
    BY <1>2, <1>6 DEF StartBatch, BeginJob, EndBatch, RemoveFinished
  <2> QED BY <1>1, <1>6, <2>1 DEF StartBatch, BeginJob, EndBatch, RemoveFinished, history, queueVars
<1>7. CASE FinishJob(r)
  <2>1. run'[r].pc # "reserving"
    BY <1>2, <1>7 DEF FinishJob
  <2> QED BY <1>1, <1>7, <2>1 DEF FinishJob, queueVars
<1>8. CASE Crash(r)
  <2>1. run'[r].pc # "reserving"
    BY <1>0, <1>8 DEF Crash, NoRun
  <2> QED BY <1>1, <1>8, <2>1 DEF Crash, queueVars
<1>9. ASSUME NEW R, NEW last, RescheduleJobs(R, last), NEW forgotten, {x.id : x \in R} = forgotten,
             run'[r].pc # "reserving", UNCHANGED inserted,
             \A i \in 1..MaxJobs : tried'[i] = IF i \in forgotten THEN NotTried ELSE tried[i]
      PROVE  GapsAreKept'
  <2>1. jobs' = Rescheduled(jobs, R) /\ DOMAIN jobs' = DOMAIN jobs
    BY <1>9 DEF RescheduleJobs, Rescheduled
  <2>2. \A i \in DOMAIN jobs' : i \in forgotten \/ (i \in DOMAIN jobs /\ jobs'[i] = jobs[i])
    BY <1>9, <2>1, RescheduledRows
  <2> QED BY <1>0, <1>9, <2>2, GapsStay
<1>10. ASSUME NEW minimum \in ErrorDelays, NEW priority \in ErrorPriorities,
              FailSingle(r, minimum, priority) \/ FailJob(r, minimum, priority)
       PROVE  GapsAreKept'
  <2>1. run'[r].pc # "reserving"
    BY <1>2, <1>10 DEF FailSingle, FailJob
  <2>2. RescheduleFailed(r, Current(r), minimum, priority) /\ UNCHANGED inserted
    BY <1>10 DEF FailSingle, FailJob, RescheduleFailed
  <2>3. CASE run[r].dry
    BY <1>1, <2>1, <2>2, <2>3 DEF RescheduleFailed, queueVars
  <2>4. CASE ~run[r].dry
    <3>1. PICK x : x = Current(r)
      OBVIOUS
    <3>2. PICK row : row.id = x.id /\ RescheduleJobs({row}, x.id)
      <4>1. PICK delay :
               RescheduleJobs(
                 {[id |-> x.id, priority |-> priority,
                   runAfter |-> IF delay = Forever THEN Never ELSE clock + delay,
                   tries |-> [unfinished |-> 0, failed |-> OldDelay(delay)]]},
                 x.id)
        BY <2>2, <2>4, <3>1 DEF RescheduleFailed
      <4>2. PICK row : row = [id |-> x.id, priority |-> priority,
                   runAfter |-> IF delay = Forever THEN Never ELSE clock + delay,
                   tries |-> [unfinished |-> 0, failed |-> OldDelay(delay)]]
        OBVIOUS
      <4>3. row.id = x.id
        BY <4>2
      <4> QED BY <4>1, <4>2, <4>3
    <3>3. tried' = [tried EXCEPT ![x.id] = NotTried] /\ DOMAIN tried = 1..MaxJobs
      BY <1>0, <2>2, <2>4, <3>1 DEF RescheduleFailed, TypeOK
    <3>4. PICK forgotten : forgotten = {x.id}
      OBVIOUS
    <3>5. {y.id : y \in {row}} = forgotten
      BY <3>2, <3>4
    <3>6. \A i \in 1..MaxJobs : tried'[i] = IF i \in forgotten THEN NotTried ELSE tried[i]
      BY <3>3, <3>4
    <3> QED BY <1>9, <2>1, <2>2, <3>2, <3>5, <3>6
  <2> QED BY <2>3, <2>4
<1>11. CASE SplitBatch(r)
  <2>1. run'[r].pc # "reserving"
    <3>1. PICK kept : run' = [run EXCEPT ![r].batch = kept] /\ run[r].pc = "starting"
      BY <1>11 DEF SplitBatch
    <3> QED BY <1>0, <3>1 DEF RunRecords
  <2>2. CASE run[r].dry
    BY <1>1, <1>11, <2>1, <2>2 DEF SplitBatch, queueVars
  <2>3. CASE ~run[r].dry
    <3>1. PICK back :
            /\ RescheduleJobs({[id |-> x.id, priority |-> SamePriority, runAfter |-> NullDate,
                                tries |-> x.tries] : x \in back}, LastOf(back).id)
            /\ tried' = [i \in DOMAIN tried |-> IF i \in IdsOf(back) THEN NotTried ELSE tried[i]]
      BY <1>11, <2>3 DEF SplitBatch
    <3> DEFINE R == {[id |-> x.id, priority |-> SamePriority, runAfter |-> NullDate,
                      tries |-> x.tries] : x \in back}
    <3>2. {y.id : y \in R} = IdsOf(back)
      <4>1. \A y \in R : \E x \in back : y.id = x.id
        OBVIOUS
      <4>2. ASSUME NEW x \in back  PROVE \E y \in R : y.id = x.id
        <5>1. PICK y : y = [id |-> x.id, priority |-> SamePriority, runAfter |-> NullDate,
                            tries |-> x.tries]
          OBVIOUS
        <5>2. y \in R /\ y.id = x.id
          BY <5>1
        <5> QED BY <5>2
      <4> HIDE DEF R
      <4> QED BY <4>1, <4>2 DEF IdsOf
    <3>3. RescheduleJobs(R, LastOf(back).id)
      BY <3>1
    <3> HIDE DEF R
    <3>4. UNCHANGED inserted /\ DOMAIN tried = 1..MaxJobs
      BY <1>0, <1>11 DEF SplitBatch, TypeOK
    <3>5. PICK forgotten : forgotten = IdsOf(back)
      OBVIOUS
    <3>6. \A i \in 1..MaxJobs : tried'[i] = IF i \in forgotten THEN NotTried ELSE tried[i]
      BY <3>1, <3>4, <3>5
    <3> QED BY <1>9, <2>1, <3>2, <3>3, <3>4, <3>5, <3>6
  <2> QED BY <2>2, <2>3
<1>12. CASE Reserve(r)
  BY <1>12, ReserveKeepsGaps
<1>13. CASE PickBatch(r)
  BY <1>13, PickingKeepsGaps
<1> QED BY <1>3, <1>4, <1>5, <1>6, <1>7, <1>8, <1>10, <1>11, <1>12, <1>13 DEF Work, Mishap

\* A job that crashes its process, again and again, is tried after gaps that double up to the limit:
\* rescheduleBeforeTrying writes the delay before the handler can run.
THEOREM CrashesAreSpacedOut ==
  ASSUME OneRunner
  PROVE  Spec => CrashLoopIsSlow
<1>1. Init => GapsAreKept
  <2> SUFFICES ASSUME Init  PROVE GapsAreKept
    OBVIOUS
  <2>1. RowsKeepGaps /\ NewIdsAreNotTried
    BY DEF Init, RowsKeepGaps, NewIdsAreNotTried
  <2>2. \A r \in Runners : CopiesKeepGaps(r)
    BY DEF Init, NoRun, CopiesKeepGaps
  <2> QED BY <2>1, <2>2 DEF GapsAreKept
<1>2. Inductive /\ Inductive' /\ GapsAreKept /\ [Next]_vars => GapsAreKept'
  <2> SUFFICES ASSUME Inductive, Inductive', GapsAreKept, [Next]_vars  PROVE GapsAreKept'
    OBVIOUS
  <2>0. TypeOK' /\ TypeOK
    BY DEF Inductive
  <2>1. CASE UNCHANGED vars
    BY <2>1 DEF vars, queueVars, history, GapsAreKept, RowsKeepGaps, NewIdsAreNotTried, CopiesKeepGaps, Owed
  <2>2. CASE Tick
    <3>1. UNCHANGED <<jobs, run, tried, inserted>> /\ clock' >= clock /\ clock \in Nat /\ clock' \in Nat
      BY <2>0, <2>2, GapsAreTyped DEF Tick, queueVars, history
    <3>2. ASSUME NEW r \in Runners, NEW x \in run[r].batch, Owed(x.id, x.tries.unfinished, clock)
          PROVE  Owed(x.id, x.tries.unfinished, clock)'
      <4>1. tried[x.id].at \in Nat /\ tried[x.id].gap \in Nat
        BY <2>0, GapsAreTyped
      <4> QED BY <3>1, <3>2, <4>1 DEF Owed
    <3>3. \A r \in Runners : CopiesKeepGaps(r)'
      BY <3>1, <3>2 DEF GapsAreKept, CopiesKeepGaps
    <3>4. RowsKeepGaps' /\ NewIdsAreNotTried'
      BY <3>1 DEF GapsAreKept, RowsKeepGaps, NewIdsAreNotTried, Owed
    <3> QED BY <3>3, <3>4 DEF GapsAreKept
  <2>3. CASE ClientStep
    BY <2>3, ClientsKeepGaps
  <2>4. ASSUME NEW r \in Runners, Start(r) \/ Work(r) \/ Mishap(r)
        PROVE  GapsAreKept'
    BY OneRunner, <2>0, <2>4, RunnersKeepGaps
  <2> QED BY <2>1, <2>2, <2>3, <2>4 DEF Next
<1>3. GapsAreKept => \A r \in Runners : Reserve(r) => TriesKeepTheirGap(r)
  BY DEF GapsAreKept, CopiesKeepGaps, Reserve, Owed, TriesKeepTheirGap
<1>4. GapsAreKept /\ [Next]_vars => [\A r \in Runners : Reserve(r) => TriesKeepTheirGap(r)]_vars
  BY <1>3
<1> QED BY <1>1, <1>2, <1>4, InvariantHolds, PTL DEF Spec, CrashLoopIsSlow
=============================================================================
