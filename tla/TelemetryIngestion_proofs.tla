---------------------- MODULE TelemetryIngestion_proofs ----------------------
(***************************************************************************)
(* Theorems about TelemetryIngestion, for every set of workers, tokens,    *)
(* records and ranges and every bound.                                     *)
(***************************************************************************)
EXTENDS TelemetryIngestion, FiniteSetTheorems, TLAPS

(***************************************************************************)
(* The invariant the proofs work with, in named parts.                     *)
(***************************************************************************)

\* A worker between two transactions holds a run.
WorkerHasRun ==
    \A w \in Worker : worker[w].phase # "idle" => worker[w].run \in RunId

TypeInv == TypeOK /\ WorkerHasRun

\* Tokens are fresh: no two busy workers carry the same one.
TokensDistinct ==
    /\ \A w \in Worker : worker[w].phase # "idle" => worker[w].token \in Token
    /\ \A w, v \in Worker :
        /\ worker[w].phase # "idle" /\ worker[v].phase # "idle"
        /\ worker[w].token = worker[v].token
        => w = v

LeaseInv == TypeInv /\ TokensDistinct /\ LeaseOwnsOneRun

(***************************************************************************)
(* Types of the operators the actions are built from.                      *)
(***************************************************************************)

\* A claim leaves a row of the type of ingestion_runs.
LEMMA ActivatedRunType ==
    ASSUME TypeOK, NEW r \in RunId, NEW token \in Token
    PROVE  ActivatedRun(r, token) \in RunRow
BY ZenonT(40) DEF TypeOK, ActivatedRun, RunRow, RunStatus

\* So does releasing a run with one of the statuses the code writes.
LEMMA ReleasedRunType ==
    ASSUME TypeOK, NEW r \in RunId, NEW status \in RunStatus
    PROVE  ReleasedRun(r, status) \in RunRow
BY ZenonT(40) DEF TypeOK, ReleasedRun, RunRow

\* And clearing the lease columns leaves a row of data_connections.
LEMMA ReleasedType ==
    ASSUME TypeOK, NEW due \in {"unset", "later", "now"},
           NEW retries \in 0..MaxRetries
    PROVE  Released(due, retries) \in ConnRow
BY DEF TypeOK, Released, ConnRow

\* The retry counter of a connection stays within its cap.
LEMMA RetryCountType ==
    ASSUME TypeOK
    PROVE  RetryCount \in 0..MaxRetries
BY BoundAssumption DEF TypeOK, RetryCount, ConnRow

\* A page is a finite set of records, so its accepted records can be counted.
LEMMA InsertedFinite ==
    ASSUME TypeOK, NEW w \in Worker
    PROVE  /\ Inserted(w) \in SUBSET PageRecords(w)
           /\ Cardinality(Inserted(w)) \in Nat
<1>1. worker[w].from \in Int /\ worker[w].to \in Int
  BY DEF TypeOK, WorkerLocals
<1>2. IsFiniteSet(PageRecords(w))
  BY <1>1, FS_Interval DEF PageRecords
<1>3. Inserted(w) \in SUBSET PageRecords(w)
  BY DEF Inserted, Normalized
<1>4. IsFiniteSet(Inserted(w))
  BY <1>2, <1>3, FS_Subset
<1> QED BY <1>3, <1>4, FS_CardinalityType

\* Counting a page leaves a row of the type of ingestion_runs, and all but
\* its counters as it was.
LEMMA CountedRunType ==
    ASSUME TypeOK, NEW w \in Worker, worker[w].run \in RunId
    PROVE  /\ CountedRun(w) \in RunRow
           /\ CountedRun(w).status = run[worker[w].run].status
           /\ CountedRun(w).token = run[worker[w].run].token
           /\ CountedRun(w).mode = run[worker[w].run].mode
           /\ CountedRun(w).first = run[worker[w].run].first
           /\ CountedRun(w).last = run[worker[w].run].last
<1>1. run[worker[w].run] \in RunRow
  BY DEF TypeOK
<1>2. PICK n \in Nat : n = run[worker[w].run].accepted + Cardinality(Inserted(w))
  BY <1>1, InsertedFinite DEF RunRow
<1>3. PICK b \in BOOLEAN : b = (run[worker[w].run].rejected
                                  \/ PageRecords(w) \cap BadRecord # {})
  OBVIOUS
<1>4. CountedRun(w) = [run[worker[w].run] EXCEPT !.accepted = n, !.rejected = b]
  BY <1>2, <1>3, Zenon DEF CountedRun
<1> QED BY <1>1, <1>4 DEF RunRow

\* A worker without work has the type of a worker's locals.
LEMMA IdleWorkerType == IdleWorker \in WorkerLocals
BY BoundAssumption DEF IdleWorker, WorkerLocals, Phase

\* A row before its insertion has the type of ingestion_runs.
LEMMA AbsentRunType == AbsentRun \in RunRow
BY BoundAssumption DEF AbsentRun, RunRow, RunStatus, RunMode

\* Making the connection due at once leaves a row of data_connections.
LEMMA ScheduledType ==
    ASSUME TypeOK
    PROVE  [conn EXCEPT !.due = "now", !.retries = 0] \in ConnRow
<1>1. 0 \in 0..MaxRetries
  BY BoundAssumption
<1> QED BY <1>1 DEF TypeOK, ConnRow

(***************************************************************************)
(* Type correctness.                                                       *)
(***************************************************************************)
LEMMA TypeInit == Init => TypeOK
<1> SUFFICES ASSUME Init PROVE TypeOK
  OBVIOUS
<1> USE BoundAssumption DEF Init
<1>1. conn \in ConnRow
  BY DEF ConnRow
<1>2. run \in [RunId -> RunRow]
  BY DEF RunRow, RunStatus, RunMode, AbsentRun
<1>3. checkpoint \in [CheckpointMode -> CheckpointRow]
  BY DEF CheckpointRow, NoCheckpoint
<1>4. worker \in [Worker -> WorkerLocals]
  BY DEF WorkerLocals, IdleWorker, Phase
<1>5. observed \in [Record -> 0..MaxRuns]
  OBVIOUS
<1>6. scheduling \in BOOLEAN
  BY Zenon
<1>7. /\ lapsed \subseteq Clock
      /\ rejections \subseteq Record
      /\ available \in 0..MaxRecord
      /\ mapping \in 0..MaxMappingEdits
      /\ disturbances \in 0..MaxDisturbances
  OBVIOUS
<1> QED BY <1>1, <1>2, <1>3, <1>4, <1>5, <1>6, <1>7, Zenon DEF TypeOK

\* The page of a worker: what it reads has the types its locals have.
LEMMA PageFromType ==
    ASSUME TypeOK, NEW r \in RunId
    PROVE  PageFrom(r) \in Nat \ {0}
<1>1. checkpoint[ModeOf(r)] \in CheckpointRow
  BY DEF TypeOK, ModeOf, CheckpointMode
<1>2. /\ run[r] \in RunRow
      /\ run[r].first \in Nat
  BY DEF TypeOK, RunRow
<1> QED BY <1>1, <1>2 DEF PageFrom, FeedFirst, CheckpointRow

\* Recording a failure keeps the types.
LEMMA RecordFailureType ==
    ASSUME TypeOK, NEW w \in Worker, NEW retryable \in BOOLEAN,
           RecordFailure(w, retryable)
    PROVE  TypeOK'
<1>1. conn' \in ConnRow
  BY ReleasedType, RetryCountType DEF RecordFailure
<1>2. run' \in [RunId -> RunRow]
  BY ReleasedRunType DEF RecordFailure, TypeOK, RunStatus
<1>3. worker' \in [Worker -> WorkerLocals]
  BY IdleWorkerType DEF RecordFailure, WorkerDone, TypeOK
<1> QED BY <1>1, <1>2, <1>3 DEF TypeOK, RecordFailure

\* Every step of a worker keeps the types.
LEMMA WorkerStepType ==
    ASSUME TypeInv, NEW w \in Worker, WorkerStep(w)
    PROVE  TypeOK'
<1> USE BoundAssumption
<1> TypeOK /\ WorkerHasRun
  BY DEF TypeInv
<1>0. /\ worker[w] \in WorkerLocals
      /\ IdleWorker \in WorkerLocals
      /\ \A l \in WorkerLocals :
            [worker EXCEPT ![w] = l] \in [Worker -> WorkerLocals]
  BY IdleWorkerType DEF TypeOK
<1>1. CASE Claim(w)
  <2>1. PICK token \in Token, r \in RunId :
            /\ conn' = [conn EXCEPT !.token = token]
            /\ run' = [run EXCEPT ![r] = ActivatedRun(r, token)]
            /\ worker' = [worker EXCEPT ![w] =
                            [IdleWorker EXCEPT !.phase = "claimed", !.run = r,
                                               !.token = token]]
    BY <1>1 DEF Claim
  <2>2. conn' \in ConnRow
    BY <2>1 DEF TypeOK, ConnRow
  <2>3. run' \in [RunId -> RunRow]
    BY <2>1, ActivatedRunType DEF TypeOK
  <2>4. PICK idle \in WorkerLocals, id \in 0..MaxRuns : idle = IdleWorker /\ id = r
    BY <1>0 DEF RunId
  <2>5. [idle EXCEPT !.phase = "claimed", !.run = id, !.token = token]
            \in WorkerLocals
    BY DEF WorkerLocals, Phase
  <2>6. worker' \in [Worker -> WorkerLocals]
    BY <2>1, <2>4, <2>5, <1>0
  <2> QED BY <1>1, <2>2, <2>3, <2>6 DEF TypeOK, Claim
<1>2. CASE Fetch(w)
  <2> DEFINE r == worker[w].run
  <2>1. PICK to \in 0..MaxRecord, next \in 0..MaxRecord, more \in BOOLEAN :
            worker' = [worker EXCEPT ![w] =
                        [@ EXCEPT !.phase = "fetched",
                                  !.revision = checkpoint[ModeOf(r)].revision,
                                  !.from = PageFrom(r), !.to = to,
                                  !.next = next, !.more = more,
                                  !.mapping = mapping]]
    BY <1>2 DEF Fetch
  <2>2. PICK revision \in Nat, from \in Nat, edits \in 0..MaxMappingEdits :
            /\ revision = checkpoint[ModeOf(r)].revision
            /\ from = PageFrom(r)
            /\ edits = mapping
    <3>1. checkpoint[ModeOf(r)].revision \in Nat
      BY DEF TypeOK, CheckpointRow, CheckpointMode, ModeOf
    <3>2. r \in RunId
      BY <1>2 DEF Fetch, WorkerHasRun
    <3> QED BY <3>1, <3>2, PageFromType DEF TypeOK
  <2>3. [worker[w] EXCEPT !.phase = "fetched", !.revision = revision,
                          !.from = from, !.to = to, !.next = next,
                          !.more = more, !.mapping = edits] \in WorkerLocals
    BY <1>0 DEF WorkerLocals, Phase
  <2>4. worker' \in [Worker -> WorkerLocals]
    BY <2>1, <2>2, <2>3, <1>0
  <2> QED BY <1>2, <2>4 DEF TypeOK, Fetch
<1>3. CASE FindDisabled(w)
  <2>1. worker' \in [Worker -> WorkerLocals]
    BY <1>3, <1>0 DEF FindDisabled, TypeOK, WorkerLocals, Phase
  <2> QED BY <1>3, <2>1 DEF TypeOK, FindDisabled
<1>4. CASE Persist(w)
  <2> DEFINE r == worker[w].run
  <2>1. r \in RunId
    BY <1>4 DEF Persist, WorkerHasRun
  <2>2. observed' \in [Record -> 0..MaxRuns]
    BY <1>4, <2>1 DEF Persist, TypeOK, RunId
  <2>3. rejections' \subseteq Record
    BY <1>4, RecordAssumption DEF Persist, TypeOK
  <2>4. AdvancedCheckpoint(w) \in CheckpointRow
    BY <1>0 DEF AdvancedCheckpoint, CheckpointRow, WorkerLocals
  <2>5. checkpoint' \in [CheckpointMode -> CheckpointRow]
    BY <1>4, <2>4 DEF Persist, TypeOK
  <2>6. run' \in [RunId -> RunRow]
    BY <1>4, <2>1, CountedRunType DEF Persist, TypeOK
  <2>7. worker' \in [Worker -> WorkerLocals]
    BY <1>4, <1>0 DEF Persist, TypeOK, WorkerLocals, Phase
  <2> QED BY <1>4, <2>2, <2>3, <2>5, <2>6, <2>7 DEF TypeOK, Persist
<1>6. CASE MappingConflict(w)
  BY <1>6, RecordFailureType DEF MappingConflict
<1>7. CASE Continue(w)
  <2>1. conn' \in ConnRow
    BY <1>7, ReleasedType DEF Continue, TypeOK, ConnRow
  <2>2. run' \in [RunId -> RunRow]
    BY <1>7, ReleasedRunType DEF Continue, TypeOK, RunStatus
  <2>3. worker' \in [Worker -> WorkerLocals]
    BY <1>7, <1>0 DEF Continue, WorkerDone
  <2> QED BY <1>7, <2>1, <2>2, <2>3 DEF TypeOK, Continue
<1>8. CASE StartAnalysis(w)
  <2>1. worker' \in [Worker -> WorkerLocals]
    BY <1>8, <1>0 DEF StartAnalysis, TypeOK, WorkerLocals, Phase
  <2> QED BY <1>8, <2>1 DEF TypeOK, StartAnalysis
<1>9. ASSUME NEW status \in RunStatus, NEW due \in {"unset", "later", "now"},
             Finish(w, status, due)
      PROVE  TypeOK'
  <2>1. conn' \in ConnRow
    BY <1>9, ReleasedType DEF Finish
  <2>2. run' \in [RunId -> RunRow]
    BY <1>9, ReleasedRunType DEF Finish, TypeOK
  <2>3. worker' \in [Worker -> WorkerLocals]
    BY <1>9, <1>0 DEF Finish, WorkerDone
  <2> QED BY <1>9, <2>1, <2>2, <2>3 DEF TypeOK, Finish
<1>10. CASE Complete(w)
  BY <1>9, <1>10 DEF Complete, FinishedStatus, RunStatus
<1>11. CASE CompleteDisabled(w)
  BY <1>9, <1>11 DEF CompleteDisabled, RunStatus
<1>12. CASE LeaseLost(w)
  <2>1. worker' \in [Worker -> WorkerLocals]
    BY <1>12, <1>0 DEF LeaseLost, WorkerDone
  <2> QED BY <1>12, <2>1 DEF TypeOK, LeaseLost
<1> QED BY <1>1, <1>2, <1>3, <1>4, <1>6, <1>7, <1>8, <1>10, <1>11, <1>12
        DEF WorkerStep

\* Inserting a requested run keeps the types.
LEMMA RequestRunType ==
    ASSUME TypeOK, NEW mode \in RunMode, NEW first \in 0..MaxRecord,
           NEW last \in 0..MaxRecord, NEW source \in 0..MaxRuns,
           RequestRun(mode, first, last, source)
    PROVE  TypeOK'
<1> USE BoundAssumption
<1>1. PICK r \in RunId :
          run' = [run EXCEPT ![r] =
                    [AbsentRun EXCEPT !.status = "pending", !.mode = mode,
                        !.first = first, !.last = last, !.source = source]]
  BY DEF RequestRun
<1>2. PICK row \in RunRow : row = AbsentRun
  BY AbsentRunType
<1>3. [row EXCEPT !.status = "pending", !.mode = mode, !.first = first,
                  !.last = last, !.source = source] \in RunRow
  BY DEF RunRow, RunStatus
<1>4. run' \in [RunId -> RunRow]
  BY <1>1, <1>2, <1>3 DEF TypeOK
<1>5. conn' \in ConnRow
  BY ScheduledType DEF RequestRun
<1>6. NoCheckpoint \in CheckpointRow
  BY DEF NoCheckpoint, CheckpointRow
<1>7. checkpoint' \in [CheckpointMode -> CheckpointRow]
  BY <1>6 DEF RequestRun, TypeOK
<1> QED BY <1>4, <1>5, <1>7 DEF TypeOK, RequestRun

\* So does every step of the operators and of the environment.
LEMMA OtherStepType ==
    ASSUME TypeOK, [Next]_vars,
           \A w \in Worker : ~WorkerStep(w)
    PROVE  TypeOK'
<1> USE BoundAssumption
<1>0. Disturb => disturbances' \in 0..MaxDisturbances
  BY DEF Disturb, TypeOK
<1>1. ASSUME NEW w \in Worker, GuardianRenew(w)
      PROVE  TypeOK'
  BY <1>1 DEF GuardianRenew, TypeOK
<1>2. ASSUME NEW w \in Worker, NEW retryable \in BOOLEAN, Fail(w, retryable)
      PROVE  TypeOK'
  BY <1>2, RecordFailureType DEF Fail
<1>3. ASSUME NEW w \in Worker, Crash(w)
      PROVE  TypeOK'
  <2>1. worker' \in [Worker -> WorkerLocals]
    BY <1>3, IdleWorkerType DEF Crash, WorkerDone, TypeOK
  <2> QED BY <1>3, <1>0, <2>1 DEF Crash, TypeOK
<1>4. CASE Enable
  <2>1. conn' \in ConnRow
    BY <1>4 DEF Enable, TypeOK, ConnRow
  <2>2. scheduling' \in BOOLEAN
    BY <1>4, Zenon DEF Enable
  <2> QED BY <1>4, <1>0, <2>1, <2>2 DEF Enable, TypeOK
<1>5. CASE ScheduleNow
  <2>1. conn' \in ConnRow
    BY <1>5, ScheduledType DEF ScheduleNow, TypeOK
  <2>2. scheduling' \in BOOLEAN
    BY <1>5, Zenon DEF ScheduleNow
  <2> QED BY <1>5, <2>1, <2>2 DEF ScheduleNow, TypeOK
<1>6. CASE Disable
  <2>1. conn' \in ConnRow
    BY <1>6 DEF Disable, TypeOK, ConnRow
  <2> QED BY <1>6, <2>1 DEF Disable, TypeOK
<1>7. CASE Archive
  <2>1. conn' \in ConnRow
    BY <1>7 DEF Archive, TypeOK, ConnRow
  <2> QED BY <1>7, <2>1 DEF Archive, TypeOK
<1>8. ASSUME NEW range \in Ranges, CreateBackfill(range[1], range[2])
      PROVE  TypeOK'
  <2>1. range[1] \in 0..MaxRecord /\ range[2] \in 0..MaxRecord
    BY RecordAssumption DEF Record
  <2> QED BY <1>8, <2>1, RequestRunType DEF CreateBackfill, RunMode
<1>9. ASSUME NEW source \in RunId, RetryRun(source)
      PROVE  TypeOK'
  <2>1. /\ run[source].first \in 0..MaxRecord
        /\ run[source].last \in 0..MaxRecord
        /\ source \in 0..MaxRuns
    BY DEF TypeOK, RunRow, RunId
  <2> QED BY <1>9, <2>1, RequestRunType DEF RetryRun, RunMode
<1>10. CASE EditMapping
  BY <1>10 DEF EditMapping, TypeOK
<1>11. CASE Produce
  BY <1>11 DEF Produce, TypeOK
<1>12. CASE BecomeDue
  <2>1. conn' \in ConnRow
    BY <1>12 DEF BecomeDue, TypeOK, ConnRow
  <2> QED BY <1>12, <2>1 DEF BecomeDue, TypeOK
<1>13. ASSUME NEW c \in Clock, Lapse(c)
       PROVE  TypeOK'
  BY <1>13, <1>0 DEF Lapse, TypeOK
<1>14. CASE UNCHANGED vars
  BY <1>14 DEF vars, TypeOK
<1> QED BY <1>1, <1>2, <1>3, <1>4, <1>5, <1>6, <1>7, <1>8, <1>9, <1>10,
           <1>11, <1>12, <1>13, <1>14 DEF Next

(***************************************************************************)
(* What a step leaves alone.                                               *)
(***************************************************************************)

\* A worker without work does none of the steps that need some, and after
\* giving its work up it is idle.
LEMMA DoneIsIdle ==
    ASSUME TypeOK, NEW w \in Worker, WorkerDone(w), NEW v \in Worker
    PROVE  /\ v # w => worker'[v] = worker[v]
           /\ worker'[w].phase = "idle"
BY DEF TypeOK, WorkerDone, IdleWorker

\* A worker that is busy after a step, and did not just claim, was busy with
\* the same run under the same token before it.
LEMMA HeldLocals ==
    ASSUME TypeOK, [Next]_vars,
           NEW v \in Worker, worker'[v].phase # "idle", ~Claim(v)
    PROVE  /\ worker[v].phase # "idle"
           /\ worker'[v].run = worker[v].run
           /\ worker'[v].token = worker[v].token
<1> DEFINE Held == /\ worker[v].phase # "idle"
                   /\ worker'[v].run = worker[v].run
                   /\ worker'[v].token = worker[v].token
<1>0. worker \in [Worker -> WorkerLocals]
  BY DEF TypeOK
<1>1. CASE worker' = worker
  BY <1>1
<1>2. ASSUME NEW w \in Worker, WorkerDone(w)
      PROVE  Held
  BY <1>2, DoneIsIdle
<1>3. ASSUME NEW w \in Worker, WorkerStep(w)
      PROVE  Held
  <2>1. CASE Claim(w)
    BY <1>0, <2>1 DEF Claim
  <2>2. CASE Fetch(w)
    BY <1>0, <2>2 DEF Fetch, WorkerLocals
  <2>3. CASE FindDisabled(w)
    BY <1>0, <2>3 DEF FindDisabled, WorkerLocals
  <2>4. CASE Persist(w)
    BY <1>0, <2>4 DEF Persist, WorkerLocals
  <2>5. CASE StartAnalysis(w)
    BY <1>0, <2>5 DEF StartAnalysis, WorkerLocals
  <2>6. CASE MappingConflict(w) \/ Continue(w) \/ Complete(w)
             \/ CompleteDisabled(w) \/ LeaseLost(w)
    BY <1>2, <2>6 DEF MappingConflict, RecordFailure, Continue, Complete,
                      CompleteDisabled, Finish, LeaseLost
  <2> QED BY <1>3, <2>1, <2>2, <2>3, <2>4, <2>5, <2>6 DEF WorkerStep
<1>4. ASSUME NEW w \in Worker, NEW retryable \in BOOLEAN, Fail(w, retryable)
      PROVE  Held
  BY <1>2, <1>4 DEF Fail, RecordFailure
<1>5. ASSUME NEW w \in Worker, Crash(w)
      PROVE  Held
  BY <1>2, <1>5 DEF Crash
<1> QED
  BY <1>1, <1>3, <1>4, <1>5
     DEF Next, vars, GuardianRenew, Enable, ScheduleNow, Disable, Archive,
         CreateBackfill, RetryRun, RequestRun, EditMapping, Produce,
         BecomeDue, Lapse

\* What a claim does to the workers and to the runs.
LEMMA ClaimEffect ==
    ASSUME TypeOK, NEW w \in Worker, Claim(w)
    PROVE  /\ worker[w].phase = "idle"
           /\ worker'[w].phase = "claimed"
           /\ worker'[w].token \in Token \ TokensInUse
           /\ conn'.token = worker'[w].token
           /\ worker'[w].run \in RunId
           /\ RunToWork(worker'[w].run)
           /\ run' = [run EXCEPT ![worker'[w].run] =
                        ActivatedRun(worker'[w].run, worker'[w].token)]
           /\ \A v \in Worker \ {w} : worker'[v] = worker[v]
BY IdleWorkerType DEF Claim, TypeOK, WorkerLocals, ConnRow

\* Runs are never deleted, keep the range they were requested with, and do
\* not change at all once they are finished.
LEMMA RunKept ==
    ASSUME TypeInv, [Next]_vars, NEW r \in RunId, run[r].status # "absent"
    PROVE  /\ run'[r].status # "absent"
           /\ run'[r].first = run[r].first
           /\ run'[r].last = run[r].last
           /\ Terminal(r) => run'[r] = run[r]
<1> DEFINE Kept == /\ run'[r].status # "absent"
                   /\ run'[r].first = run[r].first
                   /\ run'[r].last = run[r].last
                   /\ Terminal(r) => run'[r] = run[r]
<1>0. run \in [RunId -> RunRow]
  BY DEF TypeInv, TypeOK
<1>1. CASE run' = run
  BY <1>1
<1>2. ASSUME NEW q \in RunId, NEW status \in RunStatus, status # "absent",
             run[q].status = "running",
             run' = [run EXCEPT ![q] = ReleasedRun(q, status)]
      PROVE  Kept
  BY <1>0, <1>2 DEF ReleasedRun, RunRow, Terminal
<1>3. ASSUME NEW w \in Worker, WorkerStep(w)
      PROVE  Kept
  <2>0. worker[w].phase # "idle" => worker[w].run \in RunId
    BY DEF TypeInv, WorkerHasRun
  <2>1. CASE Claim(w)
    <3>1. PICK q \in RunId, token \in Token :
              /\ run' = [run EXCEPT ![q] = ActivatedRun(q, token)]
              /\ RunToWork(q)
      BY <2>1, ClaimEffect DEF TypeInv
    <3>2. ~Terminal(q)
      BY <3>1 DEF RunToWork, IsNewRun, Active, Terminal
    <3> QED BY <1>0, <3>1, <3>2 DEF ActivatedRun, RunRow
  <2>2. CASE Persist(w)
    BY <1>0, <2>2, <2>0, CountedRunType
       DEF Persist, LeaseAttested, Owns, TypeInv, Terminal
  <2>3. CASE MappingConflict(w)
    BY <2>0, <1>2, <2>3 DEF MappingConflict, RecordFailure, RunStatus, Owns
  <2>4. CASE Continue(w)
    BY <2>0, <1>2, <2>4 DEF Continue, RunStatus, Owns
  <2>5. CASE Complete(w)
    BY <2>0, <1>2, <2>5 DEF Complete, Finish, FinishedStatus, RunStatus, Owns
  <2>6. CASE CompleteDisabled(w)
    BY <2>0, <1>2, <2>6 DEF CompleteDisabled, Finish, RunStatus, Owns
  <2>7. CASE Fetch(w) \/ FindDisabled(w) \/ StartAnalysis(w) \/ LeaseLost(w)
    BY <1>1, <2>7 DEF Fetch, FindDisabled, StartAnalysis, LeaseLost
  <2> QED
    BY <1>3, <2>1, <2>2, <2>3, <2>4, <2>5, <2>6, <2>7 DEF WorkerStep
<1>4. ASSUME NEW w \in Worker, NEW retryable \in BOOLEAN, Fail(w, retryable)
      PROVE  Kept
  BY <1>2, <1>4 DEF Fail, RecordFailure, RunStatus, Owns, TypeInv, WorkerHasRun
<1>5. ASSUME NEW mode, NEW first, NEW last, NEW source,
             RequestRun(mode, first, last, source)
      PROVE  Kept
  BY <1>0, <1>5 DEF RequestRun, IsNewRun, Terminal
<1> QED
  BY <1>1, <1>3, <1>4, <1>5
     DEF Next, vars, GuardianRenew, Crash, Enable, ScheduleNow, Disable,
         Archive, CreateBackfill, RetryRun, EditMapping, Produce, BecomeDue,
         Lapse

\* What a step that is no claim does to the lease: it keeps it with the runs
\* that run, or clears it and starts no run.
LEMMA LeaseEffect ==
    ASSUME TypeInv, [Next]_vars, \A w \in Worker : ~Claim(w)
    PROVE  \/ /\ conn'.token = NoToken
              /\ \A r \in RunId :
                    run'[r].status = "running" => run[r].status = "running"
           \/ /\ conn'.token = conn.token
              /\ \A r \in RunId :
                    /\ run'[r].status = "running" <=> run[r].status = "running"
                    /\ run[r].status = "running" => run'[r].token = run[r].token
<1> DEFINE
      Cleared == /\ conn'.token = NoToken
                 /\ \A r \in RunId :
                        run'[r].status = "running" => run[r].status = "running"
      Kept == /\ conn'.token = conn.token
              /\ \A r \in RunId :
                    /\ run'[r].status = "running" <=> run[r].status = "running"
                    /\ run[r].status = "running" => run'[r].token = run[r].token
<1>0. run \in [RunId -> RunRow] /\ conn \in ConnRow
  BY DEF TypeInv, TypeOK
<1>1. CASE run' = run /\ conn'.token = conn.token
  BY <1>1
<1>2. ASSUME NEW q \in RunId, NEW status, status # "running",
             NEW due, NEW retries,
             run' = [run EXCEPT ![q] = ReleasedRun(q, status)],
             conn' = Released(due, retries)
      PROVE  Cleared
  BY <1>0, <1>2 DEF ReleasedRun, RunRow, Released, ConnRow
<1>3. ASSUME NEW w \in Worker, WorkerStep(w)
      PROVE  Cleared \/ Kept
  <2>0. worker[w].phase # "idle" => worker[w].run \in RunId
    BY DEF TypeInv, WorkerHasRun
  <2>1. CASE Persist(w)
    BY <1>0, <2>1, <2>0, CountedRunType DEF Persist, TypeInv
  <2>2. CASE MappingConflict(w)
    BY <2>0, <1>2, <2>2 DEF MappingConflict, RecordFailure
  <2>3. CASE Continue(w)
    BY <2>0, <1>2, <2>3 DEF Continue
  <2>4. CASE Complete(w)
    BY <2>0, <1>2, <2>4 DEF Complete, Finish, FinishedStatus
  <2>5. CASE CompleteDisabled(w)
    BY <2>0, <1>2, <2>5 DEF CompleteDisabled, Finish
  <2>6. CASE Fetch(w) \/ FindDisabled(w) \/ StartAnalysis(w) \/ LeaseLost(w)
    BY <1>1, <2>6 DEF Fetch, FindDisabled, StartAnalysis, LeaseLost
  <2> QED
    BY <1>3, <2>1, <2>2, <2>3, <2>4, <2>5, <2>6 DEF WorkerStep
<1>4. ASSUME NEW w \in Worker, NEW retryable \in BOOLEAN, Fail(w, retryable)
      PROVE  Cleared
  BY <1>2, <1>4 DEF Fail, RecordFailure, TypeInv, WorkerHasRun
<1>5. ASSUME NEW mode, NEW first, NEW last, NEW source,
             RequestRun(mode, first, last, source)
      PROVE  Kept
  <2>1. PICK r \in RunId : /\ run[r].status = "absent"
                           /\ run'[r].status = "pending"
                           /\ \A q \in RunId \ {r} : run'[q] = run[q]
    BY <1>0, <1>5 DEF RequestRun, IsNewRun, AbsentRun
  <2>2. conn'.token = conn.token
    BY <1>0, <1>5 DEF RequestRun, ConnRow
  <2> QED BY <2>1, <2>2
<1>6. CASE Archive
  BY <1>0, <1>6 DEF Archive, ConnRow
<1>7. CASE Enable \/ ScheduleNow \/ Disable \/ BecomeDue
  BY <1>0, <1>1, <1>7 DEF Enable, ScheduleNow, Disable, BecomeDue, ConnRow
<1> QED
  BY <1>1, <1>3, <1>4, <1>5, <1>6, <1>7
     DEF Next, vars, GuardianRenew, Crash, CreateBackfill, RetryRun,
         EditMapping, Produce, Lapse

(***************************************************************************)
(* Type correctness, and the lease.                                        *)
(***************************************************************************)
LEMMA TypeInvInductive ==
    /\ Init => TypeInv
    /\ TypeInv /\ [Next]_vars => TypeInv'
<1>1. Init => TypeInv
  BY TypeInit DEF Init, TypeInv, WorkerHasRun, IdleWorker
<1>2. ASSUME TypeInv, [Next]_vars
      PROVE  TypeInv'
  <2>1. TypeOK'
    BY <1>2, WorkerStepType, OtherStepType DEF TypeInv
  <2>2. WorkerHasRun'
    BY <1>2, HeldLocals, ClaimEffect DEF TypeInv, WorkerHasRun
  <2> QED BY <2>1, <2>2 DEF TypeInv
<1> QED BY <1>1, <1>2

\* Every reachable state has the declared types: in particular no cursor
\* leaves the feed and no retry counter its cap.
THEOREM TypeCorrect == Spec => []TypeOK
<1>1. TypeInv => TypeOK
  BY DEF TypeInv
<1> QED BY <1>1, TypeInvInductive, PTL DEF Spec

LEMMA LeaseInvInductive ==
    /\ Init => LeaseInv
    /\ LeaseInv /\ [Next]_vars => LeaseInv'
<1>1. ASSUME Init
      PROVE  LeaseInv
  <2>1. TokensDistinct
    BY <1>1 DEF Init, TokensDistinct, IdleWorker
  <2>2. LeaseOwnsOneRun
    BY <1>1 DEF Init, LeaseOwnsOneRun, AbsentRun
  <2> QED BY <1>1, <2>1, <2>2, TypeInvInductive DEF LeaseInv
<1>2. ASSUME LeaseInv, [Next]_vars
      PROVE  LeaseInv'
  <2>0. TypeInv /\ TypeOK /\ TokensDistinct /\ LeaseOwnsOneRun
    BY <1>2 DEF LeaseInv, TypeInv
  <2>1. ASSUME NEW w \in Worker, Claim(w)
        PROVE  TokensDistinct'
    <3>1. /\ worker'[w].token \in Token
          /\ \A v \in Worker \ {w} : /\ worker'[v] = worker[v]
                                    /\ worker'[w].token # worker[v].token
      BY <2>0, <2>1, ClaimEffect DEF TokensInUse
    <3> QED BY <2>0, <3>1 DEF TokensDistinct
  <2>2. ASSUME \A w \in Worker : ~Claim(w)
        PROVE  TokensDistinct' /\ LeaseOwnsOneRun'
    <3>1. TokensDistinct'
      BY <1>2, <2>0, <2>2, HeldLocals DEF TokensDistinct
    <3>2. LeaseOwnsOneRun'
      BY <1>2, <2>0, <2>2, LeaseEffect DEF LeaseOwnsOneRun
    <3> QED BY <3>1, <3>2
  <2>3. ASSUME NEW w \in Worker, Claim(w)
        PROVE  LeaseOwnsOneRun'
    <3>1. PICK r \in RunId, token \in Token :
              /\ run' = [run EXCEPT ![r] = ActivatedRun(r, token)]
              /\ RunToWork(r)
              /\ conn'.token = token
      BY <2>0, <2>3, ClaimEffect
    <3>2. /\ run'[r].status = "running"
          /\ run'[r].token = token
          /\ \A q \in RunId \ {r} : run'[q] = run[q]
      BY <2>0, <3>1 DEF TypeOK, ActivatedRun, RunRow
    <3>3. \A q \in RunId \ {r} : run[q].status # "running"
      BY <2>0, <3>1 DEF RunToWork, ClaimedBefore, Active, LeaseOwnsOneRun
    <3> QED BY <3>1, <3>2, <3>3 DEF LeaseOwnsOneRun
  <2> QED BY <1>2, <2>0, <2>1, <2>2, <2>3, TypeInvInductive DEF LeaseInv
<1> QED BY <1>1, <1>2

\* The lease always belongs to the one running run, through every crash,
\* lapse, reclaim and archive.
THEOREM LeaseOwnership == Spec => []LeaseOwnsOneRun
<1>1. LeaseInv => LeaseOwnsOneRun
  BY DEF LeaseInv
<1> QED BY <1>1, LeaseInvInductive, PTL DEF Spec

\* At most one worker can commit, whatever the clocks say.
THEOREM LeaseExclusion == Spec => []LeaseExclusive
<1>1. LeaseInv => LeaseExclusive
  BY DEF LeaseInv, TokensDistinct, LeaseExclusive, Owns
<1> QED BY <1>1, LeaseInvInductive, PTL DEF Spec

\* No step changes the row of a finished run.
THEOREM FinishedFrozen == Spec => FinishedRunsFrozen
<1>1. TypeInv /\ [Next]_vars => [\A r \in RunId : Terminal(r) => run'[r] = run[r]]_vars
  BY RunKept DEF Terminal
<1> QED BY <1>1, TypeInvInductive, PTL DEF Spec, FinishedRunsFrozen

(***************************************************************************)
(* The checkpoint.                                                         *)
(***************************************************************************)

\* A page was read against the checkpoint its run still has, as long as its
\* worker owns the lease, on whatever clock.
FetchedRevision ==
    \A w \in Worker :
        worker[w].phase = "fetched" /\ Owns(w) =>
            checkpoint[ModeOf(worker[w].run)].revision = worker[w].revision

\* A worker that holds a page and is not fetching it now holds the same page
\* as before the step.
LEMMA HeldPage ==
    ASSUME TypeInv, [Next]_vars,
           NEW w \in Worker, worker'[w].phase = "fetched", ~Fetch(w)
    PROVE  worker'[w] = worker[w]
<1> DEFINE Held == worker'[w] = worker[w]
<1>0. worker \in [Worker -> WorkerLocals]
  BY DEF TypeInv, TypeOK
<1>1. ASSUME NEW v \in Worker, WorkerDone(v)
      PROVE  Held
  BY <1>1, DoneIsIdle DEF TypeInv
<1>2. ASSUME NEW v \in Worker, WorkerStep(v)
      PROVE  Held
  <2>1. CASE Claim(v)
    BY <2>1, ClaimEffect DEF TypeInv
  <2>2. CASE Fetch(v)
    <3>1. PICK locals : worker' = [worker EXCEPT ![v] = locals]
      BY <2>2 DEF Fetch
    <3>2. v # w
      BY <2>2
    <3> QED BY <1>0, <3>1, <3>2
  <2>3. CASE FindDisabled(v)
    BY <1>0, <2>3 DEF FindDisabled, WorkerLocals
  <2>4. CASE Persist(v)
    BY <1>0, <2>4 DEF Persist, WorkerLocals
  <2>5. CASE StartAnalysis(v)
    BY <1>0, <2>5 DEF StartAnalysis, WorkerLocals
  <2>6. CASE MappingConflict(v) \/ Continue(v) \/ Complete(v)
             \/ CompleteDisabled(v) \/ LeaseLost(v)
    BY <1>1, <2>6 DEF MappingConflict, RecordFailure, Continue, Complete,
                      CompleteDisabled, Finish, LeaseLost
  <2> QED BY <1>2, <2>1, <2>2, <2>3, <2>4, <2>5, <2>6 DEF WorkerStep
<1>3. ASSUME NEW v \in Worker, NEW retryable \in BOOLEAN, Fail(v, retryable)
      PROVE  Held
  BY <1>1, <1>3 DEF Fail, RecordFailure
<1>4. ASSUME NEW v \in Worker, Crash(v)
      PROVE  Held
  BY <1>1, <1>4 DEF Crash
<1> QED
  BY <1>2, <1>3, <1>4
     DEF Next, vars, GuardianRenew, Enable, ScheduleNow, Disable, Archive,
         CreateBackfill, RetryRun, RequestRun, EditMapping, Produce,
         BecomeDue, Lapse

\* Only a page moves a checkpoint forward, and only a bounded request made
\* while no bounded run is active takes one away.
LEMMA CheckpointEffect ==
    ASSUME TypeInv, [Next]_vars
    PROVE  \/ checkpoint' = checkpoint
           \/ \E w \in Worker :
                /\ Persist(w)
                /\ checkpoint' = [checkpoint EXCEPT ![ModeOf(worker[w].run)] =
                                    AdvancedCheckpoint(w)]
           \/ /\ ActiveBounded = {}
              /\ checkpoint' = [checkpoint EXCEPT !["backfill"] = NoCheckpoint]
<1> DEFINE Page(w) ==
              /\ Persist(w)
              /\ checkpoint' = [checkpoint EXCEPT ![ModeOf(worker[w].run)] =
                                    AdvancedCheckpoint(w)]
           Reset == /\ ActiveBounded = {}
                    /\ checkpoint' = [checkpoint EXCEPT !["backfill"] = NoCheckpoint]
<1>1. ASSUME NEW w \in Worker, WorkerStep(w)
      PROVE  checkpoint' = checkpoint \/ Page(w)
  BY <1>1 DEF WorkerStep, Claim, Fetch, FindDisabled, Persist, MappingConflict,
              RecordFailure, Continue, StartAnalysis, Complete,
              CompleteDisabled, Finish, LeaseLost
<1>2. ASSUME NEW range \in Ranges, CreateBackfill(range[1], range[2])
      PROVE  checkpoint' = checkpoint \/ Reset
  BY <1>2 DEF CreateBackfill, RequestRun
<1>3. ASSUME NEW source \in RunId, RetryRun(source)
      PROVE  checkpoint' = checkpoint \/ Reset
  BY <1>3 DEF RetryRun, RequestRun, Bounded
<1> QED
  BY <1>1, <1>2, <1>3
     DEF Next, vars, GuardianRenew, Fail, RecordFailure, Crash, Enable,
         ScheduleNow, Disable, Archive, EditMapping, Produce, BecomeDue, Lapse

\* What a worker reads when it fetches is what the repository shows then.
LEMMA FetchEffect ==
    ASSUME TypeInv, NEW w \in Worker, Fetch(w)
    PROVE  /\ worker'[w].run = worker[w].run
           /\ worker[w].run \in RunId
           /\ worker'[w].revision = checkpoint[ModeOf(worker[w].run)].revision
           /\ worker'[w].from = PageFrom(worker[w].run)
           /\ worker'[w].next \in
                {0, checkpoint[ModeOf(worker[w].run)].cursor, worker'[w].to}
           /\ UNCHANGED <<conn, run, checkpoint, observed, rejections>>
<1> DEFINE r == worker[w].run
<1>0. worker \in [Worker -> WorkerLocals]
  BY DEF TypeInv, TypeOK
<1>1. PICK to \in 0..MaxRecord, next \in 0..MaxRecord, more \in BOOLEAN :
          /\ PageEnd(r, to, next, more)
          /\ worker' = [worker EXCEPT ![w] =
                        [@ EXCEPT !.phase = "fetched",
                                  !.revision = checkpoint[ModeOf(r)].revision,
                                  !.from = PageFrom(r), !.to = to,
                                  !.next = next, !.more = more,
                                  !.mapping = mapping]]
  BY DEF Fetch
<1>2. next \in {0, checkpoint[ModeOf(r)].cursor, to}
  BY <1>1 DEF PageEnd
<1>3. /\ worker'[w].run = r
      /\ worker'[w].revision = checkpoint[ModeOf(r)].revision
      /\ worker'[w].from = PageFrom(r)
      /\ worker'[w].to = to
      /\ worker'[w].next = next
  BY <1>0, <1>1 DEF WorkerLocals
<1>4. r \in RunId
  BY DEF Fetch, TypeInv, WorkerHasRun
<1>5. UNCHANGED <<conn, run, checkpoint, observed, rejections>>
  BY DEF Fetch
<1> QED BY <1>2, <1>3, <1>4, <1>5

LEMMA FetchedRevisionInductive ==
    /\ Init => FetchedRevision
    /\ LeaseInv /\ FetchedRevision /\ [Next]_vars => FetchedRevision'
<1>1. Init => FetchedRevision
  BY DEF Init, FetchedRevision, IdleWorker
<1>2. ASSUME LeaseInv, FetchedRevision, [Next]_vars,
             NEW w \in Worker, (worker[w].phase = "fetched" /\ Owns(w))'
      PROVE  checkpoint'[ModeOf(worker[w].run)'].revision = worker'[w].revision
  <2> DEFINE r == worker[w].run
  <2>0. TypeInv /\ TypeOK /\ TokensDistinct /\ LeaseOwnsOneRun
    BY <1>2 DEF LeaseInv, TypeInv
  <2>1. CASE Fetch(w)
    <3>1. ModeOf(r)' = ModeOf(r)
      BY <2>0, <2>1, FetchEffect DEF ModeOf, Bounded
    <3> QED BY <2>0, <2>1, <3>1, FetchEffect
  <2>2. CASE ~Fetch(w)
    <3>1. worker'[w] = worker[w]
      BY <1>2, <2>0, <2>2, HeldPage
    <3>2. worker[w].phase = "fetched" /\ r \in RunId
      BY <1>2, <2>0, <3>1 DEF TypeInv, WorkerHasRun
    <3>3. /\ conn'.token = worker[w].token
          /\ run'[r].status = "running"
          /\ run'[r].token = worker[w].token
      BY <1>2, <3>1 DEF Owns
    <3>4. \A v \in Worker : ~Claim(v)
      <4> SUFFICES ASSUME NEW v \in Worker, Claim(v) PROVE FALSE
        OBVIOUS
      <4>1. conn'.token \notin TokensInUse
        BY <2>0, ClaimEffect
      <4> QED BY <3>3, <4>1 DEF TokensInUse
    <3>5. worker[w].token # NoToken
      BY <2>0, <3>2, TokenAssumption DEF TokensDistinct
    <3>6. Owns(w)
      BY <1>2, <2>0, <3>2, <3>3, <3>4, <3>5, LeaseEffect DEF Owns, LeaseOwnsOneRun
    <3>7. ModeOf(r)' = ModeOf(r)
      BY <1>2, <2>0, <3>1, <3>2, <3>6, RunKept DEF Owns, ModeOf, Bounded
    <3>8. \A v \in Worker : ~Persist(v)
      <4> SUFFICES ASSUME NEW v \in Worker, Persist(v) PROVE FALSE
        OBVIOUS
      <4>1. worker[v].phase = "fetched" /\ worker'[v].phase = "persisted"
        BY <2>0 DEF Persist, TypeOK, WorkerLocals
      <4>2. v = w
        BY <2>0, <3>2, <3>6, <4>1 DEF Persist, LeaseAttested, Owns, TokensDistinct
      <4> QED BY <3>1, <4>1, <4>2
    <3>9. /\ ActiveBounded = {} => ModeOf(r) = "incremental"
          /\ ModeOf(r) \in CheckpointMode
      BY <3>2, <3>6 DEF ActiveBounded, Active, Owns, ModeOf, CheckpointMode
    <3>10. checkpoint'[ModeOf(r)] = checkpoint[ModeOf(r)]
      BY <1>2, <2>0, <3>8, <3>9, CheckpointEffect DEF TypeOK
    <3> QED
      BY <1>2, <3>1, <3>2, <3>6, <3>7, <3>10 DEF FetchedRevision
  <2> QED BY <2>1, <2>2
<1> QED BY <1>1, <1>2 DEF FetchedRevision

\* Nobody else moves the checkpoint under a page whose lease is attested, so
\* the compare-and-swap of persist_ingestion_page fails only after the lease.
THEOREM CheckpointStability == Spec => []CheckpointStableUnderLease
<1>1. FetchedRevision => CheckpointStableUnderLease
  BY DEF FetchedRevision, CheckpointStableUnderLease, LeaseAttested
<1> QED BY <1>1, LeaseInvInductive, FetchedRevisionInductive, PTL DEF Spec

\* An unfinished bounded run never loses the pages it has read.
THEOREM BackfillProgress == Spec => BackfillProgressKept
<1> DEFINE Kept == \A r \in RunId : Active(r) /\ Bounded(r) /\ Active(r)' =>
              checkpoint'["backfill"].revision >= checkpoint["backfill"].revision
<1>1. ASSUME TypeInv, [Next]_vars
      PROVE  Kept
  <2>0. checkpoint \in [CheckpointMode -> CheckpointRow]
    BY <1>1 DEF TypeInv, TypeOK
  <2>1. CASE checkpoint' = checkpoint
    BY <2>0, <2>1 DEF CheckpointMode, CheckpointRow
  <2>2. ASSUME NEW w \in Worker, Persist(w),
               checkpoint' = [checkpoint EXCEPT ![ModeOf(worker[w].run)] =
                                AdvancedCheckpoint(w)]
        PROVE  Kept
    <3>1. AdvancedCheckpoint(w).revision
            = checkpoint[ModeOf(worker[w].run)].revision + 1
      BY <2>2 DEF Persist, AdvancedCheckpoint
    <3> QED BY <2>0, <2>2, <3>1 DEF CheckpointMode, CheckpointRow
  <2>3. CASE ActiveBounded = {}
    BY <2>3 DEF ActiveBounded
  <2> QED BY <1>1, <2>1, <2>2, <2>3, CheckpointEffect
<1>2. TypeInv /\ [Next]_vars => [Kept]_vars
  BY <1>1
<1> QED BY <1>2, TypeInvInductive, PTL DEF Spec, BackfillProgressKept

(***************************************************************************)
(* No record is lost behind the incremental checkpoint.                    *)
(***************************************************************************)

\* What a worker holds of an unbounded run starts right behind records that
\* are durable, and its cursor is the end of its page, that start, or none.
FetchedPage ==
    \A w \in Worker : worker[w].phase = "fetched" =>
        /\ worker[w].from >= 1
        /\ run[worker[w].run].status # "absent"
        /\ ~Bounded(worker[w].run) =>
            /\ worker[w].next \in {0, worker[w].from - 1, worker[w].to}
            /\ 1 .. worker[w].from - 1 \subseteq Durable

LossInv == LeaseInv /\ FetchedPage /\ NoLossBehindCheckpoint

\* Durable records stay durable.
LEMMA DurableKept ==
    ASSUME TypeInv, [Next]_vars
    PROVE  Durable \subseteq Durable'
<1>1. CASE UNCHANGED <<observed, rejections>>
  BY <1>1 DEF Durable
<1>2. ASSUME NEW w \in Worker, Persist(w)
      PROVE  Durable \subseteq Durable'
  <2>1. \A x \in Record : observed[x] # 0 => observed'[x] = observed[x]
    <3>1. observed' = [x \in Record |-> IF x \in Inserted(w) THEN worker[w].run
                                                          ELSE observed[x]]
      BY <1>2 DEF Persist
    <3> QED BY <3>1 DEF Inserted
  <2>2. rejections \subseteq rejections'
    <3>1. rejections' = rejections \cup (PageRecords(w) \cap BadRecord)
      BY <1>2, ZenonT(40) DEF Persist
    <3> QED BY <3>1
  <2> QED BY <2>1, <2>2 DEF Durable
<1>3. ASSUME NEW w \in Worker, WorkerStep(w), ~Persist(w)
      PROVE  UNCHANGED <<observed, rejections>>
  BY <1>3 DEF WorkerStep, Claim, Fetch, FindDisabled, MappingConflict,
              RecordFailure, Continue, StartAnalysis, Complete,
              CompleteDisabled, Finish, LeaseLost
<1> QED
  BY <1>1, <1>2, <1>3
     DEF Next, vars, GuardianRenew, Fail, RecordFailure, Crash, Enable,
         ScheduleNow, Disable, Archive, CreateBackfill, RetryRun, RequestRun,
         EditMapping, Produce, BecomeDue, Lapse

\* A page stores or rejects every record it holds.
LEMMA PageDurable ==
    ASSUME TypeInv, FetchedPage, NEW w \in Worker, Persist(w)
    PROVE  worker[w].from .. worker[w].to \subseteq Durable'
<1>1. /\ worker[w].from \in Nat /\ worker[w].from >= 1
      /\ worker[w].to \in 0..MaxRecord
      /\ worker[w].run \in RunId
  BY DEF TypeInv, TypeOK, WorkerLocals, WorkerHasRun, Persist, FetchedPage
<1>2. worker[w].from .. worker[w].to \subseteq Record
  BY <1>1, BoundAssumption DEF Record
<1>3. ASSUME NEW x \in worker[w].from .. worker[w].to
      PROVE  x \in Durable'
  <2>1. CASE x \in BadRecord
    BY <2>1, <1>3 DEF Persist, PageRecords, Durable
  <2>2. CASE x \notin BadRecord
    <3>1. observed'[x] # 0
      BY <1>1, <1>2, <1>3, <2>2
         DEF Persist, PageRecords, Normalized, Inserted, RunId
    <3> QED BY <1>2, <3>1 DEF Durable
  <2> QED BY <2>1, <2>2
<1> QED BY <1>3

LEMMA LossInvInductive ==
    /\ Init => LossInv
    /\ LossInv /\ [Next]_vars => LossInv'
<1>1. ASSUME Init
      PROVE  LossInv
  <2>1. FetchedPage
    BY <1>1 DEF Init, FetchedPage, IdleWorker
  <2>2. NoLossBehindCheckpoint
    BY <1>1 DEF Init, NoLossBehindCheckpoint, NoCheckpoint, CheckpointMode
  <2> QED BY <1>1, <2>1, <2>2, LeaseInvInductive DEF LossInv
<1>2. ASSUME LossInv, [Next]_vars
      PROVE  LossInv'
  <2>0. LeaseInv /\ TypeInv /\ TypeOK /\ FetchedPage /\ NoLossBehindCheckpoint
    BY <1>2 DEF LossInv, LeaseInv, TypeInv
  <2>1. Durable \subseteq Durable'
    BY <1>2, <2>0, DurableKept
  <2>2. ASSUME NEW w \in Worker, worker'[w].phase = "fetched"
        PROVE  /\ worker'[w].from >= 1
               /\ run'[worker'[w].run].status # "absent"
               /\ ~Bounded(worker[w].run)' =>
                    /\ worker'[w].next \in {0, worker'[w].from - 1, worker'[w].to}
                    /\ 1 .. worker'[w].from - 1 \subseteq Durable'
    <3> DEFINE r == worker[w].run
    <3>1. CASE Fetch(w)
      <4>1. /\ worker'[w].run = r /\ r \in RunId
            /\ worker'[w].from = PageFrom(r)
            /\ worker'[w].next \in {0, checkpoint[ModeOf(r)].cursor, worker'[w].to}
            /\ run' = run
        BY <2>0, <3>1, FetchEffect
      <4>2. PageFrom(r) \in Nat \ {0}
        BY <2>0, <4>1, PageFromType
      <4>3. run[r].status = "running"
        BY <3>1 DEF Fetch, LeaseAttested, Owns
      <4>4. ~Bounded(r) => /\ ModeOf(r) = "incremental"
                           /\ PageFrom(r) = checkpoint["incremental"].cursor + 1
        <5>1. checkpoint["incremental"].cursor \in Nat
          BY <2>0, BoundAssumption DEF TypeOK, CheckpointMode, CheckpointRow
        <5> QED BY <5>1 DEF PageFrom, FeedFirst, ModeOf
      <4>5. ~Bounded(r) => 1 .. PageFrom(r) - 1 \subseteq Durable
        <5>1. checkpoint["incremental"].cursor \in Nat
          BY <2>0, BoundAssumption DEF TypeOK, CheckpointMode, CheckpointRow
        <5> QED BY <2>0, <4>4, <5>1 DEF NoLossBehindCheckpoint
      <4>6. Bounded(worker[w].run)' <=> Bounded(r)
        BY <4>1 DEF Bounded
      <4>7. ~Bounded(r) => checkpoint["incremental"].cursor = PageFrom(r) - 1
        <5>1. checkpoint["incremental"].cursor \in Nat
          BY <2>0, BoundAssumption DEF TypeOK, CheckpointMode, CheckpointRow
        <5> QED BY <4>4, <5>1
      <4> QED BY <2>1, <4>1, <4>2, <4>3, <4>4, <4>5, <4>6, <4>7
    <3>2. CASE ~Fetch(w)
      <4>1. worker'[w] = worker[w]
        BY <1>2, <2>0, <2>2, <3>2, HeldPage
      <4>2. /\ r \in RunId /\ run[r].status # "absent"
            /\ worker[w].phase = "fetched"
        BY <2>0, <2>2, <4>1 DEF TypeInv, WorkerHasRun, FetchedPage
      <4>3. run'[r].status # "absent" /\ run'[r].last = run[r].last
        BY <1>2, <2>0, <4>2, RunKept
      <4>4. Bounded(worker[w].run)' <=> Bounded(r)
        BY <4>1, <4>3 DEF Bounded
      <4> QED BY <2>0, <2>1, <4>1, <4>2, <4>3, <4>4 DEF FetchedPage
    <3> QED BY <3>1, <3>2
  <2>3. FetchedPage'
    BY <2>2 DEF FetchedPage
  <2>4. NoLossBehindCheckpoint'
    <3> DEFINE c == checkpoint["incremental"].cursor
    <3>0. checkpoint \in [CheckpointMode -> CheckpointRow]
      BY <2>0 DEF TypeOK
    <3>1. CASE checkpoint'["incremental"].cursor = c
      BY <2>0, <2>1, <3>1 DEF NoLossBehindCheckpoint
    <3>2. ASSUME NEW w \in Worker, Persist(w), ~Bounded(worker[w].run),
                 checkpoint'["incremental"].cursor = worker[w].next
          PROVE  NoLossBehindCheckpoint'
      <4>1. /\ worker[w].next \in {0, worker[w].from - 1, worker[w].to}
            /\ worker[w].from \in Nat /\ worker[w].to \in 0..MaxRecord
            /\ 1 .. worker[w].from - 1 \subseteq Durable'
        BY <2>0, <2>1, <3>2 DEF FetchedPage, Persist, TypeOK, WorkerLocals
      <4>2. worker[w].from .. worker[w].to \subseteq Durable'
        BY <2>0, <3>2, PageDurable
      <4>3. 1 .. worker[w].next \subseteq
                (1 .. worker[w].from - 1) \cup (worker[w].from .. worker[w].to)
        BY <4>1, BoundAssumption
      <4> QED BY <3>2, <4>1, <4>2, <4>3 DEF NoLossBehindCheckpoint
    <3>3. ASSUME NEW w \in Worker, Persist(w),
                 checkpoint' = [checkpoint EXCEPT ![ModeOf(worker[w].run)] =
                                    AdvancedCheckpoint(w)]
          PROVE  NoLossBehindCheckpoint'
      <4>1. CASE Bounded(worker[w].run)
        BY <3>0, <3>1, <3>3, <4>1 DEF ModeOf, CheckpointMode
      <4>2. CASE ~Bounded(worker[w].run)
        <5>1. checkpoint'["incremental"].cursor = worker[w].next
          BY <3>0, <3>3, <4>2 DEF ModeOf, CheckpointMode, AdvancedCheckpoint
        <5> QED BY <3>2, <3>3, <4>2, <5>1
      <4> QED BY <4>1, <4>2
    <3>4. CASE checkpoint' = [checkpoint EXCEPT !["backfill"] = NoCheckpoint]
      BY <3>0, <3>1, <3>4 DEF CheckpointMode
    <3> QED BY <1>2, <2>0, <3>1, <3>3, <3>4, CheckpointEffect
  <2> QED BY <1>2, <2>0, <2>3, <2>4, LeaseInvInductive DEF LossInv
<1> QED BY <1>1, <1>2

\* "Checkpoints advance only with durable page writes": nothing behind the
\* incremental cursor is ever missing.
THEOREM NoLoss == Spec => []NoLossBehindCheckpoint
<1>1. LossInv => NoLossBehindCheckpoint
  BY DEF LossInv
<1> QED BY <1>1, LossInvInductive, PTL DEF Spec

(***************************************************************************)
(* What a step does to the runs, by kind: it leaves them and the data as   *)
(* they are, claims one, counts a page into one, gives one back or         *)
(* finishes it, or inserts a requested one.                                *)
(***************************************************************************)

\* The owner of a running run gives it back or finishes it: as succeeded only
\* after its analysis, and only if nothing was rejected.
Releases(w, status) ==
    /\ worker[w].phase # "idle" /\ worker[w].run \in RunId /\ Owns(w)
    /\ run' = [run EXCEPT ![worker[w].run] = ReleasedRun(worker[w].run, status)]
    /\ status = "succeeded" => /\ worker[w].phase = "analyzing"
                               /\ ~run[worker[w].run].rejected
    /\ UNCHANGED <<checkpoint, observed, rejections>>

\* An operator's request inserts a run: a bounded one only while no other is
\* unfinished, over a range an operator gave, now or for the run it repeats.
Requests(r, mode, first, last, source) ==
    /\ IsNewRun(r)
    /\ run' = [run EXCEPT ![r] =
                [AbsentRun EXCEPT !.status = "pending", !.mode = mode,
                    !.first = first, !.last = last, !.source = source]]
    /\ last # 0 =>
        /\ ActiveBounded = {}
        /\ first \in Record \/ \E s \in RunId : Bounded(s) /\ first = run[s].first
        /\ checkpoint' = [checkpoint EXCEPT !["backfill"] = NoCheckpoint]
    /\ last = 0 => checkpoint' = checkpoint
    /\ UNCHANGED <<observed, rejections>>

Requested ==
    \E r \in RunId, mode \in RunMode, first, last \in 0..MaxRecord,
       source \in 0..MaxRuns : Requests(r, mode, first, last, source)

LEMMA RequestedByOperator ==
    ASSUME TypeOK, NEW mode \in RunMode, NEW first \in 0..MaxRecord,
           NEW last \in 0..MaxRecord, NEW source \in 0..MaxRuns,
           RequestRun(mode, first, last, source),
           last # 0 =>
              /\ ActiveBounded = {}
              /\ first \in Record
                 \/ \E s \in RunId : Bounded(s) /\ first = run[s].first
    PROVE  Requested
<1>1. PICK r \in RunId :
        /\ IsNewRun(r)
        /\ run' = [run EXCEPT ![r] =
                    [AbsentRun EXCEPT !.status = "pending", !.mode = mode,
                        !.first = first, !.last = last, !.source = source]]
  BY DEF RequestRun
<1>2. Requests(r, mode, first, last, source)
  BY <1>1 DEF Requests, RequestRun
<1> QED BY <1>2 DEF Requested

LEMMA StepCases ==
    ASSUME TypeInv, [Next]_vars
    PROVE  \/ UNCHANGED <<run, checkpoint, observed, rejections>>
           \/ \E w \in Worker : Claim(w)
           \/ \E w \in Worker : Persist(w)
           \/ \E w \in Worker,
                 status \in {"pending", "succeeded", "partial", "failed"} :
                    Releases(w, status)
           \/ Requested
<1> DEFINE Quiet == UNCHANGED <<run, checkpoint, observed, rejections>>
           Released1 == \E w \in Worker,
                           status \in {"pending", "succeeded", "partial", "failed"} :
                              Releases(w, status)
<1>0. TypeOK /\ \A w \in Worker : worker[w].phase # "idle" => worker[w].run \in RunId
  BY DEF TypeInv, WorkerHasRun
<1>1. ASSUME NEW w \in Worker, worker[w].phase # "idle",
             NEW retryable \in BOOLEAN, RecordFailure(w, retryable)
      PROVE  Released1
  <2>1. PICK status \in {"pending", "failed"} :
            run' = [run EXCEPT ![worker[w].run] = ReleasedRun(worker[w].run, status)]
    BY <1>1 DEF RecordFailure
  <2>2. Releases(w, status)
    BY <1>0, <1>1, <2>1 DEF Releases, RecordFailure
  <2> QED BY <2>2
<1>2. ASSUME NEW w \in Worker, WorkerStep(w)
      PROVE  Quiet \/ Claim(w) \/ Persist(w) \/ Released1
  <2>1. CASE MappingConflict(w)
    BY <1>1, <2>1 DEF MappingConflict
  <2>2. CASE Continue(w)
    <3>1. Releases(w, "pending")
      BY <1>0, <2>2 DEF Releases, Continue
    <3> QED BY <3>1
  <2>3. CASE Complete(w)
    <3>1. Releases(w, FinishedStatus(worker[w].run))
      BY <1>0, <2>3 DEF Releases, Complete, Finish, FinishedStatus
    <3> QED BY <3>1 DEF FinishedStatus
  <2>4. CASE CompleteDisabled(w)
    <3>1. Releases(w, "partial")
      BY <1>0, <2>4 DEF Releases, CompleteDisabled, Finish
    <3> QED BY <3>1
  <2>5. CASE Fetch(w) \/ FindDisabled(w) \/ StartAnalysis(w) \/ LeaseLost(w)
    BY <2>5 DEF Fetch, FindDisabled, StartAnalysis, LeaseLost
  <2> QED BY <1>2, <2>1, <2>2, <2>3, <2>4, <2>5 DEF WorkerStep
<1>3. ASSUME NEW w \in Worker, NEW retryable \in BOOLEAN, Fail(w, retryable)
      PROVE  Released1
  BY <1>1, <1>3 DEF Fail
<1>4. ASSUME NEW range \in Ranges, CreateBackfill(range[1], range[2])
      PROVE  Requested
  <2>1. /\ range[1] \in 0..MaxRecord /\ range[1] \in Record
        /\ range[2] \in 0..MaxRecord
    BY RecordAssumption DEF Record
  <2>2. "backfill" \in RunMode /\ 0 \in 0..MaxRuns
    BY BoundAssumption DEF RunMode
  <2> QED BY <1>0, <1>4, <2>1, <2>2, RequestedByOperator DEF CreateBackfill
<1>5. ASSUME NEW source \in RunId, RetryRun(source)
      PROVE  Requested
  <2>1. /\ run[source].first \in 0..MaxRecord
        /\ run[source].last \in 0..MaxRecord
        /\ source \in 0..MaxRuns
    BY <1>0 DEF TypeOK, RunRow, RunId
  <2>2. run[source].last # 0 =>
          /\ ActiveBounded = {}
          /\ \E s \in RunId : Bounded(s) /\ run[source].first = run[s].first
    BY <1>5 DEF RetryRun, Bounded
  <2> QED BY <1>0, <1>5, <2>1, <2>2, RequestedByOperator DEF RetryRun, RunMode
<1> QED
  BY <1>2, <1>3, <1>4, <1>5
     DEF Next, vars, GuardianRenew, Crash, Enable, ScheduleNow, Disable,
         Archive, EditMapping, Produce, BecomeDue, Lapse

\* What the claim of a run does to the row of each run.
LEMMA ClaimedRows ==
    ASSUME TypeOK, NEW w \in Worker, Claim(w)
    PROVE  /\ UNCHANGED <<checkpoint, observed, rejections>>
           /\ \E r \in RunId, token \in Token :
                /\ RunToWork(r)
                /\ run' = [run EXCEPT ![r] = ActivatedRun(r, token)]
                /\ run'[r].status = "running"
                /\ \A q \in RunId \ {r} : run'[q] = run[q]
           /\ \A q \in RunId :
                /\ run'[q].first = run[q].first
                /\ run'[q].last = run[q].last
                /\ run'[q].accepted = run[q].accepted
                /\ run'[q].rejected = run[q].rejected
<1>1. UNCHANGED <<checkpoint, observed, rejections>>
  BY DEF Claim
<1>2. PICK r \in RunId, token \in Token :
        /\ RunToWork(r)
        /\ run' = [run EXCEPT ![r] = ActivatedRun(r, token)]
  BY ClaimEffect
<1>3. /\ run'[r].status = "running"
      /\ \A q \in RunId \ {r} : run'[q] = run[q]
      /\ run'[r].first = run[r].first
      /\ run'[r].last = run[r].last
      /\ run'[r].accepted = run[r].accepted
      /\ run'[r].rejected = run[r].rejected
  BY <1>2 DEF TypeOK, ActivatedRun, RunRow
<1> QED BY <1>1, <1>2, <1>3

\* ... and what giving a run back does.
LEMMA ReleasedRows ==
    ASSUME TypeOK, NEW w \in Worker, NEW status \in RunStatus, Releases(w, status)
    PROVE  /\ run'[worker[w].run].status = status
           /\ \A q \in RunId \ {worker[w].run} : run'[q] = run[q]
           /\ \A q \in RunId :
                /\ run'[q].first = run[q].first
                /\ run'[q].last = run[q].last
                /\ run'[q].accepted = run[q].accepted
                /\ run'[q].rejected = run[q].rejected
BY DEF Releases, TypeOK, ReleasedRun, RunRow

\* ... and what a page does: it counts its records into its own run.
LEMMA PersistedRows ==
    ASSUME TypeInv, NEW w \in Worker, Persist(w)
    PROVE  /\ worker[w].run \in RunId
           /\ run[worker[w].run].status = "running"
           /\ run'[worker[w].run].accepted
                = run[worker[w].run].accepted + Cardinality(Inserted(w))
           /\ run'[worker[w].run].rejected
                = (run[worker[w].run].rejected \/ PageRecords(w) \cap BadRecord # {})
           /\ \A q \in RunId \ {worker[w].run} : run'[q] = run[q]
           /\ \A q \in RunId :
                /\ run'[q].status = run[q].status
                /\ run'[q].first = run[q].first
                /\ run'[q].last = run[q].last
<1> DEFINE r == worker[w].run
<1>0. TypeOK /\ r \in RunId /\ run \in [RunId -> RunRow]
  BY DEF TypeInv, TypeOK, WorkerHasRun, Persist
<1>1. run' = [run EXCEPT ![r] = CountedRun(w)]
  BY DEF Persist
<1>2. /\ CountedRun(w).accepted = run[r].accepted + Cardinality(Inserted(w))
      /\ CountedRun(w).rejected
            = (run[r].rejected \/ PageRecords(w) \cap BadRecord # {})
  <2>1. PICK row \in RunRow : row = run[r]
    BY <1>0
  <2>2. CountedRun(w) =
          [row EXCEPT !.accepted = row.accepted + Cardinality(Inserted(w)),
                      !.rejected = row.rejected \/ PageRecords(w) \cap BadRecord # {}]
    BY <2>1, Zenon DEF CountedRun
  <2> QED BY <2>1, <2>2 DEF RunRow
<1>3. run[r].status = "running"
  BY DEF Persist, LeaseAttested, Owns
<1> QED BY <1>0, <1>1, <1>2, <1>3, CountedRunType

(***************************************************************************)
(* The counters of a run.                                                  *)
(***************************************************************************)

\* A row that is not inserted yet has nothing in it, and a busy worker works
\* on one that is.
AbsentRuns == \A r \in RunId : run[r].status = "absent" => run[r] = AbsentRun

BusyRunExists ==
    \A w \in Worker : worker[w].phase # "idle" =>
        run[worker[w].run].status # "absent"

RowInv == LossInv /\ AbsentRuns /\ BusyRunExists

LEMMA RowInvInductive ==
    /\ Init => RowInv
    /\ RowInv /\ [Next]_vars => RowInv'
<1>1. ASSUME Init
      PROVE  RowInv
  BY <1>1, LossInvInductive DEF Init, RowInv, AbsentRuns, BusyRunExists, IdleWorker
<1>2. ASSUME RowInv, [Next]_vars
      PROVE  RowInv'
  <2>0. TypeInv /\ TypeOK /\ WorkerHasRun /\ run \in [RunId -> RunRow]
    BY <1>2 DEF RowInv, LossInv, LeaseInv, TypeInv, TypeOK
  <2>1. AbsentRuns'
    <3>1. CASE run' = run
      BY <1>2, <3>1 DEF RowInv, AbsentRuns
    <3>2. ASSUME NEW w \in Worker, Claim(w)
          PROVE  AbsentRuns'
      BY <1>2, <2>0, <3>2, ClaimedRows DEF RowInv, AbsentRuns
    <3>3. ASSUME NEW w \in Worker, Persist(w)
          PROVE  AbsentRuns'
      BY <1>2, <2>0, <3>3, PersistedRows DEF RowInv, AbsentRuns
    <3>4. ASSUME NEW w \in Worker,
                 NEW status \in {"pending", "succeeded", "partial", "failed"},
                 Releases(w, status)
          PROVE  AbsentRuns'
      <4>1. status \in RunStatus
        BY DEF RunStatus
      <4> QED BY <1>2, <2>0, <3>4, <4>1, ReleasedRows DEF RowInv, AbsentRuns
    <3>5. CASE Requested
      <4>1. PICK r \in RunId : /\ run'[r].status = "pending"
                               /\ \A q \in RunId \ {r} : run'[q] = run[q]
        BY <2>0, <3>5 DEF Requested, Requests, AbsentRun
      <4> QED BY <1>2, <4>1 DEF RowInv, AbsentRuns
    <3> QED BY <1>2, <2>0, <3>1, <3>2, <3>3, <3>4, <3>5, StepCases
  <2>2. ASSUME NEW w \in Worker, worker'[w].phase # "idle"
        PROVE  run'[worker'[w].run].status # "absent"
    <3>1. CASE Claim(w)
      <4>1. /\ worker'[w].run \in RunId
            /\ run' = [run EXCEPT ![worker'[w].run] =
                        ActivatedRun(worker'[w].run, worker'[w].token)]
        BY <2>0, <3>1, ClaimEffect
      <4> QED BY <2>0, <4>1 DEF ActivatedRun, RunRow
    <3>2. CASE ~Claim(w)
      <4>1. worker[w].phase # "idle" /\ worker'[w].run = worker[w].run
        BY <1>2, <2>0, <2>2, <3>2, HeldLocals
      <4> QED
        BY <1>2, <2>0, <4>1, RunKept DEF RowInv, BusyRunExists, WorkerHasRun
    <3> QED BY <3>1, <3>2
  <2>3. BusyRunExists'
    BY <2>2 DEF BusyRunExists
  <2> QED BY <1>2, <2>1, <2>3, LossInvInductive DEF RowInv
<1> QED BY <1>1, <1>2

\* The records whose row names a run.
StoredBy(r) == {x \in Record : observed[x] = r}

LEMMA StoredByFinite ==
    \A r \in RunId : IsFiniteSet(StoredBy(r)) /\ Cardinality(StoredBy(r)) \in Nat
<1>1. IsFiniteSet(Record)
  BY BoundAssumption, FS_Interval DEF Record
<1>2. \A r \in RunId : StoredBy(r) \subseteq Record
  BY DEF StoredBy
<1> QED BY <1>1, <1>2, FS_Subset, FS_CardinalityType

LEMMA AccountingInductive ==
    /\ Init => AccountingExact
    /\ RowInv /\ AccountingExact /\ [Next]_vars => AccountingExact'
<1>1. ASSUME Init
      PROVE  AccountingExact
  <2>1. ASSUME NEW r \in RunId
        PROVE  {x \in Record : observed[x] = r} = {}
    BY <1>1 DEF Init, RunId
  <2>2. \A r \in RunId : run[r].accepted = 0
    BY <1>1 DEF Init, AbsentRun
  <2> QED BY <2>1, <2>2, FS_EmptySet DEF AccountingExact
<1>2. ASSUME RowInv, AccountingExact, [Next]_vars
      PROVE  AccountingExact'
  <2>0. TypeInv /\ TypeOK /\ AbsentRuns /\ run \in [RunId -> RunRow]
    BY <1>2 DEF RowInv, LossInv, LeaseInv, TypeInv, TypeOK
  <2>1. ASSUME UNCHANGED observed, \A r \in RunId : run'[r].accepted = run[r].accepted
        PROVE  AccountingExact'
    BY <1>2, <2>1 DEF AccountingExact
  <2>2. CASE UNCHANGED <<run, checkpoint, observed, rejections>>
    BY <2>1, <2>2
  <2>3. ASSUME NEW w \in Worker, Claim(w)
        PROVE  AccountingExact'
    BY <2>0, <2>1, <2>3, ClaimedRows
  <2>4. ASSUME NEW w \in Worker, Persist(w)
        PROVE  AccountingExact'
    <3> DEFINE r == worker[w].run
    <3>1. /\ r \in RunId
          /\ run'[r].accepted = run[r].accepted + Cardinality(Inserted(w))
          /\ \A q \in RunId \ {r} : run'[q] = run[q]
      BY <2>0, <2>4, PersistedRows
    <3>2. observed' = [x \in Record |-> IF x \in Inserted(w) THEN r ELSE observed[x]]
      BY <2>4 DEF Persist
    <3>3. /\ \A x \in Inserted(w) : observed[x] = 0
          /\ 0 \notin RunId
      BY DEF Inserted, RunId
    <3>4. ASSUME NEW q \in RunId \ {r}
          PROVE  run'[q].accepted = Cardinality({x \in Record : observed'[x] = q})
      <4>1. {x \in Record : observed'[x] = q} = {x \in Record : observed[x] = q}
        BY <3>2, <3>3
      <4> QED BY <1>2, <3>1, <4>1 DEF AccountingExact
    <3>5. run'[r].accepted = Cardinality({x \in Record : observed'[x] = r})
      <4>1. Inserted(w) \subseteq Record
        <5>1. worker[w].from \in Nat /\ worker[w].to \in 0..MaxRecord
          BY <2>0 DEF TypeOK, WorkerLocals
        <5>2. worker[w].from >= 1
          BY <1>2, <2>4 DEF Persist, RowInv, LossInv, FetchedPage
        <5> QED BY <5>1, <5>2, BoundAssumption
                DEF Inserted, Normalized, PageRecords, Record
      <4>2. {x \in Record : observed'[x] = r} = StoredBy(r) \cup Inserted(w)
        BY <3>2, <4>1 DEF StoredBy
      <4>3. StoredBy(r) \cap Inserted(w) = {}
        BY <3>1, <3>3 DEF StoredBy
      <4>4. IsFiniteSet(Inserted(w)) /\ Cardinality(Inserted(w)) \in Nat
        <5>1. IsFiniteSet(Record)
          BY BoundAssumption, FS_Interval DEF Record
        <5> QED BY <4>1, <5>1, FS_Subset, FS_CardinalityType
      <4>5. Cardinality(StoredBy(r) \cup Inserted(w))
              = Cardinality(StoredBy(r)) + Cardinality(Inserted(w))
        <5>1. Cardinality(StoredBy(r) \cap Inserted(w)) = 0
          BY <4>3, FS_EmptySet
        <5>2. Cardinality(StoredBy(r) \cup Inserted(w))
                = Cardinality(StoredBy(r)) + Cardinality(Inserted(w))
                    - Cardinality(StoredBy(r) \cap Inserted(w))
          BY <3>1, <4>4, StoredByFinite, FS_Union
        <5>3. Cardinality(StoredBy(r)) \in Nat
          BY <3>1, StoredByFinite
        <5> QED BY <4>4, <5>1, <5>2, <5>3
      <4>6. run[r].accepted = Cardinality(StoredBy(r))
        BY <1>2, <3>1 DEF AccountingExact, StoredBy
      <4> QED BY <3>1, <4>2, <4>5, <4>6
    <3> QED BY <3>4, <3>5 DEF AccountingExact
  <2>5. ASSUME NEW w \in Worker,
               NEW status \in {"pending", "succeeded", "partial", "failed"},
               Releases(w, status)
        PROVE  AccountingExact'
    <3>1. status \in RunStatus /\ UNCHANGED observed
      BY <2>5 DEF RunStatus, Releases
    <3> QED BY <2>0, <2>1, <2>5, <3>1, ReleasedRows
  <2>6. CASE Requested
    <3>1. UNCHANGED observed
      BY <2>6 DEF Requested, Requests
    <3>2. PICK r \in RunId : /\ run[r].status = "absent"
                             /\ run'[r].accepted = 0
                             /\ \A q \in RunId \ {r} : run'[q] = run[q]
      BY <2>0, <2>6 DEF Requested, Requests, IsNewRun, AbsentRun
    <3>3. run[r].accepted = 0
      BY <2>0, <3>2 DEF AbsentRuns, AbsentRun
    <3> QED BY <2>1, <3>1, <3>2, <3>3
  <2> QED BY <1>2, <2>0, <2>2, <2>3, <2>4, <2>5, <2>6, StepCases
<1> QED BY <1>1, <1>2

\* AccountingExact: the counter of a run is the number of rows that name it,
\* through every reread page, reclaim and late write.
THEOREM Accounting == Spec => []AccountingExact
BY RowInvInductive, AccountingInductive, PTL DEF Spec

(***************************************************************************)
(* Bounded runs: what a backfill that reports success has stored.          *)
(***************************************************************************)

\* Every record of a range has a row, and not only a rejection.
StoredRange(first, last) ==
    \A x \in Record : first <= x /\ x <= last => observed[x] # 0

\* A bounded run that has met no rejection yet.
Clean(r) == Bounded(r) /\ ~run[r].rejected

\* Ranges are ranges of records (create_backfill_run validates them).
RangesStart == \A r \in RunId : Bounded(r) => run[r].first >= 1

\* ux_telemetry_active_backfill_connection holds: one bounded run at a time.
OneBounded == \A r, q \in ActiveBounded : r = q

\* The one cursor of the backfill checkpoint is about the unfinished bounded
\* run: up to there its range is stored, unless it has met a rejection.
RangeRead ==
    \A r \in RunId : Active(r) /\ Clean(r) =>
        StoredRange(run[r].first, checkpoint["backfill"].cursor)

\* A page of a bounded run starts where its range is stored, its cursor is its
\* end or lies before it, and the last one ends where the range ends.  All of
\* it outlives the lease of the worker that holds the page.
FetchedRange ==
    \A w \in Worker : worker[w].phase = "fetched" /\ Bounded(worker[w].run) =>
        /\ worker[w].next < worker[w].from \/ worker[w].next = worker[w].to
        /\ ~worker[w].more => worker[w].to = run[worker[w].run].last
        /\ Clean(worker[w].run) =>
            StoredRange(run[worker[w].run].first, worker[w].from - 1)

\* Behind the last page the whole range is stored, again unless one of its
\* records was rejected; only the last page is analysed.
LastPageStored ==
    \A w \in Worker :
        /\ worker[w].phase = "analyzing" => ~worker[w].more
        /\ worker[w].phase \in {"persisted", "analyzing"} /\ ~worker[w].more =>
            (Clean(worker[w].run) =>
                StoredRange(run[worker[w].run].first, run[worker[w].run].last))

RangeInv ==
    /\ RowInv
    /\ RangesStart /\ OneBounded /\ RangeRead
    /\ FetchedRange /\ LastPageStored
    /\ SucceededRangeStored

\* What is stored stays stored, and a rejection is not forgotten.
LEMMA StoredKept ==
    ASSUME RowInv, [Next]_vars
    PROVE  /\ \A x \in Record : observed[x] # 0 => observed'[x] # 0
           /\ \A r \in RunId : run[r].status # "absent" =>
                (run[r].rejected => run'[r].rejected)
<1> DEFINE Kept == /\ \A x \in Record : observed[x] # 0 => observed'[x] # 0
                   /\ \A r \in RunId : run[r].status # "absent" =>
                        (run[r].rejected => run'[r].rejected)
<1>0. TypeInv /\ TypeOK
  BY DEF RowInv, LossInv, LeaseInv, TypeInv
<1>1. CASE UNCHANGED <<run, checkpoint, observed, rejections>>
  BY <1>1
<1>2. ASSUME NEW w \in Worker, Claim(w)
      PROVE  Kept
  BY <1>0, <1>2, ClaimedRows
<1>3. ASSUME NEW w \in Worker, Persist(w)
      PROVE  Kept
  <2>1. \A x \in Record : observed[x] # 0 => observed'[x] # 0
    BY <1>3 DEF Persist, Inserted
  <2>2. \A r \in RunId : run[r].rejected => run'[r].rejected
    BY <1>0, <1>3, PersistedRows
  <2> QED BY <2>1, <2>2
<1>4. ASSUME NEW w \in Worker,
             NEW status \in {"pending", "succeeded", "partial", "failed"},
             Releases(w, status)
      PROVE  Kept
  <2>1. status \in RunStatus /\ observed' = observed
    BY <1>4 DEF RunStatus, Releases
  <2> QED BY <1>0, <1>4, <2>1, ReleasedRows
<1>5. CASE Requested
  <2>1. observed' = observed
    BY <1>5 DEF Requested, Requests
  <2>2. PICK r \in RunId : /\ run[r].status = "absent"
                           /\ \A q \in RunId \ {r} : run'[q] = run[q]
    BY <1>0, <1>5 DEF Requested, Requests, IsNewRun, TypeOK
  <2> QED BY <2>1, <2>2
<1> QED BY <1>0, <1>1, <1>2, <1>3, <1>4, <1>5, StepCases

\* So a range that is stored for a run stays stored for it.
LEMMA CleanKept ==
    ASSUME RowInv, [Next]_vars, NEW r \in RunId, run[r].status # "absent"
    PROVE  /\ run'[r].first = run[r].first /\ run'[r].last = run[r].last
           /\ Clean(r)' => Clean(r)
           /\ Bounded(r)' <=> Bounded(r)
           /\ \A first, last : StoredRange(first, last) => StoredRange(first, last)'
<1>1. TypeInv
  BY DEF RowInv, LossInv, LeaseInv
<1>2. run'[r].first = run[r].first /\ run'[r].last = run[r].last
  BY <1>1, RunKept
<1>3. run[r].rejected => run'[r].rejected
  BY StoredKept
<1>4. Bounded(r)' <=> Bounded(r)
  BY <1>2 DEF Bounded
<1>5. Clean(r)' => Clean(r)
  BY <1>3, <1>4 DEF Clean
<1>6. \A first, last : StoredRange(first, last) => StoredRange(first, last)'
  BY StoredKept DEF StoredRange
<1> QED BY <1>2, <1>4, <1>5, <1>6

\* A page leaves the records it covers stored, or its run with a rejection.
LEMMA PageStored ==
    ASSUME RowInv, FetchedRange, NEW w \in Worker, Persist(w),
           NEW r \in RunId, r = worker[w].run, Bounded(r), ~run'[r].rejected
    PROVE  \A x \in Record :
                run[r].first <= x /\ x <= worker[w].to => observed'[x] # 0
<1>0. /\ TypeInv /\ TypeOK /\ FetchedPage
      /\ worker[w].from \in Nat /\ worker[w].to \in 0..MaxRecord
  <2>1. TypeInv /\ TypeOK /\ WorkerHasRun /\ FetchedPage
    BY DEF RowInv, LossInv, LeaseInv, TypeInv
  <2>2. worker[w] \in WorkerLocals /\ worker[w].phase = "fetched"
    BY <2>1 DEF TypeOK, Persist
  <2> QED BY <2>1, <2>2 DEF WorkerLocals
<1>2. Clean(r) /\ PageRecords(w) \cap BadRecord = {}
  BY <1>0, PersistedRows DEF Clean
<1>3. StoredRange(run[r].first, worker[w].from - 1)
  BY <1>2 DEF FetchedRange, Persist
<1>4. run[r].first \in Nat
  BY <1>0, BoundAssumption DEF TypeOK, RunRow
<1>5. /\ observed' = [x \in Record |-> IF x \in Inserted(w) THEN r ELSE observed[x]]
      /\ r # 0
  BY <1>0 DEF Persist, RunId
<1>6. ASSUME NEW x \in Record, run[r].first <= x, x <= worker[w].to
      PROVE  observed'[x] # 0
  <2>1. x \in Nat
    BY DEF Record
  <2>2. CASE x <= worker[w].from - 1
    <3>1. observed[x] # 0
      BY <1>3, <1>6, <2>2 DEF StoredRange
    <3> QED BY <1>5, <3>1
  <2>3. CASE x >= worker[w].from
    <3>1. x \in PageRecords(w) \ BadRecord
      BY <1>0, <1>2, <1>6, <2>1, <2>3 DEF PageRecords
    <3>2. x \in Inserted(w) \/ observed[x] # 0
      BY <3>1 DEF Inserted, Normalized
    <3> QED BY <1>5, <3>2
  <2> QED BY <1>0, <2>1, <2>2, <2>3
<1> QED BY <1>6

\* The last page of a run ends where its feed ends.
LEMMA FetchedEnd ==
    ASSUME TypeOK, NEW w \in Worker, Fetch(w), ~worker'[w].more
    PROVE  worker'[w].to = FeedLast(worker[w].run)
<1>1. PICK to \in 0..MaxRecord, next \in 0..MaxRecord, more \in BOOLEAN :
          /\ PageEnd(worker[w].run, to, next, more)
          /\ worker' = [worker EXCEPT ![w] =
                [@ EXCEPT !.phase = "fetched",
                          !.revision = checkpoint[ModeOf(worker[w].run)].revision,
                          !.from = PageFrom(worker[w].run), !.to = to,
                          !.next = next, !.more = more,
                          !.mapping = mapping]]
  BY DEF Fetch
<1>2. worker'[w].to = to /\ worker'[w].more = more
  BY <1>1 DEF TypeOK, WorkerLocals
<1> QED BY <1>1, <1>2 DEF PageEnd

\* A worker past its page holds what it held with the page.
LEMMA PastPage ==
    ASSUME TypeInv, [Next]_vars,
           NEW w \in Worker, worker'[w].phase \in {"persisted", "analyzing"}
    PROVE  /\ worker'[w].run = worker[w].run /\ worker'[w].more = worker[w].more
           /\ \/ Persist(w) /\ worker'[w].phase = "persisted"
              \/ worker[w].phase = "persisted" /\ ~worker[w].more
              \/ worker[w].phase = worker'[w].phase
<1> DEFINE Held == /\ worker'[w].run = worker[w].run
                   /\ worker'[w].more = worker[w].more
                   /\ \/ Persist(w) /\ worker'[w].phase = "persisted"
                      \/ worker[w].phase = "persisted" /\ ~worker[w].more
                      \/ worker[w].phase = worker'[w].phase
<1>0. worker \in [Worker -> WorkerLocals]
  BY DEF TypeInv, TypeOK
<1>1. CASE worker'[w] = worker[w]
  BY <1>1
<1>2. ASSUME NEW v \in Worker, WorkerDone(v)
      PROVE  Held
  BY <1>1, <1>2, DoneIsIdle DEF TypeInv
<1>3. ASSUME NEW v \in Worker, WorkerStep(v)
      PROVE  Held
  <2>1. CASE Claim(v)
    BY <1>1, <2>1, ClaimEffect DEF TypeInv
  <2>2. CASE Fetch(v)
    <3>1. PICK locals : worker' = [worker EXCEPT ![v] = locals]
      BY <2>2 DEF Fetch
    <3>2. worker'[v].phase = "fetched"
      BY <1>0, <2>2 DEF Fetch, WorkerLocals
    <3> QED BY <1>0, <1>1, <3>1, <3>2
  <2>3. CASE FindDisabled(v)
    BY <1>0, <1>1, <2>3 DEF FindDisabled, WorkerLocals
  <2>4. CASE Persist(v)
    BY <1>0, <1>1, <2>4 DEF Persist, WorkerLocals
  <2>5. CASE StartAnalysis(v)
    BY <1>0, <1>1, <2>5 DEF StartAnalysis, WorkerLocals
  <2>6. CASE MappingConflict(v) \/ Continue(v) \/ Complete(v)
             \/ CompleteDisabled(v) \/ LeaseLost(v)
    BY <1>2, <2>6 DEF MappingConflict, RecordFailure, Continue, Complete,
                      CompleteDisabled, Finish, LeaseLost
  <2> QED BY <1>3, <2>1, <2>2, <2>3, <2>4, <2>5, <2>6 DEF WorkerStep
<1>4. ASSUME NEW v \in Worker, NEW retryable \in BOOLEAN, Fail(v, retryable)
      PROVE  Held
  BY <1>2, <1>4 DEF Fail, RecordFailure
<1>5. ASSUME NEW v \in Worker, Crash(v)
      PROVE  Held
  BY <1>2, <1>5 DEF Crash
<1> QED
  BY <1>1, <1>3, <1>4, <1>5
     DEF Next, vars, GuardianRenew, Enable, ScheduleNow, Disable, Archive,
         CreateBackfill, RetryRun, RequestRun, EditMapping, Produce,
         BecomeDue, Lapse

LEMMA RangesStartKept ==
    RowInv /\ RangesStart /\ [Next]_vars => RangesStart'
<1> SUFFICES ASSUME RowInv, RangesStart, [Next]_vars,
                    NEW r \in RunId, Bounded(r)'
             PROVE  run'[r].first >= 1
  BY DEF RangesStart
<1>0. TypeInv /\ TypeOK /\ AbsentRuns
  BY DEF RowInv, LossInv, LeaseInv, TypeInv
<1>1. CASE run[r].status # "absent"
  BY <1>1, CleanKept DEF RangesStart
<1>2. CASE run'[r].first = run[r].first /\ run'[r].last = run[r].last
  BY <1>2 DEF RangesStart, Bounded
<1>3. CASE Requested
  <2>1. PICK q \in RunId, mode \in RunMode, first \in 0..MaxRecord,
             last \in 0..MaxRecord, source \in 0..MaxRuns :
          Requests(q, mode, first, last, source)
    BY <1>3 DEF Requested
  <2>2. CASE q = r
    <3>1. run'[r].first = first /\ run'[r].last = last
      BY <1>0, <2>1, <2>2 DEF Requests, TypeOK, AbsentRun
    <3>2. first \in Record \/ \E s \in RunId : Bounded(s) /\ first = run[s].first
      BY <2>1, <3>1 DEF Requests, Bounded
    <3> QED BY <3>1, <3>2 DEF RangesStart, Record
  <2>3. CASE q # r
    BY <1>0, <1>2, <2>1, <2>3 DEF Requests, TypeOK
  <2> QED BY <2>2, <2>3
<1>4. ASSUME NEW w \in Worker,
             NEW status \in {"pending", "succeeded", "partial", "failed"},
             Releases(w, status)
      PROVE  run'[r].first >= 1
  <2>1. status \in RunStatus
    BY DEF RunStatus
  <2> QED BY <1>0, <1>2, <1>4, <2>1, ReleasedRows
<1> QED BY <1>0, <1>2, <1>3, <1>4, ClaimedRows, PersistedRows, StepCases

\* A run that a step makes active is a claimed row without a range, or a
\* requested one.
LEMMA NewlyActive ==
    ASSUME RowInv, [Next]_vars, NEW r \in RunId, Active(r)', Bounded(r)', ~Active(r)
    PROVE  /\ ActiveBounded = {}
           /\ checkpoint' = [checkpoint EXCEPT !["backfill"] = NoCheckpoint]
           /\ observed' = observed
           /\ \A q \in RunId \ {r} : run'[q] = run[q]
<1>0. TypeInv /\ TypeOK /\ AbsentRuns
  BY DEF RowInv, LossInv, LeaseInv, TypeInv
<1>1. CASE UNCHANGED <<run, checkpoint, observed, rejections>>
  BY <1>1 DEF Active
<1>2. ASSUME NEW w \in Worker, Claim(w)
      PROVE  FALSE
  <2>1. PICK q \in RunId : /\ RunToWork(q)
                           /\ \A p \in RunId \ {q} : run'[p] = run[p]
    BY <1>0, <1>2, ClaimedRows
  <2>2. q = r
    BY <2>1 DEF Active
  <2>3. run[r] = AbsentRun /\ run'[r].last = run[r].last
    BY <1>0, <1>2, <2>1, <2>2, ClaimedRows DEF RunToWork, IsNewRun, AbsentRuns
  <2> QED BY <2>3 DEF AbsentRun, Bounded
<1>3. ASSUME NEW w \in Worker, Persist(w)
      PROVE  FALSE
  BY <1>0, <1>3, PersistedRows DEF Active
<1>4. ASSUME NEW w \in Worker,
             NEW status \in {"pending", "succeeded", "partial", "failed"},
             Releases(w, status)
      PROVE  FALSE
  <2>1. status \in RunStatus
    BY DEF RunStatus
  <2>2. run[worker[w].run].status = "running" /\ r # worker[w].run
    BY <1>4 DEF Releases, Owns, Active
  <2> QED BY <1>0, <1>4, <2>1, <2>2, ReleasedRows DEF Active
<1>5. CASE Requested
  <2>1. PICK q \in RunId, mode \in RunMode, first \in 0..MaxRecord,
             last \in 0..MaxRecord, source \in 0..MaxRuns :
          Requests(q, mode, first, last, source)
    BY <1>5 DEF Requested
  <2>2. /\ \A p \in RunId \ {q} : run'[p] = run[p]
        /\ run'[q].last = last
    BY <1>0, <2>1 DEF Requests, TypeOK, AbsentRun
  <2>3. q = r
    BY <2>2 DEF Active
  <2>4. last # 0
    BY <2>2, <2>3 DEF Bounded
  <2> QED BY <2>1, <2>2, <2>3, <2>4 DEF Requests
<1> QED BY <1>0, <1>1, <1>2, <1>3, <1>4, <1>5, StepCases

LEMMA OneBoundedKept ==
    RowInv /\ OneBounded /\ [Next]_vars => OneBounded'
<1> SUFFICES ASSUME RowInv, OneBounded, [Next]_vars,
                    NEW r \in RunId, NEW q \in RunId,
                    Active(r)', Bounded(r)', Active(q)', Bounded(q)'
             PROVE  r = q
  BY DEF OneBounded, ActiveBounded
<1>1. ASSUME NEW p \in RunId, Active(p)', Bounded(p)', Active(p)
      PROVE  p \in ActiveBounded
  BY <1>1, CleanKept DEF ActiveBounded, Active
<1>2. ASSUME NEW p \in RunId, Active(p)', Bounded(p)', ~Active(p)
      PROVE  \A o \in RunId : Active(o)' /\ Bounded(o)' => o = p
  <2>1. ActiveBounded = {} /\ \A o \in RunId \ {p} : run'[o] = run[o]
    BY <1>2, NewlyActive
  <2> QED BY <2>1 DEF ActiveBounded, Active, Bounded
<1> QED BY <1>1, <1>2 DEF OneBounded

LEMMA RangeReadKept ==
    RangeInv /\ [Next]_vars => RangeRead'
<1> SUFFICES ASSUME RangeInv, [Next]_vars, NEW r \in RunId, Active(r)', Clean(r)'
             PROVE  \A x \in Record :
                        /\ run'[r].first <= x
                        /\ x <= checkpoint'["backfill"].cursor
                        => observed'[x] # 0
  BY DEF RangeRead, StoredRange
<1> DEFINE c == checkpoint["backfill"].cursor
<1>0. /\ RowInv /\ TypeInv /\ TypeOK /\ RangesStart /\ OneBounded /\ RangeRead
      /\ FetchedRange /\ FetchedPage
      /\ checkpoint \in [CheckpointMode -> CheckpointRow]
  BY DEF RangeInv, RowInv, LossInv, LeaseInv, TypeInv, TypeOK
<1>1. CASE ~Active(r)
  <2>1. checkpoint' = [checkpoint EXCEPT !["backfill"] = NoCheckpoint]
    BY <1>0, <1>1, NewlyActive DEF Clean
  <2>2. checkpoint'["backfill"].cursor = 0
    BY <1>0, <2>1 DEF CheckpointMode, NoCheckpoint
  <2> QED BY <2>2 DEF Record
<1>2. CASE Active(r)
  <2>1. /\ run[r].status # "absent" /\ Clean(r) /\ Bounded(r)
        /\ run'[r].first = run[r].first /\ ~run'[r].rejected
    BY <1>0, <1>2, CleanKept DEF Active, Clean
  <2>2. ASSUME checkpoint'["backfill"].cursor = c
        PROVE  \A x \in Record :
                    run'[r].first <= x /\ x <= checkpoint'["backfill"].cursor
                    => observed'[x] # 0
    BY <1>0, <1>2, <2>1, <2>2, StoredKept DEF RangeRead, StoredRange
  <2>3. ASSUME NEW w \in Worker, Persist(w),
               checkpoint' = [checkpoint EXCEPT ![ModeOf(worker[w].run)] =
                                AdvancedCheckpoint(w)]
        PROVE  \A x \in Record :
                    run'[r].first <= x /\ x <= checkpoint'["backfill"].cursor
                    => observed'[x] # 0
    <3>1. CASE ~Bounded(worker[w].run)
      BY <1>0, <2>2, <2>3, <3>1 DEF ModeOf, CheckpointMode
    <3>2. CASE Bounded(worker[w].run)
      <4>1. worker[w].run \in RunId /\ run[worker[w].run].status = "running"
        BY <1>0, <2>3, PersistedRows
      <4>2. r = worker[w].run
        BY <1>0, <1>2, <2>1, <3>2, <4>1 DEF OneBounded, ActiveBounded, Active
      <4>3. checkpoint'["backfill"].cursor = worker[w].next
        BY <1>0, <2>3, <3>2 DEF ModeOf, CheckpointMode, AdvancedCheckpoint
      <4>4. /\ worker[w].next < worker[w].from \/ worker[w].next = worker[w].to
            /\ StoredRange(run[r].first, worker[w].from - 1)
        BY <1>0, <2>1, <2>3, <4>2 DEF FetchedRange, Persist
      <4>5. /\ worker[w].from \in Nat /\ worker[w].to \in Nat
            /\ worker[w].next \in Nat
        BY <1>0, BoundAssumption DEF TypeOK, WorkerLocals
      <4>6. CASE worker[w].next = worker[w].to
        <5>1. \A x \in Record :
                run[r].first <= x /\ x <= worker[w].to => observed'[x] # 0
          BY <1>0, <2>1, <2>3, <4>2, PageStored
        <5> QED BY <2>1, <4>3, <4>6, <5>1
      <4>7. CASE worker[w].next < worker[w].from
        BY <1>0, <2>1, <4>3, <4>4, <4>5, <4>7, StoredKept DEF StoredRange, Record
      <4> QED BY <4>4, <4>6, <4>7
    <3> QED BY <3>1, <3>2
  <2>4. ActiveBounded # {}
    BY <1>2, <2>1 DEF ActiveBounded
  <2> QED BY <1>0, <2>2, <2>3, <2>4, CheckpointEffect
<1> QED BY <1>1, <1>2

LEMMA FetchedRangeKept ==
    RangeInv /\ [Next]_vars => FetchedRange'
<1> SUFFICES ASSUME RangeInv, [Next]_vars, NEW w \in Worker,
                    worker'[w].phase = "fetched", Bounded(worker[w].run)'
             PROVE  /\ \/ worker'[w].next < worker'[w].from
                       \/ worker'[w].next = worker'[w].to
                    /\ ~worker'[w].more => worker'[w].to = run'[worker'[w].run].last
                    /\ Clean(worker[w].run)' =>
                        StoredRange(run[worker[w].run].first, worker[w].from - 1)'
  BY DEF FetchedRange
<1> DEFINE r == worker[w].run
<1>0. /\ RowInv /\ TypeInv /\ TypeOK /\ RangesStart /\ RangeRead /\ FetchedRange
      /\ WorkerHasRun /\ BusyRunExists
  BY DEF RangeInv, RowInv, LossInv, LeaseInv, TypeInv
<1>1. CASE Fetch(w)
  <2>1. /\ worker'[w].run = r /\ r \in RunId
        /\ worker'[w].from = PageFrom(r)
        /\ worker'[w].next \in {0, checkpoint[ModeOf(r)].cursor, worker'[w].to}
        /\ UNCHANGED <<conn, run, checkpoint, observed, rejections>>
    BY <1>0, <1>1, FetchEffect
  <2>2. /\ Bounded(r) /\ ModeOf(r) = "backfill"
        /\ FeedFirst(r) = run[r].first /\ FeedLast(r) = run[r].last
    BY <2>1 DEF Bounded, ModeOf, FeedFirst, FeedLast
  <2>3. run[r].status = "running"
    BY <1>1 DEF Fetch, LeaseAttested, Owns
  <2>4. PICK c \in Nat, first \in Nat :
            /\ c = checkpoint["backfill"].cursor /\ first = run[r].first
            /\ PageFrom(r) = IF c < first THEN first ELSE c + 1
    <3>1. /\ checkpoint["backfill"].cursor \in Nat
          /\ run[r].first \in Nat
      BY <1>0, <2>1, BoundAssumption
         DEF TypeOK, CheckpointMode, CheckpointRow, RunRow
    <3> QED BY <2>2, <3>1 DEF PageFrom
  <2>5. PageFrom(r) >= 1
    BY <1>0, <2>1, <2>2, <2>4 DEF RangesStart
  <2>6. worker'[w].next < PageFrom(r) \/ worker'[w].next = worker'[w].to
    BY <2>1, <2>2, <2>4, <2>5
  <2>7. ~worker'[w].more => worker'[w].to = run[r].last
    BY <1>0, <1>1, <2>2, FetchedEnd
  <2>8. Clean(r) => StoredRange(run[r].first, PageFrom(r) - 1)
    <3>1. Clean(r) => StoredRange(first, c)
      BY <1>0, <2>1, <2>3, <2>4 DEF RangeRead, Active
    <3>2. \A x \in Record :
            first <= x /\ x <= PageFrom(r) - 1 => first <= x /\ x <= c
      BY <2>4 DEF Record
    <3> QED BY <2>4, <3>1, <3>2 DEF StoredRange
  <2>9. Clean(worker[w].run)' => Clean(r)
    BY <2>1 DEF Clean, Bounded
  <2>10. StoredRange(run[r].first, PageFrom(r) - 1) =>
            StoredRange(run[worker[w].run].first, worker[w].from - 1)'
    BY <2>1 DEF StoredRange
  <2> QED BY <2>1, <2>6, <2>7, <2>8, <2>9, <2>10
<1>2. CASE ~Fetch(w)
  <2>1. worker'[w] = worker[w]
    BY <1>0, <1>2, HeldPage
  <2>2. worker[w].phase = "fetched" /\ r \in RunId /\ run[r].status # "absent"
    BY <1>0, <2>1 DEF WorkerHasRun, BusyRunExists
  <2>3. /\ run'[r].first = run[r].first /\ run'[r].last = run[r].last
        /\ run[r].rejected => run'[r].rejected
    BY <1>0, <2>2, CleanKept, StoredKept
  <2>4. Bounded(r) /\ (Clean(worker[w].run)' => Clean(r))
    BY <2>1, <2>3 DEF Bounded, Clean
  <2>5. StoredRange(run[r].first, worker[w].from - 1) =>
            StoredRange(run[worker[w].run].first, worker[w].from - 1)'
    BY <1>0, <2>1, <2>3, StoredKept DEF StoredRange
  <2> QED BY <1>0, <2>1, <2>2, <2>3, <2>4, <2>5 DEF FetchedRange
<1> QED BY <1>1, <1>2

LEMMA LastPageStoredKept ==
    RangeInv /\ [Next]_vars => LastPageStored'
<1> SUFFICES ASSUME RangeInv, [Next]_vars, NEW w \in Worker,
                    worker'[w].phase \in {"persisted", "analyzing"}
             PROVE  /\ worker'[w].phase = "analyzing" => ~worker'[w].more
                    /\ ~worker'[w].more /\ Clean(worker[w].run)' =>
                        StoredRange(run[worker[w].run].first,
                                    run[worker[w].run].last)'
  BY DEF LastPageStored
<1> DEFINE r == worker[w].run
<1>0. /\ RowInv /\ TypeInv /\ TypeOK /\ FetchedRange /\ LastPageStored
      /\ WorkerHasRun /\ BusyRunExists
  BY DEF RangeInv, RowInv, LossInv, LeaseInv, TypeInv
<1>1. /\ worker'[w].run = r /\ worker'[w].more = worker[w].more
      /\ \/ Persist(w) /\ worker'[w].phase = "persisted"
         \/ worker[w].phase = "persisted" /\ ~worker[w].more
         \/ worker[w].phase = worker'[w].phase
  BY <1>0, PastPage
<1>2. r \in RunId /\ run[r].status # "absent"
  BY <1>0, <1>1 DEF WorkerHasRun, BusyRunExists, Persist
<1>3. /\ run'[r].first = run[r].first /\ run'[r].last = run[r].last
      /\ run[r].rejected => run'[r].rejected
  BY <1>0, <1>2, CleanKept, StoredKept
<1>4. Clean(worker[w].run)' => Clean(r) /\ Bounded(r) /\ ~run'[r].rejected
  BY <1>1, <1>3 DEF Clean, Bounded
<1>5. CASE Persist(w) /\ worker'[w].phase = "persisted"
  <2>1. ~worker[w].more /\ Clean(worker[w].run)' => worker[w].to = run[r].last
    BY <1>0, <1>4, <1>5 DEF FetchedRange, Persist
  <2>2. Clean(worker[w].run)' =>
            \A x \in Record :
                run[r].first <= x /\ x <= worker[w].to => observed'[x] # 0
    BY <1>0, <1>2, <1>4, <1>5, PageStored
  <2> QED BY <1>1, <1>3, <1>5, <2>1, <2>2 DEF StoredRange
<1>6. CASE \/ worker[w].phase = "persisted" /\ ~worker[w].more
           \/ worker[w].phase = worker'[w].phase
  <2>1. worker[w].phase \in {"persisted", "analyzing"}
    BY <1>6
  <2>2. worker'[w].phase = "analyzing" => ~worker[w].more
    BY <1>0, <1>6 DEF LastPageStored
  <2>3. ~worker[w].more /\ Clean(r) => StoredRange(run[r].first, run[r].last)
    BY <1>0, <2>1 DEF LastPageStored
  <2>4. StoredRange(run[r].first, run[r].last) =>
            StoredRange(run[worker[w].run].first, run[worker[w].run].last)'
    BY <1>0, <1>1, <1>3, StoredKept DEF StoredRange
  <2> QED BY <1>1, <1>4, <2>2, <2>3, <2>4
<1> QED BY <1>1, <1>5, <1>6

LEMMA SucceededKept ==
    RangeInv /\ [Next]_vars => SucceededRangeStored'
<1> SUFFICES ASSUME RangeInv, [Next]_vars, NEW r \in RunId,
                    Bounded(r)', run'[r].status = "succeeded",
                    NEW x \in run'[r].first .. run'[r].last
             PROVE  observed'[x] # 0
  BY DEF SucceededRangeStored
<1>0. /\ RowInv /\ TypeInv /\ TypeOK /\ LastPageStored /\ SucceededRangeStored
      /\ RangesStart /\ AbsentRuns
  BY DEF RangeInv, RowInv, LossInv, LeaseInv, TypeInv
<1>1. ASSUME run[r].status # "absent"
      PROVE  /\ Bounded(r) /\ x \in Record
             /\ x \in run[r].first .. run[r].last
  <2>1. run'[r].first = run[r].first /\ run'[r].last = run[r].last /\ Bounded(r)
    BY <1>0, <1>1, CleanKept
  <2>2. run[r].first \in 0..MaxRecord /\ run[r].last \in 0..MaxRecord
    BY <1>0 DEF TypeOK, RunRow
  <2> QED BY <1>0, <2>1, <2>2, BoundAssumption DEF RangesStart, Record
<1>2. CASE run[r].status = "succeeded"
  BY <1>0, <1>1, <1>2, StoredKept DEF SucceededRangeStored
<1>3. CASE run[r].status # "succeeded"
  <2>1. CASE UNCHANGED <<run, checkpoint, observed, rejections>>
    BY <1>3, <2>1
  <2>2. ASSUME NEW w \in Worker, Claim(w)
        PROVE  FALSE
    BY <1>0, <1>3, <2>2, ClaimedRows
  <2>3. ASSUME NEW w \in Worker, Persist(w)
        PROVE  FALSE
    BY <1>0, <1>3, <2>3, PersistedRows
  <2>4. CASE Requested
    BY <1>0, <1>3, <2>4 DEF Requested, Requests, TypeOK, AbsentRun
  <2>5. ASSUME NEW w \in Worker,
               NEW status \in {"pending", "succeeded", "partial", "failed"},
               Releases(w, status)
        PROVE  observed'[x] # 0
    <3>1. status \in RunStatus /\ observed' = observed
      BY <2>5 DEF RunStatus, Releases
    <3>2. r = worker[w].run /\ status = "succeeded"
      BY <1>0, <1>3, <2>5, <3>1, ReleasedRows
    <3>3. /\ run[r].status = "running" /\ worker[w].phase = "analyzing"
          /\ ~run[r].rejected
      BY <2>5, <3>2 DEF Releases, Owns
    <3>4. Clean(r) /\ x \in Record /\ x \in run[r].first .. run[r].last
      BY <1>1, <3>3 DEF Clean
    <3>5. StoredRange(run[r].first, run[r].last)
      BY <1>0, <3>2, <3>3, <3>4 DEF LastPageStored
    <3>6. run[r].first \in Nat /\ run[r].last \in Nat
      BY <1>0, BoundAssumption DEF TypeOK, RunRow
    <3> QED BY <3>1, <3>4, <3>5, <3>6 DEF StoredRange, Record
  <2> QED BY <1>0, <2>1, <2>2, <2>3, <2>4, <2>5, StepCases
<1> QED BY <1>2, <1>3

LEMMA RangeInvInductive ==
    /\ Init => RangeInv
    /\ RangeInv /\ [Next]_vars => RangeInv'
<1>1. ASSUME Init
      PROVE  RangeInv
  <2>1. \A r \in RunId : ~Bounded(r) /\ ~Active(r)
    BY <1>1 DEF Init, Bounded, Active, AbsentRun
  <2>2. \A w \in Worker : worker[w].phase = "idle"
    BY <1>1 DEF Init, IdleWorker
  <2> QED
    BY <1>1, <2>1, <2>2, RowInvInductive
       DEF RangeInv, RangesStart, OneBounded, ActiveBounded, RangeRead,
           FetchedRange, LastPageStored, SucceededRangeStored
<1>2. RangeInv /\ [Next]_vars => RangeInv'
  BY RowInvInductive, RangesStartKept, OneBoundedKept, RangeReadKept,
     FetchedRangeKept, LastPageStoredKept, SucceededKept DEF RangeInv
<1> QED BY <1>1, <1>2

\* SucceededRangeStored: a backfill that reports success has stored all of its
\* range, however often it was interrupted, reclaimed and resumed.
THEOREM SucceededRange == Spec => []SucceededRangeStored
<1>1. RangeInv => SucceededRangeStored
  BY DEF RangeInv
<1> QED BY <1>1, RangeInvInductive, PTL DEF Spec

(***************************************************************************)
(* The worker and the repository implement DurableDelivery.                *)
(***************************************************************************)

\* The outcome and the range of each run, as DurableDelivery sees them.
OutcomeOf(r) ==
    IF Active(r) THEN "open" ELSE IF Terminal(r) THEN run[r].status ELSE "none"
Outcomes == [r \in RunId |-> OutcomeOf(r)]
RangesOf == [r \in RunId |-> <<run[r].first, run[r].last>>]


\* What a step of DurableDelivery is, in terms of the rows.
Opens(r, first, last) ==
    /\ Outcomes[r] = "none"
    /\ Outcomes' = [Outcomes EXCEPT ![r] = "open"]
    /\ RangesOf' = [RangesOf EXCEPT ![r] = <<first, last>>]
    /\ UNCHANGED <<Durable, checkpoint["incremental"].cursor>>

Delivers(page, next) ==
    /\ \E r \in RunId : Outcomes[r] = "open"
    /\ Durable' = Durable \cup page
    /\ checkpoint'["incremental"].cursor = next
    /\ 1..next \subseteq Durable \cup page
    /\ UNCHANGED <<Outcomes, RangesOf>>

Closes(r, status) ==
    /\ Outcomes[r] = "open"
    /\ status = "succeeded" /\ RangesOf[r][2] # 0 =>
            RangesOf[r][1] .. RangesOf[r][2] \subseteq Durable
    /\ Outcomes' = [Outcomes EXCEPT ![r] = status]
    /\ UNCHANGED <<Durable, checkpoint["incremental"].cursor, RangesOf>>

DeliveryStep ==
    \/ \E r \in RunId, first, last \in 0..MaxRecord : Opens(r, first, last)
    \/ \E page \in SUBSET Record, next \in 0..MaxRecord : Delivers(page, next)
    \/ \E r \in RunId, status \in {"succeeded", "partial", "failed"} :
            Closes(r, status)
    \/ UNCHANGED <<Durable, checkpoint["incremental"].cursor, Outcomes, RangesOf>>

LEMMA DeliveryStepIs ==
    DeliveryStep => [Delivery!Next]_(Delivery!vars)
BY Zenon
   DEF DeliveryStep, Opens, Delivers, Closes, Delivery!Next, Delivery!Open,
       Delivery!Deliver, Delivery!Close, Delivery!Closed, Delivery!RunId, RunId,
       Delivery!Record, Record, Delivery!vars, Outcomes, OutcomeOf, RangesOf

\* Both functions change where the rows do.
LEMMA RowsChanged ==
    ASSUME NEW r \in RunId, \A q \in RunId \ {r} : run'[q] = run[q]
    PROVE  /\ Outcomes' = [Outcomes EXCEPT ![r] = OutcomeOf(r)']
           /\ RangesOf' = [RangesOf EXCEPT ![r] = <<run'[r].first, run'[r].last>>]
<1>1. \A q \in RunId \ {r} : OutcomeOf(q)' = OutcomeOf(q)
  BY DEF OutcomeOf, Active, Terminal
<1> QED BY <1>1 DEF Outcomes, RangesOf

LEMMA StepDelivers ==
    RangeInv /\ RangeInv' /\ [Next]_vars => DeliveryStep
<1> SUFFICES ASSUME RangeInv, RangeInv', [Next]_vars PROVE DeliveryStep
  OBVIOUS
<1>0. /\ RowInv /\ TypeInv /\ TypeOK /\ AbsentRuns /\ run \in [RunId -> RunRow]
      /\ checkpoint \in [CheckpointMode -> CheckpointRow]
  BY DEF RangeInv, RowInv, LossInv, LeaseInv, TypeInv, TypeOK
<1>1. CASE UNCHANGED <<run, checkpoint, observed, rejections>>
  BY <1>1 DEF DeliveryStep, Durable, Outcomes, OutcomeOf, RangesOf, Active, Terminal
<1>2. ASSUME NEW w \in Worker, Claim(w)
      PROVE  DeliveryStep
  <2>1. UNCHANGED <<Durable, checkpoint["incremental"].cursor>>
    BY <1>0, <1>2, ClaimedRows DEF Durable
  <2>2. PICK r \in RunId :
          /\ RunToWork(r)
          /\ run'[r].status = "running"
          /\ run'[r].first = run[r].first /\ run'[r].last = run[r].last
          /\ \A q \in RunId \ {r} : run'[q] = run[q]
    BY <1>0, <1>2, ClaimedRows
  <2>3. /\ Outcomes' = [Outcomes EXCEPT ![r] = "open"]
        /\ RangesOf' = [RangesOf EXCEPT ![r] = <<run[r].first, run[r].last>>]
    BY <2>2, RowsChanged DEF OutcomeOf, Active
  <2>4. CASE Active(r)
    <3>1. Outcomes[r] = "open" /\ RangesOf[r] = <<run[r].first, run[r].last>>
      BY <2>4 DEF Outcomes, OutcomeOf, RangesOf
    <3>2. Outcomes' = Outcomes /\ RangesOf' = RangesOf
      BY <2>3, <3>1 DEF Outcomes, RangesOf
    <3> QED BY <2>1, <3>2 DEF DeliveryStep
  <2>5. CASE IsNewRun(r)
    <3>1. Outcomes[r] = "none" /\ run[r].first = 0 /\ run[r].last = 0
      BY <1>0, <2>5
         DEF IsNewRun, AbsentRuns, AbsentRun, Outcomes, OutcomeOf, Active, Terminal
    <3>2. Opens(r, 0, 0) /\ 0 \in 0..MaxRecord
      BY <2>1, <2>3, <3>1, BoundAssumption DEF Opens
    <3> QED BY <3>2 DEF DeliveryStep
  <2> QED BY <2>2, <2>4, <2>5 DEF RunToWork
<1>3. ASSUME NEW w \in Worker, Persist(w)
      PROVE  DeliveryStep
  <2>1. /\ worker[w].run \in RunId
        /\ run[worker[w].run].status = "running"
        /\ \A q \in RunId : /\ run'[q].status = run[q].status
                            /\ run'[q].first = run[q].first
                            /\ run'[q].last = run[q].last
    BY <1>0, <1>3, PersistedRows
  <2>2. Outcomes' = Outcomes /\ RangesOf' = RangesOf
    <3>1. \A q \in RunId : OutcomeOf(q)' = OutcomeOf(q)
      BY <2>1 DEF OutcomeOf, Active, Terminal
    <3> QED BY <2>1, <3>1 DEF Outcomes, RangesOf
  <2>3. Outcomes[worker[w].run] = "open"
    BY <2>1 DEF Outcomes, OutcomeOf, Active
  <2>4. Durable \subseteq Durable' /\ Durable' \subseteq Record
    <3>1. rejections' \subseteq Record
      BY DEF RangeInv, RowInv, LossInv, LeaseInv, TypeInv, TypeOK
    <3> QED BY <1>0, <3>1, DurableKept DEF Durable
  <2>5. PICK next \in 0..MaxRecord : next = checkpoint'["incremental"].cursor
    BY DEF RangeInv, RowInv, LossInv, LeaseInv, TypeInv, TypeOK,
           CheckpointMode, CheckpointRow
  <2>6. 1..next \subseteq Durable'
    BY <2>5 DEF RangeInv, RowInv, LossInv, NoLossBehindCheckpoint
  <2>7. Delivers(Durable', next)
    BY <2>1, <2>2, <2>3, <2>4, <2>5, <2>6 DEF Delivers
  <2> QED BY <2>4, <2>7 DEF DeliveryStep
<1>4. ASSUME NEW w \in Worker,
             NEW status \in {"pending", "succeeded", "partial", "failed"},
             Releases(w, status)
      PROVE  DeliveryStep
  <2>0. PICK r \in RunId : r = worker[w].run
    BY <1>4 DEF Releases
  <2>1. /\ run[r].status = "running"
        /\ UNCHANGED <<Durable, checkpoint["incremental"].cursor>>
    BY <1>4, <2>0 DEF Releases, Owns, Durable
  <2>2. /\ run'[r].status = status
        /\ run'[r].first = run[r].first /\ run'[r].last = run[r].last
        /\ \A q \in RunId \ {r} : run'[q] = run[q]
    BY <1>0, <1>4, <2>0, ReleasedRows DEF RunStatus
  <2>3. /\ Outcomes' = [Outcomes EXCEPT ![r] = OutcomeOf(r)']
        /\ RangesOf' = [RangesOf EXCEPT ![r] = <<run[r].first, run[r].last>>]
    BY <2>1, <2>2, RowsChanged
  <2>4. RangesOf[r] = <<run[r].first, run[r].last>> /\ RangesOf' = RangesOf
    BY <2>1, <2>3 DEF RangesOf
  <2>5. Outcomes[r] = "open"
    BY <2>1 DEF Outcomes, OutcomeOf, Active
  <2>6. CASE status = "pending"
    <3>1. OutcomeOf(r)' = "open"
      BY <2>2, <2>6 DEF OutcomeOf, Active
    <3>2. Outcomes' = Outcomes
      BY <2>3, <2>5, <3>1 DEF Outcomes
    <3> QED BY <2>1, <2>4, <3>2 DEF DeliveryStep
  <2>7. CASE status # "pending"
    <3>1. OutcomeOf(r)' = status
      BY <2>2, <2>7 DEF OutcomeOf, Active, Terminal
    <3>2. ASSUME status = "succeeded", RangesOf[r][2] # 0
          PROVE  RangesOf[r][1] .. RangesOf[r][2] \subseteq Durable
      <4>1. Bounded(r)' /\ run'[r].status = "succeeded"
        BY <2>2, <2>4, <3>2 DEF Bounded
      <4>2. \A x \in run[r].first .. run[r].last : observed'[x] # 0
        BY <2>1, <2>2, <4>1 DEF RangeInv, SucceededRangeStored
      <4>3. run[r].first .. run[r].last \subseteq Record
        <5>1. run[r].first \in Nat /\ run[r].last \in 0..MaxRecord
          BY <1>0, <2>1, BoundAssumption DEF RunRow
        <5>2. run[r].first >= 1
          BY <2>1, <2>2, <2>4, <3>2 DEF RangeInv, RangesStart, Bounded
        <5> QED BY <5>1, <5>2, BoundAssumption DEF Record
      <4>4. observed' = observed
        BY <1>4 DEF Releases
      <4> QED BY <2>4, <4>2, <4>3, <4>4 DEF Durable
    <3>3. Closes(r, status)
      BY <2>1, <2>3, <2>4, <2>5, <3>1, <3>2 DEF Closes
    <3> QED BY <2>1, <2>7, <3>3 DEF DeliveryStep
  <2> QED BY <2>6, <2>7
<1>5. CASE Requested
  <2>1. PICK r \in RunId, mode \in RunMode, first \in 0..MaxRecord,
             last \in 0..MaxRecord, source \in 0..MaxRuns :
          Requests(r, mode, first, last, source)
    BY <1>5 DEF Requested
  <2>2. /\ run'[r].status = "pending"
        /\ run'[r].first = first /\ run'[r].last = last
        /\ \A q \in RunId \ {r} : run'[q] = run[q]
    BY <1>0, <2>1 DEF Requests, AbsentRun
  <2>3. /\ Outcomes' = [Outcomes EXCEPT ![r] = "open"]
        /\ RangesOf' = [RangesOf EXCEPT ![r] = <<first, last>>]
    BY <2>2, RowsChanged DEF OutcomeOf, Active
  <2>4. Outcomes[r] = "none"
    BY <2>1 DEF Requests, IsNewRun, Outcomes, OutcomeOf, Active, Terminal
  <2>5. UNCHANGED <<Durable, checkpoint["incremental"].cursor>>
    BY <1>0, <2>1 DEF Requests, Durable, CheckpointMode
  <2>6. Opens(r, first, last)
    BY <2>3, <2>4, <2>5 DEF Opens
  <2> QED BY <2>6 DEF DeliveryStep
<1> QED BY <1>0, <1>1, <1>2, <1>3, <1>4, <1>5, StepCases

\* DeliverySpec: whatever the workers, the operators, the clocks and the
\* crashes do, the repository behaves as DurableDelivery promises.
THEOREM ImplementsDelivery == Spec => DeliverySpec
<1>1. Init => Delivery!Init
  <2> SUFFICES ASSUME Init PROVE Delivery!Init
    OBVIOUS
  <2>1. Durable = {} /\ checkpoint["incremental"].cursor = 0
    BY DEF Init, Durable, CheckpointMode, NoCheckpoint
  <2>2. \A r \in RunId : ~Active(r) /\ ~Terminal(r)
    BY DEF Init, AbsentRun, Active, Terminal
  <2>3. \A r \in RunId : run[r].first = 0 /\ run[r].last = 0
    BY DEF Init, AbsentRun
  <2> QED BY <2>1, <2>2, <2>3 DEF Delivery!Init, Delivery!RunId, RunId
<1>2. RangeInv /\ RangeInv' /\ [Next]_vars => [Delivery!Next]_(Delivery!vars)
  BY StepDelivers, DeliveryStepIs
<1> QED BY <1>1, <1>2, RangeInvInductive, PTL DEF Spec, DeliverySpec, Delivery!Spec

(***************************************************************************)
(* When a connection that has work loses its next attempt.                 *)
(***************************************************************************)

\* A run has ended without all it was asked for: refused, exhausted, cut off.
EndedShort == \E r \in RunId : run[r].status \in {"failed", "partial"}

\* Only then does a connection with unfinished runs have no next attempt.
DueInv == conn.due = "unset" => EndedShort \/ \A r \in RunId : ~Active(r)

\* A step that leaves the connection without a next attempt ends a run short,
\* or found it without one and changes the status of no run.
LEMMA DueEffect ==
    ASSUME TypeInv, [Next]_vars
    PROVE  \/ conn'.due # "unset"
           \/ conn'.due = conn.due
              /\ \A r \in RunId : run'[r].status = run[r].status
           \/ EndedShort'
<1> DEFINE Kept == /\ conn'.due = conn.due
                   /\ \A r \in RunId : run'[r].status = run[r].status
           Goal == conn'.due # "unset" \/ Kept \/ EndedShort'
<1>0. /\ TypeOK /\ conn \in ConnRow /\ run \in [RunId -> RunRow]
      /\ \A w \in Worker : worker[w].phase # "idle" => worker[w].run \in RunId
  BY DEF TypeInv, TypeOK, WorkerHasRun
<1>1. ASSUME NEW due \in {"now", "later", "unset"}, NEW retries,
             conn' = Released(due, retries)
      PROVE  conn'.due = due
  BY <1>0, <1>1 DEF Released, ConnRow
<1>2. ASSUME NEW r \in RunId, NEW status,
             run' = [run EXCEPT ![r] = ReleasedRun(r, status)]
      PROVE  run'[r].status = status
  BY <1>0, <1>2 DEF ReleasedRun, RunRow
<1>3. ASSUME NEW w \in Worker, worker[w].phase # "idle",
             NEW retryable \in BOOLEAN, RecordFailure(w, retryable)
      PROVE  Goal
  <2>1. CASE Exhausted(retryable)
    <3>1. run'[worker[w].run].status = "failed"
      BY <1>0, <1>2, <1>3, <2>1 DEF RecordFailure
    <3> QED BY <1>0, <1>3, <3>1 DEF EndedShort
  <2>2. CASE ~Exhausted(retryable)
    BY <1>1, <1>3, <2>2 DEF RecordFailure
  <2> QED BY <2>1, <2>2
<1>4. ASSUME NEW w \in Worker, WorkerStep(w)
      PROVE  Goal
  <2>1. CASE Claim(w)
    <3>1. PICK token \in Token : conn' = [conn EXCEPT !.token = token]
      BY <2>1 DEF Claim
    <3> QED BY <1>0, <2>1, <3>1 DEF Claim, ConnRow
  <2>2. CASE Persist(w)
    BY <2>2, PersistedRows DEF Persist
  <2>3. CASE MappingConflict(w)
    BY <1>3, <2>3 DEF MappingConflict
  <2>4. CASE Continue(w)
    BY <1>1, <2>4 DEF Continue
  <2>5. CASE Complete(w)
    BY <1>1, <2>5 DEF Complete, Finish
  <2>6. CASE CompleteDisabled(w)
    <3>1. worker[w].run \in RunId
      BY <1>0, <2>6 DEF CompleteDisabled
    <3>2. run'[worker[w].run].status = "partial"
      BY <1>2, <2>6, <3>1 DEF CompleteDisabled, Finish
    <3> QED BY <3>1, <3>2 DEF EndedShort
  <2>7. CASE Fetch(w) \/ FindDisabled(w) \/ StartAnalysis(w) \/ LeaseLost(w)
    BY <2>7 DEF Fetch, FindDisabled, StartAnalysis, LeaseLost
  <2> QED
    BY <1>4, <2>1, <2>2, <2>3, <2>4, <2>5, <2>6, <2>7 DEF WorkerStep
<1>5. ASSUME NEW w \in Worker, NEW retryable \in BOOLEAN, Fail(w, retryable)
      PROVE  Goal
  BY <1>3, <1>5 DEF Fail
<1>6. ASSUME conn' = [conn EXCEPT !.due = "now", !.retries = 0]
      PROVE  Goal
  BY <1>0, <1>6 DEF ConnRow
<1>7. CASE (\E range \in Ranges : CreateBackfill(range[1], range[2]))
           \/ \E source \in RunId : RetryRun(source)
  BY <1>6, <1>7 DEF CreateBackfill, RetryRun, RequestRun
<1>8. CASE Enable \/ Disable \/ Archive
  BY <1>0, <1>8 DEF Enable, Disable, Archive, ConnRow
<1>9. CASE ScheduleNow
  BY <1>6, <1>9 DEF ScheduleNow
<1>10. CASE BecomeDue
  BY <1>0, <1>10 DEF BecomeDue, ConnRow
<1>11. CASE conn' = conn /\ run' = run
  BY <1>11
<1> QED
  BY <1>4, <1>5, <1>7, <1>8, <1>9, <1>10, <1>11
     DEF Next, vars, GuardianRenew, Crash, EditMapping, Produce, Lapse

\* BackfillImmediatelyDue, as far as the code keeps it: until some run of the
\* connection has failed or ended partial, a pending backfill has a next
\* attempt, whatever the requests, crashes, lapses and retries before it.  The
\* late answer of an older run is the only thing that takes it away.
THEOREM BackfillDueUntilShort ==
    Spec => [](EndedShort \/ BackfillImmediatelyDue)
<1>1. Init => TypeInv /\ DueInv
  <2>1. Init => DueInv
    BY DEF Init, DueInv, AbsentRun, Active
  <2> QED BY <2>1, TypeInvInductive
<1>2. TypeInv /\ DueInv /\ [Next]_vars => (TypeInv /\ DueInv)'
  <2> SUFFICES ASSUME TypeInv, DueInv, [Next]_vars
               PROVE  (TypeInv /\ DueInv)'
    OBVIOUS
  <2>1. DueInv'
    BY DueEffect DEF DueInv, EndedShort, Active
  <2> QED BY <2>1, TypeInvInductive
<1>3. DueInv => EndedShort \/ BackfillImmediatelyDue
  BY DEF DueInv, BackfillImmediatelyDue, Active
<1> QED BY <1>1, <1>2, <1>3, PTL DEF Spec

=============================================================================
