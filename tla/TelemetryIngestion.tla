------------------------- MODULE TelemetryIngestion -------------------------
(***************************************************************************)
(* The telemetry worker of Neraium: the scheduler threads that claim a     *)
(* connection, read one provider page, persist it and hand the connection  *)
(* back (telemetry_scheduler.py, run_once), over the PostgreSQL repository *)
(* (telemetry_repository.py) that leases the connection, keeps its         *)
(* ingestion runs, its checkpoints and its observations, together with the *)
(* API requests that change the same rows at any moment: enable, disable,  *)
(* archive, start a backfill, retry a finished run, edit a mapping.        *)
(*                                                                         *)
(* Every repository method runs in one database transaction, so it is one  *)
(* action.  Between two transactions a worker holds what it read, and any  *)
(* other actor may move.  The module describes ONE connection: its row,    *)
(* its runs and its data.  Nothing the methods read or write belongs to    *)
(* another connection, except the order in which connections are claimed.  *)
(***************************************************************************)
EXTENDS Naturals, FiniteSets

CONSTANTS
    Worker,        \* scheduler processes
    Token,         \* lease tokens (uuid4 values)
    NoToken,       \* NULL in a lease_token column
    DbClock,       \* the clock NOW() reads, next to one clock per worker
    MaxRuns,       \* bound: rows of ingestion_runs
    MaxRecord,     \* bound: records the provider ever holds
    BadRecord,     \* records that normalisation rejects
    PageSize,      \* most records in one provider page
    Ranges,        \* <<first, last>> bounds an operator may backfill
    MaxRetries,    \* retry_count at which a retryable failure is final
    MaxMappingEdits, \* bound: edits of the connection's signal mappings
    MaxDisturbances  \* bound: crashes, leases that lapse under a live holder,
                     \* and enable requests (each of which resets the retries)

Record == 1..MaxRecord
RunId == 1..MaxRuns
Clock == Worker \cup {DbClock}
CheckpointMode == {"incremental", "backfill"}

ASSUME TokenAssumption == NoToken \notin Token
ASSUME ClockAssumption == DbClock \notin Worker
ASSUME BoundAssumption ==
    /\ MaxRuns \in Nat /\ MaxRecord \in Nat /\ PageSize \in Nat \ {0}
    /\ MaxRetries \in Nat \ {0}
    /\ MaxMappingEdits \in Nat /\ MaxDisturbances \in Nat
ASSUME RecordAssumption ==
    /\ BadRecord \subseteq Record
    /\ \A range \in Ranges : range \in Record \X Record /\ range[1] <= range[2]

VARIABLES
    conn,        \* the row of data_connections
    lapsed,      \* the clocks on which lease_expires_at has passed
    run,         \* the rows of ingestion_runs, in creation order
    checkpoint,  \* the rows of connection_checkpoints
    observed,    \* normalized_observations: the run that stored each record
    rejections,  \* observation_rejections other than duplicates
    worker,      \* what each scheduler process holds between transactions
    scheduling,  \* an enable request has not yet called schedule_connection_now
    available,   \* external: how many records the provider holds
    mapping,     \* the revision of the signal mappings
    disturbances \* crashes, untimely lapses and enable requests so far

vars == <<conn, lapsed, run, checkpoint, observed, rejections, worker,
          scheduling, available, mapping, disturbances>>

(***************************************************************************)
(* Rows and local state.                                                   *)
(***************************************************************************)
RunStatus == {"absent", "pending", "running", "succeeded", "partial", "failed"}
RunMode == {"incremental", "backfill", "retry"}

\* An unbounded run has first = last = 0 (range_start and range_end NULL).
AbsentRun == [status |-> "absent", mode |-> "incremental", token |-> NoToken,
              first |-> 0, last |-> 0, source |-> 0,
              accepted |-> 0, rejected |-> FALSE]

\* A checkpoint row that does not exist reads as revision 0 and no cursor.
NoCheckpoint == [revision |-> 0, cursor |-> 0]

\* Phase of a worker: the transaction it committed last.
Phase == {"idle", "claimed", "disabling", "fetched", "persisted", "analyzing"}

\* The types of a connection row, a run row, a checkpoint row and the locals
\* of a worker: in from .. to the page it read, next and more as they came
\* with the page, revision and mapping as its snapshot showed them.
ConnRow == [enabled : BOOLEAN, archived : BOOLEAN, token : Token \cup {NoToken},
            due : {"unset", "later", "now"}, retries : 0..MaxRetries]

RunRow == [status : RunStatus, mode : RunMode, token : Token \cup {NoToken},
           first : 0..MaxRecord, last : 0..MaxRecord, source : 0..MaxRuns,
           accepted : Nat, rejected : BOOLEAN]

CheckpointRow == [revision : Nat, cursor : 0..MaxRecord]

WorkerLocals == [phase : Phase, run : 0..MaxRuns, token : Token \cup {NoToken},
                 revision : Nat, from : Nat, to : 0..MaxRecord,
                 next : 0..MaxRecord, more : BOOLEAN,
                 mapping : 0..MaxMappingEdits]

IdleWorker == [phase |-> "idle", run |-> 0, token |-> NoToken, revision |-> 0,
               from |-> 0, to |-> 0, next |-> 0, more |-> FALSE, mapping |-> 0]

Bounded(r) == run[r].last # 0
Active(r) == run[r].status \in {"pending", "running"}
Terminal(r) == run[r].status \in {"succeeded", "partial", "failed"}
ModeOf(r) == IF Bounded(r) THEN "backfill" ELSE "incremental"

\* Mutant: the unique index forgets the running backfill.
MutantPendingBounded == {r \in RunId : run[r].status = "pending" /\ Bounded(r)}

\* ux_telemetry_active_backfill_connection: bounded runs still to finish.
ActiveBounded == {r \in RunId : Active(r) /\ Bounded(r)}

\* ux_telemetry_active_retry_source: retries of source still to finish.
ActiveRetryOf(source) ==
    {r \in RunId : Active(r) /\ run[r].mode = "retry" /\ run[r].source = source}

\* The id the next inserted run takes: rows are numbered as they are created.
IsNewRun(r) ==
    /\ run[r].status = "absent"
    /\ \A q \in RunId : q < r => run[q].status # "absent"

\* Lease tokens that some row or some worker still names.
TokensInUse ==
    {conn.token} \cup {run[r].token : r \in RunId}
                 \cup {worker[w].token : w \in Worker}

Init ==
    /\ conn = [enabled |-> FALSE, archived |-> FALSE, token |-> NoToken,
               due |-> "unset", retries |-> 0]
    /\ lapsed = {}
    /\ run = [r \in RunId |-> AbsentRun]
    /\ checkpoint = [m \in CheckpointMode |-> NoCheckpoint]
    /\ observed = [x \in Record |-> 0]
    /\ rejections = {}
    /\ worker = [w \in Worker |-> IdleWorker]
    /\ scheduling = FALSE
    /\ available = 0
    /\ mapping = 0
    /\ disturbances = 0

(***************************************************************************)
(* claim_next_due_work.  The connection must be enabled, due, and without  *)
(* a lease that is live on the claiming worker's own clock.  The oldest    *)
(* unfinished run is taken up again, a running one before a pending one;   *)
(* without any, a new incremental run is inserted.  The claim overwrites   *)
(* the lease of a holder that is late, dead or alive.                      *)
(***************************************************************************)
ClaimedBefore(r, q) ==
    \/ run[r].status = "running" /\ run[q].status = "pending"
    \/ run[r].status = run[q].status /\ r <= q

\* Mutant: an expired claim does not look for the run it left running.
MutantPendingOnly(r) ==
    \/ /\ run[r].status = "pending"
       /\ \A q \in RunId : run[q].status = "pending" => r <= q
    \/ IsNewRun(r) /\ \A q \in RunId : run[q].status # "pending"

RunToWork(r) ==
    \/ Active(r) /\ \A q \in RunId : Active(q) => ClaimedBefore(r, q)
    \/ IsNewRun(r) /\ \A q \in RunId : ~Active(q)

ActivatedRun(r, token) ==
    [run[r] EXCEPT !.status = "running", !.token = token]

\* Mutant: a lease that expired cannot be claimed.
MutantClaimReleased(w) ==
    /\ worker[w].phase = "idle"
    /\ conn.enabled /\ ~conn.archived
    /\ conn.token = NoToken
    /\ conn.due = "now"
    /\ \E token \in Token \ TokensInUse, r \in RunId :
        /\ RunToWork(r)
        /\ conn' = [conn EXCEPT !.token = token]
        /\ run' = [run EXCEPT ![r] = ActivatedRun(r, token)]
        /\ worker' = [worker EXCEPT ![w] =
                        [IdleWorker EXCEPT !.phase = "claimed", !.run = r,
                                           !.token = token]]
    /\ lapsed' = {}
    /\ UNCHANGED <<checkpoint, observed, rejections, scheduling, available,
                   mapping, disturbances>>

Claim(w) ==
    /\ worker[w].phase = "idle"
    /\ conn.enabled /\ ~conn.archived
    /\ conn.token = NoToken \/ w \in lapsed
    /\ conn.due = "now"
    /\ \E token \in Token \ TokensInUse, r \in RunId :
        /\ RunToWork(r)
        /\ conn' = [conn EXCEPT !.token = token]
        /\ run' = [run EXCEPT ![r] = ActivatedRun(r, token)]
        /\ worker' = [worker EXCEPT ![w] =
                        [IdleWorker EXCEPT !.phase = "claimed", !.run = r,
                                           !.token = token]]
    /\ lapsed' = {}
    /\ UNCHANGED <<checkpoint, observed, rejections, scheduling, available,
                   mapping, disturbances>>

----------------------------------------------------------------------------
(***************************************************************************)
(* The worker's later transactions.  Those that read or write telemetry    *)
(* require a lease that the database clock still sees (LeaseAttested);     *)
(* those that hand the connection back only require that nobody else took  *)
(* it meanwhile (Owns).                                                    *)
(***************************************************************************)
\* Mutant: the check does not compare the token.
MutantOwnsAnyToken(w) ==
    conn.token # NoToken /\ run[worker[w].run].status = "running"

Owns(w) ==
    /\ conn.token = worker[w].token
    /\ run[worker[w].run].status = "running"
    /\ run[worker[w].run].token = worker[w].token

LeaseAttested(w) == Owns(w) /\ DbClock \notin lapsed

WorkerDone(w) == worker' = [worker EXCEPT ![w] = IdleWorker]

\* The run goes back or is finished.  complete_ingestion_work leaves the token
\* on the finished row, where no query reads it; here it is cleared as well.
ReleasedRun(r, status) == [run[r] EXCEPT !.status = status, !.token = NoToken]

\* The lease columns are cleared; due and retries are what the caller sets.
Released(due, retries) ==
    [conn EXCEPT !.token = NoToken, !.due = due, !.retries = retries]

(***************************************************************************)
(* load_ingestion_snapshot and the provider call that follows it.  A page  *)
(* continues after the checkpoint's cursor, or at the start of the feed    *)
(* without one.  It has more pages behind it unless it reaches the end of  *)
(* the feed; then the provider returns no cursor (0), a last one, or no    *)
(* checkpoint at all, and the worker keeps the one it had.                 *)
(***************************************************************************)
FeedFirst(r) == IF Bounded(r) THEN run[r].first ELSE 1
FeedLast(r) == IF Bounded(r) THEN run[r].last ELSE available

PageFrom(r) ==
    LET cursor == checkpoint[ModeOf(r)].cursor
    IN  IF cursor < FeedFirst(r) THEN FeedFirst(r) ELSE cursor + 1

\* The last record of a page, and the cursor and has_more it comes with.
PageEnd(r, to, next, more) ==
    /\ to < PageFrom(r) + PageSize
    /\ \/ more /\ to >= PageFrom(r) /\ to < FeedLast(r) /\ next = to
       \/ ~more /\ to = FeedLast(r)
          /\ next \in {0, checkpoint[ModeOf(r)].cursor, to}

Fetch(w) ==
    LET r == worker[w].run
    IN  /\ worker[w].phase = "claimed"
        /\ LeaseAttested(w)
        /\ conn.enabled
        /\ \E to, next \in 0..MaxRecord, more \in BOOLEAN :
            /\ PageEnd(r, to, next, more)
            /\ worker' = [worker EXCEPT ![w] =
                            [@ EXCEPT !.phase = "fetched",
                                      !.revision = checkpoint[ModeOf(r)].revision,
                                      !.from = PageFrom(r), !.to = to,
                                      !.next = next, !.more = more,
                                      !.mapping = mapping]]
        /\ UNCHANGED <<conn, lapsed, run, checkpoint, observed, rejections,
                       scheduling, available, mapping, disturbances>>

\* The snapshot shows a connection disabled after it was claimed.
FindDisabled(w) ==
    /\ worker[w].phase = "claimed"
    /\ LeaseAttested(w)
    /\ ~conn.enabled
    /\ worker' = [worker EXCEPT ![w].phase = "disabling"]
    /\ UNCHANGED <<conn, lapsed, run, checkpoint, observed, rejections,
                   scheduling, available, mapping, disturbances>>

(***************************************************************************)
(* persist_ingestion_page: one transaction stores the accepted records     *)
(* that no row holds yet (ON CONFLICT DO NOTHING), the rejections, the     *)
(* checkpoint by compare-and-swap on its revision, and the run's counters. *)
(***************************************************************************)
PageRecords(w) == worker[w].from .. worker[w].to
Normalized(w) == PageRecords(w) \ BadRecord

\* Mutant: without ON CONFLICT DO NOTHING.
MutantInsertedAgain(w) == Normalized(w)

Inserted(w) == {x \in Normalized(w) : observed[x] = 0}

\* Prepared observations must still name the current revision of a mapping.
MappingCurrent(w) == Normalized(w) # {} => worker[w].mapping = mapping

\* Mutant: the cursor names the next record, not the last one read.
MutantCursorAhead(w) ==
    [revision |-> worker[w].revision + 1, cursor |-> worker[w].next + 1]

\* The row this page leaves behind, whether it is inserted or updated.
AdvancedCheckpoint(w) ==
    [revision |-> worker[w].revision + 1, cursor |-> worker[w].next]

CountedRun(w) ==
    [run[worker[w].run] EXCEPT
        !.accepted = @ + Cardinality(Inserted(w)),
        !.rejected = @ \/ PageRecords(w) \cap BadRecord # {}]

Persist(w) ==
    LET r == worker[w].run
    IN  /\ worker[w].phase = "fetched"
        /\ LeaseAttested(w)
        /\ MappingCurrent(w)
        /\ checkpoint[ModeOf(r)].revision = worker[w].revision
        /\ observed' = [x \in Record |-> IF x \in Inserted(w) THEN r
                                                              ELSE observed[x]]
        /\ rejections' = rejections \cup (PageRecords(w) \cap BadRecord)
        /\ checkpoint' =
            [checkpoint EXCEPT ![ModeOf(r)] = AdvancedCheckpoint(w)]
        /\ run' = [run EXCEPT ![r] = CountedRun(w)]
        /\ worker' = [worker EXCEPT ![w].phase = "persisted"]
        /\ UNCHANGED <<conn, lapsed, scheduling, available, mapping,
                       disturbances>>

(***************************************************************************)
(* continue_ingestion_work: after a page with more behind it the same run  *)
(* goes back to pending and the connection is due at once.                 *)
(***************************************************************************)
Continue(w) ==
    /\ worker[w].phase = "persisted" /\ worker[w].more
    /\ Owns(w)
    /\ run' = [run EXCEPT ![worker[w].run] =
                ReleasedRun(worker[w].run, "pending")]
    /\ conn' = Released("now", conn.retries)
    /\ lapsed' = {}
    /\ WorkerDone(w)
    /\ UNCHANGED <<checkpoint, observed, rejections, scheduling, available,
                   mapping, disturbances>>

(***************************************************************************)
(* After the last page: renew_lease on the worker's clock, then the        *)
(* analysis call, during which a guardian thread keeps renewing.           *)
(***************************************************************************)
Renewable(w) == conn.token = worker[w].token /\ w \notin lapsed

StartAnalysis(w) ==
    /\ worker[w].phase = "persisted" /\ ~worker[w].more
    /\ Renewable(w)
    /\ lapsed' = {}
    /\ worker' = [worker EXCEPT ![w].phase = "analyzing"]
    /\ UNCHANGED <<conn, run, checkpoint, observed, rejections, scheduling,
                   available, mapping, disturbances>>

GuardianRenew(w) ==
    /\ worker[w].phase = "analyzing"
    /\ Renewable(w)
    /\ lapsed # {}
    /\ lapsed' = {}
    /\ UNCHANGED <<conn, run, checkpoint, observed, rejections, worker,
                   scheduling, available, mapping, disturbances>>

(***************************************************************************)
(* complete_ingestion_work.  A run with a rejection is 'partial'; a run    *)
(* found disabled is 'partial' too and leaves next_attempt_at NULL.        *)
(***************************************************************************)
FinishedStatus(r) == IF run[r].rejected THEN "partial" ELSE "succeeded"

Finish(w, status, due) ==
    /\ Owns(w)
    /\ run' = [run EXCEPT ![worker[w].run] = ReleasedRun(worker[w].run, status)]
    /\ conn' = Released(due, 0)
    /\ lapsed' = {}
    /\ WorkerDone(w)
    /\ UNCHANGED <<checkpoint, observed, rejections, scheduling, available,
                   mapping, disturbances>>

Complete(w) ==
    /\ worker[w].phase = "analyzing"
    /\ Finish(w, FinishedStatus(worker[w].run), "later")

\* Mutant: a run cut short by a disabled connection reports success.
MutantDisabledSucceeds(w) ==
    /\ worker[w].phase = "disabling"
    /\ Finish(w, FinishedStatus(worker[w].run), "unset")

CompleteDisabled(w) ==
    /\ worker[w].phase = "disabling"
    /\ Finish(w, "partial", "unset")

(***************************************************************************)
(* record_ingestion_failure, reached from an exception at any point of     *)
(* run_once.  A retryable failure sends the run back to pending with a     *)
(* backoff; the MaxRetries-th of the connection, or one that is not        *)
(* retryable, fails the run and leaves next_attempt_at NULL.               *)
(***************************************************************************)
RetryCount == IF conn.retries + 1 < MaxRetries THEN conn.retries + 1
                                               ELSE MaxRetries
Exhausted(retryable) == ~retryable \/ RetryCount >= MaxRetries

RecordFailure(w, retryable) ==
    /\ Owns(w)
    /\ run' = [run EXCEPT ![worker[w].run] =
                ReleasedRun(worker[w].run,
                            IF Exhausted(retryable) THEN "failed" ELSE "pending")]
    /\ conn' = Released(IF Exhausted(retryable) THEN "unset" ELSE "later",
                        RetryCount)
    /\ lapsed' = {}
    /\ WorkerDone(w)
    /\ UNCHANGED <<checkpoint, observed, rejections, scheduling, available,
                   mapping, disturbances>>

\* A connector, normalisation or repository error; a checkpoint conflict
\* (retryable) would be one of them.
Fail(w, retryable) ==
    /\ worker[w].phase # "idle"
    /\ RecordFailure(w, retryable)

\* persist_ingestion_page refuses a page prepared under an older mapping.
MappingConflict(w) ==
    /\ worker[w].phase = "fetched"
    /\ LeaseAttested(w)
    /\ ~MappingCurrent(w)
    /\ RecordFailure(w, FALSE)

(***************************************************************************)
(* TelemetryLeaseLost: the transaction the worker was about to commit      *)
(* finds its lease gone, is rolled back, and run_once returns.             *)
(***************************************************************************)
LeaseLost(w) ==
    /\ \/ worker[w].phase \in {"claimed", "fetched"} /\ ~LeaseAttested(w)
       \/ worker[w].phase = "persisted" /\ worker[w].more /\ ~Owns(w)
       \/ worker[w].phase = "persisted" /\ ~worker[w].more /\ ~Renewable(w)
       \/ worker[w].phase = "analyzing" /\ (~Renewable(w) \/ ~Owns(w))
       \/ worker[w].phase = "disabling" /\ ~Owns(w)
    /\ WorkerDone(w)
    /\ UNCHANGED <<conn, lapsed, run, checkpoint, observed, rejections,
                   scheduling, available, mapping, disturbances>>

----------------------------------------------------------------------------
\* One more of the bounded number of crashes, untimely lapses and enables.
Disturb ==
    /\ disturbances < MaxDisturbances
    /\ disturbances' = disturbances + 1

(***************************************************************************)
(* API requests.                                                           *)
(***************************************************************************)
\* set_enabled(TRUE): the lifecycle update, then schedule_connection_now in
\* a transaction of its own (also on a connection already enabled).
Enable ==
    /\ ~conn.archived
    /\ conn' = [conn EXCEPT !.enabled = TRUE]
    /\ scheduling' = TRUE
    /\ Disturb
    /\ UNCHANGED <<lapsed, run, checkpoint, observed, rejections, worker,
                   available, mapping>>

ScheduleNow ==
    /\ scheduling
    /\ scheduling' = FALSE
    /\ conn' = IF conn.enabled /\ ~conn.archived
               THEN [conn EXCEPT !.due = "now", !.retries = 0]
               ELSE conn
    /\ UNCHANGED <<lapsed, run, checkpoint, observed, rejections, worker,
                   available, mapping, disturbances>>

Disable ==
    /\ conn.enabled
    /\ conn' = [conn EXCEPT !.enabled = FALSE]
    /\ UNCHANGED <<lapsed, run, checkpoint, observed, rejections, worker,
                   scheduling, available, mapping, disturbances>>

\* archive_connection clears the lease under a worker that may still run.
Archive ==
    /\ ~conn.archived
    /\ conn' = [conn EXCEPT !.enabled = FALSE, !.archived = TRUE,
                            !.token = NoToken]
    /\ lapsed' = {}
    /\ UNCHANGED <<run, checkpoint, observed, rejections, worker, scheduling,
                   available, mapping, disturbances>>

\* Mutant: a new bounded run keeps the checkpoint of the one before.
MutantKeepCheckpoint(mode, first, last, source) ==
    /\ conn.enabled /\ ~conn.archived
    /\ \E r \in RunId :
        /\ IsNewRun(r)
        /\ run' = [run EXCEPT ![r] =
                    [AbsentRun EXCEPT !.status = "pending", !.mode = mode,
                        !.first = first, !.last = last, !.source = source]]
    /\ conn' = [conn EXCEPT !.due = "now", !.retries = 0]
    /\ UNCHANGED <<lapsed, checkpoint, observed, rejections, worker,
                   scheduling, available, mapping, disturbances>>

\* Insert a pending run of the given mode, range and source, and make the
\* connection due; a bounded run starts without a backfill checkpoint.
RequestRun(mode, first, last, source) ==
    /\ conn.enabled /\ ~conn.archived
    /\ \E r \in RunId :
        /\ IsNewRun(r)
        /\ run' = [run EXCEPT ![r] =
                    [AbsentRun EXCEPT !.status = "pending", !.mode = mode,
                        !.first = first, !.last = last, !.source = source]]
    /\ checkpoint' = IF last # 0
                     THEN [checkpoint EXCEPT !["backfill"] = NoCheckpoint]
                     ELSE checkpoint
    /\ conn' = [conn EXCEPT !.due = "now", !.retries = 0]
    /\ UNCHANGED <<lapsed, observed, rejections, worker, scheduling, available,
                   mapping, disturbances>>

\* Mutant: the checkpoint is reset before the insert that may be refused.
MutantResetFirst(first, last) ==
    \/ /\ ActiveBounded = {} /\ last <= available
       /\ RequestRun("backfill", first, last, 0)
    \/ /\ ActiveBounded # {} /\ last <= available /\ conn.enabled
       /\ checkpoint' = [checkpoint EXCEPT !["backfill"] = NoCheckpoint]
       /\ UNCHANGED <<conn, lapsed, run, observed, rejections, worker,
                      scheduling, available, mapping, disturbances>>

CreateBackfill(first, last) ==
    /\ ActiveBounded = {}
    /\ last <= available
    /\ RequestRun("backfill", first, last, 0)

\* Mutant: the finished run is taken up again instead of copied.
MutantRetryInPlace(source) ==
    /\ run[source].status \in {"failed", "partial"}
    /\ conn.enabled
    /\ run' = [run EXCEPT ![source].status = "pending"]
    /\ conn' = [conn EXCEPT !.due = "now", !.retries = 0]
    /\ UNCHANGED <<lapsed, checkpoint, observed, rejections, worker, scheduling,
                   available, mapping, disturbances>>

RetryRun(source) ==
    /\ run[source].status \in {"failed", "partial"}
    /\ ActiveRetryOf(source) = {}
    /\ Bounded(source) => ActiveBounded = {}
    /\ RequestRun("retry", run[source].first, run[source].last, source)

\* save_signal_mapping or disable_signal_mapping: a new mapping revision.
EditMapping ==
    /\ mapping < MaxMappingEdits
    /\ mapping' = mapping + 1
    /\ UNCHANGED <<conn, lapsed, run, checkpoint, observed, rejections, worker,
                   scheduling, available, disturbances>>

----------------------------------------------------------------------------
(***************************************************************************)
(* The environment: the provider's feed grows, time passes, workers crash. *)
(***************************************************************************)
Produce ==
    /\ available < MaxRecord
    /\ available' = available + 1
    /\ UNCHANGED <<conn, lapsed, run, checkpoint, observed, rejections, worker,
                   scheduling, mapping, disturbances>>

BecomeDue ==
    /\ conn.due = "later"
    /\ conn' = [conn EXCEPT !.due = "now"]
    /\ UNCHANGED <<lapsed, run, checkpoint, observed, rejections, worker,
                   scheduling, available, mapping, disturbances>>

HolderAlive ==
    \E w \in Worker : worker[w].phase # "idle" /\ conn.token = worker[w].token

\* The lease passes its expiry on one clock; the clocks need not agree.  Under
\* a live holder (a slow worker, a fast clock) it is a disturbance.
Lapse(c) ==
    /\ conn.token # NoToken
    /\ c \notin lapsed
    /\ lapsed' = lapsed \cup {c}
    /\ IF HolderAlive THEN Disturb ELSE UNCHANGED disturbances
    /\ UNCHANGED <<conn, run, checkpoint, observed, rejections, worker,
                   scheduling, available, mapping>>

\* The process dies, an error escapes run_once, or the guardian gives up on a
\* database error while the lease is its own: the lease stays behind.
Crash(w) ==
    /\ worker[w].phase # "idle"
    /\ Disturb
    /\ WorkerDone(w)
    /\ UNCHANGED <<conn, lapsed, run, checkpoint, observed, rejections,
                   scheduling, available, mapping>>

WorkerStep(w) ==
    \/ Claim(w)
    \/ Fetch(w)
    \/ FindDisabled(w)
    \/ Persist(w)
    \/ MappingConflict(w)
    \/ Continue(w)
    \/ StartAnalysis(w)
    \/ Complete(w)
    \/ CompleteDisabled(w)
    \/ LeaseLost(w)

Next ==
    \/ \E w \in Worker : WorkerStep(w)
    \/ \E w \in Worker : GuardianRenew(w)
    \/ \E w \in Worker, retryable \in BOOLEAN : Fail(w, retryable)
    \/ \E w \in Worker : Crash(w)
    \/ Enable \/ ScheduleNow \/ Disable \/ Archive
    \/ \E range \in Ranges : CreateBackfill(range[1], range[2])
    \/ \E source \in RunId : RetryRun(source)
    \/ EditMapping
    \/ Produce \/ BecomeDue
    \/ \E c \in Clock : Lapse(c)

Spec == Init /\ [][Next]_vars

\* Nobody renews the lease of a crashed worker: its expiry passes in the end.
AbandonedLapse(c) == ~HolderAlive /\ Lapse(c)

\* A scheduler loop that runs keeps calling run_once, and time passes; nothing
\* is assumed of the operators, the provider's errors or the crashes.
Fairness ==
    /\ \A w \in Worker : WF_vars(WorkerStep(w))
    /\ \A c \in Clock : WF_vars(AbandonedLapse(c))
    /\ WF_vars(BecomeDue)

FairSpec == Spec /\ Fairness

----------------------------------------------------------------------------
(***************************************************************************)
(* Correctness.                                                            *)
(***************************************************************************)
TypeOK ==
    /\ conn \in ConnRow
    /\ lapsed \subseteq Clock
    /\ run \in [RunId -> RunRow]
    /\ checkpoint \in [CheckpointMode -> CheckpointRow]
    /\ observed \in [Record -> 0..MaxRuns]
    /\ rejections \subseteq Record
    /\ worker \in [Worker -> WorkerLocals]
    /\ scheduling \in BOOLEAN
    /\ available \in 0..MaxRecord
    /\ mapping \in 0..MaxMappingEdits
    /\ disturbances \in 0..MaxDisturbances

\* A lease on the connection belongs to exactly one running run, and no
\* connection ever has two running runs, whatever crashed, lapsed or was
\* reclaimed (claim_next_due_work takes up a running run before any other).
LeaseOwnsOneRun ==
    /\ conn.token # NoToken =>
        \E r \in RunId : run[r].status = "running" /\ run[r].token = conn.token
    /\ \A r, q \in RunId :
        run[r].status = "running" /\ run[q].status = "running" => r = q

\* No two workers can commit against the connection: however far the clocks
\* disagree and whoever is slow, at most one of the workers that believe they
\* hold the lease still passes the check of its next transaction.
LeaseExclusive ==
    \A w, v \in Worker :
        /\ worker[w].phase # "idle" /\ Owns(w)
        /\ worker[v].phase # "idle" /\ Owns(v)
        => w = v

\* A record is durable when it is stored, or recorded as rejected.
Durable == {x \in Record : observed[x] # 0} \cup rejections

\* "Checkpoints advance only with durable page writes": nothing the
\* incremental cursor has passed is missing from the observations and the
\* rejections, so that no crash, lost lease or failed page loses a record.
NoLossBehindCheckpoint ==
    1 .. checkpoint["incremental"].cursor \subseteq Durable

\* A backfill or bounded retry that reports success has every record of its
\* range among the observations, however often it was interrupted, reclaimed
\* and resumed (complete_ingestion_work, create_backfill_run).
SucceededRangeStored ==
    \A r \in RunId : Bounded(r) /\ run[r].status = "succeeded" =>
        \A x \in run[r].first .. run[r].last : observed[x] # 0

\* The observations_accepted counter of a run is exactly the number of rows
\* that name the run, although pages are fetched again after a crash and
\* late workers try to write (persist_ingestion_page).
AccountingExact ==
    \A r \in RunId :
        run[r].accepted = Cardinality({x \in Record : observed[x] = r})

\* While a worker's lease is attested nobody else moves the checkpoint its
\* page will replace: the compare-and-swap can only fail after the lease did.
CheckpointStableUnderLease ==
    \A w \in Worker :
        worker[w].phase = "fetched" /\ LeaseAttested(w) =>
            checkpoint[ModeOf(worker[w].run)].revision = worker[w].revision

\* A finished run is history: no later claim, page, completion or failure
\* changes its row.
FinishedRunsFrozen ==
    [][\A r \in RunId : Terminal(r) => run'[r] = run[r]]_vars

\* The backfill checkpoint is never reset under a bounded run that still has
\* pages to read ("a rejected overlapping request cannot even issue the
\* destructive statement").
BackfillProgressKept ==
    [][\A r \in RunId : Active(r) /\ Bounded(r) /\ Active(r)' =>
        checkpoint'["backfill"].revision >= checkpoint["backfill"].revision]_vars

\* What create_backfill_run promises for the backfills it inserts ("make it
\* immediately due"): while the connection is enabled and no lease is held, a
\* pending backfill has a next attempt, so that some worker can claim it.
BackfillImmediatelyDue ==
    \A r \in RunId :
        /\ run[r].mode = "backfill" /\ run[r].status = "pending"
        /\ conn.enabled /\ conn.token = NoToken
        => conn.due # "unset"

\* Every run that is waiting or running is finished some time, through any
\* crash, lapse, reclaim, retry or continuation, unless the connection is
\* disabled or left without a next attempt.
RunsFinish ==
    \A r \in RunId :
        Active(r) ~> (Terminal(r) \/ ~conn.enabled \/ conn.due = "unset")

\* The promise of DurableDelivery, read off the rows of the repository.
Delivery == INSTANCE DurableDelivery WITH
    durable <- Durable,
    cursor <- checkpoint["incremental"].cursor,
    outcome <- [r \in RunId |->
                    IF Active(r) THEN "open"
                    ELSE IF Terminal(r) THEN run[r].status ELSE "none"],
    range <- [r \in RunId |-> <<run[r].first, run[r].last>>]

\* The worker and the repository implement that promise.
DeliverySpec == Delivery!Spec
=============================================================================
