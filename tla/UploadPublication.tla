------------------------- MODULE UploadPublication --------------------------
(***************************************************************************)
(* One upload job of Neraium, from its acceptance to the terminal state    *)
(* that a polling client sees.  Queue workers claim the job, report        *)
(* progress and finish it (upload_queue_lifecycle.py, upload_jobs.py), API *)
(* requests retry it (routers/data.py), and every process that starts      *)
(* recovers a job that seems abandoned (runtime_db.py).  They share        *)
(*   - a mutable status object per job, the attempt pointer, which never   *)
(*     holds a terminal state (upload_state_repository.py);                *)
(*   - one immutable envelope and one immutable result bundle per attempt, *)
(*     created with "if none match";                                       *)
(*   - the private row of the job, a mirror that workers read at the start;*)
(*   - the queue row, whose transitions are serialised among all processes *)
(*     by an advisory lock (runtime_postgres.shared_queue_transaction).    *)
(* Nothing else is atomic: write_job reads the status, decides, writes it, *)
(* and writes the private row, and any other process may act in between.   *)
(***************************************************************************)
EXTENDS Naturals

CONSTANTS
    Worker,          \* queue worker processes
    Request,         \* API processes that handle a retry
    Nobody,          \* no publisher
    MaxRetry,        \* bound: retries of the job
    MaxProgress,     \* bound: progress reports per claim
    MaxDisturbances  \* bound: crashes, and recoveries under a live worker

Process == Worker \cup Request
Attempt == 0..MaxRetry

ASSUME ProcessAssumption == Worker \cap Request = {} /\ Nobody \notin Process
ASSUME BoundAssumption ==
    MaxRetry \in Nat /\ MaxProgress \in Nat /\ MaxDisturbances \in Nat

VARIABLES
    pointer,     \* the attempt that upload_status_<job> names
    envelope,    \* upload_terminal_<job>_<attempt>
    bundle,      \* upload_terminal_result_<job>_<attempt>: who wrote it
    row,         \* the private row of upload_jobs: its attempt and retry mark
    queue,       \* the status of the queue row
    local,       \* what each process holds between two accesses
    recovery,    \* what the startup recovery in progress holds
    issued,      \* retry marks (retry_requested_at timestamps) given so far
    disturbances \* crashes and untimely recoveries so far

vars == <<pointer, envelope, bundle, row, queue, local, recovery, issued,
          disturbances>>

(***************************************************************************)
(* Attempt 0 is the original one, without a retry mark; attempt n is named *)
(* after the n-th mark.  A status document carries its attempt, its mark   *)
(* (0 if it has none) and its state.                                       *)
(***************************************************************************)
Outcome == {"complete", "failed"}
State == {"active"} \cup Outcome
Document == [att : Attempt, mark : Attempt, state : State]
Original == [att |-> 0, mark |-> 0, state |-> "active"]

NoEnvelope == [state |-> "none", result |-> Nobody]

\* What a process does next: reading, publishing and recording are the three
\* accesses of write_job, which goes on with local[p].next; bundling, announcing
\* and closing are those of write_upload_completion and its caller.
Phase == {"idle", "claimed", "working", "reading", "publishing", "recording",
          "bundling", "announcing", "closing", "concluding", "completing",
          "failing", "refailing", "enqueueing"}

Idle == [phase |-> "idle", next |-> "idle", metadata |-> Original,
         draft |-> Original, seen |-> Original, progress |-> 0]

NoRecovery == [phase |-> "idle", att |-> 0, outcome |-> "failed"]

Init ==
    /\ pointer = 0
    /\ envelope = [a \in Attempt |-> NoEnvelope]
    /\ bundle = [a \in Attempt |-> Nobody]
    /\ row = Original
    /\ queue = "pending"
    /\ local = [p \in Process |-> Idle]
    /\ recovery = NoRecovery
    /\ issued = 0
    /\ disturbances = 0

Decided(a) == envelope[a].state # "none"

\* The summary of a completed attempt carries no retry mark.
DocumentOf(a, state) ==
    [att |-> a, mark |-> IF state = "complete" THEN 0 ELSE a, state |-> state]

\* read_upload_status: the envelope of the pointer's attempt, or the pointer.
View == DocumentOf(pointer, IF Decided(pointer) THEN envelope[pointer].state
                                                ELSE "active")

\* insert_shared_state_strict: the first writer wins.
Inserted(a, state, result) ==
    IF Decided(a) THEN envelope
    ELSE [envelope EXCEPT ![a] = [state |-> state, result |-> result]]

\* The queue row is free unless a recovery holds the advisory lock.
QueueFree == recovery.phase = "idle"

Goto(p, phase) == local' = [local EXCEPT ![p].phase = phase]

\* Call write_job(doc), and go on with next; what p held is not needed again.
Write(p, doc, next) ==
    local' = [local EXCEPT ![p] = [Idle EXCEPT !.phase = "reading",
                                              !.draft = doc, !.next = next]]

----------------------------------------------------------------------------
(***************************************************************************)
(* write_job, by a worker or by a request, in three accesses.              *)
(*                                                                         *)
(* _scope_job_payload.  A retry mark other than that of the current status *)
(* starts an attempt of its own.  A document of another attempt, and one   *)
(* that would reopen the attempt, are replaced by the current status.      *)
(***************************************************************************)
StartsRetry(doc, seen) == doc.mark # 0 /\ doc.mark # seen.mark

ScopedDraft(doc, seen) ==
    LET att == IF StartsRetry(doc, seen) THEN doc.mark ELSE doc.att
    IN  IF \/ ~StartsRetry(doc, seen) /\ att # seen.att
           \/ doc.state = "active" /\ seen.state # "active" /\ att = seen.att
        THEN seen
        ELSE [doc EXCEPT !.att = att]

ReadExisting(p) ==
    /\ local[p].phase = "reading"
    /\ local' = [local EXCEPT ![p] =
            [@ EXCEPT !.phase = "publishing",
                      !.draft = ScopedDraft(local[p].draft, View),
                      !.seen = View]]
    /\ UNCHANGED <<pointer, envelope, bundle, row, queue, recovery, issued,
                   disturbances>>

\* write_upload_status, with the status that write_job has read: a progress
\* document is written over the pointer, whatever the pointer says by now.
MovePointer(p) ==
    /\ local[p].phase = "publishing"
    /\ local[p].draft.state = "active"
    /\ pointer' = local[p].draft.att
    /\ Goto(p, "recording")
    /\ UNCHANGED <<envelope, bundle, row, queue, recovery, issued,
                   disturbances>>

\* A failure of the attempt that was current when the status was read.
FirstFailure(p) ==
    /\ local[p].draft.state = "failed"
    /\ local[p].seen.state = "active"
    /\ local[p].draft.att = local[p].seen.att

\* Mutant: the envelope is written with a plain put.
MutantOverwrite(p) ==
    /\ local[p].phase = "publishing"
    /\ FirstFailure(p)
    /\ envelope' = [envelope EXCEPT ![local[p].draft.att] =
                        [state |-> "failed", result |-> Nobody]]
    /\ Goto(p, "recording")
    /\ UNCHANGED <<pointer, bundle, row, queue, recovery, issued, disturbances>>

PublishFailure(p) ==
    /\ local[p].phase = "publishing"
    /\ FirstFailure(p)
    /\ LET a == local[p].draft.att
       IN  /\ envelope' = Inserted(a, "failed", Nobody)
           /\ local' = [local EXCEPT ![p] =
                    [@ EXCEPT !.phase = "recording",
                              !.draft = DocumentOf(a, envelope'[a].state)]]
    /\ UNCHANGED <<pointer, bundle, row, queue, recovery, issued, disturbances>>

\* Any other terminal document: the current status stands.
PublishNothing(p) ==
    /\ local[p].phase = "publishing"
    /\ local[p].draft.state # "active"
    /\ ~FirstFailure(p)
    /\ local' = [local EXCEPT ![p] =
            [@ EXCEPT !.phase = "recording", !.draft = local[p].seen]]
    /\ UNCHANGED <<pointer, envelope, bundle, row, queue, recovery, issued,
                   disturbances>>

\* _persist_job_record: the private row follows, later.
Record(p) ==
    /\ local[p].phase = "recording"
    /\ row' = local[p].draft
    /\ local' = [local EXCEPT
            ![p] = IF @.next = "working"
                   THEN [Idle EXCEPT !.phase = "working",
                                     !.metadata = local[p].metadata,
                                     !.progress = local[p].progress]
                   ELSE IF @.next = "enqueueing"
                   THEN [Idle EXCEPT !.phase = "enqueueing",
                                     !.metadata = local[p].metadata]
                   ELSE [Idle EXCEPT !.phase = local[p].next]]
    /\ UNCHANGED <<pointer, envelope, bundle, queue, recovery, issued,
                   disturbances>>

WriteJob(p) ==
    \/ ReadExisting(p) \/ MovePointer(p)
    \/ PublishFailure(p) \/ PublishNothing(p) \/ Record(p)

----------------------------------------------------------------------------
(***************************************************************************)
(* A queue worker.                                                         *)
(***************************************************************************)
Claim(w) ==
    /\ local[w].phase = "idle"
    /\ queue = "pending" /\ QueueFree
    /\ queue' = "processing"
    /\ Goto(w, "claimed")
    /\ UNCHANGED <<pointer, envelope, bundle, row, recovery, issued,
                   disturbances>>

\* _read_processing_metadata: the private row over the public status.
Metadata ==
    [row EXCEPT !.mark = IF row.mark # 0 THEN row.mark ELSE View.mark]

\* The first document of a claim says PROCESSING, or that the stored file
\* could not be opened; both carry the attempt and mark of the metadata.
Start(w) ==
    /\ local[w].phase = "claimed"
    /\ \E state \in {"active", "failed"} :
        local' = [local EXCEPT ![w] =
            [@ EXCEPT !.phase = "reading",
                      !.metadata = Metadata,
                      !.draft = [Metadata EXCEPT !.state = state],
                      !.next = IF state = "active" THEN "working"
                                                   ELSE "failing"]]
    /\ UNCHANGED <<pointer, envelope, bundle, row, queue, recovery, issued,
                   disturbances>>

\* The stored file is gone because another claim has completed the job.
FindCompleted(w) ==
    /\ local[w].phase = "claimed"
    /\ View.state = "complete"
    /\ Goto(w, "completing")
    /\ UNCHANGED <<pointer, envelope, bundle, row, queue, recovery, issued,
                   disturbances>>

\* A stage or progress callback: the status as it reads now, and PROCESSING.
Progress(w) ==
    /\ local[w].phase = "working"
    /\ local[w].progress < MaxProgress
    /\ local' = [local EXCEPT ![w] =
            [@ EXCEPT !.phase = "reading",
                      !.draft = [View EXCEPT !.state = "active"],
                      !.next = "working",
                      !.progress = local[w].progress + 1]]
    /\ UNCHANGED <<pointer, envelope, bundle, row, queue, recovery, issued,
                   disturbances>>

\* An exception: the current status over the metadata, and FAILED.
Raise(w) ==
    /\ local[w].phase = "working"
    /\ Write(w, [att |-> View.att, state |-> "failed",
                 mark |-> IF View.mark # 0 THEN View.mark
                                           ELSE local[w].metadata.mark],
             "failing")
    /\ UNCHANGED <<pointer, envelope, bundle, row, queue, recovery, issued,
                   disturbances>>

\* A timeout: the metadata as it was read at the claim, and TIMEOUT.
TimeOut(w) ==
    /\ local[w].phase = "working"
    /\ Write(w, [local[w].metadata EXCEPT !.state = "failed"], "failing")
    /\ UNCHANGED <<pointer, envelope, bundle, row, queue, recovery, issued,
                   disturbances>>

\* write_upload_completion.  A completion names no attempt, so it is one of
\* the attempt that is current.  If that has its envelope, nothing is written.
BeginCompletion(w) ==
    /\ local[w].phase = "working"
    /\ local' = [local EXCEPT ![w] =
            [Idle EXCEPT !.phase = IF Decided(pointer) THEN "concluding"
                                                       ELSE "bundling",
                         !.draft = View]]
    /\ UNCHANGED <<pointer, envelope, bundle, row, queue, recovery, issued,
                   disturbances>>

StoreBundle(w) ==
    /\ local[w].phase = "bundling"
    /\ bundle' = IF bundle[local[w].draft.att] = Nobody
                 THEN [bundle EXCEPT ![local[w].draft.att] = w] ELSE bundle
    /\ Goto(w, "announcing")
    /\ UNCHANGED <<pointer, envelope, row, queue, recovery, issued,
                   disturbances>>

\* Mutant: the envelope refers to the result the worker has computed.
MutantOwnResult(w) == w

\* The bundle that was stored first is the one the envelope refers to.
CanonicalResult(w) == bundle[local[w].draft.att]

\* write_upload_status with the status read afresh: nothing is published for
\* an attempt that is no longer current.
Announce(w) ==
    LET a == local[w].draft.att
    IN  /\ local[w].phase = "announcing"
        /\ envelope' = IF a = pointer
                       THEN Inserted(a, "complete", CanonicalResult(w))
                       ELSE envelope
        /\ Goto(w, IF a = pointer /\ envelope'[a].state = "complete"
                   THEN "closing" ELSE "concluding")
        /\ UNCHANGED <<pointer, bundle, row, queue, recovery, issued,
                       disturbances>>

\* complete_upload_queue_job(completed) leaves a pending or failed row alone.
CompleteRow == IF queue = "processing" THEN "completed" ELSE queue

\* _persist_completed_upload closes the row; an error is ignored there.
Close(w) ==
    /\ local[w].phase = "closing"
    /\ QueueFree
    /\ queue' \in {queue, CompleteRow}
    /\ Goto(w, "concluding")
    /\ UNCHANGED <<pointer, envelope, bundle, row, recovery, issued,
                   disturbances>>

\* _process_claimed_upload_job reads the status again: whatever is not
\* complete by now is written as a failure.
Conclude(w) ==
    /\ local[w].phase = "concluding"
    /\ IF View.state = "complete"
       THEN Goto(w, "completing")
       ELSE Write(w, [View EXCEPT !.state = "failed"], "failing")
    /\ UNCHANGED <<pointer, envelope, bundle, row, queue, recovery, issued,
                   disturbances>>

Complete(w) ==
    /\ local[w].phase = "completing"
    /\ QueueFree
    /\ queue' = CompleteRow
    /\ local' = [local EXCEPT ![w] = Idle]
    /\ UNCHANGED <<pointer, envelope, bundle, row, recovery, issued,
                   disturbances>>

\* mark_queue_job_failed, then complete_upload_queue_job(failed): both leave
\* only a completed row alone.
FailedRow == IF queue = "completed" THEN queue ELSE "failed"

Fail(w) ==
    /\ local[w].phase \in {"failing", "refailing"}
    /\ QueueFree
    /\ queue' = FailedRow
    /\ local' = [local EXCEPT ![w] = IF @.phase = "failing"
                                     THEN [@ EXCEPT !.phase = "refailing"]
                                     ELSE Idle]
    /\ UNCHANGED <<pointer, envelope, bundle, row, recovery, issued,
                   disturbances>>

----------------------------------------------------------------------------
(***************************************************************************)
(* retry_upload_analysis.  An active or completed job is the answer as it  *)
(* is; a failed one is written as queued under a new retry mark (the copy  *)
(* keeps the attempt it was read with), and enqueued.                      *)
(***************************************************************************)
AskRetry(q) ==
    /\ local[q].phase = "idle"
    /\ View.state = "failed"
    /\ issued < MaxRetry
    /\ issued' = issued + 1
    /\ LET retried == [View EXCEPT !.mark = issued + 1]
       IN  local' = [local EXCEPT ![q] =
            [@ EXCEPT !.phase = "reading",
                      !.metadata = retried,
                      !.draft = [retried EXCEPT !.state = "active"],
                      !.next = "enqueueing"]]
    /\ UNCHANGED <<pointer, envelope, bundle, row, queue, recovery,
                   disturbances>>

\* enqueue_upload_job ignores a row that is pending or processing.
Enqueue(q) ==
    /\ local[q].phase = "enqueueing"
    /\ QueueFree
    /\ queue' = IF queue = "processing" THEN queue ELSE "pending"
    /\ local' = [local EXCEPT ![q] = Idle]
    /\ UNCHANGED <<pointer, envelope, bundle, row, recovery, issued,
                   disturbances>>

\* The queue cannot be written: the same copy is written as a failure.
EnqueueFails(q) ==
    /\ local[q].phase = "enqueueing"
    /\ Write(q, [local[q].metadata EXCEPT !.state = "failed"], "idle")
    /\ UNCHANGED <<pointer, envelope, bundle, row, queue, recovery, issued,
                   disturbances>>

----------------------------------------------------------------------------
(***************************************************************************)
(* clear_stale_processing_queue_jobs, at the start of any API process.  It *)
(* holds the queue lock from the first access to the last, and publishes   *)
(* the failure before it settles the queue row.                            *)
(***************************************************************************)
Disturb ==
    /\ disturbances < MaxDisturbances
    /\ disturbances' = disturbances + 1

WorkerAlive == \E w \in Worker : local[w].phase # "idle"

\* Mutant: a job that is terminal already is not looked at.
MutantRecoverActive ==
    /\ recovery.phase = "idle"
    /\ queue = "processing" /\ View.state = "active"
    /\ recovery' = [phase |-> "publishing", att |-> View.att,
                    outcome |-> "failed"]
    /\ IF WorkerAlive THEN Disturb ELSE UNCHANGED disturbances
    /\ UNCHANGED <<pointer, envelope, bundle, row, queue, local, issued>>

\* The row's heartbeat is old.  That it is old although a worker is alive (its
\* heartbeats failed) is a disturbance.
Recover ==
    /\ recovery.phase = "idle"
    /\ queue = "processing"
    /\ recovery' = IF View.state = "active"
                   THEN [phase |-> "publishing", att |-> View.att,
                         outcome |-> "failed"]
                   ELSE [phase |-> "settling", att |-> View.att,
                         outcome |-> View.state]
    /\ IF WorkerAlive THEN Disturb ELSE UNCHANGED disturbances
    /\ UNCHANGED <<pointer, envelope, bundle, row, queue, local, issued>>

\* write_upload_status reads the pointer again: if it has moved, the row is
\* left for another recovery.
PublishInterruption ==
    /\ recovery.phase = "publishing"
    /\ IF pointer = recovery.att
       THEN /\ envelope' = Inserted(pointer, "failed", Nobody)
            /\ recovery' = [recovery EXCEPT !.phase = "recording",
                                !.outcome = envelope'[pointer].state]
       ELSE /\ recovery' = NoRecovery
            /\ UNCHANGED envelope
    /\ UNCHANGED <<pointer, bundle, row, queue, local, issued, disturbances>>

RecordInterruption ==
    /\ recovery.phase = "recording"
    /\ row' = DocumentOf(recovery.att, recovery.outcome)
    /\ recovery' = [recovery EXCEPT !.phase = "settling"]
    /\ UNCHANGED <<pointer, envelope, bundle, queue, local, issued,
                   disturbances>>

\* Mutant: the row is settled before anything is published.
MutantSettleFirst ==
    /\ recovery.phase \in {"publishing", "settling"}
    /\ queue' = IF recovery.outcome = "complete" THEN "completed" ELSE "failed"
    /\ recovery' = NoRecovery
    /\ UNCHANGED <<pointer, envelope, bundle, row, local, issued, disturbances>>

\* Mutant: the status vocabulary of the envelope is written to the row.
MutantSettleRaw ==
    /\ recovery.phase = "settling"
    /\ queue' = recovery.outcome
    /\ recovery' = NoRecovery
    /\ UNCHANGED <<pointer, envelope, bundle, row, local, issued, disturbances>>

Settle ==
    /\ recovery.phase = "settling"
    /\ queue' = IF recovery.outcome = "complete" THEN "completed" ELSE "failed"
    /\ recovery' = NoRecovery
    /\ UNCHANGED <<pointer, envelope, bundle, row, local, issued, disturbances>>

RecoveryStep == PublishInterruption \/ RecordInterruption \/ Settle

\* A process dies with what it holds; its lock, if any, is released.
Crash(p) ==
    /\ local[p].phase # "idle"
    /\ Disturb
    /\ local' = [local EXCEPT ![p] = Idle]
    /\ UNCHANGED <<pointer, envelope, bundle, row, queue, recovery, issued>>

CrashRecovery ==
    /\ recovery.phase # "idle"
    /\ Disturb
    /\ recovery' = NoRecovery
    /\ UNCHANGED <<pointer, envelope, bundle, row, queue, local, issued>>

WorkerStep(w) ==
    \/ Claim(w) \/ Start(w) \/ FindCompleted(w)
    \/ Progress(w) \/ Raise(w) \/ TimeOut(w)
    \/ BeginCompletion(w) \/ StoreBundle(w) \/ Announce(w) \/ Close(w)
    \/ Conclude(w) \/ Complete(w) \/ Fail(w)
    \/ WriteJob(w)

RequestStep(q) ==
    AskRetry(q) \/ Enqueue(q) \/ EnqueueFails(q) \/ WriteJob(q)

Next ==
    \/ \E w \in Worker : WorkerStep(w)
    \/ \E q \in Request : RequestStep(q)
    \/ Recover \/ RecoveryStep \/ CrashRecovery
    \/ \E p \in Process : Crash(p)

Spec == Init /\ [][Next]_vars

\* A worker loop that runs calls process_next_queued_upload_job again and again
\* and each call ends.  API processes are started again and again, by
\* deployments and by scaling, also when the heartbeats of a dead worker have
\* become old: only then is its job recovered.  Nothing is assumed of requests.
AbandonedRecover == ~WorkerAlive /\ Recover

Fairness ==
    /\ \A w \in Worker : WF_vars(WorkerStep(w))
    /\ WF_vars(RecoveryStep)
    /\ WF_vars(AbandonedRecover)

FairSpec == Spec /\ Fairness

----------------------------------------------------------------------------
(***************************************************************************)
(* Correctness.                                                            *)
(***************************************************************************)
Locals == [phase : Phase, next : {"idle", "working", "failing", "enqueueing"},
           metadata : Document, draft : Document, seen : Document,
           progress : 0..MaxProgress]

TypeOK ==
    /\ pointer \in Attempt
    /\ envelope \in [Attempt -> [state : Outcome \cup {"none"},
                                  result : Worker \cup {Nobody}]]
    /\ bundle \in [Attempt -> Worker \cup {Nobody}]
    /\ row \in Document
    /\ queue \in {"pending", "processing", "completed", "failed"}
    /\ local \in [Process -> Locals]
    /\ recovery \in [phase : {"idle", "publishing", "recording", "settling"},
                      att : Attempt, outcome : Outcome]
    /\ issued \in 0..MaxRetry
    /\ disturbances \in 0..MaxDisturbances

\* "Duplicate publishers cannot mix one publisher's status with another
\* publisher's result": a complete envelope refers to the bundle its attempt
\* has, whoever stored that and whoever announced it (write_upload_completion).
CompleteHasItsResult ==
    \A a \in Attempt : envelope[a].state = "complete" =>
        envelope[a].result = bundle[a] /\ bundle[a] # Nobody

\* The dispatch row never settles on an outcome that no attempt has: recovery,
\* completion and failure all publish before they touch the row, in every
\* interleaving and after every crash.
RowSettledTruthfully ==
    /\ queue = "completed" => \E a \in Attempt : envelope[a].state = "complete"
    /\ queue = "failed" => \E a \in Attempt : envelope[a].state = "failed"

\* A job that waits in the queue is taken and settled in the end, whichever
\* worker dies on the way.
RowSettles == queue = "pending" ~> queue \in {"completed", "failed"}

\* "A valid retry can progress": when nobody is at work on the job, it is
\* terminal for its readers or it still waits in the queue.
AtRest == (\A p \in Process : local[p].phase = "idle") /\ recovery.phase = "idle"

NoStrandedAttempt ==
    AtRest /\ View.state = "active" => queue \in {"pending", "processing"}

\* ... which holds until the first retry is granted: workers, recoveries and
\* crashes by themselves never leave an active job behind a settled row.
StrandedOnlyAfterRetry == issued = 0 => NoStrandedAttempt

\* The promise of TerminalRegister, read off the object store.
Register == INSTANCE TerminalRegister WITH
    Publisher <- Worker,
    outcome <- [a \in Attempt |-> IF Decided(a) THEN envelope[a].state
                                               ELSE "open"],
    result <- bundle

\* Workers, requests and recoveries together implement that promise.
RegisterSpec == Register!Spec
=============================================================================
