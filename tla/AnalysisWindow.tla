--------------------------- MODULE AnalysisWindow ---------------------------
(***************************************************************************)
(* The analysis that follows the last page of an ingestion run             *)
(* (telemetry_analysis_service.py, and the analysis window methods of      *)
(* telemetry_repository.py).  A worker that holds the lease of the         *)
(* connection derives a window from the observations of the run, persists  *)
(* it, claims it with a token that expires, evaluates it, and publishes    *)
(* the artifact together with the terminal status; then it completes the   *)
(* run, whatever the analysis came to.  If it dies, or its lease lapses,   *)
(* another worker reads the last page again and visits the analysis of the *)
(* same run.  Every repository method is one transaction and one action.   *)
(***************************************************************************)
EXTENDS Naturals

CONSTANTS
    Worker,          \* scheduler workers, each with its own clock
    Nobody,          \* no worker, no claim
    MaxGrowth,       \* bound: visits that find newer observations in the run
    MaxEdits,        \* bound: mapping edits
    MaxDisturbances  \* bound: crashes, lapses under live workers, lost commits

ASSUME NobodyAssumption == Nobody \notin Worker
ASSUME BoundAssumption ==
    MaxGrowth \in Nat /\ MaxEdits \in Nat /\ MaxDisturbances \in Nat

\* deterministic_analysis_window_id: the end of a window is the latest
\* observation of the run, so a run has one window for each end it had.
Window == 0..MaxGrowth

\* The observations in the range of a window, as the mappings have them.
Content == 0..MaxEdits

VARIABLES
    run,         \* the ingestion run: open or finished
    lease,       \* the worker that the lease of the connection names
    latest,      \* the window that the observations of the run lead to
    content,     \* what an analysis of that window would read now
    row,         \* telemetry.analysis_windows
    expired,     \* the clocks on which the claim of a window has expired
    artifact,    \* analysis_result_artifacts: the content analysed
    executions,  \* evaluations started, by window
    worker,      \* what run_post_ingestion_analysis holds
    disturbances \* crashes, lapses and lost commits so far

vars == <<run, lease, latest, content, row, expired, artifact, executions,
          worker, disturbances>>

Terminal == {"completed", "failed", "ineligible"}
Status == {"none", "eligible", "running"} \cup Terminal
Phase == {"idle", "reading", "recovering", "preparing", "claiming",
          "rereading", "claimed", "finishing", "raised", "done"}

NoRow == [status |-> "none", holder |-> Nobody, content |-> 0]
NoArtifact == MaxEdits + 1
Idle == [phase |-> "idle", window |-> 0, content |-> 0, target |-> "failed"]

Init ==
    /\ run = "open"
    /\ lease = Nobody
    /\ latest = 0
    /\ content = 0
    /\ row = [x \in Window |-> NoRow]
    /\ expired = [x \in Window |-> {}]
    /\ artifact = [x \in Window |-> NoArtifact]
    /\ executions = [x \in Window |-> 0]
    /\ worker = [w \in Worker |-> Idle]
    /\ disturbances = 0

\* What a worker holds from now on, of the window it works on.
Hold(w, phase, read, target) ==
    worker' = [worker EXCEPT ![w] =
        [phase |-> phase, window |-> @.window, content |-> read,
         target |-> target]]

Goto(w, phase) == Hold(w, phase, worker[w].content, worker[w].target)

SetRow(x, status, holder) ==
    row' = [row EXCEPT ![x] =
        [status |-> status, holder |-> holder, content |-> @.content]]

Disturb ==
    /\ disturbances < MaxDisturbances
    /\ disturbances' = disturbances + 1

\* The row of the window that w works on.
Current(w) == row[worker[w].window]

Alive(w) == w # Nobody /\ worker[w].phase # "idle"

----------------------------------------------------------------------------
(***************************************************************************)
(* A worker that has claimed the connection and stored the last page of    *)
(* the run begins its analysis.  It takes the lease from a worker that is  *)
(* dead, or under one whose lease has lapsed.                              *)
(***************************************************************************)
Visit(w) ==
    /\ run = "open"
    /\ worker[w].phase = "idle"
    /\ IF Alive(lease) THEN Disturb ELSE UNCHANGED disturbances
    /\ lease' = w
    /\ latest' \in {latest, latest + 1} \cap Window
    /\ worker' = [worker EXCEPT ![w] =
            [phase |-> "reading", window |-> latest', content |-> 0,
             target |-> "failed"]]
    /\ UNCHANGED <<run, content, row, expired, artifact, executions>>

\* get_analysis_window: a terminal window is the answer, a running one is
\* looked at more closely, any other one is prepared.
AfterReading(status) ==
    CASE status \in Terminal -> "done"
      [] status = "running" -> "recovering"
      [] OTHER -> "preparing"

ReadExisting(w) ==
    /\ worker[w].phase = "reading"
    /\ Goto(w, AfterReading(Current(w).status))
    /\ UNCHANGED <<run, lease, latest, content, row, expired, artifact,
                   executions, disturbances>>

\* process_ingestion_run finds nothing eligible: the run has no window, or its
\* observations have lost their mapping since.
NoObservations(w) ==
    /\ worker[w].phase = "reading"
    /\ Goto(w, "done")
    /\ UNCHANGED <<run, lease, latest, content, row, expired, artifact,
                   executions, disturbances>>

\* Mutant: a recovered window may be claimed again.
MutantRecoverEligible(w) ==
    LET x == worker[w].window
    IN  /\ worker[w].phase = "recovering"
        /\ row[x].status = "running" /\ w \in expired[x]
        /\ SetRow(x, "eligible", Nobody)
        /\ Goto(w, "done")
        /\ UNCHANGED <<run, lease, latest, content, expired, artifact,
                       executions, disturbances>>

\* recover_stale_analysis_window_execution: an expired claim fails the window.
Recover(w) ==
    LET x == worker[w].window
    IN  /\ worker[w].phase = "recovering"
        /\ row[x].status = "running" /\ w \in expired[x]
        /\ SetRow(x, "failed", Nobody)
        /\ Goto(w, "done")
        /\ UNCHANGED <<run, lease, latest, content, expired, artifact,
                       executions, disturbances>>

\* The claim has not expired, or it had not when the worker read its clock, or
\* the window has become terminal: the visit ends here.
LeaveRunning(w) ==
    /\ worker[w].phase = "recovering"
    /\ Goto(w, "done")
    /\ UNCHANGED <<run, lease, latest, content, row, expired, artifact,
                   executions, disturbances>>

\* persist_analysis_window inserts the row, or accepts one that is equal to it.
\* Nothing equals a failed or ineligible row: its reasons are merged into the
\* quality summary that is compared.
Persistable(w) ==
    \/ Current(w).status = "none"
    \/ /\ Current(w).status \in {"eligible", "running", "completed"}
       /\ Current(w).content = content

\* What is stored when w has prepared the window from this content.
Prepared(w) ==
    IF Current(w).status # "none" THEN Current(w)
    ELSE [status |-> "eligible", holder |-> Nobody, content |-> content]

\* The row is stored, or found equal; a completed one needs no evaluation.
Stored(w) ==
    /\ row' = [row EXCEPT ![worker[w].window] = Prepared(w)]
    /\ Hold(w, IF Prepared(w).status = "completed" THEN "done" ELSE "claiming",
            content, worker[w].target)

\* Mutant: a row that exists is taken as it is.
MutantPersistAny(w) ==
    /\ worker[w].phase = "preparing"
    /\ Stored(w)
    /\ UNCHANGED <<run, lease, latest, content, expired, artifact, executions,
                   disturbances>>

Persist(w) ==
    /\ worker[w].phase = "preparing"
    /\ Persistable(w)
    /\ Stored(w)
    /\ UNCHANGED <<run, lease, latest, content, expired, artifact, executions,
                   disturbances>>

\* Mutant: the reason is taken for the status.
MutantIneligibleReason(w) ==
    /\ worker[w].phase = "preparing"
    /\ Current(w).status = "none"
    /\ SetRow(worker[w].window, "authority_missing", Nobody)
    /\ Goto(w, "done")
    /\ UNCHANGED <<run, lease, latest, content, expired, artifact, executions,
                   disturbances>>

\* _persist_ineligible: authority, coverage or quality is missing.
PersistIneligible(w) ==
    /\ worker[w].phase = "preparing"
    /\ Current(w).status = "none"
    /\ SetRow(worker[w].window, "ineligible", Nobody)
    /\ Goto(w, "done")
    /\ UNCHANGED <<run, lease, latest, content, expired, artifact, executions,
                   disturbances>>

\* The row is not the one that was prepared, or a query failed: the window is
\* read once more.
PreparationConflict(w) ==
    /\ worker[w].phase = "preparing"
    /\ Goto(w, "rereading")
    /\ UNCHANGED <<run, lease, latest, content, row, expired, artifact,
                   executions, disturbances>>

\* claim_analysis_window_execution.
Claim(w) ==
    LET x == worker[w].window
    IN  /\ worker[w].phase = "claiming"
        /\ row[x].status = "eligible" /\ row[x].holder = Nobody
        /\ SetRow(x, "running", w)
        /\ expired' = [expired EXCEPT ![x] = {}]
        /\ Goto(w, "claimed")
        /\ UNCHANGED <<run, lease, latest, content, artifact, executions,
                       disturbances>>

ClaimConflict(w) ==
    /\ worker[w].phase = "claiming"
    /\ Current(w).status # "eligible"
    /\ Goto(w, "rereading")
    /\ UNCHANGED <<run, lease, latest, content, row, expired, artifact,
                   executions, disturbances>>

\* After a conflict only an eligible window is an error.
ReadAgain(w) ==
    /\ worker[w].phase = "rereading"
    /\ Goto(w, IF AfterReading(Current(w).status) = "preparing" THEN "raised"
               ELSE AfterReading(Current(w).status))
    /\ UNCHANGED <<run, lease, latest, content, row, expired, artifact,
                   executions, disturbances>>

\* run_analysis_window, and what its result leads to.
Evaluate(w) ==
    /\ worker[w].phase = "claimed"
    /\ executions' = [executions EXCEPT ![worker[w].window] = @ + 1]
    /\ \E target \in Terminal :
        Hold(w, "finishing", worker[w].content, target)
    /\ UNCHANGED <<run, lease, latest, content, row, expired, artifact,
                   disturbances>>

\* Mutant: a result that comes late replaces the failure of the recovery.
MutantFinishable(w) == Current(w).status \in {"running", "failed"}

\* The statement's condition: running, under this token, not expired.
Finishable(w) ==
    /\ Current(w).status = "running"
    /\ Current(w).holder = w
    /\ w \notin expired[worker[w].window]

\* finish_analysis_window_execution: the artifact and the status together.
Finish(w) ==
    LET x == worker[w].window
    IN  /\ worker[w].phase = "finishing"
        /\ Finishable(w)
        /\ SetRow(x, worker[w].target, Nobody)
        /\ artifact' = IF worker[w].target = "completed"
                       THEN [artifact EXCEPT ![x] = worker[w].content]
                       ELSE artifact
        /\ Goto(w, "done")
        /\ UNCHANGED <<run, lease, latest, content, expired, executions,
                       disturbances>>

\* A completion that is refused is tried again as a failure; one that is
\* refused as well, or any other refusal, leaves the analysis with an error.
AfterRefusal(w) ==
    Hold(w, IF worker[w].target = "completed" THEN "finishing" ELSE "raised",
         worker[w].content, "failed")

FinishRefused(w) ==
    /\ worker[w].phase = "finishing"
    /\ ~Finishable(w)
    /\ AfterRefusal(w)
    /\ UNCHANGED <<run, lease, latest, content, row, expired, artifact,
                   executions, disturbances>>

\* The transaction is rolled back.
FinishLost(w) ==
    /\ worker[w].phase = "finishing"
    /\ Disturb
    /\ AfterRefusal(w)
    /\ UNCHANGED <<run, lease, latest, content, row, expired, artifact,
                   executions>>

\* Mutant: an error of the analysis is an error of the run, which is retried.
MutantRetryRun(w) ==
    /\ worker[w].phase \in {"done", "raised"}
    /\ run' = IF lease = w /\ worker[w].phase = "done" THEN "finished" ELSE run
    /\ lease' = IF lease = w THEN Nobody ELSE lease
    /\ worker' = [worker EXCEPT ![w] = Idle]
    /\ UNCHANGED <<latest, content, row, expired, artifact, executions,
                   disturbances>>

\* complete_ingestion_work, unless the lease is lost.
CompleteRun(w) ==
    /\ worker[w].phase \in {"done", "raised"}
    /\ run' = IF lease = w THEN "finished" ELSE run
    /\ lease' = IF lease = w THEN Nobody ELSE lease
    /\ worker' = [worker EXCEPT ![w] = Idle]
    /\ UNCHANGED <<latest, content, row, expired, artifact, executions,
                   disturbances>>

----------------------------------------------------------------------------
\* Time passes the expiry of a claim on the clock of w.
Expire(x, w) ==
    /\ row[x].status = "running" /\ w \notin expired[x]
    /\ expired' = [expired EXCEPT ![x] = @ \cup {w}]
    /\ UNCHANGED <<run, lease, latest, content, row, artifact, executions,
                   worker, disturbances>>

\* A mapping is edited: some observations are no longer eligible.
EditMapping ==
    /\ content < MaxEdits
    /\ content' = content + 1
    /\ UNCHANGED <<run, lease, latest, row, expired, artifact, executions,
                   worker, disturbances>>

Crash(w) ==
    /\ worker[w].phase # "idle"
    /\ Disturb
    /\ worker' = [worker EXCEPT ![w] = Idle]
    /\ UNCHANGED <<run, lease, latest, content, row, expired, artifact,
                   executions>>

WorkerStep(w) ==
    \/ Visit(w) \/ NoObservations(w)
    \/ ReadExisting(w) \/ Recover(w) \/ LeaveRunning(w)
    \/ Persist(w) \/ PersistIneligible(w) \/ PreparationConflict(w)
    \/ Claim(w) \/ ClaimConflict(w) \/ ReadAgain(w)
    \/ Evaluate(w) \/ Finish(w) \/ FinishRefused(w) \/ FinishLost(w)
    \/ CompleteRun(w)

Next ==
    \/ \E w \in Worker : WorkerStep(w) \/ Crash(w)
    \/ \E x \in Window, w \in Worker : Expire(x, w)
    \/ EditMapping

Spec == Init /\ [][Next]_vars

\* Every call of run_once runs to its end, and the loop calls it again.
FairSpec == Spec /\ \A w \in Worker : WF_vars(WorkerStep(w))

----------------------------------------------------------------------------
(***************************************************************************)
(* Correctness.                                                            *)
(***************************************************************************)
TypeOK ==
    /\ run \in {"open", "finished"}
    /\ lease \in Worker \cup {Nobody}
    /\ latest \in Window
    /\ content \in Content
    /\ row \in [Window -> [status : Status, holder : Worker \cup {Nobody},
                           content : Content]]
    /\ expired \in [Window -> SUBSET Worker]
    /\ artifact \in [Window -> Content \cup {NoArtifact}]
    /\ executions \in [Window -> Nat]
    /\ worker \in [Worker -> [phase : Phase, window : Window,
                              content : Content, target : Terminal]]
    /\ disturbances \in 0..MaxDisturbances

\* "Calls the existing authoritative evaluate_sii(...) orchestration exactly
\* once" (TELEMETRY_CONNECTIONS.md): no window is evaluated twice, whichever
\* workers visit it, die on it or recover it.
ExecutedOnce == \A x \in Window : executions[x] <= 1

\* A window is completed if and only if it has its artifact, and the artifact
\* is an analysis of the very observations that are linked to the window
\* (finish_analysis_window_execution, persist_analysis_window).
PublishedAsLinked ==
    \A x \in Window :
        /\ row[x].status = "completed" <=> artifact[x] # NoArtifact
        /\ row[x].status = "completed" => artifact[x] = row[x].content

\* "Fail closed after an expired claim": what a window has come to, and its
\* artifact, are never changed by an evaluation that ends late.
TerminalFinal ==
    [][\A x \in Window : row[x].status \in Terminal =>
           row'[x] = row[x] /\ artifact'[x] = artifact[x]]_vars

\* "Any analysis result, or a local invocation failure, still allows the
\* durably persisted ingestion run to complete" (_analyze_final_run).
AnalysisNeverBlocks == run = "open" ~> run = "finished"

\* "Expired leases and stale analysis claims can be recovered": a window that
\* is not terminal has somebody at work, or a run that will be visited again.
NoStrandedWindow ==
    \A x \in Window : row[x].status \in {"eligible", "running"} =>
        \/ \E w \in Worker : worker[w].phase # "idle"
        \/ run = "open" /\ x = latest
=============================================================================
