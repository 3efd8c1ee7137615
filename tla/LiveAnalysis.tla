---------------------------- MODULE LiveAnalysis ----------------------------
(***************************************************************************)
(* The live analysis of one system (live_analysis.py): runs, one for each  *)
(* comparison window, and the findings that completed runs leave.  The     *)
(* worker triggers the system when it is due and an operator at any time;  *)
(* every trigger first fails the oldest unfinished run if that is stale,   *)
(* then creates the run of its window, passes the readiness checks, claims *)
(* the run, analyses the window and completes the run with its findings.   *)
(* Every database transaction is one action, and a process may die between *)
(* any two.  The approved baseline does not change, so that a run is named *)
(* by its window; the clock counts windows, and a run that a trigger       *)
(* creates at instant w is the run of window w, started at w.              *)
(***************************************************************************)
EXTENDS Integers, FiniteSets

CONSTANTS
    Process,         \* processes that trigger: the worker's, the API's
    Relationship,    \* relationships of the approved baseline
    MaxClock,        \* bound: windows
    StaleAfter,      \* max(15 minutes, two intervals), in windows
    MaxSwitches,     \* bound: requests that enable or disable the system
    MaxDisturbances  \* bound: crashes and manual triggers

ASSUME ClockAssumption ==
    /\ MaxClock \in Nat \ {0}
    /\ StaleAfter \in Nat \ {0, 1}
    /\ MaxSwitches \in Nat
    /\ MaxDisturbances \in Nat

Window == 1..MaxClock

\* A next_analysis_at that is NULL.
Null == 0

VARIABLES
    clock,       \* the current window
    enabled,     \* live_analysis_configurations.enabled
    next,        \* live_analysis_configurations.next_analysis_at
    run,         \* live_analysis_runs: the status, by window
    finding,     \* live_findings, by relationship
    process,     \* what trigger_live_analysis holds
    switches,    \* enable and disable requests so far
    disturbances \* crashes and manual triggers so far

vars == <<clock, enabled, next, run, finding, process, switches, disturbances>>

Active == {"pending", "running"}
Terminal == {"completed", "skipped", "failed"}
Verdict == {"unseen", "detected", "persistent", "aligned"}
FindingState == {"observing", "open", "resolved"}

NoFinding == [state |-> "none", source |-> 0]
Idle == [phase |-> "idle", now |-> 0, enabled |-> FALSE, stale |-> 0]

Init ==
    /\ clock = 1
    /\ enabled \in BOOLEAN
    /\ next = IF enabled THEN 1 ELSE Null
    /\ run = [w \in Window |-> "none"]
    /\ finding = [r \in Relationship |-> NoFinding]
    /\ process = [p \in Process |-> Idle]
    /\ switches = 0
    /\ disturbances = 0

\* Mutant: the interval is added once more.
MutantNextTwice(isEnabled, now) == IF isEnabled THEN now + 2 ELSE Null

\* _next_analysis, with the configuration that the process has read.
NextAnalysis(isEnabled, now) == IF isEnabled THEN now + 1 ELSE Null

\* run_due_live_analyses selects the system.  The last window stands for all
\* later time, in which every next analysis comes.
Due == enabled /\ (next <= clock \/ clock = MaxClock)

\* Mutant: only a run that nobody has claimed is recovered.
MutantStalePending ==
    {w \in Window :
        /\ run[w] = "pending"
        /\ \A v \in Window : run[v] = "pending" => w <= v
        /\ clock - w >= StaleAfter}

\* _recover_stale_active_run: the oldest unfinished run, if it is stale.
StaleRun ==
    {w \in Window :
        /\ run[w] \in Active
        /\ \A v \in Window : run[v] \in Active => w <= v
        /\ clock - w >= StaleAfter}

Running == {w \in Window : run[w] = "running"}

----------------------------------------------------------------------------
\* The process reads the configuration, and looks for a stale run.
Begin(p) ==
    /\ process[p].phase = "idle"
    /\ process' = [process EXCEPT ![p] =
            [phase |-> IF StaleRun = {} THEN "creating" ELSE "recovering",
             now |-> clock,
             enabled |-> enabled,
             stale |-> IF StaleRun = {} THEN 0
                       ELSE CHOOSE w \in StaleRun : TRUE]]
    /\ UNCHANGED <<clock, enabled, next, run, finding, switches>>

BeginDue(p) ==
    /\ Due
    /\ Begin(p)
    /\ UNCHANGED disturbances

\* POST /live-analysis/systems/{system_id}/runs.
BeginManual(p) ==
    /\ disturbances < MaxDisturbances
    /\ disturbances' = disturbances + 1
    /\ Begin(p)

\* The run is failed if it is still unfinished.
Recover(p) ==
    LET w == process[p].stale
    IN  /\ process[p].phase = "recovering"
        /\ process' = [process EXCEPT ![p].phase = "creating"]
        /\ IF run[w] \in Active
           THEN /\ run' = [run EXCEPT ![w] = "failed"]
                /\ next' = NextAnalysis(process[p].enabled, process[p].now)
           ELSE UNCHANGED <<run, next>>
        /\ UNCHANGED <<clock, enabled, finding, switches, disturbances>>

\* _create_or_reuse_run, with the configuration read again: the run of a window
\* that has one is returned as it is, whatever its status.
Create(p) ==
    LET w == process[p].now
    IN  /\ process[p].phase = "creating"
        /\ run' = IF run[w] # "none" THEN run
                  ELSE [run EXCEPT ![w] =
                           IF Running = {} THEN "pending" ELSE "skipped"]
        /\ process' = [process EXCEPT ![p] =
               IF run[w] = "none" /\ Running = {}
               THEN [phase |-> "checking", now |-> w, enabled |-> enabled,
                     stale |-> 0]
               ELSE Idle]
        /\ UNCHANGED <<clock, enabled, next, finding, switches, disturbances>>

\* The process ends its trigger: its run takes the status if it has one of
\* these, and the next analysis is set in any case.
EndRun(p, from, status) ==
    LET w == process[p].now
    IN  /\ run' = IF run[w] \in from THEN [run EXCEPT ![w] = status] ELSE run
        /\ next' = NextAnalysis(process[p].enabled, process[p].now)
        /\ process' = [process EXCEPT ![p] = Idle]
        /\ UNCHANGED <<clock, enabled, switches, disturbances>>

\* _skip_run: disabled, or the baseline or the telemetry is not ready.
Skip(p) ==
    /\ process[p].phase = "checking"
    /\ EndRun(p, {"pending"}, "skipped")
    /\ UNCHANGED finding

\* Mutant: the process goes on without the claim.
MutantClaimUnchecked(p) ==
    LET w == process[p].now
    IN  /\ process[p].phase = "checking"
        /\ process[p].enabled
        /\ process' = [process EXCEPT ![p].phase = "analysing"]
        /\ run' = IF run[w] = "pending" /\ Running = {}
                  THEN [run EXCEPT ![w] = "running"] ELSE run
        /\ UNCHANGED <<clock, enabled, next, finding, switches, disturbances>>

\* Mutant: without the partial unique index.
MutantClaimTwice(p) ==
    LET w == process[p].now
    IN  /\ process[p].phase = "checking"
        /\ process[p].enabled
        /\ run[w] = "pending"
        /\ run' = [run EXCEPT ![w] = "running"]
        /\ process' = [process EXCEPT ![p].phase = "analysing"]
        /\ UNCHANGED <<clock, enabled, next, finding, switches, disturbances>>

\* _claim_run: the run is pending, and the unique index admits it.
Claim(p) ==
    LET w == process[p].now
    IN  /\ process[p].phase = "checking"
        /\ process[p].enabled
        /\ run[w] = "pending" /\ Running = {}
        /\ run' = [run EXCEPT ![w] = "running"]
        /\ process' = [process EXCEPT ![p].phase = "analysing"]
        /\ UNCHANGED <<clock, enabled, next, finding, switches, disturbances>>

\* The finding of a relationship after a run that has this verdict on it.
Finalized(old, verdict, w) ==
    CASE verdict = "persistent" -> [state |-> "open", source |-> w]
      [] verdict = "detected" ->
            [state |-> IF old.state = "open" THEN "open" ELSE "observing",
             source |-> w]
      [] verdict = "aligned" /\ old.state \in {"observing", "open"} ->
            [state |-> "resolved", source |-> w]
      [] OTHER -> old

\* Mutant: the status is written without its guard.
MutantCompleteUnguarded(p) ==
    /\ process[p].phase = "analysing"
    /\ \E verdict \in [Relationship -> Verdict] :
        finding' = [r \in Relationship |->
            Finalized(finding[r], verdict[r], process[p].now)]
    /\ EndRun(p, Active \cup Terminal, "completed")

\* _complete_run: the findings first, then the run if it is still running.
Complete(p) ==
    /\ process[p].phase = "analysing"
    /\ \E verdict \in [Relationship -> Verdict] :
        finding' = [r \in Relationship |->
            Finalized(finding[r], verdict[r], process[p].now)]
    /\ EndRun(p, {"running"}, "completed")

\* _fail_run: the baseline, the preparation, the analysis or the completion
\* raised; a completion that raises is rolled back.
Fail(p) ==
    /\ \/ process[p].phase = "analysing"
       \/ process[p].phase = "checking" /\ process[p].enabled
    /\ EndRun(p, Active, "failed")
    /\ UNCHANGED finding

----------------------------------------------------------------------------
\* set_live_analysis_enabled.
Switch ==
    /\ switches < MaxSwitches
    /\ switches' = switches + 1
    /\ enabled' \in BOOLEAN
    /\ next' = IF enabled' THEN clock ELSE Null
    /\ UNCHANGED <<clock, run, finding, process, disturbances>>

Crash(p) ==
    /\ process[p].phase # "idle"
    /\ disturbances < MaxDisturbances
    /\ disturbances' = disturbances + 1
    /\ process' = [process EXCEPT ![p] = Idle]
    /\ UNCHANGED <<clock, enabled, next, run, finding, switches>>

Tick ==
    /\ clock < MaxClock
    /\ clock' = clock + 1
    /\ UNCHANGED <<enabled, next, run, finding, process, switches,
                   disturbances>>

\* What a process does on its own, once the system is due.
ProcessStep(p) ==
    \/ BeginDue(p) \/ Recover(p) \/ Create(p) \/ Skip(p) \/ Claim(p)
    \/ Complete(p) \/ Fail(p)

Next ==
    \/ \E p \in Process : ProcessStep(p) \/ BeginManual(p) \/ Crash(p)
    \/ Switch
    \/ Tick

Spec == Init /\ [][Next]_vars

\* The worker loops for ever, a trigger runs to its end, and time passes.
FairSpec ==
    /\ Spec
    /\ \A p \in Process : WF_vars(ProcessStep(p))
    /\ WF_vars(Tick)

----------------------------------------------------------------------------
(***************************************************************************)
(* Correctness.                                                            *)
(***************************************************************************)
\* Types and ranges of the state.
TypeOK ==
    /\ clock \in Window
    /\ enabled \in BOOLEAN
    /\ next \in 0..MaxClock + 1
    /\ run \in [Window -> {"none"} \cup Active \cup Terminal]
    /\ finding \in [Relationship ->
            [state : {"none"} \cup FindingState, source : 0..MaxClock]]
    /\ process \in [Process ->
            [phase : {"idle", "recovering", "creating", "checking",
                      "analysing"},
             now : 0..MaxClock, enabled : BOOLEAN, stale : 0..MaxClock]]
    /\ switches \in 0..MaxSwitches
    /\ disturbances \in 0..MaxDisturbances

\* "A partial unique index permits only one running analysis for a system": one
\* run is running, and one process at most executes it, also when several
\* processes have found the same window free, or recovered the run before it.
OneLiveClaim ==
    /\ Cardinality(Running) <= 1
    /\ \A p, q \in Process :
        /\ p # q
        /\ process[p].phase = "analysing"
        /\ process[q].phase = "analysing"
        => ~(process[p].now \in Running /\ process[q].now \in Running)

\* "Missing or delayed data never creates or resolves a physical finding": the
\* run that a finding cites has passed the readiness checks and held the claim;
\* it was not skipped, and it is not one that nobody has claimed yet.
FindingFromClaimedRun ==
    \A r \in Relationship : finding[r] # NoFinding =>
        run[finding[r].source] \in {"completed", "failed"}

\* A run ends in one terminal state: neither a recovery nor the process that it
\* was recovered from changes what the other has written.
TerminalRunFinal ==
    [][\A w \in Window : run[w] \in Terminal => run'[w] = run[w]]_vars

\* "A worker restart cannot leave a permanent claim": while the system is
\* enabled, an unfinished run ends, by its process or by a recovery.  The runs
\* of the last windows are never stale in a bounded clock.
NoPermanentClaim ==
    <>[]enabled =>
        \A w \in 1..(MaxClock - StaleAfter) :
            run[w] \in Active ~> run[w] \in Terminal
=============================================================================
