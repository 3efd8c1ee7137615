------------------------- MODULE LiveAnalysis_proofs -------------------------
(***************************************************************************)
(* Theorems about LiveAnalysis, for every set of processes and             *)
(* relationships and every number of windows.                              *)
(***************************************************************************)
EXTENDS LiveAnalysis, FiniteSetTheorems, TLAPS

(***************************************************************************)
(* The invariant the proofs work with, in named parts.                     *)
(***************************************************************************)

\* A process that has created a run and has not ended it.
Holds(p) == process[p].phase \in {"checking", "analysing"}

\* Only its creator moves a run on; others can only fail it.
CreatorAlone ==
    \A p \in Process :
        /\ process[p].phase # "idle" => process[p].now \in Window
        /\ process[p].phase = "recovering" => process[p].stale \in Window
        /\ process[p].phase = "checking" =>
               run[process[p].now] \in {"pending", "failed"}
        /\ process[p].phase = "analysing" =>
               run[process[p].now] \in {"running", "failed"}

ProcessState ==
    [Process ->
        [phase : {"idle", "recovering", "creating", "checking", "analysing"},
         now : 0..MaxClock, enabled : BOOLEAN, stale : 0..MaxClock]]

\* No two processes have created the same run.
CreatorsDiffer ==
    \A p, q \in Process :
        Holds(p) /\ Holds(q) /\ process[p].now = process[q].now => p = q

\* idx_live_analysis_one_running.
OneRunning ==
    \A v, w \in Window : run[v] = "running" /\ run[w] = "running" => v = w

\* The run that a finding cites has ended, and not by being skipped.
SourceEnded ==
    \A r \in Relationship : finding[r] # NoFinding =>
        /\ finding[r].source \in Window
        /\ run[finding[r].source] \in {"completed", "failed"}

IInv == TypeOK /\ CreatorAlone /\ CreatorsDiffer /\ OneRunning /\ SourceEnded

\* A step that changes runs only as their life cycle allows.
RunsMoveOn ==
    \A w \in Window : run[w] \in Terminal => run'[w] = run[w]

-----------------------------------------------------------------------------
LEMMA InitInv == Init => IInv
BY ClockAssumption
   DEF Init, IInv, TypeOK, CreatorAlone, CreatorsDiffer, OneRunning,
       SourceEnded, Holds, Window, Idle, NoFinding, Null, Active, Terminal,
       FindingState

LEMMA BeginInv ==
    ASSUME IInv, NEW p \in Process, Begin(p), disturbances' \in 0..MaxDisturbances
    PROVE  IInv'
<1>1. process' \in [Process -> [phase : {"idle", "recovering", "creating",
                                         "checking", "analysing"},
             now : 0..MaxClock, enabled : BOOLEAN, stale : 0..MaxClock]]
  BY ClockAssumption DEF IInv, TypeOK, Begin, StaleRun, Window
<1>2. TypeOK'
  BY <1>1 DEF IInv, TypeOK, Begin
<1>3. CreatorAlone' /\ CreatorsDiffer'
  BY ClockAssumption
     DEF IInv, TypeOK, Begin, CreatorAlone, CreatorsDiffer, Holds, StaleRun, Window
<1> QED
  BY <1>2, <1>3 DEF IInv, OneRunning, SourceEnded, Begin

LEMMA RecoverInv ==
    ASSUME IInv, NEW p \in Process, Recover(p)
    PROVE  IInv' /\ RunsMoveOn
<1>1. TypeOK'
  <2>1. next' \in 0..MaxClock + 1
    BY ClockAssumption
       DEF IInv, TypeOK, CreatorAlone, Recover, NextAnalysis, Null, Window
  <2>2. run' \in [Window -> {"none"} \cup Active \cup Terminal]
    BY DEF IInv, TypeOK, Recover, Terminal
  <2>3. process' \in ProcessState
    BY DEF IInv, TypeOK, Recover, ProcessState
  <2> QED
    BY <2>1, <2>2, <2>3 DEF IInv, TypeOK, Recover, ProcessState
<1>2. CreatorAlone' /\ CreatorsDiffer'
  BY DEF IInv, TypeOK, CreatorAlone, CreatorsDiffer, Holds, Recover, Active
<1>3. OneRunning' /\ SourceEnded' /\ RunsMoveOn
  BY DEF IInv, TypeOK, CreatorAlone, OneRunning, SourceEnded, RunsMoveOn,
         Recover, Active, Terminal
<1> QED
  BY <1>1, <1>2, <1>3 DEF IInv

LEMMA CreateInv ==
    ASSUME IInv, NEW p \in Process, Create(p)
    PROVE  IInv' /\ RunsMoveOn
<1> USE DEF IInv, Create
<1>1. TypeOK'
  <2>1. run' \in [Window -> {"none"} \cup Active \cup Terminal]
    BY DEF TypeOK, Active, Terminal
  <2>2. process' \in ProcessState
    BY ClockAssumption DEF TypeOK, Idle, ProcessState
  <2> QED
    BY <2>1, <2>2 DEF TypeOK, ProcessState
<1>2. CreatorAlone' /\ CreatorsDiffer'
  BY DEF TypeOK, CreatorAlone, CreatorsDiffer, Holds, Idle
<1>3. OneRunning' /\ SourceEnded' /\ RunsMoveOn
  BY DEF TypeOK, CreatorAlone, OneRunning, SourceEnded, RunsMoveOn, Terminal
<1> QED
  BY <1>1, <1>2, <1>3

LEMMA ClaimInv ==
    ASSUME IInv, NEW p \in Process, Claim(p)
    PROVE  IInv' /\ RunsMoveOn
<1> USE DEF IInv, Claim
<1>1. TypeOK'
  BY DEF TypeOK, Active, Window
<1>2. CreatorAlone' /\ CreatorsDiffer'
  BY DEF TypeOK, CreatorAlone, CreatorsDiffer, Holds
<1>3. OneRunning' /\ SourceEnded' /\ RunsMoveOn
  BY DEF TypeOK, CreatorAlone, OneRunning, SourceEnded, RunsMoveOn, Terminal, Running
<1> QED
  BY <1>1, <1>2, <1>3

\* What Skip, Complete and Fail have in common.
LEMMA EndRunInv ==
    ASSUME IInv, NEW p \in Process, Holds(p),
           NEW from \in SUBSET Active, NEW status \in Terminal, EndRun(p, from, status)
    PROVE  /\ RunsMoveOn /\ OneRunning' /\ CreatorAlone' /\ CreatorsDiffer'
           /\ next' \in 0..MaxClock + 1
           /\ run' \in [Window -> {"none"} \cup Active \cup Terminal]
           /\ process' \in [Process ->
                [phase : {"idle", "recovering", "creating", "checking",
                          "analysing"},
                 now : 0..MaxClock, enabled : BOOLEAN, stale : 0..MaxClock]]
<1> USE DEF IInv, EndRun, Holds
<1>1. next' \in 0..MaxClock + 1
  BY ClockAssumption DEF TypeOK, CreatorAlone, NextAnalysis, Null, Window
<1>2. run' \in [Window -> {"none"} \cup Active \cup Terminal]
  BY DEF TypeOK
<1>3. process' \in [Process ->
                [phase : {"idle", "recovering", "creating", "checking",
                          "analysing"},
                 now : 0..MaxClock, enabled : BOOLEAN, stale : 0..MaxClock]]
  BY ClockAssumption DEF TypeOK, Idle
<1>4. RunsMoveOn /\ OneRunning'
  BY DEF TypeOK, CreatorAlone, OneRunning, RunsMoveOn, Active, Terminal
<1>5. CreatorAlone' /\ CreatorsDiffer'
  BY DEF TypeOK, CreatorAlone, CreatorsDiffer, Idle
<1> QED
  BY <1>1, <1>2, <1>3, <1>4, <1>5

\* Findings that a step leaves alone still cite an ended run.
LEMMA SourceKept ==
    ASSUME IInv, RunsMoveOn, finding' = finding
    PROVE  SourceEnded'
BY DEF IInv, SourceEnded, RunsMoveOn, Terminal

LEMMA SkipInv ==
    ASSUME IInv, NEW p \in Process, Skip(p)
    PROVE  IInv' /\ RunsMoveOn
<1>1. EndRun(p, {"pending"}, "skipped") /\ Holds(p) /\ finding' = finding
  BY DEF Skip, Holds
<1>2. {"pending"} \in SUBSET Active /\ "skipped" \in Terminal
  BY DEF Active, Terminal
<1> QED
  BY <1>1, <1>2, EndRunInv, SourceKept DEF IInv, TypeOK, EndRun

LEMMA FailInv ==
    ASSUME IInv, NEW p \in Process, Fail(p)
    PROVE  IInv' /\ RunsMoveOn
<1>1. EndRun(p, Active, "failed") /\ Holds(p) /\ finding' = finding
  BY DEF Fail, Holds
<1>2. Active \in SUBSET Active /\ "failed" \in Terminal
  BY DEF Terminal
<1> QED
  BY <1>1, <1>2, EndRunInv, SourceKept DEF IInv, TypeOK, EndRun

LEMMA CompleteInv ==
    ASSUME IInv, NEW p \in Process, Complete(p)
    PROVE  IInv' /\ RunsMoveOn
<1>1. EndRun(p, {"running"}, "completed") /\ Holds(p)
  BY DEF Complete, Holds
<1>2. {"running"} \in SUBSET Active /\ "completed" \in Terminal
  BY DEF Active, Terminal
<1>3. PICK verdict \in [Relationship -> Verdict] :
        finding' = [r \in Relationship |->
            Finalized(finding[r], verdict[r], process[p].now)]
  BY DEF Complete
<1> DEFINE w == process[p].now
<1>4. w \in Window /\ run'[w] \in {"completed", "failed"}
  BY <1>1 DEF IInv, TypeOK, CreatorAlone, Complete, EndRun
<1>5. RunsMoveOn
  BY <1>1, <1>2, EndRunInv
<1>6. ASSUME NEW r \in Relationship
      PROVE  \/ finding'[r] = finding[r]
             \/ /\ finding'[r] \in [state : FindingState, source : Window]
                /\ finding'[r].source = w
  <2>1. finding'[r] = Finalized(finding[r], verdict[r], w)
    BY <1>3
  <2> QED
    BY <2>1, <1>4 DEF Finalized, FindingState
<1>7. finding' \in [Relationship ->
            [state : {"none"} \cup FindingState, source : 0..MaxClock]]
  BY <1>3, <1>6, ClockAssumption DEF IInv, TypeOK, Window
<1>8. SourceEnded'
  BY <1>4, <1>5, <1>6 DEF IInv, SourceEnded, RunsMoveOn, Terminal
<1> QED
  BY <1>1, <1>2, <1>5, <1>7, <1>8, EndRunInv DEF IInv, TypeOK, EndRun

LEMMA CrashInv ==
    ASSUME IInv, NEW p \in Process, Crash(p)
    PROVE  IInv'
<1>1. TypeOK'
  BY ClockAssumption DEF IInv, TypeOK, Crash, Idle
<1>2. CreatorAlone' /\ CreatorsDiffer'
  BY DEF IInv, TypeOK, CreatorAlone, CreatorsDiffer, Holds, Crash, Idle
<1> QED
  BY <1>1, <1>2 DEF IInv, OneRunning, SourceEnded, Crash

LEMMA EnvironmentInv ==
    ASSUME IInv, Switch \/ Tick
    PROVE  IInv'
<1>1. TypeOK'
  BY ClockAssumption DEF IInv, TypeOK, Switch, Tick, Window, Null
<1> QED
  BY <1>1 DEF IInv, CreatorAlone, CreatorsDiffer, Holds, OneRunning,
              SourceEnded, Switch, Tick

-----------------------------------------------------------------------------
\* Every step keeps the invariant and moves runs only as their life cycle has
\* it.
LEMMA StepInv ==
    ASSUME IInv, [Next]_vars
    PROVE  IInv' /\ RunsMoveOn
<1>1. CASE UNCHANGED vars
  BY <1>1 DEF vars, IInv, TypeOK, CreatorAlone, CreatorsDiffer, Holds,
              OneRunning, SourceEnded, RunsMoveOn
<1>2. CASE Switch \/ Tick
  BY <1>2, EnvironmentInv DEF RunsMoveOn, Switch, Tick
<1>3. ASSUME NEW p \in Process, ProcessStep(p) \/ BeginManual(p) \/ Crash(p)
      PROVE  IInv' /\ RunsMoveOn
  <2>1. CASE BeginDue(p) \/ BeginManual(p)
    <3>1. Begin(p) /\ disturbances' \in 0..MaxDisturbances
      BY <2>1, ClockAssumption DEF BeginDue, BeginManual, IInv, TypeOK
    <3> QED
      BY <3>1, BeginInv DEF RunsMoveOn, Begin
  <2>2. CASE Crash(p)
    BY <2>2, CrashInv DEF RunsMoveOn, Crash
  <2>3. CASE Recover(p) \/ Create(p) \/ Claim(p)
    BY <2>3, RecoverInv, CreateInv, ClaimInv
  <2>4. CASE Skip(p) \/ Complete(p) \/ Fail(p)
    BY <2>4, SkipInv, CompleteInv, FailInv
  <2> QED
    BY <1>3, <2>1, <2>2, <2>3, <2>4 DEF ProcessStep
<1> QED
  BY <1>1, <1>2, <1>3 DEF Next

LEMMA Invariant == Spec => []IInv
BY InitInv, StepInv, PTL DEF Spec

\* The types of the state.
THEOREM TypeCorrect == Spec => []TypeOK
BY Invariant, PTL DEF IInv

\* OneLiveClaim: one run is running, and one process executes it, whoever
\* finds which window free, is slow or is recovered from.
THEOREM ClaimIsExclusive == Spec => []OneLiveClaim
<1>1. IInv => OneLiveClaim
  <2> SUFFICES ASSUME IInv PROVE OneLiveClaim
    OBVIOUS
  <2>1. Cardinality(Running) <= 1
    <3>1. CASE Running = {}
      BY <3>1, FS_EmptySet
    <3>2. CASE Running # {}
      <4>1. PICK w \in Running : TRUE
        BY <3>2
      <4>2. Running = {w}
        BY <4>1 DEF Running, IInv, OneRunning
      <4>3. Cardinality({w}) = 1
        BY FS_Singleton, Zenon
      <4> QED
        BY <4>2, <4>3
    <3> QED
      BY <3>1, <3>2
  <2>2. ASSUME NEW p \in Process, NEW q \in Process, p # q,
               process[p].phase = "analysing", process[q].phase = "analysing"
        PROVE  ~(process[p].now \in Running /\ process[q].now \in Running)
    BY <2>2 DEF IInv, OneRunning, CreatorsDiffer, Holds, Running
  <2> QED
    BY <2>1, <2>2 DEF OneLiveClaim
<1> QED
  BY <1>1, Invariant, PTL

\* FindingFromClaimedRun: a run that was skipped, or that nobody has claimed
\* yet, never creates, updates or resolves a finding.
THEOREM FindingsCiteClaimedRuns == Spec => []FindingFromClaimedRun
<1>1. IInv => FindingFromClaimedRun
  BY DEF IInv, SourceEnded, FindingFromClaimedRun
<1> QED
  BY <1>1, Invariant, PTL

\* TerminalRunFinal: what a run has come to is never written again.
THEOREM TerminalRunsStay == Spec => TerminalRunFinal
<1>1. IInv /\ [Next]_vars =>
        [\A w \in Window : run[w] \in Terminal => run'[w] = run[w]]_vars
  BY StepInv DEF RunsMoveOn
<1> QED
  BY <1>1, Invariant, PTL DEF Spec, TerminalRunFinal
=============================================================================
