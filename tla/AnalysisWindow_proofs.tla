------------------------ MODULE AnalysisWindow_proofs ------------------------
(***************************************************************************)
(* Theorems about AnalysisWindow, for every set of workers and every       *)
(* number of windows, mapping edits, crashes and lapses.                   *)
(***************************************************************************)
EXTENDS AnalysisWindow, TLAPS

(***************************************************************************)
(* The invariant the proofs work with, in named parts.                     *)
(***************************************************************************)

\* A worker that has claimed its window, and not let go of it.
Executing(w) == worker[w].phase \in {"claimed", "finishing"}

\* A window that nobody has claimed yet has not been evaluated.
Untouched ==
    \A x \in Window : row[x].status \in {"none", "eligible"} =>
        /\ executions[x] = 0
        /\ \A w \in Worker : Executing(w) => worker[w].window # x

\* One worker at most has claimed a window, ever.
ClaimantAlone ==
    \A v, w \in Worker :
        Executing(v) /\ Executing(w) /\ worker[v].window = worker[w].window
        => v = w

\* It claims before it evaluates.
ClaimedFresh ==
    \A w \in Worker :
        worker[w].phase = "claimed" => executions[worker[w].window] = 0

\* What a worker has read is what is linked to the window it works on.
Linked ==
    \A w \in Worker :
        worker[w].phase \in {"claiming", "claimed", "finishing"} =>
            /\ Current(w).status # "none"
            /\ Current(w).content = worker[w].content

IInv ==
    /\ TypeOK /\ Untouched /\ ClaimantAlone /\ ClaimedFresh /\ Linked
    /\ ExecutedOnce /\ PublishedAsLinked

WorkerState ==
    [phase : Phase, window : Window, content : Content, target : Terminal]

RowState == [status : Status, holder : Worker \cup {Nobody}, content : Content]

-----------------------------------------------------------------------------
LEMMA InitInv == Init => IInv
BY BoundAssumption
   DEF Init, IInv, TypeOK, Untouched, ClaimantAlone, ClaimedFresh, Linked,
       ExecutedOnce, PublishedAsLinked, Executing, Current, Idle, NoRow,
       NoArtifact, Window, Content, Status, Phase, Terminal

\* A worker that goes on without a claim, having evaluated nothing.
LEMMA ReadInv ==
    ASSUME IInv, NEW w \in Worker,
           UNCHANGED <<row, expired, artifact, executions>>,
           run' \in {"open", "finished"}, lease' \in Worker \cup {Nobody},
           latest' \in Window, content' \in Content,
           disturbances' \in 0..MaxDisturbances,
           NEW new \in WorkerState, worker' = [worker EXCEPT ![w] = new],
           \/ new.phase \notin {"claiming", "claimed", "finishing"}
           \/ /\ new.phase = "finishing" /\ worker[w].phase = "finishing"
              /\ new.window = worker[w].window
              /\ new.content = worker[w].content
    PROVE  IInv'
<1>1. TypeOK'
  BY DEF IInv, TypeOK, WorkerState
<1>2. Untouched' /\ ClaimantAlone' /\ ClaimedFresh'
  BY DEF IInv, TypeOK, Untouched, ClaimantAlone, ClaimedFresh, Executing, WorkerState
<1>3. Linked'
  BY DEF IInv, TypeOK, Linked, Current, WorkerState
<1> QED
  BY <1>1, <1>2, <1>3 DEF IInv, ExecutedOnce, PublishedAsLinked

LEMMA HoldFacts ==
    ASSUME TypeOK, NEW w \in Worker, NEW phase \in Phase, NEW read \in Content,
           NEW target \in Terminal, Hold(w, phase, read, target)
    PROVE  \E new \in WorkerState :
              /\ worker' = [worker EXCEPT ![w] = new]
              /\ new = [phase |-> phase, window |-> worker[w].window,
                        content |-> read, target |-> target]
BY DEF Hold, TypeOK, WorkerState

LEMMA GotoFacts ==
    ASSUME TypeOK, NEW w \in Worker, NEW phase \in Phase, Goto(w, phase)
    PROVE  \E new \in WorkerState :
              /\ worker' = [worker EXCEPT ![w] = new]
              /\ new = [phase |-> phase, window |-> worker[w].window,
                        content |-> worker[w].content, target |-> worker[w].target]
BY HoldFacts DEF Goto, TypeOK

LEMMA SetRowFacts ==
    ASSUME TypeOK, NEW x \in Window, NEW status \in Status,
           NEW holder \in Worker \cup {Nobody}, SetRow(x, status, holder)
    PROVE  /\ row' \in [Window -> RowState]
           /\ row'[x].status = status /\ row'[x].content = row[x].content
           /\ \A y \in Window : y # x => row'[y] = row[y]
BY DEF SetRow, TypeOK, RowState

\* Steps that only read, and steps that let go.
LEMMA ReadingInv ==
    ASSUME IInv, NEW w \in Worker,
           \/ ReadExisting(w) \/ NoObservations(w) \/ LeaveRunning(w)
           \/ PreparationConflict(w) \/ ClaimConflict(w) \/ ReadAgain(w)
    PROVE  IInv'
<1>1. PICK phase \in Phase :
        Goto(w, phase) /\ phase \notin {"claiming", "claimed", "finishing"}
  BY DEF ReadExisting, NoObservations, LeaveRunning, PreparationConflict,
         ClaimConflict, ReadAgain, AfterReading, Phase
<1>2. UNCHANGED <<run, lease, latest, content, row, expired, artifact,
                  executions, disturbances>>
  BY DEF ReadExisting, NoObservations, LeaveRunning, PreparationConflict,
         ClaimConflict, ReadAgain
<1>3. PICK new \in WorkerState :
        /\ worker' = [worker EXCEPT ![w] = new]
        /\ new.phase = phase
  BY <1>1, GotoFacts DEF IInv
<1> QED
  BY <1>1, <1>2, <1>3, ReadInv DEF IInv, TypeOK

LEMMA LetGoInv ==
    ASSUME IInv, NEW w \in Worker, CompleteRun(w) \/ Crash(w)
    PROVE  IInv'
<1>1. Idle \in WorkerState
  BY BoundAssumption DEF Idle, WorkerState, Phase, Window, Content, Terminal
<1>2. /\ worker' = [worker EXCEPT ![w] = Idle]
      /\ UNCHANGED <<latest, content, row, expired, artifact, executions>>
      /\ run' \in {"open", "finished"} /\ lease' \in Worker \cup {Nobody}
      /\ disturbances' \in 0..MaxDisturbances
  BY BoundAssumption DEF CompleteRun, Crash, Disturb, IInv, TypeOK
<1>3. Idle.phase = "idle"
  BY DEF Idle
<1>4. latest \in Window /\ content \in Content
  BY DEF IInv, TypeOK
<1> QED
  BY <1>1, <1>2, <1>3, <1>4, ReadInv

LEMMA VisitInv ==
    ASSUME IInv, NEW w \in Worker, Visit(w)
    PROVE  IInv'
<1> DEFINE new == [phase |-> "reading", window |-> latest', content |-> 0,
                   target |-> "failed"]
<1>1. latest' \in Window
  BY DEF Visit
<1>2. new \in WorkerState /\ new.phase = "reading"
  BY <1>1, BoundAssumption DEF WorkerState, Phase, Content, Terminal
<1>3. worker' = [worker EXCEPT ![w] = new]
  BY DEF Visit
<1>4. disturbances' \in 0..MaxDisturbances
  BY BoundAssumption DEF Visit, Disturb, IInv, TypeOK
<1>5. /\ UNCHANGED <<run, content, row, expired, artifact, executions>>
      /\ lease' = w
  BY DEF Visit
<1> QED
  <2> HIDE DEF new
  <2> QED
    BY <1>1, <1>2, <1>3, <1>4, <1>5, ReadInv DEF IInv, TypeOK

LEMMA RefusalInv ==
    ASSUME IInv, NEW w \in Worker, FinishRefused(w) \/ FinishLost(w)
    PROVE  IInv'
<1>1. /\ worker[w].phase = "finishing" /\ AfterRefusal(w)
      /\ UNCHANGED <<run, lease, latest, content, row, expired, artifact, executions>>
      /\ disturbances' \in 0..MaxDisturbances
  BY BoundAssumption DEF FinishRefused, FinishLost, Disturb, IInv, TypeOK
<1>2. worker[w].content \in Content
  BY DEF IInv, TypeOK
<1>3. PICK phase \in {"finishing", "raised"} :
        Hold(w, phase, worker[w].content, "failed")
  BY <1>1 DEF AfterRefusal
<1>4. PICK new \in WorkerState :
        /\ worker' = [worker EXCEPT ![w] = new]
        /\ new.phase = phase /\ new.window = worker[w].window
        /\ new.content = worker[w].content
  BY <1>2, <1>3, HoldFacts DEF IInv, Phase, Terminal
<1> QED
  BY <1>1, <1>3, <1>4, ReadInv DEF IInv, TypeOK

\* A window that w works on is settled, by w or for want of anybody else.
LEMMA SettleInv ==
    ASSUME IInv, NEW w \in Worker, NEW status \in Terminal \ {"completed"},
           UNCHANGED <<run, lease, latest, content, expired, artifact,
                       executions, disturbances>>,
           Current(w).status \in {"none", "running"},
           Current(w).status = "none" => ~\E v \in Worker :
               /\ worker[v].phase \in {"claiming", "claimed", "finishing"}
               /\ worker[v].window = worker[w].window,
           SetRow(worker[w].window, status, Nobody), Goto(w, "done")
    PROVE  IInv'
<1> DEFINE x == worker[w].window
<1>1. x \in Window /\ status \in Status /\ status \notin {"none", "eligible", "completed"}
  BY DEF IInv, TypeOK, Status, Terminal
<1>2. /\ row' \in [Window -> RowState]
      /\ row'[x].status = status /\ row'[x].content = row[x].content
      /\ \A y \in Window : y # x => row'[y] = row[y]
  <2>1. SetRow(x, status, Nobody)
    OBVIOUS
  <2> HIDE DEF x
  <2> QED
    BY <1>1, <2>1, SetRowFacts DEF IInv
<1>3. PICK new \in WorkerState :
        /\ worker' = [worker EXCEPT ![w] = new]
        /\ new.phase = "done"
  BY GotoFacts DEF IInv, Phase
<1>4. TypeOK'
  BY <1>2, <1>3 DEF IInv, TypeOK, RowState, WorkerState
<1>5. Untouched' /\ ClaimantAlone' /\ ClaimedFresh'
  BY <1>1, <1>2, <1>3
     DEF IInv, TypeOK, Untouched, ClaimantAlone, ClaimedFresh, Executing
<1>6. Linked'
  BY <1>1, <1>2, <1>3 DEF IInv, TypeOK, Linked, Current
<1>7. PublishedAsLinked'
  BY <1>1, <1>2 DEF IInv, PublishedAsLinked, Current
<1> QED
  BY <1>4, <1>5, <1>6, <1>7 DEF IInv, ExecutedOnce

LEMMA RecoverInv ==
    ASSUME IInv, NEW w \in Worker, Recover(w)
    PROVE  IInv'
<1>1. "failed" \in Terminal \ {"completed"} /\ Current(w).status = "running"
  BY DEF Terminal, Recover, Current
<1> QED
  BY <1>1, SettleInv DEF Recover

LEMMA PersistIneligibleInv ==
    ASSUME IInv, NEW w \in Worker, PersistIneligible(w)
    PROVE  IInv'
<1>1. "ineligible" \in Terminal \ {"completed"} /\ Current(w).status = "none"
  BY DEF Terminal, PersistIneligible
<1>2. ~\E v \in Worker :
          /\ worker[v].phase \in {"claiming", "claimed", "finishing"}
          /\ worker[v].window = worker[w].window
  BY <1>1 DEF IInv, Linked, Current
<1> QED
  BY <1>1, <1>2, SettleInv DEF PersistIneligible

LEMMA PersistInv ==
    ASSUME IInv, NEW w \in Worker, Persist(w)
    PROVE  IInv'
<1> DEFINE x == worker[w].window
<1>1. /\ x \in Window /\ content \in Content /\ row[x] \in RowState
      /\ worker[w].target \in Terminal
  BY DEF IInv, TypeOK, RowState
<1>2. /\ Prepared(w) \in RowState
      /\ Prepared(w).status # "none" /\ Prepared(w).content = content
      /\ \/ Prepared(w) = row[x]
         \/ row[x].status = "none" /\ Prepared(w).status = "eligible"
  BY <1>1 DEF Persist, Persistable, Prepared, Current, RowState, Status
<1>3. row' = [row EXCEPT ![x] = Prepared(w)]
  BY DEF Persist, Stored
<1>4. PICK phase \in {"done", "claiming"} : Hold(w, phase, content, worker[w].target)
  BY DEF Persist, Stored
<1>5. PICK new \in WorkerState :
        /\ worker' = [worker EXCEPT ![w] = new]
        /\ new.phase \in {"done", "claiming"} /\ new.window = x
        /\ new.content = content
  BY <1>1, <1>4, HoldFacts DEF IInv, Phase
<1>6. UNCHANGED <<run, lease, latest, content, expired, artifact, executions, disturbances>>
  BY DEF Persist
<1> HIDE DEF x
<1>7. TypeOK'
  BY <1>2, <1>3, <1>5, <1>6 DEF IInv, TypeOK, RowState, WorkerState
<1>8. Untouched' /\ ClaimantAlone' /\ ClaimedFresh'
  BY <1>1, <1>2, <1>3, <1>5, <1>6
     DEF IInv, TypeOK, Untouched, ClaimantAlone, ClaimedFresh, Executing
<1>9. Linked'
  BY <1>1, <1>2, <1>3, <1>5, <1>6 DEF IInv, TypeOK, Linked, Current
<1>10. PublishedAsLinked'
  BY <1>1, <1>2, <1>3, <1>6 DEF IInv, TypeOK, PublishedAsLinked
<1> QED
  BY <1>6, <1>7, <1>8, <1>9, <1>10 DEF IInv, ExecutedOnce

LEMMA ClaimInv ==
    ASSUME IInv, NEW w \in Worker, Claim(w)
    PROVE  IInv'
<1> DEFINE x == worker[w].window
<1>1. x \in Window /\ row[x].status = "eligible" /\ worker[w].phase = "claiming"
  BY DEF IInv, TypeOK, Claim
<1>2. /\ row' \in [Window -> RowState]
      /\ row'[x].status = "running" /\ row'[x].content = row[x].content
      /\ \A y \in Window : y # x => row'[y] = row[y]
  <2>1. SetRow(x, "running", w) /\ "running" \in Status
    BY DEF Claim, Status
  <2> HIDE DEF x
  <2> QED
    BY <1>1, <2>1, SetRowFacts DEF IInv
<1>3. PICK new \in WorkerState :
        /\ worker' = [worker EXCEPT ![w] = new]
        /\ new.phase = "claimed" /\ new.window = x
        /\ new.content = worker[w].content
  BY GotoFacts DEF IInv, Phase, Claim
<1>4. /\ expired' = [expired EXCEPT ![x] = {}]
      /\ UNCHANGED <<run, lease, latest, content, artifact, executions, disturbances>>
  BY DEF Claim
<1> HIDE DEF x
<1>5. TypeOK'
  BY <1>2, <1>3, <1>4 DEF IInv, TypeOK, RowState, WorkerState
<1>6. Untouched' /\ ClaimantAlone' /\ ClaimedFresh'
  <2>0. \A v \in Worker : v # w => worker'[v] = worker[v]
    BY <1>3 DEF IInv, TypeOK
  <2>1. worker'[w] = new
    BY <1>3 DEF IInv, TypeOK
  <2>2. Untouched'
    BY <1>2, <1>3, <1>4, <2>0, <2>1 DEF IInv, Untouched, Executing
  <2>3. ClaimantAlone'
    BY <1>1, <1>2, <1>3, <2>0, <2>1
       DEF IInv, ClaimantAlone, Untouched, Executing
  <2>4. ClaimedFresh'
    BY <1>1, <1>3, <1>4, <2>0, <2>1
       DEF IInv, ClaimedFresh, Untouched
  <2> QED
    BY <2>2, <2>3, <2>4
<1>7. Linked'
  <2>1. row[x].content = worker[w].content
    BY <1>1 DEF IInv, Linked, Current, x
  <2>2. \A y \in Window : row'[y].content = row[y].content
                          /\ (row'[y].status = "none" => row[y].status = "none")
    BY <1>1, <1>2
  <2>3. worker'[w] = new /\ \A v \in Worker : v # w => worker'[v] = worker[v]
    BY <1>3 DEF IInv, TypeOK
  <2>4. \A v \in Worker : worker[v].window \in Window
    BY DEF IInv, TypeOK, WorkerState
  <2> QED
    BY <1>1, <1>2, <1>3, <2>1, <2>2, <2>3, <2>4 DEF IInv, Linked, Current
<1>8. PublishedAsLinked'
  BY <1>1, <1>2, <1>4 DEF IInv, PublishedAsLinked
<1> QED
  BY <1>4, <1>5, <1>6, <1>7, <1>8 DEF IInv, ExecutedOnce

LEMMA EvaluateInv ==
    ASSUME IInv, NEW w \in Worker, Evaluate(w)
    PROVE  IInv'
<1> DEFINE x == worker[w].window
<1>1. /\ x \in Window /\ worker[w].phase = "claimed" /\ worker[w].content \in Content
      /\ executions[x] = 0
  BY DEF IInv, TypeOK, Evaluate, ClaimedFresh
<1>2. executions' = [executions EXCEPT ![x] = @ + 1]
  BY DEF Evaluate
<1>3. PICK target \in Terminal : Hold(w, "finishing", worker[w].content, target)
  BY DEF Evaluate
<1>4. PICK new \in WorkerState :
        /\ worker' = [worker EXCEPT ![w] = new]
        /\ new.phase = "finishing" /\ new.window = x
        /\ new.content = worker[w].content
  BY <1>1, <1>3, HoldFacts DEF IInv, Phase
<1>5. UNCHANGED <<run, lease, latest, content, row, expired, artifact, disturbances>>
  BY DEF Evaluate
<1> HIDE DEF x
<1>6. TypeOK'
  BY <1>2, <1>4, <1>5 DEF IInv, TypeOK, WorkerState
<1>7. Untouched' /\ ClaimantAlone' /\ ClaimedFresh'
  BY <1>1, <1>2, <1>4, <1>5
     DEF IInv, TypeOK, Untouched, ClaimantAlone, ClaimedFresh, Executing, x
<1>8. Linked'
  BY <1>1, <1>4, <1>5 DEF IInv, TypeOK, Linked, Current, x
<1>9. ExecutedOnce'
  BY <1>1, <1>2 DEF IInv, TypeOK, ExecutedOnce
<1> QED
  BY <1>5, <1>6, <1>7, <1>8, <1>9 DEF IInv, PublishedAsLinked

LEMMA FinishInv ==
    ASSUME IInv, NEW w \in Worker, Finish(w)
    PROVE  IInv'
<1> DEFINE x == worker[w].window
<1>1. /\ x \in Window /\ worker[w].phase = "finishing" /\ row[x].status = "running"
      /\ worker[w].target \in Terminal /\ worker[w].content \in Content
      /\ row[x].content = worker[w].content
  BY DEF IInv, TypeOK, Finish, Finishable, Linked, Current
<1>2. /\ row' \in [Window -> RowState]
      /\ row'[x].status = worker[w].target /\ row'[x].content = row[x].content
      /\ \A y \in Window : y # x => row'[y] = row[y]
  <2>1. SetRow(x, worker[w].target, Nobody) /\ worker[w].target \in Status
    BY <1>1 DEF Finish, Status
  <2> HIDE DEF x
  <2> QED
    BY <1>1, <2>1, SetRowFacts DEF IInv
<1>3. PICK new \in WorkerState :
        /\ worker' = [worker EXCEPT ![w] = new]
        /\ new.phase = "done"
  BY GotoFacts DEF IInv, Phase, Finish
<1>4. /\ artifact' = IF worker[w].target = "completed"
                     THEN [artifact EXCEPT ![x] = worker[w].content] ELSE artifact
      /\ UNCHANGED <<run, lease, latest, content, expired, executions, disturbances>>
  BY DEF Finish
<1>5. row'[x].status \notin {"none", "eligible"}
  BY <1>1, <1>2 DEF Terminal
<1> HIDE DEF x
<1>6. TypeOK'
  BY <1>1, <1>2, <1>3, <1>4 DEF IInv, TypeOK, RowState, WorkerState
<1>7. Untouched' /\ ClaimantAlone' /\ ClaimedFresh'
  BY <1>1, <1>2, <1>3, <1>4, <1>5
     DEF IInv, TypeOK, Untouched, ClaimantAlone, ClaimedFresh, Executing
<1>8. Linked'
  BY <1>1, <1>2, <1>3, <1>5 DEF IInv, TypeOK, Linked, Current
<1>9. PublishedAsLinked'
  BY <1>1, <1>2, <1>4, BoundAssumption
     DEF IInv, TypeOK, PublishedAsLinked, NoArtifact, Content
<1> QED
  BY <1>4, <1>6, <1>7, <1>8, <1>9 DEF IInv, ExecutedOnce

LEMMA EnvironmentInv ==
    ASSUME IInv,
           EditMapping \/ \E x \in Window, w \in Worker : Expire(x, w)
    PROVE  IInv'
<1>1. TypeOK'
  BY BoundAssumption DEF IInv, TypeOK, EditMapping, Expire, Content
<1> QED
  BY <1>1 DEF IInv, EditMapping, Expire, Untouched, ClaimantAlone,
              ClaimedFresh, Linked, ExecutedOnce, PublishedAsLinked,
              Executing, Current

LEMMA StepInv == IInv /\ [Next]_vars => IInv'
<1> SUFFICES ASSUME IInv, [Next]_vars PROVE IInv'
  OBVIOUS
<1>1. CASE UNCHANGED vars
  BY <1>1 DEF vars, IInv, TypeOK, Untouched, ClaimantAlone, ClaimedFresh,
              Linked, ExecutedOnce, PublishedAsLinked, Executing, Current
<1>2. CASE EditMapping \/ \E x \in Window, w \in Worker : Expire(x, w)
  BY <1>2, EnvironmentInv
<1>3. ASSUME NEW w \in Worker, WorkerStep(w) \/ Crash(w)
      PROVE  IInv'
  BY <1>3, VisitInv, ReadingInv, RecoverInv, PersistInv, PersistIneligibleInv,
     ClaimInv, EvaluateInv, FinishInv, RefusalInv, LetGoInv
     DEF WorkerStep
<1> QED
  BY <1>1, <1>2, <1>3 DEF Next

LEMMA Invariant == Spec => []IInv
BY InitInv, StepInv, PTL DEF Spec

-----------------------------------------------------------------------------
\* The types of the state.
THEOREM TypeCorrect == Spec => []TypeOK
BY Invariant, PTL DEF IInv

\* ExecutedOnce: no window is evaluated twice.
THEOREM EvaluatedOnce == Spec => []ExecutedOnce
BY Invariant, PTL DEF IInv

\* PublishedAsLinked: an artifact is an analysis of the observations that are
\* linked to its window, and a completed window has one.
THEOREM ArtifactMatchesWindow == Spec => []PublishedAsLinked
BY Invariant, PTL DEF IInv

\* TerminalFinal: a late evaluation changes nothing of a window that has come
\* to something.
THEOREM OutcomesStay == Spec => TerminalFinal
<1>1. ASSUME TypeOK, [Next]_vars, NEW x \in Window, row[x].status \in Terminal
      PROVE  row'[x] = row[x] /\ artifact'[x] = artifact[x]
  <2>1. ASSUME NEW w \in Worker, NEW status, NEW holder,
               Current(w).status \notin Terminal,
               SetRow(worker[w].window, status, holder)
        PROVE  row'[x] = row[x]
    BY <1>1, <2>1 DEF TypeOK, SetRow, Current
  <2>2. CASE UNCHANGED <<row, artifact>>
    BY <2>2
  <2>3. ASSUME NEW w \in Worker, Recover(w) \/ PersistIneligible(w) \/ Claim(w)
        PROVE  row'[x] = row[x] /\ artifact' = artifact
    <3>1. Current(w).status \notin Terminal
      BY <2>3 DEF Recover, PersistIneligible, Claim, Current, Terminal
    <3> QED
      BY <2>1, <2>3, <3>1 DEF Recover, PersistIneligible, Claim
  <2>4. ASSUME NEW w \in Worker, Persist(w)
        PROVE  row'[x] = row[x] /\ artifact' = artifact
    BY <1>1, <2>4 DEF TypeOK, Persist, Stored, Prepared, Current, Terminal
  <2>5. ASSUME NEW w \in Worker, Finish(w)
        PROVE  row'[x] = row[x] /\ artifact'[x] = artifact[x]
    <3>1. Current(w).status = "running" /\ "running" \notin Terminal
      BY <2>5 DEF Finish, Finishable, Terminal
    <3> QED
      BY <1>1, <2>1, <2>5, <3>1 DEF TypeOK, Finish, Current
  <2>6. ASSUME NEW w \in Worker,
               \/ Visit(w) \/ NoObservations(w) \/ ReadExisting(w)
               \/ LeaveRunning(w) \/ PreparationConflict(w)
               \/ ClaimConflict(w) \/ ReadAgain(w) \/ Evaluate(w)
               \/ FinishRefused(w) \/ FinishLost(w) \/ CompleteRun(w) \/ Crash(w)
        PROVE  UNCHANGED <<row, artifact>>
    BY <2>6 DEF Visit, NoObservations, ReadExisting, LeaveRunning,
                PreparationConflict, ClaimConflict, ReadAgain, Evaluate,
                FinishRefused, FinishLost, CompleteRun, Crash
  <2>7. ASSUME NEW w \in Worker, WorkerStep(w) \/ Crash(w)
        PROVE  row'[x] = row[x] /\ artifact'[x] = artifact[x]
    BY <2>3, <2>4, <2>5, <2>6, <2>7 DEF WorkerStep
  <2>8. CASE EditMapping \/ \E y \in Window, w \in Worker : Expire(y, w)
    BY <2>8 DEF EditMapping, Expire
  <2>9. CASE UNCHANGED vars
    BY <2>9 DEF vars
  <2> QED
    BY <1>1, <2>7, <2>8, <2>9 DEF Next
<1>2. TypeOK /\ [Next]_vars =>
        [\A x \in Window : row[x].status \in Terminal =>
            row'[x] = row[x] /\ artifact'[x] = artifact[x]]_vars
  BY <1>1
<1> QED
  BY <1>2, TypeCorrect, PTL DEF Spec, TerminalFinal

-----------------------------------------------------------------------------
(***************************************************************************)
(* What it takes to strand a window.  As long as no worker dies, none is   *)
(* overtaken, no commit is lost and no claim expires, the worker that the  *)
(* lease names is the only one at work, and a window that is not terminal  *)
(* is the one it has in hand.                                              *)
(***************************************************************************)
Orderly == disturbances = 0 /\ \A x \in Window : expired[x] = {}

\* The claim of a window cannot have expired before it is made.
Unexpired ==
    \A x \in Window : row[x].status \in {"none", "eligible"} => expired[x] = {}

AtWork == \A w \in Worker : worker[w].phase # "idle" => lease = w

\* What w is to do with the window, and nobody can keep it from.
Attends(w, x) ==
    /\ worker[w].window = x
    /\ \/ row[x].status = "eligible" /\ worker[w].phase = "claiming"
       \/ row[x].status = "running" /\ row[x].holder = w /\ Executing(w)

Attended ==
    \A x \in Window : row[x].status \in {"eligible", "running"} =>
        \E w \in Worker : Attends(w, x)

OrderInv == IInv /\ Unexpired /\ (Orderly => AtWork /\ Attended)

\* A window in hand is the window of the one worker at work.
LEMMA OneAttends ==
    ASSUME TypeOK, AtWork, Attended, NEW w \in Worker, worker[w].phase # "idle",
           NEW x \in Window, row[x].status \in {"eligible", "running"}
    PROVE  Attends(w, x)
<1>1. PICK v \in Worker : Attends(v, x)
  BY DEF Attended
<1>2. worker[v].phase # "idle"
  BY <1>1 DEF Attends, Executing
<1> QED
  BY <1>1, <1>2 DEF AtWork

LEMMA StaysUnexpired ==
    ASSUME IInv, Unexpired, [Next]_vars
    PROVE  Unexpired' /\ (Orderly' => Orderly)
<1>1. CASE UNCHANGED <<row, expired>>
  <2>1. disturbances' = disturbances \/ disturbances' = disturbances + 1
    <3>1. ASSUME NEW w \in Worker, WorkerStep(w) \/ Crash(w)
          PROVE  disturbances' = disturbances \/ disturbances' = disturbances + 1
      BY <3>1 DEF WorkerStep, Visit, NoObservations, ReadExisting, Recover,
                  LeaveRunning, Persist, PersistIneligible, PreparationConflict,
                  Claim, ClaimConflict, ReadAgain, Evaluate, Finish,
                  FinishRefused, FinishLost, CompleteRun, Crash, Disturb
    <3> QED
      BY <3>1 DEF Next, EditMapping, Expire, vars
  <2> QED
    BY <1>1, <2>1, BoundAssumption DEF IInv, TypeOK, Unexpired, Orderly
<1>2. ASSUME NEW w \in Worker, Recover(w) \/ PersistIneligible(w) \/ Finish(w)
      PROVE  Unexpired' /\ (Orderly' => Orderly)
  <2>1. PICK status \in Terminal, holder \in Worker \cup {Nobody} :
          SetRow(worker[w].window, status, holder)
    BY <1>2 DEF Recover, PersistIneligible, Finish, Terminal, IInv, TypeOK
  <2>2. /\ row'[worker[w].window].status = status
        /\ \A y \in Window : y # worker[w].window => row'[y] = row[y]
    BY <2>1 DEF IInv, TypeOK, SetRow
  <2>3. UNCHANGED <<expired, disturbances>>
    BY <1>2 DEF Recover, PersistIneligible, Finish
  <2> QED
    BY <2>2, <2>3 DEF Unexpired, Orderly, Terminal
<1>3. ASSUME NEW w \in Worker, Persist(w)
      PROVE  Unexpired' /\ (Orderly' => Orderly)
  <2>1. UNCHANGED <<expired, disturbances>>
    BY <1>3 DEF Persist
  <2>2. /\ row'[worker[w].window] = Prepared(w)
        /\ \A y \in Window : y # worker[w].window => row'[y] = row[y]
        /\ worker[w].window \in Window
    BY <1>3 DEF IInv, TypeOK, Persist, Stored
  <2>3. Prepared(w).status \in {"none", "eligible"} =>
            row[worker[w].window].status \in {"none", "eligible"}
    BY DEF Prepared, Current
  <2> QED
    BY <2>1, <2>2, <2>3 DEF Unexpired, Orderly
<1>4. ASSUME NEW w \in Worker, Claim(w)
      PROVE  Unexpired' /\ (Orderly' => Orderly)
  <2>1. /\ worker[w].window \in Window /\ disturbances' = disturbances
        /\ row[worker[w].window].status = "eligible"
        /\ SetRow(worker[w].window, "running", w)
        /\ expired' = [expired EXCEPT ![worker[w].window] = {}]
    BY <1>4 DEF Claim, IInv, TypeOK
  <2>2. expired' = expired
    BY <2>1 DEF Unexpired, IInv, TypeOK
  <2>3. /\ row'[worker[w].window].status = "running"
        /\ \A y \in Window : y # worker[w].window => row'[y] = row[y]
    BY <2>1 DEF IInv, TypeOK, SetRow
  <2> QED
    BY <2>1, <2>2, <2>3 DEF Unexpired, Orderly
<1>5. ASSUME NEW x \in Window, NEW w \in Worker, Expire(x, w)
      PROVE  Unexpired' /\ (Orderly' => Orderly)
  BY <1>5 DEF Expire, Unexpired, Orderly, IInv, TypeOK
<1>6. ASSUME NEW w \in Worker, WorkerStep(w) \/ Crash(w)
      PROVE  Unexpired' /\ (Orderly' => Orderly)
  <2>1. CASE \/ Visit(w) \/ NoObservations(w) \/ ReadExisting(w)
             \/ LeaveRunning(w) \/ PreparationConflict(w) \/ ClaimConflict(w)
             \/ ReadAgain(w) \/ Evaluate(w) \/ FinishRefused(w)
             \/ FinishLost(w) \/ CompleteRun(w) \/ Crash(w)
    BY <1>1, <2>1 DEF Visit, NoObservations, ReadExisting, LeaveRunning,
                PreparationConflict, ClaimConflict, ReadAgain, Evaluate,
                FinishRefused, FinishLost, CompleteRun, Crash
  <2> QED
    BY <1>2, <1>3, <1>4, <1>6, <2>1 DEF WorkerStep
<1> QED
  BY <1>1, <1>5, <1>6 DEF Next, EditMapping, vars

\* A step of the one worker at work, which keeps it at work.
LEMMA WorkGoesOn ==
    ASSUME TypeOK, AtWork, NEW w \in Worker, worker[w].phase # "idle",
           NEW new, worker' = [worker EXCEPT ![w] = new], lease' = lease,
           \A x \in Window : row'[x].status \in {"eligible", "running"} =>
                Attends(w, x)'
    PROVE  AtWork' /\ Attended'
<1>1. \A v \in Worker : v # w => worker'[v] = worker[v]
  BY DEF TypeOK
<1>2. AtWork'
  BY <1>1 DEF AtWork
<1> QED
  BY <1>2 DEF Attended

LEMMA OrderedStep ==
    ASSUME IInv, Orderly, Orderly', AtWork, Attended, NEW w \in Worker,
           WorkerStep(w)
    PROVE  AtWork' /\ Attended'
<1> DEFINE x == worker[w].window
<1>0. TypeOK /\ x \in Window
  BY DEF IInv, TypeOK
<1>1. CASE Visit(w)
  <2>1. \A v \in Worker : worker[v].phase = "idle"
    <3> SUFFICES ASSUME NEW v \in Worker, worker[v].phase # "idle" PROVE FALSE
      OBVIOUS
    <3>1. lease = v /\ v # Nobody
      BY NobodyAssumption DEF AtWork
    <3>2. disturbances' = disturbances + 1
      BY <1>1, <3>1 DEF Visit, Alive, Disturb
    <3> QED
      BY <3>2 DEF Orderly
  <2>2. \A y \in Window : row[y].status \notin {"eligible", "running"}
    BY <2>1 DEF Attended, Attends, Executing
  <2>3. /\ lease' = w /\ row' = row
        /\ \A v \in Worker : v # w => worker'[v] = worker[v]
    BY <1>1 DEF Visit, IInv, TypeOK
  <2> QED
    BY <2>1, <2>2, <2>3 DEF AtWork, Attended
<1>2. CASE \/ ReadExisting(w) \/ NoObservations(w) \/ LeaveRunning(w)
           \/ PreparationConflict(w) \/ ReadAgain(w)
  <2>1. /\ worker[w].phase \in {"reading", "recovering", "preparing", "rereading"}
        /\ \E phase : Goto(w, phase)
        /\ UNCHANGED <<row, lease>>
    BY <1>2 DEF ReadExisting, NoObservations, LeaveRunning, PreparationConflict,
                ReadAgain
  <2>2. \A y \in Window : row[y].status \notin {"eligible", "running"}
    BY <1>0, <2>1, OneAttends DEF Attends, Executing
  <2>3. \E new : worker' = [worker EXCEPT ![w] = new]
    BY <2>1 DEF Goto, Hold
  <2> QED
    BY <1>0, <2>1, <2>2, <2>3, WorkGoesOn
<1>3. CASE Recover(w)
  BY <1>0, <1>3 DEF Recover, Orderly
<1>4. CASE Persist(w)
  <2>1. worker[w].phase = "preparing" /\ lease' = lease
    BY <1>4 DEF Persist
  <2>2. \A y \in Window : row[y].status \notin {"eligible", "running"}
    BY <1>0, <2>1, OneAttends DEF Attends, Executing
  <2>3. /\ row'[x] = Prepared(w)
        /\ \A y \in Window : y # x => row'[y] = row[y]
    BY <1>0, <1>4 DEF TypeOK, Persist, Stored
  <2>4. PICK new : worker' = [worker EXCEPT ![w] = new] /\ new.window = x
                   /\ new.phase = IF Prepared(w).status = "completed"
                                  THEN "done" ELSE "claiming"
    <3>1. PICK phase \in Phase :
            /\ phase = IF Prepared(w).status = "completed" THEN "done" ELSE "claiming"
            /\ Hold(w, phase, content, worker[w].target)
      BY <1>4 DEF Persist, Stored, Phase
    <3>2. content \in Content /\ worker[w].target \in Terminal
      BY <1>0 DEF TypeOK
    <3> QED
      BY <1>0, <3>1, <3>2, HoldFacts
  <2>5. \/ Prepared(w).status = "eligible" /\ new.phase = "claiming"
        \/ Prepared(w).status \notin {"eligible", "running"}
    BY <1>0, <2>2, <2>4 DEF Prepared, Current
  <2>6. worker'[w] = new
    BY <1>0, <2>4 DEF TypeOK
  <2>7. ASSUME NEW y \in Window, row'[y].status \in {"eligible", "running"}
        PROVE  Attends(w, y)'
    BY <2>2, <2>3, <2>4, <2>5, <2>6, <2>7 DEF Attends
  <2> QED
    BY <1>0, <2>1, <2>4, <2>7, WorkGoesOn
<1>5. CASE PersistIneligible(w)
  <2>1. /\ worker[w].phase = "preparing" /\ lease' = lease
        /\ SetRow(x, "ineligible", Nobody) /\ \E phase : Goto(w, phase)
    BY <1>5 DEF PersistIneligible
  <2>2. \A y \in Window : row[y].status \notin {"eligible", "running"}
    BY <1>0, <2>1, OneAttends DEF Attends, Executing
  <2>3. /\ row'[x].status = "ineligible"
        /\ \A y \in Window : y # x => row'[y] = row[y]
    BY <1>0, <2>1 DEF SetRow, TypeOK
  <2>4. \E new : worker' = [worker EXCEPT ![w] = new]
    BY <2>1 DEF Goto, Hold
  <2> QED
    BY <1>0, <2>1, <2>2, <2>3, <2>4, WorkGoesOn
<1>6. CASE Claim(w)
  <2>1. /\ worker[w].phase = "claiming" /\ lease' = lease
        /\ SetRow(x, "running", w) /\ Goto(w, "claimed")
    BY <1>6 DEF Claim
  <2>2. \A y \in Window : row[y].status \in {"eligible", "running"} => y = x
    BY <1>0, <2>1, OneAttends DEF Attends
  <2>3. /\ row'[x].status = "running" /\ row'[x].holder = w
        /\ \A y \in Window : y # x => row'[y] = row[y]
    BY <1>0, <2>1 DEF SetRow, TypeOK
  <2>4. PICK new : /\ worker' = [worker EXCEPT ![w] = new]
                   /\ new.window = x /\ new.phase = "claimed"
    BY <1>0, <2>1, GotoFacts DEF Phase
  <2>5. worker'[w] = new
    BY <1>0, <2>4 DEF TypeOK
  <2>6. ASSUME NEW y \in Window, row'[y].status \in {"eligible", "running"}
        PROVE  Attends(w, y)'
    BY <2>2, <2>3, <2>4, <2>5, <2>6 DEF Attends, Executing
  <2> QED
    BY <1>0, <2>1, <2>4, <2>6, WorkGoesOn
<1>7. CASE ClaimConflict(w)
  <2>1. /\ worker[w].phase = "claiming" /\ row[x].status # "eligible"
        /\ UNCHANGED <<row, lease>> /\ \E phase : Goto(w, phase)
    BY <1>7 DEF ClaimConflict, Current
  <2>2. \A y \in Window : row[y].status \notin {"eligible", "running"}
    BY <1>0, <2>1, OneAttends DEF Attends, Executing
  <2>3. \E new : worker' = [worker EXCEPT ![w] = new]
    BY <2>1 DEF Goto, Hold
  <2> QED
    BY <1>0, <2>1, <2>2, <2>3, WorkGoesOn
<1>8. CASE Evaluate(w)
  <2>1. /\ worker[w].phase = "claimed" /\ UNCHANGED <<row, lease>>
        /\ \E target : Hold(w, "finishing", worker[w].content, target)
    BY <1>8 DEF Evaluate
  <2>2. \A y \in Window : row[y].status \in {"eligible", "running"} =>
            y = x /\ row[y].status = "running" /\ row[y].holder = w
    BY <1>0, <2>1, OneAttends DEF Attends
  <2>3. PICK new : /\ worker' = [worker EXCEPT ![w] = new]
                   /\ new.window = x /\ new.phase = "finishing"
    <3>1. PICK target \in Terminal :
            Hold(w, "finishing", worker[w].content, target)
      BY <1>8 DEF Evaluate
    <3>2. worker[w].content \in Content /\ "finishing" \in Phase
      BY <1>0 DEF TypeOK, Phase
    <3> QED
      BY <1>0, <3>1, <3>2, HoldFacts
  <2>4. worker'[w] = new
    BY <1>0, <2>3 DEF TypeOK
  <2>5. ASSUME NEW y \in Window, row'[y].status \in {"eligible", "running"}
        PROVE  Attends(w, y)'
    BY <2>1, <2>2, <2>3, <2>4, <2>5 DEF Attends, Executing
  <2> QED
    BY <1>0, <2>1, <2>3, <2>5, WorkGoesOn
<1>9. CASE Finish(w)
  <2>1. /\ worker[w].phase = "finishing" /\ lease' = lease
        /\ SetRow(x, worker[w].target, Nobody) /\ Goto(w, "done")
        /\ worker[w].target \in Terminal
    BY <1>9 DEF Finish, IInv, TypeOK
  <2>2. \A y \in Window : row[y].status \in {"eligible", "running"} => y = x
    BY <1>0, <2>1, OneAttends DEF Attends
  <2>3. /\ row'[x].status \in Terminal
        /\ \A y \in Window : y # x => row'[y] = row[y]
    BY <1>0, <2>1 DEF SetRow, TypeOK
  <2>4. \E new : worker' = [worker EXCEPT ![w] = new]
    BY <2>1 DEF Goto, Hold
  <2> QED
    BY <1>0, <2>1, <2>2, <2>3, <2>4, WorkGoesOn DEF Terminal
<1>10. CASE FinishRefused(w)
  <2>1. /\ worker[w].phase = "finishing" /\ ~Finishable(w)
        /\ UNCHANGED <<row, lease>> /\ AfterRefusal(w)
    BY <1>10 DEF FinishRefused
  <2>2. \A y \in Window : row[y].status \notin {"eligible", "running"}
    BY <1>0, <2>1, OneAttends DEF Attends, Finishable, Current, Orderly
  <2>3. \E new : worker' = [worker EXCEPT ![w] = new]
    BY <2>1 DEF AfterRefusal, Hold
  <2> QED
    BY <1>0, <2>1, <2>2, <2>3, WorkGoesOn
<1>11. CASE FinishLost(w)
  BY <1>11 DEF FinishLost, Disturb, Orderly
<1>12. CASE CompleteRun(w)
  <2>1. worker[w].phase \in {"done", "raised"} /\ row' = row
    BY <1>12 DEF CompleteRun
  <2>2. \A y \in Window : row[y].status \notin {"eligible", "running"}
    BY <1>0, <2>1, OneAttends DEF Attends, Executing
  <2>3. \A v \in Worker : v # w => worker'[v] = worker[v]
                                   /\ worker[v].phase = "idle"
    BY <1>0, <1>12, <2>1 DEF CompleteRun, AtWork, TypeOK
  <2>4. worker'[w].phase = "idle"
    BY <1>0, <1>12 DEF CompleteRun, Idle, TypeOK
  <2> QED
    BY <2>1, <2>2, <2>3, <2>4 DEF AtWork, Attended
<1> QED
  BY <1>1, <1>2, <1>3, <1>4, <1>5, <1>6, <1>7, <1>8, <1>9, <1>10, <1>11, <1>12
     DEF WorkerStep

LEMMA OrderInvInductive ==
    /\ Init => OrderInv
    /\ OrderInv /\ [Next]_vars => OrderInv'
<1>1. Init => OrderInv
  BY InitInv DEF Init, OrderInv, Unexpired, AtWork, Attended, Idle, NoRow
<1>2. ASSUME OrderInv, [Next]_vars, Orderly', IInv', Orderly
      PROVE  AtWork' /\ Attended'
  <2>1. IInv /\ AtWork /\ Attended
    BY <1>2 DEF OrderInv
  <2>2. ASSUME NEW w \in Worker, Crash(w)
        PROVE  FALSE
    BY <1>2, <2>2 DEF Crash, Disturb, Orderly
  <2>3. CASE UNCHANGED <<row, worker, lease>>
    BY <2>1, <2>3 DEF AtWork, Attended, Attends, Executing
  <2> QED
    BY <1>2, <2>1, <2>2, <2>3, OrderedStep DEF Next, EditMapping, Expire, vars
<1>3. ASSUME OrderInv, [Next]_vars PROVE OrderInv'
  <2>1. IInv' /\ Unexpired' /\ (Orderly' => Orderly)
    BY <1>3, StepInv, StaysUnexpired DEF OrderInv
  <2> QED
    BY <1>2, <1>3, <2>1 DEF OrderInv
<1> QED
  BY <1>1, <1>3

\* The code can leave a window that is not terminal behind, with nobody at work
\* and no run that would be visited again (NoStrandedWindow does not hold), but
\* only after a crash, a takeover from a live worker, a lost commit, or a claim
\* that has expired.
THEOREM StrandingNeedsFault == Spec => [](Orderly => NoStrandedWindow)
<1>1. OrderInv => (Orderly => NoStrandedWindow)
  BY DEF OrderInv, NoStrandedWindow, Attended, Attends, Executing
<1> QED
  BY <1>1, OrderInvInductive, PTL DEF Spec

=============================================================================
