---------------------- MODULE UploadPublication_proofs ----------------------
(***************************************************************************)
(* Theorems about UploadPublication, for every set of workers and requests *)
(* and every number of retries, progress reports, crashes and recoveries.  *)
(***************************************************************************)
EXTENDS UploadPublication, TLAPS

(***************************************************************************)
(* The invariant the proofs work with: besides the types and the property  *)
(* itself, who announces a completion has stored a bundle, or found one.   *)
(***************************************************************************)
BundleBeforeAnnouncing ==
    \A p \in Process : local[p].phase = "announcing" =>
        bundle[local[p].draft.att] # Nobody

IInv == TypeOK /\ CompleteHasItsResult /\ BundleBeforeAnnouncing

-----------------------------------------------------------------------------
(***************************************************************************)
(* Documents and what a process holds.                                     *)
(***************************************************************************)
LEMMA DocumentFields ==
    /\ Original \in Document
    /\ \A d \in Document :
        /\ d.att \in Attempt /\ d.mark \in Attempt /\ d.state \in State
        /\ \A a \in Attempt : [d EXCEPT !.att = a] \in Document
        /\ \A a \in Attempt : [d EXCEPT !.mark = a] \in Document
        /\ \A s \in State : [d EXCEPT !.state = s] \in Document
BY BoundAssumption DEF Document, Original, State, Outcome, Attempt

\* What a process holds after a change of its phase and of other fields.
Becomes(new, phase) == new \in Locals /\ new.phase = phase

LEMMA IdleLocal == Becomes(Idle, "idle")
BY DocumentFields, BoundAssumption DEF Idle, Becomes, Locals, Phase

\* The status as it is read, and what is derived from it.
LEMMA ViewIsDocument ==
    ASSUME TypeOK
    PROVE  View \in Document /\ Metadata \in Document
<1>1. View \in Document
  BY BoundAssumption
     DEF TypeOK, View, DocumentOf, Decided, Document, State, Outcome, Attempt
<1>2. [row EXCEPT !.mark = IF row.mark # 0 THEN row.mark ELSE View.mark] \in Document
  BY <1>1, DocumentFields DEF TypeOK
<1> QED
  BY <1>1, <1>2 DEF Metadata

LEMMA ScopedIsDocument ==
    ASSUME NEW doc \in Document, NEW seen \in Document
    PROVE  ScopedDraft(doc, seen) \in Document
BY DocumentFields DEF ScopedDraft

LEMMA EnvelopeOfAttempt ==
    ASSUME TypeOK, NEW a \in Attempt, NEW state \in Outcome,
           NEW result \in Worker \cup {Nobody},
           envelope' = Inserted(a, state, result)
    PROVE  /\ envelope' \in [Attempt -> [state : Outcome \cup {"none"},
                                          result : Worker \cup {Nobody}]]
           /\ envelope'[a].state \in Outcome
           /\ DocumentOf(a, envelope'[a].state) \in Document
           /\ \A b \in Attempt : b # a => envelope'[b] = envelope[b]
           /\ Decided(a) => envelope'[a] = envelope[a]
           /\ ~Decided(a) => envelope'[a] = [state |-> state, result |-> result]
<1>1. envelope' \in [Attempt -> [state : Outcome \cup {"none"},
                                 result : Worker \cup {Nobody}]]
  BY DEF TypeOK, Inserted
<1>2. /\ \A b \in Attempt : b # a => envelope'[b] = envelope[b]
      /\ Decided(a) => envelope'[a] = envelope[a]
      /\ ~Decided(a) => envelope'[a] = [state |-> state, result |-> result]
  BY DEF TypeOK, Inserted
<1>3. envelope'[a].state \in Outcome
  BY <1>1, <1>2 DEF TypeOK, Decided
<1> QED
  BY <1>1, <1>2, <1>3, BoundAssumption DEF DocumentOf, Document, State, Attempt

-----------------------------------------------------------------------------
(***************************************************************************)
(* The steps.                                                              *)
(***************************************************************************)
LEMMA InitInv == Init => IInv
<1> SUFFICES ASSUME Init PROVE IInv
  OBVIOUS
<1>1. TypeOK
  BY BoundAssumption, DocumentFields, IdleLocal
     DEF Init, TypeOK, Becomes, NoEnvelope, NoRecovery, Attempt, Outcome
<1> QED
  BY <1>1 DEF Init, IInv, CompleteHasItsResult, BundleBeforeAnnouncing,
              NoEnvelope, Idle

\* The types of what a step does not change, or changes to a value known.
Shared ==
    /\ pointer \in Attempt
    /\ row \in Document
    /\ queue \in {"pending", "processing", "completed", "failed"}
    /\ recovery \in [phase : {"idle", "publishing", "recording", "settling"},
                      att : Attempt, outcome : Outcome]
    /\ issued \in 0..MaxRetry
    /\ disturbances \in 0..MaxDisturbances

LEMMA SharedTypes == TypeOK => Shared
BY DEF TypeOK, Shared

\* A process goes on; neither a bundle nor an envelope is written.
LEMMA GoesOnInv ==
    ASSUME IInv, NEW p \in Process, NEW phase \in Phase \ {"announcing"},
           NEW new, Becomes(new, phase), local' = [local EXCEPT ![p] = new],
           Shared', UNCHANGED <<envelope, bundle>>
    PROVE  IInv'
<1>1. TypeOK'
  BY DEF IInv, TypeOK, Shared, Becomes
<1>2. BundleBeforeAnnouncing'
  BY DEF IInv, TypeOK, BundleBeforeAnnouncing, Becomes
<1> QED
  BY <1>1, <1>2 DEF IInv, CompleteHasItsResult

\* ... and only its phase changes, or it is idle again, or calls write_job.
LEMMA GotoInv ==
    ASSUME IInv, NEW p \in Process, NEW phase \in Phase \ {"announcing"},
           \/ Goto(p, phase) \/ local' = [local EXCEPT ![p] = Idle],
           Shared', UNCHANGED <<envelope, bundle>>
    PROVE  IInv'
<1>1. PICK r \in Locals : r = local[p]
  BY DEF IInv, TypeOK
<1>2. CASE Goto(p, phase)
  <2>1. local' = [local EXCEPT ![p] = [r EXCEPT !.phase = phase]]
    BY <1>1, <1>2 DEF Goto
  <2>2. Becomes([r EXCEPT !.phase = phase], phase)
    BY DEF Becomes, Locals
  <2> QED
    BY <2>1, <2>2, GoesOnInv
<1>3. CASE local' = [local EXCEPT ![p] = Idle]
  <2>1. "idle" \in Phase \ {"announcing"}
    BY DEF Phase
  <2> QED
    BY <1>3, <2>1, IdleLocal, GoesOnInv
<1> QED
  BY <1>2, <1>3

LEMMA WriteInv ==
    ASSUME IInv, NEW p \in Process, NEW doc \in Document,
           NEW next \in {"idle", "working", "failing", "enqueueing"},
           Write(p, doc, next), Shared', UNCHANGED <<envelope, bundle>>
    PROVE  IInv'
<1> DEFINE new == [Idle EXCEPT !.phase = "reading", !.draft = doc, !.next = next]
<1>1. local' = [local EXCEPT ![p] = new]
  BY DEF Write
<1>2. "reading" \in Phase \ {"announcing"}
  BY DEF Phase
<1>3. ASSUME NEW r \in Locals
      PROVE  Becomes([r EXCEPT !.phase = "reading", !.draft = doc, !.next = next],
                     "reading")
  BY <1>2 DEF Becomes, Locals
<1>4. Becomes(new, "reading")
  <2>1. Idle \in Locals
    BY IdleLocal DEF Becomes
  <2> QED
    BY <1>3, <2>1, Zenon
<1> HIDE DEF new
<1> QED
  BY <1>1, <1>2, <1>4, GoesOnInv

LEMMA ReadExistingInv ==
    ASSUME IInv, NEW p \in Process, ReadExisting(p)
    PROVE  IInv'
<1>1. PICK r \in Locals, v \in Document : r = local[p] /\ v = View
  BY ViewIsDocument DEF IInv, TypeOK
<1>2. PICK d \in Document : d = ScopedDraft(r.draft, v)
  BY ScopedIsDocument DEF Locals
<1> DEFINE new == [r EXCEPT !.phase = "publishing", !.draft = d, !.seen = v]
<1>3. local' = [local EXCEPT ![p] = new]
  BY <1>1, <1>2 DEF ReadExisting
<1>4. "publishing" \in Phase \ {"announcing"}
  BY DEF Phase
<1>5. Becomes(new, "publishing")
  BY <1>4 DEF Becomes, Locals
<1>6. Shared' /\ UNCHANGED <<envelope, bundle>>
  BY SharedTypes DEF IInv, Shared, ReadExisting
<1> HIDE DEF new
<1> QED
  BY <1>3, <1>4, <1>5, <1>6, GoesOnInv

\* Steps that only move the pointer, the queue row or the process.
LEMMA PlainInv ==
    ASSUME IInv, NEW p \in Process,
           \/ MovePointer(p) \/ Claim(p) \/ FindCompleted(p) \/ Close(p)
           \/ Complete(p) \/ Enqueue(p) \/ Crash(p)
    PROVE  IInv'
<1>1. local[p].draft.att \in Attempt /\ Shared
  BY SharedTypes DEF IInv, TypeOK, Locals, Document
<1>2. Shared' /\ UNCHANGED <<envelope, bundle>>
  BY <1>1, BoundAssumption
     DEF Shared, MovePointer, Claim, FindCompleted, Close, Complete, Enqueue,
         Crash, Disturb, CompleteRow
<1>3. PICK phase \in Phase \ {"announcing"} :
        Goto(p, phase) \/ local' = [local EXCEPT ![p] = Idle]
  BY DEF MovePointer, Claim, FindCompleted, Close, Complete, Enqueue, Crash, Phase
<1> QED
  BY <1>2, <1>3, GotoInv

LEMMA PublishNothingInv ==
    ASSUME IInv, NEW p \in Process, PublishNothing(p)
    PROVE  IInv'
<1>1. PICK r \in Locals : r = local[p]
  BY DEF IInv, TypeOK
<1> DEFINE new == [r EXCEPT !.phase = "recording", !.draft = r.seen]
<1>2. local' = [local EXCEPT ![p] = new]
  BY <1>1 DEF PublishNothing
<1>3. "recording" \in Phase \ {"announcing"}
  BY DEF Phase
<1>4. Becomes(new, "recording")
  BY <1>3 DEF Becomes, Locals
<1>5. Shared' /\ UNCHANGED <<envelope, bundle>>
  BY SharedTypes DEF IInv, Shared, PublishNothing
<1> HIDE DEF new
<1> QED
  BY <1>2, <1>3, <1>4, <1>5, GoesOnInv

LEMMA RecordInv ==
    ASSUME IInv, NEW p \in Process, Record(p)
    PROVE  IInv'
<1>1. PICK r \in Locals, i \in Locals : r = local[p] /\ i = Idle
  BY IdleLocal DEF IInv, TypeOK, Becomes
<1> DEFINE working == [i EXCEPT !.phase = "working", !.metadata = r.metadata,
                                !.progress = r.progress]
           enqueueing == [i EXCEPT !.phase = "enqueueing", !.metadata = r.metadata]
           other == [i EXCEPT !.phase = r.next]
           new == IF r.next = "working" THEN working
                  ELSE IF r.next = "enqueueing" THEN enqueueing ELSE other
<1>2. local' = [local EXCEPT ![p] = new]
  BY <1>1 DEF Record
<1>3. /\ {"working", "enqueueing", "idle", "failing"} \subseteq Phase \ {"announcing"}
      /\ r.next \in {"idle", "working", "failing", "enqueueing"}
  BY DEF Phase, Locals
<1>4. Becomes(working, "working")
  BY <1>3 DEF Becomes, Locals
<1>5. Becomes(enqueueing, "enqueueing")
  BY <1>3 DEF Becomes, Locals
<1>6. Becomes(other, r.next)
  BY <1>3 DEF Becomes, Locals
<1>7. PICK phase \in Phase \ {"announcing"} : Becomes(new, phase)
  <2> HIDE DEF working, enqueueing, other
  <2> QED
    BY <1>3, <1>4, <1>5, <1>6
<1>8. Shared' /\ UNCHANGED <<envelope, bundle>>
  BY SharedTypes DEF IInv, TypeOK, Locals, Shared, Record
<1> HIDE DEF new
<1> QED
  BY <1>2, <1>7, <1>8, GoesOnInv

LEMMA StartInv ==
    ASSUME IInv, NEW w \in Worker, Start(w)
    PROVE  IInv'
<1>1. PICK state \in {"active", "failed"} :
        local' = [local EXCEPT ![w] =
            [@ EXCEPT !.phase = "reading", !.metadata = Metadata,
                      !.draft = [Metadata EXCEPT !.state = state],
                      !.next = IF state = "active" THEN "working"
                                                   ELSE "failing"]]
  BY DEF Start
<1>2. PICK r \in Locals, m \in Document : r = local[w] /\ m = Metadata
  BY ViewIsDocument DEF IInv, TypeOK, Process
<1>3. PICK d \in Document : d = [m EXCEPT !.state = state]
  BY DocumentFields DEF State, Outcome
<1>4. PICK next \in {"working", "failing"} :
        next = IF state = "active" THEN "working" ELSE "failing"
  OBVIOUS
<1> DEFINE new == [r EXCEPT !.phase = "reading", !.metadata = m, !.draft = d,
                            !.next = next]
<1>5. local' = [local EXCEPT ![w] = new]
  <2>1. [m EXCEPT !.state = state] = d /\ local[w] = r /\ Metadata = m
    BY <1>2, <1>3
  <2>2. CASE state = "active"
    BY <1>1, <1>4, <2>1, <2>2
  <2>3. CASE state = "failed"
    BY <1>1, <1>4, <2>1, <2>3
  <2> QED
    BY <2>2, <2>3
<1>6. "reading" \in Phase \ {"announcing"}
  BY DEF Phase
<1>7. Becomes(new, "reading")
  BY <1>6 DEF Becomes, Locals
<1>8. Shared' /\ UNCHANGED <<envelope, bundle>> /\ w \in Process
  BY SharedTypes DEF IInv, Shared, Start, Process
<1> HIDE DEF new
<1> QED
  BY <1>5, <1>6, <1>7, <1>8, GoesOnInv

LEMMA ProgressInv ==
    ASSUME IInv, NEW w \in Worker, Progress(w)
    PROVE  IInv'
<1>1. PICK r \in Locals, v \in Document : r = local[w] /\ v = View
  BY ViewIsDocument DEF IInv, TypeOK, Process
<1>2. PICK d \in Document : d = [v EXCEPT !.state = "active"]
  BY DocumentFields DEF State
<1>3. PICK progress \in 0..MaxProgress : progress = r.progress + 1
  BY <1>1, BoundAssumption DEF Progress, Locals
<1> DEFINE new == [r EXCEPT !.phase = "reading", !.draft = d,
                            !.next = "working", !.progress = progress]
<1>4. local' = [local EXCEPT ![w] = new]
  BY <1>1, <1>2, <1>3 DEF Progress
<1>5. "reading" \in Phase \ {"announcing"}
  BY DEF Phase
<1>6. Becomes(new, "reading")
  BY <1>5 DEF Becomes, Locals
<1>7. Shared' /\ UNCHANGED <<envelope, bundle>> /\ w \in Process
  BY SharedTypes DEF IInv, Shared, Progress, Process
<1> HIDE DEF new
<1> QED
  BY <1>4, <1>5, <1>6, <1>7, GoesOnInv

\* An exception, a timeout and an enqueueing that fails are written as failures.
LEMMA WriteFailureInv ==
    ASSUME IInv, NEW p \in Process, Raise(p) \/ TimeOut(p) \/ EnqueueFails(p)
    PROVE  IInv'
<1>1. /\ View \in Document /\ local[p].metadata \in Document
      /\ Shared' /\ UNCHANGED <<envelope, bundle>>
  BY ViewIsDocument, SharedTypes
     DEF IInv, TypeOK, Locals, Shared, Raise, TimeOut, EnqueueFails
<1>2. \E doc \in Document, next \in {"idle", "working", "failing", "enqueueing"} :
        Write(p, doc, next)
  <2>1. CASE Raise(p)
    <3> DEFINE doc == [att |-> View.att, state |-> "failed",
                       mark |-> IF View.mark # 0 THEN View.mark
                                                 ELSE local[p].metadata.mark]
    <3>1. doc \in Document
      BY <1>1 DEF Document, State, Outcome
    <3>2. Write(p, doc, "failing")
      BY <2>1, Zenon DEF Raise
    <3> QED
      BY <3>1, <3>2
  <2>2. [local[p].metadata EXCEPT !.state = "failed"] \in Document
    BY <1>1, DocumentFields DEF State, Outcome
  <2>3. CASE TimeOut(p)
    BY <2>2, <2>3 DEF TimeOut
  <2>4. CASE EnqueueFails(p)
    BY <2>2, <2>4 DEF EnqueueFails
  <2> QED
    BY <2>1, <2>3, <2>4
<1> QED
  BY <1>1, <1>2, WriteInv

LEMMA ConcludeInv ==
    ASSUME IInv, NEW w \in Process, Conclude(w)
    PROVE  IInv'
<1>1. /\ View \in Document /\ Shared' /\ UNCHANGED <<envelope, bundle>>
  BY ViewIsDocument, SharedTypes DEF IInv, Shared, Conclude
<1>2. [View EXCEPT !.state = "failed"] \in Document
  BY <1>1, DocumentFields DEF State, Outcome
<1>3. CASE Goto(w, "completing")
  BY <1>1, <1>3, GotoInv DEF Phase
<1>4. CASE Write(w, [View EXCEPT !.state = "failed"], "failing")
  BY <1>1, <1>2, <1>4, WriteInv
<1> QED
  BY <1>3, <1>4 DEF Conclude

LEMMA BeginCompletionInv ==
    ASSUME IInv, NEW w \in Process, BeginCompletion(w)
    PROVE  IInv'
<1>1. PICK v \in Document : v = View
  BY ViewIsDocument DEF IInv
<1>2. PICK phase \in {"concluding", "bundling"} :
        phase = IF Decided(pointer) THEN "concluding" ELSE "bundling"
  OBVIOUS
<1> DEFINE new == [Idle EXCEPT !.phase = phase, !.draft = v]
<1>3. local' = [local EXCEPT ![w] = new]
  BY <1>1, <1>2 DEF BeginCompletion
<1>4. phase \in Phase \ {"announcing"}
  BY DEF Phase
<1>5. ASSUME NEW r \in Locals
      PROVE  Becomes([r EXCEPT !.phase = phase, !.draft = v], phase)
  BY <1>4 DEF Becomes, Locals
<1>6. Becomes(new, phase)
  <2>1. Idle \in Locals
    BY IdleLocal DEF Becomes
  <2> QED
    BY <1>5, <2>1, Zenon
<1>7. Shared' /\ UNCHANGED <<envelope, bundle>>
  BY SharedTypes DEF IInv, Shared, BeginCompletion
<1> HIDE DEF new
<1> QED
  BY <1>3, <1>4, <1>6, <1>7, GoesOnInv

LEMMA FailInv ==
    ASSUME IInv, NEW w \in Process, Fail(w)
    PROVE  IInv'
<1>1. Shared' /\ UNCHANGED <<envelope, bundle>>
  BY SharedTypes DEF IInv, Shared, Fail, FailedRow
<1>2. CASE local[w].phase = "failing"
  <2>1. Goto(w, "refailing")
    BY <1>2 DEF Fail, Goto
  <2>2. "refailing" \in Phase \ {"announcing"}
    BY DEF Phase
  <2> QED
    BY <1>1, <2>1, <2>2, GotoInv
<1>3. CASE local[w].phase # "failing"
  <2>1. local' = [local EXCEPT ![w] = Idle] /\ "idle" \in Phase \ {"announcing"}
    BY <1>3 DEF Fail, Phase
  <2> QED
    BY <1>1, <2>1, GotoInv
<1> QED
  BY <1>2, <1>3

LEMMA AskRetryInv ==
    ASSUME IInv, NEW q \in Process, AskRetry(q)
    PROVE  IInv'
<1>1. PICK r \in Locals : r = local[q]
  BY DEF IInv, TypeOK
<1>2. issued + 1 \in Attempt /\ issued' = issued + 1
  BY BoundAssumption DEF IInv, TypeOK, AskRetry, Attempt
<1>3. PICK m \in Document : m = [View EXCEPT !.mark = issued + 1]
  BY <1>2, ViewIsDocument, DocumentFields DEF IInv
<1>4. PICK d \in Document : d = [m EXCEPT !.state = "active"]
  BY DocumentFields DEF State
<1> DEFINE new == [r EXCEPT !.phase = "reading", !.metadata = m, !.draft = d,
                            !.next = "enqueueing"]
<1>5. local' = [local EXCEPT ![q] = new]
  BY <1>1, <1>3, <1>4, Zenon DEF AskRetry
<1>6. "reading" \in Phase \ {"announcing"}
  BY DEF Phase
<1>7. Becomes(new, "reading")
  BY <1>6 DEF Becomes, Locals
<1>8. Shared' /\ UNCHANGED <<envelope, bundle>>
  BY <1>2, SharedTypes DEF IInv, Shared, AskRetry, Attempt
<1> HIDE DEF new
<1> QED
  BY <1>5, <1>6, <1>7, <1>8, GoesOnInv

\* Recovery, where it publishes nothing.
LEMMA RecoveryInv ==
    ASSUME IInv, Recover \/ RecordInterruption \/ Settle \/ CrashRecovery
    PROVE  IInv'
<1>1. View \in Document
  BY ViewIsDocument DEF IInv
<1>2. Shared'
  <2>1. CASE Recover
    BY <1>1, <2>1, SharedTypes, BoundAssumption
       DEF IInv, Shared, Recover, Disturb, Document, State, Outcome
  <2>2. CASE RecordInterruption
    <3>1. DocumentOf(recovery.att, recovery.outcome) \in Document
      BY BoundAssumption
         DEF IInv, TypeOK, DocumentOf, Document, State, Attempt
    <3> QED
      BY <2>2, <3>1, SharedTypes DEF IInv, Shared, RecordInterruption
  <2>3. CASE Settle \/ CrashRecovery
    BY <2>3, SharedTypes, BoundAssumption
       DEF IInv, Shared, Settle, CrashRecovery, Disturb, NoRecovery, Attempt, Outcome
  <2> QED
    BY <2>1, <2>2, <2>3
<1>3. UNCHANGED <<local, envelope, bundle>>
  BY DEF Recover, RecordInterruption, Settle, CrashRecovery
<1> QED
  BY <1>2, <1>3
     DEF IInv, TypeOK, Shared, CompleteHasItsResult, BundleBeforeAnnouncing

-----------------------------------------------------------------------------
(***************************************************************************)
(* The steps that write an envelope or a bundle, and the step of the       *)
(* register that each of them is.                                          *)
(***************************************************************************)
RegisterStep == Register!Next \/ UNCHANGED Register!vars

\* What inserting an envelope does to the register and to the result.
LEMMA InsertedFacts ==
    ASSUME TypeOK, CompleteHasItsResult, NEW a \in Attempt, NEW state \in Outcome,
           NEW result \in Worker \cup {Nobody},
           envelope' = Inserted(a, state, result), bundle' = bundle,
           state = "complete" => result = bundle[a] /\ bundle[a] # Nobody
    PROVE  RegisterStep /\ CompleteHasItsResult'
<1> USE DEF TypeOK, Decided
<1>1. /\ \A b \in Attempt : b # a => envelope'[b] = envelope[b]
      /\ Decided(a) => envelope'[a] = envelope[a]
      /\ ~Decided(a) => envelope'[a] = [state |-> state, result |-> result]
  BY EnvelopeOfAttempt
<1>2. CompleteHasItsResult'
  BY <1>1 DEF CompleteHasItsResult
<1> DEFINE old == [b \in Attempt |-> IF Decided(b) THEN envelope[b].state ELSE "open"]
           new == [b \in Attempt |-> IF Decided(b)' THEN envelope'[b].state ELSE "open"]
<1>3. CASE Decided(a)
  <2>1. new = old
    BY <1>1, <1>3
  <2> QED
    BY <1>2, <2>1 DEF RegisterStep, Register!vars
<1>4. CASE ~Decided(a)
  <2>1. old[a] = "open" /\ new = [old EXCEPT ![a] = state]
    <3>1. old[a] = "open" /\ new[a] = state
      BY <1>1, <1>4 DEF Outcome
    <3>2. \A b \in Attempt : b # a => new[b] = old[b]
      BY <1>1
    <3>3. old = [b \in Attempt |-> old[b]] /\ new = [b \in Attempt |-> new[b]]
      OBVIOUS
    <3> HIDE DEF old, new
    <3> QED
      BY <3>1, <3>2, <3>3
  <2>2. Register!Decide(a, state)
    BY <2>1 DEF Register!Decide
  <2>3. Register!Next
    BY <2>2 DEF Register!Next, Outcome
  <2> QED
    BY <1>2, <2>3 DEF RegisterStep
<1> QED
  BY <1>3, <1>4

LEMMA PublishFailureStep ==
    ASSUME IInv, NEW p \in Process, PublishFailure(p)
    PROVE  IInv' /\ RegisterStep
<1> DEFINE a == local[p].draft.att
<1>1. PICK r \in Locals : r = local[p]
  BY DEF IInv, TypeOK
<1>2. a \in Attempt /\ "failed" \in Outcome /\ envelope' = Inserted(a, "failed", Nobody)
  BY DEF IInv, TypeOK, Locals, Document, Outcome, PublishFailure
<1>3. bundle' = bundle /\ Shared'
  BY SharedTypes DEF IInv, Shared, PublishFailure
<1>4. RegisterStep /\ CompleteHasItsResult'
  <2> HIDE DEF a
  <2> QED
    BY <1>2, <1>3, InsertedFacts DEF IInv
<1>5. PICK d \in Document : d = DocumentOf(a, envelope'[a].state)
  <2> HIDE DEF a
  <2> QED
    BY <1>2, EnvelopeOfAttempt DEF IInv
<1> DEFINE new == [r EXCEPT !.phase = "recording", !.draft = d]
<1>6. local' = [local EXCEPT ![p] = new]
  BY <1>1, <1>5, Zenon DEF PublishFailure
<1>7. "recording" \in Phase \ {"announcing"}
  BY DEF Phase
<1>8. Becomes(new, "recording")
  BY <1>7 DEF Becomes, Locals
<1>9. envelope' \in [Attempt -> [state : Outcome \cup {"none"},
                                 result : Worker \cup {Nobody}]]
  <2> HIDE DEF a
  <2> QED
    BY <1>2, EnvelopeOfAttempt DEF IInv
<1> HIDE DEF new
<1>10. TypeOK'
  BY <1>3, <1>6, <1>8, <1>9 DEF IInv, TypeOK, Shared, Becomes
<1>11. BundleBeforeAnnouncing'
  BY <1>3, <1>6, <1>7, <1>8 DEF IInv, TypeOK, BundleBeforeAnnouncing, Becomes
<1> QED
  BY <1>4, <1>10, <1>11 DEF IInv

LEMMA StoreBundleStep ==
    ASSUME IInv, NEW w \in Worker, StoreBundle(w)
    PROVE  IInv' /\ RegisterStep
<1> DEFINE a == local[w].draft.att
<1>1. w \in Process /\ a \in Attempt /\ local[w] \in Locals
  BY DEF IInv, TypeOK, Locals, Document, Process
<1>2. bundle' = IF bundle[a] = Nobody THEN [bundle EXCEPT ![a] = w] ELSE bundle
  BY DEF StoreBundle
<1>3. envelope' = envelope /\ Shared' /\ Goto(w, "announcing")
  BY SharedTypes DEF IInv, Shared, StoreBundle
<1>4. /\ local' \in [Process -> Locals] /\ local'[w].draft = local[w].draft
      /\ \A q \in Process : q # w => local'[q] = local[q]
  <2>1. PICK r \in Locals : r = local[w]
    BY <1>1
  <2>2. "announcing" \in Phase
    BY DEF Phase
  <2>3. /\ [r EXCEPT !.phase = "announcing"] \in Locals
        /\ [r EXCEPT !.phase = "announcing"].draft = r.draft
    BY <2>2 DEF Locals
  <2>4. local' = [local EXCEPT ![w] = [r EXCEPT !.phase = "announcing"]]
    BY <1>3, <2>1 DEF Goto
  <2> QED
    BY <1>1, <2>1, <2>3, <2>4 DEF IInv, TypeOK
<1>5. /\ w # Nobody /\ bundle'[a] # Nobody
      /\ \A b \in Attempt : bundle[b] # Nobody => bundle'[b] = bundle[b]
  BY <1>1, <1>2, ProcessAssumption DEF IInv, TypeOK, Process
<1> HIDE DEF a
<1>6. TypeOK'
  BY <1>2, <1>3, <1>4 DEF IInv, TypeOK, Shared
<1>7. BundleBeforeAnnouncing'
  <2>1. CASE local'[w].phase = "announcing" => bundle'[local'[w].draft.att] # Nobody
    <3>1. ASSUME NEW q \in Process, q # w, local'[q].phase = "announcing"
          PROVE  bundle'[local'[q].draft.att] # Nobody
      <4>1. local[q] \in Locals /\ local'[q] = local[q]
        BY <1>4, <3>1 DEF IInv, TypeOK
      <4>2. local[q].draft.att \in Attempt
        BY <4>1 DEF Locals, Document
      <4>3. bundle[local[q].draft.att] # Nobody
        BY <3>1, <4>1 DEF IInv, BundleBeforeAnnouncing
      <4> QED
        BY <1>5, <4>1, <4>2, <4>3
    <3> QED
      BY <2>1, <3>1 DEF BundleBeforeAnnouncing
  <2>2. bundle'[local'[w].draft.att] # Nobody
    BY <1>4, <1>5 DEF a
  <2> QED
    BY <2>1, <2>2
<1>8. CompleteHasItsResult'
  BY <1>3, <1>5 DEF IInv, CompleteHasItsResult
<1>9. RegisterStep
  <2>1. CASE bundle[a] = Nobody
    <3>1. Register!ChooseResult(a, w)
      BY <1>2, <1>3, <2>1 DEF Register!ChooseResult, Decided
    <3> QED
      BY <1>1, <3>1 DEF RegisterStep, Register!Next
  <2>2. CASE bundle[a] # Nobody
    BY <1>2, <1>3, <2>2 DEF RegisterStep, Register!vars, Decided
  <2> QED
    BY <2>1, <2>2
<1> QED
  BY <1>6, <1>7, <1>8, <1>9 DEF IInv

LEMMA AnnounceStep ==
    ASSUME IInv, NEW w \in Process, Announce(w)
    PROVE  IInv' /\ RegisterStep
<1> DEFINE a == local[w].draft.att
<1>1. /\ a \in Attempt /\ "complete" \in Outcome
      /\ bundle[a] \in Worker /\ bundle[a] # Nobody
  BY DEF IInv, TypeOK, Locals, Document, Outcome, Announce, BundleBeforeAnnouncing
<1>2. PICK phase \in {"closing", "concluding"} : Goto(w, phase)
  BY DEF Announce
<1>3. phase \in Phase \ {"announcing"}
  BY DEF Phase
<1>4. bundle' = bundle /\ Shared'
  BY SharedTypes DEF IInv, Shared, Announce
<1>5. CASE envelope' = envelope
  <2>1. IInv'
    BY <1>2, <1>3, <1>4, <1>5, GotoInv
  <2>2. RegisterStep
    BY <1>4, <1>5 DEF RegisterStep, Register!vars, Decided
  <2> QED
    BY <2>1, <2>2
<1>6. CASE envelope' = Inserted(a, "complete", bundle[a])
  <2>1. RegisterStep /\ CompleteHasItsResult'
    <3> HIDE DEF a
    <3> QED
      BY <1>1, <1>4, <1>6, InsertedFacts DEF IInv
  <2>2. envelope' \in [Attempt -> [state : Outcome \cup {"none"},
                                   result : Worker \cup {Nobody}]]
    <3> HIDE DEF a
    <3> QED
      BY <1>1, <1>6, EnvelopeOfAttempt DEF IInv
  <2>3. PICK r \in Locals : r = local[w]
    BY DEF IInv, TypeOK
  <2> DEFINE new == [r EXCEPT !.phase = phase]
  <2>4. local' = [local EXCEPT ![w] = new]
    BY <1>2, <2>3 DEF Goto
  <2>5. Becomes(new, phase)
    BY <1>3 DEF Becomes, Locals
  <2> HIDE DEF new
  <2>6. TypeOK'
    BY <1>4, <2>2, <2>4, <2>5 DEF IInv, TypeOK, Shared, Becomes
  <2>7. BundleBeforeAnnouncing'
    BY <1>3, <1>4, <2>4, <2>5 DEF IInv, TypeOK, BundleBeforeAnnouncing, Becomes
  <2> QED
    BY <2>1, <2>6, <2>7 DEF IInv
<1> QED
  BY <1>5, <1>6 DEF Announce, CanonicalResult

LEMMA PublishInterruptionStep ==
    ASSUME IInv, PublishInterruption
    PROVE  IInv' /\ RegisterStep
<1>1. /\ pointer \in Attempt /\ "failed" \in Outcome
      /\ local' = local /\ bundle' = bundle
  BY DEF IInv, TypeOK, Outcome, PublishInterruption
<1>2. CASE pointer = recovery.att
  <2>1. envelope' = Inserted(pointer, "failed", Nobody)
    BY <1>2 DEF PublishInterruption
  <2>2. RegisterStep /\ CompleteHasItsResult'
    BY <1>1, <2>1, InsertedFacts DEF IInv
  <2>3. /\ envelope' \in [Attempt -> [state : Outcome \cup {"none"},
                                      result : Worker \cup {Nobody}]]
        /\ envelope'[pointer].state \in Outcome
    BY <1>1, <2>1, EnvelopeOfAttempt DEF IInv
  <2>4. recovery' \in [phase : {"idle", "publishing", "recording", "settling"},
                       att : Attempt, outcome : Outcome]
    <3>1. PICK r \in [phase : {"idle", "publishing", "recording", "settling"},
                      att : Attempt, outcome : Outcome],
               o \in Outcome : r = recovery /\ o = envelope'[pointer].state
      BY <2>3 DEF IInv, TypeOK
    <3>2. recovery' = [r EXCEPT !.phase = "recording", !.outcome = o]
      BY <1>2, <3>1, Zenon DEF PublishInterruption
    <3> QED
      BY <3>2
  <2>5. TypeOK'
    BY <1>1, <2>3, <2>4, SharedTypes DEF IInv, TypeOK, PublishInterruption
  <2> QED
    BY <1>1, <2>2, <2>5 DEF IInv, BundleBeforeAnnouncing
<1>3. CASE pointer # recovery.att
  <2>1. envelope' = envelope /\ recovery' = NoRecovery
    BY <1>3 DEF PublishInterruption
  <2>2. TypeOK'
    BY <1>1, <2>1, BoundAssumption
       DEF IInv, TypeOK, PublishInterruption, NoRecovery, Attempt, Outcome
  <2>3. RegisterStep
    BY <1>1, <2>1 DEF RegisterStep, Register!vars, Decided
  <2> QED
    BY <1>1, <2>1, <2>2, <2>3 DEF IInv, BundleBeforeAnnouncing, CompleteHasItsResult
<1> QED
  BY <1>2, <1>3

LEMMA StepInv == IInv /\ [Next]_vars => IInv' /\ RegisterStep
<1> SUFFICES ASSUME IInv, [Next]_vars PROVE IInv' /\ RegisterStep
  OBVIOUS
<1>0. ASSUME UNCHANGED <<envelope, bundle>> PROVE RegisterStep
  BY <1>0 DEF RegisterStep, Register!vars, Decided
<1>1. CASE UNCHANGED vars
  <2>1. IInv'
    BY <1>1 DEF vars, IInv, TypeOK, CompleteHasItsResult, BundleBeforeAnnouncing
  <2> QED
    BY <1>0, <1>1, <2>1 DEF vars
<1>2. ASSUME NEW p \in Process, WriteJob(p)
      PROVE  IInv' /\ RegisterStep
  <2>1. CASE PublishFailure(p)
    BY <2>1, PublishFailureStep
  <2>2. CASE ReadExisting(p)
    BY <1>0, <2>2, ReadExistingInv DEF ReadExisting
  <2>3. CASE PublishNothing(p)
    BY <1>0, <2>3, PublishNothingInv DEF PublishNothing
  <2>4. CASE Record(p)
    BY <1>0, <2>4, RecordInv DEF Record
  <2>5. CASE MovePointer(p)
    BY <1>0, <2>5, PlainInv DEF MovePointer
  <2> QED
    BY <1>2, <2>1, <2>2, <2>3, <2>4, <2>5 DEF WriteJob
<1>3. ASSUME NEW w \in Worker, WorkerStep(w)
      PROVE  IInv' /\ RegisterStep
  <2>0. w \in Process
    BY DEF Process
  <2>1. CASE Claim(w) \/ FindCompleted(w) \/ Close(w) \/ Complete(w)
    <3>1. IInv'
      BY <2>0, <2>1, PlainInv, Zenon
    <3>2. UNCHANGED <<envelope, bundle>>
      BY <2>1, ZenonT(40) DEF Claim, FindCompleted, Close, Complete
    <3> QED BY <1>0, <3>1, <3>2
  <2>2. CASE Start(w) \/ Progress(w)
    BY <1>0, <2>2, StartInv, ProgressInv DEF Start, Progress
  <2>3. CASE Raise(w) \/ TimeOut(w)
    BY <1>0, <2>0, <2>3, WriteFailureInv DEF Raise, TimeOut
  <2>4. CASE BeginCompletion(w) \/ Conclude(w) \/ Fail(w)
    BY <1>0, <2>0, <2>4, BeginCompletionInv, ConcludeInv, FailInv
       DEF BeginCompletion, Conclude, Fail
  <2>5. CASE StoreBundle(w) \/ Announce(w)
    BY <2>0, <2>5, StoreBundleStep, AnnounceStep
  <2>6. CASE WriteJob(w)
    BY <1>2, <2>0, <2>6
  <2> QED
    BY <1>3, <2>1, <2>2, <2>3, <2>4, <2>5, <2>6 DEF WorkerStep
<1>4. ASSUME NEW q \in Request, RequestStep(q)
      PROVE  IInv' /\ RegisterStep
  <2>0. q \in Process
    BY DEF Process
  <2>1. CASE AskRetry(q)
    BY <1>0, <2>0, <2>1, AskRetryInv DEF AskRetry
  <2>2. CASE Enqueue(q)
    BY <1>0, <2>0, <2>2, PlainInv DEF Enqueue
  <2>3. CASE EnqueueFails(q)
    BY <1>0, <2>0, <2>3, WriteFailureInv DEF EnqueueFails
  <2>4. CASE WriteJob(q)
    BY <1>2, <2>0, <2>4
  <2> QED
    BY <1>4, <2>1, <2>2, <2>3, <2>4 DEF RequestStep
<1>5. CASE Recover \/ RecordInterruption \/ Settle \/ CrashRecovery
  BY <1>0, <1>5, RecoveryInv DEF Recover, RecordInterruption, Settle, CrashRecovery
<1>6. CASE PublishInterruption
  BY <1>6, PublishInterruptionStep
<1>7. ASSUME NEW p \in Process, Crash(p)
      PROVE  IInv' /\ RegisterStep
  BY <1>0, <1>7, PlainInv DEF Crash
<1> QED
  BY <1>1, <1>3, <1>4, <1>5, <1>6, <1>7 DEF Next, RecoveryStep

LEMMA Invariant == Spec => []IInv
BY InitInv, StepInv, PTL DEF Spec

-----------------------------------------------------------------------------
\* The types of the state.
THEOREM TypeCorrect == Spec => []TypeOK
BY Invariant, PTL DEF IInv

\* CompleteHasItsResult: a completed attempt refers to the result that was
\* stored for it first, whoever announces it.
THEOREM ResultBelongsToAttempt == Spec => []CompleteHasItsResult
BY Invariant, PTL DEF IInv

\* RegisterSpec: workers, requests and recoveries decide an attempt once, and
\* choose its result once, whatever they do at the same time.
THEOREM ImplementsRegister == Spec => RegisterSpec
<1>1. Init => Register!Init
  BY DEF Init, Register!Init, Decided, NoEnvelope
<1>2. IInv /\ [Next]_vars => [Register!Next]_(Register!vars)
  BY StepInv DEF RegisterStep
<1> QED
  BY <1>1, <1>2, Invariant, PTL DEF Spec, RegisterSpec, Register!Spec

-----------------------------------------------------------------------------
(***************************************************************************)
(* The queue row settles on an outcome that some attempt has.              *)
(*                                                                         *)
(* Once an attempt has failed, a failed row is truthful for good: what has *)
(* to be shown is that no row fails before.  Until then there is only the  *)
(* original attempt and only the one claim of it, since a retry is granted *)
(* for a failed job alone, and that claim publishes its failure first.     *)
(***************************************************************************)
Reached(outcome) == \E a \in Attempt : envelope[a].state = outcome

AtOrigin(doc) == doc.att = 0 /\ doc.mark = 0

\* The phases of the one claim before and after the original attempt is decided.
BeforeDecision == {"claimed", "working", "reading", "publishing", "recording",
                   "bundling", "announcing"}
AfterCompletion == {"closing", "concluding", "completing"}

\* What a worker holds before the first failure, by what has become of the
\* original attempt.
FirstClaim(r, outcome) ==
    /\ r.phase \in {"idle"} \cup BeforeDecision \cup AfterCompletion
    /\ AtOrigin(r.metadata)
    /\ r.phase \in {"reading", "publishing", "recording", "bundling",
                    "announcing"} => AtOrigin(r.draft)
    /\ r.phase \in {"reading", "publishing"} =>
        \/ r.next = "working" /\ r.draft.state = "active"
        \/ r.next = "failing" /\ r.draft.state = "failed"
    /\ r.phase = "publishing" => r.seen = Original
    /\ r.phase = "recording" => r.next = "working"
    /\ r.phase \in BeforeDecision => outcome = "none"
    /\ r.phase \in AfterCompletion => outcome = "complete"

\* The state of the job before its first failure.
BeforeFailure ==
    /\ issued = 0 /\ pointer = 0 /\ AtOrigin(row) /\ recovery.att = 0
    /\ queue # "failed"
    /\ \A q \in Request : local[q].phase = "idle"
    /\ \A w, v \in Worker :
        local[w].phase # "idle" /\ local[v].phase # "idle" => w = v
    /\ queue = "pending" =>
        ~Decided(0) /\ \A w \in Worker : local[w].phase = "idle"
    /\ \A w \in Worker : FirstClaim(local[w], envelope[0].state)

FailureInv == Reached("failed") \/ BeforeFailure

\* Who closes or completes the row has seen a completion, and a recovery
\* settles it on the outcome it has published or found.
SeenOutcome ==
    /\ \A p \in Process : local[p].phase \in {"closing", "completing"} =>
        Reached("complete")
    /\ recovery.phase \in {"recording", "settling"} => Reached(recovery.outcome)

SettleInv == IInv /\ FailureInv /\ SeenOutcome /\ RowSettledTruthfully

\* An envelope is written once.
LEMMA EnvelopeKept ==
    ASSUME IInv, [Next]_vars
    PROVE  \A a \in Attempt : Decided(a) => envelope'[a] = envelope[a]
<1> DEFINE Kept == \A a \in Attempt : Decided(a) => envelope'[a] = envelope[a]
<1>1. CASE envelope' = envelope
  BY <1>1
<1>2. ASSUME NEW a, NEW state, NEW result, envelope' = Inserted(a, state, result)
      PROVE  Kept
  BY <1>2 DEF IInv, TypeOK, Inserted, Decided
<1>3. ASSUME NEW p \in Process, WriteJob(p)
      PROVE  Kept
  BY <1>1, <1>2, <1>3
     DEF WriteJob, ReadExisting, MovePointer, PublishFailure, PublishNothing, Record
<1>4. ASSUME NEW w \in Worker, WorkerStep(w)
      PROVE  Kept
  BY <1>1, <1>2, <1>3, <1>4
     DEF WorkerStep, Claim, Start, FindCompleted, Progress, Raise, TimeOut,
         BeginCompletion, StoreBundle, Announce, Close, Conclude, Complete, Fail,
         Process
<1>5. ASSUME NEW q \in Request, RequestStep(q)
      PROVE  Kept
  BY <1>1, <1>3, <1>5 DEF RequestStep, AskRetry, Enqueue, EnqueueFails, Process
<1>6. CASE Recover \/ RecoveryStep \/ CrashRecovery \/ UNCHANGED vars
  BY <1>1, <1>2, <1>6
     DEF Recover, RecoveryStep, PublishInterruption, RecordInterruption, Settle,
         CrashRecovery, vars
<1>7. ASSUME NEW p \in Process, Crash(p)
      PROVE  Kept
  BY <1>1, <1>7 DEF Crash
<1> QED
  BY <1>4, <1>5, <1>6, <1>7 DEF Next

LEMMA ReachedKept ==
    ASSUME IInv, [Next]_vars, NEW outcome \in Outcome, Reached(outcome)
    PROVE  Reached(outcome)'
BY EnvelopeKept DEF Reached, Decided, Outcome

\* The outcome of an attempt, as the status shows it.
LEMMA ViewReached ==
    ASSUME TypeOK, View.state # "active"
    PROVE  View.state \in Outcome /\ Reached(View.state)
BY DEF TypeOK, View, DocumentOf, Decided, Reached, Outcome

-----------------------------------------------------------------------------
(***************************************************************************)
(* Before the first failure: one lemma for each kind of step.  A step that *)
(* fails the original attempt is the only way out.                         *)
(***************************************************************************)
LEMMA FirstView ==
    ASSUME IInv, BeforeFailure, ~Reached("failed")
    PROVE  /\ envelope[0].state \in {"none", "complete"}
           /\ View = [Original EXCEPT !.state =
                        IF Decided(0) THEN "complete" ELSE "active"]
<1>1. 0 \in Attempt /\ pointer = 0
  BY BoundAssumption DEF Attempt, BeforeFailure
<1>2. envelope[0].state \in {"none", "complete"}
  BY <1>1 DEF IInv, TypeOK, Reached, Outcome
<1> QED
  BY <1>1, <1>2 DEF View, DocumentOf, Decided, Original

\* Everybody but the worker of the claim is idle.
LEMMA OneClaim ==
    ASSUME IInv, BeforeFailure, NEW w \in Worker, local[w].phase # "idle"
    PROVE  /\ local[w] \in Locals /\ FirstClaim(local[w], envelope[0].state)
           /\ queue \in {"processing", "completed"}
           /\ \A p \in Process : p # w => local[p].phase = "idle"
<1>1. w \in Process
  BY DEF Process
<1>2. \A p \in Process : p # w => local[p].phase = "idle"
  BY DEF BeforeFailure, Process
<1> QED
  BY <1>1, <1>2 DEF IInv, TypeOK, BeforeFailure

\* The claim goes on.
LEMMA ClaimGoesOn ==
    ASSUME IInv, BeforeFailure, NEW w \in Worker, local[w].phase # "idle",
           NEW new, local' = [local EXCEPT ![w] = new],
           FirstClaim(new, envelope'[0].state),
           pointer' = 0, AtOrigin(row'), queue' \notin {"pending", "failed"},
           UNCHANGED <<issued, recovery>>
    PROVE  BeforeFailure'
<1>1. \A p \in Process : p # w => local'[p] = local[p] /\ local[p].phase = "idle"
  BY OneClaim DEF IInv, TypeOK
<1>2. local'[w] = new
  BY DEF IInv, TypeOK, Process
<1>3. \A q \in Request : local'[q].phase = "idle"
  BY <1>1, ProcessAssumption DEF Process
<1>4. \A v \in Worker : v # w => FirstClaim(local'[v], envelope'[0].state)
  <2> SUFFICES ASSUME NEW v \in Worker, v # w
               PROVE  FirstClaim(local'[v], envelope'[0].state)
    OBVIOUS
  <2>1. local'[v] = local[v] /\ local[v].phase = "idle"
    BY <1>1 DEF Process
  <2>2. FirstClaim(local[v], envelope[0].state)
    BY DEF BeforeFailure
  <2> QED
    BY <2>1, <2>2 DEF FirstClaim, BeforeDecision, AfterCompletion
<1>5. \A v, u \in Worker :
        local'[v].phase # "idle" /\ local'[u].phase # "idle" => v = u
  BY <1>1 DEF Process
<1> QED
  BY <1>2, <1>3, <1>4, <1>5 DEF BeforeFailure

\* A recovery goes on, and decides nothing.
LEMMA RecoveryGoesOn ==
    ASSUME BeforeFailure, UNCHANGED <<pointer, envelope, local, issued>>,
           AtOrigin(row'), recovery'.att = 0,
           queue' = queue \/ queue' = "completed"
    PROVE  BeforeFailure'
BY DEF BeforeFailure, Decided

LEMMA ClaimFirst ==
    ASSUME IInv, BeforeFailure, NEW w \in Worker, Claim(w)
    PROVE  BeforeFailure'
<1>1. PICK r \in Locals : r = local[w]
  BY DEF IInv, TypeOK, Process
<1>2. \A p \in Process : local[p].phase = "idle"
  BY DEF BeforeFailure, Claim, Process
<1> DEFINE new == [r EXCEPT !.phase = "claimed"]
<1>3. /\ local' = [local EXCEPT ![w] = new] /\ queue' = "processing"
      /\ UNCHANGED <<pointer, envelope, row, recovery, issued>>
  BY <1>1 DEF Claim, Goto
<1>4. new.phase = "claimed" /\ new.metadata = r.metadata
  BY DEF Locals
<1> HIDE DEF new
<1>5. /\ local'[w] = new
      /\ \A p \in Process : p # w => local'[p] = local[p]
  BY <1>3 DEF IInv, TypeOK, Process
<1>6. envelope[0].state = "none"
  BY DEF BeforeFailure, Claim, Decided
<1>7. FirstClaim(new, "none")
  BY <1>1, <1>4 DEF BeforeFailure, FirstClaim, BeforeDecision, AfterCompletion
<1>8. \A v \in Worker : FirstClaim(local'[v], envelope'[0].state)
  BY <1>3, <1>5, <1>6, <1>7, Zenon DEF BeforeFailure, Process
<1>9. \A q \in Request : local'[q].phase = "idle"
  BY <1>2, <1>5, ProcessAssumption DEF Process
<1>10. \A v, u \in Worker :
        local'[v].phase # "idle" /\ local'[u].phase # "idle" => v = u
  BY <1>2, <1>5 DEF Process
<1> QED
  BY <1>3, <1>8, <1>9, <1>10 DEF BeforeFailure

\* The status is read as it was at first: the claim starts, reports progress,
\* or fails, with documents of the original attempt.
LEMMA StartFirst ==
    ASSUME IInv, BeforeFailure, ~Reached("failed"), NEW w \in Worker, Start(w)
    PROVE  BeforeFailure'
<1>1. PICK r \in Locals : r = local[w]
  BY DEF IInv, TypeOK, Process
<1>2. FirstClaim(r, envelope[0].state) /\ r.phase = "claimed"
  BY <1>1, OneClaim DEF Start
<1>3. envelope[0].state = "none" /\ View = Original
  BY <1>2, FirstView DEF FirstClaim, BeforeDecision, Decided, Original
<1>4. PICK m \in Document : m = Metadata /\ AtOrigin(m)
  <2>1. Metadata \in Document /\ row \in Document
    BY ViewIsDocument DEF IInv, TypeOK
  <2>2. AtOrigin(Metadata)
    BY <1>3, <2>1 DEF Metadata, BeforeFailure, AtOrigin, Original, Document
  <2> QED
    BY <2>1, <2>2
<1>5. PICK state \in {"active", "failed"} :
        local' = [local EXCEPT ![w] =
            [@ EXCEPT !.phase = "reading", !.metadata = Metadata,
                      !.draft = [Metadata EXCEPT !.state = state],
                      !.next = IF state = "active" THEN "working"
                                                   ELSE "failing"]]
  BY DEF Start
<1>6. PICK d \in Document : d = [m EXCEPT !.state = state]
  BY DocumentFields DEF State, Outcome
<1>7. AtOrigin(d) /\ d.state = state
  BY <1>4, <1>6 DEF AtOrigin, Document
<1>8. PICK next \in {"working", "failing"} :
        next = IF state = "active" THEN "working" ELSE "failing"
  OBVIOUS
<1> DEFINE new == [r EXCEPT !.phase = "reading", !.metadata = m, !.draft = d,
                            !.next = next]
<1>9. local' = [local EXCEPT ![w] = new]
  <2>1. [m EXCEPT !.state = state] = d /\ local[w] = r /\ Metadata = m
    BY <1>1, <1>4, <1>6
  <2>2. CASE state = "active"
    BY <1>5, <1>8, <2>1, <2>2
  <2>3. CASE state = "failed"
    BY <1>5, <1>8, <2>1, <2>3
  <2> QED
    BY <2>2, <2>3
<1>10. /\ new.phase = "reading" /\ new.metadata = m /\ new.draft = d
       /\ new.next = next
  BY DEF Locals
<1> HIDE DEF new
<1>11. FirstClaim(new, "none")
  BY <1>4, <1>7, <1>8, <1>10 DEF FirstClaim, BeforeDecision, AfterCompletion
<1>12. /\ UNCHANGED <<pointer, envelope, row, queue, recovery, issued>>
       /\ queue \notin {"pending", "failed"}
  BY <1>1, <1>2, OneClaim DEF Start
<1> QED
  BY <1>1, <1>2, <1>3, <1>9, <1>11, <1>12, ClaimGoesOn DEF BeforeFailure

LEMMA ProgressFirst ==
    ASSUME IInv, BeforeFailure, ~Reached("failed"), NEW w \in Worker, Progress(w)
    PROVE  BeforeFailure'
<1>1. PICK r \in Locals : r = local[w]
  BY DEF IInv, TypeOK, Process
<1>2. FirstClaim(r, envelope[0].state) /\ r.phase = "working"
  BY <1>1, OneClaim DEF Progress
<1>3. envelope[0].state = "none" /\ View = Original
  BY <1>2, FirstView DEF FirstClaim, BeforeDecision, Decided, Original
<1>4. [View EXCEPT !.state = "active"] = Original
  BY <1>3 DEF Original
<1>5. PICK progress : progress = r.progress + 1
  OBVIOUS
<1> DEFINE new == [r EXCEPT !.phase = "reading", !.draft = Original,
                            !.next = "working", !.progress = progress]
<1>6. local' = [local EXCEPT ![w] = new]
  BY <1>1, <1>4, <1>5 DEF Progress
<1>7. /\ new.phase = "reading" /\ new.metadata = r.metadata
      /\ new.draft = Original /\ new.next = "working"
  BY DEF Locals
<1> HIDE DEF new
<1>8. FirstClaim(new, "none")
  BY <1>2, <1>7
     DEF FirstClaim, BeforeDecision, AfterCompletion, AtOrigin, Original
<1>9. /\ UNCHANGED <<pointer, envelope, row, queue, recovery, issued>>
      /\ queue \notin {"pending", "failed"}
  BY <1>1, <1>2, OneClaim DEF Progress
<1> QED
  BY <1>1, <1>2, <1>3, <1>6, <1>8, <1>9, ClaimGoesOn DEF BeforeFailure

LEMMA WriteFailureFirst ==
    ASSUME IInv, BeforeFailure, ~Reached("failed"), NEW w \in Worker,
           Raise(w) \/ TimeOut(w)
    PROVE  BeforeFailure'
<1>1. PICK r \in Locals : r = local[w]
  BY DEF IInv, TypeOK, Process
<1>2. FirstClaim(r, envelope[0].state) /\ r.phase = "working"
  BY <1>1, OneClaim DEF Raise, TimeOut
<1>3. envelope[0].state = "none" /\ View = Original
  BY <1>2, FirstView DEF FirstClaim, BeforeDecision, Decided, Original
<1>4. PICK d : Write(w, d, "failing") /\ AtOrigin(d) /\ d.state = "failed"
  <2>1. CASE Raise(w)
    <3> DEFINE d == [att |-> View.att, state |-> "failed",
                     mark |-> IF View.mark # 0 THEN View.mark
                                               ELSE local[w].metadata.mark]
    <3>1. Write(w, d, "failing")
      BY <2>1, Zenon DEF Raise
    <3>2. AtOrigin(d) /\ d.state = "failed"
      BY <1>1, <1>2, <1>3 DEF FirstClaim, AtOrigin, Original
    <3> QED
      BY <3>1, <3>2
  <2>2. CASE TimeOut(w)
    <3>1. Write(w, [r.metadata EXCEPT !.state = "failed"], "failing")
      BY <1>1, <2>2 DEF TimeOut
    <3>2. r.metadata \in Document /\ AtOrigin(r.metadata)
      BY <1>2 DEF Locals, FirstClaim
    <3> QED
      BY <3>1, <3>2 DEF AtOrigin, Document
  <2> QED
    BY <2>1, <2>2
<1> DEFINE new == [Idle EXCEPT !.phase = "reading", !.draft = d, !.next = "failing"]
<1>5. local' = [local EXCEPT ![w] = new]
  BY <1>4 DEF Write
<1>6. /\ new.phase = "reading" /\ new.metadata = Original /\ new.draft = d
      /\ new.next = "failing"
  BY DEF Idle
<1> HIDE DEF new
<1>7. FirstClaim(new, "none")
  BY <1>4, <1>6 DEF FirstClaim, BeforeDecision, AfterCompletion, AtOrigin, Original
<1>8. /\ UNCHANGED <<pointer, envelope, row, queue, recovery, issued>>
      /\ queue \notin {"pending", "failed"}
  BY <1>1, <1>2, OneClaim DEF Raise, TimeOut
<1> QED
  BY <1>1, <1>2, <1>3, <1>5, <1>7, <1>8, ClaimGoesOn DEF BeforeFailure

\* write_job, on the way to the pointer or to the first failure.
LEMMA ReadExistingFirst ==
    ASSUME IInv, BeforeFailure, ~Reached("failed"), NEW w \in Worker,
           ReadExisting(w)
    PROVE  BeforeFailure'
<1>1. PICK r \in Locals : r = local[w]
  BY DEF IInv, TypeOK, Process
<1>2. FirstClaim(r, envelope[0].state) /\ r.phase = "reading"
  BY <1>1, OneClaim DEF ReadExisting
<1>3. envelope[0].state = "none" /\ View = Original
  BY <1>2, FirstView DEF FirstClaim, BeforeDecision, Decided, Original
<1>4. r.draft \in Document /\ AtOrigin(r.draft)
  BY <1>2 DEF Locals, FirstClaim
<1>5. PICK d : d = ScopedDraft(r.draft, Original)
  OBVIOUS
<1>6. AtOrigin(d) /\ d.state = r.draft.state
  BY <1>4, <1>5 DEF ScopedDraft, StartsRetry, AtOrigin, Original, Document
<1> DEFINE new == [r EXCEPT !.phase = "publishing", !.draft = d, !.seen = Original]
<1>7. local' = [local EXCEPT ![w] = new]
  BY <1>1, <1>3, <1>5 DEF ReadExisting
<1>8. /\ new.phase = "publishing" /\ new.metadata = r.metadata /\ new.draft = d
      /\ new.seen = Original /\ new.next = r.next
  BY DEF Locals
<1> HIDE DEF new
<1>9. FirstClaim(new, "none")
  BY <1>2, <1>6, <1>8 DEF FirstClaim, BeforeDecision, AfterCompletion
<1>10. /\ UNCHANGED <<pointer, envelope, row, queue, recovery, issued>>
       /\ queue \notin {"pending", "failed"}
  BY <1>1, <1>2, OneClaim DEF ReadExisting
<1> QED
  BY <1>1, <1>2, <1>3, <1>7, <1>9, <1>10, ClaimGoesOn DEF BeforeFailure

LEMMA MovePointerFirst ==
    ASSUME IInv, BeforeFailure, NEW w \in Worker, MovePointer(w)
    PROVE  BeforeFailure'
<1>1. PICK r \in Locals : r = local[w]
  BY DEF IInv, TypeOK, Process
<1>2. /\ FirstClaim(r, envelope[0].state) /\ r.phase = "publishing"
      /\ r.draft.state = "active"
  BY <1>1, OneClaim DEF MovePointer
<1>3. envelope[0].state = "none" /\ r.draft.att = 0 /\ r.next = "working"
  BY <1>2 DEF FirstClaim, BeforeDecision, AtOrigin
<1> DEFINE new == [r EXCEPT !.phase = "recording"]
<1>4. local' = [local EXCEPT ![w] = new]
  BY <1>1 DEF MovePointer, Goto
<1>5. /\ new.phase = "recording" /\ new.metadata = r.metadata
      /\ new.draft = r.draft /\ new.next = r.next
  BY DEF Locals
<1> HIDE DEF new
<1>6. FirstClaim(new, "none")
  BY <1>2, <1>3, <1>5 DEF FirstClaim, BeforeDecision, AfterCompletion
<1>7. /\ pointer' = 0 /\ UNCHANGED <<envelope, row, queue, recovery, issued>>
      /\ queue \notin {"pending", "failed"}
  BY <1>1, <1>2, <1>3, OneClaim DEF MovePointer
<1> QED
  BY <1>1, <1>2, <1>3, <1>4, <1>6, <1>7, ClaimGoesOn DEF BeforeFailure

LEMMA PublishFailureFirst ==
    ASSUME IInv, BeforeFailure, NEW w \in Worker, PublishFailure(w)
    PROVE  Reached("failed")'
<1>1. FirstClaim(local[w], envelope[0].state) /\ 0 \in Attempt
  BY OneClaim, BoundAssumption DEF PublishFailure, Attempt
<1>2. ~Decided(0) /\ local[w].draft.att = 0
  BY <1>1 DEF PublishFailure, FirstClaim, BeforeDecision, AtOrigin, Decided
<1>3. envelope' = Inserted(0, "failed", Nobody)
  BY <1>2 DEF PublishFailure
<1> QED
  BY <1>1, <1>2, <1>3 DEF IInv, TypeOK, Inserted, Reached

LEMMA PublishNothingFirst ==
    ASSUME IInv, BeforeFailure, NEW w \in Worker
    PROVE  ~PublishNothing(w)
BY OneClaim DEF PublishNothing, FirstFailure, FirstClaim, AtOrigin, Original

LEMMA RecordFirst ==
    ASSUME IInv, BeforeFailure, NEW w \in Worker, Record(w)
    PROVE  BeforeFailure'
<1>1. PICK r \in Locals : r = local[w]
  BY DEF IInv, TypeOK, Process
<1>2. FirstClaim(r, envelope[0].state) /\ r.phase = "recording"
  BY <1>1, OneClaim DEF Record
<1>3. envelope[0].state = "none" /\ AtOrigin(r.draft) /\ r.next = "working"
  BY <1>2 DEF FirstClaim, BeforeDecision
<1> DEFINE new == [Idle EXCEPT !.phase = "working", !.metadata = r.metadata,
                               !.progress = r.progress]
<1>4. local' = [local EXCEPT ![w] = new]
  BY <1>1, <1>3 DEF Record
<1>5. new.phase = "working" /\ new.metadata = r.metadata
  BY DEF Idle
<1> HIDE DEF new
<1>6. FirstClaim(new, "none")
  BY <1>2, <1>5 DEF FirstClaim, BeforeDecision, AfterCompletion
<1>7. /\ row' = r.draft /\ UNCHANGED <<pointer, envelope, queue, recovery, issued>>
      /\ queue \notin {"pending", "failed"}
  BY <1>1, <1>2, OneClaim DEF Record
<1> QED
  BY <1>1, <1>2, <1>3, <1>4, <1>6, <1>7, ClaimGoesOn DEF BeforeFailure

\* The claim completes the original attempt.
LEMMA BeginCompletionFirst ==
    ASSUME IInv, BeforeFailure, ~Reached("failed"), NEW w \in Worker,
           BeginCompletion(w)
    PROVE  BeforeFailure'
<1>1. PICK r \in Locals : r = local[w]
  BY DEF IInv, TypeOK, Process
<1>2. FirstClaim(r, envelope[0].state) /\ r.phase = "working"
  BY <1>1, OneClaim DEF BeginCompletion
<1>3. envelope[0].state = "none" /\ View = Original /\ ~Decided(pointer)
  BY <1>2, FirstView
     DEF FirstClaim, BeforeDecision, Decided, Original, BeforeFailure
<1> DEFINE new == [Idle EXCEPT !.phase = "bundling", !.draft = Original]
<1>4. local' = [local EXCEPT ![w] = new]
  BY <1>3 DEF BeginCompletion
<1>5. new.phase = "bundling" /\ new.metadata = Original /\ new.draft = Original
  BY DEF Idle
<1> HIDE DEF new
<1>6. FirstClaim(new, "none")
  BY <1>5 DEF FirstClaim, BeforeDecision, AfterCompletion, AtOrigin, Original
<1>7. /\ UNCHANGED <<pointer, envelope, row, queue, recovery, issued>>
      /\ queue \notin {"pending", "failed"}
  BY <1>1, <1>2, OneClaim DEF BeginCompletion
<1> QED
  BY <1>1, <1>2, <1>3, <1>4, <1>6, <1>7, ClaimGoesOn DEF BeforeFailure

LEMMA StoreBundleFirst ==
    ASSUME IInv, BeforeFailure, NEW w \in Worker, StoreBundle(w)
    PROVE  BeforeFailure'
<1>1. PICK r \in Locals : r = local[w]
  BY DEF IInv, TypeOK, Process
<1>2. FirstClaim(r, envelope[0].state) /\ r.phase = "bundling"
  BY <1>1, OneClaim DEF StoreBundle
<1>3. envelope[0].state = "none"
  BY <1>2 DEF FirstClaim, BeforeDecision
<1> DEFINE new == [r EXCEPT !.phase = "announcing"]
<1>4. local' = [local EXCEPT ![w] = new]
  BY <1>1 DEF StoreBundle, Goto
<1>5. /\ new.phase = "announcing" /\ new.metadata = r.metadata
      /\ new.draft = r.draft
  BY DEF Locals
<1> HIDE DEF new
<1>6. FirstClaim(new, "none")
  BY <1>2, <1>5 DEF FirstClaim, BeforeDecision, AfterCompletion
<1>7. /\ UNCHANGED <<pointer, envelope, row, queue, recovery, issued>>
      /\ queue \notin {"pending", "failed"}
  BY <1>1, <1>2, OneClaim DEF StoreBundle
<1> QED
  BY <1>1, <1>2, <1>3, <1>4, <1>6, <1>7, ClaimGoesOn DEF BeforeFailure

LEMMA AnnounceFirst ==
    ASSUME IInv, BeforeFailure, NEW w \in Worker, Announce(w)
    PROVE  BeforeFailure'
<1>1. PICK r \in Locals : r = local[w]
  BY DEF IInv, TypeOK, Process
<1>2. FirstClaim(r, envelope[0].state) /\ r.phase = "announcing"
  BY <1>1, OneClaim DEF Announce
<1>3. ~Decided(0) /\ r.draft.att = 0 /\ pointer = 0 /\ 0 \in Attempt
  BY <1>2, BoundAssumption
     DEF FirstClaim, BeforeDecision, AtOrigin, Decided, BeforeFailure, Attempt
<1>4. envelope' = Inserted(0, "complete", CanonicalResult(w))
  BY <1>1, <1>3 DEF Announce
<1>5. envelope'[0].state = "complete"
  BY <1>3, <1>4 DEF IInv, TypeOK, Inserted
<1> DEFINE new == [r EXCEPT !.phase = "closing"]
<1>6. local' = [local EXCEPT ![w] = new]
  BY <1>1, <1>3, <1>5 DEF Announce, Goto
<1>7. new.phase = "closing" /\ new.metadata = r.metadata
  BY DEF Locals
<1> HIDE DEF new
<1>8. FirstClaim(new, "complete")
  BY <1>2, <1>7 DEF FirstClaim, BeforeDecision, AfterCompletion
<1>9. /\ UNCHANGED <<pointer, row, queue, recovery, issued>>
      /\ queue \notin {"pending", "failed"}
  BY <1>1, <1>2, OneClaim DEF Announce
<1> QED
  BY <1>1, <1>2, <1>3, <1>5, <1>6, <1>8, <1>9, ClaimGoesOn DEF BeforeFailure

LEMMA CloseFirst ==
    ASSUME IInv, BeforeFailure, NEW w \in Worker, Close(w)
    PROVE  BeforeFailure'
<1>1. PICK r \in Locals : r = local[w]
  BY DEF IInv, TypeOK, Process
<1>2. FirstClaim(r, envelope[0].state) /\ r.phase = "closing"
  BY <1>1, OneClaim DEF Close
<1>3. envelope[0].state = "complete"
  BY <1>2 DEF FirstClaim, AfterCompletion
<1> DEFINE new == [r EXCEPT !.phase = "concluding"]
<1>4. local' = [local EXCEPT ![w] = new]
  BY <1>1 DEF Close, Goto
<1>5. new.phase = "concluding" /\ new.metadata = r.metadata
  BY DEF Locals
<1> HIDE DEF new
<1>6. FirstClaim(new, "complete")
  BY <1>2, <1>5 DEF FirstClaim, BeforeDecision, AfterCompletion
<1>7. /\ UNCHANGED <<pointer, envelope, row, recovery, issued>>
      /\ queue' \notin {"pending", "failed"}
  BY <1>1, <1>2, OneClaim DEF Close, CompleteRow
<1> QED
  BY <1>1, <1>2, <1>3, <1>4, <1>6, <1>7, ClaimGoesOn DEF BeforeFailure

LEMMA ConcludeFirst ==
    ASSUME IInv, BeforeFailure, ~Reached("failed"), NEW w \in Worker, Conclude(w)
    PROVE  BeforeFailure'
<1>1. PICK r \in Locals : r = local[w]
  BY DEF IInv, TypeOK, Process
<1>2. FirstClaim(r, envelope[0].state) /\ r.phase = "concluding"
  BY <1>1, OneClaim DEF Conclude
<1>3. envelope[0].state = "complete" /\ View.state = "complete"
  BY <1>2, FirstView DEF FirstClaim, AfterCompletion, Decided, Original
<1> DEFINE new == [r EXCEPT !.phase = "completing"]
<1>4. local' = [local EXCEPT ![w] = new]
  BY <1>1, <1>3 DEF Conclude, Goto
<1>5. new.phase = "completing" /\ new.metadata = r.metadata
  BY DEF Locals
<1> HIDE DEF new
<1>6. FirstClaim(new, "complete")
  BY <1>2, <1>5 DEF FirstClaim, BeforeDecision, AfterCompletion
<1>7. /\ UNCHANGED <<pointer, envelope, row, queue, recovery, issued>>
      /\ queue \notin {"pending", "failed"}
  BY <1>1, <1>2, OneClaim DEF Conclude
<1> QED
  BY <1>1, <1>2, <1>3, <1>4, <1>6, <1>7, ClaimGoesOn DEF BeforeFailure

\* The claim ends, or its worker dies.
LEMMA EndFirst ==
    ASSUME IInv, BeforeFailure, NEW w \in Worker, Complete(w) \/ Crash(w)
    PROVE  BeforeFailure'
<1>1. local[w].phase # "idle" /\ local' = [local EXCEPT ![w] = Idle]
  BY DEF Complete, Crash
<1>2. /\ UNCHANGED <<pointer, envelope, row, recovery, issued>>
      /\ queue' \notin {"pending", "failed"}
  BY <1>1, OneClaim DEF Complete, CompleteRow, Crash
<1>3. FirstClaim(Idle, envelope'[0].state)
  BY DEF FirstClaim, BeforeDecision, AfterCompletion, Idle, AtOrigin, Original
<1> QED
  BY <1>1, <1>2, <1>3, ClaimGoesOn DEF BeforeFailure

\* A recovery finds the original attempt.
LEMMA RecoveryFirst ==
    ASSUME IInv, BeforeFailure, SeenOutcome, ~Reached("failed"),
           ~Reached("failed")',
           Recover \/ RecoveryStep \/ CrashRecovery
    PROVE  BeforeFailure'
<1>1. recovery.att = 0 /\ AtOrigin(row) /\ pointer = 0 /\ 0 \in Attempt
  BY BoundAssumption DEF BeforeFailure, Attempt
<1>2. CASE Recover
  <2>1. recovery'.att = 0
    BY <1>2, FirstView DEF Recover, Original
  <2> QED
    BY <1>1, <1>2, <2>1, RecoveryGoesOn DEF Recover
<1>3. CASE PublishInterruption
  <2>1. /\ recovery'.att = 0
        /\ UNCHANGED <<pointer, local, issued, row, queue>>
    BY <1>1, <1>3 DEF PublishInterruption, NoRecovery, IInv, TypeOK
  <2>2. envelope' = envelope
    <3>1. CASE Decided(0)
      BY <1>1, <1>3, <3>1 DEF PublishInterruption, Inserted
    <3>2. CASE ~Decided(0)
      <4>1. envelope' = Inserted(0, "failed", Nobody)
        BY <1>1, <1>3 DEF PublishInterruption
      <4>2. envelope'[0].state = "failed"
        BY <1>1, <3>2, <4>1 DEF IInv, TypeOK, Inserted
      <4> QED
        BY <1>1, <4>2 DEF Reached
    <3> QED
      BY <3>1, <3>2
  <2> QED
    BY <1>1, <2>1, <2>2, RecoveryGoesOn
<1>4. CASE RecordInterruption
  <2>1. AtOrigin(row') /\ recovery'.att = 0
    BY <1>1, <1>4 DEF RecordInterruption, AtOrigin, DocumentOf, IInv, TypeOK
  <2> QED
    BY <1>4, <2>1, RecoveryGoesOn DEF RecordInterruption
<1>5. CASE Settle
  <2>1. recovery.outcome = "complete"
    BY <1>5 DEF Settle, SeenOutcome, IInv, TypeOK, Outcome
  <2>2. queue' = "completed" /\ recovery'.att = 0
    BY <1>5, <2>1 DEF Settle, NoRecovery
  <2> QED
    BY <1>1, <1>5, <2>2, RecoveryGoesOn DEF Settle
<1>6. CASE CrashRecovery
  BY <1>1, <1>6, RecoveryGoesOn DEF CrashRecovery, NoRecovery
<1> QED
  BY <1>2, <1>3, <1>4, <1>5, <1>6 DEF RecoveryStep

\* There is nothing to retry, and no request is at work.
LEMMA NoRequestFirst ==
    ASSUME IInv, BeforeFailure, ~Reached("failed"), NEW q \in Request
    PROVE  ~RequestStep(q) /\ ~Crash(q)
<1>1. local[q].phase = "idle" /\ View.state # "failed"
  BY FirstView DEF BeforeFailure, Original
<1> QED
  BY <1>1
     DEF RequestStep, AskRetry, Enqueue, EnqueueFails, WriteJob, ReadExisting,
         MovePointer, PublishFailure, PublishNothing, Record, Crash

LEMMA FailureInvStep ==
    ASSUME IInv, FailureInv, SeenOutcome, [Next]_vars
    PROVE  FailureInv'
<1> SUFFICES ASSUME ~Reached("failed")' PROVE BeforeFailure'
  BY DEF FailureInv
<1>1. ~Reached("failed") /\ BeforeFailure
  BY ReachedKept DEF FailureInv, Outcome
<1>2. ASSUME NEW w \in Worker, WriteJob(w)
      PROVE  BeforeFailure'
  BY <1>1, <1>2, ReadExistingFirst, MovePointerFirst, PublishFailureFirst,
     PublishNothingFirst, RecordFirst DEF WriteJob
<1>3. ASSUME NEW w \in Worker, WorkerStep(w)
      PROVE  BeforeFailure'
  <2>1. CASE Claim(w) \/ Start(w) \/ Progress(w) \/ Raise(w) \/ TimeOut(w)
    BY <1>1, <2>1, ClaimFirst, StartFirst, ProgressFirst, WriteFailureFirst
  <2>2. CASE BeginCompletion(w) \/ StoreBundle(w) \/ Announce(w)
    BY <1>1, <2>2, BeginCompletionFirst, StoreBundleFirst, AnnounceFirst
  <2>3. CASE Close(w) \/ Conclude(w) \/ Complete(w)
    BY <1>1, <2>3, CloseFirst, ConcludeFirst, EndFirst
  <2>4. ~FindCompleted(w)
    BY <1>1, FirstView, OneClaim
       DEF FindCompleted, FirstClaim, BeforeDecision, Decided, Original
  <2>5. ~Fail(w)
    BY <1>1, OneClaim DEF Fail, FirstClaim, BeforeDecision, AfterCompletion
  <2> QED
    BY <1>2, <1>3, <2>1, <2>2, <2>3, <2>4, <2>5 DEF WorkerStep
<1>4. CASE Recover \/ RecoveryStep \/ CrashRecovery
  BY <1>1, <1>4, RecoveryFirst
<1>5. ASSUME NEW p \in Process, Crash(p)
      PROVE  BeforeFailure'
  BY <1>1, <1>5, EndFirst, NoRequestFirst DEF Process
<1>6. CASE UNCHANGED vars
  BY <1>1, <1>6, RecoveryGoesOn DEF vars, BeforeFailure
<1> QED
  BY <1>1, <1>3, <1>4, <1>5, <1>6, NoRequestFirst DEF Next

-----------------------------------------------------------------------------
(***************************************************************************)
(* Nobody closes, completes or settles on an outcome that is not reached.  *)
(***************************************************************************)
Completing(p) == local[p].phase \in {"closing", "completing"}

\* The phases that a process can go to.
LEMMA WriteJobPhases ==
    ASSUME IInv, NEW p \in Process, WriteJob(p)
    PROVE  ~Completing(p)'
<1>1. PICK r \in Locals : r = local[p]
  BY DEF IInv, TypeOK
<1>2. r.next \in {"idle", "working", "failing", "enqueueing"}
  BY DEF Locals
<1>3. CASE ReadExisting(p)
  <2>1. PICK d, s : d = ScopedDraft(local[p].draft, View) /\ s = View
    OBVIOUS
  <2>2. local' = [local EXCEPT ![p] =
            [r EXCEPT !.phase = "publishing", !.draft = d, !.seen = s]]
    BY <1>1, <1>3, <2>1 DEF ReadExisting
  <2> QED
    BY <2>2 DEF IInv, TypeOK, Locals, Completing
<1>4. CASE MovePointer(p)
  BY <1>1, <1>4 DEF IInv, TypeOK, Locals, Completing, MovePointer, Goto
<1>5. CASE PublishFailure(p)
  <2>1. PICK d : d = DocumentOf(local[p].draft.att,
                                envelope'[local[p].draft.att].state)
    OBVIOUS
  <2>2. local' = [local EXCEPT ![p] =
            [r EXCEPT !.phase = "recording", !.draft = d]]
    BY <1>1, <1>5, <2>1, Zenon DEF PublishFailure
  <2> QED
    BY <2>2 DEF IInv, TypeOK, Locals, Completing
<1>6. CASE PublishNothing(p)
  BY <1>1, <1>6 DEF IInv, TypeOK, Locals, Completing, PublishNothing
<1>7. CASE Record(p)
  BY <1>1, <1>2, <1>7 DEF IInv, TypeOK, Idle, Completing, Record
<1> QED
  BY <1>3, <1>4, <1>5, <1>6, <1>7 DEF WriteJob

LEMMA WritePhase ==
    ASSUME IInv, NEW p \in Process, NEW doc, NEW next, Write(p, doc, next)
    PROVE  ~Completing(p)'
BY DEF IInv, TypeOK, Idle, Completing, Write

LEMMA OtherPhases ==
    ASSUME IInv, NEW p \in Process,
           \/ Claim(p) \/ Start(p) \/ Progress(p) \/ Raise(p) \/ TimeOut(p)
           \/ BeginCompletion(p) \/ StoreBundle(p) \/ Close(p) \/ Complete(p)
           \/ Fail(p) \/ AskRetry(p) \/ Enqueue(p) \/ EnqueueFails(p) \/ Crash(p)
    PROVE  ~Completing(p)'
<1>1. PICK r \in Locals : r = local[p]
  BY DEF IInv, TypeOK
<1>2. CASE Claim(p) \/ StoreBundle(p) \/ Close(p)
  BY <1>1, <1>2 DEF IInv, TypeOK, Locals, Completing, Claim, StoreBundle, Close, Goto
<1>3. CASE Start(p)
  <2>1. PICK m, d, next : local' = [local EXCEPT ![p] =
            [r EXCEPT !.phase = "reading", !.metadata = m, !.draft = d,
                      !.next = next]]
    <3>1. PICK state : local' = [local EXCEPT ![p] =
              [@ EXCEPT !.phase = "reading", !.metadata = Metadata,
                        !.draft = [Metadata EXCEPT !.state = state],
                        !.next = IF state = "active" THEN "working"
                                                     ELSE "failing"]]
      BY <1>3, Zenon DEF Start
    <3> QED
      BY <1>1, <3>1, Zenon
  <2> QED
    BY <2>1 DEF IInv, TypeOK, Locals, Completing
<1>4. CASE Progress(p)
  <2>1. PICK d, n : d = [View EXCEPT !.state = "active"] /\ n = r.progress + 1
    OBVIOUS
  <2>2. local' = [local EXCEPT ![p] =
            [r EXCEPT !.phase = "reading", !.draft = d, !.next = "working",
                      !.progress = n]]
    BY <1>1, <1>4, <2>1 DEF Progress
  <2> QED
    BY <2>2 DEF IInv, TypeOK, Locals, Completing
<1>5. CASE Raise(p) \/ TimeOut(p) \/ EnqueueFails(p)
  BY <1>5, WritePhase, Zenon DEF Raise, TimeOut, EnqueueFails
<1>6. CASE BeginCompletion(p)
  <2>1. PICK phase \in {"concluding", "bundling"} :
          \E v : local' = [local EXCEPT ![p] = [Idle EXCEPT !.phase = phase, !.draft = v]]
    BY <1>6 DEF BeginCompletion
  <2> QED
    BY <2>1 DEF IInv, TypeOK, Idle, Completing
<1>7. CASE Complete(p) \/ Enqueue(p) \/ Crash(p)
  BY <1>7 DEF IInv, TypeOK, Idle, Completing, Complete, Enqueue, Crash
<1>8. CASE Fail(p)
  BY <1>1, <1>8 DEF IInv, TypeOK, Locals, Idle, Completing, Fail
<1>9. CASE AskRetry(p)
  <2>1. PICK m, d : local' = [local EXCEPT ![p] =
            [r EXCEPT !.phase = "reading", !.metadata = m, !.draft = d,
                      !.next = "enqueueing"]]
    BY <1>1, <1>9 DEF AskRetry
  <2> QED
    BY <2>1 DEF IInv, TypeOK, Locals, Completing
<1> QED
  BY <1>2, <1>3, <1>4, <1>5, <1>6, <1>7, <1>8, <1>9

\* Who is to close or complete has announced, or has read, a completion.
LEMMA CompletingReached ==
    ASSUME IInv, NEW w \in Worker, FindCompleted(w) \/ Announce(w) \/ Conclude(w),
           Completing(w)'
    PROVE  Reached("complete")'
<1>1. w \in Process
  BY DEF Process
<1>2. CASE FindCompleted(w)
  <2>1. Reached("complete") /\ envelope' = envelope
    BY <1>2, ViewReached DEF IInv, FindCompleted
  <2> QED
    BY <2>1 DEF Reached
<1>3. CASE Announce(w)
  <2>1. PICK r \in Locals : r = local[w]
    BY <1>1 DEF IInv, TypeOK
  <2>2. CASE envelope'[r.draft.att].state = "complete"
    BY <2>2 DEF Reached, Locals, Document
  <2>3. CASE envelope'[r.draft.att].state # "complete"
    <3>1. Goto(w, "concluding")
      BY <1>3, <2>1, <2>3 DEF Announce
    <3> QED
      BY <1>1, <2>1, <3>1 DEF IInv, TypeOK, Locals, Completing, Goto
  <2> QED
    BY <2>2, <2>3
<1>4. CASE Conclude(w)
  <2>1. View.state = "complete" /\ envelope' = envelope
    BY <1>1, <1>4, WritePhase DEF Conclude
  <2>2. Reached("complete")
    BY <2>1, ViewReached DEF IInv
  <2> QED
    BY <2>1, <2>2 DEF Reached
<1> QED
  BY <1>2, <1>3, <1>4

\* A step of a process leaves the recovery and the other processes alone.
LEMMA ProcessStep ==
    ASSUME IInv, SeenOutcome, [Next]_vars, NEW p \in Process,
           \/ p \in Worker /\ WorkerStep(p)
           \/ p \in Request /\ RequestStep(p)
           \/ Crash(p)
    PROVE  SeenOutcome'
<1>1. /\ recovery' = recovery
      /\ \A q \in Process : q # p => local'[q] = local[q]
  BY DEF IInv, TypeOK, WorkerStep, Claim, Start, FindCompleted, Progress, Raise,
         TimeOut, BeginCompletion, StoreBundle, Announce, Close, Conclude,
         Complete, Fail, RequestStep, AskRetry, Enqueue, EnqueueFails, WriteJob,
         ReadExisting, MovePointer, PublishFailure, PublishNothing, Record, Crash,
         Goto, Write
<1>2. Completing(p)' => Reached("complete")'
  BY WriteJobPhases, OtherPhases, CompletingReached DEF WorkerStep, RequestStep
<1>3. \A q \in Process : q # p /\ Completing(q)' => Reached("complete")'
  <2> SUFFICES ASSUME NEW q \in Process, q # p, Completing(q)'
               PROVE  Reached("complete")'
    OBVIOUS
  <2>1. Reached("complete")
    BY <1>1 DEF SeenOutcome, Completing
  <2> QED
    BY <2>1, ReachedKept DEF Outcome
<1>4. recovery'.phase \in {"recording", "settling"} => Reached(recovery.outcome)'
  BY <1>1, ReachedKept DEF SeenOutcome, IInv, TypeOK
<1> QED
  BY <1>1, <1>2, <1>3, <1>4 DEF SeenOutcome, Completing, Reached

\* A recovery has found its outcome, or publishes it.
LEMMA RecoverySeen ==
    ASSUME IInv, SeenOutcome, [Next]_vars,
           Recover \/ RecoveryStep \/ CrashRecovery \/ UNCHANGED vars
    PROVE  SeenOutcome'
<1>1. local' = local
  BY DEF Recover, RecoveryStep, PublishInterruption, RecordInterruption, Settle,
         CrashRecovery, vars
<1>2. \A p \in Process : Completing(p)' => Reached("complete")'
  <2> SUFFICES ASSUME NEW p \in Process, Completing(p)'
               PROVE  Reached("complete")'
    OBVIOUS
  <2>1. Reached("complete")
    BY <1>1 DEF SeenOutcome, Completing
  <2> QED
    BY <2>1, ReachedKept DEF Outcome
<1>3. (recovery.phase \in {"recording", "settling"} => Reached(recovery.outcome))'
  <2>1. CASE Recover
    <3>1. CASE View.state = "active"
      BY <2>1, <3>1 DEF Recover
    <3>2. CASE View.state # "active"
      <4>1. recovery'.outcome = View.state /\ envelope' = envelope
        BY <2>1, <3>2 DEF Recover
      <4>2. Reached(View.state)
        BY <3>2, ViewReached DEF IInv
      <4> QED
        BY <4>1, <4>2 DEF Reached
    <3> QED
      BY <3>1, <3>2
  <2>2. CASE PublishInterruption
    <3>1. CASE pointer = recovery.att
      <4>1. recovery'.outcome = envelope'[pointer].state
        BY <2>2, <3>1 DEF PublishInterruption, IInv, TypeOK
      <4> QED
        BY <4>1 DEF Reached, IInv, TypeOK
    <3>2. CASE pointer # recovery.att
      BY <2>2, <3>2 DEF PublishInterruption, NoRecovery
    <3> QED
      BY <3>1, <3>2
  <2>3. CASE RecordInterruption
    <3>1. Reached(recovery.outcome) /\ recovery'.outcome = recovery.outcome
      BY <2>3 DEF RecordInterruption, SeenOutcome, IInv, TypeOK
    <3>2. envelope' = envelope
      BY <2>3 DEF RecordInterruption
    <3> QED
      BY <3>1, <3>2 DEF Reached
  <2>4. CASE Settle \/ CrashRecovery
    BY <2>4 DEF Settle, CrashRecovery, NoRecovery
  <2>5. CASE UNCHANGED vars
    BY <2>5 DEF SeenOutcome, vars, Reached
  <2> QED
    BY <2>1, <2>2, <2>3, <2>4, <2>5 DEF RecoveryStep
<1> QED
  BY <1>2, <1>3 DEF SeenOutcome, Completing

LEMMA SeenOutcomeStep ==
    ASSUME IInv, SeenOutcome, [Next]_vars
    PROVE  SeenOutcome'
BY ProcessStep, RecoverySeen DEF Next, Process

-----------------------------------------------------------------------------
(***************************************************************************)
(* The row.                                                                *)
(***************************************************************************)
\* Who fails the row is past the one claim of the time before any failure.
LEMMA FailSeen ==
    ASSUME IInv, FailureInv, NEW w \in Worker, Fail(w)
    PROVE  Reached("failed")
BY OneClaim DEF FailureInv, Fail, FirstClaim, BeforeDecision, AfterCompletion

LEMMA RowChanges ==
    ASSUME SettleInv, [Next]_vars, queue' # queue
    PROVE  /\ queue' = "completed" => Reached("complete")
           /\ queue' = "failed" => Reached("failed")
<1>1. ASSUME NEW w \in Worker, WorkerStep(w)
      PROVE  /\ queue' = "completed" => Reached("complete")
             /\ queue' = "failed" => Reached("failed")
  <2>1. CASE Claim(w)
    BY <2>1 DEF Claim
  <2>2. CASE Close(w) \/ Complete(w)
    <3>1. Reached("complete")
      BY <2>2 DEF Close, Complete, SettleInv, SeenOutcome, Process
    <3>2. queue' = "completed"
      BY <2>2 DEF Close, Complete, CompleteRow
    <3> QED
      BY <3>1, <3>2
  <2>3. CASE Fail(w)
    <3>1. Reached("failed")
      BY <2>3, FailSeen DEF SettleInv
    <3>2. queue' = "failed"
      BY <2>3 DEF Fail, FailedRow
    <3> QED
      BY <3>1, <3>2
  <2> QED
    BY <1>1, <2>1, <2>2, <2>3
       DEF WorkerStep, Start, FindCompleted, Progress, Raise, TimeOut,
           BeginCompletion, StoreBundle, Announce, Conclude, WriteJob,
           ReadExisting, MovePointer, PublishFailure, PublishNothing, Record
<1>2. ASSUME NEW q \in Request, RequestStep(q)
      PROVE  queue' = "pending"
  BY <1>2
     DEF RequestStep, AskRetry, Enqueue, EnqueueFails, WriteJob, ReadExisting,
         MovePointer, PublishFailure, PublishNothing, Record
<1>3. CASE Settle
  <2>1. Reached(recovery.outcome) /\ recovery.outcome \in Outcome
    BY <1>3 DEF Settle, SettleInv, SeenOutcome, IInv, TypeOK
  <2> QED
    BY <1>3, <2>1 DEF Settle, Outcome
<1> QED
  BY <1>1, <1>2, <1>3
     DEF Next, Recover, RecoveryStep, PublishInterruption, RecordInterruption,
         CrashRecovery, Crash, vars

LEMMA SettleInvInductive ==
    /\ Init => SettleInv
    /\ SettleInv /\ [Next]_vars => SettleInv'
<1>1. ASSUME Init PROVE SettleInv
  <2>1. 0 \in Attempt
    BY BoundAssumption DEF Attempt
  <2>2. \A p \in Process : local[p] = Idle
    BY <1>1 DEF Init
  <2>3. FirstClaim(Idle, "none")
    BY DEF FirstClaim, BeforeDecision, AfterCompletion, Idle, AtOrigin, Original
  <2>4. ~Decided(0) /\ envelope[0].state = "none"
    BY <1>1, <2>1 DEF Init, Decided, NoEnvelope
  <2>5. BeforeFailure
    BY <1>1, <2>2, <2>3, <2>4
       DEF Init, BeforeFailure, Idle, AtOrigin, Original, NoRecovery, Process
  <2>6. SeenOutcome
    BY <1>1, <2>2 DEF Init, SeenOutcome, Idle, NoRecovery
  <2> QED
    BY <1>1, <2>5, <2>6, InitInv DEF Init, SettleInv, FailureInv, RowSettledTruthfully
<1>2. ASSUME SettleInv, [Next]_vars PROVE SettleInv'
  <2>1. IInv' /\ FailureInv' /\ SeenOutcome'
    BY <1>2, StepInv, FailureInvStep, SeenOutcomeStep DEF SettleInv
  <2>2. /\ queue' = "completed" => Reached("complete")
        /\ queue' = "failed" => Reached("failed")
    BY <1>2, RowChanges DEF SettleInv, RowSettledTruthfully, Reached
  <2>3. RowSettledTruthfully'
    <3>1. /\ queue' = "completed" => Reached("complete")'
          /\ queue' = "failed" => Reached("failed")'
      BY <1>2, <2>2, ReachedKept DEF SettleInv, Outcome
    <3> QED
      BY <3>1 DEF RowSettledTruthfully, Reached
  <2> QED
    BY <2>1, <2>3 DEF SettleInv
<1> QED
  BY <1>1, <1>2

\* RowSettledTruthfully: the queue row of a job is completed or failed only if
\* an attempt of the job has that outcome for its readers, in every interleaving
\* of workers, retries and recoveries and after every crash.
THEOREM SettledTruthfully == Spec => []RowSettledTruthfully
BY SettleInvInductive, PTL DEF Spec, SettleInv

-----------------------------------------------------------------------------
(***************************************************************************)
(* Every attempt that is named anywhere is the original one or follows a   *)
(* retry mark that was issued.  So before the first retry there is one     *)
(* attempt only, and a settled row is settled on that one.                 *)
(***************************************************************************)
Known(doc, n) == doc.att <= n /\ doc.mark <= n

KnownLocal(r, n) == Known(r.metadata, n) /\ Known(r.draft, n) /\ Known(r.seen, n)

IssuedInv ==
    /\ pointer <= issued
    /\ Known(row, issued)
    /\ recovery.att <= issued
    /\ \A a \in Attempt : Decided(a) => a <= issued
    /\ \A p \in Process : KnownLocal(local[p], issued)

LEMMA IssuedNat == TypeOK => issued \in Nat /\ Known(Original, issued)
BY BoundAssumption DEF TypeOK, Known, Original

LEMMA ViewKnown ==
    ASSUME IInv, IssuedInv
    PROVE  Known(View, issued) /\ Known(Metadata, issued)
<1>1. pointer \in Nat /\ issued \in Nat /\ row \in Document
  BY IssuedNat, BoundAssumption DEF IInv, TypeOK, Attempt
<1>2. Known(View, issued)
  BY <1>1, IssuedNat DEF View, DocumentOf, Known, IssuedInv
<1> QED
  BY <1>1, <1>2 DEF Metadata, Known, IssuedInv, Document

LEMMA ScopedKnown ==
    ASSUME NEW doc \in Document, NEW seen \in Document, NEW n,
           Known(doc, n), Known(seen, n)
    PROVE  Known(ScopedDraft(doc, seen), n)
BY DEF ScopedDraft, Known, Document

LEMMA StateKnown ==
    ASSUME NEW doc \in Document, NEW state, NEW n, Known(doc, n)
    PROVE  Known([doc EXCEPT !.state = state], n)
BY DEF Known, Document

\* A process goes on with documents of attempts that were issued.
LEMMA GoesOnIssued ==
    ASSUME IInv, IssuedInv, NEW p \in Process, NEW new,
           local' = [local EXCEPT ![p] = new], KnownLocal(new, issued),
           pointer' <= issued, Known(row', issued),
           UNCHANGED <<envelope, recovery, issued>>
    PROVE  IssuedInv'
<1>1. \A q \in Process : KnownLocal(local'[q], issued)
  BY DEF IInv, TypeOK, IssuedInv
<1> QED
  BY <1>1 DEF IssuedInv, Decided

LEMMA WriteIssued ==
    ASSUME IInv, IssuedInv, NEW p \in Process, NEW doc, NEW next,
           Write(p, doc, next), Known(doc, issued),
           UNCHANGED <<pointer, envelope, row, recovery, issued>>
    PROVE  IssuedInv'
<1> DEFINE new == [Idle EXCEPT !.phase = "reading", !.draft = doc, !.next = next]
<1>1. local' = [local EXCEPT ![p] = new]
  BY DEF Write
<1>2. new.metadata = Original /\ new.draft = doc /\ new.seen = Original
  BY DEF Idle
<1> HIDE DEF new
<1>3. KnownLocal(new, issued)
  BY <1>2, IssuedNat DEF KnownLocal, IInv
<1> QED
  BY <1>1, <1>3, GoesOnIssued DEF IssuedInv

\* Only the phase changes, or the process is idle again.
LEMMA PhaseIssued ==
    ASSUME IInv, IssuedInv, NEW p \in Process, NEW phase,
           Goto(p, phase) \/ local' = [local EXCEPT ![p] = Idle],
           pointer' <= issued,
           UNCHANGED <<envelope, row, recovery, issued>>
    PROVE  IssuedInv'
<1>1. PICK r \in Locals : r = local[p]
  BY DEF IInv, TypeOK
<1>2. CASE Goto(p, phase)
  <2> DEFINE new == [r EXCEPT !.phase = phase]
  <2>1. local' = [local EXCEPT ![p] = new]
    BY <1>1, <1>2 DEF Goto
  <2>2. new.metadata = r.metadata /\ new.draft = r.draft /\ new.seen = r.seen
    BY DEF Locals
  <2> HIDE DEF new
  <2>3. KnownLocal(new, issued)
    BY <1>1, <2>2 DEF KnownLocal, IssuedInv
  <2> QED
    BY <2>1, <2>3, GoesOnIssued DEF IssuedInv
<1>3. CASE local' = [local EXCEPT ![p] = Idle]
  <2>1. KnownLocal(Idle, issued)
    BY IssuedNat DEF KnownLocal, Idle, IInv
  <2> QED
    BY <1>3, <2>1, GoesOnIssued DEF IssuedInv
<1> QED
  BY <1>2, <1>3

LEMMA ReadExistingIssued ==
    ASSUME IInv, IssuedInv, NEW p \in Process, ReadExisting(p)
    PROVE  IssuedInv'
<1>1. PICK r \in Locals, v \in Document : r = local[p] /\ v = View
  BY ViewIsDocument DEF IInv, TypeOK
<1>2. r.draft \in Document /\ KnownLocal(r, issued) /\ Known(v, issued)
  BY <1>1, ViewKnown DEF Locals, IssuedInv
<1>3. PICK d : d = ScopedDraft(r.draft, v)
  OBVIOUS
<1>4. Known(d, issued)
  BY <1>2, <1>3, ScopedKnown DEF KnownLocal
<1> DEFINE new == [r EXCEPT !.phase = "publishing", !.draft = d, !.seen = v]
<1>5. local' = [local EXCEPT ![p] = new]
  BY <1>1, <1>3 DEF ReadExisting
<1>6. new.metadata = r.metadata /\ new.draft = d /\ new.seen = v
  BY DEF Locals
<1> HIDE DEF new
<1>7. KnownLocal(new, issued)
  BY <1>2, <1>4, <1>6 DEF KnownLocal
<1> QED
  BY <1>5, <1>7, GoesOnIssued DEF ReadExisting, IssuedInv

LEMMA PublishFailureIssued ==
    ASSUME IInv, IssuedInv, NEW p \in Process, PublishFailure(p)
    PROVE  IssuedInv'
<1>1. PICK r \in Locals, a \in Attempt : r = local[p] /\ a = r.draft.att
  BY DEF IInv, TypeOK, Locals, Document
<1>2. KnownLocal(r, issued) /\ a <= issued /\ a \in Nat /\ issued \in Nat
  BY <1>1, IssuedNat, BoundAssumption
     DEF IssuedInv, KnownLocal, Known, IInv, Attempt
<1>3. envelope' = Inserted(a, "failed", Nobody)
  BY <1>1 DEF PublishFailure
<1>4. \A b \in Attempt : Decided(b)' => b <= issued
  BY <1>2, <1>3, EnvelopeOfAttempt DEF IInv, IssuedInv, Decided, Outcome
<1>5. PICK d : d = DocumentOf(a, envelope'[a].state)
  OBVIOUS
<1>6. Known(d, issued)
  BY <1>2, <1>5 DEF DocumentOf, Known
<1> DEFINE new == [r EXCEPT !.phase = "recording", !.draft = d]
<1>7. local' = [local EXCEPT ![p] = new]
  BY <1>1, <1>5, Zenon DEF PublishFailure
<1>8. new.metadata = r.metadata /\ new.draft = d /\ new.seen = r.seen
  BY DEF Locals
<1> HIDE DEF new
<1>9. KnownLocal(new, issued)
  BY <1>2, <1>6, <1>8 DEF KnownLocal
<1>10. \A q \in Process : KnownLocal(local'[q], issued)
  BY <1>7, <1>9 DEF IInv, TypeOK, IssuedInv
<1>11. UNCHANGED <<pointer, row, recovery, issued>>
  BY DEF PublishFailure
<1> QED
  BY <1>4, <1>10, <1>11 DEF IssuedInv

LEMMA PublishNothingIssued ==
    ASSUME IInv, IssuedInv, NEW p \in Process, PublishNothing(p)
    PROVE  IssuedInv'
<1>1. PICK r \in Locals : r = local[p]
  BY DEF IInv, TypeOK
<1> DEFINE new == [r EXCEPT !.phase = "recording", !.draft = r.seen]
<1>2. local' = [local EXCEPT ![p] = new]
  BY <1>1 DEF PublishNothing
<1>3. new.metadata = r.metadata /\ new.draft = r.seen /\ new.seen = r.seen
  BY DEF Locals
<1> HIDE DEF new
<1>4. KnownLocal(new, issued)
  BY <1>1, <1>3 DEF KnownLocal, IssuedInv
<1> QED
  BY <1>2, <1>4, GoesOnIssued DEF PublishNothing, IssuedInv

LEMMA RecordIssued ==
    ASSUME IInv, IssuedInv, NEW p \in Process, Record(p)
    PROVE  IssuedInv'
<1>1. PICK r \in Locals, i \in Locals : r = local[p] /\ i = Idle
  BY IdleLocal DEF IInv, TypeOK, Becomes
<1> DEFINE working == [i EXCEPT !.phase = "working", !.metadata = r.metadata,
                                !.progress = r.progress]
           enqueueing == [i EXCEPT !.phase = "enqueueing", !.metadata = r.metadata]
           other == [i EXCEPT !.phase = r.next]
           new == IF r.next = "working" THEN working
                  ELSE IF r.next = "enqueueing" THEN enqueueing ELSE other
<1>2. local' = [local EXCEPT ![p] = new]
  BY <1>1 DEF Record
<1>3. KnownLocal(r, issued) /\ KnownLocal(i, issued)
  BY <1>1, IssuedNat DEF IssuedInv, KnownLocal, Idle, IInv
<1>4. KnownLocal(working, issued)
  BY <1>3 DEF KnownLocal, Locals
<1>5. KnownLocal(enqueueing, issued)
  BY <1>3 DEF KnownLocal, Locals
<1>6. KnownLocal(other, issued)
  BY <1>3 DEF KnownLocal, Locals
<1>7. KnownLocal(new, issued)
  <2> HIDE DEF working, enqueueing, other
  <2> QED
    BY <1>4, <1>5, <1>6
<1>8. /\ Known(row', issued) /\ UNCHANGED <<pointer, envelope, recovery, issued>>
  BY <1>1, <1>3 DEF Record, KnownLocal
<1> HIDE DEF new
<1> QED
  BY <1>2, <1>7, <1>8, GoesOnIssued DEF IssuedInv

LEMMA StartIssued ==
    ASSUME IInv, IssuedInv, NEW w \in Process, Start(w)
    PROVE  IssuedInv'
<1>1. PICK r \in Locals, m \in Document : r = local[w] /\ m = Metadata
  BY ViewIsDocument DEF IInv, TypeOK
<1>2. PICK state : local' = [local EXCEPT ![w] =
            [@ EXCEPT !.phase = "reading", !.metadata = Metadata,
                      !.draft = [Metadata EXCEPT !.state = state],
                      !.next = IF state = "active" THEN "working"
                                                   ELSE "failing"]]
  BY Zenon DEF Start
<1>3. PICK d, next : /\ d = [m EXCEPT !.state = state]
                     /\ next = IF state = "active" THEN "working" ELSE "failing"
  OBVIOUS
<1>4. Known(m, issued) /\ Known(d, issued) /\ KnownLocal(r, issued)
  BY <1>1, <1>3, ViewKnown, StateKnown DEF IssuedInv
<1> DEFINE new == [r EXCEPT !.phase = "reading", !.metadata = m, !.draft = d,
                            !.next = next]
<1>5. local' = [local EXCEPT ![w] = new]
  BY <1>1, <1>2, <1>3, Zenon
<1>6. new.metadata = m /\ new.draft = d /\ new.seen = r.seen
  BY DEF Locals
<1> HIDE DEF new
<1>7. KnownLocal(new, issued)
  BY <1>4, <1>6 DEF KnownLocal
<1> QED
  BY <1>5, <1>7, GoesOnIssued DEF Start, IssuedInv

LEMMA ProgressIssued ==
    ASSUME IInv, IssuedInv, NEW w \in Process, Progress(w)
    PROVE  IssuedInv'
<1>1. PICK r \in Locals, v \in Document : r = local[w] /\ v = View
  BY ViewIsDocument DEF IInv, TypeOK
<1>2. PICK d, n : d = [v EXCEPT !.state = "active"] /\ n = r.progress + 1
  OBVIOUS
<1>3. Known(d, issued) /\ KnownLocal(r, issued)
  BY <1>1, <1>2, ViewKnown, StateKnown DEF IssuedInv
<1> DEFINE new == [r EXCEPT !.phase = "reading", !.draft = d,
                            !.next = "working", !.progress = n]
<1>4. local' = [local EXCEPT ![w] = new]
  BY <1>1, <1>2 DEF Progress
<1>5. new.metadata = r.metadata /\ new.draft = d /\ new.seen = r.seen
  BY DEF Locals
<1> HIDE DEF new
<1>6. KnownLocal(new, issued)
  BY <1>3, <1>5 DEF KnownLocal
<1> QED
  BY <1>4, <1>6, GoesOnIssued DEF Progress, IssuedInv

LEMMA WriteFailureIssued ==
    ASSUME IInv, IssuedInv, NEW p \in Process,
           Raise(p) \/ TimeOut(p) \/ EnqueueFails(p)
    PROVE  IssuedInv'
<1>1. /\ View \in Document /\ Known(View, issued)
      /\ local[p].metadata \in Document /\ Known(local[p].metadata, issued)
      /\ UNCHANGED <<pointer, envelope, row, recovery, issued>>
  BY ViewIsDocument, ViewKnown
     DEF IInv, TypeOK, Locals, IssuedInv, KnownLocal, Raise, TimeOut, EnqueueFails
<1>2. CASE Raise(p)
  <2> DEFINE doc == [att |-> View.att, state |-> "failed",
                     mark |-> IF View.mark # 0 THEN View.mark
                                               ELSE local[p].metadata.mark]
  <2>1. Known(doc, issued)
    BY <1>1 DEF Known
  <2>2. Write(p, doc, "failing")
    BY <1>2, Zenon DEF Raise
  <2> HIDE DEF doc
  <2> QED
    BY <1>1, <2>1, <2>2, WriteIssued
<1>3. Known([local[p].metadata EXCEPT !.state = "failed"], issued)
  BY <1>1, StateKnown
<1>4. CASE TimeOut(p)
  BY <1>1, <1>3, <1>4, WriteIssued DEF TimeOut
<1>5. CASE EnqueueFails(p)
  BY <1>1, <1>3, <1>5, WriteIssued DEF EnqueueFails
<1> QED
  BY <1>2, <1>4, <1>5

LEMMA BeginCompletionIssued ==
    ASSUME IInv, IssuedInv, NEW w \in Process, BeginCompletion(w)
    PROVE  IssuedInv'
<1>1. PICK phase, v : /\ v = View
                      /\ local' = [local EXCEPT ![w] =
                            [Idle EXCEPT !.phase = phase, !.draft = v]]
  BY DEF BeginCompletion
<1> DEFINE new == [Idle EXCEPT !.phase = phase, !.draft = v]
<1>2. new.metadata = Original /\ new.draft = v /\ new.seen = Original
  BY DEF Idle
<1> HIDE DEF new
<1>3. KnownLocal(new, issued)
  BY <1>1, <1>2, ViewKnown, IssuedNat DEF KnownLocal, IInv
<1> QED
  BY <1>1, <1>3, GoesOnIssued DEF BeginCompletion, IssuedInv, new

LEMMA AnnounceIssued ==
    ASSUME IInv, IssuedInv, NEW w \in Worker, Announce(w)
    PROVE  IssuedInv'
<1>1. PICK r \in Locals, a \in Attempt : r = local[w] /\ a = r.draft.att
  BY DEF IInv, TypeOK, Locals, Document, Process
<1>2. a <= issued
  BY <1>1 DEF IssuedInv, KnownLocal, Known, Process
<1>3. /\ bundle[a] \in Worker \cup {Nobody}
      /\ envelope' = envelope \/ envelope' = Inserted(a, "complete", bundle[a])
  BY <1>1 DEF IInv, TypeOK, Announce, CanonicalResult
<1>4. \A b \in Attempt : Decided(b)' => b <= issued
  BY <1>2, <1>3, EnvelopeOfAttempt DEF IInv, IssuedInv, Decided, Outcome
<1>5. PICK phase : Goto(w, phase)
  BY DEF Announce
<1> DEFINE new == [r EXCEPT !.phase = phase]
<1>6. local' = [local EXCEPT ![w] = new]
  BY <1>1, <1>5 DEF Goto
<1>7. new.metadata = r.metadata /\ new.draft = r.draft /\ new.seen = r.seen
  BY DEF Locals
<1> HIDE DEF new
<1>8. KnownLocal(new, issued)
  BY <1>1, <1>7 DEF KnownLocal, IssuedInv, Process
<1>9. \A q \in Process : KnownLocal(local'[q], issued)
  BY <1>6, <1>8 DEF IInv, TypeOK, IssuedInv, Process
<1>10. UNCHANGED <<pointer, row, recovery, issued>>
  BY DEF Announce
<1> QED
  BY <1>4, <1>9, <1>10 DEF IssuedInv

LEMMA ConcludeIssued ==
    ASSUME IInv, IssuedInv, NEW w \in Process, Conclude(w)
    PROVE  IssuedInv'
<1>1. Known([View EXCEPT !.state = "failed"], issued)
  BY ViewIsDocument, ViewKnown, StateKnown DEF IInv
<1>2. /\ UNCHANGED <<pointer, envelope, row, recovery, issued>>
      /\ pointer' <= issued
  BY DEF Conclude, IssuedInv
<1> QED
  BY <1>1, <1>2, PhaseIssued, WriteIssued DEF Conclude

\* Steps that move the pointer to an attempt that is known, or only the queue
\* row or the process.
LEMMA PlainIssued ==
    ASSUME IInv, IssuedInv, NEW p \in Process,
           \/ MovePointer(p) \/ Claim(p) \/ FindCompleted(p) \/ StoreBundle(p)
           \/ Close(p) \/ Complete(p) \/ Enqueue(p) \/ Crash(p)
    PROVE  IssuedInv'
<1>1. /\ pointer' <= issued
      /\ UNCHANGED <<envelope, row, recovery, issued>>
  BY DEF IssuedInv, KnownLocal, Known, MovePointer, Claim, FindCompleted,
         StoreBundle, Close, Complete, Enqueue, Crash
<1>2. \E phase : Goto(p, phase) \/ local' = [local EXCEPT ![p] = Idle]
  BY DEF MovePointer, Claim, FindCompleted, StoreBundle, Close, Complete,
         Enqueue, Crash
<1> QED
  BY <1>1, <1>2, PhaseIssued

LEMMA FailIssued ==
    ASSUME IInv, IssuedInv, NEW w \in Process, Fail(w)
    PROVE  IssuedInv'
<1>1. \E phase : Goto(w, phase) \/ local' = [local EXCEPT ![w] = Idle]
  <2>1. CASE local[w].phase = "failing"
    <3>1. Goto(w, "refailing")
      BY <2>1 DEF Fail, Goto, IInv, TypeOK
    <3> QED
      BY <3>1
  <2>2. CASE local[w].phase # "failing"
    <3>1. local' = [local EXCEPT ![w] = Idle]
      BY <2>2 DEF Fail, IInv, TypeOK
    <3> QED
      BY <3>1
  <2> QED
    BY <2>1, <2>2
<1> QED
  BY <1>1, PhaseIssued DEF Fail, IssuedInv

\* A retry names the attempt after its mark.
LEMMA AskRetryIssued ==
    ASSUME IInv, IssuedInv, NEW q \in Process, AskRetry(q)
    PROVE  IssuedInv'
<1>1. /\ issued \in Nat /\ issued' = issued + 1 /\ pointer \in Nat
      /\ UNCHANGED <<pointer, envelope, row, recovery>>
  BY IssuedNat, BoundAssumption DEF IInv, TypeOK, AskRetry, Attempt
<1>2. \A d \in Document : Known(d, issued) => Known(d, issued + 1)
  BY <1>1, BoundAssumption DEF Known, Document, Attempt
<1>3. PICK r \in Locals : r = local[q]
  BY DEF IInv, TypeOK
<1>4. View \in Document /\ Known(View, issued)
  BY ViewIsDocument, ViewKnown DEF IInv
<1>5. PICK m \in Document : m = [View EXCEPT !.mark = issued + 1]
  <2>1. issued + 1 \in Attempt
    BY <1>1, BoundAssumption DEF AskRetry, Attempt
  <2> QED
    BY <1>4, <2>1, DocumentFields
<1>6. Known(m, issued + 1)
  BY <1>1, <1>2, <1>4, <1>5 DEF Known, Document
<1>7. PICK d : d = [m EXCEPT !.state = "active"]
  OBVIOUS
<1>8. Known(d, issued + 1)
  BY <1>6, <1>7, StateKnown
<1> DEFINE new == [r EXCEPT !.phase = "reading", !.metadata = m, !.draft = d,
                            !.next = "enqueueing"]
<1>9. local' = [local EXCEPT ![q] = new]
  BY <1>3, <1>5, <1>7, Zenon DEF AskRetry
<1>10. new.metadata = m /\ new.draft = d /\ new.seen = r.seen
  BY DEF Locals
<1> HIDE DEF new
<1>11. \A p \in Process : KnownLocal(local[p], issued + 1)
  BY <1>2 DEF IInv, TypeOK, Locals, IssuedInv, KnownLocal
<1>12. KnownLocal(new, issued + 1)
  BY <1>3, <1>6, <1>8, <1>10, <1>11 DEF KnownLocal
<1>13. \A p \in Process : KnownLocal(local'[p], issued + 1)
  BY <1>9, <1>11, <1>12 DEF IInv, TypeOK
<1>14. Known(row, issued + 1) /\ pointer <= issued + 1 /\ recovery.att <= issued + 1
  BY <1>1, <1>2, BoundAssumption DEF IInv, TypeOK, IssuedInv, Attempt
<1>15. \A a \in Attempt : Decided(a)' => a <= issued + 1
  BY <1>1, BoundAssumption DEF IssuedInv, Decided, Attempt
<1> QED
  BY <1>1, <1>13, <1>14, <1>15 DEF IssuedInv

LEMMA RecoveryIssued ==
    ASSUME IInv, IssuedInv, Recover \/ RecoveryStep \/ CrashRecovery
    PROVE  IssuedInv'
<1>1. issued \in Nat /\ UNCHANGED <<pointer, local, issued>>
  BY IssuedNat
     DEF IInv, Recover, RecoveryStep, PublishInterruption, RecordInterruption,
         Settle, CrashRecovery
<1>2. recovery'.att <= issued
  <2>1. CASE Recover
    BY <2>1, ViewKnown DEF Recover, Known
  <2>2. CASE PublishInterruption
    <3>1. PICK outcome : \/ recovery' = NoRecovery
                         \/ recovery' = [recovery EXCEPT !.phase = "recording",
                                                          !.outcome = outcome]
      BY <2>2, Zenon DEF PublishInterruption
    <3>2. PICK r \in [phase : {"idle", "publishing", "recording", "settling"},
                      att : Attempt, outcome : Outcome] : r = recovery
      BY DEF IInv, TypeOK
    <3>3. [r EXCEPT !.phase = "recording", !.outcome = outcome].att = r.att
      OBVIOUS
    <3>4. 0 <= issued /\ recovery.att <= issued
      BY <1>1 DEF IssuedInv
    <3>5. CASE recovery' = NoRecovery
      BY <3>4, <3>5 DEF NoRecovery
    <3>6. CASE recovery' = [recovery EXCEPT !.phase = "recording",
                                            !.outcome = outcome]
      BY <3>2, <3>3, <3>4, <3>6, Zenon
    <3> QED
      BY <3>1, <3>5, <3>6
  <2>3. CASE RecordInterruption
    BY <2>3 DEF RecordInterruption, IssuedInv, IInv, TypeOK
  <2>4. CASE Settle \/ CrashRecovery
    BY <1>1, <2>4 DEF Settle, CrashRecovery, NoRecovery
  <2> QED
    BY <2>1, <2>2, <2>3, <2>4 DEF RecoveryStep
<1>3. Known(row', issued)
  BY <1>1
     DEF IssuedInv, Known, DocumentOf, Recover, RecoveryStep,
         PublishInterruption, RecordInterruption, Settle, CrashRecovery
<1>4. \A a \in Attempt : Decided(a)' => a <= issued
  <2>1. CASE envelope' = envelope
    BY <2>1 DEF IssuedInv, Decided
  <2>2. CASE envelope' = Inserted(pointer, "failed", Nobody)
    <3>1. /\ pointer \in Attempt /\ pointer <= issued
          /\ \A b \in Attempt : b # pointer => envelope'[b] = envelope[b]
      BY <2>2, EnvelopeOfAttempt DEF IInv, TypeOK, IssuedInv, Outcome
    <3> QED
      BY <3>1 DEF IssuedInv, Decided
  <2>3. CASE PublishInterruption
    BY <2>1, <2>2, <2>3 DEF PublishInterruption
  <2> QED
    BY <2>1, <2>3
       DEF Recover, RecoveryStep, PublishInterruption, RecordInterruption,
           Settle, CrashRecovery
<1> QED
  BY <1>1, <1>2, <1>3, <1>4 DEF IssuedInv

LEMMA IssuedInvInductive ==
    /\ Init => IssuedInv
    /\ IInv /\ IssuedInv /\ [Next]_vars => IssuedInv'
<1>1. ASSUME Init PROVE IssuedInv
  <2>1. TypeOK
    BY <1>1, InitInv DEF IInv
  <2>2. KnownLocal(Idle, issued)
    BY <2>1, IssuedNat DEF KnownLocal, Idle
  <2>3. \A a \in Attempt : ~Decided(a)
    BY <1>1 DEF Init, Decided, NoEnvelope
  <2> QED
    BY <1>1, <2>1, <2>2, <2>3, IssuedNat DEF Init, IssuedInv, NoRecovery
<1>2. ASSUME IInv, IssuedInv, [Next]_vars PROVE IssuedInv'
  <2>1. ASSUME NEW p \in Process, WriteJob(p)
        PROVE  IssuedInv'
    BY <1>2, <2>1, ReadExistingIssued, PlainIssued, PublishFailureIssued,
       PublishNothingIssued, RecordIssued DEF WriteJob
  <2>2. ASSUME NEW w \in Worker, WorkerStep(w)
        PROVE  IssuedInv'
    <3>0. w \in Process
      BY DEF Process
    <3>1. CASE Claim(w) \/ FindCompleted(w) \/ StoreBundle(w) \/ Close(w) \/ Complete(w)
      BY <1>2, <3>0, <3>1, PlainIssued
    <3>2. CASE Start(w) \/ Progress(w) \/ Raise(w) \/ TimeOut(w)
      BY <1>2, <3>0, <3>2, StartIssued, ProgressIssued, WriteFailureIssued
    <3>3. CASE BeginCompletion(w) \/ Announce(w) \/ Conclude(w) \/ Fail(w)
      BY <1>2, <3>0, <3>3, BeginCompletionIssued, AnnounceIssued, ConcludeIssued,
         FailIssued
    <3> QED
      BY <2>1, <2>2, <3>0, <3>1, <3>2, <3>3 DEF WorkerStep
  <2>3. ASSUME NEW q \in Request, RequestStep(q)
        PROVE  IssuedInv'
    <3>0. q \in Process
      BY DEF Process
    <3> QED
      BY <1>2, <2>1, <2>3, <3>0, AskRetryIssued, PlainIssued, WriteFailureIssued
         DEF RequestStep
  <2>4. CASE Recover \/ RecoveryStep \/ CrashRecovery
    BY <1>2, <2>4, RecoveryIssued
  <2>5. ASSUME NEW p \in Process, Crash(p)
        PROVE  IssuedInv'
    BY <1>2, <2>5, PlainIssued
  <2>6. CASE UNCHANGED vars
    BY <1>2, <2>6 DEF vars, IssuedInv, Decided
  <2> QED
    BY <1>2, <2>2, <2>3, <2>4, <2>5, <2>6 DEF Next
<1> QED
  BY <1>1, <1>2

\* StrandedOnlyAfterRetry: as long as no retry was granted, a job that reads as
\* active has a queue row that a worker or a recovery will take up, whatever
\* workers and recoveries do at the same time and wherever they die.
THEOREM RetryStrands == Spec => []StrandedOnlyAfterRetry
<1>1. SettleInv /\ IssuedInv => StrandedOnlyAfterRetry
  <2> SUFFICES ASSUME SettleInv, IssuedInv, issued = 0, View.state = "active"
               PROVE  queue \in {"pending", "processing"}
    BY DEF StrandedOnlyAfterRetry, NoStrandedAttempt
  <2>1. TypeOK /\ Attempt \subseteq Nat
    BY BoundAssumption DEF SettleInv, IInv, Attempt
  <2>2. pointer = 0 /\ \A a \in Attempt : Decided(a) => a = 0
    BY <2>1 DEF TypeOK, IssuedInv
  <2>3. \A a \in Attempt : ~Decided(a)
    BY <2>1, <2>2 DEF TypeOK, View, DocumentOf, Decided, Outcome
  <2> QED
    BY <2>1, <2>3 DEF SettleInv, RowSettledTruthfully, Decided, TypeOK
<1> QED
  BY <1>1, Invariant, SettleInvInductive, IssuedInvInductive, PTL DEF Spec

=============================================================================
