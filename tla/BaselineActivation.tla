------------------------- MODULE BaselineActivation -------------------------
(***************************************************************************)
(* The behavioral models of one scope (behavioral_model_repository.py): a  *)
(* baseline job persists a candidate and publishes its result, and a       *)
(* candidate becomes the active model by automatic policy or when an       *)
(* operator approves it.  Models, index, active pointer and results are    *)
(* objects of a shared store without transactions: every read and every    *)
(* write is one action.  _ACTIVATION_LOCK excludes the threads of one      *)
(* process only, so that a process here is one thread, and another process *)
(* does not wait for it.  A process may die between any two accesses; an   *)
(* access that raises ends the work at hand in the same way, but for the   *)
(* pointer's, which is rolled back.                                        *)
(***************************************************************************)
EXTENDS Integers, FiniteSets

CONSTANTS
    Process,    \* workers and API processes
    Job,        \* baseline jobs
    Automatic,  \* jobs that need no approval
    Unsuitable, \* jobs whose data do not suit a baseline
    MaxVersion, \* bound: versions
    MaxRequests \* bound: jobs processed and candidates approved

ASSUME JobAssumption ==
    /\ Automatic \subseteq Job /\ Unsuitable \subseteq Job
    /\ Automatic \cap Unsuitable = {}
ASSUME BoundAssumption == MaxVersion \in Nat \ {0} /\ MaxRequests \in Nat

\* A model is named after its version and its job.
Model == [job : Job, version : 1..MaxVersion]
NoModel == [job |-> "none", version |-> 0]
ASSUME NoJobAssumption == "none" \notin Job

VARIABLES
    model,    \* models/<model_id>: status, and the model that superseded it
    latest,   \* latest-candidate: the model persisted last
    index,    \* index: the models listed, and the latest version
    pointer,  \* active: the model selected
    result,   \* results/<job_id>: the baseline it is of, and the model it shows
    process,  \* what a process holds between two accesses
    selected, \* history: the models that the pointer has named
    doubt,    \* history: whether the pointer may name a model that is not active
    requests  \* jobs processed and candidates approved so far

store == <<model, latest, index, pointer, result>>
history == <<selected, doubt, requests>>
vars == <<store, process, history>>

Absent == [status |-> "absent", by |-> NoModel]
NoIndex == [latest |-> 0, models |-> {}]
NoResult == [baseline |-> NoModel, candidate |-> NoModel]
Idle == [phase |-> "idle", persists |-> FALSE, target |-> NoModel,
         before |-> Absent, active |-> NoModel, listed |-> NoIndex,
         read |-> NoResult, alone |-> TRUE]

Init ==
    /\ model = [m \in Model |-> Absent]
    /\ latest = NoModel
    /\ index = NoIndex
    /\ pointer = NoModel
    /\ result = [j \in Job |-> NoResult]
    /\ process = [p \in Process |-> Idle]
    /\ selected = {}
    /\ doubt = FALSE
    /\ requests = 0

\* Mutant: the version of the latest model, not one more.
MutantVersionReused == index.latest

\* next_model_version.
NextVersion == index.latest + 1

\* The process is in the part that _ACTIVATION_LOCK protects.
Inside(p) == process[p].phase \notin {"idle", "built"}

Overlaps(p) == \E q \in Process \ {p} : Inside(q)

\* The process goes to another phase, and whoever is inside is not alone.
Enter(p, local) ==
    process' = [q \in Process |->
        IF q = p THEN [local EXCEPT !.alone = ~Overlaps(p)]
        ELSE IF Inside(q) THEN [process[q] EXCEPT !.alone = FALSE]
        ELSE process[q]]

Go(p, from, to) ==
    /\ process[p].phase = from
    /\ process' = [process EXCEPT ![p] = [@ EXCEPT !.phase = to]]

----------------------------------------------------------------------------
\* build_behavioral_baseline has its model, whose version it takes from the
\* index as it is now, before the lock.
Build(p, j) ==
    /\ process[p].phase = "idle"
    /\ NextVersion <= MaxVersion
    /\ requests < MaxRequests
    /\ requests' = requests + 1
    /\ process' = [process EXCEPT ![p] =
           [Idle EXCEPT !.phase = "built", !.persists = TRUE,
                        !.target = [job |-> j, version |-> NextVersion]]]
    /\ UNCHANGED <<store, selected, doubt>>

\* persist_candidate: the model is written, over one of the same name.
WriteModel(p) ==
    LET m == process[p].target
    IN  /\ process[p].phase = "built"
        /\ Enter(p, [process[p] EXCEPT !.phase = "persisted"])
        /\ model' = [model EXCEPT ![m] =
               [status |-> IF m.job \in Unsuitable THEN "unsuitable"
                           ELSE "awaiting_approval",
                by |-> NoModel]]
        /\ doubt' = (doubt \/ Overlaps(p) \/ pointer = m)
        /\ UNCHANGED <<latest, index, pointer, result, selected, requests>>

WriteLatest(p) ==
    /\ Go(p, "persisted", "unlisted")
    /\ latest' = process[p].target
    /\ UNCHANGED <<model, index, pointer, result, history>>

\* The index is read, changed and written, by persist_candidate and again by
\* activate_candidate.
ReadIndex(p) ==
    LET next == IF process[p].phase = "unlisted" THEN "listing" ELSE "relisting"
    IN  /\ process[p].phase \in {"unlisted", "replaced"}
        /\ process' = [process EXCEPT ![p] =
               [@ EXCEPT !.phase = next, !.listed = index]]
        /\ UNCHANGED <<store, history>>

WriteIndex(p) ==
    LET m == process[p].target
        old == process[p].listed
        next == IF process[p].phase = "relisting" THEN "listed"
                ELSE IF m.job \in Automatic THEN "activating"
                ELSE "publishing"
    IN  /\ process[p].phase \in {"listing", "relisting"}
        /\ process' = [process EXCEPT ![p] =
               [@ EXCEPT !.phase = next, !.listed = NoIndex]]
        /\ index' = IF process[p].phase = "relisting" THEN old
                    ELSE [latest |-> IF m.version > old.latest THEN m.version
                                     ELSE old.latest,
                          models |-> old.models \cup {m}]
        /\ UNCHANGED <<model, latest, pointer, result, history>>

\* POST /baselines/candidates/{model_id}/approve.
Approve(p, m) ==
    /\ process[p].phase = "idle"
    /\ requests < MaxRequests
    /\ requests' = requests + 1
    /\ Enter(p, [Idle EXCEPT !.phase = "activating", !.target = m])
    /\ doubt' = (doubt \/ Overlaps(p))
    /\ UNCHANGED <<store, selected>>

\* activate_candidate: a candidate that is missing or not eligible is refused.
ReadCandidate(p) ==
    LET m == process[p].target
    IN  /\ process[p].phase = "activating"
        /\ process' = [process EXCEPT ![p] =
               IF model[m].status = "absent" \/ m.job \in Unsuitable THEN Idle
               ELSE [@ EXCEPT !.phase = "candidate", !.before = model[m]]]
        /\ UNCHANGED <<store, history>>

\* read_active_behavioral_model: the pointer, then the model that it names.
ReadPointer(p) ==
    /\ process[p].phase = "candidate"
    /\ process' = [process EXCEPT ![p] =
           [@ EXCEPT !.phase = "pointed", !.active = pointer]]
    /\ UNCHANGED <<store, history>>

ReadActive(p) ==
    LET m == process[p].active
        isActive == m # NoModel /\ model[m].status = "active"
    IN  /\ process[p].phase = "pointed"
        /\ process' = [process EXCEPT ![p] =
               [@ EXCEPT !.phase = "compared",
                         !.active = IF isActive THEN m ELSE NoModel]]
        /\ UNCHANGED <<store, history>>

\* Mutant: the previous model is superseded before the pointer is written.
MutantSupersedeFirst(p) ==
    /\ Go(p, "compared", "activated")
    /\ model' = [m \in Model |->
           IF m = process[p].target THEN [status |-> "active", by |-> NoModel]
           ELSE IF m = process[p].active
                THEN [status |-> "superseded", by |-> process[p].target]
                ELSE model[m]]
    /\ UNCHANGED <<latest, index, pointer, result, history>>

WriteActivated(p) ==
    /\ Go(p, "compared", "activated")
    /\ model' = [model EXCEPT ![process[p].target] =
           [status |-> "active", by |-> NoModel]]
    /\ UNCHANGED <<latest, index, pointer, result, history>>

\* The new model becomes the active one.
WritePointer(p) ==
    LET m == process[p].target
    IN  /\ process[p].phase = "activated"
        /\ process' = [process EXCEPT ![p] =
               [@ EXCEPT !.phase = "selected", !.before = Absent]]
        /\ pointer' = m
        /\ selected' = selected \cup {m}
        /\ doubt' = (doubt /\ ~process[p].alone)
        /\ UNCHANGED <<model, latest, index, result, requests>>

\* Mutant: the failure of the write is logged, and the activation goes on.
MutantFailureLogged(p) ==
    /\ Go(p, "activated", "selected")
    /\ UNCHANGED <<store, history>>

\* The write of the pointer raises, before or after it took effect.
PointerFails(p) ==
    LET m == process[p].target
    IN  /\ Go(p, "activated", "rolling")
        /\ \/ UNCHANGED <<pointer, selected, doubt>>
           \/ pointer' = m /\ selected' = selected \cup {m} /\ doubt' = TRUE
        /\ UNCHANGED <<model, latest, index, result, requests>>

\* Mutant: the model goes back to awaiting approval, whatever it was before.
MutantRollbackToCandidate(p) ==
    /\ process[p].phase = "rolling"
    /\ model' = [model EXCEPT ![process[p].target] =
           [status |-> "awaiting_approval", by |-> NoModel]]
    /\ process' = [process EXCEPT ![p] = Idle]
    /\ UNCHANGED <<latest, index, pointer, result, history>>

Rollback(p) ==
    /\ process[p].phase = "rolling"
    /\ model' = [model EXCEPT ![process[p].target] = process[p].before]
    /\ process' = [process EXCEPT ![p] = Idle]
    /\ UNCHANGED <<latest, index, pointer, result, history>>

\* There is a previous model to supersede.
Replaces(p) == process[p].active \notin {NoModel, process[p].target}

\* The previous model is superseded once the pointer names the new one.
Supersede(p) ==
    /\ process[p].phase = "selected"
    /\ process' = [process EXCEPT ![p] =
           IF Replaces(p) THEN [@ EXCEPT !.phase = "superseded"]
           ELSE [@ EXCEPT !.phase = "replaced", !.active = NoModel]]
    /\ model' = IF Replaces(p)
                THEN [model EXCEPT ![process[p].active] =
                         [status |-> "superseded", by |-> process[p].target]]
                ELSE model
    /\ UNCHANGED <<latest, index, pointer, result, history>>

\* The result of the previous model's job, then that of the new model's, is
\* read and made to show the model as it is now.
Shown(p) ==
    IF process[p].phase \in {"superseded", "amending"} THEN process[p].active
    ELSE process[p].target

\* Where the process goes when the result is as it should be.
Amended(p) ==
    IF process[p].phase \in {"superseded", "amending"}
    THEN [process[p] EXCEPT !.phase = "replaced", !.read = NoResult,
                            !.active = NoModel]
    ELSE IF process[p].persists
    THEN [process[p] EXCEPT !.phase = "publishing", !.read = NoResult]
    ELSE Idle

ReadResult(p) ==
    LET r == result[Shown(p).job]
        next == IF process[p].phase = "listed" THEN "showing" ELSE "amending"
    IN  /\ process[p].phase \in {"superseded", "listed"}
        /\ process' = [process EXCEPT ![p] =
               IF r = NoResult THEN Amended(p)
               ELSE [@ EXCEPT !.phase = next, !.read = r]]
        /\ UNCHANGED <<store, history>>

WriteResult(p) ==
    LET m == Shown(p)
    IN  /\ process[p].phase \in {"amending", "showing"}
        /\ process' = [process EXCEPT ![p] = Amended(p)]
        /\ result' = [result EXCEPT ![m.job] =
               [baseline |-> process[p].read.baseline, candidate |-> m]]
        /\ UNCHANGED <<model, latest, index, pointer, history>>

\* The job's own result, which verify_persisted_baseline then reads back.
Publish(p) ==
    LET m == process[p].target
    IN  /\ process[p].phase = "publishing"
        /\ process' = [process EXCEPT ![p] = Idle]
        /\ result' = [result EXCEPT ![m.job] =
               [baseline |-> m, candidate |-> m]]
        /\ UNCHANGED <<model, latest, index, pointer, history>>

\* The process dies, or an access raises and the job or the request fails.
GiveUp(p) ==
    /\ process[p].phase # "idle"
    /\ process' = [process EXCEPT ![p] = Idle]
    /\ UNCHANGED <<store, history>>

Persist(p) ==
    \/ \E j \in Job : Build(p, j)
    \/ WriteModel(p) \/ WriteLatest(p) \/ ReadIndex(p) \/ WriteIndex(p)
    \/ Publish(p)

Activate(p) ==
    \/ \E m \in Model : Approve(p, m)
    \/ ReadCandidate(p) \/ ReadPointer(p) \/ ReadActive(p)
    \/ WriteActivated(p) \/ WritePointer(p) \/ PointerFails(p) \/ Rollback(p)
    \/ Supersede(p) \/ ReadResult(p) \/ WriteResult(p)

Next == \E p \in Process : Persist(p) \/ Activate(p) \/ GiveUp(p)

Spec == Init /\ [][Next]_vars

----------------------------------------------------------------------------
(***************************************************************************)
(* Correctness.                                                            *)
(***************************************************************************)
Status == {"unsuitable", "awaiting_approval", "active", "superseded"}
Phase == {"idle", "built", "persisted", "unlisted", "listing", "activating",
          "candidate", "pointed", "compared", "activated", "rolling",
          "selected", "superseded", "amending", "replaced", "relisting",
          "listed", "showing", "publishing"}
AnyModel == Model \cup {NoModel}
ModelState == [status : Status, by : AnyModel] \cup {Absent}
IndexState == [latest : 0..MaxVersion, models : SUBSET Model]
ResultState == [baseline : Model, candidate : Model] \cup {NoResult}
ProcessState ==
    [phase : Phase, persists : BOOLEAN, target : AnyModel,
     before : ModelState, active : AnyModel, listed : IndexState,
     read : ResultState, alone : BOOLEAN]

\* Types and ranges of the state.
TypeOK ==
    /\ model \in [Model -> ModelState]
    /\ latest \in AnyModel
    /\ index \in IndexState
    /\ pointer \in AnyModel
    /\ result \in [Job -> ResultState]
    /\ process \in [Process -> ProcessState]
    /\ selected \subseteq Model
    /\ doubt \in BOOLEAN
    /\ requests \in 0..MaxRequests

\* "The new model and active pointer are durably written before a terminal
\* automatic-activation result is published": whatever fails, dies, is repeated
\* or overlaps, the result of an automatic job shows a model that the active
\* pointer has named.
PublishedAfterSelection ==
    \A j \in Automatic :
        result[j] # NoResult => result[j].candidate \in selected

\* "The previous model is superseded only after the new pointer exists": a
\* superseded model has been the active one, and so has its successor.
SupersededBySelected ==
    \A m \in Model : model[m].status = "superseded" =>
        /\ m \in selected
        /\ model[m].by \in selected \ {m}

\* "Readers never observe a pointer to an inactive model", unless two processes
\* were inside at once, a write of the pointer failed after it took effect, or
\* the model was persisted once more under its name; and then only until a
\* model is selected by a process that was alone.
ReaderFindsActive ==
    ~doubt /\ pointer # NoModel => model[pointer].status = "active"
=============================================================================
