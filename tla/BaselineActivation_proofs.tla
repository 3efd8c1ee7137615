---------------------- MODULE BaselineActivation_proofs ----------------------
(***************************************************************************)
(* Theorems about BaselineActivation, for any set of processes and jobs,   *)
(* any policies and any number of versions.                                *)
(***************************************************************************)
EXTENDS BaselineActivation, TLAPS

(***************************************************************************)
(* The invariant the proofs work with, in named parts.                     *)
(***************************************************************************)
Deciding == {"candidate", "pointed", "compared", "activated", "rolling"}
Selecting == {"selected", "superseded", "amending", "replaced", "relisting",
              "listed", "showing"}

\* What a process holds, whoever else is at work: the previous model it has
\* read was selected, its own model is once it has written the pointer, and the
\* record it would roll back to is one that the model could have.
Holds(p) ==
    LET local == process[p]
    IN  /\ local.phase # "idle" => local.target \in Model
        /\ local.phase \in {"amending", "showing"} => local.read # NoResult
        /\ local.active \in selected \cup {NoModel}
        /\ local.phase \in {"superseded", "amending"} => local.active # NoModel
        /\ local.phase \in Selecting => local.target \in selected
        /\ local.phase = "publishing" /\ local.target.job \in Automatic =>
               local.target \in selected
        /\ local.before.status = "superseded" =>
               /\ local.target \in selected
               /\ local.before.by \in selected \ {local.target}

AllHold == \A p \in Process : Holds(p)

PointerSelected == pointer \in selected \cup {NoModel}

\* What a process may rely on that has been alone since it entered.
Undisturbed(p) ==
    LET local == process[p]
    IN  Inside(p) /\ local.alone =>
            /\ \A q \in Process \ {p} : ~Inside(q)
            /\ local.phase = "activated" =>
                   model[local.target].status = "active"
            /\ local.phase = "selected" => pointer = local.target
            /\ ~doubt /\ local.phase \in Deciding /\ pointer = local.target =>
                   local.before.status = "active"

AloneUndisturbed == \A p \in Process : Undisturbed(p)

\* Without doubt, whoever is inside is alone.
DoubtCovers == ~doubt => \A p \in Process : Inside(p) => process[p].alone

SelectionInv ==
    /\ TypeOK /\ AllHold /\ PointerSelected
    /\ SupersededBySelected /\ PublishedAfterSelection

IInv == SelectionInv /\ AloneUndisturbed /\ DoubtCovers /\ ReaderFindsActive

-----------------------------------------------------------------------------
LEMMA Types ==
    /\ NoModel \notin Model /\ NoModel \in AnyModel /\ Model \subseteq AnyModel
    /\ Absent \in ModelState /\ NoIndex \in IndexState /\ NoResult \in ResultState
    /\ Idle \in ProcessState
    /\ \A j \in Job, v \in 1..MaxVersion : [job |-> j, version |-> v] \in Model
    /\ \A m \in Model : m.job \in Job /\ m.version \in 1..MaxVersion
<1>1. NoModel \notin Model
  BY NoJobAssumption DEF NoModel, Model
<1>2. Absent \in ModelState /\ NoIndex \in IndexState /\ NoResult \in ResultState
  BY BoundAssumption DEF Absent, ModelState, NoIndex, IndexState, NoResult, ResultState
<1>3. Idle \in ProcessState
  BY <1>2 DEF Idle, ProcessState, Phase, AnyModel
<1> QED
  BY <1>1, <1>2, <1>3 DEF AnyModel, Model

LEMMA InitInv == Init => IInv
<1> SUFFICES ASSUME Init PROVE IInv
  OBVIOUS
<1>1. TypeOK
  <2>1. model \in [Model -> ModelState] /\ result \in [Job -> ResultState]
        /\ process \in [Process -> ProcessState]
    BY Types DEF Init
  <2>2. requests \in 0..MaxRequests
    BY BoundAssumption DEF Init
  <2> QED
    BY <2>1, <2>2, Types DEF Init, TypeOK
<1>2. \A p \in Process : process[p] = Idle
  BY DEF Init
<1>3. AllHold /\ AloneUndisturbed /\ DoubtCovers
  BY <1>2 DEF AllHold, Holds, AloneUndisturbed, Undisturbed, DoubtCovers, Inside,
              Idle, Absent, Init, Selecting
<1>4. PointerSelected /\ SupersededBySelected /\ PublishedAfterSelection
      /\ ReaderFindsActive
  BY JobAssumption DEF Init, PointerSelected, SupersededBySelected, Absent,
       PublishedAfterSelection, ReaderFindsActive
<1> QED
  BY <1>1, <1>3, <1>4 DEF IInv, SelectionInv

-----------------------------------------------------------------------------
(***************************************************************************)
(* The part of the invariant that holds whether processes overlap or not.  *)
(***************************************************************************)

\* A step that gives one process a new local state.
LEMMA ProcessTyped ==
    ASSUME TypeOK, NEW p \in Process, NEW r \in ProcessState,
           process' = [process EXCEPT ![p] = r]
    PROVE  /\ process' \in [Process -> ProcessState]
           /\ process'[p] = r
           /\ \A q \in Process \ {p} : process'[q] = process[q]
BY DEF TypeOK

\* A step that leaves what a process relies on alone, as that of another does.
LEMMA HoldsKept ==
    ASSUME NEW q \in Process, Holds(q), process'[q] = process[q],
           selected \subseteq selected'
    PROVE  Holds(q)'
BY DEF Holds

LEMMA BuildSelection ==
    ASSUME SelectionInv, NEW p \in Process, NEW j \in Job, Build(p, j)
    PROVE  SelectionInv'
<1> USE DEF SelectionInv
<1> DEFINE m == [job |-> j, version |-> NextVersion]
           r == [Idle EXCEPT !.phase = "built", !.persists = TRUE, !.target = m]
<1>1. NextVersion \in 1..MaxVersion
  BY BoundAssumption DEF Build, NextVersion, TypeOK, IndexState
<1>2. m \in Model
  BY <1>1 DEF Model
<1>3. r \in ProcessState /\ r.phase = "built" /\ r.target = m
      /\ r.active = NoModel /\ r.before = Absent
  BY <1>2, Types DEF ProcessState, Phase, Idle
<1>4. process' = [process EXCEPT ![p] = r]
  BY DEF Build
<1> HIDE DEF r, m
<1>5. /\ process' \in [Process -> ProcessState] /\ process'[p] = r
      /\ \A q \in Process \ {p} : process'[q] = process[q]
  BY <1>3, <1>4, ProcessTyped
<1>6. TypeOK'
  BY <1>5, BoundAssumption DEF TypeOK, Build, store
<1>7. Holds(p)'
  BY <1>2, <1>3, <1>5 DEF Holds, Absent, Selecting
<1>8. AllHold'
  BY <1>5, <1>7, HoldsKept DEF AllHold, Build
<1> QED
  BY <1>6, <1>8 DEF Build, store, PointerSelected, SupersededBySelected,
                    PublishedAfterSelection

\* A step of one process that writes nothing.
LEMMA ReadStep ==
    ASSUME SelectionInv, NEW p \in Process, NEW r \in ProcessState,
           process' = [process EXCEPT ![p] = r], UNCHANGED <<store, history>>,
           Holds(p)'
    PROVE  SelectionInv'
<1>1. /\ process' \in [Process -> ProcessState]
      /\ \A q \in Process \ {p} : process'[q] = process[q]
  BY ProcessTyped DEF SelectionInv
<1>2. TypeOK'
  BY <1>1 DEF SelectionInv, TypeOK, store, history
<1>3. AllHold'
  BY <1>1, HoldsKept DEF SelectionInv, AllHold, history
<1> QED
  BY <1>2, <1>3 DEF SelectionInv, store, history, PointerSelected,
                    SupersededBySelected, PublishedAfterSelection

\* The local state of a process that has ended its work.
LEMMA IdleHolds ==
    ASSUME NEW p \in Process, process'[p] = Idle
    PROVE  Holds(p)'
BY DEF Holds, Idle, Absent, Selecting

LEMMA GiveUpSelection ==
    ASSUME SelectionInv, NEW p \in Process, GiveUp(p)
    PROVE  SelectionInv'
<1>1. process' = [process EXCEPT ![p] = Idle] /\ UNCHANGED <<store, history>>
  BY DEF GiveUp
<1>2. process'[p] = Idle
  BY <1>1 DEF SelectionInv, TypeOK
<1> QED
  BY <1>1, <1>2, Types, IdleHolds, ReadStep

\* The local state of a process whose result is as it should be.
LEMMA AmendedHolds ==
    ASSUME SelectionInv, NEW p \in Process,
           process[p].phase \in {"superseded", "amending", "listed", "showing"}
    PROVE  /\ Amended(p) \in ProcessState
           /\ process'[p] = Amended(p) /\ selected' = selected => Holds(p)'
<1> DEFINE local == process[p]
<1>0. local \in ProcessState /\ Holds(p)
  BY DEF SelectionInv, TypeOK, AllHold
<1>1. CASE local.phase \in {"superseded", "amending"}
  <2> DEFINE r == [local EXCEPT !.phase = "replaced", !.read = NoResult,
                                !.active = NoModel]
  <2>1. Amended(p) = r
    BY <1>1 DEF Amended
  <2>2. r \in ProcessState
    BY <1>0, Types DEF ProcessState, Phase
  <2>3. process'[p] = r /\ selected' = selected => Holds(p)'
    BY <1>0, <1>1 DEF Holds, Selecting, ProcessState
  <2> QED
    BY <2>1, <2>2, <2>3
<1>2. CASE local.phase \in {"listed", "showing"} /\ local.persists
  <2> DEFINE r == [local EXCEPT !.phase = "publishing", !.read = NoResult]
  <2>1. Amended(p) = r
    BY <1>2 DEF Amended
  <2>2. r \in ProcessState
    BY <1>0, Types DEF ProcessState, Phase
  <2>3. process'[p] = r /\ selected' = selected => Holds(p)'
    BY <1>0, <1>2 DEF Holds, Selecting, ProcessState
  <2> QED
    BY <2>1, <2>2, <2>3
<1>3. CASE local.phase \in {"listed", "showing"} /\ ~local.persists
  <2>1. Amended(p) = Idle
    BY <1>3 DEF Amended
  <2> QED
    BY <2>1, Types, IdleHolds
<1> QED
  BY <1>1, <1>2, <1>3

LEMMA ReadSelection ==
    ASSUME SelectionInv, NEW p \in Process,
           \/ ReadIndex(p) \/ ReadCandidate(p) \/ ReadPointer(p)
           \/ ReadActive(p) \/ ReadResult(p)
    PROVE  SelectionInv'
<1> DEFINE local == process[p]
<1>0. local \in ProcessState /\ UNCHANGED <<store, history>>
  BY DEF SelectionInv, TypeOK, ReadIndex, ReadCandidate, ReadPointer,
         ReadActive, ReadResult
<1>1. CASE ReadIndex(p)
  <2> DEFINE next == IF local.phase = "unlisted" THEN "listing" ELSE "relisting"
             r == [local EXCEPT !.phase = next, !.listed = index]
  <2>1. process' = [process EXCEPT ![p] = r]
    BY <1>1 DEF ReadIndex
  <2>2. r \in ProcessState
    BY <1>0 DEF ProcessState, Phase, SelectionInv, TypeOK
  <2>3. process'[p] = r
    BY <2>1 DEF SelectionInv, TypeOK
  <2>4. Holds(p)'
    BY <1>0, <1>1, <2>3
       DEF ReadIndex, SelectionInv, AllHold, Holds, history, Selecting, ProcessState
  <2> HIDE DEF r
  <2> QED
    BY <1>0, <2>1, <2>2, <2>4, ReadStep DEF r
<1>2. CASE ReadCandidate(p)
  <2> DEFINE m == local.target
             r == IF model[m].status = "absent" \/ m.job \in Unsuitable THEN Idle
                  ELSE [local EXCEPT !.phase = "candidate", !.before = model[m]]
  <2>1. process' = [process EXCEPT ![p] = r]
    BY <1>2 DEF ReadCandidate
  <2>2. m \in Model /\ model[m] \in ModelState
    BY <1>2 DEF ReadCandidate, SelectionInv, AllHold, Holds, TypeOK
  <2>3. r \in ProcessState
    BY <1>0, <2>2, Types DEF ProcessState, Phase
  <2>4. process'[p] = r
    BY <2>1 DEF SelectionInv, TypeOK
  <2>5. CASE r = Idle
    <3>1. Holds(p)'
      BY <2>4, <2>5, IdleHolds
    <3> QED
      BY <1>0, <2>1, <2>3, <3>1, ReadStep
  <2>6. CASE r = [local EXCEPT !.phase = "candidate", !.before = model[m]]
    <3>1. /\ process'[p].phase = "candidate" /\ process'[p].target = m
          /\ process'[p].active = local.active /\ process'[p].before = model[m]
      BY <1>0, <2>4, <2>6 DEF ProcessState
    <3>2. Holds(p)'
      BY <1>0, <2>2, <3>1
         DEF SelectionInv, AllHold, Holds, history, Selecting, SupersededBySelected
    <3> HIDE DEF r
    <3> QED
      BY <1>0, <2>1, <2>3, <3>2, ReadStep
  <2> QED
    BY <2>5, <2>6
<1>3. CASE ReadPointer(p)
  <2> DEFINE r == [local EXCEPT !.phase = "pointed", !.active = pointer]
  <2>1. process' = [process EXCEPT ![p] = r]
    BY <1>3 DEF ReadPointer
  <2>2. r \in ProcessState
    BY <1>0 DEF ProcessState, Phase, SelectionInv, TypeOK
  <2>3. process'[p] = r
    BY <2>1 DEF SelectionInv, TypeOK
  <2>4. Holds(p)'
    BY <1>0, <1>3, <2>3
       DEF ReadPointer, SelectionInv, AllHold, Holds, history, Selecting,
           ProcessState, PointerSelected
  <2> HIDE DEF r
  <2> QED
    BY <1>0, <2>1, <2>2, <2>4, ReadStep
<1>4. CASE ReadActive(p)
  <2>1. PICK found \in {NoModel, local.active} :
            process' = [process EXCEPT ![p] =
                [local EXCEPT !.phase = "compared", !.active = found]]
    BY <1>4 DEF ReadActive
  <2> DEFINE r == [local EXCEPT !.phase = "compared", !.active = found]
  <2>2. r \in ProcessState
    BY <1>0 DEF ProcessState, Phase, AnyModel
  <2>3. process'[p] = r
    BY <2>1 DEF SelectionInv, TypeOK
  <2>4. Holds(p)'
    BY <1>0, <1>4, <2>3
       DEF ReadActive, SelectionInv, AllHold, Holds, history, Selecting, ProcessState
  <2> HIDE DEF r
  <2> QED
    BY <1>0, <2>1, <2>2, <2>4, ReadStep DEF r
<1>5. CASE ReadResult(p)
  <2> DEFINE found == result[Shown(p).job]
             next == IF local.phase = "listed" THEN "showing" ELSE "amending"
             r == IF found = NoResult THEN Amended(p)
                  ELSE [local EXCEPT !.phase = next, !.read = found]
  <2>1. process' = [process EXCEPT ![p] = r]
    BY <1>5 DEF ReadResult
  <2>2. process'[p] = r
    BY <2>1 DEF SelectionInv, TypeOK
  <2>3. CASE found = NoResult
    BY <1>0, <1>5, <2>1, <2>2, <2>3, AmendedHolds, ReadStep DEF ReadResult, history
  <2>4. CASE found # NoResult
    <3>1. Shown(p) \in Model
      BY <1>0, <1>5 DEF ReadResult, Shown, SelectionInv, AllHold, Holds,
                        ProcessState, AnyModel
    <3>2. found \in ResultState
      BY <3>1, Types DEF SelectionInv, TypeOK
    <3>3. r \in ProcessState
      BY <1>0, <2>4, <3>2 DEF ProcessState, Phase
    <3>4. Holds(p)'
      BY <1>0, <1>5, <2>2, <2>4
         DEF ReadResult, SelectionInv, AllHold, Holds, history, Selecting, ProcessState
    <3> HIDE DEF r
    <3> QED
      BY <1>0, <2>1, <3>3, <3>4, ReadStep
  <2> QED
    BY <2>3, <2>4
<1> QED
  BY <1>1, <1>2, <1>3, <1>4, <1>5

\* Entering changes others only in that they are not alone any more.
LEMMA EnterEffect ==
    ASSUME TypeOK, NEW p \in Process, NEW r \in ProcessState, Enter(p, r)
    PROVE  /\ process' \in [Process -> ProcessState]
           /\ process'[p] = [r EXCEPT !.alone = ~Overlaps(p)]
           /\ \A q \in Process \ {p} :
                process'[q] = IF Inside(q) THEN [process[q] EXCEPT !.alone = FALSE]
                              ELSE process[q]
<1>1. PICK b \in BOOLEAN : b = ~Overlaps(p)
  BY DEF Overlaps
<1>2. process' = [q \in Process |->
            IF q = p THEN [r EXCEPT !.alone = b]
            ELSE IF Inside(q) THEN [process[q] EXCEPT !.alone = FALSE]
            ELSE process[q]]
  BY <1>1 DEF Enter
<1>3. [r EXCEPT !.alone = b] \in ProcessState
  BY <1>1 DEF ProcessState
<1>4. \A q \in Process : [process[q] EXCEPT !.alone = FALSE] \in ProcessState
  BY DEF TypeOK, ProcessState
<1>5. \A q \in Process : process[q] \in ProcessState
  BY DEF TypeOK
<1> QED
  BY <1>1, <1>2, <1>3, <1>4, <1>5

LEMMA EnteredHold ==
    ASSUME SelectionInv, NEW p \in Process, NEW r \in ProcessState, Enter(p, r),
           selected' = selected
    PROVE  \A q \in Process \ {p} : Holds(q)'
<1> SUFFICES ASSUME NEW q \in Process \ {p} PROVE Holds(q)'
  OBVIOUS
<1>1. process'[q] = [process[q] EXCEPT !.alone = FALSE] \/ process'[q] = process[q]
  BY EnterEffect DEF SelectionInv
<1>2. process[q] \in ProcessState /\ Holds(q)
  BY DEF SelectionInv, TypeOK, AllHold
<1> QED
  BY <1>1, <1>2 DEF Holds, ProcessState

LEMMA ApproveSelection ==
    ASSUME SelectionInv, NEW p \in Process, NEW m \in Model, Approve(p, m)
    PROVE  SelectionInv'
<1> DEFINE r == [Idle EXCEPT !.phase = "activating", !.target = m]
<1>1. r \in ProcessState /\ r.phase = "activating" /\ r.target = m
      /\ r.active = NoModel /\ r.before = Absent
  BY Types DEF ProcessState, Phase, Idle
<1>2. Enter(p, r) /\ UNCHANGED <<store, selected>>
      /\ requests < MaxRequests /\ requests' = requests + 1
  BY DEF Approve
<1>3. doubt' \in BOOLEAN
  BY DEF Approve, Overlaps, SelectionInv, TypeOK
<1> HIDE DEF r
<1>4. process' \in [Process -> ProcessState]
      /\ process'[p] = [r EXCEPT !.alone = ~Overlaps(p)]
  BY <1>1, <1>2, EnterEffect DEF SelectionInv
<1>5. TypeOK'
  BY <1>2, <1>3, <1>4, BoundAssumption DEF SelectionInv, TypeOK, store
<1>6. Holds(p)'
  BY <1>1, <1>4 DEF Holds, Absent, Selecting, ProcessState
<1>7. AllHold'
  BY <1>1, <1>2, <1>6, EnteredHold DEF AllHold
<1> QED
  BY <1>2, <1>5, <1>7 DEF SelectionInv, store, PointerSelected,
       SupersededBySelected, PublishedAfterSelection

LEMMA WriteModelSelection ==
    ASSUME SelectionInv, NEW p \in Process, WriteModel(p)
    PROVE  SelectionInv'
<1> DEFINE local == process[p]
           m == local.target
           r == [local EXCEPT !.phase = "persisted"]
<1>1. local \in ProcessState /\ Holds(p) /\ local.phase = "built" /\ m \in Model
  BY DEF SelectionInv, TypeOK, AllHold, Holds, WriteModel
<1>2. r \in ProcessState
  BY <1>1 DEF ProcessState, Phase
<1>3. /\ Enter(p, r)
      /\ UNCHANGED <<latest, index, pointer, result, selected, requests>>
  BY DEF WriteModel
<1>4. doubt' \in BOOLEAN
  BY DEF WriteModel, Overlaps, SelectionInv, TypeOK
<1>5. PICK new \in {"unsuitable", "awaiting_approval"} :
        model' = [model EXCEPT ![m] = [status |-> new, by |-> NoModel]]
  BY DEF WriteModel
<1>6. process' \in [Process -> ProcessState]
      /\ process'[p] = [r EXCEPT !.alone = ~Overlaps(p)]
  BY <1>2, <1>3, EnterEffect DEF SelectionInv
<1>7. TypeOK'
  <2>1. [status |-> new, by |-> NoModel] \in ModelState
    BY Types DEF ModelState, Status
  <2>2. model' \in [Model -> ModelState]
    BY <1>1, <1>5, <2>1 DEF SelectionInv, TypeOK
  <2> QED
    BY <1>3, <1>4, <1>6, <2>2 DEF SelectionInv, TypeOK
<1>8. Holds(p)'
  BY <1>1, <1>3, <1>6 DEF Holds, Selecting, ProcessState
<1>9. AllHold'
  BY <1>2, <1>3, <1>8, EnteredHold DEF AllHold
<1>10. SupersededBySelected'
  BY <1>1, <1>3, <1>5 DEF SelectionInv, SupersededBySelected, TypeOK
<1> QED
  BY <1>3, <1>7, <1>9, <1>10 DEF SelectionInv, PointerSelected,
       PublishedAfterSelection

\* A step of one process that writes the store.
LEMMA WriteStep ==
    ASSUME SelectionInv, NEW p \in Process, NEW r \in ProcessState,
           process' = [process EXCEPT ![p] = r], Holds(p)',
           selected \subseteq selected'
    PROVE  /\ process' \in [Process -> ProcessState] /\ process'[p] = r
           /\ AllHold'
<1>1. /\ process' \in [Process -> ProcessState] /\ process'[p] = r
      /\ \A q \in Process \ {p} : process'[q] = process[q]
  BY ProcessTyped DEF SelectionInv
<1>2. AllHold'
  BY <1>1, HoldsKept DEF SelectionInv, AllHold
<1> QED
  BY <1>1, <1>2

LEMMA WriteLatestSelection ==
    ASSUME SelectionInv, NEW p \in Process, WriteLatest(p)
    PROVE  SelectionInv'
<1> DEFINE local == process[p]
           r == [local EXCEPT !.phase = "unlisted"]
<1>1. local \in ProcessState /\ Holds(p) /\ local.phase = "persisted"
  BY DEF SelectionInv, TypeOK, AllHold, WriteLatest, Go
<1>2. /\ process' = [process EXCEPT ![p] = r] /\ latest' = local.target
      /\ UNCHANGED <<model, index, pointer, result, history>>
  BY DEF WriteLatest, Go
<1>3. r \in ProcessState
  BY <1>1 DEF ProcessState, Phase
<1>4. process'[p] = r
  BY <1>2 DEF SelectionInv, TypeOK
<1>5. Holds(p)'
  BY <1>1, <1>2, <1>4 DEF Holds, history, Selecting, ProcessState
<1>6. latest' \in AnyModel
  BY <1>1, <1>2 DEF ProcessState
<1> HIDE DEF r
<1>7. process' \in [Process -> ProcessState] /\ AllHold'
  BY <1>2, <1>3, <1>5, WriteStep DEF history
<1>8. TypeOK'
  BY <1>2, <1>6, <1>7 DEF SelectionInv, TypeOK, history
<1> QED
  BY <1>2, <1>7, <1>8 DEF SelectionInv, history, PointerSelected,
       SupersededBySelected, PublishedAfterSelection

LEMMA WriteIndexSelection ==
    ASSUME SelectionInv, NEW p \in Process, WriteIndex(p)
    PROVE  SelectionInv'
<1> DEFINE local == process[p]
           old == local.listed
           m == local.target
<1>1. local \in ProcessState /\ Holds(p) /\ m \in Model /\ old \in IndexState
      /\ local.phase \in {"listing", "relisting"}
  BY DEF SelectionInv, TypeOK, AllHold, Holds, WriteIndex, ProcessState
<1>2. UNCHANGED <<model, latest, pointer, result, history>>
  BY DEF WriteIndex
<1>3. PICK next \in {"activating", "publishing", "listed"} :
        /\ process' = [process EXCEPT ![p] =
               [local EXCEPT !.phase = next, !.listed = NoIndex]]
        /\ next = "publishing" => m.job \notin Automatic
        /\ next = "listed" => local.phase = "relisting"
  BY DEF WriteIndex
<1> DEFINE r == [local EXCEPT !.phase = next, !.listed = NoIndex]
<1>4. r \in ProcessState
  BY <1>1, Types DEF ProcessState, Phase
<1>5. process'[p] = r
  BY <1>3 DEF SelectionInv, TypeOK
<1>6. Holds(p)'
  BY <1>1, <1>2, <1>3, <1>5 DEF Holds, history, Selecting, ProcessState
<1>7. index' \in IndexState
  <2>1. CASE local.phase = "relisting"
    BY <1>1, <2>1 DEF WriteIndex
  <2>2. CASE local.phase = "listing"
    <3>1. PICK n \in {m.version, old.latest} :
            index' = [latest |-> n, models |-> old.models \cup {m}]
      BY <2>2 DEF WriteIndex
    <3>2. m.version \in 0..MaxVersion /\ old.latest \in 0..MaxVersion
          /\ old.models \subseteq Model
      BY <1>1, Types, BoundAssumption DEF IndexState
    <3> QED
      BY <1>1, <3>1, <3>2 DEF IndexState
  <2> QED
    BY <1>1, <2>1, <2>2
<1> HIDE DEF r
<1>8. process' \in [Process -> ProcessState] /\ AllHold'
  BY <1>2, <1>3, <1>4, <1>6, WriteStep DEF history, r
<1>9. TypeOK'
  BY <1>2, <1>7, <1>8 DEF SelectionInv, TypeOK, history
<1> QED
  BY <1>2, <1>8, <1>9 DEF SelectionInv, history, PointerSelected,
       SupersededBySelected, PublishedAfterSelection

LEMMA WriteActivatedSelection ==
    ASSUME SelectionInv, NEW p \in Process, WriteActivated(p)
    PROVE  SelectionInv'
<1> DEFINE local == process[p]
           m == local.target
           r == [local EXCEPT !.phase = "activated"]
<1>1. local \in ProcessState /\ Holds(p) /\ m \in Model /\ local.phase = "compared"
  BY DEF SelectionInv, TypeOK, AllHold, Holds, WriteActivated, Go
<1>2. /\ process' = [process EXCEPT ![p] = r]
      /\ model' = [model EXCEPT ![m] = [status |-> "active", by |-> NoModel]]
      /\ UNCHANGED <<latest, index, pointer, result, history>>
  BY DEF WriteActivated, Go
<1>3. r \in ProcessState
  BY <1>1 DEF ProcessState, Phase
<1>4. process'[p] = r
  BY <1>2 DEF SelectionInv, TypeOK
<1>5. Holds(p)'
  BY <1>1, <1>2, <1>4 DEF Holds, history, Selecting, ProcessState
<1>6. model' \in [Model -> ModelState]
  <2>1. [status |-> "active", by |-> NoModel] \in ModelState
    BY Types DEF ModelState, Status
  <2> QED
    BY <1>1, <1>2, <2>1 DEF SelectionInv, TypeOK
<1> HIDE DEF r
<1>7. process' \in [Process -> ProcessState] /\ AllHold'
  BY <1>2, <1>3, <1>5, WriteStep DEF history
<1>8. TypeOK'
  BY <1>2, <1>6, <1>7 DEF SelectionInv, TypeOK, history
<1>9. SupersededBySelected'
  BY <1>1, <1>2 DEF SelectionInv, SupersededBySelected, TypeOK, history
<1> QED
  BY <1>2, <1>7, <1>8, <1>9 DEF SelectionInv, history, PointerSelected,
       PublishedAfterSelection

LEMMA WritePointerSelection ==
    ASSUME SelectionInv, NEW p \in Process, WritePointer(p)
    PROVE  SelectionInv'
<1> DEFINE local == process[p]
           m == local.target
           r == [local EXCEPT !.phase = "selected", !.before = Absent]
<1>1. local \in ProcessState /\ Holds(p) /\ m \in Model /\ local.phase = "activated"
  BY DEF SelectionInv, TypeOK, AllHold, Holds, WritePointer
<1>2. /\ process' = [process EXCEPT ![p] = r]
      /\ pointer' = m /\ selected' = selected \cup {m}
      /\ UNCHANGED <<model, latest, index, result, requests>>
  BY DEF WritePointer
<1>3. doubt' \in BOOLEAN
  BY DEF WritePointer, SelectionInv, TypeOK
<1>4. r \in ProcessState
  BY <1>1, Types DEF ProcessState, Phase
<1>5. process'[p] = r
  BY <1>2 DEF SelectionInv, TypeOK
<1>6. Holds(p)'
  BY <1>1, <1>2, <1>5 DEF Holds, Selecting, Absent, ProcessState
<1> HIDE DEF r
<1>7. process' \in [Process -> ProcessState] /\ AllHold'
  BY <1>2, <1>4, <1>6, WriteStep
<1>8. TypeOK'
  BY <1>1, <1>2, <1>3, <1>7, Types DEF SelectionInv, TypeOK
<1> QED
  BY <1>2, <1>7, <1>8 DEF SelectionInv, PointerSelected,
       SupersededBySelected, PublishedAfterSelection

LEMMA PointerFailsSelection ==
    ASSUME SelectionInv, NEW p \in Process, PointerFails(p)
    PROVE  SelectionInv'
<1> DEFINE local == process[p]
           m == local.target
           r == [local EXCEPT !.phase = "rolling"]
<1>1. local \in ProcessState /\ Holds(p) /\ m \in Model /\ local.phase = "activated"
  BY DEF SelectionInv, TypeOK, AllHold, Holds, PointerFails, Go
<1>2. /\ process' = [process EXCEPT ![p] = r]
      /\ UNCHANGED <<model, latest, index, result, requests>>
      /\ \/ UNCHANGED <<pointer, selected, doubt>>
         \/ pointer' = m /\ selected' = selected \cup {m} /\ doubt' = TRUE
  BY DEF PointerFails, Go
<1>3. r \in ProcessState
  BY <1>1 DEF ProcessState, Phase
<1>4. process'[p] = r
  BY <1>2 DEF SelectionInv, TypeOK
<1>5. Holds(p)'
  BY <1>1, <1>2, <1>4 DEF Holds, Selecting, ProcessState
<1> HIDE DEF r
<1>6. process' \in [Process -> ProcessState] /\ AllHold'
  BY <1>2, <1>3, <1>5, WriteStep
<1>7. TypeOK'
  BY <1>1, <1>2, <1>6, Types DEF SelectionInv, TypeOK
<1> QED
  BY <1>2, <1>6, <1>7 DEF SelectionInv, PointerSelected,
       SupersededBySelected, PublishedAfterSelection

LEMMA RollbackSelection ==
    ASSUME SelectionInv, NEW p \in Process, Rollback(p)
    PROVE  SelectionInv'
<1> DEFINE local == process[p]
           m == local.target
<1>1. local \in ProcessState /\ Holds(p) /\ m \in Model /\ local.before \in ModelState
  BY DEF SelectionInv, TypeOK, AllHold, Holds, Rollback, ProcessState
<1>2. /\ process' = [process EXCEPT ![p] = Idle]
      /\ model' = [model EXCEPT ![m] = local.before]
      /\ UNCHANGED <<latest, index, pointer, result, history>>
  BY DEF Rollback
<1>3. process'[p] = Idle
  BY <1>2 DEF SelectionInv, TypeOK
<1>4. process' \in [Process -> ProcessState] /\ AllHold'
  BY <1>2, <1>3, Types, IdleHolds, WriteStep DEF history
<1>5. model' \in [Model -> ModelState]
  BY <1>1, <1>2 DEF SelectionInv, TypeOK
<1>6. TypeOK'
  BY <1>2, <1>4, <1>5 DEF SelectionInv, TypeOK, history
<1>7. SupersededBySelected'
  BY <1>1, <1>2 DEF SelectionInv, SupersededBySelected, TypeOK, history, Holds
<1> QED
  BY <1>2, <1>4, <1>6, <1>7 DEF SelectionInv, history, PointerSelected,
       PublishedAfterSelection

LEMMA SupersedeSelection ==
    ASSUME SelectionInv, NEW p \in Process, Supersede(p)
    PROVE  SelectionInv'
<1> DEFINE local == process[p]
           m == local.target
           old == local.active
<1>1. local \in ProcessState /\ Holds(p) /\ local.phase = "selected"
      /\ m \in selected /\ old \in selected \cup {NoModel} /\ m \in Model
  BY DEF SelectionInv, TypeOK, AllHold, Holds, Supersede, Selecting
<1>2. UNCHANGED <<latest, index, pointer, result, history>>
  BY DEF Supersede
<1>3. CASE Replaces(p)
  <2> DEFINE r == [local EXCEPT !.phase = "superseded"]
             s == [status |-> "superseded", by |-> m]
  <2>1. /\ process' = [process EXCEPT ![p] = r]
        /\ model' = [model EXCEPT ![old] = s]
        /\ old \in selected \ {m} /\ old # NoModel
    BY <1>1, <1>3 DEF Supersede, Replaces
  <2>2. r \in ProcessState
    BY <1>1 DEF ProcessState, Phase
  <2>3. process'[p] = r
    BY <2>1 DEF SelectionInv, TypeOK
  <2>4. Holds(p)'
    BY <1>1, <1>2, <2>1, <2>3 DEF Holds, history, Selecting, ProcessState
  <2>5. old \in Model /\ s \in ModelState
    BY <1>1, <2>1, Types DEF SelectionInv, TypeOK, ModelState, Status, AnyModel
  <2>6. model' \in [Model -> ModelState]
    BY <2>1, <2>5 DEF SelectionInv, TypeOK
  <2>7. SupersededBySelected'
    BY <1>1, <1>2, <2>1, <2>5
       DEF SelectionInv, SupersededBySelected, TypeOK, history
  <2> HIDE DEF r, s
  <2>8. process' \in [Process -> ProcessState] /\ AllHold'
    BY <1>2, <2>1, <2>2, <2>4, WriteStep DEF history
  <2>9. TypeOK'
    BY <1>2, <2>6, <2>8 DEF SelectionInv, TypeOK, history
  <2> QED
    BY <1>2, <2>7, <2>8, <2>9 DEF SelectionInv, history, PointerSelected,
         PublishedAfterSelection
<1>4. CASE ~Replaces(p)
  <2> DEFINE r == [local EXCEPT !.phase = "replaced", !.active = NoModel]
  <2>1. process' = [process EXCEPT ![p] = r] /\ model' = model
    BY <1>4 DEF Supersede
  <2>2. r \in ProcessState
    BY <1>1, Types DEF ProcessState, Phase
  <2>3. process'[p] = r
    BY <2>1 DEF SelectionInv, TypeOK
  <2>4. Holds(p)'
    BY <1>1, <1>2, <2>3 DEF Holds, history, Selecting, ProcessState
  <2> HIDE DEF r
  <2> QED
    BY <1>2, <2>1, <2>2, <2>4, ReadStep DEF store
<1> QED
  BY <1>3, <1>4

LEMMA WriteResultSelection ==
    ASSUME SelectionInv, NEW p \in Process, WriteResult(p)
    PROVE  SelectionInv'
<1> DEFINE local == process[p]
           m == Shown(p)
           new == [baseline |-> local.read.baseline, candidate |-> m]
<1>1. /\ local \in ProcessState /\ Holds(p)
      /\ local.phase \in {"amending", "showing"} /\ local.read # NoResult
  BY DEF SelectionInv, TypeOK, AllHold, Holds, WriteResult
<1>2. m \in selected /\ m \in Model
  <2>1. CASE local.phase = "amending"
    <3>1. m = local.active /\ local.active \in selected
      BY <1>1, <2>1 DEF Shown, Holds
    <3> QED
      BY <3>1 DEF SelectionInv, TypeOK
  <2>2. CASE local.phase = "showing"
    <3>1. m = local.target /\ local.target \in selected
      BY <1>1, <2>2 DEF Shown, Holds, Selecting
    <3> QED
      BY <3>1 DEF SelectionInv, TypeOK
  <2> QED
    BY <1>1, <2>1, <2>2
<1>3. /\ process' = [process EXCEPT ![p] = Amended(p)]
      /\ result' = [result EXCEPT ![m.job] = new]
      /\ UNCHANGED <<model, latest, index, pointer, history>>
  BY DEF WriteResult
<1>4. process'[p] = Amended(p)
  BY <1>3 DEF SelectionInv, TypeOK
<1>5. Amended(p) \in ProcessState /\ Holds(p)'
  BY <1>1, <1>3, <1>4, AmendedHolds DEF history
<1>6. process' \in [Process -> ProcessState] /\ AllHold'
  BY <1>3, <1>5, WriteStep DEF history
<1>7. new \in ResultState
  BY <1>1, <1>2 DEF ProcessState, ResultState
<1> HIDE DEF new
<1>8. result' \in [Job -> ResultState]
  BY <1>3, <1>7 DEF SelectionInv, TypeOK
<1>9. TypeOK'
  BY <1>3, <1>6, <1>8 DEF SelectionInv, TypeOK, history
<1>10. PublishedAfterSelection'
  BY <1>2, <1>3, JobAssumption
     DEF SelectionInv, PublishedAfterSelection, TypeOK, history, new
<1> QED
  BY <1>3, <1>6, <1>9, <1>10 DEF SelectionInv, history, PointerSelected,
       SupersededBySelected

LEMMA PublishSelection ==
    ASSUME SelectionInv, NEW p \in Process, Publish(p)
    PROVE  SelectionInv'
<1> DEFINE m == process[p].target
           new == [baseline |-> m, candidate |-> m]
<1>1. m \in Model /\ (m.job \in Automatic => m \in selected)
  BY DEF SelectionInv, TypeOK, AllHold, Holds, Publish
<1>2. /\ process' = [process EXCEPT ![p] = Idle]
      /\ result' = [result EXCEPT ![m.job] = new]
      /\ UNCHANGED <<model, latest, index, pointer, history>>
  BY DEF Publish
<1>3. process'[p] = Idle
  BY <1>2 DEF SelectionInv, TypeOK
<1>4. process' \in [Process -> ProcessState] /\ AllHold'
  BY <1>2, <1>3, Types, IdleHolds, WriteStep DEF history
<1>5. new \in ResultState
  BY <1>1 DEF ResultState
<1> HIDE DEF new
<1>6. TypeOK'
  BY <1>2, <1>4, <1>5 DEF SelectionInv, TypeOK, history
<1>7. PublishedAfterSelection'
  BY <1>1, <1>2, JobAssumption
     DEF SelectionInv, PublishedAfterSelection, TypeOK, history, new
<1> QED
  BY <1>2, <1>4, <1>6, <1>7 DEF SelectionInv, history, PointerSelected,
       SupersededBySelected

LEMMA SelectionStep == SelectionInv /\ [Next]_vars => SelectionInv'
<1> SUFFICES ASSUME SelectionInv, [Next]_vars PROVE SelectionInv'
  OBVIOUS
<1>1. ASSUME NEW p \in Process, Persist(p) PROVE SelectionInv'
  BY <1>1, BuildSelection, WriteModelSelection, WriteLatestSelection,
     ReadSelection, WriteIndexSelection, PublishSelection DEF Persist
<1>2. ASSUME NEW p \in Process, Activate(p) PROVE SelectionInv'
  BY <1>2, ApproveSelection, ReadSelection, WriteActivatedSelection,
     WritePointerSelection, PointerFailsSelection, RollbackSelection,
     SupersedeSelection, WriteResultSelection DEF Activate
<1>3. CASE UNCHANGED vars
  BY <1>3 DEF vars, store, history, SelectionInv, TypeOK, AllHold, Holds,
       PointerSelected, SupersededBySelected, PublishedAfterSelection
<1> QED
  BY <1>1, <1>2, <1>3, GiveUpSelection DEF Next

-----------------------------------------------------------------------------
(***************************************************************************)
(* What readers find: a process that has been alone since it entered knows *)
(* the pointer and its model, and without doubt there is no other inside.  *)
(***************************************************************************)
ReaderInv == AloneUndisturbed /\ DoubtCovers /\ ReaderFindsActive

\* A step of a process that is inside, and that nobody relies on but itself.
LEMMA InsideStep ==
    ASSUME TypeOK, AloneUndisturbed, NEW p \in Process, Inside(p),
           NEW r \in ProcessState, process' = [process EXCEPT ![p] = r],
           r.phase = "idle" \/ r.alone = process[p].alone,
           r.phase # "idle" /\ r.alone =>
               /\ r.phase = "activated" => model'[r.target].status = "active"
               /\ r.phase = "selected" => pointer' = r.target
               /\ ~doubt' /\ r.phase \in Deciding /\ pointer' = r.target =>
                      r.before.status = "active"
    PROVE  AloneUndisturbed'
<1>1. process'[p] = r /\ \A q \in Process \ {p} : process'[q] = process[q]
  BY DEF TypeOK
<1>2. ASSUME NEW q \in Process \ {p}, Inside(q)', process'[q].alone PROVE FALSE
  <2>1. Inside(q) /\ process[q].alone
    BY <1>1, <1>2 DEF Inside
  <2> QED
    BY <2>1 DEF AloneUndisturbed, Undisturbed
<1>3. ASSUME Inside(p)', process'[p].alone PROVE \A q \in Process \ {p} : ~Inside(q)'
  <2>1. process[p].alone
    BY <1>1, <1>3 DEF Inside
  <2>2. \A q \in Process \ {p} : ~Inside(q)
    BY <2>1 DEF AloneUndisturbed, Undisturbed
  <2> QED
    BY <1>1, <2>2 DEF Inside
<1>4. Undisturbed(p)'
  BY <1>1, <1>3 DEF Undisturbed, Inside
<1>5. \A q \in Process \ {p} : Undisturbed(q)'
  BY <1>2 DEF Undisturbed
<1> QED
  BY <1>4, <1>5 DEF AloneUndisturbed

LEMMA DoubtStep ==
    ASSUME TypeOK, DoubtCovers, NEW p \in Process, Inside(p),
           NEW r \in ProcessState, process' = [process EXCEPT ![p] = r],
           r.phase = "idle" \/ r.alone = process[p].alone, doubt' = doubt
    PROVE  DoubtCovers'
<1>1. process'[p] = r /\ \A q \in Process \ {p} : process'[q] = process[q]
  BY DEF TypeOK
<1> QED
  BY <1>1 DEF DoubtCovers, Inside

\* A step that leaves the models and the pointer as they are, of a process that
\* goes on as it is or ends its work.
LEMMA QuietStep ==
    ASSUME TypeOK, ReaderInv, NEW p \in Process, Inside(p),
           NEW r \in ProcessState, process' = [process EXCEPT ![p] = r],
           UNCHANGED <<model, pointer, doubt>>,
           \/ r.phase = "idle"
           \/ /\ r.alone = process[p].alone /\ r.target = process[p].target
              /\ r.before = process[p].before
              /\ r.phase \notin {"activated", "selected"}
              /\ r.phase \in Deciding => process[p].phase \in Deciding
    PROVE  ReaderInv'
<1>1. Undisturbed(p)
  BY DEF ReaderInv, AloneUndisturbed
<1>2. AloneUndisturbed'
  BY <1>1, InsideStep DEF ReaderInv, Undisturbed
<1>3. DoubtCovers'
  BY DoubtStep DEF ReaderInv
<1> QED
  BY <1>2, <1>3 DEF ReaderInv, ReaderFindsActive

\* A step that stays outside.
LEMMA OutsideStep ==
    ASSUME TypeOK, ReaderInv, NEW p \in Process, ~Inside(p),
           NEW r \in ProcessState, process' = [process EXCEPT ![p] = r],
           r.phase \in {"idle", "built"}, UNCHANGED <<model, pointer, doubt>>
    PROVE  ReaderInv'
<1>1. process'[p] = r /\ \A q \in Process \ {p} : process'[q] = process[q]
  BY DEF TypeOK
<1>2. AloneUndisturbed'
  BY <1>1 DEF ReaderInv, AloneUndisturbed, Undisturbed, Inside
<1>3. DoubtCovers'
  BY <1>1 DEF ReaderInv, DoubtCovers, Inside
<1> QED
  BY <1>2, <1>3 DEF ReaderInv, ReaderFindsActive

\* A process that enters casts doubt when others are inside, and is alone
\* otherwise.
LEMMA EnterStep ==
    ASSUME TypeOK, ReaderInv, NEW p \in Process, NEW r \in ProcessState,
           Enter(p, r), r.phase \notin Deciding \cup {"selected"},
           doubt \/ Overlaps(p) => doubt'
    PROVE  AloneUndisturbed' /\ DoubtCovers'
<1>1. PICK b \in BOOLEAN : b = ~Overlaps(p)
  BY DEF Overlaps
<1>2. /\ process'[p] = [r EXCEPT !.alone = b]
      /\ \A q \in Process \ {p} :
           process'[q] = IF Inside(q) THEN [process[q] EXCEPT !.alone = FALSE]
                         ELSE process[q]
  BY <1>1, EnterEffect
<1>3. process'[p].phase = r.phase /\ process'[p].alone = b
  BY <1>2 DEF ProcessState
<1>4. ASSUME NEW q \in Process \ {p}
      PROVE  (Inside(q)' => Inside(q) /\ ~process'[q].alone)
             /\ (Inside(q) => Inside(q)')
  <2>1. process[q] \in ProcessState
    BY DEF TypeOK
  <2>2. CASE Inside(q)
    <3>1. process'[q] = [process[q] EXCEPT !.alone = FALSE]
      BY <1>2, <2>2
    <3>2. process'[q].phase = process[q].phase /\ ~process'[q].alone
      BY <2>1, <3>1 DEF ProcessState
    <3> QED
      BY <2>2, <3>2 DEF Inside
  <2>3. CASE ~Inside(q)
    BY <1>2, <2>3 DEF Inside
  <2> QED
    BY <2>2, <2>3
<1>5. Undisturbed(p)'
  BY <1>1, <1>3, <1>4 DEF Undisturbed, Overlaps, Deciding
<1>6. AloneUndisturbed'
  BY <1>4, <1>5 DEF AloneUndisturbed, Undisturbed
<1>7. DoubtCovers'
  BY <1>1, <1>3, <1>4 DEF DoubtCovers, Overlaps
<1> QED
  BY <1>6, <1>7

LEMMA EnterReader ==
    ASSUME IInv, NEW p \in Process,
           WriteModel(p) \/ \E m \in Model : Approve(p, m)
    PROVE  ReaderInv'
<1> USE DEF IInv, SelectionInv
<1>0. ReaderInv
  BY DEF ReaderInv
<1>1. CASE WriteModel(p)
  <2> DEFINE local == process[p]
             r == [local EXCEPT !.phase = "persisted"]
  <2>1. local \in ProcessState /\ local.target \in Model
    BY <1>1 DEF TypeOK, AllHold, Holds, WriteModel
  <2>2. r \in ProcessState /\ r.phase = "persisted"
    BY <2>1 DEF ProcessState, Phase
  <2>3. Enter(p, r) /\ doubt' = (doubt \/ Overlaps(p) \/ pointer = local.target)
        /\ pointer' = pointer
    BY <1>1 DEF WriteModel
  <2>4. \A m \in Model \ {local.target} : model'[m] = model[m]
    BY <1>1, <2>1 DEF WriteModel, TypeOK
  <2>5. ReaderFindsActive'
    BY <2>3, <2>4 DEF ReaderFindsActive, TypeOK, AnyModel
  <2> HIDE DEF r
  <2>6. AloneUndisturbed' /\ DoubtCovers'
    BY <1>0, <2>2, <2>3, EnterStep DEF Deciding
  <2> QED
    BY <2>5, <2>6 DEF ReaderInv
<1>2. ASSUME NEW m \in Model, Approve(p, m) PROVE ReaderInv'
  <2> DEFINE r == [Idle EXCEPT !.phase = "activating", !.target = m]
  <2>1. r \in ProcessState /\ r.phase = "activating"
    BY Types DEF ProcessState, Phase, Idle
  <2>2. Enter(p, r) /\ doubt' = (doubt \/ Overlaps(p)) /\ UNCHANGED store
    BY <1>2 DEF Approve
  <2>3. ReaderFindsActive'
    BY <2>2 DEF ReaderFindsActive, store
  <2> HIDE DEF r
  <2>4. AloneUndisturbed' /\ DoubtCovers'
    BY <1>0, <2>1, <2>2, EnterStep DEF Deciding
  <2> QED
    BY <2>3, <2>4 DEF ReaderInv
<1> QED
  BY <1>1, <1>2

LEMMA OutsideReader ==
    ASSUME IInv, NEW p \in Process, ~Inside(p),
           GiveUp(p) \/ \E j \in Job : Build(p, j)
    PROVE  ReaderInv'
<1> USE DEF IInv, SelectionInv
<1>0. ReaderInv
  BY DEF ReaderInv
<1>1. CASE GiveUp(p)
  <2>1. process' = [process EXCEPT ![p] = Idle] /\ Idle.phase = "idle"
        /\ UNCHANGED <<model, pointer, doubt>>
    BY <1>1 DEF GiveUp, store, history, Idle
  <2> QED
    BY <1>0, <2>1, Types, OutsideStep
<1>2. ASSUME NEW j \in Job, Build(p, j) PROVE ReaderInv'
  <2> DEFINE m == [job |-> j, version |-> NextVersion]
             r == [Idle EXCEPT !.phase = "built", !.persists = TRUE, !.target = m]
  <2>1. NextVersion \in 1..MaxVersion
    <3>1. index.latest \in 0..MaxVersion
      BY DEF TypeOK, IndexState
    <3>2. index.latest + 1 <= MaxVersion
      BY <1>2 DEF Build, NextVersion
    <3> QED
      BY <3>1, <3>2, BoundAssumption DEF NextVersion
  <2>2. m \in Model
    BY <2>1 DEF Model
  <2>3. r \in ProcessState /\ r.phase = "built"
    BY <2>2, Types DEF ProcessState, Phase, Idle
  <2>4. process' = [process EXCEPT ![p] = r] /\ UNCHANGED <<model, pointer, doubt>>
    BY <1>2 DEF Build, store
  <2> HIDE DEF r
  <2> QED
    BY <1>0, <2>3, <2>4, OutsideStep
<1> QED
  BY <1>1, <1>2

\* A process that is inside and ends its work, or goes on without the model
\* and the pointer.
LEMMA QuietReader ==
    ASSUME IInv, NEW p \in Process, Inside(p),
           \/ WriteLatest(p) \/ ReadIndex(p) \/ WriteIndex(p)
           \/ ReadPointer(p) \/ ReadActive(p) \/ ReadResult(p)
           \/ WriteResult(p) \/ Publish(p) \/ GiveUp(p)
    PROVE  ReaderInv'
<1> USE DEF IInv, SelectionInv
<1> DEFINE local == process[p]
<1>0. ReaderInv /\ local \in ProcessState /\ UNCHANGED <<model, pointer, doubt>>
  BY DEF ReaderInv, TypeOK, WriteLatest, ReadIndex, WriteIndex, ReadPointer,
         ReadActive, ReadResult, WriteResult, Publish, GiveUp, store, history
<1>1. CASE WriteLatest(p)
  <2> DEFINE r == [local EXCEPT !.phase = "unlisted"]
  <2>1. r \in ProcessState /\ r.phase = "unlisted" /\ r.alone = local.alone
        /\ r.target = local.target /\ r.before = local.before
    BY <1>0 DEF ProcessState, Phase
  <2>2. process' = [process EXCEPT ![p] = r]
    BY <1>1 DEF WriteLatest, Go
  <2> HIDE DEF r
  <2> QED
    BY <1>0, <2>1, <2>2, QuietStep DEF Deciding
<1>2. CASE ReadIndex(p)
  <2>1. PICK next \in {"listing", "relisting"} : process' = [process EXCEPT ![p] =
            [local EXCEPT !.phase = next, !.listed = index]]
    BY <1>2 DEF ReadIndex
  <2> DEFINE r == [local EXCEPT !.phase = next, !.listed = index]
  <2>2. r \in ProcessState /\ r.phase = next /\ r.alone = local.alone
        /\ r.target = local.target /\ r.before = local.before
    BY <1>0 DEF ProcessState, Phase, TypeOK
  <2> HIDE DEF r
  <2> QED
    BY <1>0, <2>1, <2>2, QuietStep DEF Deciding, r
<1>3. CASE WriteIndex(p)
  <2>1. PICK next \in {"activating", "publishing", "listed"} :
            process' = [process EXCEPT ![p] =
                [local EXCEPT !.phase = next, !.listed = NoIndex]]
    BY <1>3 DEF WriteIndex
  <2> DEFINE r == [local EXCEPT !.phase = next, !.listed = NoIndex]
  <2>2. r \in ProcessState /\ r.phase = next /\ r.alone = local.alone
        /\ r.target = local.target /\ r.before = local.before
    BY <1>0, Types DEF ProcessState, Phase
  <2> HIDE DEF r
  <2> QED
    BY <1>0, <2>1, <2>2, QuietStep DEF Deciding, r
<1>4. CASE ReadPointer(p) \/ ReadActive(p)
  <2>1. PICK next \in {"pointed", "compared"}, found \in AnyModel :
            process' = [process EXCEPT ![p] =
                [local EXCEPT !.phase = next, !.active = found]]
    <3>1. CASE ReadPointer(p)
      BY <3>1 DEF ReadPointer, TypeOK
    <3>2. CASE ReadActive(p)
      <4>1. local.active \in AnyModel
        BY <1>0 DEF ProcessState
      <4> QED
        BY <3>2, <4>1, Types DEF ReadActive
    <3> QED
      BY <1>4, <3>1, <3>2
  <2> DEFINE r == [local EXCEPT !.phase = next, !.active = found]
  <2>2. r \in ProcessState /\ r.phase = next /\ r.alone = local.alone
        /\ r.target = local.target /\ r.before = local.before
    BY <1>0 DEF ProcessState, Phase
  <2>3. local.phase \in Deciding
    BY <1>4 DEF ReadPointer, ReadActive, Deciding
  <2> HIDE DEF r
  <2> QED
    BY <1>0, <2>1, <2>2, <2>3, QuietStep DEF r
<1>5. CASE (ReadResult(p) \/ WriteResult(p)) /\ process' = [process EXCEPT ![p] = Amended(p)]
  <2> DEFINE r == Amended(p)
  <2>1. local.phase \in {"superseded", "amending", "listed", "showing"}
    BY <1>5 DEF ReadResult, WriteResult
  <2>2. r \in ProcessState
    BY <2>1, AmendedHolds
  <2>3. \/ r.phase = "idle"
        \/ /\ r.phase \in {"replaced", "publishing"} /\ r.alone = local.alone
           /\ r.target = local.target /\ r.before = local.before
    BY <1>0 DEF Amended, ProcessState, Idle
  <2> HIDE DEF r
  <2> QED
    BY <1>0, <1>5, <2>2, <2>3, QuietStep DEF r, Deciding
<1>6. CASE ReadResult(p) /\ process' # [process EXCEPT ![p] = Amended(p)]
  <2> DEFINE found == result[Shown(p).job]
  <2>1. PICK next \in {"showing", "amending"} :
            process' = [process EXCEPT ![p] =
                [local EXCEPT !.phase = next, !.read = found]]
    BY <1>6 DEF ReadResult
  <2>2. Shown(p) \in Model
    BY <1>0, <1>6 DEF ReadResult, Shown, AllHold, Holds, ProcessState, AnyModel
  <2>3. found \in ResultState
    BY <2>2, Types DEF TypeOK
  <2> DEFINE r == [local EXCEPT !.phase = next, !.read = found]
  <2>4. r \in ProcessState /\ r.phase = next /\ r.alone = local.alone
        /\ r.target = local.target /\ r.before = local.before
    BY <1>0, <2>3 DEF ProcessState, Phase
  <2> HIDE DEF r
  <2> QED
    BY <1>0, <2>1, <2>4, QuietStep DEF Deciding, r
<1>7. CASE Publish(p) \/ GiveUp(p)
  <2>1. process' = [process EXCEPT ![p] = Idle] /\ Idle.phase = "idle"
    BY <1>7 DEF Publish, GiveUp, Idle
  <2> QED
    BY <1>0, <2>1, Types, QuietStep
<1> QED
  BY <1>1, <1>2, <1>3, <1>4, <1>5, <1>6, <1>7 DEF WriteResult

\* The steps of an activation that readers can notice.
LEMMA CandidateReader ==
    ASSUME IInv, NEW p \in Process, Inside(p), ReadCandidate(p)
    PROVE  ReaderInv'
<1> USE DEF IInv, SelectionInv
<1> DEFINE local == process[p]
           m == local.target
<1>0. local \in ProcessState /\ local.phase = "activating" /\ m \in Model
      /\ UNCHANGED <<model, pointer, doubt>> /\ ReaderInv
  BY DEF TypeOK, AllHold, Holds, ReadCandidate, store, history, ReaderInv
<1>1. CASE model[m].status = "absent" \/ m.job \in Unsuitable
  <2>1. process' = [process EXCEPT ![p] = Idle] /\ Idle.phase = "idle"
    BY <1>1 DEF ReadCandidate, Idle
  <2> QED
    BY <1>0, <2>1, Types, QuietStep
<1>2. CASE ~(model[m].status = "absent" \/ m.job \in Unsuitable)
  <2> DEFINE r == [local EXCEPT !.phase = "candidate", !.before = model[m]]
  <2>1. process' = [process EXCEPT ![p] = r]
    BY <1>2 DEF ReadCandidate
  <2>2. model[m] \in ModelState
    BY <1>0 DEF TypeOK
  <2>3. r \in ProcessState /\ r.phase = "candidate" /\ r.alone = local.alone
        /\ r.target = m /\ r.before = model[m]
    BY <1>0, <2>2 DEF ProcessState, Phase
  <2>4. ~doubt' /\ pointer' = m => r.before.status = "active"
    BY <1>0, <2>3, Types DEF ReaderFindsActive
  <2> HIDE DEF r
  <2>5. AloneUndisturbed'
    BY <1>0, <2>1, <2>3, <2>4, InsideStep
  <2>6. DoubtCovers'
    BY <1>0, <2>1, <2>3, DoubtStep
  <2> QED
    BY <1>0, <2>5, <2>6 DEF ReaderInv, ReaderFindsActive
<1> QED
  BY <1>1, <1>2

LEMMA ActivatedReader ==
    ASSUME IInv, NEW p \in Process, Inside(p), WriteActivated(p)
    PROVE  ReaderInv'
<1> USE DEF IInv, SelectionInv
<1> DEFINE local == process[p]
           m == local.target
           r == [local EXCEPT !.phase = "activated"]
<1>1. local \in ProcessState /\ local.phase = "compared" /\ m \in Model
      /\ Undisturbed(p)
  BY DEF TypeOK, AllHold, Holds, WriteActivated, Go, AloneUndisturbed
<1>2. /\ process' = [process EXCEPT ![p] = r]
      /\ model' = [model EXCEPT ![m] = [status |-> "active", by |-> NoModel]]
      /\ pointer' = pointer /\ doubt' = doubt
  BY DEF WriteActivated, Go, history
<1>3. r \in ProcessState /\ r.phase = "activated" /\ r.alone = local.alone
      /\ r.target = m /\ r.before = local.before
  BY <1>1 DEF ProcessState, Phase
<1>4. model'[m].status = "active" /\ \A n \in Model \ {m} : model'[n] = model[n]
  BY <1>1, <1>2 DEF TypeOK
<1>5. ~doubt' /\ r.alone /\ pointer' = m => r.before.status = "active"
  BY <1>1, <1>2, <1>3 DEF Undisturbed, Deciding
<1> HIDE DEF r
<1>6. AloneUndisturbed'
  BY <1>2, <1>3, <1>4, <1>5, InsideStep
<1>7. DoubtCovers'
  BY <1>2, <1>3, DoubtStep
<1>8. ReaderFindsActive'
  BY <1>2, <1>4 DEF ReaderFindsActive, TypeOK, AnyModel
<1> QED
  BY <1>6, <1>7, <1>8 DEF ReaderInv

LEMMA PointerReader ==
    ASSUME IInv, NEW p \in Process, Inside(p), WritePointer(p)
    PROVE  ReaderInv'
<1> USE DEF IInv, SelectionInv
<1> DEFINE local == process[p]
           m == local.target
           r == [local EXCEPT !.phase = "selected", !.before = Absent]
<1>1. local \in ProcessState /\ local.phase = "activated" /\ m \in Model
      /\ Undisturbed(p)
  BY DEF TypeOK, AllHold, Holds, WritePointer, AloneUndisturbed
<1>2. /\ process' = [process EXCEPT ![p] = r]
      /\ pointer' = m /\ model' = model /\ doubt' = (doubt /\ ~local.alone)
  BY DEF WritePointer
<1>3. r \in ProcessState /\ r.phase = "selected" /\ r.alone = local.alone
      /\ r.target = m
  BY <1>1, Types DEF ProcessState, Phase
<1>4. process'[p] = r /\ \A q \in Process \ {p} : process'[q] = process[q]
  BY <1>2 DEF TypeOK
<1> HIDE DEF r
<1>5. AloneUndisturbed'
  BY <1>2, <1>3, InsideStep DEF Deciding
<1>6. ~doubt' => local.alone
  BY <1>2 DEF DoubtCovers
<1>7. ReaderFindsActive'
  BY <1>1, <1>2, <1>6 DEF ReaderFindsActive, Undisturbed
<1>8. DoubtCovers'
  BY <1>1, <1>3, <1>4, <1>6 DEF DoubtCovers, Undisturbed, Inside
<1> QED
  BY <1>5, <1>7, <1>8 DEF ReaderInv

LEMMA PointerFailsReader ==
    ASSUME IInv, NEW p \in Process, Inside(p), PointerFails(p)
    PROVE  ReaderInv'
<1> USE DEF IInv, SelectionInv
<1> DEFINE local == process[p]
           m == local.target
           r == [local EXCEPT !.phase = "rolling"]
<1>1. local \in ProcessState /\ local.phase = "activated" /\ m \in Model
      /\ Undisturbed(p)
  BY DEF TypeOK, AllHold, Holds, PointerFails, Go, AloneUndisturbed
<1>2. /\ process' = [process EXCEPT ![p] = r] /\ model' = model
      /\ (pointer' = pointer /\ doubt' = doubt) \/ doubt'
  BY DEF PointerFails, Go
<1>3. r \in ProcessState /\ r.phase = "rolling" /\ r.alone = local.alone
      /\ r.target = m /\ r.before = local.before
  BY <1>1 DEF ProcessState, Phase
<1>4. ~doubt' /\ r.alone /\ pointer' = m => r.before.status = "active"
  BY <1>1, <1>2, <1>3 DEF Undisturbed, Deciding
<1> HIDE DEF r
<1>5. AloneUndisturbed'
  BY <1>2, <1>3, <1>4, InsideStep
<1>6. DoubtCovers'
  BY <1>2, <1>3, DoubtStep DEF DoubtCovers
<1> QED
  BY <1>2, <1>5, <1>6 DEF ReaderInv, ReaderFindsActive

LEMMA RollbackReader ==
    ASSUME IInv, NEW p \in Process, Inside(p), Rollback(p)
    PROVE  ReaderInv'
<1> USE DEF IInv, SelectionInv
<1> DEFINE local == process[p]
           m == local.target
<1>1. local.phase = "rolling" /\ m \in Model /\ Undisturbed(p)
  BY DEF TypeOK, AllHold, Holds, Rollback, AloneUndisturbed
<1>2. /\ process' = [process EXCEPT ![p] = Idle] /\ Idle.phase = "idle"
      /\ model' = [model EXCEPT ![m] = local.before]
      /\ pointer' = pointer /\ doubt' = doubt
  BY DEF Rollback, history, Idle
<1>3. AloneUndisturbed' /\ DoubtCovers'
  BY <1>2, Types, InsideStep, DoubtStep
<1>4. ~doubt /\ pointer = m => local.before.status = "active"
  BY <1>1 DEF DoubtCovers, Undisturbed, Deciding
<1>5. model'[m] = local.before /\ \A n \in Model \ {m} : model'[n] = model[n]
  BY <1>1, <1>2 DEF TypeOK
<1>6. ReaderFindsActive'
  BY <1>2, <1>4, <1>5 DEF ReaderFindsActive, TypeOK, AnyModel
<1> QED
  BY <1>3, <1>6 DEF ReaderInv

LEMMA SupersedeReader ==
    ASSUME IInv, NEW p \in Process, Inside(p), Supersede(p)
    PROVE  ReaderInv'
<1> USE DEF IInv, SelectionInv
<1> DEFINE local == process[p]
           m == local.target
           old == local.active
<1>1. local \in ProcessState /\ local.phase = "selected" /\ m \in Model
      /\ Undisturbed(p)
  BY DEF TypeOK, AllHold, Holds, Supersede, AloneUndisturbed
<1>2. pointer' = pointer /\ doubt' = doubt
  BY DEF Supersede, history
<1>3. PICK next \in {"superseded", "replaced"}, kept \in {old, NoModel} :
        process' = [process EXCEPT ![p] =
            [local EXCEPT !.phase = next, !.active = kept]]
  <2>1. CASE Replaces(p)
    <3>1. [local EXCEPT !.phase = "superseded"]
          = [local EXCEPT !.phase = "superseded", !.active = old]
      BY <1>1 DEF ProcessState
    <3> QED
      BY <2>1, <3>1 DEF Supersede
  <2>2. CASE ~Replaces(p)
    BY <2>2 DEF Supersede
  <2> QED
    BY <2>1, <2>2
<1> DEFINE r == [local EXCEPT !.phase = next, !.active = kept]
<1>4. old \in AnyModel
  BY <1>1 DEF ProcessState
<1>5. r \in ProcessState /\ r.phase = next /\ r.alone = local.alone
  BY <1>1, <1>4, Types DEF ProcessState, Phase
<1> HIDE DEF r
<1>6. AloneUndisturbed'
  BY <1>3, <1>5, InsideStep DEF Deciding, r
<1>7. DoubtCovers'
  BY <1>2, <1>3, <1>5, DoubtStep DEF r
<1>8. \A n \in Model : n = m \/ ~Replaces(p) \/ n # old => model'[n] = model[n]
  BY DEF Supersede, Replaces, TypeOK
<1>9. ~doubt => pointer = m
  BY <1>1 DEF DoubtCovers, Undisturbed
<1>10. ReaderFindsActive'
  BY <1>1, <1>2, <1>8, <1>9 DEF ReaderFindsActive
<1> QED
  BY <1>6, <1>7, <1>10 DEF ReaderInv

LEMMA StepInv == IInv /\ [Next]_vars => IInv'
<1> SUFFICES ASSUME IInv, [Next]_vars PROVE IInv'
  OBVIOUS
<1>1. SelectionInv'
  BY SelectionStep DEF IInv
<1>2. ASSUME NEW p \in Process, Persist(p) \/ Activate(p) \/ GiveUp(p)
      PROVE  ReaderInv'
  <2>1. CASE WriteModel(p) \/ \E m \in Model : Approve(p, m)
    BY <2>1, EnterReader
  <2>2. CASE \E j \in Job : Build(p, j)
    <3>1. ~Inside(p)
      BY <2>2 DEF Build, Inside
    <3> QED
      BY <2>2, <3>1, OutsideReader
  <2>3. CASE GiveUp(p)
    BY <2>3, OutsideReader, QuietReader
  <2>4. CASE \/ WriteLatest(p) \/ ReadIndex(p) \/ WriteIndex(p)
             \/ ReadPointer(p) \/ ReadActive(p) \/ ReadResult(p)
             \/ WriteResult(p) \/ Publish(p)
    <3>1. Inside(p)
      BY <2>4 DEF Inside, WriteLatest, Go, ReadIndex, WriteIndex, ReadPointer,
                  ReadActive, ReadResult, WriteResult, Publish
    <3> QED
      BY <2>4, <3>1, QuietReader
  <2>5. CASE \/ ReadCandidate(p) \/ WriteActivated(p) \/ WritePointer(p)
             \/ PointerFails(p) \/ Rollback(p) \/ Supersede(p)
    <3>1. Inside(p)
      BY <2>5 DEF Inside, ReadCandidate, WriteActivated, WritePointer,
                  PointerFails, Rollback, Supersede, Go
    <3> QED
      BY <2>5, <3>1, CandidateReader, ActivatedReader, PointerReader,
         PointerFailsReader, RollbackReader, SupersedeReader
  <2> QED
    BY <1>2, <2>1, <2>2, <2>3, <2>4, <2>5 DEF Persist, Activate
<1>3. CASE UNCHANGED vars
  <2>1. UNCHANGED <<model, pointer, process, doubt>>
    BY <1>3 DEF vars, store, history
  <2>2. AloneUndisturbed' /\ DoubtCovers' /\ ReaderFindsActive'
    <3>1. AloneUndisturbed'
      BY <2>1 DEF IInv, AloneUndisturbed, Undisturbed, Inside
    <3>2. DoubtCovers'
      BY <2>1 DEF IInv, DoubtCovers, Inside
    <3>3. ReaderFindsActive'
      BY <2>1 DEF IInv, ReaderFindsActive
    <3> QED
      BY <3>1, <3>2, <3>3
  <2> QED
    BY <1>1, <2>2 DEF IInv
<1> QED
  BY <1>1, <1>2, <1>3 DEF Next, IInv, ReaderInv

LEMMA Invariant == Spec => []IInv
BY InitInv, StepInv, PTL DEF Spec

-----------------------------------------------------------------------------
\* The state has its types: versions stay within their bound, a result shows a
\* model of its own kind, and every process is at a point of its procedure.
THEOREM TypeCorrect == Spec => []TypeOK
<1>1. IInv => TypeOK
  BY DEF IInv, SelectionInv
<1> QED
  BY <1>1, Invariant, PTL

\* The result of an automatic job shows a model that the pointer has named,
\* whichever of the accesses before it failed, was repeated or overlapped.
THEOREM ResultsShowSelectedModels == Spec => []PublishedAfterSelection
<1>1. IInv => PublishedAfterSelection
  BY DEF IInv, SelectionInv
<1> QED
  BY <1>1, Invariant, PTL

\* A model is superseded after it and its successor were selected, also when
\* the record written was read back from before a failed activation.
THEOREM SupersededWereSelected == Spec => []SupersededBySelected
<1>1. IInv => SupersededBySelected
  BY DEF IInv, SelectionInv
<1> QED
  BY <1>1, Invariant, PTL

\* With any number of processes, the pointer names an active model from the
\* first selection by a process that was alone until processes overlap, a write
\* of the pointer is in doubt or the model is persisted once more.
THEOREM PointerNamesActive == Spec => []ReaderFindsActive
<1>1. IInv => ReaderFindsActive
  BY DEF IInv
<1> QED
  BY <1>1, Invariant, PTL
=============================================================================
