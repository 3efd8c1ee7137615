---------------------- MODULE ConnectionLifecycle_proofs ----------------------
(***************************************************************************)
(* Theorems about ConnectionLifecycle, for any sets of request handlers    *)
(* and workers.  The lemmas say first what each kind of write makes of the *)
(* row; the invariance proofs then only look at the fields.                *)
(***************************************************************************)
EXTENDS ConnectionLifecycle, TLAPS

LEMMA VerdictsAreStatuses ==
    ASSUME NEW s \in Status \ {"archived"}
    PROVE  /\ Verdicts(s) \subseteq Status
           /\ \A verdict \in Verdicts(s) : verdict \notin {"draft", "archived"}
BY DEF Verdicts, Succeeded, Failed, Fresh, Status

\* set_connection_lifecycle writes what its caller passes, on a live row.
LEMMA SetLifecycleEffect ==
    ASSUME conn \in ConnRow, NEW target \in Status, NEW enabled \in BOOLEAN,
           SetLifecycle(target, enabled)
    PROVE  /\ conn' \in ConnRow
           /\ conn'.status = target /\ conn'.enabled = enabled
           /\ ~conn.archived /\ ~conn'.archived
           /\ ~(target = "disabled" /\ enabled)
<1>1. PICK row \in ConnRow, new \in {conn'} :
          /\ row = conn /\ new = conn'
          /\ new = [row EXCEPT !.status = target, !.enabled = enabled]
  BY Zenon DEF SetLifecycle
<1>2. /\ new \in ConnRow
      /\ new.status = target /\ new.enabled = enabled
      /\ new.archived = row.archived
  BY <1>1 DEF ConnRow
<1>3. ~conn.archived /\ ~(target = "disabled" /\ enabled)
  BY DEF SetLifecycle, Allowed
<1>4. QED
  BY <1>1, <1>2, <1>3

\* A worker that hands the connection back holds its lease, and touches
\* neither enabled nor archived_at.
LEMMA HandBackEffect ==
    ASSUME conn \in ConnRow, NEW w \in Worker, NEW status \in Status,
           NEW scheduled \in BOOLEAN, HandBack(w, status, scheduled)
    PROVE  /\ lease = w /\ lease' = NoWorker
           /\ conn' \in ConnRow
           /\ conn'.status = status
           /\ conn'.enabled = conn.enabled /\ conn'.archived = conn.archived
           /\ worker' = [worker EXCEPT ![w] = "idle"]
           /\ UNCHANGED <<validator, administrator>>
<1>1. PICK row \in ConnRow, new \in {conn'} :
          /\ row = conn /\ new = conn'
          /\ new = [row EXCEPT !.status = status, !.scheduled = scheduled]
  BY Zenon DEF HandBack
<1>2. /\ new \in ConnRow
      /\ new.status = status
      /\ new.enabled = row.enabled /\ new.archived = row.archived
  BY <1>1 DEF ConnRow
<1>3. QED
  BY <1>1, <1>2 DEF HandBack

LEMMA ArchiveEffect ==
    ASSUME conn \in ConnRow, Archive
    PROVE  /\ conn' \in ConnRow
           /\ conn'.status = "archived" /\ ~conn'.enabled /\ conn'.archived
           /\ lease' = NoWorker /\ ~conn.archived
           /\ UNCHANGED <<validator, administrator, worker>>
<1>1. PICK row \in ConnRow, new \in {conn'} :
          /\ row = conn /\ new = conn'
          /\ new = [row EXCEPT !.status = "archived", !.enabled = FALSE,
                               !.archived = TRUE]
  BY Zenon DEF Archive
<1>2. /\ new \in ConnRow
      /\ new.status = "archived" /\ ~new.enabled /\ new.archived
  BY <1>1 DEF ConnRow, Status
<1>3. QED
  BY <1>1, <1>2 DEF Archive

\* Scheduling writes next_attempt_at alone, and not on an archived row.
LEMMA ScheduleEffect ==
    ASSUME conn \in ConnRow,
           RequestRun \/ \E a \in Administrator : ScheduleNow(a)
    PROVE  /\ conn' \in ConnRow
           /\ conn'.status = conn.status /\ conn'.enabled = conn.enabled
           /\ conn'.archived = conn.archived
           /\ conn.archived => conn' = conn
           /\ UNCHANGED <<lease, validator, worker>>
<1>1. PICK b \in BOOLEAN :
          /\ conn' = [conn EXCEPT !.scheduled = b]
          /\ conn.archived => b = conn.scheduled
  <2>1. CASE RequestRun
    BY <2>1 DEF RequestRun
  <2>2. CASE \E a \in Administrator : ScheduleNow(a)
    <3>1. PICK b \in BOOLEAN :
              b = (conn.scheduled \/ (conn.enabled /\ ~conn.archived))
      BY Zenon
    <3>2. conn' = [conn EXCEPT !.scheduled = b]
      BY <2>2, <3>1, Zenon DEF ScheduleNow
    <3>3. conn.archived => b = conn.scheduled
      BY <3>1 DEF ConnRow
    <3>4. QED BY <3>2, <3>3
  <2>3. QED BY <2>1, <2>2
<1>2. PICK row \in ConnRow, new \in {conn'} :
          row = conn /\ new = conn' /\ new = [row EXCEPT !.scheduled = b]
  BY <1>1, Zenon
<1>3. /\ new \in ConnRow
      /\ new.status = row.status /\ new.enabled = row.enabled
      /\ new.archived = row.archived
      /\ b = row.scheduled => new = row
  BY <1>2 DEF ConnRow
<1>4. QED
  BY <1>1, <1>2, <1>3 DEF RequestRun, ScheduleNow

----------------------------------------------------------------------------
(***************************************************************************)
(* The inductive invariant.  A validation never read an archived row, so   *)
(* it cannot write archived back; an archived row has no lease, so no      *)
(* worker can hand it back.                                                *)
(***************************************************************************)
SnapshotsLive == \A v \in Validator : validator[v].status # "archived"

ArchivedUnleased == conn.archived => lease = NoWorker

Inv == TypeOK /\ StatusMatchesFlags /\ SnapshotsLive /\ ArchivedUnleased

LEMMA InvInit == Init => Inv
BY DEF Init, Inv, TypeOK, StatusMatchesFlags, SnapshotsLive, ArchivedUnleased,
       ConnRow, Status, Snapshot, IdleValidator

\* A request that ends forgets what it read.
LEMMA ValidatorDoneKeeps ==
    ASSUME Inv, NEW v \in Validator, ValidatorDone(v)
    PROVE  /\ validator' \in [Validator -> Snapshot]
           /\ \A u \in Validator : validator'[u].status # "archived"
<1>1. IdleValidator \in Snapshot /\ IdleValidator.status # "archived"
  BY DEF IdleValidator, Snapshot, Status
<1>2. QED
  BY <1>1 DEF ValidatorDone, Inv, TypeOK, SnapshotsLive

\* The row stays consistent under every write of an API request.
LEMMA SetLifecycleKeeps ==
    ASSUME Inv, NEW target \in Status \ {"draft", "archived"},
           NEW enabled \in BOOLEAN, SetLifecycle(target, enabled)
    PROVE  /\ conn' \in ConnRow
           /\ StatusMatchesFlags'
           /\ ~conn'.archived /\ ~conn.archived
<1>1. conn \in ConnRow
  BY DEF Inv, TypeOK
<1>2. QED
  BY <1>1, SetLifecycleEffect DEF StatusMatchesFlags

LEMMA ValidatorKeepsInv ==
    ASSUME Inv, NEW v \in Validator, ValidatorStep(v)
    PROVE  Inv' /\ (conn.archived => conn' = conn /\ lease' = lease)
<1> USE DEF Inv
<1>0. validator[v] \in Snapshot /\ validator[v].status # "archived"
  BY DEF TypeOK, SnapshotsLive
<1>1. CASE ReadForValidation(v)
  <2> DEFINE phase == IF Fresh(conn.status) THEN "read" ELSE "probing"
             seen == [phase |-> phase, status |-> conn.status,
                      enabled |-> conn.enabled]
  <2>1. conn.status \in Status \ {"archived"} /\ conn.enabled \in BOOLEAN
    BY <1>1 DEF ReadForValidation, TypeOK, ConnRow, StatusMatchesFlags
  <2>2. phase \in {"idle", "read", "probing"}
    OBVIOUS
  <2>3. seen \in Snapshot /\ seen.status # "archived"
    BY <2>1, <2>2 DEF Snapshot
  <2>4. validator' = [validator EXCEPT ![v] = seen]
    BY <1>1 DEF ReadForValidation
  <2> HIDE DEF seen
  <2>5. validator' \in [Validator -> Snapshot] /\ SnapshotsLive'
    BY <2>3, <2>4 DEF TypeOK, SnapshotsLive
  <2>6. QED
    BY <1>1, <2>5 DEF ReadForValidation, TypeOK, StatusMatchesFlags,
                      ArchivedUnleased
<1>2. CASE StartValidating(v)
  <2>1. /\ SetLifecycle("validating", validator[v].enabled)
        /\ validator' = [validator EXCEPT ![v].phase = "probing"]
        /\ UNCHANGED <<lease, administrator, worker>>
    BY <1>2 DEF StartValidating
  <2>2. "validating" \in Status \ {"draft", "archived"}
            /\ validator[v].enabled \in BOOLEAN
    BY <1>0 DEF Status, Snapshot
  <2>3. conn' \in ConnRow /\ StatusMatchesFlags' /\ ~conn'.archived
            /\ ~conn.archived
    BY <2>1, <2>2, SetLifecycleKeeps
  <2>4. validator' \in [Validator -> Snapshot] /\ SnapshotsLive'
    BY <2>1, <1>0 DEF TypeOK, SnapshotsLive, Snapshot
  <2>5. QED
    BY <2>1, <2>3, <2>4 DEF TypeOK, ArchivedUnleased
<1>3. CASE FinishValidation(v)
  <2>1. PICK verdict \in Verdicts(validator[v].status) :
            SetLifecycle(verdict, validator[v].enabled)
    BY <1>3 DEF FinishValidation
  <2>2. validator[v].status \in Status \ {"archived"}
            /\ validator[v].enabled \in BOOLEAN
    BY <1>0 DEF Snapshot
  <2>3. verdict \in Status \ {"draft", "archived"}
    BY <2>1, <2>2, VerdictsAreStatuses
  <2>4. conn' \in ConnRow /\ StatusMatchesFlags' /\ ~conn'.archived
            /\ ~conn.archived
    BY <2>1, <2>2, <2>3, SetLifecycleKeeps
  <2>5. validator' \in [Validator -> Snapshot] /\ SnapshotsLive'
    BY <1>3, ValidatorDoneKeeps DEF FinishValidation, SnapshotsLive
  <2>6. QED
    BY <1>3, <2>4, <2>5 DEF FinishValidation, TypeOK, ArchivedUnleased
<1>4. CASE RefuseValidation(v) \/ ProviderUnavailable(v) \/ CrashValidator(v)
  <2>1. ValidatorDone(v) /\ UNCHANGED <<conn, lease, administrator, worker>>
    BY <1>4 DEF RefuseValidation, ProviderUnavailable, CrashValidator
  <2>2. validator' \in [Validator -> Snapshot] /\ SnapshotsLive'
    BY <2>1, ValidatorDoneKeeps DEF SnapshotsLive
  <2>3. QED
    BY <2>1, <2>2 DEF TypeOK, StatusMatchesFlags, ArchivedUnleased
<1>5. QED
  BY <1>1, <1>2, <1>3, <1>4 DEF ValidatorStep

LEMMA AdministratorKeepsInv ==
    ASSUME Inv, NEW a \in Administrator, AdministratorStep(a)
    PROVE  Inv' /\ (conn.archived => conn' = conn /\ lease' = lease)
<1> USE DEF Inv
<1>1. administrator' \in
        [Administrator -> {"idle", "enable", "disable", "schedule"}]
  BY DEF AdministratorStep, AskEnable, AskDisable, Enable, ScheduleNow, Disable,
         RefuseSetEnabled, CrashAdministrator, TypeOK
<1>2. UNCHANGED <<lease, validator, worker>>
  BY DEF AdministratorStep, AskEnable, AskDisable, Enable, ScheduleNow, Disable,
         RefuseSetEnabled, CrashAdministrator
<1>3. CASE Enable(a) \/ Disable(a)
  <2>1. conn' \in ConnRow /\ StatusMatchesFlags' /\ ~conn'.archived
            /\ ~conn.archived
    BY <1>3, SetLifecycleKeeps DEF Enable, Disable, Status
  <2>2. QED
    BY <1>1, <1>2, <2>1 DEF TypeOK, SnapshotsLive, ArchivedUnleased
<1>4. CASE ScheduleNow(a)
  <2>1. /\ conn' \in ConnRow
        /\ conn'.status = conn.status /\ conn'.enabled = conn.enabled
        /\ conn'.archived = conn.archived
        /\ conn.archived => conn' = conn
    BY <1>4, ScheduleEffect DEF TypeOK
  <2>2. QED
    BY <1>1, <1>2, <2>1 DEF TypeOK, StatusMatchesFlags, SnapshotsLive,
                            ArchivedUnleased
<1>5. CASE UNCHANGED conn
  BY <1>1, <1>2, <1>5 DEF TypeOK, StatusMatchesFlags, SnapshotsLive,
                          ArchivedUnleased
<1>6. QED
  BY <1>3, <1>4, <1>5 DEF AdministratorStep, AskEnable, AskDisable,
                          RefuseSetEnabled, CrashAdministrator

\* The statuses a worker may leave behind.
Reported ==
    (Status \ {"draft", "disabled", "archived"}) \cup {conn.status}

\* Whatever status a worker leaves, it leaves it on a live row.
LEMMA HandBackKeepsInv ==
    ASSUME Inv, NEW w \in Worker, NEW status \in Reported,
           NEW scheduled \in BOOLEAN, HandBack(w, status, scheduled)
    PROVE  Inv' /\ (conn.archived => conn' = conn /\ lease' = lease)
<1> USE DEF Inv
<1>1. status \in Status /\ conn \in ConnRow
  BY DEF TypeOK, ConnRow, Reported
<1>2. /\ lease = w /\ lease' = NoWorker
      /\ conn' \in ConnRow
      /\ conn'.status = status
      /\ conn'.enabled = conn.enabled /\ conn'.archived = conn.archived
      /\ worker' = [worker EXCEPT ![w] = "idle"]
      /\ UNCHANGED <<validator, administrator>>
  BY <1>1, HandBackEffect
<1>3. ~conn.archived
  BY <1>2, WorkerAssumption DEF ArchivedUnleased
<1>4. StatusMatchesFlags'
  BY <1>2, <1>3 DEF StatusMatchesFlags, Reported
<1>5. TypeOK'
  BY <1>2 DEF TypeOK
<1>6. QED
  BY <1>2, <1>3, <1>4, <1>5 DEF SnapshotsLive, ArchivedUnleased

LEMMA WorkerKeepsInv ==
    ASSUME Inv, NEW w \in Worker, Claim(w) \/ Finish(w)
    PROVE  Inv' /\ (conn.archived => conn' = conn /\ lease' = lease)
<1>0. "degraded" \in Reported /\ "error" \in Reported /\ Recovered \in Reported
          /\ conn.status \in Reported
  BY DEF Status, Recovered, Reported
<1>1. CASE Claim(w)
  <2>1. /\ ~conn.archived /\ lease' = w
        /\ UNCHANGED <<conn, validator, administrator>>
        /\ worker' = [worker EXCEPT ![w] = "claimed"]
    BY <1>1 DEF Claim
  <2>2. QED
    BY <2>1 DEF Inv, TypeOK, StatusMatchesFlags, SnapshotsLive, ArchivedUnleased
<1>2. CASE LoadSnapshot(w) \/ LeaseLost(w)
  <2>1. UNCHANGED <<conn, lease, validator, administrator>>
    BY <1>2 DEF LoadSnapshot, LeaseLost
  <2>2. worker' \in [Worker -> {"idle", "claimed", "polling", "disabling"}]
    BY <1>2 DEF LoadSnapshot, LeaseLost, Inv, TypeOK
  <2>3. QED
    BY <2>1, <2>2 DEF Inv, TypeOK, StatusMatchesFlags, SnapshotsLive,
                      ArchivedUnleased
<1>3. CASE Continue(w)
  BY <1>0, <1>3, HandBackKeepsInv DEF Continue
<1>4. CASE CompleteDisabled(w)
  BY <1>0, <1>4, HandBackKeepsInv DEF CompleteDisabled
<1>5. ASSUME NEW partial \in BOOLEAN, Complete(w, partial)
      PROVE  Inv' /\ (conn.archived => conn' = conn /\ lease' = lease)
  <2>1. PICK status \in Reported :
            status = IF partial THEN "degraded" ELSE Recovered
    BY <1>0
  <2>2. HandBack(w, status, TRUE)
    BY <1>5, <2>1 DEF Complete
  <2>3. QED BY <2>2, HandBackKeepsInv
<1>6. ASSUME NEW exhausted \in BOOLEAN, Fail(w, exhausted)
      PROVE  Inv' /\ (conn.archived => conn' = conn /\ lease' = lease)
  <2>1. PICK status \in Reported :
            status = IF exhausted THEN "error" ELSE "degraded"
    BY <1>0
  <2>2. PICK scheduled \in BOOLEAN : scheduled = ~exhausted
    BY Zenon
  <2>3. HandBack(w, status, scheduled)
    BY <1>6, <2>1, <2>2, Zenon DEF Fail
  <2>4. QED BY <2>3, HandBackKeepsInv
<1>7. QED
  BY <1>1, <1>2, <1>3, <1>4, <1>5, <1>6 DEF Finish

\* Every step keeps the invariant, and leaves an archived row alone.
LEMMA StepKeepsInv ==
    ASSUME Inv, [Next]_vars
    PROVE  Inv' /\ (conn.archived => conn' = conn /\ lease' = lease)
<1>1. CASE \E v \in Validator : ValidatorStep(v)
  BY <1>1, ValidatorKeepsInv
<1>2. CASE \E a \in Administrator : AdministratorStep(a)
  BY <1>2, AdministratorKeepsInv
<1>3. CASE \E w \in Worker : Claim(w) \/ Finish(w)
  BY <1>3, WorkerKeepsInv
<1>4. CASE Archive
  <2>1. conn \in ConnRow
    BY DEF Inv, TypeOK
  <2>2. QED
    BY <1>4, <2>1, ArchiveEffect DEF Inv, TypeOK, StatusMatchesFlags,
                                     SnapshotsLive, ArchivedUnleased
<1>5. CASE RequestRun
  <2>1. /\ conn' \in ConnRow
        /\ conn'.status = conn.status /\ conn'.enabled = conn.enabled
        /\ conn'.archived = conn.archived
        /\ conn.archived => conn' = conn
    BY <1>5, ScheduleEffect DEF Inv, TypeOK
  <2>2. QED
    BY <1>5, <2>1 DEF RequestRun, Inv, TypeOK, StatusMatchesFlags,
                      SnapshotsLive, ArchivedUnleased
<1>6. CASE UNCHANGED vars
  BY <1>6 DEF vars, Inv, TypeOK, StatusMatchesFlags, SnapshotsLive,
              ArchivedUnleased
<1>7. QED
  BY <1>1, <1>2, <1>3, <1>4, <1>5, <1>6 DEF Next

THEOREM InvHolds == Spec => []Inv
<1>1. Inv /\ [Next]_vars => Inv'
  BY StepKeepsInv
<1>2. QED
  BY InvInit, <1>1, PTL DEF Spec

\* The type invariant of ConnectionLifecycle.
THEOREM TypeCorrect == Spec => []TypeOK
<1>1. Inv => TypeOK
  BY DEF Inv
<1>2. QED
  BY <1>1, InvHolds, PTL

\* Status, enabled and archived_at never contradict each other, however many
\* requests write back what they read long ago.
THEOREM FlagsMatch == Spec => []StatusMatchesFlags
<1>1. Inv => StatusMatchesFlags
  BY DEF Inv
<1>2. QED
  BY <1>1, InvHolds, PTL

\* Nothing under way when a connection is archived touches it afterwards.
THEOREM ArchiveIsFinal == Spec => ArchivedFinal
<1>1. Inv /\ [Next]_vars
        => [conn.archived => conn' = conn /\ lease' = lease]_vars
  BY StepKeepsInv
<1>2. QED
  BY <1>1, InvHolds, PTL DEF Spec, ArchivedFinal
=============================================================================
