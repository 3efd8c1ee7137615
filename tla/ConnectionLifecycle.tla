------------------------- MODULE ConnectionLifecycle -------------------------
(***************************************************************************)
(* The lifecycle of one telemetry connection: lifecycle_status and enabled *)
(* in its row, the API requests that read the row, do something else and   *)
(* write it back (telemetry_connection_service.py: validate_connection,    *)
(* set_enabled, archive_connection), and the workers that write the status *)
(* when they hand the connection back (telemetry_repository.py).           *)
(*                                                                         *)
(* Repository methods are transactions, hence actions.  A service method   *)
(* is several of them.  One API process runs its handlers one after the    *)
(* other, so each request handler here stands for another API replica; the *)
(* workers are processes of their own.                                     *)
(*                                                                         *)
(* TelemetryIngestion models the work a worker does under its lease; here  *)
(* a worker only claims, notices that it is disabled, and finishes.        *)
(***************************************************************************)
CONSTANTS
    Validator,     \* API processes that may run validate_connection
    Administrator, \* API processes that may run set_enabled
    Worker,        \* telemetry workers
    NoWorker,      \* NULL in lease_owner
    MayCrash       \* whether processes may die

ASSUME WorkerAssumption == NoWorker \notin Worker
ASSUME CrashAssumption == MayCrash \in BOOLEAN

VARIABLES
    conn,          \* lifecycle_status, enabled, archived_at, next_attempt_at
    lease,         \* lease_owner: the worker whose lease token the row holds
    validator,     \* what each validate_connection request has read
    administrator, \* the transaction each set_enabled request has before it
    worker         \* the phase of each worker

vars == <<conn, lease, validator, administrator, worker>>

Status == {"draft", "validating", "connected", "degraded", "disconnected",
           "disabled", "error", "archived"}

ConnRow == [status : Status, enabled : BOOLEAN, archived : BOOLEAN,
            scheduled : BOOLEAN]

Snapshot == [phase : {"idle", "read", "probing"}, status : Status,
             enabled : BOOLEAN]

IdleValidator == [phase |-> "idle", status |-> "draft", enabled |-> FALSE]

\* LIFECYCLE_TRANSITIONS: what an API request may make of a status.
Successors ==
    [status \in Status |->
        CASE status = "draft" -> {"validating"}
          [] status = "validating" ->
                {"connected", "degraded", "disconnected", "error"}
          [] status = "connected" ->
                {"degraded", "disconnected", "disabled", "archived"}
          [] status = "degraded" ->
                {"connected", "disconnected", "disabled", "error", "archived"}
          [] status = "disconnected" ->
                {"validating", "connected", "disabled", "archived"}
          [] status = "disabled" -> {"disconnected", "archived"}
          [] status = "error" ->
                {"validating", "connected", "disabled", "archived"}
          [] status = "archived" -> {}]

Init ==
    /\ conn = [status |-> "draft", enabled |-> FALSE, archived |-> FALSE,
               scheduled |-> FALSE]
    /\ lease = NoWorker
    /\ validator = [v \in Validator |-> IdleValidator]
    /\ administrator = [a \in Administrator |-> "idle"]
    /\ worker = [w \in Worker |-> "idle"]

(***************************************************************************)
(* set_connection_lifecycle: one transaction that checks the transition    *)
(* from the status it finds and writes the status and the enabled flag its *)
(* caller passes, whatever the flag was.                                   *)
(***************************************************************************)
Allowed(target, enabled) ==
    /\ ~conn.archived
    /\ ~(target = "disabled" /\ enabled)
    /\ target = conn.status \/ target \in Successors[conn.status]

\* Mutant: the flag of a disabled connection is left to the caller.
MutantKeepEnabled(target, enabled) ==
    /\ Allowed(target, enabled)
    /\ conn' = [conn EXCEPT !.status = target, !.enabled = conn.enabled \/ enabled]

SetLifecycle(target, enabled) ==
    /\ Allowed(target, enabled)
    /\ conn' = [conn EXCEPT !.status = target, !.enabled = enabled]

----------------------------------------------------------------------------
(***************************************************************************)
(* validate_connection reads the row, moves a fresh connection to          *)
(* validating, asks the provider, and writes the verdict together with the *)
(* enabled flag it read at first.                                          *)
(***************************************************************************)
Fresh(status) == status \in {"draft", "disconnected", "error"}

ReadForValidation(v) ==
    /\ validator[v].phase = "idle"
    /\ ~conn.archived
    /\ validator' = [validator EXCEPT ![v] =
            [phase |-> IF Fresh(conn.status) THEN "read" ELSE "probing",
             status |-> conn.status, enabled |-> conn.enabled]]
    /\ UNCHANGED <<conn, lease, administrator, worker>>

StartValidating(v) ==
    /\ validator[v].phase = "read"
    /\ SetLifecycle("validating", validator[v].enabled)
    /\ validator' = [validator EXCEPT ![v].phase = "probing"]
    /\ UNCHANGED <<lease, administrator, worker>>

Succeeded(start) == IF Fresh(start) THEN "disconnected" ELSE start

\* The provider cannot be reached, or answers with another failure.
Failed(start) ==
    IF start = "disabled" THEN {"disabled"}
    ELSE {"disconnected", IF Fresh(start) THEN "error" ELSE "degraded"}

Verdicts(start) == {Succeeded(start)} \cup Failed(start)

ValidatorDone(v) == validator' = [validator EXCEPT ![v] = IdleValidator]

FinishValidation(v) ==
    /\ validator[v].phase = "probing"
    /\ \E verdict \in Verdicts(validator[v].status) :
        SetLifecycle(verdict, validator[v].enabled)
    /\ ValidatorDone(v)
    /\ UNCHANGED <<lease, administrator, worker>>

\* telemetry_lifecycle_conflict, or the connection is gone.
RefuseValidation(v) ==
    /\ \/ /\ validator[v].phase = "read"
          /\ ~Allowed("validating", validator[v].enabled)
       \/ /\ validator[v].phase = "probing"
          /\ \E verdict \in Verdicts(validator[v].status) :
                ~Allowed(verdict, validator[v].enabled)
    /\ ValidatorDone(v)
    /\ UNCHANGED <<conn, lease, administrator, worker>>

\* _provider_context raises (the connector is not available, the credentials
\* cannot be read) and nothing in validate_connection catches that error.
ProviderUnavailable(v) ==
    /\ validator[v].phase = "probing"
    /\ ValidatorDone(v)
    /\ UNCHANGED <<conn, lease, administrator, worker>>

(***************************************************************************)
(* set_enabled reads the row, skips the write when nothing would change,   *)
(* and schedules an enabled connection in a transaction of its own.        *)
(***************************************************************************)
AskEnable(a) ==
    /\ administrator[a] = "idle"
    /\ ~conn.archived
    /\ administrator' = [administrator EXCEPT ![a] =
            IF conn.status = "disconnected" /\ conn.enabled THEN "schedule"
                                                            ELSE "enable"]
    /\ UNCHANGED <<conn, lease, validator, worker>>

AskDisable(a) ==
    /\ administrator[a] = "idle"
    /\ ~conn.archived
    /\ ~(conn.status = "disabled" /\ ~conn.enabled)
    /\ administrator' = [administrator EXCEPT ![a] = "disable"]
    /\ UNCHANGED <<conn, lease, validator, worker>>

Enable(a) ==
    /\ administrator[a] = "enable"
    /\ SetLifecycle("disconnected", TRUE)
    /\ administrator' = [administrator EXCEPT ![a] = "schedule"]
    /\ UNCHANGED <<lease, validator, worker>>

ScheduleNow(a) ==
    /\ administrator[a] = "schedule"
    /\ conn' = [conn EXCEPT !.scheduled =
                    @ \/ (conn.enabled /\ ~conn.archived)]
    /\ administrator' = [administrator EXCEPT ![a] = "idle"]
    /\ UNCHANGED <<lease, validator, worker>>

Disable(a) ==
    /\ administrator[a] = "disable"
    /\ SetLifecycle("disabled", FALSE)
    /\ administrator' = [administrator EXCEPT ![a] = "idle"]
    /\ UNCHANGED <<lease, validator, worker>>

RefuseSetEnabled(a) ==
    /\ \/ administrator[a] = "enable" /\ ~Allowed("disconnected", TRUE)
       \/ administrator[a] = "disable" /\ ~Allowed("disabled", FALSE)
    /\ administrator' = [administrator EXCEPT ![a] = "idle"]
    /\ UNCHANGED <<conn, lease, validator, worker>>

\* Mutant: archiving leaves the lease to its holder.
MutantArchiveLeased ==
    /\ ~conn.archived
    /\ "archived" \in Successors[conn.status]
    /\ conn' = [conn EXCEPT !.status = "archived", !.enabled = FALSE,
                            !.archived = TRUE]
    /\ UNCHANGED <<lease, validator, administrator, worker>>

Archive ==
    /\ ~conn.archived
    /\ "archived" \in Successors[conn.status]
    /\ conn' = [conn EXCEPT !.status = "archived", !.enabled = FALSE,
                            !.archived = TRUE]
    /\ lease' = NoWorker
    /\ UNCHANGED <<validator, administrator, worker>>

\* A backfill or a retry is created: the connection is due at once.
RequestRun ==
    /\ conn.enabled /\ ~conn.archived
    /\ conn' = [conn EXCEPT !.scheduled = TRUE]
    /\ UNCHANGED <<lease, validator, administrator, worker>>

----------------------------------------------------------------------------
(***************************************************************************)
(* The workers.  A lease may have lapsed at any moment, so a claim may     *)
(* find the connection leased; a worker has one claim at a time, so the    *)
(* owner stands for the token of that claim.                               *)
(***************************************************************************)
Claim(w) ==
    /\ worker[w] = "idle"
    /\ conn.enabled /\ ~conn.archived /\ conn.scheduled
    /\ lease' = w
    /\ worker' = [worker EXCEPT ![w] = "claimed"]
    /\ UNCHANGED <<conn, validator, administrator>>

\* The snapshot of a claimed connection shows whether it is still enabled.
LoadSnapshot(w) ==
    /\ worker[w] = "claimed"
    /\ lease = w
    /\ worker' = [worker EXCEPT ![w] =
                    IF conn.enabled THEN "polling" ELSE "disabling"]
    /\ UNCHANGED <<conn, lease, validator, administrator>>

HandBack(w, status, scheduled) ==
    /\ lease = w
    /\ conn' = [conn EXCEPT !.status = status, !.scheduled = scheduled]
    /\ lease' = NoWorker
    /\ worker' = [worker EXCEPT ![w] = "idle"]
    /\ UNCHANGED <<validator, administrator>>

\* A page with more behind it.
Continue(w) == worker[w] = "polling" /\ HandBack(w, conn.status, TRUE)

\* Mutant: the name of a health state, not of a lifecycle status.
MutantRecoveredHealthy ==
    IF conn.status \in {"validating", "degraded", "disconnected", "error"}
    THEN "healthy" ELSE conn.status

\* The status a complete run leaves behind.
Recovered ==
    IF conn.status \in {"validating", "degraded", "disconnected", "error"}
    THEN "connected" ELSE conn.status

Complete(w, partial) ==
    /\ worker[w] = "polling"
    /\ HandBack(w, IF partial THEN "degraded" ELSE Recovered, TRUE)

\* Mutant: the worker that finds the connection disabled polls on.
MutantPollDisabled(w) ==
    /\ worker[w] = "disabling"
    /\ lease = w
    /\ worker' = [worker EXCEPT ![w] = "claimed"]
    /\ UNCHANGED <<conn, lease, validator, administrator>>

\* The run of a disabled connection is completed as partial, and not rescheduled.
CompleteDisabled(w) == worker[w] = "disabling" /\ HandBack(w, "degraded", FALSE)

\* record_ingestion_failure, with a retry or for good.
Fail(w, exhausted) ==
    /\ worker[w] # "idle"
    /\ HandBack(w, IF exhausted THEN "error" ELSE "degraded", ~exhausted)

\* Another worker or an archive took the lease, it lapsed on the clock of the
\* database, or the process dies: the row is left as it is.
LeaseLost(w) ==
    /\ worker[w] # "idle"
    /\ worker' = [worker EXCEPT ![w] = "idle"]
    /\ UNCHANGED <<conn, lease, validator, administrator>>

\* The process of a request dies between two of its transactions.
CrashValidator(v) ==
    /\ MayCrash
    /\ validator[v].phase # "idle"
    /\ ValidatorDone(v)
    /\ UNCHANGED <<conn, lease, administrator, worker>>

CrashAdministrator(a) ==
    /\ MayCrash
    /\ administrator[a] # "idle"
    /\ administrator' = [administrator EXCEPT ![a] = "idle"]
    /\ UNCHANGED <<conn, lease, validator, worker>>

ValidatorStep(v) ==
    \/ ReadForValidation(v) \/ StartValidating(v) \/ FinishValidation(v)
    \/ RefuseValidation(v) \/ ProviderUnavailable(v) \/ CrashValidator(v)

AdministratorStep(a) ==
    \/ AskEnable(a) \/ AskDisable(a) \/ Enable(a) \/ ScheduleNow(a)
    \/ Disable(a) \/ RefuseSetEnabled(a) \/ CrashAdministrator(a)

\* What a worker does once it has claimed.
Finish(w) ==
    \/ LoadSnapshot(w) \/ Continue(w) \/ CompleteDisabled(w)
    \/ \E partial \in BOOLEAN : Complete(w, partial)
    \/ \E exhausted \in BOOLEAN : Fail(w, exhausted)
    \/ LeaseLost(w)

Next ==
    \/ \E v \in Validator : ValidatorStep(v)
    \/ \E a \in Administrator : AdministratorStep(a)
    \/ \E w \in Worker : Claim(w) \/ Finish(w)
    \/ Archive \/ RequestRun

Spec == Init /\ [][Next]_vars

\* A worker that has claimed goes on to the end of run_once.
FairSpec == Spec /\ \A w \in Worker : WF_vars(Finish(w))

----------------------------------------------------------------------------
(***************************************************************************)
(* Correctness.                                                            *)
(***************************************************************************)
TypeOK ==
    /\ conn \in ConnRow
    /\ lease \in Worker \cup {NoWorker}
    /\ validator \in [Validator -> Snapshot]
    /\ administrator \in
        [Administrator -> {"idle", "enable", "disable", "schedule"}]
    /\ worker \in [Worker -> {"idle", "claimed", "polling", "disabling"}]

\* Status, flag and archived_at tell the same story after every write, also
\* of a stale one: the CHECK of data_connections is never hit, and a draft,
\* disabled or archived connection is never enabled, so never claimed.
StatusMatchesFlags ==
    /\ conn.archived <=> conn.status = "archived"
    /\ conn.status \in {"draft", "disabled", "archived"} => ~conn.enabled

\* Archiving is final: no validation that read the row before, no worker that
\* held the lease, no enable under way ever writes the row again, and no
\* lease is given out (archive_connection clears the lease for that).
ArchivedFinal ==
    [][conn.archived => conn' = conn /\ lease' = lease]_vars

\* Disabling stops the work: when a connection stays disabled, the page in
\* progress ends and no worker stays at it (telemetry_scheduler.py, run_once:
\* "Disable can race a due-work claim").
DisabledGoesQuiet ==
    <>[](~conn.enabled) => <>[](\A w \in Worker : worker[w] = "idle")

\* What the architecture promises of disable ("Disable prevents new claims"):
\* only an enable request makes a disabled connection claimable again.
OnlyEnableEnables ==
    [][~conn.enabled /\ conn'.enabled =>
        \E a \in Administrator : administrator[a] = "enable"]_vars
=============================================================================
