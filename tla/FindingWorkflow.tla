--------------------------- MODULE FindingWorkflow ---------------------------
(***************************************************************************)
(* The workflow of one finding case (finding_workflow.py): an append-only  *)
(* log of versioned events, from which the status is projected.  Operators *)
(* write through the API, with the version of the page they have loaded    *)
(* and, if they like, an idempotency key; a lost answer makes a client     *)
(* send its request again, also while the first copy is being handled.     *)
(* The handler of a request checks the status in one transaction and       *)
(* appends its event in another.  Between the two other handlers append,   *)
(* and so do two writers that name no version: the compatibility endpoints *)
(* of an evidence run, and the governance of a live finding.               *)
(* Transitions are enforced, as in the strict mode of production.          *)
(***************************************************************************)
EXTENDS Naturals, Sequences, FiniteSets

CONSTANTS
    Handler,       \* threads that handle API requests
    Key,           \* idempotency keys
    NoKey,         \* a request without one
    Target,        \* bound: the statuses that requests ask for
    MaxRequests,   \* bound: requests of clients, their repetitions not counted
    MaxUnversioned \* bound: events that name no version

ASSUME KeyAssumption == NoKey \notin Key
ASSUME BoundAssumption ==
    /\ MaxRequests \in Nat
    /\ MaxUnversioned \in Nat \ {0}

\* _STATUS_TRANSITIONS.
Transition ==
    [open |-> {"acknowledged", "investigating", "monitoring", "escalated",
               "resolved", "dismissed"},
     acknowledged |-> {"investigating", "waiting", "escalated", "monitoring",
                       "resolved", "dismissed"},
     investigating |-> {"waiting", "escalated", "awaiting_review",
                        "monitoring", "resolved", "dismissed"},
     waiting |-> {"investigating", "escalated", "awaiting_review", "resolved",
                  "dismissed"},
     escalated |-> {"investigating", "waiting", "awaiting_review",
                    "monitoring", "resolved", "dismissed"},
     awaiting_review |-> {"investigating", "waiting", "escalated",
                          "monitoring", "resolved", "dismissed"},
     monitoring |-> {"open", "investigating", "awaiting_review", "resolved",
                     "dismissed"},
     resolved |-> {"open", "monitoring"},
     dismissed |-> {"open", "monitoring"}]

Status == DOMAIN Transition

Terminal == {"resolved", "dismissed"}

ASSUME TargetAssumption == Target \subseteq Status

\* What a request asks for: a status, a field report (which may escalate, or
\* complete the investigation), a resolution, or a note (feedback, and fields
\* other than the status), which moves no status.
Content ==
    [kind : {"status"}, to : Target]
        \cup [kind : {"report"},
              to : {"escalated", "awaiting_review", "unchanged"}]
        \cup {[kind |-> "resolution", to |-> "resolved"],
              [kind |-> "note", to |-> "unchanged"]}

RequestId == 1..MaxRequests

Request == [id : RequestId, content : Content, expected : Nat,
            key : Key \cup {NoKey}]

\* The id of an event that no client has asked for.
NoRequest == 0

VARIABLES
    source,     \* the kind of the case: evidence_run or live_finding
    live,       \* live_findings.current_state, of a live finding
    initial,    \* the status in the snapshot of the case, once it exists
    log,        \* finding_workflow_events
    sent,       \* the requests that clients have sent
    handler     \* the request that a thread handles, and how far it is

vars == <<source, live, initial, log, sent, handler>>

FindingState == {"observing", "open", "resolved"}
NoCase == "none"
Idle == [phase |-> "idle"]

Init ==
    /\ source \in {"evidence_run", "live_finding"}
    /\ live \in FindingState
    /\ initial = NoCase
    /\ log = <<>>
    /\ sent = {}
    /\ handler = [h \in Handler |-> Idle]

\* The events among the first n that move the status.
Moves(n) == {m \in 1..n : log[m].content.to # "unchanged"}

LastMove(n) == CHOOSE m \in Moves(n) : \A k \in Moves(n) : k <= m

\* _project: the status after the first n events is the one that the last of
\* them that moves it has moved it to.
StatusAfter(n) ==
    IF Moves(n) = {} THEN initial ELSE log[LastMove(n)].content.to

CurrentStatus == StatusAfter(Len(log))

Unversioned == {n \in DOMAIN log : log[n].id = NoRequest}

\* The event that has the key, if there is one.
Replayed(key) == {n \in DOMAIN log : key # NoKey /\ log[n].key = key}

\* Mutant: an older version is not refused.
MutantNotNewer(expected) == expected <= Len(log)

\* The version that a request expects is the current one.
Fresh(expected) == expected = Len(log)

\* Mutant: the key is not looked up.
MutantAppendAlways(id, content, key) ==
    log' = Append(log, [id |-> id, content |-> content, key |-> key])

\* _append_event, in one transaction: an event that has the key is the answer
\* if it is equal, and a conflict if it is not; otherwise the event is appended.
AppendEvent(id, content, key) ==
    log' = IF Replayed(key) # {} THEN log
           ELSE Append(log, [id |-> id, content |-> content, key |-> key])

----------------------------------------------------------------------------
(***************************************************************************)
(* The case is materialised when it is first read or written.              *)
(***************************************************************************)
\* An event that no client has asked for.
Unasked(kind, to) ==
    [id |-> NoRequest, content |-> [kind |-> kind, to |-> to], key |-> NoKey]

\* materialize_evidence_finding_cases: a new run is governed at once; an older
\* one may have a legacy event, which whoever reads the case imports first.
MaterializeEvidence ==
    /\ source = "evidence_run"
    /\ initial = NoCase
    /\ initial' \in Target
    /\ \/ log' = <<>>
       \/ log' = <<Unasked("governance", "unchanged")>>
       \/ \E s \in Target : log' = <<Unasked("legacy", s)>>
    /\ UNCHANGED <<source, live, sent, handler>>

\* Mutant: the state of the finding is taken for a status.
MutantSnapshot(state) == state

\* _live_snapshot: the status that a case begins with.
Snapshot(state) == IF state = "resolved" THEN "resolved" ELSE "open"

\* materialize_live_finding_cases.
MaterializeLive ==
    /\ source = "live_finding"
    /\ initial = NoCase
    /\ initial' = Snapshot(live)
    /\ UNCHANGED <<source, live, log, sent, handler>>

\* A live analysis run completes: govern_live_findings inserts the case unless
\* there is one, and appends a lifecycle event of its own run, unless the
\* finding cannot be governed.  It never touches the status.
GovernLive ==
    /\ source = "live_finding"
    /\ Cardinality(Unversioned) < MaxUnversioned
    /\ live' \in FindingState
    /\ initial' = IF initial = NoCase THEN Snapshot(live') ELSE initial
    /\ \/ AppendEvent(NoRequest, [kind |-> "governance", to |-> "unchanged"],
                      NoKey)
       \/ UNCHANGED log
    /\ UNCHANGED <<source, sent, handler>>

\* compatibility_write_status and compatibility_write_feedback: no version, no
\* transition, no terminal check; the request id is the idempotency key.
CompatibilityWrite ==
    /\ source = "evidence_run"
    /\ initial # NoCase
    /\ Cardinality(Unversioned) < MaxUnversioned
    /\ \E to \in Target \cup {"unchanged"}, key \in Key \cup {NoKey} :
        AppendEvent(NoRequest, [kind |-> "compatibility", to |-> to], key)
    /\ UNCHANGED <<source, live, initial, sent, handler>>

----------------------------------------------------------------------------
(***************************************************************************)
(* The API.                                                                *)
(***************************************************************************)
\* The number of the next request: they are numbered as they are sent.
NewRequestId ==
    {id \in RequestId :
        /\ \A request \in sent : request.id # id
        /\ \A k \in RequestId : k < id => \E request \in sent : request.id = k}

\* A client sends a request from a page that shows this or an earlier version.
Send(h) ==
    /\ handler[h].phase = "idle"
    /\ initial # NoCase
    /\ \E request \in [id : NewRequestId, content : Content,
                       expected : 0..Len(log), key : Key \cup {NoKey}] :
        /\ sent' = sent \cup {request}
        /\ handler' = [handler EXCEPT ![h] =
                [phase |-> "checking", request |-> request]]
    /\ UNCHANGED <<source, live, initial, log>>

\* A client that has lost the answer sends the same request again.
SendAgain(h) ==
    /\ handler[h].phase = "idle"
    /\ \E request \in sent :
        handler' = [handler EXCEPT ![h] =
            [phase |-> "checking", request |-> request]]
    /\ UNCHANGED <<source, live, initial, log, sent>>

\* Mutant: a dismissed finding is not taken for a terminal one.
MutantAdmitsDismissed(content) ==
    CASE content.kind = "status" ->
            content.to \in Transition[CurrentStatus] \cup {CurrentStatus}
      [] content.kind = "report" -> CurrentStatus # "resolved"
      [] OTHER -> TRUE

\* validate_status_transition and the terminal check of a field report.
Admits(content) ==
    CASE content.kind = "status" ->
            content.to \in Transition[CurrentStatus] \cup {CurrentStatus}
      [] content.kind = "report" -> CurrentStatus \notin Terminal
      [] OTHER -> TRUE

\* The handler reads the case; it answers 422 if the status does not admit it.
Check(h) ==
    /\ handler[h].phase = "checking"
    /\ handler' = [handler EXCEPT ![h] =
            IF Admits(handler[h].request.content)
            THEN [@ EXCEPT !.phase = "appending"] ELSE Idle]
    /\ UNCHANGED <<source, live, initial, log, sent>>

\* The handler appends: a replay is looked for before the version is compared.
Record(h) ==
    LET request == handler[h].request
    IN  /\ handler[h].phase = "appending"
        /\ IF Replayed(request.key) # {} \/ Fresh(request.expected)
           THEN AppendEvent(request.id, request.content, request.key)
           ELSE UNCHANGED log
        /\ handler' = [handler EXCEPT ![h] = Idle]
        /\ UNCHANGED <<source, live, initial, sent>>

Next ==
    \/ MaterializeEvidence \/ MaterializeLive
    \/ GovernLive \/ CompatibilityWrite
    \/ \E h \in Handler : Send(h) \/ SendAgain(h) \/ Check(h) \/ Record(h)

Spec == Init /\ [][Next]_vars

----------------------------------------------------------------------------
(***************************************************************************)
(* Correctness.                                                            *)
(***************************************************************************)
UnversionedKind == {"legacy", "governance", "compatibility"}

Event ==
    [id : RequestId \cup {NoRequest},
     content : Content \cup [kind : UnversionedKind,
                             to : Status \cup {"unchanged"}],
     key : Key \cup {NoKey}]

TypeOK ==
    /\ source \in {"evidence_run", "live_finding"}
    /\ live \in FindingState
    /\ initial \in Status \cup {NoCase}
    /\ log \in Seq(Event)
    /\ sent \subseteq Request
    /\ handler \in [Handler -> {Idle}
            \cup [phase : {"checking", "appending"}, request : sent]]

\* The transition table holds where it matters, at the place of the event in
\* the log: although a handler checks a status that others may change before it
\* appends, every status that the API has recorded is one that the table allows
\* after the status before it (update_finding_workflow).
TransitionsFollowTable ==
    \A n \in DOMAIN log :
        log[n].content.kind = "status" =>
            log[n].content.to \in Transition[StatusAfter(n - 1)]
                                  \cup {StatusAfter(n - 1)}

\* "Terminal resolved and dismissed findings reject new field reports so a late
\* direct API write cannot silently reopen completed work".
NoReportOnTerminal ==
    \A n \in DOMAIN log :
        log[n].content.kind = "report" => StatusAfter(n - 1) \notin Terminal

\* "Optional idempotency keys make retries replay-safe", and without a key the
\* version does: however often a request is sent, and however many copies of it
\* are handled at once, the log has it once; and a key names one event.
AppliedOnce ==
    \A m, n \in DOMAIN log : m # n =>
        /\ log[m].id = log[n].id => log[m].id = NoRequest
        /\ log[m].key = log[n].key => log[m].key = NoKey

\* "A stale edit returns HTTP 409 instead of overwriting another operator's
\* work": the page from which an event was asked for showed every event before.
NoLostEdit ==
    \A n \in DOMAIN log : \A request \in sent :
        log[n].id = request.id => request.expected = n - 1
=============================================================================
