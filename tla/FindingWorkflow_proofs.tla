----------------------- MODULE FindingWorkflow_proofs -----------------------
(***************************************************************************)
(* Theorems about FindingWorkflow, for every number of handlers, keys,     *)
(* requests and unversioned events, and every set of statuses asked for.   *)
(***************************************************************************)
EXTENDS FindingWorkflow, TLAPS

(***************************************************************************)
(* The invariant the proofs work with, in named parts.                     *)
(***************************************************************************)

\* Before the case exists nothing has happened to it.
NothingBefore == initial = NoCase => log = <<>> /\ sent = {}

\* A number names one request.
SentDistinct == \A r, s \in sent : r.id = s.id => r = s

\* Nobody expects a version that the case has not had.
SentKnown == \A r \in sent : r.expected <= Len(log)

\* The place of an event that a client has asked for is the one its request
\* expected.
EventsAsked ==
    \A n \in DOMAIN log : log[n].id # NoRequest =>
        \E r \in sent : r.id = log[n].id /\ r.expected = n - 1

KeysDistinct ==
    \A m, n \in DOMAIN log :
        m # n /\ log[m].key = log[n].key => log[m].key = NoKey

\* There is a last one among the events that move the status.
HasLastMove ==
    \A n \in 0..Len(log) : Moves(n) # {} =>
        \E m \in Moves(n) : \A k \in Moves(n) : k <= m

\* Why the check of a handler may be relied upon: the status it has seen is
\* still the current one if the version it appends at is the current one.
CheckedFresh ==
    \A h \in Handler :
        /\ handler[h].phase = "appending"
        /\ handler[h].request.expected = Len(log)
        => Admits(handler[h].request.content)

LogInv ==
    /\ EventsAsked /\ KeysDistinct /\ HasLastMove
    /\ TransitionsFollowTable /\ NoReportOnTerminal

IInv ==
    /\ TypeOK /\ NothingBefore /\ SentDistinct /\ SentKnown
    /\ LogInv /\ CheckedFresh

\* What the table and the terminal rule ask of the content of the next event.
Allowed(content) ==
    /\ content.kind = "status" =>
           content.to \in Transition[CurrentStatus] \cup {CurrentStatus}
    /\ content.kind = "report" => CurrentStatus \notin Terminal

-----------------------------------------------------------------------------
(***************************************************************************)
(* The log and what is projected from it.                                  *)
(***************************************************************************)
LEMMA AppendFacts ==
    ASSUME TypeOK, NEW e \in Event, log' = Append(log, e)
    PROVE  /\ log' \in Seq(Event)
           /\ Len(log) \in Nat /\ Len(log') = Len(log) + 1
           /\ DOMAIN log = 1..Len(log) /\ DOMAIN log' = 1..(Len(log) + 1)
           /\ \A n \in 1..Len(log) : log'[n] = log[n]
           /\ log'[Len(log) + 1] = e
BY DEF TypeOK

LEMMA LastMoveIn ==
    ASSUME HasLastMove, NEW n \in 0..Len(log), Moves(n) # {}
    PROVE  LastMove(n) \in Moves(n)
BY Zenon DEF HasLastMove, LastMove

\* What is appended does not change the status at an earlier version.
LEMMA StatusKept ==
    ASSUME TypeOK, HasLastMove, NEW e \in Event, log' = Append(log, e),
           initial' = initial, NEW n \in 0..Len(log)
    PROVE  Moves(n)' = Moves(n) /\ StatusAfter(n)' = StatusAfter(n)
<1>1. Moves(n)' = Moves(n)
  BY AppendFacts DEF Moves
<1>2. LastMove(n)' = LastMove(n)
  BY <1>1, Zenon DEF LastMove
<1>3. CASE Moves(n) = {}
  BY <1>1, <1>3 DEF StatusAfter
<1>4. CASE Moves(n) # {}
  <2>1. LastMove(n) \in 1..Len(log)
    BY <1>4, LastMoveIn, AppendFacts DEF Moves
  <2>2. log'[LastMove(n)] = log[LastMove(n)]
    BY <2>1, AppendFacts
  <2> QED
    BY <1>1, <1>2, <1>4, <2>2 DEF StatusAfter
<1> QED
  BY <1>1, <1>3, <1>4

\* An event that the table and the terminal rule allow keeps the log correct.
LEMMA AppendInv ==
    ASSUME IInv, initial' = initial, sent' = sent,
           NEW e \in Event, log' = Append(log, e), Replayed(e.key) = {},
           Allowed(e.content),
           e.id # NoRequest =>
               \E r \in sent : r.id = e.id /\ r.expected = Len(log)
    PROVE  LogInv' /\ SentKnown' /\ log' \in Seq(Event)
<1> DEFINE N == Len(log)
<1>0. TypeOK /\ HasLastMove
  BY DEF IInv, LogInv
<1>1. /\ log' \in Seq(Event)
      /\ N \in Nat /\ Len(log') = N + 1
      /\ DOMAIN log = 1..N /\ DOMAIN log' = 1..(N + 1)
      /\ \A n \in 1..N : log'[n] = log[n]
      /\ log'[N + 1] = e
  BY <1>0, AppendFacts
<1>2. ASSUME NEW n \in 0..N
      PROVE  Moves(n)' = Moves(n) /\ StatusAfter(n)' = StatusAfter(n)
  BY <1>0, StatusKept
<1>3. EventsAsked'
  BY <1>1 DEF IInv, LogInv, EventsAsked
<1>4. KeysDistinct'
  BY <1>1 DEF IInv, LogInv, KeysDistinct, Replayed
<1>5. HasLastMove'
  <2> SUFFICES ASSUME NEW n \in 0..(N + 1), Moves(n)' # {}
               PROVE  \E m \in Moves(n)' : \A k \in Moves(n)' : k <= m
    BY <1>1 DEF HasLastMove
  <2>1. CASE n \in 0..N
    BY <1>0, <1>2, <2>1 DEF HasLastMove
  <2>2. CASE n = N + 1 /\ n \in Moves(n)'
    <3>1. \A k \in Moves(n)' : k <= n
      BY <1>1, <2>2 DEF Moves
    <3> QED
      BY <2>2, <3>1
  <2>3. CASE n = N + 1 /\ n \notin Moves(n)'
    <3>1. Moves(n)' = Moves(N)
      BY <1>1, <2>3 DEF Moves
    <3>2. N \in 0..N
      BY <1>1
    <3> QED
      BY <1>0, <3>1, <3>2 DEF HasLastMove
  <2> QED
    BY <1>1, <2>1, <2>2, <2>3
<1>6. TransitionsFollowTable'
  <2> SUFFICES ASSUME NEW n \in 1..(N + 1), log'[n].content.kind = "status"
               PROVE  log'[n].content.to \in Transition[StatusAfter(n - 1)']
                                             \cup {StatusAfter(n - 1)'}
    BY <1>1 DEF TransitionsFollowTable
  <2>1. n - 1 \in 0..N
    BY <1>1
  <2>2. StatusAfter(n - 1)' = StatusAfter(n - 1)
    BY <1>2, <2>1
  <2>3. CASE n \in 1..N
    BY <1>1, <2>2, <2>3 DEF IInv, LogInv, TransitionsFollowTable
  <2>4. CASE n = N + 1
    BY <1>1, <2>2, <2>4 DEF Allowed, CurrentStatus
  <2> QED
    BY <1>1, <2>3, <2>4
<1>7. NoReportOnTerminal'
  <2> SUFFICES ASSUME NEW n \in 1..(N + 1), log'[n].content.kind = "report"
               PROVE  StatusAfter(n - 1)' \notin Terminal
    BY <1>1 DEF NoReportOnTerminal
  <2>1. n - 1 \in 0..N
    BY <1>1
  <2>2. StatusAfter(n - 1)' = StatusAfter(n - 1)
    BY <1>2, <2>1
  <2>3. CASE n \in 1..N
    BY <1>1, <2>2, <2>3 DEF IInv, LogInv, NoReportOnTerminal
  <2>4. CASE n = N + 1
    BY <1>1, <2>2, <2>4 DEF Allowed, CurrentStatus
  <2> QED
    BY <1>1, <2>3, <2>4
<1>8. SentKnown'
  BY <1>1 DEF IInv, TypeOK, SentKnown, Request
<1> QED
  BY <1>1, <1>3, <1>4, <1>5, <1>6, <1>7, <1>8 DEF LogInv

-----------------------------------------------------------------------------
(***************************************************************************)
(* The steps.                                                              *)
(***************************************************************************)
LEMMA InitInv == Init => IInv
BY DEF Init, IInv, TypeOK, NothingBefore, SentDistinct, SentKnown, LogInv,
       EventsAsked, KeysDistinct, HasLastMove, TransitionsFollowTable,
       NoReportOnTerminal, CheckedFresh, Moves, Idle, NoCase, FindingState

\* A step that leaves log and status alone.
LEMMA LogKept ==
    ASSUME log' = log, initial' = initial
    PROVE  /\ \A n : StatusAfter(n)' = StatusAfter(n)
           /\ CurrentStatus' = CurrentStatus
           /\ KeysDistinct => KeysDistinct'
           /\ HasLastMove => HasLastMove'
           /\ TransitionsFollowTable => TransitionsFollowTable'
           /\ NoReportOnTerminal => NoReportOnTerminal'
<1>1. ASSUME NEW n
      PROVE  Moves(n)' = Moves(n) /\ StatusAfter(n)' = StatusAfter(n)
  BY DEF Moves, LastMove, StatusAfter
<1> QED
  BY <1>1, Zenon
     DEF CurrentStatus, KeysDistinct, HasLastMove, TransitionsFollowTable,
         NoReportOnTerminal

\* The log of a case that has at most one event, which no client asked for.
LEMMA BeginsInv ==
    ASSUME IInv, initial = NoCase, initial' \in Status,
           \/ log' = <<>>
           \/ \E e \in Event :
                  /\ log' = <<e>> /\ e.id = NoRequest
                  /\ e.content.kind \in UnversionedKind,
           source' = source, live' \in FindingState,
           sent' = sent, handler' = handler
    PROVE  IInv'
<1>1. log' \in Seq(Event) /\ Len(log') \in {0, 1} /\ sent = {}
  <2>1. log = <<>> /\ sent = {}
    BY DEF IInv, NothingBefore
  <2>2. CASE log' = log
    BY <2>1, <2>2
  <2>3. ASSUME NEW e \in Event, log' = <<e>>
        PROVE  log' \in Seq(Event) /\ Len(log') = 1
    BY <2>3
  <2> QED
    BY <2>1, <2>2, <2>3
<1>2. \A n \in DOMAIN log' :
        /\ n = 1 /\ log'[n].id = NoRequest
        /\ log'[n].content.kind \notin {"status", "report"}
  BY DEF UnversionedKind
<1>3. TypeOK'
  BY <1>1 DEF IInv, TypeOK
<1>4. HasLastMove'
  BY <1>1 DEF HasLastMove, Moves
<1>5. EventsAsked' /\ KeysDistinct' /\ TransitionsFollowTable' /\ NoReportOnTerminal'
  BY <1>2 DEF EventsAsked, KeysDistinct, TransitionsFollowTable, NoReportOnTerminal
<1>6. CheckedFresh'
  BY <1>1 DEF IInv, TypeOK, CheckedFresh, Idle
<1> QED
  BY <1>1, <1>3, <1>4, <1>5, <1>6
     DEF IInv, LogInv, NothingBefore, NoCase, Status, Transition, SentDistinct, SentKnown

\* An event that names no version.
LEMMA UnversionedInv ==
    ASSUME IInv, initial # NoCase, initial' = initial, sent' = sent,
           handler' = handler, source' = source, live' \in FindingState,
           NEW content \in [kind : UnversionedKind, to : Status \cup {"unchanged"}],
           NEW key \in Key \cup {NoKey},
           AppendEvent(NoRequest, content, key) \/ log' = log
    PROVE  IInv'
<1>1. CASE log' = log
  BY <1>1, LogKept
     DEF IInv, TypeOK, NothingBefore, SentDistinct, SentKnown, LogInv,
         EventsAsked, CheckedFresh, Admits
<1>2. CASE log' # log
  <2> DEFINE e == [id |-> NoRequest, content |-> content, key |-> key]
  <2>1. e \in Event /\ log' = Append(log, e) /\ Replayed(e.key) = {}
    BY <1>2 DEF AppendEvent, Event
  <2>2. Allowed(e.content) /\ e.id = NoRequest
    BY DEF Allowed, UnversionedKind
  <2>3. LogInv' /\ SentKnown' /\ log' \in Seq(Event)
    <3> HIDE DEF e
    <3> QED
      BY <2>1, <2>2, AppendInv
  <2>4. TypeOK'
    BY <2>3 DEF IInv, TypeOK
  <2>5. CheckedFresh'
    <3>1. TypeOK /\ SentKnown
      BY DEF IInv
    <3>2. Len(log') = Len(log) + 1 /\ Len(log) \in Nat
      BY <2>1, <3>1, AppendFacts
    <3>3. ASSUME NEW h \in Handler, handler[h].phase = "appending"
          PROVE  handler[h].request \in sent
      BY <3>1, <3>3 DEF TypeOK, Idle
    <3> QED
      BY <3>1, <3>2, <3>3 DEF SentKnown, CheckedFresh, TypeOK, Request
  <2> QED
    BY <2>3, <2>4, <2>5 DEF IInv, NothingBefore, SentDistinct
<1> QED
  BY <1>1, <1>2

\* A handler that takes a request has not checked anything yet.
LEMMA TakeInv ==
    ASSUME IInv, NEW h \in Handler, initial # NoCase,
           UNCHANGED <<source, live, initial, log>>,
           sent \subseteq sent', sent' \subseteq Request,
           SentDistinct', SentKnown',
           NEW request \in sent',
           handler' = [handler EXCEPT ![h] =
                [phase |-> "checking", request |-> request]]
    PROVE  IInv'
<1>1. TypeOK'
  BY DEF IInv, TypeOK
<1>2. EventsAsked'
  BY DEF IInv, LogInv, EventsAsked
<1>3. CheckedFresh'
  BY LogKept DEF IInv, TypeOK, CheckedFresh, Admits
<1> QED
  BY <1>1, <1>2, <1>3, LogKept DEF IInv, LogInv, NothingBefore

LEMMA SendInv ==
    ASSUME IInv, NEW h \in Handler, Send(h)
    PROVE  IInv'
<1>1. PICK request \in [id : NewRequestId, content : Content,
                        expected : 0..Len(log), key : Key \cup {NoKey}] :
        /\ sent' = sent \cup {request}
        /\ handler' = [handler EXCEPT ![h] =
                [phase |-> "checking", request |-> request]]
  BY DEF Send
<1>2. request \in Request
  BY <1>1 DEF Request, NewRequestId
<1>3. SentDistinct'
  BY <1>1 DEF IInv, SentDistinct, NewRequestId
<1>4. SentKnown'
  BY <1>1 DEF IInv, SentKnown, Send
<1>5. sent \subseteq sent' /\ sent' \subseteq Request /\ request \in sent'
  BY <1>1, <1>2 DEF IInv, TypeOK
<1>6. initial # NoCase /\ UNCHANGED <<source, live, initial, log>>
  BY DEF Send
<1> QED
  BY <1>1, <1>3, <1>4, <1>5, <1>6, TakeInv

LEMMA SendAgainInv ==
    ASSUME IInv, NEW h \in Handler, SendAgain(h)
    PROVE  IInv'
<1>1. initial # NoCase
  BY DEF IInv, NothingBefore, SendAgain
<1>2. SentDistinct' /\ SentKnown'
  BY DEF IInv, SentDistinct, SentKnown, SendAgain
<1> QED
  BY <1>1, <1>2, TakeInv DEF IInv, TypeOK, SendAgain

LEMMA CheckInv ==
    ASSUME IInv, NEW h \in Handler, Check(h)
    PROVE  IInv'
<1>1. PICK request \in sent :
        handler[h] = [phase |-> "checking", request |-> request]
  BY DEF IInv, TypeOK, Check, Idle
<1>2. handler' = [handler EXCEPT ![h] =
            IF Admits(request.content)
            THEN [phase |-> "appending", request |-> request] ELSE Idle]
  <2>1. [handler[h] EXCEPT !.phase = "appending"]
            = [phase |-> "appending", request |-> request]
    BY <1>1
  <2>2. handler[h].request = request
    BY <1>1
  <2> QED
    BY <2>1, <2>2, Zenon DEF Check
<1>3. TypeOK'
  BY <1>2 DEF IInv, TypeOK, Check
<1>4. CheckedFresh'
  BY <1>2, LogKept DEF IInv, TypeOK, CheckedFresh, Check, Admits, Idle
<1> QED
  BY <1>3, <1>4, LogKept
     DEF IInv, LogInv, NothingBefore, SentDistinct, SentKnown, EventsAsked, Check

LEMMA RecordInv ==
    ASSUME IInv, NEW h \in Handler, Record(h)
    PROVE  IInv'
<1> DEFINE request == handler[h].request
           e == [id |-> request.id, content |-> request.content,
                 key |-> request.key]
<1>1. request \in sent /\ request \in Request
  BY DEF IInv, TypeOK, Record, Idle
<1>2. handler' = [handler EXCEPT ![h] = Idle]
  BY DEF Record
<1>3. CASE log' = log
  <2>1. TypeOK'
    BY <1>2, <1>3 DEF IInv, TypeOK, Record
  <2>2. CheckedFresh'
    BY <1>2, <1>3, LogKept DEF IInv, TypeOK, CheckedFresh, Record, Admits, Idle
  <2> QED
    BY <1>3, <2>1, <2>2, LogKept
       DEF IInv, LogInv, NothingBefore, SentDistinct, SentKnown, EventsAsked, Record
<1>4. CASE log' # log
  <2>1. /\ log' = Append(log, e) /\ Replayed(e.key) = {}
        /\ request.expected = Len(log)
    BY <1>4 DEF Record, AppendEvent, Fresh
  <2>2. e \in Event
    BY <1>1 DEF Event, Request
  <2>3. Allowed(e.content)
    <3>1. Admits(request.content)
      BY <2>1 DEF IInv, CheckedFresh, Record
    <3> QED
      BY <3>1 DEF Admits, Allowed
  <2>4. \E r \in sent : r.id = e.id /\ r.expected = Len(log)
    BY <1>1, <2>1
  <2>5. LogInv' /\ SentKnown' /\ log' \in Seq(Event)
    <3> HIDE DEF e
    <3> QED
      BY <2>1, <2>2, <2>3, <2>4, AppendInv DEF Record
  <2>6. TypeOK'
    BY <1>2, <2>5 DEF IInv, TypeOK, Record
  <2>7. CheckedFresh'
    <3>1. TypeOK /\ SentKnown
      BY DEF IInv
    <3>2. Len(log') = Len(log) + 1 /\ Len(log) \in Nat
      BY <2>1, <2>2, <3>1, AppendFacts
    <3>3. ASSUME NEW k \in Handler, handler'[k].phase = "appending"
          PROVE  handler'[k].request \in sent
      BY <1>2, <3>1, <3>3 DEF TypeOK, Idle
    <3> QED
      BY <3>1, <3>2, <3>3 DEF SentKnown, CheckedFresh, TypeOK, Request
  <2>8. initial # NoCase
    BY <1>1 DEF IInv, NothingBefore
  <2> QED
    BY <2>5, <2>6, <2>7, <2>8 DEF IInv, NothingBefore, SentDistinct, Record
<1> QED
  BY <1>3, <1>4

LEMMA MaterializeInv ==
    ASSUME IInv, MaterializeEvidence \/ MaterializeLive
    PROVE  IInv'
<1>1. CASE MaterializeEvidence
  <2>1. ASSUME NEW kind \in UnversionedKind, NEW to \in Status \cup {"unchanged"}
        PROVE  /\ Unasked(kind, to) \in Event
               /\ Unasked(kind, to).id = NoRequest
               /\ Unasked(kind, to).content.kind \in UnversionedKind
    BY DEF Unasked, Event
  <2>2. \/ log' = <<>>
        \/ \E e \in Event :
              /\ log' = <<e>> /\ e.id = NoRequest
              /\ e.content.kind \in UnversionedKind
    BY <1>1, <2>1, TargetAssumption DEF MaterializeEvidence, UnversionedKind
  <2> QED
    BY <1>1, <2>2, BeginsInv, TargetAssumption DEF MaterializeEvidence, IInv, TypeOK
<1>2. CASE MaterializeLive
  <2>1. log = <<>> /\ Snapshot(live) \in Status
    BY <1>2 DEF IInv, NothingBefore, MaterializeLive, Snapshot, Status, Transition
  <2> QED
    BY <1>2, <2>1, BeginsInv DEF MaterializeLive, IInv, TypeOK
<1> QED
  BY <1>1, <1>2

LEMMA GovernInv ==
    ASSUME IInv, GovernLive
    PROVE  IInv'
<1> DEFINE content == [kind |-> "governance", to |-> "unchanged"]
<1>1. content \in [kind : UnversionedKind, to : Status \cup {"unchanged"}]
  BY DEF UnversionedKind
<1>2. CASE initial # NoCase
  BY <1>1, <1>2, UnversionedInv DEF GovernLive
<1>3. CASE initial = NoCase
  <2>1. log = <<>> /\ Snapshot(live') \in Status
    BY <1>3 DEF IInv, NothingBefore, GovernLive, Snapshot, Status, Transition
  <2>2. CASE log' = log
    BY <1>3, <2>1, <2>2, BeginsInv DEF GovernLive
  <2>3. CASE log' # log
    <3> DEFINE e == [id |-> NoRequest, content |-> content, key |-> NoKey]
    <3>1. log' = Append(log, e)
      BY <2>3 DEF GovernLive, AppendEvent
    <3>2. e \in Event /\ e.id = NoRequest /\ e.content.kind \in UnversionedKind
      BY <1>1 DEF Event
    <3>3. log' = <<e>>
      BY <2>1, <3>1
    <3> QED
      BY <1>3, <2>1, <3>2, <3>3, BeginsInv DEF GovernLive
  <2> QED
    BY <2>2, <2>3
<1> QED
  BY <1>2, <1>3

LEMMA CompatibilityInv ==
    ASSUME IInv, CompatibilityWrite
    PROVE  IInv'
<1>1. PICK to \in Target \cup {"unchanged"}, key \in Key \cup {NoKey} :
        AppendEvent(NoRequest, [kind |-> "compatibility", to |-> to], key)
  BY DEF CompatibilityWrite
<1> DEFINE content == [kind |-> "compatibility", to |-> to]
<1>2. content \in [kind : UnversionedKind, to : Status \cup {"unchanged"}]
  BY TargetAssumption DEF UnversionedKind
<1> QED
  BY <1>1, <1>2, UnversionedInv DEF CompatibilityWrite, IInv, TypeOK

LEMMA StepInv == IInv /\ [Next]_vars => IInv'
<1> SUFFICES ASSUME IInv, [Next]_vars PROVE IInv'
  OBVIOUS
<1>1. CASE UNCHANGED vars
  BY <1>1, LogKept
     DEF vars, IInv, TypeOK, NothingBefore, SentDistinct, SentKnown, LogInv,
         EventsAsked, CheckedFresh, Admits
<1>2. CASE MaterializeEvidence \/ MaterializeLive \/ GovernLive \/ CompatibilityWrite
  BY <1>2, MaterializeInv, GovernInv, CompatibilityInv
<1>3. ASSUME NEW h \in Handler, Send(h) \/ SendAgain(h) \/ Check(h) \/ Record(h)
      PROVE  IInv'
  BY <1>3, SendInv, SendAgainInv, CheckInv, RecordInv
<1> QED
  BY <1>1, <1>2, <1>3 DEF Next

LEMMA Invariant == Spec => []IInv
BY InitInv, StepInv, PTL DEF Spec

-----------------------------------------------------------------------------
\* The types of the state.
THEOREM TypeCorrect == Spec => []TypeOK
BY Invariant, PTL DEF IInv

\* TransitionsFollowTable: the check and the append are two transactions, and
\* yet every status that the API records is one the table allows at its place.
THEOREM TableIsFollowed == Spec => []TransitionsFollowTable
BY Invariant, PTL DEF IInv, LogInv

\* NoReportOnTerminal: no field report is recorded on completed work.
THEOREM CompletedWorkStays == Spec => []NoReportOnTerminal
BY Invariant, PTL DEF IInv, LogInv

\* AppliedOnce: the log has a request once, and a key once.
THEOREM RepetitionIsHarmless == Spec => []AppliedOnce
<1>1. IInv => AppliedOnce
  <2> SUFFICES ASSUME IInv, NEW m \in DOMAIN log, NEW n \in DOMAIN log, m # n
               PROVE  /\ log[m].id = log[n].id => log[m].id = NoRequest
                      /\ log[m].key = log[n].key => log[m].key = NoKey
    BY DEF AppliedOnce
  <2>1. log[m].key = log[n].key => log[m].key = NoKey
    BY DEF IInv, LogInv, KeysDistinct
  <2>2. ASSUME log[m].id = log[n].id, log[m].id # NoRequest PROVE FALSE
    <3>1. PICK r \in sent : r.id = log[m].id /\ r.expected = m - 1
      BY <2>2 DEF IInv, LogInv, EventsAsked
    <3>2. PICK s \in sent : s.id = log[n].id /\ s.expected = n - 1
      BY <2>2 DEF IInv, LogInv, EventsAsked
    <3>3. r = s
      BY <2>2, <3>1, <3>2 DEF IInv, SentDistinct
    <3> QED
      BY <3>1, <3>2, <3>3 DEF IInv, TypeOK
  <2> QED
    BY <2>1, <2>2
<1> QED
  BY <1>1, Invariant, PTL

\* NoLostEdit: an event stands where the page of its client said it would.
THEOREM NoEditIsLost == Spec => []NoLostEdit
<1>1. IInv => NoLostEdit
  <2> SUFFICES ASSUME IInv, NEW n \in DOMAIN log, NEW request \in sent,
                      log[n].id = request.id
               PROVE  request.expected = n - 1
    BY DEF NoLostEdit
  <2>1. log[n].id # NoRequest
    BY DEF IInv, TypeOK, Request, RequestId, NoRequest
  <2>2. PICK r \in sent : r.id = log[n].id /\ r.expected = n - 1
    BY <2>1 DEF IInv, LogInv, EventsAsked
  <2> QED
    BY <2>2 DEF IInv, SentDistinct
<1> QED
  BY <1>1, Invariant, PTL
=============================================================================
