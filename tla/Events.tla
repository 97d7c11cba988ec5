------------------------------- MODULE Events --------------------------------
(***************************************************************************)
(* Events: the incidents notifications are published for. HTTP handlers    *)
(* create, update and end them (api/resources.go), publishing creates or   *)
(* ends them on the way (api/handlers.go), and a sweeper closes the ones   *)
(* left open too long (notify/sweeper.go). A handler first reads the row   *)
(* and later writes it; other handlers and the sweeper run in between. A   *)
(* query is atomic, and a handler whose query fails answers 500 and stops. *)
(* Time is a clock of small steps. Of the four mutable fields two are kept *)
(* (the others behave alike); clearing a field with "", the URL, severity  *)
(* lists and the audit log are left out.                                   *)
(***************************************************************************)
EXTENDS Integers

CONSTANTS
  Event,    \* event ids
  Request,  \* handlers in flight, one per request
  Text,     \* values of the event's mutable fields
  Asks,     \* bound: what the requests may ask for
  TTL,      \* event_sweep.ttl
  MaxTime   \* bound: the clock's last value

Unset == -1        \* a time that was not given; end_time IS NULL
NoText == "unset"  \* a field that was not given; NULL

Time == {Unset} \cup 0..MaxTime
Field == Text \cup {NoText}
Row == [start : Time, end : Time, name : Field, severity : Field, auto : BOOLEAN]
NoRow == [start |-> Unset, end |-> Unset, name |-> NoText, severity |-> NoText, auto |-> FALSE]

Op == {"create", "publish", "end", "update"}
Ask == [op : Op, e : Event, start : Time, end : Time, name : Field, severity : Field]

ASSUME TimeAssumption == TTL \in Nat /\ MaxTime \in Nat
ASSUME TextAssumption == NoText \notin Text
ASSUME AsksAssumption == Asks \subseteq Ask /\ Asks # {}

VARIABLES
  row,     \* the events table; start = Unset where there is no row
  now,     \* the clock
  pc,      \* idle, insert, close, update, done
  ask,     \* what each request asks for
  seen,    \* the row its handler read
  at,      \* the time it read the row
  answer,  \* "none", "created", "ended", "updated", "ok", "refused", "error"
  ctxDone  \* the process is shutting down: the sweeper stops

vars == <<row, now, pc, ask, seen, at, answer, ctxDone>>

Exists(e) == row[e].start # Unset
Ended(e) == row[e].end # Unset

\* A row that is flagged as auto-closed has an end.
TypeOK ==
  /\ row \in [Event -> {x \in Row : x.auto => x.end # Unset}]
  /\ now \in 0..MaxTime
  /\ pc \in [Request -> {"idle", "insert", "close", "update", "done"}]
  /\ ask \in [Request -> Asks]
  /\ seen \in [Request -> Row]
  /\ at \in [Request -> 0..MaxTime]
  /\ answer \in [Request -> {"none", "created", "ended", "updated", "ok", "refused", "error"}]
  /\ ctxDone \in BOOLEAN

Init ==
  /\ row = [e \in Event |-> NoRow]
  /\ now = 0
  /\ pc = [r \in Request |-> "idle"]
  /\ ask = [r \in Request |-> CHOOSE q \in Asks : TRUE]
  /\ seen = [r \in Request |-> NoRow]
  /\ at = [r \in Request |-> 0]
  /\ answer = [r \in Request |-> "none"]
  /\ ctxDone = FALSE

-----------------------------------------------------------------------------
\* Handlers.

\* The handler answers; what it read is forgotten.
Answer(r, a) ==
  /\ pc' = [pc EXCEPT ![r] = "done"]
  /\ answer' = [answer EXCEPT ![r] = a]
  /\ seen' = [seen EXCEPT ![r] = NoRow]
  /\ at' = [at EXCEPT ![r] = 0]

\* The handler read (or inserted) an event and goes on to write at l.
Goto(r, l, event) ==
  /\ pc' = [pc EXCEPT ![r] = l]
  /\ seen' = [seen EXCEPT ![r] = event]
  /\ at' = [at EXCEPT ![r] = now]
  /\ UNCHANGED answer

\* A time the handler takes itself lies between its read and its write.
Given(r, t) == IF t # Unset THEN {t} ELSE at[r]..now

\* Publishing goes on to close an event that was open when it was read, if the
\* request names an end; an end before the start is refused.
Proceed(r, q, event) ==
  IF q.end = Unset \/ event.end # Unset THEN Answer(r, "ok")
  ELSE IF q.end < event.start THEN Answer(r, "refused")
  ELSE Goto(r, "close", event)

\* A request arrives and its handler reads the event.
Receive(r, q) ==
  LET event == row[q.e] IN
  /\ pc[r] = "idle"
  /\ ask' = [ask EXCEPT ![r] = q]
  /\ \/ q.op = "create"
        /\ IF Exists(q.e) THEN Answer(r, "refused") ELSE Goto(r, "insert", event)
     \/ q.op = "publish"
        /\ IF Exists(q.e) THEN Proceed(r, q, event) ELSE Goto(r, "insert", event)
     \/ q.op = "end"
        /\ IF ~Exists(q.e) THEN Answer(r, "refused")
           ELSE IF Ended(q.e) THEN Answer(r, "ended")
           ELSE IF q.end # Unset /\ q.end < event.start THEN Answer(r, "refused")
           ELSE Goto(r, "close", event)
     \/ q.op = "update"
        /\ IF Exists(q.e) THEN Goto(r, "update", event) ELSE Answer(r, "refused")
  /\ UNCHANGED <<row, now, ctxDone>>

\* Mutant: the insert replaces a row that has the same event_id.
InsertReplaces(r) ==
  LET q == ask[r] IN
  /\ pc[r] = "insert"
  /\ \E t \in Given(r, q.start) :
       LET event == [NoRow EXCEPT !.start = t, !.name = q.name, !.severity = q.severity] IN
       /\ row' = [row EXCEPT ![q.e] = event]
       /\ IF q.op = "create" THEN Answer(r, "created") ELSE Proceed(r, q, event)
  /\ UNCHANGED <<now, ask, ctxDone>>

\* The unique index on event_id refuses the second of two concurrent inserts.
Insert(r) ==
  LET q == ask[r] IN
  /\ pc[r] = "insert"
  /\ \/ /\ Exists(q.e)
        /\ Answer(r, "error")
        /\ UNCHANGED row
     \/ /\ ~Exists(q.e)
        /\ \E t \in Given(r, q.start) :
             LET event == [NoRow EXCEPT !.start = t, !.name = q.name, !.severity = q.severity] IN
             /\ row' = [row EXCEPT ![q.e] = event]
             /\ IF q.op = "create" THEN Answer(r, "created") ELSE Proceed(r, q, event)
  /\ UNCHANGED <<now, ask, ctxDone>>

\* Mutant: the caller is told "ended" although the write may have failed.
CloseUnchecked(r) ==
  LET q == ask[r] IN
  /\ pc[r] = "close"
  /\ \/ \E t \in Given(r, q.end) : row' = [row EXCEPT ![q.e].end = t]
     \/ UNCHANGED row
  /\ Answer(r, "ended")
  /\ UNCHANGED <<now, ask, ctxDone>>

\* Mutant: an end that was not given is not replaced by the current time.
CloseWithoutDefault(r) ==
  LET q == ask[r] IN
  /\ pc[r] = "close"
  /\ row' = [row EXCEPT ![q.e].end = q.end]
  /\ Answer(r, "ended")
  /\ UNCHANGED <<now, ask, ctxDone>>

\* UpdateEventEndTime sets end_time whatever it is by now, and leaves auto_closed.
Close(r) ==
  LET q == ask[r] IN
  /\ pc[r] = "close"
  /\ \E t \in Given(r, q.end) : row' = [row EXCEPT ![q.e].end = t]
  /\ Answer(r, "ended")
  /\ UNCHANGED <<now, ask, ctxDone>>

Merge(new, old) == IF new = NoText THEN old ELSE new

\* Mutant: the whole row that was read is written back.
UpdateWholeRow(r) ==
  LET q == ask[r] IN
  /\ pc[r] = "update"
  /\ row' = [row EXCEPT ![q.e] = [seen[r] EXCEPT !.name = Merge(q.name, @),
                                                 !.severity = Merge(q.severity, @)]]
  /\ Answer(r, "updated")
  /\ UNCHANGED <<now, ask, ctxDone>>

\* The fields the request leaves out are written back as they were read.
Update(r) ==
  LET q == ask[r] IN
  /\ pc[r] = "update"
  /\ row' = [row EXCEPT ![q.e].name = Merge(q.name, seen[r].name),
                        ![q.e].severity = Merge(q.severity, seen[r].severity)]
  /\ Answer(r, "updated")
  /\ UNCHANGED <<now, ask, ctxDone>>

\* A query fails, or the caller goes away and its context is cancelled.
Fail(r) ==
  /\ pc[r] \in {"insert", "close", "update"}
  /\ Answer(r, "error")
  /\ UNCHANGED <<row, now, ask, ctxDone>>

-----------------------------------------------------------------------------
\* The sweeper and the clock.

Stale(e) == Exists(e) /\ ~Ended(e) /\ row[e].start <= now - TTL

\* Mutant: the cutoff is compared the wrong way round.
SweepRecent ==
  LET recent == {e \in Event : Exists(e) /\ ~Ended(e) /\ row[e].start > now - TTL} IN
  /\ ~ctxDone
  /\ recent # {}
  /\ row' = [e \in Event |->
               IF e \in recent THEN [row[e] EXCEPT !.end = now, !.auto = TRUE] ELSE row[e]]
  /\ UNCHANGED <<now, pc, ask, seen, at, answer, ctxDone>>

\* One UPDATE closes every stale event. A failed one changes nothing.
Sweep ==
  /\ ~ctxDone
  /\ \E e \in Event : Stale(e)
  /\ row' = [e \in Event |->
               IF Stale(e) THEN [row[e] EXCEPT !.end = now, !.auto = TRUE] ELSE row[e]]
  /\ UNCHANGED <<now, pc, ask, seen, at, answer, ctxDone>>

Tick ==
  /\ now < MaxTime
  /\ now' = now + 1
  /\ UNCHANGED <<row, pc, ask, seen, at, answer, ctxDone>>

Cancel ==
  /\ ~ctxDone
  /\ ctxDone' = TRUE
  /\ UNCHANGED <<row, now, pc, ask, seen, at, answer>>

-----------------------------------------------------------------------------
Handler(r) ==
  \/ \E q \in Asks : Receive(r, q)
  \/ Insert(r) \/ Close(r) \/ Update(r) \/ Fail(r)

Next ==
  \/ \E r \in Request : Handler(r)
  \/ Sweep \/ Tick \/ Cancel

Spec == Init /\ [][Next]_vars

\* Time passes and the sweeper's ticker keeps ticking (event_sweep.enabled). No
\* handler is assumed to go on.
FairSpec == Spec /\ WF_vars(Tick) /\ WF_vars(Sweep)

-----------------------------------------------------------------------------
\* Properties.

\* What a caller was told stays true, whatever the others write later: an event a
\* caller created starts when it asked for, and one it ended has an end.
AnswersHold ==
  \A r \in Request :
    LET q == ask[r] IN
    /\ answer[r] = "created" => Exists(q.e) /\ q.start \in {Unset, row[q.e].start}
    /\ answer[r] = "ended" => Ended(q.e)

\* Two requests are never both told that they created one event.
OneCreator ==
  \A r, s \in Request :
    answer[r] = "created" /\ answer[s] = "created" /\ ask[r].e = ask[s].e => r = s

\* An event that ended is never open again and never starts at another time,
\* whatever an update that read it earlier writes back.
StaysEnded ==
  [][\A e \in Event : Exists(e) =>
       /\ row'[e].start = row[e].start
       /\ Ended(e) => row'[e].end # Unset]_vars

\* An event left open is closed by the sweeper, unless the process is stopped (or
\* its start is so late that the model's clock never reaches the end of its TTL).
OpenIsSwept ==
  \A e \in Event :
    (Exists(e) /\ ~Ended(e) /\ row[e].start <= MaxTime - TTL) ~> (Ended(e) \/ ctxDone)

\* resources.go:463 and openapi.yaml:735: ending an event that has an end leaves it
\* unchanged. A handler that read it open overwrites the end another one, or the
\* sweeper, has set since.
EndIsKept == [][\A e \in Event : Ended(e) => row'[e].end = row[e].end]_vars

\* openapi.yaml:690: an update changes only the fields its body includes. It writes
\* the others back as it read them, over what another update wrote since.
OmittedKept ==
  [][\A r \in Request :
       LET e == ask[r].e IN
       (pc[r] = "update" /\ answer'[r] = "updated")
         => /\ ask[r].name = NoText => row'[e].name = row[e].name
            /\ ask[r].severity = NoText => row'[e].severity = row[e].severity]_vars
=============================================================================
