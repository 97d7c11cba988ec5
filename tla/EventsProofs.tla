---------------------------- MODULE EventsProofs ----------------------------
(***************************************************************************)
(* Theorems about Events, for any number of events and requests, any times *)
(* and any TTL: what a caller was told stays true, no event has two        *)
(* creators, and an event that ended is never open again.                  *)
(***************************************************************************)
EXTENDS Events, TLAPS

Answers == {"none", "created", "ended", "updated", "ok", "refused", "error"}
Places == {"idle", "insert", "close", "update", "done"}

HandlersTyped ==
  /\ pc \in [Request -> Places]
  /\ seen \in [Request -> Row]
  /\ at \in [Request -> 0..MaxTime]
  /\ answer \in [Request -> Answers]

\* What handler r knows: it closes or updates a row that exists, it has not answered
\* while it runs, and what it answered is true.
Promise(r) ==
  /\ pc[r] \in {"close", "update"} => Exists(ask[r].e)
  /\ pc[r] # "done" => answer[r] = "none"
  /\ answer[r] = "created" => Exists(ask[r].e) /\ ask[r].start \in {Unset, row[ask[r].e].start}
  /\ answer[r] = "ended" => Exists(ask[r].e) /\ Ended(ask[r].e)

EventInv ==
  /\ TypeOK
  /\ \A r \in Request : Promise(r)
  /\ OneCreator

\* What no step does to an event.
Kept ==
  \A e \in Event : Exists(e) =>
    row'[e].start = row[e].start /\ (Ended(e) => row'[e].end # Unset)

LEMMA Constants ==
  /\ MaxTime \in Nat /\ TTL \in Nat /\ Unset = -1 /\ Unset \in Time /\ Unset \notin 0..MaxTime
  /\ NoRow \in Row /\ NoText \in Field /\ Asks \subseteq Ask
  /\ \A t \in 0..MaxTime : t \in Time /\ t # Unset
  BY TimeAssumption, TextAssumption, AsksAssumption DEF Unset, Time, NoRow, Row, Field, NoText

(***************************************************************************)
(* How a handler moves.                                                    *)
(***************************************************************************)

\* Handler r is at place l with answer a now; the others are where they were.
Moved(r, l, a) ==
  /\ HandlersTyped'
  /\ pc'[r] = l /\ answer'[r] = a
  /\ \A s \in Request \ {r} : pc'[s] = pc[s] /\ answer'[s] = answer[s]

LEMMA AnswerMoves ==
  ASSUME HandlersTyped, NEW r \in Request, NEW a \in Answers, Answer(r, a)
  PROVE  Moved(r, "done", a)
<1>1. 0 \in 0..MaxTime /\ NoRow \in Row
  BY Constants
<1>2. QED
  BY <1>1 DEF Answer, Moved, HandlersTyped, Places

LEMMA GotoMoves ==
  ASSUME HandlersTyped, now \in 0..MaxTime, NEW r \in Request, NEW event \in Row, NEW l \in Places,
         Goto(r, l, event)
  PROVE  Moved(r, l, answer[r])
  BY DEF Goto, Moved, HandlersTyped

LEMMA ProceedMoves ==
  ASSUME HandlersTyped, now \in 0..MaxTime, NEW r \in Request, NEW q, NEW event \in Row,
         Proceed(r, q, event)
  PROVE  Moved(r, "done", "ok") \/ Moved(r, "done", "refused") \/ Moved(r, "close", answer[r])
<1>1. "ok" \in Answers /\ "refused" \in Answers /\ "close" \in Places
  BY DEF Answers, Places
<1>2. Answer(r, "ok") \/ Answer(r, "refused") \/ Goto(r, "close", event)
  BY DEF Proceed
<1>3. QED
  BY <1>1, <1>2, AnswerMoves, GotoMoves

\* One handler moves and keeps its promise, and no row loses what it had.
LEMMA HandlerKeeps ==
  ASSUME EventInv, NEW r \in Request, NEW l \in Places, NEW a \in Answers, Moved(r, l, a), Kept,
         row' \in [Event -> {x \in Row : x.auto => x.end # Unset}],
         ask' \in [Request -> Asks], \A s \in Request \ {r} : ask'[s] = ask[s],
         now' = now, ctxDone' = ctxDone,
         Promise(r)',
         a = "created" => \A s \in Request \ {r} : answer[s] = "created" => ask[s].e # ask'[r].e
  PROVE  EventInv'
<1>1. TypeOK'
  BY DEF EventInv, TypeOK, Moved, HandlersTyped, Places, Answers
<1>2. ASSUME NEW s \in Request PROVE Promise(s)'
  <2>1. CASE s = r
    BY <2>1
  <2>2. CASE s # r
    <3>1. pc'[s] = pc[s] /\ answer'[s] = answer[s] /\ ask'[s] = ask[s]
      BY <2>2 DEF Moved
    <3>2. ask[s].e \in Event
      BY Constants DEF EventInv, TypeOK, Ask
    <3>3. Exists(ask[s].e) => /\ row'[ask[s].e].start = row[ask[s].e].start
                              /\ row'[ask[s].e].start # Unset
                              /\ Ended(ask[s].e) => row'[ask[s].e].end # Unset
      BY <3>2 DEF Kept, Exists
    <3>4. Promise(s)
      BY DEF EventInv
    <3>5. QED
      BY <3>1, <3>3, <3>4 DEF Promise, Exists, Ended
  <2>3. QED
    BY <2>1, <2>2
<1>3. OneCreator'
  BY DEF EventInv, OneCreator, Moved
<1>4. QED
  BY <1>1, <1>2, <1>3 DEF EventInv

(***************************************************************************)
(* The actions.                                                            *)
(***************************************************************************)

LEMMA Typed ==
  ASSUME EventInv
  PROVE  /\ HandlersTyped /\ now \in 0..MaxTime /\ row \in [Event -> Row] /\ ask \in [Request -> Asks]
         /\ \A r \in Request : /\ Promise(r) /\ ask[r] \in Asks /\ ask[r] \in Ask /\ ask[r].e \in Event
                               /\ ask[r].start \in Time /\ ask[r].end \in Time
                               /\ ask[r].name \in Field /\ ask[r].severity \in Field
                               /\ at[r] \in 0..MaxTime /\ seen[r] \in Row
<1>1. HandlersTyped /\ now \in 0..MaxTime /\ row \in [Event -> Row] /\ ask \in [Request -> Asks]
  BY DEF EventInv, TypeOK, HandlersTyped, Places, Answers
<1>2. \A r \in Request : Promise(r) /\ ask[r] \in Ask
  BY <1>1, Constants DEF EventInv
<1>3. QED
  BY <1>1, <1>2 DEF Ask, HandlersTyped

\* A time the handler takes is a time of the clock, or the one the request names.
LEMMA GivenTimes ==
  ASSUME EventInv, NEW r \in Request, NEW q \in Time, NEW t \in Given(r, q)
  PROVE  t \in 0..MaxTime /\ t # Unset /\ t \in Time /\ (q # Unset => t = q)
<1>1. t \in 0..MaxTime /\ (q # Unset => t = q)
  <2>1. CASE q # Unset
    BY <2>1 DEF Given, Time
  <2>2. CASE q = Unset
    <3>1. t \in at[r]..now /\ at[r] \in 0..MaxTime /\ now \in 0..MaxTime
      BY <2>2, Typed DEF Given
    <3>2. QED
      BY <2>2, <3>1, Constants
  <2>3. QED
    BY <2>1, <2>2
<1>2. QED
  BY <1>1, Constants

LEMMA SameRows ==
  ASSUME EventInv, row' = row
  PROVE  Kept /\ row' \in [Event -> {x \in Row : x.auto => x.end # Unset}]
  BY DEF Kept, EventInv, TypeOK, Ended

\* A handler that has read its event: it ends, or goes on to write.
LEMMA ReceiveKeeps ==
  ASSUME EventInv, NEW r \in Request, NEW q \in Asks, Receive(r, q)
  PROVE  EventInv' /\ Kept
<1> DEFINE event == row[q.e]
<1>1. /\ pc[r] = "idle" /\ ask' = [ask EXCEPT ![r] = q]
      /\ row' = row /\ now' = now /\ ctxDone' = ctxDone
  BY DEF Receive
<1>2. q \in Ask /\ q.e \in Event /\ event \in Row
  BY Constants, Typed DEF Ask
<1>3. answer[r] = "none" /\ HandlersTyped /\ now \in 0..MaxTime
  BY <1>1, Typed DEF Promise
<1>4. ask'[r] = q /\ ask' \in [Request -> Asks] /\ \A s \in Request \ {r} : ask'[s] = ask[s]
  BY <1>1, Typed
<1>5. \/ Moved(r, "done", "ok") \/ Moved(r, "done", "refused")
      \/ Moved(r, "insert", "none")
      \/ Ended(q.e) /\ Exists(q.e) /\ Moved(r, "done", "ended")
      \/ Exists(q.e) /\ (Moved(r, "close", "none") \/ Moved(r, "update", "none"))
  <2>1. /\ "refused" \in Answers /\ "ended" \in Answers
        /\ "insert" \in Places /\ "close" \in Places /\ "update" \in Places
    BY DEF Answers, Places
  <2>2. CASE Answer(r, "refused")
    BY <1>3, <2>1, <2>2, AnswerMoves
  <2>3. CASE Goto(r, "insert", event)
    BY <1>2, <1>3, <2>1, <2>3, GotoMoves
  <2>4. CASE Exists(q.e) /\ Proceed(r, q, event)
    BY <1>2, <1>3, <2>4, ProceedMoves
  <2>5. CASE Exists(q.e) /\ Ended(q.e) /\ Answer(r, "ended")
    BY <1>3, <2>1, <2>5, AnswerMoves
  <2>6. CASE Exists(q.e) /\ (Goto(r, "close", event) \/ Goto(r, "update", event))
    BY <1>2, <1>3, <2>1, <2>6, GotoMoves
  <2>7. QED
    <3>1. CASE q.op = "create"
      BY <2>2, <2>3, <3>1 DEF Receive
    <3>2. CASE q.op = "publish"
      BY <2>3, <2>4, <3>2 DEF Receive
    <3>3. CASE q.op = "end"
      BY <2>2, <2>5, <2>6, <3>3 DEF Receive
    <3>4. CASE q.op = "update"
      BY <2>2, <2>6, <3>4 DEF Receive
    <3>5. QED
      BY <3>1, <3>2, <3>3, <3>4 DEF Receive
<1>6. PICK l \in Places, a \in Answers :
        /\ Moved(r, l, a) /\ a # "created"
        /\ l \in {"close", "update"} => Exists(q.e)
        /\ l # "done" => a = "none"
        /\ a = "ended" => Exists(q.e) /\ Ended(q.e)
  BY <1>5 DEF Answers, Places
<1>7. Promise(r)'
  BY <1>1, <1>4, <1>6 DEF Promise, Moved, Exists, Ended
<1>8. QED
  BY <1>1, <1>4, <1>6, <1>7, SameRows, HandlerKeeps

LEMMA InsertKeeps ==
  ASSUME EventInv, NEW r \in Request, Insert(r)
  PROVE  EventInv' /\ Kept
<1> DEFINE q == ask[r]
<1>1. pc[r] = "insert" /\ ask' = ask /\ now' = now /\ ctxDone' = ctxDone
  BY DEF Insert
<1>2. /\ answer[r] = "none" /\ HandlersTyped /\ now \in 0..MaxTime /\ ask \in [Request -> Asks]
      /\ q \in Ask /\ q.e \in Event
      /\ q.start \in Time /\ q.name \in Field /\ q.severity \in Field
  BY <1>1, Typed DEF Promise
<1>3. CASE Answer(r, "error") /\ UNCHANGED row
  <2>1. "error" \in Answers /\ "done" \in Places
    BY DEF Answers, Places
  <2>2. Moved(r, "done", "error")
    BY <1>2, <1>3, <2>1, AnswerMoves
  <2>3. Promise(r)'
    BY <2>2 DEF Promise, Moved
  <2>4. QED
    BY <1>1, <1>2, <1>3, <2>1, <2>2, <2>3, SameRows, HandlerKeeps
<1>4. CASE ~Exists(q.e) /\ \E t \in Given(r, q.start) :
             LET event == [NoRow EXCEPT !.start = t, !.name = q.name, !.severity = q.severity] IN
             /\ row' = [row EXCEPT ![q.e] = event]
             /\ IF q.op = "create" THEN Answer(r, "created") ELSE Proceed(r, q, event)
  <2>1. PICK t \in Given(r, q.start) :
          LET event == [NoRow EXCEPT !.start = t, !.name = q.name, !.severity = q.severity] IN
          /\ row' = [row EXCEPT ![q.e] = event]
          /\ IF q.op = "create" THEN Answer(r, "created") ELSE Proceed(r, q, event)
    BY <1>4
  <2> DEFINE event == [NoRow EXCEPT !.start = t, !.name = q.name, !.severity = q.severity]
  <2>2. t # Unset /\ t \in Time /\ (q.start # Unset => t = q.start)
    BY <1>2, GivenTimes
  <2> DEFINE started == [NoRow EXCEPT !.start = t]
             named == [started EXCEPT !.name = q.name]
  <2>3. started \in Row /\ started.start = t /\ started.auto = FALSE
    BY <2>2, Constants DEF NoRow, Row
  <2>4. event \in Row /\ event.start = t /\ event.auto = FALSE
    <3>1. event = [named EXCEPT !.severity = q.severity]
      OBVIOUS
    <3> HIDE DEF started
    <3>2. named \in Row /\ named.start = t /\ named.auto = FALSE
      BY <1>2, <2>3 DEF Row
    <3> HIDE DEF named
    <3>3. QED
      BY <1>2, <3>1, <3>2 DEF Row
  <2>5. row' = [row EXCEPT ![q.e] = event] /\ IF q.op = "create" THEN Answer(r, "created") ELSE Proceed(r, q, event)
    BY <2>1
  <2> HIDE DEF event
  <2>6. /\ row' \in [Event -> {x \in Row : x.auto => x.end # Unset}]
        /\ row'[q.e].start = t /\ \A e \in Event : e # q.e => row'[e] = row[e]
    BY <1>2, <2>4, <2>5 DEF EventInv, TypeOK
  <2>7. Kept
    BY <1>4, <2>6 DEF Kept, Ended
  <2>8. \/ Moved(r, "done", "created") \/ Moved(r, "done", "ok") \/ Moved(r, "done", "refused")
        \/ Moved(r, "close", "none")
    <3>1. "created" \in Answers
      BY DEF Answers
    <3>2. QED
      BY <1>2, <2>4, <2>5, <3>1, AnswerMoves, ProceedMoves
  <2>9. PICK l \in Places, a \in Answers :
          /\ Moved(r, l, a) /\ a # "ended"
          /\ l \in {"done", "close"} /\ (l # "done" => a = "none")
    BY <2>8 DEF Answers, Places
  <2>10. Promise(r)'
    BY <1>1, <2>2, <2>6, <2>9 DEF Promise, Moved, Exists
  <2>11. ASSUME NEW s \in Request \ {r}, answer[s] = "created" PROVE ask[s].e # ask'[r].e
    BY <1>1, <1>4, <2>11, Typed DEF Promise
  <2>12. QED
    BY <1>1, <1>2, <2>6, <2>7, <2>9, <2>10, <2>11, HandlerKeeps
<1>5. QED
  BY <1>3, <1>4 DEF Insert

LEMMA CloseKeeps ==
  ASSUME EventInv, NEW r \in Request, Close(r)
  PROVE  EventInv' /\ Kept
<1> DEFINE q == ask[r]
<1>1. /\ pc[r] = "close" /\ ask' = ask /\ now' = now /\ ctxDone' = ctxDone
      /\ Answer(r, "ended")
  BY DEF Close
<1>2. /\ HandlersTyped /\ ask \in [Request -> Asks] /\ q.e \in Event /\ q.end \in Time
      /\ row \in [Event -> Row] /\ Exists(q.e)
  BY <1>1, Typed DEF Promise
<1>3. PICK t \in Given(r, q.end) : row' = [row EXCEPT ![q.e].end = t]
  BY DEF Close
<1>4. t # Unset /\ t \in Time
  BY <1>2, GivenTimes
<1>5. /\ row' \in [Event -> {x \in Row : x.auto => x.end # Unset}]
      /\ row'[q.e].start = row[q.e].start /\ row'[q.e].end = t
      /\ \A e \in Event : e # q.e => row'[e] = row[e]
  <2> DEFINE x == [row[q.e] EXCEPT !.end = t]
  <2>1. x \in Row /\ x.start = row[q.e].start /\ x.end = t
    BY <1>2, <1>4 DEF Row
  <2>2. row' = [row EXCEPT ![q.e] = x]
    BY <1>3
  <2> HIDE DEF x
  <2>3. QED
    BY <1>2, <1>4, <2>1, <2>2 DEF EventInv, TypeOK
<1>6. Kept
  BY <1>4, <1>5 DEF Kept, Ended
<1>7. "ended" \in Answers /\ "done" \in Places
  BY DEF Answers, Places
<1>8. Moved(r, "done", "ended")
  BY <1>1, <1>2, <1>7, AnswerMoves
<1>9. Promise(r)'
  BY <1>1, <1>2, <1>4, <1>5, <1>8 DEF Promise, Moved, Exists, Ended
<1>10. QED
  BY <1>1, <1>2, <1>5, <1>6, <1>7, <1>8, <1>9, HandlerKeeps

LEMMA UpdateKeeps ==
  ASSUME EventInv, NEW r \in Request, Update(r)
  PROVE  EventInv' /\ Kept
<1> DEFINE q == ask[r]
           n == Merge(q.name, seen[r].name)
           s == Merge(q.severity, seen[r].severity)
<1>1. /\ pc[r] = "update" /\ ask' = ask /\ now' = now /\ ctxDone' = ctxDone
      /\ Answer(r, "updated")
      /\ row' = [row EXCEPT ![q.e].name = n, ![q.e].severity = s]
  BY DEF Update
<1>2. /\ HandlersTyped /\ ask \in [Request -> Asks] /\ q.e \in Event
      /\ row \in [Event -> Row] /\ seen[r] \in Row
      /\ q.name \in Field /\ q.severity \in Field
  BY Typed
<1>3. n \in Field /\ s \in Field
  BY <1>2 DEF Merge, Row
<1> HIDE DEF n, s
<1>4. /\ row' \in [Event -> {x \in Row : x.auto => x.end # Unset}]
      /\ row'[q.e].start = row[q.e].start /\ row'[q.e].end = row[q.e].end
      /\ \A e \in Event : e # q.e => row'[e] = row[e]
  <2> DEFINE one == [row EXCEPT ![q.e].name = n]
  <2>1. /\ one \in [Event -> {x \in Row : x.auto => x.end # Unset}]
        /\ one[q.e].start = row[q.e].start /\ one[q.e].end = row[q.e].end
        /\ \A e \in Event : e # q.e => one[e] = row[e]
    BY <1>2, <1>3 DEF EventInv, TypeOK, Row
  <2>2. row' = [one EXCEPT ![q.e].severity = s]
    BY <1>1
  <2> HIDE DEF one
  <2>3. QED
    BY <1>2, <1>3, <2>1, <2>2 DEF Row
<1>5. Kept
  BY <1>4 DEF Kept, Ended
<1>6. "updated" \in Answers /\ "done" \in Places
  BY DEF Answers, Places
<1>7. Moved(r, "done", "updated")
  BY <1>1, <1>2, <1>6, AnswerMoves
<1>8. Promise(r)'
  BY <1>7 DEF Promise, Moved
<1>9. QED
  BY <1>1, <1>2, <1>4, <1>5, <1>6, <1>7, <1>8, HandlerKeeps

LEMMA FailKeeps ==
  ASSUME EventInv, NEW r \in Request, Fail(r)
  PROVE  EventInv' /\ Kept
<1>1. /\ row' = row /\ ask' = ask /\ now' = now /\ ctxDone' = ctxDone /\ Answer(r, "error")
  BY DEF Fail
<1>2. HandlersTyped /\ ask \in [Request -> Asks] /\ "error" \in Answers /\ "done" \in Places
  BY Typed DEF Answers, Places
<1>3. Moved(r, "done", "error")
  BY <1>1, <1>2, AnswerMoves
<1>4. Promise(r)'
  BY <1>3 DEF Promise, Moved
<1>5. QED
  BY <1>1, <1>2, <1>3, <1>4, SameRows, HandlerKeeps

\* The sweeper, the clock and the shutdown leave the handlers where they are.
LEMMA OthersKeep ==
  ASSUME EventInv, Sweep \/ Tick \/ Cancel \/ UNCHANGED vars
  PROVE  EventInv' /\ Kept
<1>1. UNCHANGED <<pc, ask, seen, at, answer>>
  BY DEF Sweep, Tick, Cancel, vars
<1>2. TypeOK /\ now \in 0..MaxTime /\ row \in [Event -> Row]
  BY Typed DEF EventInv
<1>3. Kept /\ row' \in [Event -> {x \in Row : x.auto => x.end # Unset}]
  <2>1. CASE Sweep
    <3>1. now \in Time /\ now # Unset
      BY <1>2, Constants
    <3>2. \A e \in Event : row'[e] = IF Stale(e) THEN [row[e] EXCEPT !.end = now, !.auto = TRUE] ELSE row[e]
      BY <2>1 DEF Sweep
    <3>3. \A e \in Event : /\ row[e] \in {x \in Row : x.auto => x.end # Unset}
                           /\ row[e] \in [start : Time, end : Time, name : Field, severity : Field, auto : BOOLEAN]
      BY <1>2 DEF TypeOK, Row
    <3>4. \A e \in Event : LET x == [row[e] EXCEPT !.end = now, !.auto = TRUE] IN
            x \in Row /\ x.start = row[e].start /\ x.end = now
      BY <3>1, <3>3 DEF Row
    <3>5. Kept
      BY <3>1, <3>2, <3>4 DEF Kept, Ended
    <3>6. \A e \in Event : row'[e] \in {x \in Row : x.auto => x.end # Unset}
      BY <3>1, <3>2, <3>3, <3>4
    <3>7. row' = [e \in Event |-> row'[e]]
      BY <2>1 DEF Sweep
    <3>8. QED
      BY <3>5, <3>6, <3>7
  <2>2. CASE Tick \/ Cancel \/ UNCHANGED vars
    BY <2>2, SameRows DEF Tick, Cancel, vars
  <2>3. QED
    BY <2>1, <2>2
<1>4. now' \in 0..MaxTime /\ ctxDone' \in BOOLEAN
  <2>1. CASE Sweep \/ Cancel \/ UNCHANGED vars
    BY <1>2, <2>1 DEF Sweep, Cancel, vars, TypeOK
  <2>2. CASE Tick
    BY <1>2, <2>2, Constants DEF Tick, TypeOK
  <2>3. QED
    BY <2>1, <2>2
<1>5. TypeOK'
  BY <1>1, <1>2, <1>3, <1>4 DEF TypeOK
<1>6. ASSUME NEW r \in Request PROVE Promise(r)'
  <2>1. Promise(r) /\ ask[r].e \in Event
    BY Typed
  <2>2. Exists(ask[r].e) => /\ row'[ask[r].e].start = row[ask[r].e].start
                            /\ row'[ask[r].e].start # Unset
                            /\ Ended(ask[r].e) => row'[ask[r].e].end # Unset
    BY <1>3, <2>1 DEF Kept, Exists
  <2>3. QED
    BY <1>1, <2>1, <2>2 DEF Promise, Exists, Ended
<1>7. OneCreator'
  BY <1>1 DEF EventInv, OneCreator
<1>8. QED
  BY <1>3, <1>5, <1>6, <1>7 DEF EventInv

(***************************************************************************)
(* The theorems.                                                           *)
(***************************************************************************)

LEMMA EventStep == EventInv /\ [Next]_vars => EventInv' /\ Kept
<1> SUFFICES ASSUME EventInv, [Next]_vars PROVE EventInv' /\ Kept
  OBVIOUS
<1>1. CASE \E r \in Request : Handler(r)
  BY <1>1, ReceiveKeeps, InsertKeeps, CloseKeeps, UpdateKeeps, FailKeeps DEF Handler
<1>2. CASE Sweep \/ Tick \/ Cancel \/ UNCHANGED vars
  BY <1>2, OthersKeep
<1>3. QED
  BY <1>1, <1>2 DEF Next

LEMMA EventStart == Init => EventInv
<1> SUFFICES ASSUME Init PROVE EventInv
  OBVIOUS
<1>1. (CHOOSE q \in Asks : TRUE) \in Asks
  BY AsksAssumption
<1>2. NoRow \in Row /\ ~NoRow.auto /\ 0 \in 0..MaxTime
  BY Constants DEF NoRow
<1>3. TypeOK
  BY <1>1, <1>2 DEF Init, TypeOK
<1>4. (\A r \in Request : Promise(r)) /\ OneCreator
  BY DEF Init, Promise, OneCreator
<1>5. QED
  BY <1>3, <1>4 DEF EventInv

\* The invariant holds in every reachable state. (api/resources.go, api/handlers.go
\* and notify/sweeper.go, handlers interleaving between their reads and writes)
THEOREM EventsConsistent == Spec => []EventInv
<1>1. QED
  BY EventStart, EventStep, PTL DEF Spec

\* Every variable keeps its type, and an event flagged as auto-closed has an end.
\* (the columns of the events table)
THEOREM EventsTyped == Spec => []TypeOK
<1>1. EventInv => TypeOK
  BY DEF EventInv
<1>2. QED
  BY <1>1, EventsConsistent, PTL

\* An event a caller was told it created starts when it asked for, and one it was told
\* it ended has an end, whatever others write later. (handleCreateEvent, handleEndEvent)
THEOREM AnswersStayTrue == Spec => []AnswersHold
<1>1. EventInv => AnswersHold
  BY DEF EventInv, AnswersHold, Promise
<1>2. QED
  BY <1>1, EventsConsistent, PTL

\* However many requests create one event at once, one is told that it did.
\* (the unique index on event_id behind handleCreateEvent)
THEOREM CreatedOnce == Spec => []OneCreator
<1>1. EventInv => OneCreator
  BY DEF EventInv
<1>2. QED
  BY <1>1, EventsConsistent, PTL

\* An event that ended never opens again and no event starts at another time, whatever
\* handlers write back what they read. (UpdateEvent, UpdateEventEndTime, the sweeper)
THEOREM EndedStays == Spec => StaysEnded
<1>1. EventInv /\ [Next]_vars =>
        [\A e \in Event : Exists(e) =>
           /\ row'[e].start = row[e].start
           /\ Ended(e) => row'[e].end # Unset]_vars
  BY EventStep DEF Kept
<1>2. QED
  BY <1>1, EventsConsistent, PTL DEF Spec, StaysEnded
=============================================================================
