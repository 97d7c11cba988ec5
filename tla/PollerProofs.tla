---------------------------- MODULE PollerProofs -----------------------------
(***************************************************************************)
(* Theorems about Poller, for any deliveries, any limit and any number of   *)
(* database errors and restarts. PollInv is the inductive invariant: which  *)
(* rows a goroutine may have listed, what it knows of the row in hand, and   *)
(* how far a row's failures can have been counted at each stage.            *)
(***************************************************************************)
EXTENDS Poller, TLAPS

\* The loop's rows are in flight and the startup check's were given up, for as long as
\* they are listed: nobody else writes them.
ListInv ==
  /\ \A d \in list["loop"] : status[d] \in InFlight(d)
  /\ \A d \in list["recheck"] : status[d] = "poll_failed"

\* What a goroutine knows of the row it has in hand.
HandInv ==
  \A p \in Goroutine :
    /\ pc[p] \in {"write", "fail", "mark"} => cur[p] \in list[p]
    /\ pc[p] = "write" => got[p] \in Terminal(cur[p]) /\ remote[cur[p]] = got[p]
    /\ pc[p] = "mark" => Limit > 0 /\ attempts[cur[p]] >= Limit

\* Rows whose failures may still be counted, and rows just counted up to the limit.
Countable(d) ==
  \/ status[d] \in {"absent"} \cup InFlight(d)
  \/ d \in list["recheck"] /\ pc["recheck"] \in {"check", "write", "fail", "mark"}
AtMark(d) == \E p \in Goroutine : pc[p] = "mark" /\ cur[p] = d

CountInv ==
  Limit > 0 =>
    \A d \in Delivery :
      /\ attempts[d] <= Limit + lost[d]
      /\ Countable(d) /\ ~AtMark(d) => attempts[d] < Limit + lost[d]

PollInv == TypeOK /\ ListInv /\ HandInv /\ StatusTruthful /\ CountInv

\* The sets of statuses that queries and mapTwilioStatus tell apart are disjoint.
LEMMA StatusFacts ==
  ASSUME NEW d \in Delivery
  PROVE  /\ InFlight(d) \cap Terminal(d) = {}
         /\ {"absent", "malformed", "poll_failed"} \cap (InFlight(d) \cup Terminal(d)) = {}
         /\ InFlight(d) \subseteq Status /\ Terminal(d) \subseteq Status
         /\ {"absent", "malformed", "poll_failed"} \subseteq Status
<1>1. /\ InFlight(d) \cap Terminal(d) = {}
      /\ {"absent", "malformed", "poll_failed"} \cap (InFlight(d) \cup Terminal(d)) = {}
  BY DEF InFlight, Terminal
<1>2. InFlight(d) \subseteq Status /\ Terminal(d) \subseteq Status
  <2>1. InFlight(d) \cup Terminal(d) \in {InFlight(x) \cup Terminal(x) : x \in Delivery}
    OBVIOUS
  <2>2. QED
    BY <2>1 DEF Status
<1>3. QED
  BY <1>1, <1>2 DEF Status

LEMMA InitInv == Init => PollInv
<1> SUFFICES ASSUME Init PROVE PollInv
  OBVIOUS
<1>1. TypeOK
  BY DEF Init, TypeOK, Start, PC, Status, Goroutine
<1>2. ListInv /\ HandInv
  BY DEF Init, ListInv, HandInv, Goroutine, Start
<1>3. StatusTruthful
  BY StatusFacts DEF Init, StatusTruthful
<1>4. CountInv
  BY LimitAssumption DEF Init, CountInv
<1>5. QED
  BY <1>1, <1>2, <1>3, <1>4 DEF PollInv

(***************************************************************************)
(* The dispatcher and the provider.                                        *)
(***************************************************************************)

LEMMA InsertInv ==
  ASSUME PollInv, NEW d \in Delivery, Insert(d)
  PROVE  PollInv'
<1> USE DEF PollInv
<1>1. PICK s \in Shown \cap InFlight(d) :
        /\ status' = [status EXCEPT ![d] = s]
        /\ remote' = [remote EXCEPT ![d] = s]
  BY DEF Insert
<1>2. TypeOK'
  BY <1>1, StatusFacts DEF Insert, TypeOK
<1>3. \A p \in Goroutine : d \notin list[p]
  BY StatusFacts DEF ListInv, Insert, Goroutine, TypeOK
<1>4. ListInv' /\ HandInv'
  BY <1>1, <1>3 DEF Insert, TypeOK, ListInv, HandInv, Goroutine
<1>5. StatusTruthful'
  BY <1>1, StatusFacts DEF Insert, TypeOK, StatusTruthful
<1>6. CountInv'
  BY <1>1, StatusFacts DEF Insert, TypeOK, CountInv, Countable, AtMark
<1>7. QED
  BY <1>2, <1>4, <1>5, <1>6

LEMMA ProgressInv ==
  ASSUME PollInv, NEW d \in Delivery, Progress(d)
  PROVE  PollInv'
<1> USE DEF PollInv
<1>1. PICK s \in Remote(d) : remote' = [remote EXCEPT ![d] = s]
  BY DEF Progress
<1>2. TypeOK'
  BY <1>1, StatusFacts DEF Progress, TypeOK, Remote
<1>3. ListInv' /\ CountInv'
  BY DEF Progress, ListInv, CountInv, Countable, AtMark
<1>4. HandInv'
  BY <1>1, StatusFacts DEF Progress, TypeOK, HandInv, Goroutine
<1>5. StatusTruthful'
  BY <1>1, StatusFacts DEF Progress, TypeOK, StatusTruthful
<1>6. QED
  BY <1>2, <1>3, <1>4, <1>5

(***************************************************************************)
(* Listing.                                                                *)
(***************************************************************************)

LEMMA QueryType ==
  ASSUME TypeOK, DbOk \/ DbError
  PROVE  faults' \in Nat
BY DEF TypeOK, DbOk, DbError

LEMMA ListingInv ==
  ASSUME PollInv, ListVoice \/ ListSms \/ ListFailed \/ Reset
  PROVE  PollInv'
<1> USE DEF PollInv
<1>1. /\ UNCHANGED <<status, sid, remote, cur, got, ctxDone, lost, again, restarts>>
      /\ faults' \in Nat
  BY QueryType DEF ListVoice, ListSms, ListFailed, Reset
<1>2. StatusTruthful'
  BY <1>1 DEF StatusTruthful
<1>3. CASE ListVoice \/ ListSms
  <2>1. /\ UNCHANGED attempts
        /\ pc["loop"] \in {"idle", "listSms"}
        /\ \E s \in {"listSms", "check", "idle"} : pc' = [pc EXCEPT !["loop"] = s]
        /\ \E l \in SUBSET Delivery :
             /\ list' = [list EXCEPT !["loop"] = l]
             /\ \A d \in l : status[d] \in InFlight(d)
    BY <1>3 DEF ListVoice, ListSms, InFlightOf, Delivery, ListInv, TypeOK, Goroutine
  <2>2. TypeOK'
    BY <1>1, <2>1 DEF TypeOK, PC
  <2>3. ListInv' /\ HandInv'
    BY <1>1, <2>1 DEF TypeOK, ListInv, HandInv, Goroutine
  <2>4. list'["recheck"] = list["recheck"] /\ pc'["recheck"] = pc["recheck"]
    BY <2>1 DEF TypeOK, Goroutine
  <2>5. \A d \in Delivery : AtMark(d)' <=> AtMark(d)
    BY <1>1, <2>1 DEF TypeOK, AtMark, Goroutine
  <2>6. CountInv'
    BY <1>1, <2>1, <2>4, <2>5 DEF CountInv, Countable
  <2>7. QED
    BY <1>2, <2>2, <2>3, <2>6
<1>4. CASE ListFailed
  <2>1. /\ UNCHANGED attempts
        /\ pc["recheck"] = "listFailed"
        /\ \E s \in {"reset", "stopped"} : pc' = [pc EXCEPT !["recheck"] = s]
        /\ \E l \in SUBSET Delivery :
             /\ list' = [list EXCEPT !["recheck"] = l]
             /\ \A d \in l : status[d] = "poll_failed"
    <3>1. CASE list' = list
      BY <1>4, <3>1 DEF ListFailed, TypeOK, Goroutine, ListInv
    <3>2. CASE list' # list
      BY <1>4, <3>2 DEF ListFailed
    <3>3. QED
      BY <3>1, <3>2
  <2>2. TypeOK'
    BY <1>1, <2>1 DEF TypeOK, PC
  <2>3. ListInv' /\ HandInv'
    BY <1>1, <2>1 DEF TypeOK, ListInv, HandInv, Goroutine
  <2>4. \A d \in Delivery : (AtMark(d)' <=> AtMark(d)) /\ (Countable(d)' => Countable(d))
    BY <1>1, <2>1 DEF TypeOK, AtMark, Countable, Goroutine
  <2>5. CountInv'
    BY <1>1, <2>1, <2>4 DEF CountInv
  <2>6. QED
    BY <1>2, <2>2, <2>3, <2>5
<1>5. CASE Reset
  <2>1. /\ pc["recheck"] = "reset"
        /\ \E s \in {"check", "stopped"} : pc' = [pc EXCEPT !["recheck"] = s]
        /\ attempts' \in [Delivery -> Nat]
        /\ \A d \in Delivery : attempts'[d] = attempts[d] \/ attempts'[d] = 0
        /\ \A d \in Delivery : status[d] # "poll_failed" => attempts'[d] = attempts[d]
    BY <1>5 DEF Reset, TypeOK
  <2>2. list' = list \/ list' = [list EXCEPT !["recheck"] = {}]
    BY <1>5 DEF Reset
  <2>3. TypeOK'
    BY <1>1, <2>1, <2>2 DEF TypeOK, PC
  <2>4. ListInv'
    BY <1>1, <2>2 DEF TypeOK, ListInv, Goroutine
  <2>5. HandInv'
    <3> SUFFICES ASSUME NEW p \in Goroutine, pc'[p] \in {"write", "fail", "mark"}
                 PROVE  /\ cur[p] \in list'[p]
                        /\ pc'[p] = "write" => got[p] \in Terminal(cur[p]) /\ remote[cur[p]] = got[p]
                        /\ pc'[p] = "mark" => Limit > 0 /\ attempts'[cur[p]] >= Limit
      BY <1>1, Zenon DEF HandInv
    <3>1. p = "loop" /\ pc'[p] = pc[p] /\ list'[p] = list[p]
      BY <2>1, <2>2 DEF TypeOK, Goroutine
    <3>2. cur[p] \in Delivery /\ status[cur[p]] # "poll_failed"
      BY <3>1, StatusFacts DEF HandInv, ListInv, TypeOK
    <3>3. QED
      BY <2>1, <3>1, <3>2 DEF HandInv
  <2>6. CountInv'
    <3> SUFFICES ASSUME Limit > 0, NEW d \in Delivery
                 PROVE  /\ attempts'[d] <= Limit + lost[d]
                        /\ Countable(d)' /\ ~AtMark(d)' => attempts'[d] < Limit + lost[d]
      BY <1>1 DEF CountInv
    <3>1. /\ attempts[d] \in Nat /\ attempts'[d] \in Nat /\ lost[d] \in Nat /\ Limit \in Nat
          /\ attempts[d] <= Limit + lost[d]
      BY <2>1, LimitAssumption DEF CountInv, TypeOK
    <3>2. CASE attempts'[d] = 0
      BY <3>1, <3>2
    <3>3. CASE attempts'[d] # 0
      <4>1. attempts'[d] = attempts[d]
        BY <2>1, <3>3
      <4>2. AtMark(d) => AtMark(d)'
        BY <1>1, <2>1 DEF AtMark, TypeOK, Goroutine
      <4>3. status[d] = "poll_failed" => ~Countable(d)'
        BY <1>1, <1>5, <3>3, StatusFacts DEF Reset, Countable, TypeOK, Goroutine
      <4>4. status[d] # "poll_failed" => (Countable(d)' => Countable(d))
        BY <1>1, <2>4 DEF Countable, ListInv
      <4>5. QED
        BY <3>1, <4>1, <4>2, <4>3, <4>4 DEF CountInv
    <3>4. QED
      BY <3>2, <3>3
  <2>7. QED
    BY <1>2, <2>3, <2>4, <2>5, <2>6
<1>6. QED
  BY <1>3, <1>4, <1>5

(***************************************************************************)
(* Checking a row.                                                         *)
(***************************************************************************)

\* The row a goroutine goes on from leaves its list, and the other goroutine's is another.
LEMMA DoneFacts ==
  ASSUME PollInv, NEW p \in Goroutine, NEW d \in list[p], Done(p, d)
  PROVE  /\ d \in Delivery
         /\ pc' \in [Goroutine -> PC] /\ list' \in [Goroutine -> SUBSET Delivery]
         /\ cur' \in [Goroutine -> Delivery \cup {NoDelivery}] /\ got' \in [Goroutine -> Status]
         /\ pc'[p] = "check" /\ list'[p] = list[p] \ {d}
         /\ \A q \in Goroutine : q # p =>
              pc'[q] = pc[q] /\ list'[q] = list[q] /\ cur'[q] = cur[q] /\ got'[q] = got[q]
         /\ \A q \in Goroutine : d \notin list'[q]
<1> USE DEF PollInv
<1>1. d \in Delivery
  BY DEF TypeOK
<1>2. \A q \in Goroutine : q # p => d \notin list[q]
  BY <1>1, StatusFacts DEF ListInv, Goroutine
<1>3. QED
  BY <1>1, <1>2 DEF TypeOK, Done, PC, Status

\* A row is gone from the list with a status that may be anything but in flight again.
LEMMA SettleInv ==
  ASSUME PollInv, NEW p \in Goroutine, NEW d \in list[p], Done(p, d),
         pc[p] = "check" \/ (pc[p] \in {"write", "fail", "mark"} /\ cur[p] = d),
         NEW s \in Status, s \notin {"absent"} \cup InFlight(d),
         s \in Terminal(d) => remote[d] = s,
         \/ status' = [status EXCEPT ![d] = s] /\ UNCHANGED <<attempts, lost>>
         \/ UNCHANGED <<status, attempts>> /\ lost' = [lost EXCEPT ![d] = @ + 1]
         \/ UNCHANGED <<status, attempts, lost>> /\ pc[p] # "mark",
         UNCHANGED <<sid, remote, ctxDone, restarts>>,
         faults' \in Nat, again' \in [Delivery -> BOOLEAN]
  PROVE  PollInv'
<1> USE DEF PollInv
<1>1. d \in Delivery
  BY DoneFacts
<1>2. TypeOK'
  BY <1>1, DoneFacts DEF TypeOK
<1>3. ListInv'
  BY <1>1, DoneFacts DEF ListInv, TypeOK, Goroutine
<1>4. HandInv'
  <2> SUFFICES ASSUME NEW q \in Goroutine, pc'[q] \in {"write", "fail", "mark"}
               PROVE  /\ cur'[q] \in list'[q]
                      /\ pc'[q] = "write" => got'[q] \in Terminal(cur'[q]) /\ remote[cur'[q]] = got'[q]
                      /\ pc'[q] = "mark" => Limit > 0 /\ attempts[cur'[q]] >= Limit
    BY Zenon DEF HandInv
  <2>1. q # p
    BY DoneFacts
  <2>2. pc'[q] = pc[q] /\ list'[q] = list[q] /\ cur'[q] = cur[q] /\ got'[q] = got[q]
    BY <2>1, DoneFacts
  <2>3. QED
    BY <2>2 DEF HandInv
<1>5. StatusTruthful'
  BY <1>1, StatusFacts DEF StatusTruthful, TypeOK
<1>6. CountInv'
  <2> SUFFICES ASSUME Limit > 0, NEW x \in Delivery
               PROVE  /\ attempts'[x] <= Limit + lost'[x]
                      /\ Countable(x)' /\ ~AtMark(x)' => attempts'[x] < Limit + lost'[x]
    BY Zenon DEF CountInv
  <2>1. /\ attempts'[x] = attempts[x] /\ attempts[x] \in Nat
        /\ lost[x] \in Nat /\ lost'[x] \in Nat /\ lost'[x] >= lost[x]
        /\ Limit \in Nat /\ attempts[x] <= Limit + lost[x]
        /\ Countable(x) /\ ~AtMark(x) => attempts[x] < Limit + lost[x]
    BY LimitAssumption DEF CountInv, TypeOK
  <2>2. CASE x = d
    <3>1. CASE lost' = [lost EXCEPT ![d] = @ + 1]
      BY <1>1, <2>1, <2>2, <3>1 DEF TypeOK
    <3>2. CASE status' = [status EXCEPT ![d] = s]
      <4>1. ~Countable(d)'
        BY <1>1, <3>2, DoneFacts DEF Countable, TypeOK, Goroutine
      <4>2. QED
        BY <2>1, <2>2, <4>1
    <3>3. CASE UNCHANGED <<status, attempts, lost>> /\ pc[p] # "mark"
      <4>1. ~AtMark(d)
        <5> SUFFICES ASSUME NEW q \in Goroutine, pc[q] = "mark", cur[q] = d PROVE FALSE
          BY DEF AtMark
        <5>1. q # p /\ d \in list[q]
          BY <3>3 DEF HandInv
        <5>2. QED
          BY <1>1, <5>1, DoneFacts
      <4>2. Countable(d)' => Countable(d)
        BY <1>1, <3>3, DoneFacts DEF Countable, Goroutine
      <4>3. QED
        BY <2>1, <2>2, <3>3, <4>1, <4>2
    <3>4. QED
      BY <3>1, <3>2, <3>3
  <2>3. CASE x # d
    <3>1. status'[x] = status[x] /\ lost'[x] = lost[x]
      BY <1>1, <2>3 DEF TypeOK
    <3>2. AtMark(x) => AtMark(x)'
      BY <2>3, DoneFacts DEF AtMark
    <3>3. Countable(x)' => Countable(x)
      <4>1. list'["recheck"] \subseteq list["recheck"]
        BY DoneFacts DEF Goroutine
      <4>2. pc'["recheck"] = pc["recheck"] \/ pc["recheck"] \in {"check", "write", "fail", "mark"}
        BY DoneFacts DEF Goroutine
      <4>3. QED
        BY <3>1, <4>1, <4>2 DEF Countable
    <3>4. QED
      BY <2>1, <3>1, <3>2, <3>3
  <2>4. QED
    BY <2>2, <2>3
<1>7. QED
  BY <1>2, <1>3, <1>4, <1>5, <1>6

LEMMA CountFailureInv ==
  ASSUME PollInv, NEW p \in Goroutine, CountFailure(p)
  PROVE  PollInv'
<1> USE DEF PollInv
<1> DEFINE d == cur[p]
<1>1. /\ d \in list[p] /\ d \in Delivery /\ pc[p] = "fail" /\ faults' \in Nat
      /\ UNCHANGED <<status, sid, remote, ctxDone, lost, again, restarts>>
  BY QueryType DEF CountFailure, HandInv, TypeOK
<1>2. \A q \in Goroutine : q # p => d \notin list[q]
  BY <1>1, StatusFacts DEF ListInv, Goroutine
<1>3. ~AtMark(d) /\ Countable(d)
  <2>1. ~AtMark(d)
    BY <1>1, <1>2 DEF AtMark, HandInv
  <2>2. Countable(d)
    BY <1>1 DEF Countable, ListInv, Goroutine
  <2>3. QED
    BY <2>1, <2>2
<1>4. /\ attempts[d] \in Nat /\ lost[d] \in Nat /\ Limit \in Nat
      /\ Limit > 0 => attempts[d] < Limit + lost[d]
  BY <1>1, <1>3, LimitAssumption DEF CountInv, TypeOK
<1>5. CASE UNCHANGED attempts /\ Done(p, d)
  <2>1. "malformed" \in Status /\ "malformed" \notin {"absent"} \cup InFlight(d) \cup Terminal(d)
    BY <1>1, StatusFacts
  <2>2. again' \in [Delivery -> BOOLEAN]
    BY <1>1 DEF TypeOK
  <2>3. QED
    BY <1>1, <1>5, <2>1, <2>2, SettleInv
<1>6. CASE attempts' = [attempts EXCEPT ![d] = @ + 1] /\ (Limit = 0 \/ attempts[d] + 1 < Limit)
           /\ Done(p, d)
  <2>1. TypeOK'
    BY <1>1, <1>6, DoneFacts DEF TypeOK
  <2>2. ListInv' /\ StatusTruthful'
    BY <1>1, <1>6, DoneFacts DEF ListInv, StatusTruthful, Goroutine
  <2>3. \A q \in Goroutine : q # p =>
          /\ pc'[q] = pc[q] /\ list'[q] = list[q] /\ cur'[q] = cur[q] /\ got'[q] = got[q]
          /\ cur[q] \in list[q] => cur[q] # d
    BY <1>1, <1>2, <1>6, DoneFacts
  <2>4. pc'[p] = "check"
    BY <1>1, <1>6, DoneFacts
  <2>5. \A x \in Delivery : x # d => attempts'[x] = attempts[x]
    BY <1>6 DEF TypeOK
  <2>6. HandInv'
    <3> SUFFICES ASSUME NEW q \in Goroutine, pc'[q] \in {"write", "fail", "mark"}
                 PROVE  /\ cur'[q] \in list'[q]
                        /\ pc'[q] = "write" => got'[q] \in Terminal(cur'[q]) /\ remote'[cur'[q]] = got'[q]
                        /\ pc'[q] = "mark" => Limit > 0 /\ attempts'[cur'[q]] >= Limit
      BY Zenon DEF HandInv
    <3>1. q # p
      BY <2>4
    <3>2. pc'[q] = pc[q] /\ list'[q] = list[q] /\ cur'[q] = cur[q] /\ got'[q] = got[q]
      BY <2>3, <3>1
    <3>3. cur[q] \in list[q] /\ cur[q] # d /\ cur[q] \in Delivery
      BY <2>3, <3>1, <3>2 DEF HandInv, TypeOK
    <3>4. attempts'[cur[q]] = attempts[cur[q]]
      BY <2>5, <3>3
    <3>5. QED
      BY <1>1, <3>2, <3>3, <3>4 DEF HandInv
  <2>7. \A x \in Delivery : (AtMark(x) => AtMark(x)') /\ (Countable(x)' => Countable(x))
    <3>1. list'["recheck"] \subseteq list["recheck"]
      BY <1>1, <1>6, DoneFacts DEF Goroutine
    <3>2. pc'["recheck"] = pc["recheck"] \/ pc["recheck"] \in {"check", "write", "fail", "mark"}
      BY <1>1, <2>3 DEF Goroutine
    <3>3. QED
      BY <1>1, <2>3, <3>1, <3>2 DEF AtMark, Countable
  <2>8. CountInv'
    BY <1>1, <1>4, <1>6, <2>5, <2>7 DEF CountInv, TypeOK
  <2>9. QED
    BY <2>1, <2>2, <2>6, <2>8
<1>7. CASE /\ attempts' = [attempts EXCEPT ![d] = @ + 1] /\ ~(Limit = 0 \/ attempts[d] + 1 < Limit)
           /\ pc' = [pc EXCEPT ![p] = "mark"] /\ UNCHANGED <<list, cur, got>>
  <2>1. TypeOK'
    BY <1>1, <1>7 DEF TypeOK, PC
  <2>2. ListInv' /\ StatusTruthful'
    BY <1>1, <1>7 DEF ListInv, StatusTruthful
  <2>3. \A x \in Delivery : x # d => attempts'[x] = attempts[x]
    BY <1>7 DEF TypeOK
  <2>4. attempts'[d] = attempts[d] + 1
    BY <1>1, <1>7 DEF TypeOK
  <2>5. HandInv'
    <3> SUFFICES ASSUME NEW q \in Goroutine, pc'[q] \in {"write", "fail", "mark"}
                 PROVE  /\ cur[q] \in list[q]
                        /\ pc'[q] = "write" => got[q] \in Terminal(cur[q]) /\ remote[cur[q]] = got[q]
                        /\ pc'[q] = "mark" => Limit > 0 /\ attempts'[cur[q]] >= Limit
      BY <1>1, <1>7, Zenon DEF HandInv
    <3>1. CASE q = p
      <4>1. pc'[q] = "mark" /\ cur[q] = d
        BY <1>7, <3>1 DEF TypeOK
      <4>2. QED
        BY <1>1, <1>4, <1>7, <2>4, <4>1, <3>1
    <3>2. CASE q # p
      <4>1. pc'[q] = pc[q] /\ cur[q] \in list[q]
        BY <1>7, <3>2 DEF TypeOK, HandInv
      <4>2. cur[q] # d /\ cur[q] \in Delivery
        BY <1>2, <3>2, <4>1 DEF TypeOK
      <4>3. QED
        BY <2>3, <4>1, <4>2 DEF HandInv
    <3>3. QED
      BY <3>1, <3>2
  <2>6. \A x \in Delivery : x = d => AtMark(x)'
    BY <1>7 DEF AtMark, TypeOK
  <2>7. \A x \in Delivery : (AtMark(x) => AtMark(x)') /\ (Countable(x)' => Countable(x))
    BY <1>1, <1>7 DEF AtMark, Countable, TypeOK, Goroutine
  <2>8. CountInv'
    <3> SUFFICES ASSUME Limit > 0, NEW x \in Delivery
                 PROVE  /\ attempts'[x] <= Limit + lost[x]
                        /\ Countable(x)' /\ ~AtMark(x)' => attempts'[x] < Limit + lost[x]
      BY <1>1, Zenon DEF CountInv
    <3>1. CASE x = d
      BY <1>4, <2>4, <2>6, <3>1
    <3>2. CASE x # d
      BY <2>3, <2>7, <3>2 DEF CountInv
    <3>3. QED
      BY <3>1, <3>2
  <2>9. QED
    BY <2>1, <2>2, <2>5, <2>8
<1>8. QED
  BY <1>5, <1>6, <1>7 DEF CountFailure

LEMMA CheckInv ==
  ASSUME PollInv, NEW p \in Goroutine, Check(p)
  PROVE  PollInv'
<1> USE DEF PollInv
<1>1. "malformed" \in Status /\ "poll_failed" \in Status
  BY DEF Status
<1>2. ASSUME NEW d \in Delivery, Malformed(p, d) PROVE PollInv'
  <2>1. d \in list[p] /\ Done(p, d) /\ pc[p] = "check" /\ faults' \in Nat
    BY <1>2, QueryType DEF Malformed
  <2>2. "malformed" \notin {"absent"} \cup InFlight(d) \cup Terminal(d)
    BY StatusFacts
  <2>3. again' \in [Delivery -> BOOLEAN]
    BY <1>2 DEF Malformed, TypeOK
  <2>4. \/ status' = [status EXCEPT ![d] = "malformed"]
        \/ UNCHANGED status
    BY <1>2 DEF Malformed
  <2>5. UNCHANGED <<sid, attempts, remote, ctxDone, lost, restarts>>
    BY <1>2 DEF Malformed
  <2>6. QED
    BY <1>1, <2>1, <2>2, <2>3, <2>4, <2>5, SettleInv
<1>3. ASSUME NEW d \in Delivery, Fetch(p, d) PROVE PollInv'
  <2>1. pc[p] = "check" /\ d \in list[p]
    BY <1>3 DEF Fetch
  <2>2. faults' \in Nat /\ again' \in [Delivery -> BOOLEAN]
    BY <1>3 DEF Fetch, TypeOK
  <2>3. CASE Done(p, d)
    <3>1. "malformed" \notin {"absent"} \cup InFlight(d) \cup Terminal(d)
      BY StatusFacts
    <3>2. UNCHANGED <<status, attempts, lost, sid, remote, ctxDone, restarts>>
      BY <1>3 DEF Fetch
    <3>3. "malformed" \in Terminal(d) => remote[d] = "malformed"
      BY <3>1
    <3>4. QED
      BY <1>1, <2>1, <2>2, <2>3, <3>1, <3>2, <3>3, SettleInv
  <2>4. CASE ~Done(p, d)
    <3>1. /\ UNCHANGED <<status, sid, attempts, remote, list, ctxDone, lost, restarts>>
          /\ cur' = [cur EXCEPT ![p] = d]
          /\ \/ /\ pc' = [pc EXCEPT ![p] = "write"]
                /\ remote[d] \in Terminal(d) /\ got' = [got EXCEPT ![p] = remote[d]]
             \/ pc' = [pc EXCEPT ![p] = "fail"] /\ got' = got
      BY <1>3, <2>4 DEF Fetch
    <3>2. TypeOK'
      BY <2>2, <3>1 DEF TypeOK, PC
    <3>3. ListInv' /\ StatusTruthful'
      BY <3>1 DEF ListInv, StatusTruthful
    <3>4. HandInv'
      BY <2>1, <3>1 DEF HandInv, TypeOK
    <3>5. \A x \in Delivery : (AtMark(x) => AtMark(x)') /\ (Countable(x)' => Countable(x))
      BY <2>1, <3>1 DEF AtMark, Countable, TypeOK, Goroutine
    <3>6. CountInv'
      BY <3>1, <3>5 DEF CountInv
    <3>7. QED
      BY <3>2, <3>3, <3>4, <3>6
  <2>5. QED
    BY <2>3, <2>4
<1>4. CASE WriteStatus(p)
  <2> DEFINE d == cur[p]
  <2>1. d \in list[p] /\ Done(p, d) /\ pc[p] = "write" /\ faults' \in Nat
    BY <1>4, QueryType DEF WriteStatus, HandInv
  <2>2. d \in Delivery /\ got[p] \in Status /\ got[p] \in Terminal(d) /\ remote[d] = got[p]
    BY <2>1 DEF HandInv, TypeOK
  <2>3. got[p] \notin {"absent"} \cup InFlight(d)
    BY <2>2, StatusFacts
  <2>4. again' \in [Delivery -> BOOLEAN]
    BY <1>4 DEF WriteStatus, TypeOK
  <2>5. \/ status' = [status EXCEPT ![d] = got[p]]
        \/ UNCHANGED status
    BY <1>4 DEF WriteStatus
  <2>6. UNCHANGED <<sid, attempts, remote, ctxDone, lost, restarts>>
    BY <1>4 DEF WriteStatus
  <2>7. QED
    BY <2>1, <2>2, <2>3, <2>4, <2>5, <2>6, SettleInv
<1>5. CASE CountFailure(p)
  BY <1>5, CountFailureInv
<1>6. CASE GiveUp(p)
  <2> DEFINE d == cur[p]
  <2>1. d \in list[p] /\ Done(p, d) /\ pc[p] = "mark" /\ faults' \in Nat
    BY <1>6, QueryType DEF GiveUp, HandInv
  <2>2. d \in Delivery
    BY <2>1 DEF TypeOK
  <2>3. "poll_failed" \notin {"absent"} \cup InFlight(d) \cup Terminal(d)
    BY <2>2, StatusFacts
  <2>4. again' \in [Delivery -> BOOLEAN]
    BY <1>6 DEF GiveUp, TypeOK
  <2>5. \/ status' = [status EXCEPT ![d] = "poll_failed"] /\ UNCHANGED lost
        \/ lost' = [lost EXCEPT ![d] = @ + 1] /\ UNCHANGED status
    BY <1>6 DEF GiveUp
  <2>6. UNCHANGED <<sid, attempts, remote, ctxDone, restarts>>
    BY <1>6 DEF GiveUp
  <2>7. QED
    BY <1>1, <2>1, <2>3, <2>4, <2>5, <2>6, SettleInv
<1>7. CASE EndRound(p)
  <2>1. /\ UNCHANGED <<status, sid, attempts, remote, list, cur, got, ctxDone, lost, again, faults,
                       restarts>>
        /\ pc[p] = "check" /\ pc' = [pc EXCEPT ![p] = IF p = "loop" THEN "idle" ELSE "stopped"]
    BY <1>7 DEF EndRound
  <2>2. TypeOK'
    BY <2>1 DEF TypeOK, PC
  <2>3. ListInv' /\ StatusTruthful' /\ HandInv'
    BY <2>1 DEF ListInv, StatusTruthful, HandInv, TypeOK
  <2>4. \A x \in Delivery : (AtMark(x) => AtMark(x)') /\ (Countable(x)' => Countable(x))
    BY <2>1 DEF AtMark, Countable, TypeOK, Goroutine
  <2>5. CountInv'
    BY <2>1, <2>4 DEF CountInv
  <2>6. QED
    BY <2>2, <2>3, <2>5
<1>8. QED
  BY <1>2, <1>3, <1>4, <1>5, <1>6, <1>7 DEF Check

(***************************************************************************)
(* The process.                                                            *)
(***************************************************************************)

LEMMA StopInv ==
  ASSUME PollInv, Stop \/ Cancel
  PROVE  PollInv'
<1> USE DEF PollInv
<1>1. /\ UNCHANGED <<status, sid, attempts, remote, list, cur, got, lost, again, faults, restarts>>
      /\ pc' = pc \/ (pc["loop"] = "idle" /\ pc' = [pc EXCEPT !["loop"] = "stopped"])
      /\ ctxDone' \in BOOLEAN
  BY DEF Stop, Cancel, TypeOK
<1>2. TypeOK'
  BY <1>1 DEF TypeOK, PC
<1>3. ListInv' /\ StatusTruthful' /\ HandInv'
  BY <1>1 DEF ListInv, StatusTruthful, HandInv, TypeOK
<1>4. \A x \in Delivery : (AtMark(x) => AtMark(x)') /\ (Countable(x)' => Countable(x))
  BY <1>1 DEF AtMark, Countable, TypeOK, Goroutine
<1>5. CountInv'
  BY <1>1, <1>4 DEF CountInv
<1>6. QED
  BY <1>2, <1>3, <1>5

LEMMA RestartInv ==
  ASSUME PollInv, Restart
  PROVE  PollInv'
<1> USE DEF PollInv
<1>1. TypeOK'
  <2>1. lost' \in [Delivery -> Nat]
    BY DEF Restart, TypeOK
  <2>2. /\ pc' \in [Goroutine -> PC] /\ list' \in [Goroutine -> SUBSET Delivery]
        /\ cur' \in [Goroutine -> Delivery \cup {NoDelivery}] /\ got' \in [Goroutine -> Status]
    BY DEF Restart, Start, PC, Status
  <2>3. ctxDone' \in BOOLEAN
    BY DEF Restart
  <2>4. restarts' \in Nat
    BY DEF Restart, TypeOK
  <2>5. QED
    BY <2>1, <2>2, <2>3, <2>4 DEF Restart, TypeOK
<1>2. ListInv' /\ StatusTruthful' /\ HandInv'
  BY DEF Restart, ListInv, StatusTruthful, HandInv, Start, Goroutine
<1>3. ASSUME Limit > 0, NEW d \in Delivery
      PROVE  /\ attempts'[d] <= Limit + lost'[d]
             /\ Countable(d)' /\ ~AtMark(d)' => attempts'[d] < Limit + lost'[d]
  <2>1. lost'[d] = IF AtMark(d) THEN lost[d] + 1 ELSE lost[d]
    BY DEF Restart, AtMark
  <2>2. Countable(d)' => Countable(d)
    BY DEF Countable, Restart, Goroutine
  <2>3. /\ attempts'[d] = attempts[d] /\ attempts[d] \in Nat /\ lost[d] \in Nat /\ Limit \in Nat
    BY LimitAssumption DEF Restart, TypeOK
  <2>4. QED
    BY <1>3, <2>1, <2>2, <2>3 DEF CountInv
<1>4. QED
  BY <1>1, <1>2, <1>3 DEF CountInv

LEMMA NextInv == PollInv /\ [Next]_vars => PollInv'
<1> SUFFICES ASSUME PollInv, [Next]_vars PROVE PollInv'
  OBVIOUS
<1>1. "loop" \in Goroutine /\ "recheck" \in Goroutine
  BY DEF Goroutine
<1>2. CASE UNCHANGED vars
  BY <1>2 DEF vars, PollInv, TypeOK, ListInv, HandInv, StatusTruthful, CountInv, Countable, AtMark
<1>3. CASE Next
  BY <1>1, <1>3, InsertInv, ProgressInv, ListingInv, CheckInv, StopInv, RestartInv
  DEF Next, LoopStep, RecheckStep
<1>4. QED
  BY <1>2, <1>3

(***************************************************************************)
(* Theorems.                                                               *)
(***************************************************************************)

\* PollInv holds of every reachable state.
THEOREM PollConsistent == Spec => []PollInv
<1>1. QED
  BY InitInv, NextInv, PTL DEF Spec

\* The variables keep their types.
THEOREM PollTypeCorrect == Spec => []TypeOK
<1>1. PollInv => TypeOK
  BY DEF PollInv
<1>2. QED
  BY <1>1, PollConsistent, PTL

\* The loop and the startup check never have the same row in hand (poller.go: both are
\* started by main and write to the same table).
THEOREM CheckedByOne == Spec => []OneChecker
<1>1. PollInv => OneChecker
  <2> SUFFICES ASSUME PollInv, NEW d \in list["loop"], d \in list["recheck"] PROVE FALSE
    BY DEF OneChecker
  <2>1. d \in Delivery
    BY DEF PollInv, TypeOK, Goroutine
  <2>2. QED
    BY <2>1, StatusFacts DEF PollInv, ListInv
<1>2. QED
  BY <1>1, PollConsistent, PTL

\* A terminal status in the database is the provider's own (checkDelivery writes what
\* mapTwilioStatus accepted, later than it asked).
THEOREM StatusIsTrue == Spec => []StatusTruthful
<1>1. PollInv => StatusTruthful
  BY DEF PollInv
<1>2. QED
  BY <1>1, PollConsistent, PTL

\* The failures counted of a row never pass the limit by more than the decisions to give
\* it up that were not written (recordPollFailure).
THEOREM AttemptsAreBounded == Spec => []AttemptsBounded
<1>1. PollInv => AttemptsBounded
  BY DEF PollInv, CountInv, AttemptsBounded
<1>2. QED
  BY <1>1, PollConsistent, PTL

\* Which steps write a row's status, and what they know of it.
LEMMA StatusSteps ==
  ASSUME PollInv, [Next]_vars, NEW d \in Delivery, status'[d] # status[d]
  PROVE  /\ status[d] \notin Terminal(d) \cup {"malformed"}
         /\ status'[d] = "poll_failed" => Limit > 0 /\ attempts[d] >= Limit
<1> USE DEF PollInv
<1>1. CASE \E x \in Delivery : Insert(x)
  BY <1>1, StatusFacts DEF Insert, TypeOK
<1>2. ASSUME NEW p \in Goroutine, NEW x \in list[p], NEW s,
             status' = [status EXCEPT ![x] = s],
             s = "poll_failed" => Limit > 0 /\ attempts[x] >= Limit
      PROVE  /\ status[d] \notin Terminal(d) \cup {"malformed"}
             /\ status'[d] = "poll_failed" => Limit > 0 /\ attempts[d] >= Limit
  <2>1. x = d /\ status'[d] = s
    BY <1>2 DEF TypeOK
  <2>2. status[d] \in InFlight(d) \cup {"poll_failed"}
    BY <2>1 DEF ListInv, Goroutine
  <2>3. QED
    BY <1>2, <2>1, <2>2, StatusFacts
<1>3. ASSUME NEW p \in Goroutine, Check(p)
      PROVE  /\ status[d] \notin Terminal(d) \cup {"malformed"}
             /\ status'[d] = "poll_failed" => Limit > 0 /\ attempts[d] >= Limit
  <2>1. CASE \E x \in Delivery : Malformed(p, x)
    BY <1>2, <2>1 DEF Malformed
  <2>2. CASE WriteStatus(p)
    <3>1. cur[p] \in list[p] /\ status' = [status EXCEPT ![cur[p]] = got[p]]
      BY <2>2 DEF WriteStatus, HandInv
    <3>2. cur[p] \in Delivery /\ got[p] \in Terminal(cur[p])
      BY <2>2, <3>1 DEF WriteStatus, HandInv, TypeOK
    <3>3. got[p] # "poll_failed"
      BY <3>2, StatusFacts
    <3>4. QED
      BY <1>2, <3>1, <3>3
  <2>3. CASE GiveUp(p)
    <3>1. /\ cur[p] \in list[p] /\ status' = [status EXCEPT ![cur[p]] = "poll_failed"]
          /\ Limit > 0 /\ attempts[cur[p]] >= Limit
      BY <2>3 DEF GiveUp, HandInv
    <3>2. QED
      BY <1>2, <3>1
  <2>4. CASE status' = status
    BY <2>4
  <2>5. QED
    BY <1>3, <2>1, <2>2, <2>3, <2>4 DEF Check, Fetch, CountFailure, EndRound
<1>4. CASE status' = status
  BY <1>4
<1>5. "loop" \in Goroutine /\ "recheck" \in Goroutine
  BY DEF Goroutine
<1>6. QED
  BY <1>1, <1>3, <1>4, <1>5 DEF Next, LoopStep, RecheckStep, Progress, ListVoice, ListSms, ListFailed,
     Reset, Stop, Cancel, Restart, vars

\* A settled row is never written again, whichever goroutine listed it and whenever.
THEOREM SettledStays == Spec => SettledIsFinal
<1>1. PollInv /\ [Next]_vars =>
        [\A d \in Delivery :
           status[d] \in Terminal(d) \cup {"malformed"} => status'[d] = status[d]]_vars
  BY StatusSteps
<1>2. QED
  BY <1>1, PollConsistent, PTL DEF Spec, SettledIsFinal

\* A row is given up only when its failed polls have reached the limit, whatever the
\* startup check resets in the meantime.
THEOREM GivenUpAtLimit == Spec => GivesUpAtLimit
<1>1. PollInv /\ [Next]_vars =>
        [\A d \in Delivery :
           status[d] # "poll_failed" /\ status'[d] = "poll_failed"
             => Limit > 0 /\ attempts[d] >= Limit]_vars
  BY StatusSteps
<1>2. QED
  BY <1>1, PollConsistent, PTL DEF Spec, GivesUpAtLimit
=============================================================================
