------------------------------- MODULE Poller --------------------------------
(***************************************************************************)
(* Following a delivery after the provider accepted it (notify/poller.go). *)
(* Two goroutines of one process ask Twilio for the state of deliveries:   *)
(*   - "loop" (Run) lists, at each tick, the rows in flight and checks them*)
(*     one after the other;                                                *)
(*   - "recheck" (RunPollFailed) runs once per start and gives the rows    *)
(*     that were given up ("poll_failed") another try.                     *)
(* Between listing a row and writing its answer either of them, the        *)
(* provider, a shutdown or a crash may come in between. Queries are atomic *)
(* and fail once the context is cancelled. The order in which a round      *)
(* visits its rows (sent_at) is left open.                                 *)
(***************************************************************************)
EXTENDS Integers

CONSTANTS
  Voice, Sms,   \* deliveries, by channel
  NoDelivery,   \* "no row is being checked"
  Shown,        \* bound: the Twilio statuses that occur
  Limit,        \* twilio.poll_attempt_limit, 0 for unlimited
  MaxFaults,    \* bound: queries that fail while the context is live
  MaxRestarts   \* bound: how often the process ends and starts again

Delivery == Voice \cup Sms

\* The statuses the in-flight queries select and those mapTwilioStatus calls
\* terminal.
InFlight(d) ==
  IF d \in Voice THEN {"queued", "ringing", "in-progress"}
                 ELSE {"accepted", "scheduled", "queued", "sending", "sent"}
Terminal(d) ==
  IF d \in Voice THEN {"completed", "failed", "busy", "no-answer", "canceled"}
                 ELSE {"delivered", "undelivered", "failed"}
Remote(d) == Shown \cap (InFlight(d) \cup Terminal(d))

ASSUME DeliveryAssumption ==
  /\ Voice \cap Sms = {}
  /\ NoDelivery \notin Delivery
ASSUME LimitAssumption ==
  /\ Limit \in Nat
  /\ MaxFaults \in Nat
  /\ MaxRestarts \in Nat

VARIABLES
  status,    \* deliveries.status, "absent" before the dispatcher inserts the row
  sid,       \* whether the row has a twilio_sid
  attempts,  \* deliveries.poll_attempts
  remote,    \* the provider's own status of the message or call
  pc,        \* where each goroutine is
  list,      \* the rows its round still has to check
  cur, got,  \* the row being checked and the terminal status just fetched
  ctxDone,
  lost,      \* history: decisions to give a row up that were never written
  again,     \* history: the last look said "still in flight"
  faults, restarts

vars == <<status, sid, attempts, remote, pc, list, cur, got, ctxDone, lost, again,
          faults, restarts>>

Goroutine == {"loop", "recheck"}
PC == {"idle", "listSms", "listFailed", "reset", "check", "write", "fail", "mark", "stopped"}
Status == {"absent", "malformed", "poll_failed"}
            \cup UNION {InFlight(d) \cup Terminal(d) : d \in Delivery}
Start == [p \in Goroutine |-> IF p = "loop" THEN "idle" ELSE "listFailed"]

TypeOK ==
  /\ status \in [Delivery -> Status]
  /\ sid \in [Delivery -> BOOLEAN]
  /\ attempts \in [Delivery -> Nat]
  /\ remote \in [Delivery -> Status]
  /\ pc \in [Goroutine -> PC]
  /\ list \in [Goroutine -> SUBSET Delivery]
  /\ cur \in [Goroutine -> Delivery \cup {NoDelivery}]
  /\ got \in [Goroutine -> Status]
  /\ ctxDone \in BOOLEAN
  /\ lost \in [Delivery -> Nat]
  /\ again \in [Delivery -> BOOLEAN]
  /\ faults \in Nat
  /\ restarts \in Nat

Init ==
  /\ status = [d \in Delivery |-> "absent"]
  /\ sid = [d \in Delivery |-> FALSE]
  /\ attempts = [d \in Delivery |-> 0]
  /\ remote = [d \in Delivery |-> "absent"]
  /\ pc = Start
  /\ list = [p \in Goroutine |-> {}]
  /\ cur = [p \in Goroutine |-> NoDelivery]
  /\ got = [p \in Goroutine |-> "absent"]
  /\ ctxDone = FALSE
  /\ lost = [d \in Delivery |-> 0]
  /\ again = [d \in Delivery |-> FALSE]
  /\ faults = 0
  /\ restarts = 0

DbOk == ~ctxDone /\ UNCHANGED faults
DbError ==
  \/ ctxDone /\ UNCHANGED faults
  \/ ~ctxDone /\ faults < MaxFaults /\ faults' = faults + 1

-----------------------------------------------------------------------------
\* The dispatcher's insert and the provider.

\* The row carries the status Twilio answered with, and its sid unless the
\* answer had none.
Insert(d) ==
  /\ status[d] = "absent"
  /\ \E s \in Shown \cap InFlight(d) :
       /\ status' = [status EXCEPT ![d] = s]
       /\ remote' = [remote EXCEPT ![d] = s]
  /\ sid' \in {sid, [sid EXCEPT ![d] = TRUE]}
  /\ UNCHANGED <<attempts, pc, list, cur, got, ctxDone, lost, again, faults, restarts>>

\* A message or call moves until it reaches a terminal status.
Progress(d) ==
  /\ remote[d] \in InFlight(d)
  /\ \E s \in Remote(d) : remote' = [remote EXCEPT ![d] = s]
  /\ UNCHANGED <<status, sid, attempts, pc, list, cur, got, ctxDone, lost, again, faults,
                 restarts>>

-----------------------------------------------------------------------------
\* Listing.

InFlightOf(D) == {d \in D : status[d] \in InFlight(d)}

\* A tick: pollPending lists the voice rows, then the SMS rows, and returns if
\* either query fails.
ListVoice ==
  /\ pc["loop"] = "idle"
  /\ DbOk
  /\ list' = [list EXCEPT !["loop"] = InFlightOf(Voice)]
  /\ pc' = [pc EXCEPT !["loop"] = "listSms"]
  /\ UNCHANGED <<status, sid, attempts, remote, cur, got, ctxDone, lost, again, restarts>>

ListSms ==
  /\ pc["loop"] = "listSms"
  /\ \/ /\ DbOk
        /\ list' = [list EXCEPT !["loop"] = @ \cup InFlightOf(Sms)]
        /\ pc' = [pc EXCEPT !["loop"] = "check"]
     \/ /\ DbError
        /\ list' = [list EXCEPT !["loop"] = {}]
        /\ pc' = [pc EXCEPT !["loop"] = "idle"]
  /\ UNCHANGED <<status, sid, attempts, remote, cur, got, ctxDone, lost, again, restarts>>

\* Mutant: the startup check also lists the rows in flight.
ListFailedAndInFlight ==
  /\ pc["recheck"] = "listFailed"
  /\ \/ /\ DbOk
        /\ list' = [list EXCEPT !["recheck"] =
                      {d \in Delivery : status[d] = "poll_failed"} \cup InFlightOf(Delivery)]
        /\ pc' = [pc EXCEPT !["recheck"] = "reset"]
     \/ /\ DbError
        /\ pc' = [pc EXCEPT !["recheck"] = "stopped"]
        /\ UNCHANGED list
  /\ UNCHANGED <<status, sid, attempts, remote, cur, got, ctxDone, lost, again, restarts>>

ListFailed ==
  /\ pc["recheck"] = "listFailed"
  /\ \/ /\ DbOk
        /\ list' = [list EXCEPT !["recheck"] = {d \in Delivery : status[d] = "poll_failed"}]
        /\ pc' = [pc EXCEPT !["recheck"] = "reset"]
     \/ /\ DbError
        /\ pc' = [pc EXCEPT !["recheck"] = "stopped"]
        /\ UNCHANGED list
  /\ UNCHANGED <<status, sid, attempts, remote, cur, got, ctxDone, lost, again, restarts>>

\* Mutant: the reset has no WHERE clause.
ResetAll ==
  /\ pc["recheck"] = "reset"
  /\ \/ /\ DbOk
        /\ attempts' = [d \in Delivery |-> 0]
        /\ pc' = [pc EXCEPT !["recheck"] = "check"]
        /\ UNCHANGED list
     \/ /\ DbError
        /\ pc' = [pc EXCEPT !["recheck"] = "stopped"]
        /\ list' = [list EXCEPT !["recheck"] = {}]
        /\ UNCHANGED attempts
  /\ UNCHANGED <<status, sid, remote, cur, got, ctxDone, lost, again, restarts>>

\* ResetPollAttempts: every row that is poll_failed now, listed or not.
Reset ==
  /\ pc["recheck"] = "reset"
  /\ \/ /\ DbOk
        /\ attempts' = [d \in Delivery |-> IF status[d] = "poll_failed" THEN 0 ELSE attempts[d]]
        /\ pc' = [pc EXCEPT !["recheck"] = "check"]
        /\ UNCHANGED list
     \/ /\ DbError
        /\ pc' = [pc EXCEPT !["recheck"] = "stopped"]
        /\ list' = [list EXCEPT !["recheck"] = {}]
        /\ UNCHANGED attempts
  /\ UNCHANGED <<status, sid, remote, cur, got, ctxDone, lost, again, restarts>>

-----------------------------------------------------------------------------
\* checkDelivery.

\* On to the next row.
Done(p, d) ==
  /\ pc' = [pc EXCEPT ![p] = "check"]
  /\ list' = [list EXCEPT ![p] = @ \ {d}]
  /\ cur' = [cur EXCEPT ![p] = NoDelivery]
  /\ got' = [got EXCEPT ![p] = "absent"]

Malformed(p, d) ==
  /\ pc[p] = "check" /\ d \in list[p]
  /\ ~sid[d]
  /\ \/ DbOk /\ status' = [status EXCEPT ![d] = "malformed"]
     \/ DbError /\ UNCHANGED status
  /\ Done(p, d)
  /\ UNCHANGED <<sid, attempts, remote, ctxDone, lost, again, restarts>>

\* Mutant: a failed fetch goes on with "failed" as if the provider had said so.
FetchTrustsError(p, d) ==
  /\ pc[p] = "check" /\ d \in list[p]
  /\ sid[d]
  /\ pc' = [pc EXCEPT ![p] = "write"]
  /\ cur' = [cur EXCEPT ![p] = d]
  /\ got' = [got EXCEPT ![p] = IF remote[d] \in Terminal(d) THEN remote[d] ELSE "failed"]
  /\ again' = [again EXCEPT ![d] = FALSE]
  /\ UNCHANGED <<status, sid, attempts, remote, list, ctxDone, lost, faults, restarts>>

\* Mutant: a status mapTwilioStatus does not know counts as terminal.
FetchKeepsUnknown(p, d) ==
  /\ pc[p] = "check" /\ d \in list[p]
  /\ sid[d]
  /\ pc' = [pc EXCEPT ![p] = "write"]
  /\ cur' = [cur EXCEPT ![p] = d]
  /\ got' = [got EXCEPT ![p] = IF remote[d] \in Terminal(d) THEN remote[d] ELSE "unknown"]
  /\ again' = [again EXCEPT ![d] = FALSE]
  /\ UNCHANGED <<status, sid, attempts, remote, list, ctxDone, lost, faults, restarts>>

\* Asking Twilio: a terminal status, one that is not, or no usable answer (the
\* request fails, or its body does not parse). The request ignores ctx.
Fetch(p, d) ==
  /\ pc[p] = "check" /\ d \in list[p]
  /\ sid[d]
  /\ \/ /\ remote[d] \in Terminal(d)
        /\ got' = [got EXCEPT ![p] = remote[d]]
        /\ pc' = [pc EXCEPT ![p] = "write"]
        /\ cur' = [cur EXCEPT ![p] = d]
        /\ again' = [again EXCEPT ![d] = FALSE]
        /\ UNCHANGED list
     \/ /\ remote[d] \notin Terminal(d)
        /\ Done(p, d)
        /\ again' = [again EXCEPT ![d] = TRUE]
     \/ /\ pc' = [pc EXCEPT ![p] = "fail"]
        /\ cur' = [cur EXCEPT ![p] = d]
        /\ again' = [again EXCEPT ![d] = FALSE]
        /\ UNCHANGED <<list, got>>
  /\ UNCHANGED <<status, sid, attempts, remote, ctxDone, lost, faults, restarts>>

WriteStatus(p) ==
  /\ pc[p] = "write"
  /\ \/ DbOk /\ status' = [status EXCEPT ![cur[p]] = got[p]]
     \/ DbError /\ UNCHANGED status
  /\ Done(p, cur[p])
  /\ UNCHANGED <<sid, attempts, remote, ctxDone, lost, again, restarts>>

\* Mutant: the limit is compared with > instead of >=.
CountFailureLate(p) ==
  LET d == cur[p] IN
  /\ pc[p] = "fail"
  /\ \/ /\ DbOk
        /\ attempts' = [attempts EXCEPT ![d] = @ + 1]
        /\ IF Limit = 0 \/ attempts[d] + 1 <= Limit
             THEN Done(p, d)
             ELSE pc' = [pc EXCEPT ![p] = "mark"] /\ UNCHANGED <<list, cur, got>>
     \/ DbError /\ Done(p, d) /\ UNCHANGED attempts
  /\ UNCHANGED <<status, sid, remote, ctxDone, lost, again, restarts>>

\* Mutant: a failure is not counted once the first was.
CountFailureOnce(p) ==
  LET d == cur[p] IN
  /\ pc[p] = "fail"
  /\ \/ /\ DbOk
        /\ attempts' = [attempts EXCEPT ![d] = 1]
        /\ IF Limit = 0 \/ 1 < Limit
             THEN Done(p, d)
             ELSE pc' = [pc EXCEPT ![p] = "mark"] /\ UNCHANGED <<list, cur, got>>
     \/ DbError /\ Done(p, d) /\ UNCHANGED attempts
  /\ UNCHANGED <<status, sid, remote, ctxDone, lost, again, restarts>>

\* recordPollFailure: count the failure, and give the row up at the limit.
CountFailure(p) ==
  LET d == cur[p] IN
  /\ pc[p] = "fail"
  /\ \/ /\ DbOk
        /\ attempts' = [attempts EXCEPT ![d] = @ + 1]
        /\ IF Limit = 0 \/ attempts[d] + 1 < Limit
             THEN Done(p, d)
             ELSE pc' = [pc EXCEPT ![p] = "mark"] /\ UNCHANGED <<list, cur, got>>
     \/ DbError /\ Done(p, d) /\ UNCHANGED attempts
  /\ UNCHANGED <<status, sid, remote, ctxDone, lost, again, restarts>>

GiveUp(p) ==
  /\ pc[p] = "mark"
  /\ \/ DbOk /\ status' = [status EXCEPT ![cur[p]] = "poll_failed"] /\ UNCHANGED lost
     \/ DbError /\ lost' = [lost EXCEPT ![cur[p]] = @ + 1] /\ UNCHANGED status
  /\ Done(p, cur[p])
  /\ UNCHANGED <<sid, attempts, remote, ctxDone, again, restarts>>

\* The end of a round: the loop waits for its next tick, the startup check ends.
EndRound(p) ==
  /\ pc[p] = "check" /\ list[p] = {}
  /\ pc' = [pc EXCEPT ![p] = IF p = "loop" THEN "idle" ELSE "stopped"]
  /\ UNCHANGED <<status, sid, attempts, remote, list, cur, got, ctxDone, lost, again, faults,
                 restarts>>

Stop ==
  /\ pc["loop"] = "idle" /\ ctxDone
  /\ pc' = [pc EXCEPT !["loop"] = "stopped"]
  /\ UNCHANGED <<status, sid, attempts, remote, list, cur, got, ctxDone, lost, again, faults,
                 restarts>>

-----------------------------------------------------------------------------
\* The process.

Cancel ==
  /\ ~ctxDone
  /\ ctxDone' = TRUE
  /\ UNCHANGED <<status, sid, attempts, remote, pc, list, cur, got, lost, again, faults, restarts>>

\* The process ends at any point and starts again.
Restart ==
  /\ restarts < MaxRestarts
  /\ restarts' = restarts + 1
  /\ lost' = [d \in Delivery |->
                IF \E p \in Goroutine : pc[p] = "mark" /\ cur[p] = d THEN lost[d] + 1 ELSE lost[d]]
  /\ pc' = Start
  /\ list' = [p \in Goroutine |-> {}]
  /\ cur' = [p \in Goroutine |-> NoDelivery]
  /\ got' = [p \in Goroutine |-> "absent"]
  /\ ctxDone' = FALSE
  /\ UNCHANGED <<status, sid, attempts, remote, again, faults>>

-----------------------------------------------------------------------------
Check(p) ==
  \/ \E d \in Delivery : Malformed(p, d) \/ Fetch(p, d)
  \/ WriteStatus(p) \/ CountFailure(p) \/ GiveUp(p) \/ EndRound(p)

LoopStep == ListVoice \/ ListSms \/ Check("loop") \/ Stop
RecheckStep == ListFailed \/ Reset \/ Check("recheck")

Next ==
  \/ \E d \in Delivery : Insert(d) \/ Progress(d)
  \/ LoopStep \/ RecheckStep
  \/ Cancel \/ Restart

Spec == Init /\ [][Next]_vars

\* The goroutines run: the ticker ticks and an HTTP request ends within the
\* client's 15 seconds. A message or call the provider accepted ends some day.
Arrive(d) == Progress(d) /\ remote'[d] \in Terminal(d)
Fairness ==
  /\ WF_vars(LoopStep)
  /\ WF_vars(RecheckStep)
  /\ \A d \in Delivery : WF_vars(Arrive(d))

FairSpec == Spec /\ Fairness

-----------------------------------------------------------------------------
\* Properties.

\* The loop and the startup check never have the same row in hand, so neither can
\* overwrite an answer of the other.
OneChecker == list["loop"] \cap list["recheck"] = {}

\* A terminal status in the database is the provider's own.
StatusTruthful == \A d \in Delivery : status[d] \in Terminal(d) => remote[d] = status[d]

\* poll_attempts never passes the configured limit, except by one for each
\* decision to give up that a shutdown, a crash or a database error swallowed.
AttemptsBounded == \A d \in Delivery : Limit > 0 => attempts[d] <= Limit + lost[d]

\* A settled row is never written again.
SettledIsFinal ==
  [][\A d \in Delivery :
       status[d] \in Terminal(d) \cup {"malformed"} => status'[d] = status[d]]_vars

\* A row is given up only when its failed polls have reached the limit, whatever
\* the startup check resets in the meantime; never when the limit is 0.
GivesUpAtLimit ==
  [][\A d \in Delivery :
       status[d] # "poll_failed" /\ status'[d] = "poll_failed"
         => Limit > 0 /\ attempts[d] >= Limit]_vars

\* Every row in flight is eventually settled or given up, also across restarts,
\* unless the process is told to stop.
Settles ==
  \A d \in Delivery : status[d] \in InFlight(d) ~> (status[d] \notin InFlight(d) \/ ctxDone)

\* poller.go:161: a delivery that is still in flight is checked again on the next
\* poll cycle. A row that was poll_failed when it was looked at is not.
CheckedAgain == \A d \in Delivery : again[d] ~> (~again[d] \/ ctxDone)
=============================================================================
