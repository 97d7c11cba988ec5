----------------------------- MODULE Lifecycle -----------------------------
(***************************************************************************)
(* What the relay promises a caller who reads a notification back through  *)
(* the API (GET /notifications/{id} and its deliveries), with the queue,   *)
(* the workers, the semaphore and the retries hidden:                      *)
(*   - a notification appears as "pending", may be seen "processing", and  *)
(*     is closed once, as "completed" or "failed";                         *)
(*   - a delivery target is recorded at most once, and only while its      *)
(*     notification is still open.                                         *)
(* Dispatcher.tla is shown to implement this specification.                *)
(***************************************************************************)
EXTENDS Sequences

CONSTANTS
  Notif,   \* notification ids
  Key,     \* delivery targets; k.n is the notification k belongs to
  Row      \* what a row says: its status and its attempt count

VARIABLES
  status,  \* notifications.status, "absent" before the row exists
  rows     \* the deliveries rows written for each target

lvars == <<status, rows>>

Open   == {"pending", "processing"}
Closed == {"completed", "failed"}

LInit ==
  /\ status = [n \in Notif |-> "absent"]
  /\ rows = [k \in Key |-> <<>>]

Appear(n) ==
  /\ status[n] = "absent"
  /\ status' = [status EXCEPT ![n] = "pending"]
  /\ UNCHANGED rows

Begin(n) ==
  /\ status[n] = "pending"
  /\ status' = [status EXCEPT ![n] = "processing"]
  /\ UNCHANGED rows

Record(k) ==
  /\ status[k.n] \in Open
  /\ rows[k] = <<>>
  /\ Len(rows'[k]) = 1 /\ rows'[k][1] \in Row
  /\ rows' = [rows EXCEPT ![k] = rows'[k]]
  /\ UNCHANGED status

Close(n) ==
  /\ status[n] \in Open
  /\ \E s \in Closed : status' = [status EXCEPT ![n] = s]
  /\ UNCHANGED rows

LNext ==
  \/ \E n \in Notif : Appear(n) \/ Begin(n) \/ Close(n)
  \/ \E k \in Key : Record(k)

LSpec == LInit /\ [][LNext]_lvars
=============================================================================
