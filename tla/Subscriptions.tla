---------------------------- MODULE Subscriptions ----------------------------
(***************************************************************************)
(* The SMS subscriptions (api/subscribe.go, api/subscriptions.go): the web   *)
(* form, the administrator's API and the user's own API subscribe and       *)
(* unsubscribe a name, each in several queries on one table, and a new       *)
(* subscriber gets a welcome message through the dispatcher's queue. The     *)
(* database compares names exactly, except where a query says otherwise;     *)
(* the directory and one query ignore their case. Who may ask is decided     *)
(* before (Access). The audit entries are best effort and left out.          *)
(***************************************************************************)
EXTENDS JobQueue, Functions

CONSTANTS
  Request,   \* requests
  Spelling,  \* names as they may be typed
  Fold,      \* Fold[u]: the person whose name u is, whatever its case
  Mobile     \* the number the directory has for a person, or one of NoNumber

NoNumber == {"no entry", "none", "malformed"}
Persons == DOMAIN Mobile

ASSUME SpellingAssumption == Fold \in [Spelling -> Persons]
ASSUME RequestAssumption ==
  /\ IsFiniteSet(Request)
  /\ \A l \in IntakeLoads, r \in Request :
       \A a \in l.asks[r] :
         a.op \in {"subscribe", "unsubscribe"} /\ a.door \in {"form", "api"} /\ a.user \in Spelling

VARIABLES
  subs,      \* sms_subscriptions: subs[u] is the phone of the row with key u
  req,       \* req[r] = [op, door, user, step, answer, since]; since, a ghost: deleted[user]
             \* when the request inserted its row
  welcomes,  \* the welcome notifications: [by, user, phone]
  deleted    \* ghost: how many rows with this key were deleted

subVars == <<subs, req, welcomes, deleted>>

NoAsk == [op |-> "none", door |-> "none", user |-> "none", step |-> "idle", answer |-> "none",
          since |-> 0]

SubTypeOK ==
  /\ DOMAIN subs \subseteq Spelling
  /\ \A u \in DOMAIN subs : subs[u] = Mobile[Fold[u]] /\ subs[u] \notin NoNumber
  /\ \A r \in Request :
       /\ req[r].step \in {"idle", "lookup", "get", "insert", "welcome", "offer", "reread",
                           "delete", "done"}
       /\ req[r].step = "done" <=> req[r].answer # "none"
       /\ req[r].step \in {"insert", "welcome", "offer", "reread"} => req[r].op = "subscribe"
  /\ \A w \in welcomes : req[w.by].user = w.user /\ w.phone = Mobile[Fold[w.user]]
  /\ deleted \in [Spelling -> Nat]

SubInit ==
  /\ subs = <<>>
  /\ req = [r \in Request |-> NoAsk]
  /\ welcomes = {}
  /\ deleted = [u \in Spelling |-> 0]

-----------------------------------------------------------------------------
Number(r) == Mobile[Fold[req[r].user]]
At(r, op, s) == req[r].op = op /\ req[r].step = s
Goes(r, s) == req' = [req EXCEPT ![r].step = s]
Inserted(r) == req' = [req EXCEPT ![r].step = "welcome", ![r].since = deleted[req[r].user]]
Told(r, a) == req' = [req EXCEPT ![r].step = "done", ![r].answer = a]
SameRows == UNCHANGED <<subs, welcomes, deleted>>

\* GetSMSSubscription: a row whose name is u in any case.
Registered(u) == \E v \in DOMAIN subs : Fold[v] = Fold[u]

\* The dispatcher's question before it sends a message.
GetSMSSubscriptionByPhone(p) == p \in Range(subs)

\* A request arrives, by the form or by the API.
Asked(r, a) ==
  /\ req[r].step = "idle"
  /\ req' = [req EXCEPT ![r] = [op |-> a.op, door |-> a.door, user |-> a.user, answer |-> "none", since |-> 0,
                                step |-> IF a.op = "subscribe" THEN "lookup" ELSE "get"]]
  /\ SameRows /\ UNCHANGED queueVars

LookupUser(r) ==
  /\ At(r, "subscribe", "lookup")
  /\ IF Number(r) \in NoNumber THEN Told(r, "refused") ELSE Goes(r, "get")
  /\ SameRows /\ UNCHANGED queueVars

CheckSubscribed(r) ==
  /\ At(r, "subscribe", "get")
  /\ IF Registered(req[r].user) THEN Told(r, "already") ELSE Goes(r, "insert")
  /\ SameRows /\ UNCHANGED queueVars

\* The table with a row for r's name, as typed.
WithRow(r) ==
  [v \in DOMAIN subs \cup {req[r].user} |-> IF v = req[r].user THEN Number(r) ELSE subs[v]]

\* Mutant: an insert that fails is logged and the handler goes on.
InsertGoesOn(r) ==
  /\ At(r, "subscribe", "insert")
  /\ \/ Trouble /\ UNCHANGED subs
     \/ subs' = WithRow(r) /\ UNCHANGED queueVars
  /\ Inserted(r)
  /\ UNCHANGED <<welcomes, deleted>>

\* Mutant: INSERT OR REPLACE.
InsertReplaces(r) ==
  /\ At(r, "subscribe", "insert")
  /\ subs' = WithRow(r)
  /\ Inserted(r)
  /\ UNCHANGED <<welcomes, deleted>> /\ UNCHANGED queueVars

\* InsertSMSSubscription: the name as typed is the key.
Insert(r) ==
  /\ At(r, "subscribe", "insert")
  /\ IF req[r].user \in DOMAIN subs
     THEN Told(r, "failed") /\ UNCHANGED subs
     ELSE Inserted(r) /\ subs' = WithRow(r)
  /\ UNCHANGED <<welcomes, deleted>> /\ UNCHANGED queueVars

\* sendWelcomeSMS: its event and its notification, which needs the event.
StoreWelcome(r) ==
  /\ At(r, "subscribe", "welcome")
  /\ welcomes' = welcomes \cup {[by |-> r, user |-> req[r].user, phone |-> Number(r)]}
  /\ Goes(r, "offer")
  /\ UNCHANGED <<subs, deleted>> /\ UNCHANGED queueVars

\* The form answers; the API reads the new row once more, and answers 201 whatever it reads.
AfterWelcome(r) == IF req[r].door = "form" THEN Told(r, "registered") ELSE Goes(r, "reread")

WelcomeJob(r) == <<<<r, 0>>, 1>>
sendWelcomeSMS(r) ==
  /\ At(r, "subscribe", "offer")
  /\ Offer(WelcomeJob(r))
  /\ AfterWelcome(r)
  /\ SameRows /\ UNCHANGED <<load, faults, taken>>

Reread(r) ==
  /\ At(r, "subscribe", "reread")
  /\ Told(r, "registered")
  /\ SameRows /\ UNCHANGED queueVars

CheckRegistered(r) ==
  /\ At(r, "unsubscribe", "get")
  /\ IF Registered(req[r].user) THEN Goes(r, "delete") ELSE Told(r, "not registered")
  /\ SameRows /\ UNCHANGED queueVars

\* DeleteSMSSubscription: the row with exactly this name, if there is one. The handler
\* does not learn whether there was.
Delete(r) ==
  /\ At(r, "unsubscribe", "delete")
  /\ LET u == req[r].user
     IN /\ subs' = Restrict(subs, DOMAIN subs \ {u})
        /\ deleted' = [deleted EXCEPT ![u] = @ + Cardinality({u} \cap DOMAIN subs)]
  /\ Told(r, "unsubscribed")
  /\ UNCHANGED welcomes /\ UNCHANGED queueVars

\* A call fails. A failed check reads as "no row"; a failed welcome is logged; a failed
\* second reading is not even looked at.
Fails(r) ==
  /\ Trouble
  /\ \/ At(r, "subscribe", "lookup") /\ Told(r, "unavailable")
     \/ At(r, "subscribe", "get") /\ Goes(r, "insert")
     \/ At(r, "subscribe", "insert") /\ Told(r, "failed")
     \/ At(r, "subscribe", "welcome") /\ AfterWelcome(r)
     \/ At(r, "subscribe", "reread") /\ Told(r, "registered")
     \/ At(r, "unsubscribe", "get") /\ Told(r, "not registered")
     \/ At(r, "unsubscribe", "delete") /\ Told(r, "failed")
  /\ SameRows

HandleRequest(r) ==
  \/ \E a \in load.asks[r] : Asked(r, a)
  \/ LookupUser(r) \/ CheckSubscribed(r) \/ Insert(r)
  \/ StoreWelcome(r) \/ sendWelcomeSMS(r) \/ Reread(r)
  \/ CheckRegistered(r) \/ Delete(r)
  \/ Fails(r)

-----------------------------------------------------------------------------
Joined(r) ==
  /\ req[r].op = "subscribe"
  /\ req[r].step \in {"welcome", "offer", "reread"} \/ req[r].answer = "registered"

\* Registrations and rows agree: whoever is told "registered", by any door, was given a
\* row of their own, which is still there or was deleted since; two requests for one
\* name never both register it, whatever their checks read and whichever calls failed.
\* (The subscribe handlers, between GetSMSSubscription and InsertSMSSubscription.)
RegisteredIsSubscribed ==
  \A u \in Spelling :
    Cardinality({r \in Request : Joined(r) /\ req[r].user = u})
      = deleted[u] + Cardinality({u} \cap DOMAIN subs)

\* "The phone must already be in sms_subscriptions so the dispatcher gate passes"
\* (sendWelcomeSMS): when a worker may get the job of a welcome message, its number is
\* subscribed, or its subscriber has left since.
WelcomePassesGate ==
  \A w \in welcomes :
    Queued(WelcomeJob(w.by)) =>
      GetSMSSubscriptionByPhone(w.phone) \/ deleted[w.user] > req[w.by].since

\* "You have been successfully unsubscribed from SMS notifications." (subscribe.go), and
\* "Removes the user's subscription" (README): the moment the delete of an unsubscription
\* that is told so is done, the person has no subscription left. The delete compares the
\* name exactly, the check before it ignores its case, and so this does not hold.
UnsubscribedIsGone ==
  [][\A r \in Request :
       At(r, "unsubscribe", "delete") /\ req'[r].answer = "unsubscribed"
         => \A v \in DOMAIN subs' : Fold[v] # Fold[req[r].user]]_subVars
=============================================================================
