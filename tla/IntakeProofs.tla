---------------------------- MODULE IntakeProofs -----------------------------
(***************************************************************************)
(* Theorems about Intake, for any queue and whoever else fills it.           *)
(* Subscriptions, for any names, people and requests: registrations and     *)
(* rows agree, and the number of a welcome message is subscribed (SubInv is *)
(* the inductive invariant). E-mail, for any connections, envelopes and     *)
(* recipients: an answer tells what is stored and queued, and a message     *)
(* goes to those named for it only (MailInv). And the types of it all.      *)
(***************************************************************************)
EXTENDS Intake, FiniteSetTheorems, SequenceTheorems, TLAPS

LEMMA InRange == ASSUME NEW f, NEW v \in DOMAIN f PROVE f[v] \in Range(f)
BY DEF Range

LEMMA Singles == ASSUME NEW u, NEW S PROVE Cardinality({u} \cap S) = IF u \in S THEN 1 ELSE 0
<1>1. CASE u \in S
  <2>1. {u} \cap S = {u}
    BY <1>1
  <2>2. QED
    BY <1>1, <2>1, FS_Singleton
<1>2. CASE u \notin S
  <2>1. {u} \cap S = {}
    BY <1>2
  <2>2. QED
    BY <1>2, <2>1, FS_EmptySet
<1>3. QED
  BY <1>1, <1>2

(***************************************************************************)
(* The invariant. A request is a record; In(a) says that one is past its    *)
(* insert.                                                                  *)
(***************************************************************************)

Ask == [op : {"none", "subscribe", "unsubscribe"}, door : {"none", "form", "api"},
        user : Spelling \cup {"none"},
        step : {"idle", "lookup", "get", "insert", "welcome", "offer", "reread", "delete", "done"},
        answer : {"none", "refused", "unavailable", "already", "failed", "registered",
                  "not registered", "unsubscribed"},
        since : Nat]

In(a) ==
  /\ a.op = "subscribe"
  /\ a.step \in {"welcome", "offer", "reread"} \/ a.answer = "registered"

\* What a request says by itself.
AskOK(a) ==
  /\ a \in Ask
  /\ a.step = "done" <=> a.answer # "none"
  /\ a.step # "idle" => a.user \in Spelling
  /\ a.step \in {"lookup", "insert", "welcome", "offer", "reread"} => a.op = "subscribe"
  /\ a.step = "delete" => a.op = "unsubscribe"
  /\ a.op = "subscribe" /\ a.step \in {"get", "insert"} => Mobile[Fold[a.user]] \notin NoNumber

\* A registered request's row is there, or was deleted since.
Covered(a) ==
  In(a) => a.since <= deleted[a.user] /\ (a.user \in DOMAIN subs \/ deleted[a.user] > a.since)

RowsOK ==
  /\ DOMAIN subs \subseteq Spelling
  /\ \A u \in DOMAIN subs : subs[u] = Mobile[Fold[u]] /\ subs[u] \notin NoNumber
  /\ deleted \in [Spelling -> Nat]

WelcomeOK(w) ==
  /\ w.by \in Request /\ In(req[w.by])
  /\ req[w.by].user = w.user /\ w.phone = Mobile[Fold[w.user]]

Registrations(u) == {r \in Request : Joined(r) /\ req[r].user = u}

SubInv ==
  /\ load \in IntakeLoads
  /\ req \in [Request -> Ask]
  /\ \A r \in Request : AskOK(req[r]) /\ Covered(req[r])
  /\ RowsOK
  /\ \A w \in welcomes : WelcomeOK(w)
  /\ RegisteredIsSubscribed

LEMMA InitSub == Init => SubInv
<1> SUFFICES ASSUME Init PROVE SubInv
  OBVIOUS
<1>1. /\ load \in IntakeLoads /\ subs = <<>> /\ welcomes = {}
      /\ req = [r \in Request |-> NoAsk] /\ deleted = [u \in Spelling |-> 0]
  BY DEF Init, QueueInit, SubInit
<1>2. AskOK(NoAsk) /\ ~In(NoAsk)
  BY DEF AskOK, In, NoAsk, Ask
<1>3. DOMAIN subs = {}
  BY <1>1
<1>4. RowsOK
  BY <1>1, <1>3 DEF RowsOK
<1>5. RegisteredIsSubscribed
  <2> SUFFICES ASSUME NEW u \in Spelling
               PROVE  Cardinality(Registrations(u)) = deleted[u] + Cardinality({u} \cap DOMAIN subs)
    BY DEF RegisteredIsSubscribed, Registrations
  <2>1. Registrations(u) = {}
    BY <1>1, <1>2 DEF Registrations, Joined, In
  <2>2. QED
    BY <1>1, <1>3, <2>1, Singles, FS_EmptySet
<1>6. req \in [Request -> Ask]
  BY <1>1, <1>2 DEF AskOK
<1>7. QED
  BY <1>1, <1>2, <1>4, <1>5, <1>6 DEF SubInv, Covered

(***************************************************************************)
(* The three kinds of steps of a request.                                   *)
(***************************************************************************)

\* Becomes(r, a): r goes on as a; what others know of it is unchanged.
Becomes(r, a) == AskOK(a) /\ req' = [req EXCEPT ![r] = a] /\ load' = load

\* It stores nothing but its welcome, and is registered afterwards if it was before.
Quiet(r, a) ==
  /\ Becomes(r, a)
  /\ UNCHANGED <<subs, deleted>>
  /\ In(a) <=> In(req[r])
  /\ In(a) => a.user = req[r].user /\ a.since = req[r].since
  /\ \A w \in welcomes' : w \in welcomes \/
       (In(a) /\ w.by = r /\ w.user = a.user /\ w.phone = Mobile[Fold[a.user]])

Inserts(r, a) ==
  /\ Becomes(r, a)
  /\ UNCHANGED <<deleted, welcomes>>
  /\ ~In(req[r]) /\ In(a)
  /\ a.user = req[r].user /\ a.since = deleted[a.user]
  /\ a.user \in Spelling /\ a.user \notin DOMAIN subs /\ Number(r) \notin NoNumber
  /\ subs' = WithRow(r)

Deletes(r, a) ==
  /\ Becomes(r, a)
  /\ UNCHANGED welcomes
  /\ ~In(req[r]) /\ ~In(a)
  /\ a.user = req[r].user /\ a.user \in Spelling
  /\ subs' = Restrict(subs, DOMAIN subs \ {a.user})
  /\ deleted' = [deleted EXCEPT ![a.user] = @ + Cardinality({a.user} \cap DOMAIN subs)]

\* The other requests stay as they are.
LEMMA BecomesFacts ==
  ASSUME SubInv, NEW r \in Request, NEW a, Becomes(r, a)
  PROVE  /\ req' \in [Request -> Ask] /\ load' \in IntakeLoads
         /\ req'[r] = a
         /\ \A q \in Request : q # r => req'[q] = req[q]
         /\ \A q \in Request : AskOK(req'[q])
         /\ \A q \in Request : In(req'[q]) => req'[q].user \in Spelling
         /\ \A u : Registrations(u)' = {q \in Request : In(req'[q]) /\ req'[q].user = u}
         /\ \A u : Registrations(u) = {q \in Request : In(req[q]) /\ req[q].user = u}
<1>1. /\ req' \in [Request -> Ask] /\ load' \in IntakeLoads
      /\ req'[r] = a
      /\ \A q \in Request : q # r => req'[q] = req[q]
  BY DEF SubInv, Becomes, AskOK
<1>2. \A q \in Request : AskOK(req'[q])
  BY <1>1 DEF SubInv, Becomes
<1>3. \A q \in Request : In(req'[q]) => req'[q].user \in Spelling
  BY <1>2 DEF AskOK, In
<1>4. \A u : Registrations(u)' = {q \in Request : In(req'[q]) /\ req'[q].user = u}
  BY DEF Registrations, Joined, In
<1>5. \A u : Registrations(u) = {q \in Request : In(req[q]) /\ req[q].user = u}
  BY DEF Registrations, Joined, In
<1>6. QED
  BY <1>1, <1>2, <1>3, <1>4, <1>5

LEMMA QuietInv ==
  ASSUME SubInv, NEW r \in Request, NEW a, Quiet(r, a)
  PROVE  SubInv'
<1>1. Becomes(r, a)
  BY DEF Quiet
<1>2. \A q \in Request : (In(req'[q]) <=> In(req[q])) /\
        (In(req[q]) => req'[q].user = req[q].user /\ req'[q].since = req[q].since)
  BY <1>1, BecomesFacts DEF Quiet
<1>3. \A q \in Request : Covered(req[q])'
  BY <1>1, <1>2, BecomesFacts DEF Quiet, SubInv, Covered
<1>4. RowsOK'
  BY DEF Quiet, SubInv, RowsOK
<1>5. \A w \in welcomes' : WelcomeOK(w)'
  BY <1>1, <1>2, BecomesFacts DEF Quiet, SubInv, WelcomeOK
<1>6. RegisteredIsSubscribed'
  <2>1. ASSUME NEW u PROVE Registrations(u)' = Registrations(u)
    <3>1. \A q : q \in Registrations(u)' <=> q \in Registrations(u)
      BY <1>1, <1>2, BecomesFacts
    <3>2. QED
      BY <3>1
  <2>2. QED
    BY <2>1 DEF Quiet, SubInv, RegisteredIsSubscribed, Registrations
<1>7. QED
  BY <1>1, <1>3, <1>4, <1>5, <1>6, BecomesFacts DEF SubInv

LEMMA InsertsInv ==
  ASSUME SubInv, NEW r \in Request, NEW a, Inserts(r, a)
  PROVE  SubInv'
<1> DEFINE u == req[r].user
<1>1. Becomes(r, a)
  BY DEF Inserts
<1>2. /\ u \in Spelling /\ u \notin DOMAIN subs /\ a.user = u /\ a.since = deleted[u]
      /\ ~In(req[r]) /\ In(a) /\ deleted' = deleted /\ welcomes' = welcomes
  BY DEF Inserts
<1>3. DOMAIN subs' = DOMAIN subs \cup {u} /\ subs'[u] = Number(r) /\ \A v \in DOMAIN subs : subs'[v] = subs[v]
  BY <1>2 DEF Inserts, WithRow
<1>4. RowsOK'
  BY <1>2, <1>3 DEF Inserts, SubInv, RowsOK, Number
<1>5. \A q \in Request : Covered(req[q])'
  BY <1>1, <1>2, <1>3, BecomesFacts DEF SubInv, RowsOK, Covered
<1>6. \A w \in welcomes' : WelcomeOK(w)'
  BY <1>1, <1>2, BecomesFacts DEF SubInv, WelcomeOK
<1>7. RegisteredIsSubscribed'
  <2> SUFFICES ASSUME NEW v \in Spelling
               PROVE  Cardinality(Registrations(v)') = deleted[v] + Cardinality({v} \cap DOMAIN subs')
    BY <1>2 DEF RegisteredIsSubscribed, Registrations
  <2>1. Cardinality(Registrations(v)) = deleted[v] + Cardinality({v} \cap DOMAIN subs)
    BY DEF SubInv, RegisteredIsSubscribed, Registrations
  <2>2. IsFiniteSet(Registrations(v)) /\ deleted[v] \in Nat
    <3>1. Registrations(v) \in SUBSET Request
      BY DEF Registrations
    <3>2. QED
      BY <3>1, RequestAssumption, FS_Subset DEF SubInv, RowsOK
  <2>3. CASE v = u
    <3>1. Registrations(v)' = Registrations(v) \cup {r} /\ r \notin Registrations(v)
      BY <1>1, <1>2, <2>3, BecomesFacts
    <3>2. Cardinality(Registrations(v)') = Cardinality(Registrations(v)) + 1
      BY <2>2, <3>1, FS_AddElement
    <3>3. Cardinality({v} \cap DOMAIN subs) = 0 /\ Cardinality({v} \cap DOMAIN subs') = 1
      BY <1>2, <1>3, <2>3, Singles
    <3>4. QED
      BY <2>1, <2>2, <3>2, <3>3
  <2>4. CASE v # u
    <3>1. \A q : q \in Registrations(v)' <=> q \in Registrations(v)
      BY <1>1, <1>2, <2>4, BecomesFacts
    <3>2. Registrations(v)' = Registrations(v)
      BY <3>1
    <3>3. QED
      BY <1>3, <2>1, <2>4, <3>2, Singles
  <2>5. QED
    BY <2>3, <2>4
<1>8. QED
  BY <1>1, <1>4, <1>5, <1>6, <1>7, BecomesFacts DEF SubInv

LEMMA DeletesInv ==
  ASSUME SubInv, NEW r \in Request, NEW a, Deletes(r, a)
  PROVE  SubInv'
<1> DEFINE u == req[r].user
<1>1. Becomes(r, a)
  BY DEF Deletes
<1>2. u \in Spelling /\ a.user = u /\ ~In(req[r]) /\ ~In(a) /\ welcomes' = welcomes
  BY DEF Deletes
<1>3. DOMAIN subs' = DOMAIN subs \ {u} /\ \A v \in DOMAIN subs' : subs'[v] = subs[v]
  <2>1. subs' = Restrict(subs, DOMAIN subs \ {u})
    BY <1>2 DEF Deletes
  <2>2. QED
    BY <2>1 DEF Restrict
<1>4. /\ deleted' \in [Spelling -> Nat] /\ deleted \in [Spelling -> Nat]
      /\ deleted'[u] = deleted[u] + (IF u \in DOMAIN subs THEN 1 ELSE 0)
      /\ \A v \in Spelling : v # u => deleted'[v] = deleted[v]
  <2>1. deleted' = [deleted EXCEPT ![u] = @ + (IF u \in DOMAIN subs THEN 1 ELSE 0)]
    BY <1>2, Singles DEF Deletes
  <2>2. QED
    BY <1>2, <2>1 DEF SubInv, RowsOK
<1>5. RowsOK'
  BY <1>3, <1>4 DEF SubInv, RowsOK
<1>6. \A q \in Request : Covered(req[q])'
  <2> SUFFICES ASSUME NEW q \in Request, In(req'[q])
               PROVE  /\ req'[q].since <= deleted'[req'[q].user]
                      /\ req'[q].user \in DOMAIN subs' \/ deleted'[req'[q].user] > req'[q].since
    BY DEF Covered
  <2>1. q # r /\ req'[q] = req[q]
    BY <1>1, <1>2, BecomesFacts
  <2>2. req[q].user \in Spelling /\ req[q].since \in Nat
    BY <1>1, <2>1, BecomesFacts DEF SubInv, Ask
  <2>3. /\ req[q].since <= deleted[req[q].user]
        /\ req[q].user \in DOMAIN subs \/ deleted[req[q].user] > req[q].since
    BY <2>1 DEF SubInv, Covered
  <2>4. QED
    BY <1>3, <1>4, <2>1, <2>2, <2>3
<1>7. \A w \in welcomes' : WelcomeOK(w)'
  BY <1>1, <1>2, BecomesFacts DEF SubInv, WelcomeOK
<1>8. RegisteredIsSubscribed'
  <2> SUFFICES ASSUME NEW v \in Spelling
               PROVE  Cardinality(Registrations(v)') = deleted'[v] + Cardinality({v} \cap DOMAIN subs')
    BY DEF RegisteredIsSubscribed, Registrations
  <2>1. Cardinality(Registrations(v)) = deleted[v] + Cardinality({v} \cap DOMAIN subs)
    BY DEF SubInv, RegisteredIsSubscribed, Registrations
  <2>2. Registrations(v)' = Registrations(v)
    <3>1. \A q : q \in Registrations(v)' <=> q \in Registrations(v)
      BY <1>1, <1>2, BecomesFacts
    <3>2. QED
      BY <3>1
  <2>3. QED
    BY <1>3, <1>4, <2>1, <2>2, Singles
<1>9. QED
  BY <1>1, <1>5, <1>6, <1>7, <1>8, BecomesFacts DEF SubInv

(***************************************************************************)
(* Every step of a request is of one of these kinds.                        *)
(***************************************************************************)

Going(r, s) == [req[r] EXCEPT !.step = s]
Answering(r, x) == [req[r] EXCEPT !.step = "done", !.answer = x]

LEMMA AskFields ==
  ASSUME SubInv, NEW r \in Request
  PROVE  /\ req[r] \in Ask /\ AskOK(req[r])
         /\ \A s : LET a == Going(r, s) IN
              /\ a.step = s /\ a.answer = req[r].answer
              /\ a.op = req[r].op /\ a.user = req[r].user /\ a.since = req[r].since
         /\ \A x : LET a == Answering(r, x) IN
              /\ a.step = "done" /\ a.answer = x
              /\ a.op = req[r].op /\ a.user = req[r].user /\ a.since = req[r].since
<1>1. req[r] \in Ask /\ AskOK(req[r])
  BY DEF SubInv
<1>2. QED
  BY <1>1 DEF Ask, Going, Answering

LEMMA GoesBecomes ==
  ASSUME SubInv, NEW r \in Request, load' = load,
         req[r].step \notin {"idle", "done"},
         NEW s \in {"get", "insert", "welcome", "offer", "reread", "delete"}, Goes(r, s),
         s \in {"insert", "welcome", "offer", "reread"} => req[r].op = "subscribe",
         s = "delete" => req[r].op = "unsubscribe",
         s \in {"get", "insert"} /\ req[r].op = "subscribe" => Number(r) \notin NoNumber
  PROVE  Becomes(r, Going(r, s))
<1>1. Going(r, s) \in Ask
  BY AskFields DEF Ask, Going
<1>2. AskOK(Going(r, s))
  BY <1>1, AskFields DEF AskOK, Number
<1>3. QED
  BY <1>2 DEF Becomes, Goes, Going, SubInv

LEMMA ToldBecomes ==
  ASSUME SubInv, NEW r \in Request, load' = load, req[r].step # "idle",
         NEW x \in {"refused", "unavailable", "already", "failed", "registered", "not registered",
                    "unsubscribed"},
         Told(r, x)
  PROVE  Becomes(r, Answering(r, x))
<1>1. /\ req[r] \in Ask /\ req[r].user \in Spelling
      /\ Answering(r, x).step = "done" /\ Answering(r, x).answer = x
      /\ Answering(r, x).user = req[r].user
  BY AskFields DEF AskOK
<1>2. x \in {"none", "refused", "unavailable", "already", "failed", "registered",
             "not registered", "unsubscribed"} /\ x # "none"
  OBVIOUS
<1>3. Answering(r, x) \in Ask
  <2>1. [req[r] EXCEPT !.step = "done"] \in Ask
    BY <1>1 DEF Ask
  <2>2. QED
    BY <1>2, <2>1 DEF Ask, Answering
<1>4. AskOK(Answering(r, x))
  BY <1>1, <1>2, <1>3 DEF AskOK
<1>5. QED
  BY <1>4 DEF Becomes, Told, Answering, SubInv

\* A refusal, an answer or a further check changes nothing of the request's registration.
LEMMA ToldQuiet ==
  ASSUME SubInv, NEW r \in Request, load' = load, req[r].step \notin {"idle", "done"},
         NEW x \in {"refused", "unavailable", "already", "failed", "registered", "not registered",
                    "unsubscribed"},
         Told(r, x), SameRows,
         x = "registered" <=> In(req[r])
  PROVE  Quiet(r, Answering(r, x))
<1>1. Becomes(r, Answering(r, x))
  BY ToldBecomes
<1>2. In(req[r]) => req[r].op = "subscribe"
  BY DEF In
<1>3. In(Answering(r, x)) <=> In(req[r])
  BY <1>2, AskFields DEF In
<1>4. QED
  BY <1>1, <1>3, AskFields DEF Quiet, SameRows

LEMMA GoesQuiet ==
  ASSUME SubInv, NEW r \in Request, NEW s, Becomes(r, Going(r, s)), SameRows,
         req[r].step \notin {"idle", "done"},
         s \in {"welcome", "offer", "reread"} <=> req[r].step \in {"welcome", "offer", "reread"}
  PROVE  Quiet(r, Going(r, s))
<1>1. In(Going(r, s)) <=> In(req[r])
  BY AskFields DEF In, AskOK
<1>2. QED
  BY <1>1, AskFields DEF Quiet, SameRows

LEMMA PastInsert ==
  ASSUME SubInv, NEW r \in Request, req[r].step \notin {"idle", "done"}
  PROVE  In(req[r]) <=> req[r].step \in {"welcome", "offer", "reread"}
BY AskFields DEF In, AskOK

\* After the welcome message the form answers and the API reads again.
LEMMA AfterWelcomeBecomes ==
  ASSUME SubInv, NEW r \in Request, load' = load, req[r].step \in {"welcome", "offer"},
         AfterWelcome(r), SameRows
  PROVE  \E a : Quiet(r, a)
<1>1. In(req[r]) /\ req[r].op = "subscribe"
  BY PastInsert DEF In
<1>2. CASE Told(r, "registered")
  BY <1>1, <1>2, ToldQuiet
<1>3. CASE Goes(r, "reread")
  <2>1. Becomes(r, Going(r, "reread"))
    BY <1>1, <1>3, GoesBecomes
  <2>2. QED
    BY <2>1, GoesQuiet
<1>4. QED
  BY <1>2, <1>3 DEF AfterWelcome

LEMMA RequestKinds ==
  ASSUME SubInv, NEW r \in Request, HandleRequest(r)
  PROVE  \E a : Quiet(r, a) \/ Inserts(r, a) \/ Deletes(r, a)
<1>1. ASSUME NEW x \in load.asks[r], Asked(r, x) PROVE \E a : Quiet(r, a)
  <2> DEFINE a == [op |-> x.op, door |-> x.door, user |-> x.user, answer |-> "none", since |-> 0,
                   step |-> IF x.op = "subscribe" THEN "lookup" ELSE "get"]
  <2>1. /\ x.op \in {"subscribe", "unsubscribe"} /\ x.door \in {"form", "api"}
        /\ x.user \in Spelling
    BY <1>1, RequestAssumption DEF SubInv
  <2>2. a \in Ask
    BY <2>1 DEF Ask
  <2>3. AskOK(a) /\ ~In(a)
    BY <2>1, <2>2 DEF AskOK, In
  <2>4. req[r].step = "idle" /\ req' = [req EXCEPT ![r] = a] /\ SameRows /\ load' = load
    BY <1>1 DEF Asked, queueVars
  <2>5. ~In(req[r])
    BY <2>4, AskFields DEF In, AskOK
  <2>6. Becomes(r, a)
    BY <2>3, <2>4 DEF Becomes
  <2> HIDE DEF a
  <2>7. Quiet(r, a)
    BY <2>3, <2>4, <2>5, <2>6 DEF Quiet, SameRows
  <2>8. QED
    BY <2>7
<1>2. CASE LookupUser(r)
  <2>1. SameRows /\ load' = load /\ At(r, "subscribe", "lookup")
    BY <1>2 DEF LookupUser, queueVars
  <2>2. ~In(req[r])
    BY <2>1, PastInsert DEF At
  <2>3. CASE Number(r) \in NoNumber
    BY <1>2, <2>1, <2>2, <2>3, ToldQuiet DEF LookupUser, At
  <2>4. CASE Number(r) \notin NoNumber
    <3>1. Becomes(r, Going(r, "get"))
      BY <1>2, <2>1, <2>4, GoesBecomes DEF LookupUser, At
    <3>2. QED
      BY <2>1, <3>1, GoesQuiet DEF At
  <2>5. QED
    BY <2>3, <2>4
<1>3. CASE CheckSubscribed(r)
  <2>1. SameRows /\ load' = load /\ At(r, "subscribe", "get")
    BY <1>3 DEF CheckSubscribed, queueVars
  <2>2. ~In(req[r])
    BY <2>1, PastInsert DEF At
  <2>3. CASE Told(r, "already")
    BY <2>1, <2>2, <2>3, ToldQuiet DEF At
  <2>4. CASE Goes(r, "insert")
    <3>1. Becomes(r, Going(r, "insert"))
      BY <2>1, <2>4, AskFields, GoesBecomes DEF At, AskOK, Number
    <3>2. QED
      BY <2>1, <3>1, GoesQuiet DEF At
  <2>5. QED
    BY <1>3, <2>3, <2>4 DEF CheckSubscribed
<1>4. CASE Insert(r)
  <2>1. load' = load /\ At(r, "subscribe", "insert") /\ UNCHANGED <<welcomes, deleted>>
    BY <1>4 DEF Insert, queueVars
  <2>2. ~In(req[r]) /\ req[r].user \in Spelling /\ Number(r) \notin NoNumber
    BY <2>1, PastInsert, AskFields DEF At, AskOK, Number
  <2>3. CASE req[r].user \in DOMAIN subs
    <3>1. SameRows /\ Told(r, "failed")
      BY <1>4, <2>1, <2>3 DEF Insert, SameRows
    <3>2. QED
      BY <2>1, <2>2, <3>1, ToldQuiet DEF At
  <2>4. CASE req[r].user \notin DOMAIN subs
    <3> DEFINE a == [req[r] EXCEPT !.step = "welcome", !.since = deleted[req[r].user]]
    <3>1. deleted[req[r].user] \in Nat
      BY <2>2 DEF SubInv, RowsOK
    <3>2. /\ a \in Ask /\ a.step = "welcome" /\ a.answer = req[r].answer /\ a.op = "subscribe"
          /\ a.user = req[r].user /\ a.since = deleted[req[r].user]
      BY <2>1, <3>1, AskFields DEF Ask, At
    <3>3. subs' = WithRow(r) /\ req' = [req EXCEPT ![r] = a]
      BY <1>4, <2>4 DEF Insert, Inserted, SubInv
    <3> HIDE DEF a
    <3>4. AskOK(a) /\ In(a)
      BY <2>1, <2>2, <3>2, AskFields DEF AskOK, In, At
    <3>5. Becomes(r, a)
      BY <2>1, <3>3, <3>4 DEF Becomes
    <3>6. Inserts(r, a)
      BY <2>1, <2>2, <2>4, <3>2, <3>3, <3>4, <3>5 DEF Inserts
    <3>7. QED
      BY <3>6
  <2>5. QED
    BY <2>3, <2>4
<1>5. CASE StoreWelcome(r)
  <2>1. load' = load /\ At(r, "subscribe", "welcome") /\ UNCHANGED <<subs, deleted>>
    BY <1>5 DEF StoreWelcome, queueVars
  <2>2. Becomes(r, Going(r, "offer"))
    BY <1>5, <2>1, GoesBecomes DEF StoreWelcome, At
  <2>3. In(Going(r, "offer")) /\ In(req[r])
    BY <2>1, AskFields DEF In, At
  <2>4. welcomes' = welcomes \cup {[by |-> r, user |-> req[r].user, phone |-> Number(r)]}
    BY <1>5 DEF StoreWelcome
  <2>5. Quiet(r, Going(r, "offer"))
    BY <2>1, <2>2, <2>3, <2>4, AskFields DEF Quiet, Number
  <2>6. QED
    BY <2>5
<1>6. CASE sendWelcomeSMS(r)
  <2>1. load' = load /\ req[r].step = "offer" /\ AfterWelcome(r) /\ SameRows
    BY <1>6 DEF sendWelcomeSMS, At
  <2>2. QED
    BY <2>1, AfterWelcomeBecomes
<1>7. CASE Reread(r)
  <2>1. load' = load /\ req[r].step = "reread" /\ Told(r, "registered") /\ SameRows
    BY <1>7 DEF Reread, At, queueVars
  <2>2. QED
    BY <2>1, PastInsert, ToldQuiet
<1>8. CASE CheckRegistered(r)
  <2>1. SameRows /\ load' = load /\ At(r, "unsubscribe", "get")
    BY <1>8 DEF CheckRegistered, queueVars
  <2>2. ~In(req[r])
    BY <2>1, PastInsert DEF At
  <2>3. CASE Told(r, "not registered")
    BY <2>1, <2>2, <2>3, ToldQuiet DEF At
  <2>4. CASE Goes(r, "delete")
    <3>1. Becomes(r, Going(r, "delete"))
      BY <2>1, <2>4, GoesBecomes DEF At
    <3>2. QED
      BY <2>1, <3>1, GoesQuiet DEF At
  <2>5. QED
    BY <1>8, <2>3, <2>4 DEF CheckRegistered
<1>9. CASE Delete(r)
  <2>1. /\ load' = load /\ At(r, "unsubscribe", "delete") /\ UNCHANGED welcomes
        /\ Told(r, "unsubscribed")
        /\ subs' = Restrict(subs, DOMAIN subs \ {req[r].user})
        /\ deleted' = [deleted EXCEPT ![req[r].user] = @ + Cardinality({req[r].user} \cap DOMAIN subs)]
    BY <1>9 DEF Delete, queueVars
  <2>2. ~In(req[r]) /\ req[r].user \in Spelling
    BY <2>1, PastInsert, AskFields DEF At, AskOK
  <2>3. Becomes(r, Answering(r, "unsubscribed"))
    BY <2>1, ToldBecomes DEF At
  <2>4. ~In(Answering(r, "unsubscribed"))
    BY AskFields DEF In
  <2>5. Deletes(r, Answering(r, "unsubscribed"))
    BY <2>1, <2>2, <2>3, <2>4, AskFields DEF Deletes
  <2>6. QED
    BY <2>5
<1>10. CASE Fails(r)
  <2>1. load' = load /\ SameRows
    BY <1>10 DEF Fails, Trouble
  <2>2. CASE At(r, "subscribe", "lookup") /\ Told(r, "unavailable")
    BY <2>1, <2>2, PastInsert, ToldQuiet DEF At
  <2>3. CASE At(r, "subscribe", "get") /\ Goes(r, "insert")
    <3>1. Becomes(r, Going(r, "insert"))
      BY <2>1, <2>3, AskFields, GoesBecomes DEF At, AskOK, Number
    <3>2. QED
      BY <2>1, <2>3, <3>1, GoesQuiet DEF At
  <2>4. CASE At(r, "subscribe", "insert") /\ Told(r, "failed")
    BY <2>1, <2>4, PastInsert, ToldQuiet DEF At
  <2>5. CASE At(r, "subscribe", "welcome") /\ AfterWelcome(r)
    BY <2>1, <2>5, AfterWelcomeBecomes DEF At
  <2>6. CASE At(r, "subscribe", "reread") /\ Told(r, "registered")
    BY <2>1, <2>6, PastInsert, ToldQuiet DEF At
  <2>7. CASE At(r, "unsubscribe", "get") /\ Told(r, "not registered")
    BY <2>1, <2>7, PastInsert, ToldQuiet DEF At
  <2>8. CASE At(r, "unsubscribe", "delete") /\ Told(r, "failed")
    BY <2>1, <2>8, PastInsert, ToldQuiet DEF At
  <2>9. QED
    BY <1>10, <2>2, <2>3, <2>4, <2>5, <2>6, <2>7, <2>8 DEF Fails
<1>11. QED
  BY <1>1, <1>2, <1>3, <1>4, <1>5, <1>6, <1>7, <1>8, <1>9, <1>10 DEF HandleRequest

LEMMA NextSub == SubInv /\ [Next]_vars => SubInv'
<1> SUFFICES ASSUME SubInv, [Next]_vars PROVE SubInv'
  OBVIOUS
<1>1. CASE UNCHANGED subVars /\ load' = load
  BY <1>1 DEF subVars, SubInv, Covered, RowsOK, WelcomeOK, RegisteredIsSubscribed, Joined
<1>2. ASSUME NEW r \in Request, RequestStep(r) PROVE SubInv'
  BY <1>2, RequestKinds, QuietInv, InsertsInv, DeletesInv DEF RequestStep
<1>3. ASSUME NEW s \in Session, SessionStep(s) PROVE UNCHANGED subVars /\ load' = load
  BY <1>3 DEF SessionStep, Smtp, queueVars, InsertFails, Trouble
<1>4. WorkerStep => UNCHANGED subVars /\ load' = load
  BY DEF WorkerStep, Take
<1>5. UNCHANGED vars => UNCHANGED subVars /\ load' = load
  BY DEF vars, queueVars
<1>6. QED
  BY <1>1, <1>2, <1>3, <1>4, <1>5 DEF Next

(***************************************************************************)
(* E-mail. The invariant says of each envelope what is stored and queued    *)
(* for it, and of each connection how far its envelope is.                  *)
(***************************************************************************)

Recipient == [group : {a.group : a \in load.rcpts}, channels : SUBSET validChannels]
Conn == [authed : BOOLEAN, mailing : BOOLEAN, recipients : Seq(Recipient), n : Nat,
         doing : {"command", "event", "insert", "enqueue"}, todo : Seq(Recipient)]
Jobs == (Mail \X Nat) \cup {WelcomeJob(r) : r \in Request}

Size(e) == Cardinality(Of(e))

\* The i-th recipient of a message, with the channels it gets the message over, and its
\* notification.
Target(e, i) ==
  [group |-> mail[e].to[i].group,
   channels |-> IF mail[e].to[i].channels = {} THEN mail[e].from ELSE mail[e].to[i].channels]
Note(e, i) == [mail |-> e, i |-> i, group |-> Target(e, i).group, channels |-> Target(e, i).channels]

\* The notifications of an envelope are those of its first recipients, and its answer
\* says which of them are queued.
EnvelopeOK(e) ==
  /\ mail[e].to \in Seq(Recipient)
  /\ IsFiniteSet(Of(e)) /\ Size(e) <= Len(mail[e].to)
  /\ Of(e) = {Note(e, i) : i \in 1..Size(e)}
  /\ \A i \in Nat : Queued(<<e, i>>) => i \in 1..Size(e)
  /\ code[e] = 250 => Size(e) = Len(mail[e].to) /\ \A i \in 1..Size(e) : Queued(<<e, i>>)
  /\ code[e] = 550 => e \notin events /\ Size(e) = 0
  /\ code[e] = 451 => \A i \in 1..Size(e) : Queued(<<e, i>>)
  /\ code[e] = 452 => \A i \in 1..Size(e) : Queued(<<e, i>>) <=> i < Size(e)

Untouched(e) == code[e] = 0 /\ e \notin events /\ Size(e) = 0

\* The recipients of e that are done with, while its message is being processed.
Before(s, e) == IF conn[s].doing = "enqueue" THEN Size(e) - 1 ELSE Size(e)

Processing(s, e) ==
  /\ conn[s].mailing /\ conn[s].todo # <<>> /\ code[e] = 0
  /\ Before(s, e) \in Nat /\ Len(conn[s].todo) = Len(mail[e].to) - Before(s, e)
  /\ \A j \in 1..Len(conn[s].todo) : conn[s].todo[j] = Target(e, Before(s, e) + j)
  /\ \A i \in 1..Before(s, e) : Queued(<<e, i>>)
  /\ conn[s].doing = "event" => Untouched(e)
  /\ conn[s].doing = "enqueue" => ~Queued(<<e, Size(e)>>)

ConnOK(s) ==
  /\ conn[s] \in Conn /\ conn[s].n <= MaxEnvelopes /\ (conn[s].mailing => conn[s].n >= 1)
  /\ asked[s] \in Seq(Recipient) /\ conn[s].recipients = asked[s]
  /\ \A k \in 1..MaxEnvelopes :
       k > conn[s].n \/ (k = conn[s].n /\ conn[s].mailing /\ conn[s].doing = "command") =>
         Untouched(<<s, k>>)
  /\ conn[s].doing # "command" => Processing(s, Current(s))

MailInv ==
  /\ queue \in Seq(Jobs)
  /\ DOMAIN conn = Session /\ DOMAIN asked = Session /\ DOMAIN mail = Mail /\ DOMAIN code = Mail
  /\ \A x \in notifs : x.mail \in Mail
  /\ \A e \in Mail : EnvelopeOK(e)
  /\ \A s \in Session : ConnOK(s)

\* The channel of jobs.
LEMMA OfferFacts ==
  ASSUME queue \in Seq(Jobs), NEW j \in Jobs, Offer(j), taken' = taken
  PROVE  /\ queue' \in Seq(Jobs)
         /\ \A x : Queued(x)' <=> Queued(x) \/ (Room /\ x = j)
<1>1. CASE Room
  <2>1. queue' = Append(queue, j)
    BY <1>1 DEF Offer
  <2>2. /\ queue' \in Seq(Jobs) /\ Len(queue') = Len(queue) + 1 /\ queue'[Len(queue) + 1] = j
        /\ \A i \in 1..Len(queue) : queue'[i] = queue[i]
    BY <2>1, AppendProperties
  <2>3. DOMAIN queue = 1..Len(queue) /\ DOMAIN queue' = 1..Len(queue) + 1 /\ Len(queue) \in Nat
    BY <2>2, LenProperties
  <2>4. ASSUME NEW x PROVE x \in ToSet(queue)' <=> x \in ToSet(queue) \/ x = j
    <3>1. x \in ToSet(queue)' <=> \E i \in 1..Len(queue) + 1 : queue'[i] = x
      BY <2>3 DEF ToSet
    <3>2. x \in ToSet(queue) <=> \E i \in 1..Len(queue) : queue[i] = x
      BY <2>3 DEF ToSet
    <3>3. QED
      BY <2>2, <2>3, <3>1, <3>2
  <2>5. QED
    BY <1>1, <2>2, <2>4 DEF Queued
<1>2. CASE ~Room
  BY <1>2 DEF Offer, Queued
<1>3. QED
  BY <1>1, <1>2

LEMMA TakeFacts ==
  ASSUME queue \in Seq(Jobs), Take
  PROVE  queue' \in Seq(Jobs) /\ \A x : Queued(x)' <=> Queued(x)
<1>1. /\ queue # <<>> /\ queue' = Tail(queue) /\ taken' = taken \cup {Head(queue)}
  BY DEF Take
<1>2. /\ queue' \in Seq(Jobs) /\ Len(queue') = Len(queue) - 1
      /\ \A i \in 1..Len(queue') : queue'[i] = queue[i + 1]
  BY <1>1, HeadTailProperties
<1>3. /\ DOMAIN queue = 1..Len(queue) /\ DOMAIN queue' = 1..Len(queue') /\ Len(queue) \in Nat
      /\ Len(queue) # 0 /\ Head(queue) = queue[1]
  BY <1>1, <1>2, LenProperties, EmptySeq
<1>4. ASSUME NEW x PROVE x \in ToSet(queue) <=> x \in ToSet(queue)' \/ x = Head(queue)
  <2>1. x \in ToSet(queue)' <=> \E i \in 1..Len(queue) - 1 : queue[i + 1] = x
    BY <1>2, <1>3 DEF ToSet
  <2>2. x \in ToSet(queue) <=> \E i \in 1..Len(queue) : queue[i] = x
    BY <1>3 DEF ToSet
  <2>3. \A i \in 1..Len(queue) : i = 1 \/ (i - 1 \in 1..Len(queue) - 1 /\ (i - 1) + 1 = i)
    BY <1>3
  <2>4. \A i \in 1..Len(queue) - 1 : i + 1 \in 1..Len(queue)
    BY <1>3
  <2>5. 1 \in 1..Len(queue)
    BY <1>3
  <2>6. QED
    BY <1>3, <2>1, <2>2, <2>3, <2>4, <2>5
<1>5. QED
  BY <1>1, <1>2, <1>4 DEF Queued

\* What an envelope is not concerned with leaves it as it is.
Same(e) ==
  /\ mail'[e] = mail[e] /\ code'[e] = code[e]
  /\ e \in events' <=> e \in events
  /\ Of(e)' = Of(e)
  /\ \A i \in Nat : Queued(<<e, i>>)' <=> Queued(<<e, i>>)

LEMMA SameEnvelope ==
  ASSUME load' = load, NEW e, Same(e)
  PROVE  /\ Size(e)' = Size(e) /\ \A i : Target(e, i)' = Target(e, i) /\ Note(e, i)' = Note(e, i)
         /\ EnvelopeOK(e) /\ Size(e) \in Nat => EnvelopeOK(e)'
         /\ Untouched(e)' <=> Untouched(e)
<1>1. Size(e)' = Size(e)
  BY DEF Same, Size
<1>2. \A i : Target(e, i)' = Target(e, i) /\ Note(e, i)' = Note(e, i)
  BY DEF Same, Target, Note
<1>3. Recipient' = Recipient
  BY DEF Recipient
<1>4. Untouched(e)' <=> Untouched(e)
  BY <1>1 DEF Same, Untouched
<1>5. ASSUME EnvelopeOK(e), Size(e) \in Nat PROVE EnvelopeOK(e)'
  <2>1. {Note(e, i) : i \in 1..Size(e)}' = {Note(e, i) : i \in 1..Size(e)}
    BY <1>1, <1>2
  <2>2. (mail[e].to \in Seq(Recipient))'
    BY <1>3, <1>5 DEF Same, EnvelopeOK
  <2>3. \A i \in 1..Size(e) : Queued(<<e, i>>)' <=> Queued(<<e, i>>)
    BY <1>5 DEF Same
  <2>4. QED
    BY <1>1, <1>5, <2>1, <2>2, <2>3 DEF Same, EnvelopeOK
<1>6. QED
  BY <1>1, <1>2, <1>4, <1>5

LEMMA SizeInNat == ASSUME NEW e, EnvelopeOK(e) PROVE Size(e) \in Nat
BY FS_CardinalityType DEF EnvelopeOK, Size

\* So it leaves a connection all of whose envelopes are such.
LEMMA SameConnection ==
  ASSUME MailInv, load' = load, NEW s \in Session, conn'[s] = conn[s], asked'[s] = asked[s],
         \A k \in 1..MaxEnvelopes : Same(<<s, k>>)
  PROVE  ConnOK(s)'
<1>1. ConnOK(s)
  BY DEF MailInv
<1>2. Recipient' = Recipient /\ Conn' = Conn
  BY DEF Recipient, Conn
<1>3. \A k \in 1..MaxEnvelopes : Untouched(<<s, k>>)' <=> Untouched(<<s, k>>)
  BY SameEnvelope
<1>4. ASSUME conn[s].doing # "command" PROVE Processing(s, Current(s))'
  <2>1. PICK e \in Mail : e = Current(s) /\ e = <<s, conn[s].n>>
    BY <1>1, <1>4 DEF ConnOK, Processing, Current, Mail, Conn
  <2>2. Same(e) /\ Size(e) \in Nat
    <3>1. conn[s].n \in 1..MaxEnvelopes
      BY <1>1, <1>4, SessionAssumption DEF ConnOK, Processing, Conn
    <3>2. QED
      BY <2>1, <3>1, SizeInNat DEF MailInv
  <2>3. Size(e)' = Size(e) /\ (Untouched(e)' <=> Untouched(e)) /\ \A i : Target(e, i)' = Target(e, i)
    BY <2>2, SameEnvelope
  <2>4. Before(s, e)' = Before(s, e)
    BY <2>3 DEF Before
  <2>5. Processing(s, e)
    BY <1>1, <1>4, <2>1 DEF ConnOK
  <2>6. \A i \in 1..Before(s, e) : Queued(<<e, i>>)' <=> Queued(<<e, i>>)
    BY <2>2, <2>5 DEF Same, Processing
  <2>7. Processing(s, e)'
    BY <2>2, <2>3, <2>4, <2>5, <2>6 DEF Processing, Same
  <2>8. QED
    BY <2>1, <2>7 DEF Current
<1>5. QED
  BY <1>1, <1>2, <1>3, <1>4 DEF ConnOK

\* The shape of the state.
Shape ==
  /\ queue \in Seq(Jobs)
  /\ DOMAIN conn = Session /\ DOMAIN asked = Session /\ DOMAIN mail = Mail /\ DOMAIN code = Mail
  /\ \A x \in notifs : x.mail \in Mail

LEMMA ShapeHolds == MailInv => Shape
BY DEF MailInv, Shape

\* A step of one connection touches only envelopes of its own.
LEMMA OneConnection ==
  ASSUME MailInv, load' = load, Shape', NEW s \in Session,
         \A t \in Session \ {s} : conn'[t] = conn[t] /\ asked'[t] = asked[t],
         \A e \in Mail : Same(e) \/ (EnvelopeOK(e)' /\ e[1] = s),
         ConnOK(s)'
  PROVE  MailInv'
<1>1. ASSUME NEW e \in Mail PROVE EnvelopeOK(e)'
  BY SameEnvelope, SizeInNat DEF MailInv
<1>2. ASSUME NEW t \in Session, t # s PROVE ConnOK(t)'
  <2>1. \A k \in 1..MaxEnvelopes : <<t, k>> \in Mail /\ <<t, k>>[1] = t
    BY DEF Mail
  <2>2. \A k \in 1..MaxEnvelopes : Same(<<t, k>>)
    BY <1>2, <2>1
  <2>3. QED
    BY <1>2, <2>2, SameConnection
<1>3. \A t \in Session : ConnOK(t)'
  BY <1>2
<1>4. QED
  BY <1>1, <1>3 DEF Shape, MailInv

\* Nothing stored, nothing queued.
LEMMA NothingStored ==
  ASSUME StoredNothing, UNCHANGED queueVars
  PROVE  \A e : Same(e)
BY DEF StoredNothing, queueVars, Same, Of, Queued

LEMMA InitMail == Init => MailInv
<1> SUFFICES ASSUME Init PROVE MailInv
  OBVIOUS
<1>1. /\ queue = <<>> /\ taken = {} /\ events = {} /\ notifs = {}
      /\ conn = [s \in Session |-> Idle] /\ asked = [s \in Session |-> <<>>]
      /\ mail = [e \in Mail |-> NoMail] /\ code = [e \in Mail |-> 0]
  BY DEF Init, QueueInit, SmtpInit
<1>2. \A x : ~Queued(x)
  BY <1>1 DEF Queued, ToSet
<1>3. \A e : Of(e) = {} /\ Size(e) = 0
  BY <1>1, FS_EmptySet DEF Of, Size
<1>4. ASSUME NEW e \in Mail PROVE EnvelopeOK(e)
  <2>1. mail[e].to = <<>> /\ Len(mail[e].to) = 0 /\ code[e] = 0
    BY <1>1 DEF NoMail
  <2>2. IsFiniteSet(Of(e)) /\ Of(e) = {Note(e, i) : i \in 1..Size(e)}
    BY <1>3, FS_EmptySet
  <2>3. QED
    BY <1>2, <1>3, <2>1, <2>2 DEF EnvelopeOK
<1>5. ASSUME NEW s \in Session PROVE ConnOK(s)
  <2>1. conn[s] = Idle /\ asked[s] = <<>>
    BY <1>1
  <2>2. Idle \in Conn
    BY DEF Idle, Conn
  <2>3. \A k \in 1..MaxEnvelopes : Untouched(<<s, k>>)
    BY <1>1, <1>3 DEF Untouched, Mail
  <2>4. 0 <= MaxEnvelopes
    BY SessionAssumption
  <2>5. QED
    BY <2>1, <2>2, <2>3, <2>4 DEF ConnOK, Idle
<1>6. QED
  BY <1>1, <1>4, <1>5 DEF MailInv

(***************************************************************************)
(* The commands before a message.                                           *)
(***************************************************************************)

LEMMA CommandStep ==
  ASSUME MailInv, NEW s \in Session, load' = load, UNCHANGED queueVars,
         (\E roles \in load.roles[s] : finishAuth(s, roles)) \/ MailFrom(s) \/ Rset(s)
           \/ (\E a \in load.rcpts : Rcpt(s, a))
  PROVE  MailInv'
<1>1. StoredNothing /\ Ready(s) /\ conn[s].doing = "command"
  BY DEF finishAuth, MailFrom, Rset, Rcpt, Ready
<1>2. \A e : Same(e)
  BY <1>1, NothingStored
<1>3. ConnOK(s) /\ conn[s] \in Conn /\ Shape /\ conn[s].n \in Nat
  BY ShapeHolds DEF MailInv, ConnOK, Conn
<1>4. Recipient' = Recipient /\ Conn' = Conn
  BY DEF Recipient, Conn
<1>5. \A k \in 1..MaxEnvelopes : Untouched(<<s, k>>)' <=> Untouched(<<s, k>>)
  BY <1>2, SameEnvelope
<1>6. /\ \A t \in Session \ {s} : conn'[t] = conn[t] /\ asked'[t] = asked[t]
      /\ DOMAIN conn' = Session /\ DOMAIN asked' = Session
  BY <1>3 DEF Shape, finishAuth, MailFrom, Rset, Rcpt
<1>7. Shape'
  BY <1>1, <1>3, <1>6 DEF Shape, StoredNothing, queueVars, Jobs
<1>8. ConnOK(s)'
  <2>1. CASE \E roles \in load.roles[s] : finishAuth(s, roles)
    <3>1. conn' = [conn EXCEPT ![s].authed = TRUE] /\ asked' = asked
      BY <2>1 DEF finishAuth
    <3>2. /\ conn'[s] \in Conn /\ conn'[s].mailing = conn[s].mailing /\ conn'[s].n = conn[s].n
          /\ conn'[s].recipients = conn[s].recipients /\ conn'[s].doing = "command"
      BY <1>1, <1>3, <3>1 DEF Shape, Conn
    <3>3. QED
      BY <1>1, <1>3, <1>4, <1>5, <3>1, <3>2 DEF ConnOK
  <2>2. CASE MailFrom(s)
    <3>1. conn' = [conn EXCEPT ![s].mailing = TRUE, ![s].n = @ + 1] /\ asked' = asked /\ conn[s].n < MaxEnvelopes
      BY <2>2 DEF MailFrom
    <3> DEFINE b == [conn EXCEPT ![s].mailing = TRUE]
    <3>2. /\ conn' = [b EXCEPT ![s].n = @ + 1] /\ DOMAIN b = Session
          /\ b[s] \in Conn /\ b[s].mailing = TRUE /\ b[s].n = conn[s].n
          /\ b[s].recipients = conn[s].recipients /\ b[s].doing = "command"
      BY <1>1, <1>3, <3>1 DEF Shape, Conn
    <3> HIDE DEF b
    <3>3. /\ conn'[s] \in Conn /\ conn'[s].mailing = TRUE /\ conn'[s].n = conn[s].n + 1
          /\ conn'[s].recipients = conn[s].recipients /\ conn'[s].doing = "command"
      BY <3>2 DEF Conn
    <3>4. conn'[s].n <= MaxEnvelopes /\ conn'[s].n >= 1
      BY <1>3, <3>1, <3>3, SessionAssumption
    <3>5. \A k \in 1..MaxEnvelopes : k > conn'[s].n \/ k = conn'[s].n => k > conn[s].n
      BY <1>3, <3>3, SessionAssumption
    <3>6. \A k \in 1..MaxEnvelopes : k > conn'[s].n \/ k = conn'[s].n => Untouched(<<s, k>>)'
      BY <1>3, <1>5, <3>5 DEF ConnOK
    <3>7. asked'[s] \in Seq(Recipient)' /\ conn'[s].recipients = asked'[s]
      BY <1>3, <1>4, <3>1, <3>3 DEF ConnOK
    <3>8. QED
      BY <1>4, <3>3, <3>4, <3>6, <3>7 DEF ConnOK
  <2>3. CASE Rset(s)
    <3>1. /\ conn' = [conn EXCEPT ![s].mailing = FALSE, ![s].recipients = <<>>]
          /\ asked' = [asked EXCEPT ![s] = <<>>]
      BY <2>3 DEF Rset, Reset
    <3> DEFINE b == [conn EXCEPT ![s].mailing = FALSE]
    <3>2. /\ conn' = [b EXCEPT ![s].recipients = <<>>] /\ DOMAIN b = Session
          /\ b[s] \in Conn /\ b[s].mailing = FALSE /\ b[s].n = conn[s].n /\ b[s].doing = "command"
      BY <1>1, <1>3, <3>1 DEF Shape, Conn
    <3> HIDE DEF b
    <3>3. /\ conn'[s] \in Conn /\ conn'[s].mailing = FALSE /\ conn'[s].n = conn[s].n
          /\ conn'[s].recipients = <<>> /\ conn'[s].doing = "command"
      <4>1. ASSUME NEW x \in Seq(Recipient), conn' = [b EXCEPT ![s].recipients = x]
            PROVE  /\ conn'[s] \in Conn /\ conn'[s].mailing = FALSE /\ conn'[s].n = conn[s].n
                   /\ conn'[s].recipients = x /\ conn'[s].doing = "command"
        BY <3>2, <4>1 DEF Conn
      <4>2. <<>> \in Seq(Recipient)
        OBVIOUS
      <4>3. QED
        BY <3>2, <4>1, <4>2
    <3>4. asked'[s] = <<>>
      BY <1>3, <3>1 DEF Shape
    <3>5. QED
      BY <1>1, <1>3, <1>4, <1>5, <3>3, <3>4 DEF ConnOK
  <2>4. CASE \E a \in load.rcpts : Rcpt(s, a)
    <3>1. PICK a \in load.rcpts : Rcpt(s, a)
      BY <2>4
    <3> DEFINE x == [group |-> a.group, channels |-> a.channels]
    <3>2. /\ conn' = [conn EXCEPT ![s].recipients = Append(@, x)]
          /\ asked' = [asked EXCEPT ![s] = Append(@, x)] /\ x \in Recipient
      BY <3>1 DEF Rcpt, Acceptable, Recipient
    <3> HIDE DEF x
    <3>3. Append(asked[s], x) \in Seq(Recipient) /\ conn[s].recipients = asked[s]
      BY <1>3, <3>2, AppendProperties DEF ConnOK
    <3>4. /\ conn'[s] \in Conn /\ conn'[s].mailing = conn[s].mailing /\ conn'[s].n = conn[s].n
          /\ conn'[s].recipients = Append(asked[s], x) /\ conn'[s].doing = "command"
          /\ asked'[s] = Append(asked[s], x)
      BY <1>1, <1>3, <3>2, <3>3 DEF Shape, Conn
    <3>5. QED
      BY <1>1, <1>3, <1>4, <1>5, <3>3, <3>4 DEF ConnOK
  <2>5. QED
    BY <2>1, <2>2, <2>3, <2>4
<1>9. QED
  BY <1>2, <1>6, <1>7, <1>8, OneConnection

(***************************************************************************)
(* A message.                                                               *)
(***************************************************************************)

\* The connection in the middle of envelope e.
InEnvelope(s, e) ==
  /\ e \in Mail /\ e = Current(s) /\ e = <<s, conn[s].n>> /\ conn[s].n \in 1..MaxEnvelopes
  /\ conn[s] \in Conn /\ Shape /\ ConnOK(s) /\ EnvelopeOK(e) /\ Size(e) \in Nat
  /\ Recipient' = Recipient /\ Conn' = Conn

LEMMA CurrentEnvelope ==
  ASSUME MailInv, load' = load, NEW s \in Session, conn[s].mailing
  PROVE  \E e \in Mail : InEnvelope(s, e)
<1>1. ConnOK(s) /\ conn[s] \in Conn /\ Shape
  BY ShapeHolds DEF MailInv, ConnOK
<1>2. conn[s].n \in 1..MaxEnvelopes
  BY <1>1, SessionAssumption DEF ConnOK, Conn
<1>3. Current(s) \in Mail /\ Current(s) = <<s, conn[s].n>>
  BY <1>2 DEF Current, Mail
<1>4. Recipient' = Recipient /\ Conn' = Conn
  BY DEF Recipient, Conn
<1>5. EnvelopeOK(Current(s)) /\ Size(Current(s)) \in Nat
  BY <1>3, SizeInNat DEF MailInv
<1>6. QED
  BY <1>1, <1>2, <1>3, <1>4, <1>5 DEF InEnvelope

\* The other envelopes of the connection that are still to come.
LEMMA LaterUntouched ==
  ASSUME MailInv, load' = load, NEW s \in Session, NEW e \in Mail, InEnvelope(s, e),
         \A x \in Mail : x # e => Same(x)
  PROVE  \A k \in 1..MaxEnvelopes : k > conn[s].n => Untouched(<<s, k>>)'
<1> SUFFICES ASSUME NEW k \in 1..MaxEnvelopes, k > conn[s].n PROVE Untouched(<<s, k>>)'
  OBVIOUS
<1>1. <<s, k>> \in Mail /\ <<s, k>> # e
  BY DEF InEnvelope, Mail, Conn
<1>2. Untouched(<<s, k>>)
  BY DEF InEnvelope, ConnOK
<1>3. QED
  BY <1>1, <1>2, SameEnvelope

\* After an answer the envelope is closed, whatever it was.
LEMMA AnsweredKeeps ==
  ASSUME MailInv, load' = load, NEW s \in Session, NEW e \in Mail, InEnvelope(s, e),
         NEW c, Answered(s, c),
         \A x \in Mail : x # e => Same(x), EnvelopeOK(e)', queue' \in Seq(Jobs), DOMAIN mail' = Mail,
         \A x \in notifs' : x.mail \in Mail
  PROVE  MailInv'
<1>1. /\ conn' = [conn EXCEPT ![s].mailing = FALSE, ![s].recipients = <<>>,
                              ![s].doing = "command", ![s].todo = <<>>]
      /\ asked' = [asked EXCEPT ![s] = <<>>]
      /\ code' = [code EXCEPT ![e] = c]
  BY DEF Answered, Reset, InEnvelope
<1>2. /\ DOMAIN conn = Session /\ DOMAIN asked = Session /\ DOMAIN code = Mail /\ conn[s] \in Conn
      /\ conn[s].n \in Nat
  BY DEF InEnvelope, Shape, Conn
<1>3. <<>> \in Seq(Recipient)
  OBVIOUS
<1>4. /\ conn'[s] \in Conn /\ conn'[s].n = conn[s].n /\ conn'[s].recipients = <<>>
      /\ conn'[s].doing = "command" /\ conn'[s].mailing = FALSE
      /\ \A t \in Session \ {s} : conn'[t] = conn[t]
      /\ DOMAIN conn' = Session
  <2> DEFINE b == [conn EXCEPT ![s].mailing = FALSE]
  <2>1. b[s] \in Conn /\ b[s].n = conn[s].n /\ b[s].mailing = FALSE /\ DOMAIN b = Session
        /\ \A t \in Session \ {s} : b[t] = conn[t]
    BY <1>2 DEF Conn
  <2>2. ASSUME NEW x \in Seq(Recipient),
               conn' = [b EXCEPT ![s].recipients = x, ![s].doing = "command", ![s].todo = x]
        PROVE  /\ conn'[s] \in Conn /\ conn'[s].n = conn[s].n /\ conn'[s].recipients = x
               /\ conn'[s].doing = "command" /\ conn'[s].mailing = FALSE
               /\ \A t \in Session \ {s} : conn'[t] = conn[t]
               /\ DOMAIN conn' = Session
    <3> HIDE DEF b
    <3> DEFINE d == [b EXCEPT ![s].recipients = x]
               f == [d EXCEPT ![s].doing = "command"]
    <3>1. /\ d[s] \in Conn /\ d[s].n = conn[s].n /\ d[s].mailing = FALSE /\ d[s].recipients = x
          /\ DOMAIN d = Session /\ \A t \in Session \ {s} : d[t] = conn[t]
      BY <2>1 DEF Conn
    <3>2. conn' = [f EXCEPT ![s].todo = x]
      BY <2>2
    <3> HIDE DEF d
    <3>3. /\ f[s] \in Conn /\ f[s].n = conn[s].n /\ f[s].mailing = FALSE /\ f[s].recipients = x
          /\ f[s].doing = "command" /\ DOMAIN f = Session /\ \A t \in Session \ {s} : f[t] = conn[t]
      BY <3>1 DEF Conn
    <3> HIDE DEF f
    <3>4. QED
      BY <3>2, <3>3 DEF Conn
  <2>3. conn' = [b EXCEPT ![s].recipients = <<>>, ![s].doing = "command", ![s].todo = <<>>]
    BY <1>1
  <2> HIDE DEF b
  <2>4. QED
    BY <1>3, <2>2, <2>3
<1>5. asked'[s] = <<>> /\ DOMAIN asked' = Session /\ \A t \in Session \ {s} : asked'[t] = asked[t]
  BY <1>1, <1>2
<1>6. DOMAIN code' = Mail
  BY <1>1, <1>2
<1>7. Shape'
  BY <1>4, <1>5, <1>6 DEF Shape, Jobs
<1>8. ConnOK(s)'
  <2>1. \A k \in 1..MaxEnvelopes : k > conn[s].n => Untouched(<<s, k>>)'
    BY LaterUntouched
  <2>2. conn[s].n <= MaxEnvelopes /\ Recipient' = Recipient /\ Conn' = Conn
    BY DEF InEnvelope, ConnOK
  <2>3. QED
    BY <1>3, <1>4, <1>5, <2>1, <2>2 DEF ConnOK
<1>9. \A x \in Mail : Same(x) \/ (EnvelopeOK(x)' /\ x[1] = s)
  BY DEF InEnvelope
<1>10. QED
  BY <1>4, <1>5, <1>7, <1>8, <1>9, OneConnection

\* How a connection goes on in the middle of a message.
LEMMA ConnGoes ==
  ASSUME NEW s \in Session, DOMAIN conn = Session, conn[s] \in Conn,
         NEW d \in {"event", "insert", "enqueue"}, NEW rest \in Seq(Recipient),
         conn' = [conn EXCEPT ![s].doing = d, ![s].todo = rest]
  PROVE  /\ conn'[s] \in Conn /\ conn'[s].n = conn[s].n /\ conn'[s].recipients = conn[s].recipients
         /\ conn'[s].doing = d /\ conn'[s].mailing = conn[s].mailing /\ conn'[s].todo = rest
         /\ \A t \in Session \ {s} : conn'[t] = conn[t]
         /\ DOMAIN conn' = Session
<1> DEFINE b == [conn EXCEPT ![s].doing = d]
<1>1. /\ b[s] \in Conn /\ b[s].n = conn[s].n /\ b[s].recipients = conn[s].recipients
      /\ b[s].doing = d /\ b[s].mailing = conn[s].mailing
      /\ DOMAIN b = Session /\ \A t \in Session \ {s} : b[t] = conn[t]
  BY DEF Conn
<1>2. conn' = [b EXCEPT ![s].todo = rest]
  OBVIOUS
<1> HIDE DEF b
<1>3. /\ conn'[s] \in Conn /\ conn'[s].n = b[s].n /\ conn'[s].recipients = b[s].recipients
      /\ conn'[s].doing = b[s].doing /\ conn'[s].mailing = b[s].mailing /\ conn'[s].todo = rest
  <2>1. conn'[s] = [b[s] EXCEPT !.todo = rest]
    BY <1>1, <1>2
  <2>2. ASSUME NEW r \in Conn, NEW q, q = [r EXCEPT !.todo = rest]
        PROVE  /\ q \in Conn /\ q.n = r.n /\ q.recipients = r.recipients
               /\ q.doing = r.doing /\ q.mailing = r.mailing /\ q.todo = rest
    BY <2>2 DEF Conn
  <2>3. QED
    BY <1>1, <2>1, <2>2
<1>4. (\A t \in Session \ {s} : conn'[t] = b[t]) /\ DOMAIN conn' = Session
  BY <1>1, <1>2
<1>5. QED
  BY <1>1, <1>3, <1>4

LEMMA SameTodo ==
  ASSUME NEW s \in Session, DOMAIN conn = Session, conn[s] \in Conn, NEW d,
         conn' = [conn EXCEPT ![s].doing = d]
  PROVE  conn' = [conn EXCEPT ![s].doing = d, ![s].todo = conn[s].todo] /\ conn[s].todo \in Seq(Recipient)
<1>1. ASSUME NEW r \in Conn PROVE [[r EXCEPT !.doing = d] EXCEPT !.todo = r.todo] = [r EXCEPT !.doing = d]
  BY DEF Conn
<1>2. conn[s].todo \in Seq(Recipient)
  BY DEF Conn
<1>3. QED
  BY <1>1, <1>2

\* A step in the middle of a message.
LEMMA GoesOn ==
  ASSUME MailInv, load' = load, NEW s \in Session, NEW e \in Mail, InEnvelope(s, e),
         NEW d \in {"event", "insert", "enqueue"}, NEW rest \in Seq(Recipient),
         conn' = [conn EXCEPT ![s].doing = d, ![s].todo = rest], asked' = asked,
         Processing(s, e)',
         \A x \in Mail : x # e => Same(x), EnvelopeOK(e)', queue' \in Seq(Jobs),
         DOMAIN mail' = Mail, DOMAIN code' = Mail, \A x \in notifs' : x.mail \in Mail
  PROVE  MailInv'
<1>1. DOMAIN conn = Session /\ DOMAIN asked = Session /\ conn[s] \in Conn /\ conn[s].n \in Nat
  BY DEF InEnvelope, Shape, Conn
<1>2. /\ conn'[s] \in Conn /\ conn'[s].n = conn[s].n /\ conn'[s].recipients = conn[s].recipients
      /\ conn'[s].doing = d /\ conn'[s].mailing = conn[s].mailing
      /\ \A t \in Session \ {s} : conn'[t] = conn[t]
      /\ DOMAIN conn' = Session
  BY <1>1, ConnGoes
<1>3. Shape'
  BY <1>1, <1>2 DEF Shape, Jobs
<1>4. ConnOK(s)'
  <2>1. \A k \in 1..MaxEnvelopes : k > conn[s].n => Untouched(<<s, k>>)'
    BY LaterUntouched
  <2>2. /\ conn[s].n <= MaxEnvelopes /\ Recipient' = Recipient /\ Conn' = Conn
        /\ asked[s] \in Seq(Recipient) /\ conn[s].recipients = asked[s]
        /\ conn[s].mailing => conn[s].n >= 1
    BY DEF InEnvelope, ConnOK
  <2>3. Processing(s, Current(s))'
    BY <1>2 DEF InEnvelope, Current
  <2>4. d # "command"
    OBVIOUS
  <2>5. QED
    BY <1>2, <2>1, <2>2, <2>3, <2>4 DEF ConnOK
<1>5. \A x \in Mail : Same(x) \/ (EnvelopeOK(x)' /\ x[1] = s)
  <2>1. e[1] = s
    BY DEF InEnvelope
  <2>2. ASSUME NEW x \in Mail, ~Same(x) PROVE x = e
    BY <2>2
  <2>3. QED
    BY <2>1, <2>2
<1>6. QED
  BY <1>2, <1>3, <1>4, <1>5, OneConnection

\* The channels of each recipient are settled once, for all of them.
LEMMA Resolved ==
  ASSUME NEW to \in Seq(Recipient), NEW from \in SUBSET validChannels, NEW targets,
         targets = resolveTargets(to, from)
  PROVE  /\ targets \in Seq(Recipient) /\ Len(targets) = Len(to)
         /\ \A i \in 1..Len(to) :
              targets[i] = [group |-> to[i].group,
                            channels |-> IF to[i].channels = {} THEN from ELSE to[i].channels]
<1>1. Len(to) \in Nat /\ DOMAIN to = 1..Len(to) /\ \A i \in 1..Len(to) : to[i] \in Recipient
  BY LenProperties, ElementOfSeq
<1>2. targets = [i \in 1..Len(to) |-> [to[i] EXCEPT !.channels = IF @ = {} THEN from ELSE @]]
  BY <1>1 DEF resolveTargets
<1>3. ASSUME NEW r \in Recipient, NEW q, q = [r EXCEPT !.channels = IF @ = {} THEN from ELSE @]
      PROVE  q \in Recipient /\ q = [group |-> r.group, channels |-> IF r.channels = {} THEN from ELSE r.channels]
  BY <1>3 DEF Recipient
<1>4. \A i \in 1..Len(to) :
        /\ targets[i] \in Recipient
        /\ targets[i] = [group |-> to[i].group,
                         channels |-> IF to[i].channels = {} THEN from ELSE to[i].channels]
  BY <1>1, <1>2, <1>3
<1>5. targets \in [1..Len(to) -> Recipient]
  BY <1>2, <1>4
<1> HIDE DEF Recipient
<1>6. targets \in Seq(Recipient) /\ Len(targets) = Len(to)
  <2>1. targets \in Seq(Recipient)
    BY <1>1, <1>5, SeqDef
  <2>2. DOMAIN targets = 1..Len(to) /\ DOMAIN targets = 1..Len(targets) /\ Len(targets) \in Nat
    BY <1>5, <2>1, LenProperties
  <2>3. \A a, b \in Nat : 1..a = 1..b => a = b
    <3>1. ASSUME NEW a \in Nat, NEW b \in Nat, 1..a = 1..b PROVE a <= b
      <4>1. a = 0 \/ a \in 1..a
        OBVIOUS
      <4>2. QED
        BY <3>1, <4>1
    <3>2. QED
      BY <3>1
  <2>4. 1..Len(targets) = 1..Len(to)
    BY <2>2
  <2>5. QED
    BY <1>1, <2>1, <2>2, <2>3, <2>4
<1>7. QED
  BY <1>4, <1>6

LEMMA DataStep ==
  ASSUME MailInv, NEW s \in Session, NEW m, Data(s, m), UNCHANGED queueVars
  PROVE  MailInv'
<1>1. load' = load /\ queue' = queue /\ taken' = taken /\ conn[s].mailing /\ conn[s].doing = "command"
  BY DEF Data, Ready, queueVars
<1>2. PICK e \in Mail : InEnvelope(s, e)
  BY <1>1, CurrentEnvelope
<1>3. /\ mail' = [mail EXCEPT ![e] = [from |-> m.from, to |-> asked[s]]] /\ asked[s] # <<>>
      /\ events' = events /\ notifs' = notifs
  BY <1>2 DEF Data, InEnvelope
<1>4. DOMAIN mail = Mail /\ DOMAIN code = Mail /\ DOMAIN conn = Session /\ conn[s] \in Conn
  BY <1>2 DEF InEnvelope, Shape
<1>5. mail'[e] = [from |-> m.from, to |-> asked[s]] /\ DOMAIN mail' = Mail
  BY <1>3, <1>4
<1>6. Untouched(e) /\ asked[s] \in Seq(Recipient) /\ conn[s].recipients = asked[s] /\ Recipient' = Recipient
  BY <1>1, <1>2 DEF InEnvelope, ConnOK
<1>7. \A x : Queued(x)' <=> Queued(x)
  BY <1>1 DEF Queued
<1>8. \A x : Of(x)' = Of(x)
  BY <1>3 DEF Of
<1>9. Size(e)' = 0 /\ Size(e) = 0 /\ Of(e) = {} /\ IsFiniteSet(Of(e))
  <2>1. Size(e)' = Size(e)
    BY <1>8 DEF Size
  <2>2. Size(e) = 0
    BY <1>6 DEF Untouched
  <2>3. Of(e) = {Note(e, i) : i \in 1..Size(e)} /\ IsFiniteSet(Of(e))
    BY <1>2 DEF InEnvelope, EnvelopeOK
  <2>4. QED
    BY <2>1, <2>2, <2>3
<1>10. ASSUME code'[e] \in {0, 550} PROVE EnvelopeOK(e)'
  <2>1. mail'[e].to = asked[s] /\ Len(asked[s]) \in Nat
    BY <1>5, <1>6, LenProperties
  <2>2. \A i \in Nat : ~Queued(<<e, i>>)'
    BY <1>2, <1>7, <1>9 DEF InEnvelope, EnvelopeOK
  <2>3. Of(e)' = {} /\ IsFiniteSet(Of(e)') /\ {Note(e, i) : i \in 1..Size(e)}' = {}
    BY <1>8, <1>9
  <2>4. e \notin events'
    BY <1>3, <1>6 DEF Untouched
  <2>5. QED
    BY <1>6, <1>9, <1>10, <2>1, <2>2, <2>3, <2>4 DEF EnvelopeOK
<1>11. (\A x \in notifs' : x.mail \in Mail) /\ queue' \in Seq(Jobs)
  BY <1>1, <1>2, <1>3 DEF InEnvelope, Shape
<1>12. ASSUME NEW x \in Mail, x # e, code'[x] = code[x] PROVE Same(x)
  BY <1>3, <1>4, <1>7, <1>8, <1>12 DEF Same
<1> DEFINE targets == resolveTargets(conn[s].recipients, m.from)
<1>13. CASE /\ conn' = [conn EXCEPT ![s].doing = "event", ![s].todo = targets]
            /\ UNCHANGED <<asked, code>> /\ m.from \subseteq validChannels
  <2>1. /\ targets \in Seq(Recipient) /\ Len(targets) = Len(asked[s])
        /\ \A i \in 1..Len(asked[s]) :
             targets[i] = [group |-> asked[s][i].group,
                           channels |-> IF asked[s][i].channels = {} THEN m.from ELSE asked[s][i].channels]
    BY <1>6, <1>13, Resolved
  <2> HIDE DEF targets
  <2>2. conn'[s].doing = "event" /\ conn'[s].mailing = conn[s].mailing /\ conn'[s].todo = targets
    BY <1>4, <1>13, <2>1, ConnGoes
  <2>3. \A i \in 1..Len(asked[s]) : targets[i] = Target(e, i)'
    BY <1>5, <2>1 DEF Target
  <2>4. Before(s, e)' = 0
    BY <1>9, <2>2 DEF Before
  <2>5. Len(asked[s]) \in Nat /\ targets # <<>>
    BY <1>3, <1>6, <2>1, LenProperties, EmptySeq
  <2>6. code'[e] = 0 /\ Untouched(e)'
    BY <1>3, <1>6, <1>9, <1>13 DEF Untouched
  <2>7. Processing(s, e)'
    <3>1. \A j \in 1..Len(targets) : targets[j] = Target(e, Before(s, e) + j)'
      BY <2>1, <2>3, <2>4, <2>5
    <3>2. Len(targets) = Len(mail'[e].to) - 0
      BY <1>5, <2>1, <2>5
    <3>3. QED
      BY <1>1, <2>2, <2>4, <2>5, <2>6, <3>1, <3>2 DEF Processing
  <2>8. EnvelopeOK(e)' /\ \A x \in Mail : x # e => Same(x)
    BY <1>10, <1>12, <1>13, <2>6
  <2>9. DOMAIN code' = Mail
    BY <1>4, <1>13
  <2>10. QED
    BY <1>1, <1>2, <1>5, <1>11, <1>13, <2>1, <2>7, <2>8, <2>9, GoesOn
<1>14. CASE Answered(s, 550)
  <2>1. code' = [code EXCEPT ![e] = 550]
    BY <1>2, <1>14 DEF Answered, InEnvelope
  <2>2. code'[e] = 550 /\ \A x \in Mail : x # e => code'[x] = code[x]
    BY <1>4, <2>1
  <2>3. QED
    BY <1>1, <1>2, <1>5, <1>10, <1>11, <1>12, <1>14, <2>2, AnsweredKeeps
<1>15. QED
  BY <1>13, <1>14 DEF Data

LEMMA InsertEventStep ==
  ASSUME MailInv, NEW s \in Session, InsertEvent(s), UNCHANGED queueVars
  PROVE  MailInv'
<1>1. load' = load /\ queue' = queue /\ taken' = taken /\ conn[s].doing = "event"
  BY DEF InsertEvent, queueVars
<1>2. Processing(s, Current(s)) /\ conn[s].mailing
  BY <1>1 DEF MailInv, ConnOK, Processing
<1>3. PICK e \in Mail : InEnvelope(s, e)
  BY <1>1, <1>2, CurrentEnvelope
<1>4. /\ UNCHANGED <<asked, mail, code, notifs>> /\ events' = events \cup {e}
      /\ conn' = [conn EXCEPT ![s].doing = "insert"]
  BY <1>3 DEF InsertEvent, InEnvelope
<1>5. DOMAIN conn = Session /\ conn[s] \in Conn /\ Processing(s, e) /\ EnvelopeOK(e) /\ Size(e) \in Nat
  BY <1>2, <1>3 DEF InEnvelope, Shape
<1>6. conn' = [conn EXCEPT ![s].doing = "insert", ![s].todo = conn[s].todo] /\ conn[s].todo \in Seq(Recipient)
  BY <1>4, <1>5, SameTodo
<1>7. conn'[s].doing = "insert" /\ conn'[s].mailing = conn[s].mailing /\ conn'[s].todo = conn[s].todo
  BY <1>5, <1>6, ConnGoes
<1>8. (\A x : Queued(x)' <=> Queued(x)) /\ (\A x : Of(x)' = Of(x)) /\ (\A x : Size(x)' = Size(x))
  BY <1>1, <1>4 DEF Queued, Of, Size
<1>9. ASSUME NEW x \in Mail, x # e PROVE Same(x)
  BY <1>4, <1>8, <1>9 DEF Same
<1>10. (\A i : Target(e, i)' = Target(e, i)) /\ \A i : Note(e, i)' = Note(e, i)
  BY <1>4 DEF Target, Note
<1>11. EnvelopeOK(e)'
  <2>1. {Note(e, i) : i \in 1..Size(e)}' = {Note(e, i) : i \in 1..Size(e)}
    BY <1>8, <1>10
  <2>2. code'[e] = 0 /\ Recipient' = Recipient
    BY <1>3, <1>4, <1>5 DEF Processing, InEnvelope
  <2>3. Of(e)' = Of(e) /\ Size(e)' = Size(e) /\ mail'[e] = mail[e]
    BY <1>4, <1>8
  <2>4. \A i \in Nat : Queued(<<e, i>>)' => i \in 1..Size(e)'
    BY <1>5, <1>8, <2>3 DEF EnvelopeOK
  <2>5. mail'[e].to \in Seq(Recipient') /\ Size(e)' <= Len(mail'[e].to) /\ IsFiniteSet(Of(e)')
    BY <1>5, <2>2, <2>3 DEF EnvelopeOK
  <2>6. Of(e)' = {Note(e, i) : i \in 1..Size(e)}'
    BY <1>5, <2>1, <2>3 DEF EnvelopeOK
  <2>7. QED
    BY <2>2, <2>4, <2>5, <2>6 DEF EnvelopeOK
<1>12. Processing(s, e)'
  <2>1. Before(s, e)' = Before(s, e)
    BY <1>1, <1>7, <1>8 DEF Before
  <2>2. QED
    BY <1>4, <1>5, <1>7, <1>8, <1>10, <2>1 DEF Processing
<1>13. /\ DOMAIN mail' = Mail /\ DOMAIN code' = Mail /\ (\A x \in notifs' : x.mail \in Mail)
       /\ queue' \in Seq(Jobs)
  BY <1>1, <1>3, <1>4 DEF InEnvelope, Shape
<1>14. QED
  BY <1>1, <1>3, <1>4, <1>6, <1>9, <1>11, <1>12, <1>13, GoesOn

LEMMA InsertNotificationStep ==
  ASSUME MailInv, NEW s \in Session, InsertNotification(s), UNCHANGED queueVars
  PROVE  MailInv'
<1>1. load' = load /\ queue' = queue /\ taken' = taken /\ conn[s].doing = "insert"
  BY DEF InsertNotification, queueVars
<1>2. Processing(s, Current(s)) /\ conn[s].mailing
  BY <1>1 DEF MailInv, ConnOK, Processing
<1>3. PICK e \in Mail : InEnvelope(s, e)
  BY <1>1, <1>2, CurrentEnvelope
<1>4. DOMAIN conn = Session /\ conn[s] \in Conn /\ Processing(s, e) /\ EnvelopeOK(e) /\ Size(e) \in Nat
  BY <1>2, <1>3 DEF InEnvelope, Shape
<1>5. UNCHANGED <<asked, mail, code, events>> /\ conn' = [conn EXCEPT ![s].doing = "enqueue"]
  BY DEF InsertNotification
<1>6. Before(s, e) = Size(e)
  BY <1>1 DEF Before
<1>7. /\ conn[s].todo \in Seq(Recipient) /\ conn[s].todo # <<>> /\ Len(mail[e].to) \in Nat
      /\ Head(conn[s].todo) = conn[s].todo[1] /\ Len(conn[s].todo) \in Nat /\ 1 \in 1..Len(conn[s].todo)
  <2>1. conn[s].todo \in Seq(Recipient) /\ conn[s].todo # <<>> /\ mail[e].to \in Seq(Recipient)
    BY <1>4 DEF Processing, Conn, EnvelopeOK
  <2>2. Len(conn[s].todo) \in Nat /\ Len(conn[s].todo) # 0 /\ Len(mail[e].to) \in Nat
    BY <2>1, LenProperties, EmptySeq
  <2>3. 1 \in 1..Len(conn[s].todo)
    BY <2>2
  <2>4. ASSUME NEW S, NEW q \in Seq(S), q # <<>> PROVE Head(q) = q[1]
    BY <2>4
  <2>5. QED
    BY <2>1, <2>2, <2>3, <2>4
<1>8. Head(conn[s].todo) = Target(e, Size(e) + 1) /\ Size(e) + 1 <= Len(mail[e].to)
  <2>1. /\ Len(conn[s].todo) = Len(mail[e].to) - Size(e)
        /\ \A j \in 1..Len(conn[s].todo) : conn[s].todo[j] = Target(e, Size(e) + j)
    BY <1>4, <1>6 DEF Processing
  <2>2. \A k, m, n \in Nat : 1 \in 1..k /\ k = m - n => n + 1 <= m
    OBVIOUS
  <2>3. Size(e) + 1 <= Len(mail[e].to)
    BY <1>4, <1>7, <2>1, <2>2
  <2>4. QED
    BY <1>7, <2>1, <2>3
<1> DEFINE note == Note(e, Size(e) + 1)
<1>9. notifs' = notifs \cup {note}
  <2>1. Current(s) = e /\ Stored(s) = Size(e)
    BY <1>3 DEF InEnvelope, Stored, Size, Of
  <2>2. QED
    BY <1>8, <2>1 DEF InsertNotification, Note
<1>10. note.mail = e /\ note.i = Size(e) + 1
  BY DEF Note
<1>11. (\A i : Target(e, i)' = Target(e, i)) /\ \A i : Note(e, i)' = Note(e, i)
  BY <1>5 DEF Target, Note
<1> HIDE DEF note
<1>12. Of(e)' = Of(e) \cup {note} /\ \A x : x # e => Of(x)' = Of(x)
  BY <1>9, <1>10 DEF Of
<1>13. note \notin Of(e)
  <2>1. \A x \in Of(e) : x.i \in 1..Size(e)
    BY <1>4 DEF EnvelopeOK, Note
  <2>2. QED
    BY <1>4, <1>10, <2>1
<1>14. Size(e)' = Size(e) + 1 /\ IsFiniteSet(Of(e)')
  <2>1. IsFiniteSet(Of(e))
    BY <1>4 DEF EnvelopeOK
  <2>2. IsFiniteSet(Of(e) \cup {note}) /\ Cardinality(Of(e) \cup {note}) = Cardinality(Of(e)) + 1
    BY <1>13, <2>1, FS_AddElement
  <2>3. QED
    BY <1>12, <2>2 DEF Size
<1>15. \A x : Queued(x)' <=> Queued(x)
  BY <1>1 DEF Queued
<1>16. ASSUME NEW x \in Mail, x # e PROVE Same(x)
  BY <1>5, <1>12, <1>15, <1>16 DEF Same
<1>17. EnvelopeOK(e)'
  <2>1. code'[e] = 0 /\ Recipient' = Recipient /\ mail'[e] = mail[e]
    BY <1>3, <1>4, <1>5 DEF Processing, InEnvelope
  <2>2. Of(e)' = {Note(e, i) : i \in 1..Size(e)}'
    <3>1. Of(e) = {Note(e, i) : i \in 1..Size(e)}
      BY <1>4 DEF EnvelopeOK
    <3>2. 1..Size(e) + 1 = 1..Size(e) \cup {Size(e) + 1}
      BY <1>4
    <3>3. {Note(e, i) : i \in 1..Size(e)}' = {Note(e, i) : i \in 1..Size(e) + 1}
      BY <1>11, <1>14
    <3>4. QED
      BY <1>12, <3>1, <3>2, <3>3 DEF note
  <2>3. \A i \in Nat : Queued(<<e, i>>)' => i \in 1..Size(e)'
    <3>1. \A i \in Nat : Queued(<<e, i>>) => i \in 1..Size(e)
      BY <1>4 DEF EnvelopeOK
    <3>2. QED
      BY <1>4, <1>14, <1>15, <3>1
  <2>4. mail'[e].to \in Seq(Recipient') /\ Size(e)' <= Len(mail'[e].to)
    BY <1>4, <1>8, <1>14, <2>1 DEF EnvelopeOK
  <2>5. QED
    BY <1>14, <2>1, <2>2, <2>3, <2>4 DEF EnvelopeOK
<1>18. conn' = [conn EXCEPT ![s].doing = "enqueue", ![s].todo = conn[s].todo]
  BY <1>4, <1>5, SameTodo
<1>19. conn'[s].doing = "enqueue" /\ conn'[s].mailing = conn[s].mailing /\ conn'[s].todo = conn[s].todo
  BY <1>4, <1>7, <1>18, ConnGoes
<1>20. Processing(s, e)'
  <2>1. Before(s, e)' = Size(e)
    BY <1>4, <1>14, <1>19 DEF Before
  <2>2. ~Queued(<<e, Size(e)>>)'
    <3>1. \A i \in Nat : Queued(<<e, i>>) => i \in 1..Size(e)
      BY <1>4 DEF EnvelopeOK
    <3>2. ~Queued(<<e, Size(e) + 1>>)
      BY <1>4, <3>1
    <3>3. QED
      BY <1>14, <1>15, <3>2 DEF Queued
  <2>3. QED
    BY <1>4, <1>5, <1>6, <1>11, <1>15, <1>19, <2>1, <2>2 DEF Processing
<1>21. /\ DOMAIN mail' = Mail /\ DOMAIN code' = Mail /\ (\A x \in notifs' : x.mail \in Mail)
       /\ queue' \in Seq(Jobs)
  BY <1>1, <1>3, <1>5, <1>9, <1>10 DEF InEnvelope, Shape
<1>22. QED
  BY <1>1, <1>3, <1>5, <1>7, <1>16, <1>17, <1>18, <1>20, <1>21, GoesOn

\* With what is stored unchanged, an answer that fits what is queued keeps the envelope.
LEMMA AnswerKeeps ==
  ASSUME NEW e \in Mail, EnvelopeOK(e), Size(e) \in Nat, Recipient' = Recipient,
         UNCHANGED <<mail, events, notifs>>,
         \A i \in Nat : Queued(<<e, i>>)' => i \in 1..Size(e),
         \/ code'[e] = 0
         \/ code'[e] = 250 /\ Size(e) = Len(mail[e].to) /\ \A i \in 1..Size(e) : Queued(<<e, i>>)'
         \/ code'[e] = 451 /\ \A i \in 1..Size(e) : Queued(<<e, i>>)'
         \/ code'[e] = 452 /\ \A i \in 1..Size(e) : Queued(<<e, i>>)' <=> i < Size(e)
  PROVE  EnvelopeOK(e)'
<1>1. Of(e)' = Of(e) /\ Size(e)' = Size(e) /\ \A i : Note(e, i)' = Note(e, i)
  BY DEF Of, Size, Note, Target
<1>2. {Note(e, i) : i \in 1..Size(e)}' = {Note(e, i) : i \in 1..Size(e)}
  BY <1>1
<1>3. /\ mail'[e].to \in Seq(Recipient') /\ Size(e)' <= Len(mail'[e].to) /\ IsFiniteSet(Of(e)')
      /\ Of(e)' = {Note(e, i) : i \in 1..Size(e)}'
  BY <1>1, <1>2 DEF EnvelopeOK
<1>4. QED
  BY <1>1, <1>3 DEF EnvelopeOK

LEMMA EnqueueStep ==
  ASSUME MailInv, NEW s \in Session, Enqueue(s), UNCHANGED <<load, faults, taken>>
  PROVE  MailInv'
<1>1. load' = load /\ taken' = taken /\ conn[s].doing = "enqueue" /\ UNCHANGED <<mail, events, notifs>>
  BY DEF Enqueue
<1>2. Processing(s, Current(s)) /\ conn[s].mailing
  BY <1>1 DEF MailInv, ConnOK, Processing
<1>3. PICK e \in Mail : InEnvelope(s, e)
  BY <1>1, <1>2, CurrentEnvelope
<1>4. /\ DOMAIN conn = Session /\ conn[s] \in Conn /\ Processing(s, e) /\ EnvelopeOK(e) /\ Size(e) \in Nat
      /\ queue \in Seq(Jobs) /\ DOMAIN code = Mail /\ Recipient' = Recipient
  BY <1>2, <1>3 DEF InEnvelope, Shape
<1>5. /\ Before(s, e) = Size(e) - 1 /\ Before(s, e) \in Nat /\ code[e] = 0
      /\ \A i \in 1..Size(e) - 1 : Queued(<<e, i>>)
      /\ ~Queued(<<e, Size(e)>>)
  BY <1>1, <1>4 DEF Before, Processing
<1>6. PICK n \in Nat : n = Size(e) /\ n >= 1
  BY <1>4, <1>5
<1>7. Offer(<<e, n>>) /\ <<e, n>> \in Jobs
  <2>1. Current(s) = e /\ Stored(s) = n
    BY <1>3, <1>6 DEF InEnvelope, Stored, Size, Of
  <2>2. QED
    BY <2>1 DEF Enqueue, Jobs
<1>8. queue' \in Seq(Jobs) /\ \A x : Queued(x)' <=> Queued(x) \/ (Room /\ x = <<e, n>>)
  BY <1>1, <1>4, <1>7, OfferFacts
<1>9. ASSUME NEW x \in Mail, x # e, code'[x] = code[x] PROVE Same(x)
  <2>1. \A i \in Nat : Queued(<<x, i>>)' <=> Queued(<<x, i>>)
    BY <1>8, <1>9
  <2>2. QED
    BY <1>1, <1>9, <2>1 DEF Same, Of
<1>10. \A i \in Nat : Queued(<<e, i>>)' => i \in 1..Size(e)
  BY <1>4, <1>6, <1>8 DEF EnvelopeOK
<1>11. \A i \in 1..Size(e) : Queued(<<e, i>>) <=> i < Size(e)
  BY <1>4, <1>5, <1>6
<1>12. (\A x \in notifs' : x.mail \in Mail) /\ DOMAIN mail' = Mail
  BY <1>1, <1>3 DEF InEnvelope, Shape
<1>13. ASSUME NEW c, Answered(s, c) PROVE code'[e] = c /\ \A x \in Mail : x # e => code'[x] = code[x]
  BY <1>3, <1>4, <1>13 DEF Answered, InEnvelope
<1>14. Room => \A i \in 1..Size(e) : Queued(<<e, i>>)'
  BY <1>4, <1>6, <1>8, <1>11
<1>15. CASE ~Room /\ Answered(s, 452)
  <2>1. \A i \in 1..Size(e) : Queued(<<e, i>>)' <=> i < Size(e)
    BY <1>8, <1>11, <1>15
  <2>2. EnvelopeOK(e)'
    BY <1>1, <1>4, <1>10, <1>13, <1>15, <2>1, AnswerKeeps
  <2>3. QED
    BY <1>1, <1>3, <1>8, <1>9, <1>12, <1>13, <1>15, <2>2, AnsweredKeeps
<1>16. CASE Room /\ Len(conn[s].todo) = 1 /\ Answered(s, 250)
  <2>1. Size(e) = Len(mail[e].to)
    <3>1. Len(mail[e].to) \in Nat /\ Len(conn[s].todo) = Len(mail[e].to) - Before(s, e)
      BY <1>4, LenProperties DEF EnvelopeOK, Processing
    <3>2. Before(s, e) = Size(e) - 1 /\ Size(e) \in Nat /\ Len(conn[s].todo) = 1
      BY <1>4, <1>5, <1>16
    <3>3. \A k, m \in Nat : 1 = m - (k - 1) => k = m
      OBVIOUS
    <3>4. QED
      BY <3>1, <3>2, <3>3
  <2>2. EnvelopeOK(e)'
    BY <1>1, <1>4, <1>10, <1>13, <1>14, <1>16, <2>1, AnswerKeeps
  <2>3. QED
    BY <1>1, <1>3, <1>8, <1>9, <1>12, <1>13, <1>16, <2>2, AnsweredKeeps
<1>17. CASE /\ Room /\ Len(conn[s].todo) # 1 /\ UNCHANGED <<asked, code>>
            /\ conn' = [conn EXCEPT ![s].doing = "insert", ![s].todo = Tail(@)]
  <2> DEFINE rest == Tail(conn[s].todo)
  <2>1. conn[s].todo \in Seq(Recipient) /\ conn[s].todo # <<>>
    BY <1>4 DEF Processing, Conn
  <2>2. /\ rest \in Seq(Recipient) /\ Len(rest) = Len(conn[s].todo) - 1
        /\ \A j \in 1..Len(rest) : rest[j] = conn[s].todo[j + 1]
    BY <2>1, HeadTailProperties
  <2>3. Len(conn[s].todo) \in Nat /\ Len(conn[s].todo) # 0 /\ Len(mail[e].to) \in Nat
    BY <1>4, <2>1, LenProperties, EmptySeq DEF EnvelopeOK
  <2>4. conn' = [conn EXCEPT ![s].doing = "insert", ![s].todo = rest]
    BY <1>4, <1>17 DEF Conn
  <2> HIDE DEF rest
  <2>5. conn'[s].doing = "insert" /\ conn'[s].mailing = conn[s].mailing /\ conn'[s].todo = rest
    BY <1>4, <2>2, <2>4, ConnGoes
  <2>6. Size(e)' = Size(e) /\ Before(s, e)' = Size(e) /\ \A i : Target(e, i)' = Target(e, i)
    BY <1>1, <2>5 DEF Size, Of, Before, Target
  <2>7. /\ Len(conn[s].todo) = Len(mail[e].to) - (Size(e) - 1)
        /\ \A j \in 1..Len(conn[s].todo) : conn[s].todo[j] = Target(e, (Size(e) - 1) + j)
    BY <1>4, <1>5 DEF Processing
  <2>8. rest # <<>> /\ Len(rest) = Len(mail[e].to) - Size(e)
    <3>1. Len(rest) = Len(mail[e].to) - Size(e) /\ Len(rest) # 0
      BY <1>4, <1>17, <2>2, <2>3, <2>7
    <3>2. QED
      BY <2>2, <3>1, EmptySeq
  <2>9. \A j \in 1..Len(rest) : rest[j] = Target(e, Size(e) + j)
    <3>1. ASSUME NEW j \in 1..Len(rest) PROVE rest[j] = Target(e, Size(e) + j)
      <4>1. j + 1 \in 1..Len(conn[s].todo) /\ (Size(e) - 1) + (j + 1) = Size(e) + j
        BY <1>4, <2>2, <2>3
      <4>2. QED
        BY <2>2, <2>7, <4>1
    <3>2. QED
      BY <3>1
  <2>10. Processing(s, e)'
    <3>1. code'[e] = 0 /\ mail'[e] = mail[e] /\ conn'[s].mailing
      BY <1>1, <1>2, <1>5, <1>17, <2>5
    <3>2. Len(rest) = Len(mail'[e].to) - Size(e) /\ Before(s, e)' \in Nat
      BY <1>4, <2>6, <2>8, <3>1
    <3>3. \A j \in 1..Len(conn'[s].todo) : conn'[s].todo[j] = Target(e, Before(s, e) + j)'
      BY <2>5, <2>6, <2>9
    <3>4. \A i \in 1..Before(s, e)' : Queued(<<e, i>>)'
      BY <1>14, <1>17, <2>6
    <3>5. QED
      BY <2>5, <2>6, <2>8, <3>1, <3>2, <3>3, <3>4 DEF Processing
  <2>11. EnvelopeOK(e)'
    BY <1>1, <1>4, <1>5, <1>10, <1>17, AnswerKeeps
  <2>12. DOMAIN code' = Mail
    BY <1>4, <1>17
  <2>13. QED
    BY <1>1, <1>3, <1>8, <1>9, <1>12, <1>17, <2>2, <2>4, <2>10, <2>11, <2>12, GoesOn
<1>18. QED
  BY <1>15, <1>16, <1>17 DEF Enqueue

LEMMA InsertFailsStep ==
  ASSUME MailInv, NEW s \in Session, InsertFails(s)
  PROVE  MailInv'
<1>1. /\ load' = load /\ queue' = queue /\ taken' = taken /\ conn[s].doing \in {"event", "insert"}
      /\ Answered(s, 451) /\ UNCHANGED <<mail, events, notifs>>
  BY DEF InsertFails, Trouble
<1>2. Processing(s, Current(s)) /\ conn[s].mailing
  BY <1>1 DEF MailInv, ConnOK, Processing
<1>3. PICK e \in Mail : InEnvelope(s, e)
  BY <1>1, <1>2, CurrentEnvelope
<1>4. /\ Processing(s, e) /\ EnvelopeOK(e) /\ Size(e) \in Nat /\ DOMAIN code = Mail /\ Recipient' = Recipient
      /\ queue \in Seq(Jobs) /\ DOMAIN mail = Mail /\ \A x \in notifs : x.mail \in Mail
  BY <1>2, <1>3 DEF InEnvelope, Shape
<1>5. \A i \in 1..Size(e) : Queued(<<e, i>>)
  BY <1>1, <1>4 DEF Processing, Before
<1>6. \A x : Queued(x)' <=> Queued(x)
  BY <1>1 DEF Queued
<1>7. code'[e] = 451 /\ \A x \in Mail : x # e => code'[x] = code[x]
  BY <1>1, <1>3, <1>4 DEF Answered, InEnvelope
<1>8. ASSUME NEW x \in Mail, x # e PROVE Same(x)
  BY <1>1, <1>6, <1>7, <1>8 DEF Same, Of
<1>9. EnvelopeOK(e)'
  <2>1. \A i \in Nat : Queued(<<e, i>>)' => i \in 1..Size(e)
    BY <1>4, <1>6 DEF EnvelopeOK
  <2>2. \A i \in 1..Size(e) : Queued(<<e, i>>)'
    BY <1>5, <1>6
  <2>3. QED
    BY <1>1, <1>4, <1>7, <2>1, <2>2, AnswerKeeps
<1>10. queue' \in Seq(Jobs) /\ DOMAIN mail' = Mail /\ \A x \in notifs' : x.mail \in Mail
  BY <1>1, <1>4 DEF Jobs
<1>11. QED
  BY <1>1, <1>3, <1>8, <1>9, <1>10, AnsweredKeeps

LEMMA NextMail == MailInv /\ [Next]_vars => MailInv'
<1> SUFFICES ASSUME MailInv, [Next]_vars PROVE MailInv'
  OBVIOUS
<1>1. ASSUME NEW s \in Session, SessionStep(s) PROVE MailInv'
  <2>1. CASE UNCHANGED queueVars /\ ((\E roles \in load.roles[s] : finishAuth(s, roles)) \/ MailFrom(s)
               \/ Rset(s) \/ \E a \in load.rcpts : Rcpt(s, a))
    BY <2>1, CommandStep DEF queueVars
  <2>2. CASE UNCHANGED queueVars /\ \E m \in load.mails[s] : Data(s, m)
    BY <2>2, DataStep
  <2>3. CASE UNCHANGED queueVars /\ InsertEvent(s)
    BY <2>3, InsertEventStep
  <2>4. CASE UNCHANGED queueVars /\ InsertNotification(s)
    BY <2>4, InsertNotificationStep
  <2>5. CASE Enqueue(s) /\ UNCHANGED <<load, faults, taken>>
    BY <2>5, EnqueueStep
  <2>6. CASE InsertFails(s)
    BY <2>6, InsertFailsStep
  <2>7. QED
    BY <1>1, <2>1, <2>2, <2>3, <2>4, <2>5, <2>6 DEF SessionStep, Smtp
<1>2. CASE \/ (\E r \in Request : RequestStep(r)) \/ WorkerStep \/ UNCHANGED vars
  <2>1. UNCHANGED smtpVars /\ load' = load
    BY <1>2 DEF RequestStep, HandleRequest, Asked, LookupUser, CheckSubscribed, Insert, StoreWelcome,
         sendWelcomeSMS, Reread, CheckRegistered, Delete, Fails, Trouble, WorkerStep, Take, vars, queueVars
  <2>2. queue' \in Seq(Jobs) /\ \A e \in Mail, i \in Nat : Queued(<<e, i>>)' <=> Queued(<<e, i>>)
    <3>1. CASE \E r \in Request : RequestStep(r)
      <4>1. PICK r \in Request : RequestStep(r)
        BY <3>1
      <4>2. CASE sendWelcomeSMS(r)
        <5>1. Offer(WelcomeJob(r)) /\ taken' = taken /\ WelcomeJob(r) \in Jobs
          BY <4>2 DEF sendWelcomeSMS, Jobs
        <5>2. queue' \in Seq(Jobs) /\ \A x : Queued(x)' <=> Queued(x) \/ (Room /\ x = WelcomeJob(r))
          BY <5>1, OfferFacts DEF MailInv
        <5>3. \A e \in Mail, i \in Nat : <<e, i>> # WelcomeJob(r)
          BY DEF WelcomeJob, Mail
        <5>4. QED
          BY <5>2, <5>3
      <4>3. CASE ~sendWelcomeSMS(r)
        <5>1. UNCHANGED <<queue, taken>>
          BY <4>1, <4>3 DEF RequestStep, HandleRequest, Asked, LookupUser, CheckSubscribed, Insert,
               StoreWelcome, Reread, CheckRegistered, Delete, Fails, Trouble, queueVars
        <5>2. QED
          BY <5>1 DEF MailInv, Jobs, Queued
      <4>4. QED
        BY <4>2, <4>3
    <3>2. CASE WorkerStep
      BY <3>2, TakeFacts DEF WorkerStep, MailInv
    <3>3. CASE UNCHANGED vars
      BY <3>3 DEF vars, queueVars, MailInv, Jobs, Queued
    <3>4. QED
      BY <1>2, <3>1, <3>2, <3>3
  <2>3. \A e \in Mail : Same(e)
    BY <2>1, <2>2 DEF smtpVars, Same, Of
  <2>4. \A e \in Mail : EnvelopeOK(e)'
    BY <2>1, <2>3, SameEnvelope, SizeInNat DEF MailInv
  <2>5. ASSUME NEW s \in Session PROVE ConnOK(s)'
    <3>1. \A k \in 1..MaxEnvelopes : Same(<<s, k>>)
      BY <2>3 DEF Mail
    <3>2. QED
      BY <2>1, <3>1, SameConnection DEF smtpVars
  <2>6. QED
    BY <2>1, <2>2, <2>4, <2>5 DEF smtpVars, MailInv, Jobs
<1>3. QED
  BY <1>1, <1>2 DEF Next

(***************************************************************************)
(* Types. The bounds of the queue and of the faults are their own; that a   *)
(* notification has its event and a channel needs how far each connection   *)
(* is with its message (Stage).                                             *)
(***************************************************************************)

\* A connection works on a message exactly when it has targets left, each with a channel,
\* keeps recipients only in an envelope of its own, and stores the event first.
Stage(s) ==
  /\ conn[s].doing = "command" => conn[s].todo = <<>>
  /\ conn[s].recipients # <<>> => conn[s].authed /\ conn[s].mailing
  /\ \A j \in 1..Len(conn[s].todo) : conn[s].todo[j].channels # {}
  /\ conn[s].doing \in {"insert", "enqueue"} => Current(s) \in events

WithinBounds ==
  /\ load \in IntakeLoads /\ faults \in 0..load.faults
  /\ Len(queue) <= QueueCap

Codes == {0, 250, 451, 452, 550}

MailTypes ==
  /\ WithinBounds
  /\ code \in [Mail -> Codes] /\ events \subseteq Mail
  /\ \A s \in Session : Stage(s)
  /\ \A x \in notifs : x.mail \in events /\ x.channels # {} /\ x.channels \subseteq validChannels

LEMMA InitTypes == Init => MailTypes
<1> SUFFICES ASSUME Init PROVE MailTypes
  OBVIOUS
<1>1. /\ load \in IntakeLoads /\ faults = load.faults /\ queue = <<>> /\ events = {} /\ notifs = {}
      /\ conn = [s \in Session |-> Idle] /\ code = [e \in Mail |-> 0]
  BY DEF Init, QueueInit, SmtpInit
<1>2. WithinBounds
  <2>1. load.faults \in Nat /\ QueueCap \in Nat
    BY <1>1, QueueAssumption
  <2>2. QED
    BY <1>1, <2>1 DEF WithinBounds
<1>3. \A s \in Session : Stage(s)
  BY <1>1 DEF Stage, Idle
<1>4. code \in [Mail -> Codes]
  BY <1>1 DEF Codes
<1>5. QED
  BY <1>1, <1>2, <1>3, <1>4 DEF MailTypes

\* A step offers at most one job to the queue, takes at most one, and spends at most one
\* fault.
LEMMA StepKinds ==
  ASSUME [Next]_vars
  PROVE  /\ load' = load
         /\ (faults > 0 /\ faults' = faults - 1) \/ faults' = faults
         /\ queue' = queue \/ (\E j : Offer(j)) \/ (queue # <<>> /\ queue' = Tail(queue))
<1>1. ASSUME NEW s \in Session, SessionStep(s)
      PROVE  /\ load' = load
             /\ (faults > 0 /\ faults' = faults - 1) \/ faults' = faults
             /\ queue' = queue \/ (\E j : Offer(j))
  BY <1>1 DEF SessionStep, Smtp, Enqueue, InsertFails, Trouble, queueVars
<1>2. ASSUME NEW r \in Request, RequestStep(r)
      PROVE  /\ load' = load
             /\ (faults > 0 /\ faults' = faults - 1) \/ faults' = faults
             /\ queue' = queue \/ (\E j : Offer(j))
  BY <1>2 DEF RequestStep, HandleRequest, Asked, LookupUser, CheckSubscribed, Insert, StoreWelcome,
       sendWelcomeSMS, Reread, CheckRegistered, Delete, Fails, Trouble, queueVars
<1>3. CASE WorkerStep
  BY <1>3 DEF WorkerStep, Take
<1>4. CASE UNCHANGED vars
  BY <1>4 DEF vars, queueVars
<1>5. QED
  BY <1>1, <1>2, <1>3, <1>4 DEF Next

LEMMA NextBounds ==
  ASSUME MailInv, WithinBounds, [Next]_vars
  PROVE  WithinBounds'
<1>1. load \in IntakeLoads /\ load.faults \in Nat /\ QueueCap \in Nat /\ Len(queue) \in Nat
  BY QueueAssumption, LenProperties DEF WithinBounds, MailInv
<1>2. load' = load /\ load' \in IntakeLoads
  BY <1>1, StepKinds
<1>3. faults' \in 0..load'.faults
  <2>1. faults \in 0..load.faults
    BY DEF WithinBounds
  <2>2. (faults > 0 /\ faults' = faults - 1) \/ faults' = faults
    BY StepKinds
  <2>3. QED
    BY <1>1, <1>2, <2>1, <2>2
<1>4. CASE queue' = queue
  BY <1>2, <1>3, <1>4 DEF WithinBounds
<1>5. CASE \E j : Offer(j)
  <2>1. PICK j : Offer(j)
    BY <1>5
  <2>2. CASE Room
    <3>1. queue' = Append(queue, j) /\ Len(queue) < QueueCap
      BY <2>1, <2>2 DEF Offer, Room
    <3>2. Len(Append(queue, j)) = Len(queue) + 1
      <4>1. queue \in Seq(Jobs \cup {j})
        <5>1. \A S, T : \A q \in Seq(S) : q \in Seq(S \cup T)
          OBVIOUS
        <5>2. QED
          BY <5>1 DEF MailInv
      <4>2. QED
        BY <4>1, AppendProperties
    <3>3. QED
      BY <1>1, <1>2, <1>3, <3>1, <3>2 DEF WithinBounds
  <2>3. CASE ~Room
    BY <1>2, <1>3, <2>1, <2>3 DEF Offer, WithinBounds
  <2>4. QED
    BY <2>2, <2>3
<1>6. CASE queue # <<>> /\ queue' = Tail(queue)
  <2>1. Len(queue') = Len(queue) - 1
    BY <1>6, HeadTailProperties DEF MailInv
  <2>2. QED
    BY <1>1, <1>2, <1>3, <2>1 DEF WithinBounds
<1>7. QED
  BY <1>4, <1>5, <1>6, StepKinds

\* A step of one connection leaves the others where they are, if it only adds events.
LEMMA OneStage ==
  ASSUME MailInv, MailTypes, WithinBounds', NEW s \in Session,
         \A t \in Session \ {s} : conn'[t] = conn[t],
         Stage(s)', events \subseteq events', events' \subseteq Mail, code' \in [Mail -> Codes],
         \A x \in notifs' : \/ x \in notifs
                            \/ x.mail \in events' /\ x.channels # {} /\ x.channels \subseteq validChannels
  PROVE  MailTypes'
<1>1. ASSUME NEW t \in Session, t # s PROVE Stage(t)'
  BY <1>1 DEF MailTypes, Stage, Current
<1>2. \A t \in Session : Stage(t)'
  BY <1>1
<1>3. \A x \in notifs' : x.mail \in events' /\ x.channels # {} /\ x.channels \subseteq validChannels
  BY DEF MailTypes
<1>4. QED
  BY <1>2, <1>3 DEF MailTypes, Codes

\* An answer closes the connection's message.
LEMMA AnsweredTypes ==
  ASSUME MailInv, MailTypes, WithinBounds', NEW s \in Session, conn[s].mailing,
         NEW c \in Codes, Answered(s, c), events' = events, notifs' = notifs
  PROVE  MailTypes'
<1>1. DOMAIN conn = Session /\ conn[s] \in Conn
  BY DEF MailInv, ConnOK
<1>2. /\ conn'[s].recipients = <<>> /\ conn'[s].doing = "command" /\ conn'[s].todo = <<>>
      /\ \A t \in Session \ {s} : conn'[t] = conn[t]
  BY <1>1 DEF Answered, Reset, Conn
<1>3. Stage(s)'
  BY <1>2 DEF Stage
<1>4. code' \in [Mail -> Codes]
  BY DEF Answered, MailTypes
<1>5. QED
  BY <1>2, <1>3, <1>4, OneStage DEF MailTypes

LEMMA CommandTypes ==
  ASSUME MailInv, MailTypes, WithinBounds', NEW s \in Session,
         (\E roles \in load.roles[s] : finishAuth(s, roles)) \/ MailFrom(s) \/ Rset(s)
           \/ (\E a \in load.rcpts : Rcpt(s, a))
  PROVE  MailTypes'
<1>1. StoredNothing /\ conn[s].doing = "command"
  BY DEF finishAuth, MailFrom, Rset, Rcpt, Ready
<1>2. DOMAIN conn = Session /\ conn[s] \in Conn /\ Stage(s)
  BY DEF MailInv, ConnOK, MailTypes
<1>3. \A t \in Session \ {s} : conn'[t] = conn[t]
  BY <1>2 DEF finishAuth, MailFrom, Rset, Rcpt
<1>4. conn'[s].doing = "command" /\ conn'[s].todo = conn[s].todo
  <2>1. CASE \/ (\E roles \in load.roles[s] : finishAuth(s, roles))
             \/ (\E a \in load.rcpts : Rcpt(s, a))
    BY <1>1, <1>2, <2>1 DEF finishAuth, Rcpt, Conn
  <2>2. CASE MailFrom(s) \/ Rset(s)
    <3>1. PICK b : /\ conn' = [conn EXCEPT ![s] = b] /\ b.doing = conn[s].doing /\ b.todo = conn[s].todo
      BY <1>2, <2>2 DEF MailFrom, Rset, Conn
    <3>2. QED
      BY <1>1, <1>2, <3>1
  <2>3. QED
    BY <2>1, <2>2
<1>5. conn'[s].recipients # <<>> => conn'[s].authed /\ conn'[s].mailing
  BY <1>1, <1>2 DEF finishAuth, MailFrom, Rset, Reset, Rcpt, Conn, Stage
<1>6. Stage(s)'
  BY <1>1, <1>2, <1>4, <1>5 DEF Stage
<1>7. QED
  BY <1>1, <1>3, <1>6, OneStage DEF StoredNothing, MailTypes

LEMMA DataTypes ==
  ASSUME MailInv, MailTypes, WithinBounds', NEW s \in Session, NEW m, Data(s, m)
  PROVE  MailTypes'
<1>1. DOMAIN conn = Session /\ conn[s] \in Conn /\ Stage(s) /\ conn[s].mailing
  BY DEF MailInv, ConnOK, MailTypes, Data
<1>2. events' = events /\ notifs' = notifs
  BY DEF Data
<1> DEFINE targets == resolveTargets(conn[s].recipients, m.from)
<1>3. CASE /\ conn' = [conn EXCEPT ![s].doing = "event", ![s].todo = targets] /\ UNCHANGED code
           /\ m.from \subseteq validChannels /\ \A i \in DOMAIN targets : targets[i].channels # {}
  <2>1. targets \in Seq(Recipient)
    BY <1>1, <1>3, Resolved DEF Conn
  <2>2. DOMAIN targets = 1..Len(targets)
    BY <2>1, LenProperties
  <2>3. \A j \in 1..Len(targets) : targets[j].channels # {}
    BY <1>3, <2>2
  <2> HIDE DEF targets
  <2>4. /\ conn'[s].doing = "event" /\ conn'[s].todo = targets /\ conn'[s].authed = conn[s].authed
        /\ conn'[s].mailing = conn[s].mailing /\ conn'[s].recipients = conn[s].recipients
        /\ \A t \in Session \ {s} : conn'[t] = conn[t]
    BY <1>1, <1>3 DEF Conn
  <2>5. Stage(s)'
    BY <1>1, <2>3, <2>4 DEF Stage
  <2>6. QED
    BY <1>2, <1>3, <2>4, <2>5, OneStage DEF MailTypes
<1>4. CASE Answered(s, 550)
  BY <1>1, <1>2, <1>4, AnsweredTypes DEF Codes
<1>5. QED
  BY <1>3, <1>4 DEF Data

\* The current envelope is one of the bounded ones.
LEMMA CurrentIsMail ==
  ASSUME MailInv, NEW s \in Session, conn[s].mailing
  PROVE  Current(s) \in Mail
<1>1. ConnOK(s) /\ conn[s] \in Conn
  BY DEF MailInv, ConnOK
<1>2. conn[s].n \in 1..MaxEnvelopes
  BY <1>1, SessionAssumption DEF ConnOK, Conn
<1>3. QED
  BY <1>2 DEF Current, Mail

LEMMA InsertTypes ==
  ASSUME MailInv, MailTypes, WithinBounds', NEW s \in Session,
         InsertEvent(s) \/ InsertNotification(s)
  PROVE  MailTypes'
<1>1. DOMAIN conn = Session /\ conn[s] \in Conn /\ Stage(s) /\ ConnOK(s)
  BY DEF MailInv, ConnOK, MailTypes
<1>2. PICK d \in {"insert", "enqueue"} : conn' = [conn EXCEPT ![s].doing = d] /\ conn[s].doing # "command"
  BY DEF InsertEvent, InsertNotification
<1>3. /\ conn'[s].doing = d /\ conn'[s].todo = conn[s].todo /\ conn'[s].n = conn[s].n
      /\ conn'[s].authed = conn[s].authed /\ conn'[s].mailing = conn[s].mailing
      /\ conn'[s].recipients = conn[s].recipients
      /\ \A t \in Session \ {s} : conn'[t] = conn[t]
  BY <1>1, <1>2 DEF Conn
<1>4. Current(s) \in Mail /\ Current(s)' = Current(s)
  BY <1>1, <1>2, <1>3, CurrentIsMail DEF ConnOK, Processing, Current
<1>5. code' = code /\ code \in [Mail -> Codes] /\ events \subseteq Mail
  BY DEF InsertEvent, InsertNotification, MailTypes
<1>6. Current(s) \in events' /\ events \subseteq events' /\ events' \subseteq Mail
  BY <1>1, <1>4, <1>5 DEF InsertEvent, InsertNotification, Stage
<1>7. Stage(s)'
  BY <1>1, <1>3, <1>4, <1>6 DEF Stage
<1>8. ASSUME NEW x \in notifs', x \notin notifs
      PROVE  x.mail \in events' /\ x.channels # {} /\ x.channels \subseteq validChannels
  <2>1. /\ InsertNotification(s) /\ x.mail = Current(s) /\ x.channels = Head(conn[s].todo).channels
    BY <1>8 DEF InsertEvent, InsertNotification
  <2>2. conn[s].todo \in Seq(Recipient) /\ conn[s].todo # <<>>
    BY <1>1, <1>2 DEF Conn, ConnOK, Processing
  <2>3. 1 \in 1..Len(conn[s].todo) /\ Head(conn[s].todo) = conn[s].todo[1]
    BY <2>2, HeadTailProperties, LenProperties, EmptySeq
  <2>4. conn[s].todo[1] \in Recipient
    BY <2>2, <2>3, ElementOfSeq
  <2>5. QED
    BY <1>1, <1>6, <2>1, <2>3, <2>4 DEF Stage, Recipient
<1>9. QED
  BY <1>3, <1>5, <1>6, <1>7, <1>8, OneStage

LEMMA EnqueueTypes ==
  ASSUME MailInv, MailTypes, WithinBounds', NEW s \in Session, Enqueue(s)
  PROVE  MailTypes'
<1>1. /\ DOMAIN conn = Session /\ conn[s] \in Conn /\ Stage(s) /\ conn[s].doing = "enqueue"
      /\ conn[s].mailing /\ conn[s].todo # <<>>
  BY DEF MailInv, ConnOK, MailTypes, Enqueue, Processing
<1>2. events' = events /\ notifs' = notifs
  BY DEF Enqueue
<1>3. CASE Answered(s, 452) \/ Answered(s, 250)
  BY <1>1, <1>2, <1>3, AnsweredTypes DEF Codes
<1>4. CASE /\ conn' = [conn EXCEPT ![s].doing = "insert", ![s].todo = Tail(@)]
           /\ UNCHANGED <<asked, code>> /\ Len(conn[s].todo) # 1
  <2> DEFINE rest == Tail(conn[s].todo)
  <2>1. /\ rest \in Seq(Recipient) /\ Len(rest) = Len(conn[s].todo) - 1
        /\ \A j \in 1..Len(rest) : rest[j] = conn[s].todo[j + 1]
    BY <1>1, HeadTailProperties DEF Conn
  <2>2. conn' = [conn EXCEPT ![s].doing = "insert", ![s].todo = rest]
    BY <1>1, <1>4
  <2> HIDE DEF rest
  <2>3. /\ conn'[s].doing = "insert" /\ conn'[s].todo = rest /\ conn'[s].authed = conn[s].authed
        /\ conn'[s].mailing = conn[s].mailing /\ conn'[s].recipients = conn[s].recipients
        /\ conn'[s].n = conn[s].n
        /\ \A t \in Session \ {s} : conn'[t] = conn[t]
    BY <1>1, <2>2 DEF Conn
  <2>4. \A j \in 1..Len(rest) : rest[j].channels # {}
    <3>1. Len(conn[s].todo) \in Nat
      BY <1>1, LenProperties DEF Conn
    <3>2. \A j \in 1..Len(rest) : j + 1 \in 1..Len(conn[s].todo)
      BY <2>1, <3>1
    <3>3. QED
      BY <1>1, <2>1, <3>2 DEF Stage
  <2>5. Stage(s)'
    BY <1>1, <1>2, <2>3, <2>4 DEF Stage, Current
  <2>6. QED
    BY <1>2, <1>4, <2>3, <2>5, OneStage DEF MailTypes
<1>5. QED
  BY <1>3, <1>4 DEF Enqueue

LEMMA NextTypes == MailInv /\ MailTypes /\ [Next]_vars => MailTypes'
<1> SUFFICES ASSUME MailInv, MailTypes, [Next]_vars PROVE MailTypes'
  OBVIOUS
<1>1. WithinBounds'
  BY NextBounds DEF MailTypes
<1>2. ASSUME NEW s \in Session, SessionStep(s) PROVE MailTypes'
  <2>1. CASE InsertFails(s)
    <3>1. conn[s].mailing
      BY <2>1 DEF InsertFails, MailInv, ConnOK, Processing
    <3>2. QED
      BY <1>1, <2>1, <3>1, AnsweredTypes DEF InsertFails, Codes
  <2>2. QED
    BY <1>1, <1>2, <2>1, CommandTypes, DataTypes, InsertTypes, EnqueueTypes DEF SessionStep, Smtp
<1>3. CASE \/ (\E r \in Request : RequestStep(r)) \/ WorkerStep \/ UNCHANGED vars
  <2>1. UNCHANGED smtpVars
    BY <1>3 DEF RequestStep, WorkerStep, vars
  <2>2. \A s \in Session : Stage(s)'
    BY <2>1 DEF smtpVars, MailTypes, Stage, Current
  <2>3. QED
    BY <1>1, <2>1, <2>2 DEF smtpVars, MailTypes
<1>4. QED
  BY <1>2, <1>3 DEF Next

(***************************************************************************)
(* Theorems.                                                               *)
(***************************************************************************)

\* SubInv holds of every reachable state.
THEOREM SubscriptionsConsistent == Spec => []SubInv
<1>1. QED
  BY InitSub, NextSub, PTL DEF Spec

\* The table, the requests and the welcome notifications keep their types; a row's
\* number is the one the directory has for its person.
THEOREM SubscriptionsTyped == Spec => []SubTypeOK
<1>1. SubInv => SubTypeOK
  BY DEF SubInv, RowsOK, AskOK, Ask, WelcomeOK, SubTypeOK
<1>2. QED
  BY <1>1, SubscriptionsConsistent, PTL

\* Registrations and rows agree, however requests for one name interleave and whichever
\* calls fail (the subscribe handlers of api/subscriptions.go and api/subscribe.go).
THEOREM RegistrationsHaveRows == Spec => []RegisteredIsSubscribed
<1>1. SubInv => RegisteredIsSubscribed
  BY DEF SubInv
<1>2. QED
  BY <1>1, SubscriptionsConsistent, PTL

\* The number of a queued welcome message is subscribed, unless its person has left since
\* (sendWelcomeSMS, after the insert).
THEOREM WelcomeIsSubscribed == Spec => []WelcomePassesGate
<1>1. SubInv => WelcomePassesGate
  <2> SUFFICES ASSUME SubInv, NEW w \in welcomes
               PROVE  GetSMSSubscriptionByPhone(w.phone) \/ deleted[w.user] > req[w.by].since
    BY DEF WelcomePassesGate
  <2>1. WelcomeOK(w) /\ Covered(req[w.by])
    BY DEF SubInv, WelcomeOK
  <2>2. CASE w.user \in DOMAIN subs
    <3>1. subs[w.user] = w.phone
      BY <2>1, <2>2 DEF SubInv, RowsOK, WelcomeOK
    <3>2. QED
      BY <2>2, <3>1, InRange DEF GetSMSSubscriptionByPhone
  <2>3. CASE w.user \notin DOMAIN subs
    BY <2>1, <2>3 DEF Covered, WelcomeOK
  <2>4. QED
    BY <2>2, <2>3
<1>2. QED
  BY <1>1, SubscriptionsConsistent, PTL

\* MailInv holds of every reachable state.
THEOREM MailConsistent == Spec => []MailInv
<1>1. QED
  BY InitMail, NextMail, PTL DEF Spec

\* The answer to a message says what is stored and queued of it, however many recipients
\* it has, whoever else fills the queue and whichever insert fails. (Data of smtpapi/session.go)
THEOREM AnswersTell == Spec => []AnswerTells
<1>1. MailInv => AnswerTells
  <2> SUFFICES ASSUME MailInv, NEW e \in Mail
               PROVE  /\ code[e] = 250 => Cardinality(Of(e)) = Len(mail[e].to) /\ \A x \in Of(e) : IsQueued(x)
                      /\ code[e] = 550 => e \notin events /\ Of(e) = {}
                      /\ code[e] = 451 => \A x \in Of(e) : IsQueued(x)
                      /\ code[e] = 452 => \A x \in Of(e) : IsQueued(x) <=> x.i < Cardinality(Of(e))
                      /\ \A i \in 1..MaxRcpt : Queued(<<e, i>>) => \E x \in Of(e) : x.i = i
    BY DEF AnswerTells
  <2>1. EnvelopeOK(e) /\ Size(e) \in Nat
    BY SizeInNat DEF MailInv
  <2>2. Of(e) = {Note(e, i) : i \in 1..Size(e)} /\ Cardinality(Of(e)) = Size(e)
    BY <2>1 DEF EnvelopeOK, Size
  <2>3. \A i \in 1..Size(e) : Note(e, i).i = i /\ Note(e, i).mail = e
    BY DEF Note
  <2>4. \A x \in Of(e) : \E i \in 1..Size(e) : x.i = i /\ IsQueued(x) = Queued(<<e, i>>)
    BY <2>2, <2>3 DEF IsQueued
  <2>5. code[e] = 550 => Of(e) = {}
    BY <2>1, <2>2 DEF EnvelopeOK
  <2>6. \A i \in 1..MaxRcpt : Queued(<<e, i>>) => \E x \in Of(e) : x.i = i
    BY <2>1, <2>2, <2>3 DEF EnvelopeOK
  <2>7. /\ code[e] = 250 => Size(e) = Len(mail[e].to) /\ \A i \in 1..Size(e) : Queued(<<e, i>>)
        /\ code[e] = 550 => e \notin events
        /\ code[e] = 451 => \A i \in 1..Size(e) : Queued(<<e, i>>)
        /\ code[e] = 452 => \A i \in 1..Size(e) : Queued(<<e, i>>) <=> i < Size(e)
    BY <2>1 DEF EnvelopeOK
  <2>8. Cardinality(Of(e)) = Size(e)
    BY <2>2
  <2>9. ASSUME NEW x \in Of(e)
        PROVE  /\ code[e] \in {250, 451} => IsQueued(x)
               /\ code[e] = 452 => (IsQueued(x) <=> x.i < Size(e))
    <3>1. PICK i \in 1..Size(e) : x.i = i /\ IsQueued(x) = Queued(<<e, i>>)
      BY <2>4
    <3>2. /\ code[e] \in {250, 451} => Queued(<<e, i>>)
          /\ code[e] = 452 => (Queued(<<e, i>>) <=> i < Size(e))
      BY <2>7
    <3>3. QED
      BY <3>1, <3>2
  <2>10. QED
    BY <2>5, <2>6, <2>7, <2>8, <2>9
<1>2. QED
  BY <1>1, MailConsistent, PTL

\* A message goes to those its client named for it and to nobody else, over the channels
\* named. (Reset and resolveTargets of smtpapi/session.go)
THEOREM NobodyIsLeftOver == Spec => []NoLeftovers
<1>1. MailInv => NoLeftovers
  <2> SUFFICES ASSUME MailInv, NEW x \in notifs
               PROVE  /\ x.i \in DOMAIN mail[x.mail].to
                      /\ x.group = mail[x.mail].to[x.i].group
                      /\ x.channels = IF mail[x.mail].to[x.i].channels = {} THEN mail[x.mail].from
                                      ELSE mail[x.mail].to[x.i].channels
    BY DEF NoLeftovers
  <2>1. PICK e \in Mail : e = x.mail
    BY DEF MailInv
  <2>2. EnvelopeOK(e) /\ Size(e) \in Nat /\ x \in Of(e)
    BY <2>1, SizeInNat DEF MailInv, Of
  <2>3. PICK i \in 1..Size(e) : x = Note(e, i)
    BY <2>2 DEF EnvelopeOK
  <2>4. DOMAIN mail[e].to = 1..Len(mail[e].to) /\ Len(mail[e].to) \in Nat /\ Size(e) <= Len(mail[e].to)
    BY <2>2, LenProperties DEF EnvelopeOK
  <2>5. x.i = i /\ x.group = Target(e, i).group /\ x.channels = Target(e, i).channels
    BY <2>3 DEF Note
  <2>6. i \in 1..Len(mail[e].to)
    BY <2>2, <2>3, <2>4
  <2>7. QED
    BY <2>1, <2>4, <2>5, <2>6 DEF Target
<1>2. QED
  BY <1>1, MailConsistent, PTL
\* The whole state keeps its types: in particular no job beyond the queue's bound, no
\* notification without its event or without a channel it knows, and recipients only in
\* an envelope of who authenticated. (session of smtpapi/session.go, Enqueue of the dispatcher)
THEOREM IntakeTyped == Spec => []TypeOK
<1>1. MailInv /\ MailTypes => SmtpTypeOK
  <2> SUFFICES ASSUME MailInv, MailTypes PROVE SmtpTypeOK
    OBVIOUS
  <2>1. ASSUME NEW s \in Session
        PROVE  /\ conn[s].authed \in BOOLEAN /\ conn[s].mailing \in BOOLEAN
               /\ conn[s].n \in 0..MaxEnvelopes
               /\ conn[s].doing \in {"command", "event", "insert", "enqueue"}
               /\ conn[s].doing \in {"event", "insert", "enqueue"} <=> conn[s].todo # <<>>
               /\ conn[s].recipients # <<>> => conn[s].authed /\ conn[s].mailing
    <3>1. conn[s] \in Conn /\ ConnOK(s) /\ Stage(s)
      BY DEF MailInv, ConnOK, MailTypes
    <3>2. conn[s].n \in 0..MaxEnvelopes
      BY <3>1, SessionAssumption DEF Conn, ConnOK
    <3>3. conn[s].doing # "command" <=> conn[s].todo # <<>>
      BY <3>1 DEF ConnOK, Processing, Stage
    <3>4. QED
      BY <3>1, <3>2, <3>3 DEF Conn, Stage
  <2>2. QED
    BY <2>1 DEF SmtpTypeOK, MailTypes, Codes
<1>2. MailInv /\ MailTypes /\ SubTypeOK => TypeOK
  BY <1>1 DEF TypeOK, MailTypes, WithinBounds
<1>3. QED
  BY <1>2, InitMail, NextMail, InitTypes, NextTypes, SubscriptionsTyped, PTL DEF Spec
=============================================================================
