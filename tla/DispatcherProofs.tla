-------------------------- MODULE DispatcherProofs --------------------------
(***************************************************************************)
(* Theorems about Dispatcher, for every number of notifications, workers,  *)
(* members and groups, every queue and semaphore capacity, every retry     *)
(* limit and any number of database errors and restarts. DispatchInv is    *)
(* the inductive invariant: OwnerInv says which part of the program owns a *)
(* notification and which targets nobody has touched, RecordInv what each  *)
(* target's goroutine and row say, SemaphoreInv who holds the tokens.      *)
(***************************************************************************)
EXTENDS DispatcherTypes

(***************************************************************************)
(* Steps that leave every delivery as it is.                               *)
(***************************************************************************)

LEMMA QuietRecords ==
  ASSUME TypeOK, RecordInv, UNCHANGED <<task, rows, accepted>>,
         ctxDone => ctxDone', faulted => faulted'
  PROVE  RecordInv'
<1> SUFFICES ASSUME NEW k \in Key PROVE TaskOK(k)' /\ RowTruthful(k)'
  BY DEF RecordInv, TaskInv, RecordsTruthful
<1>1. TaskOK(k) /\ RowTruthful(k)
  BY DEF RecordInv, TaskInv, RecordsTruthful
<1>2. QED
  BY <1>1 DEF TaskOK, RowTruthful, Finished, MaxTries

LEMMA QuietSemaphore ==
  ASSUME SemaphoreInv, sem' = sem, Holders' = Holders
  PROVE  SemaphoreInv'
BY DEF SemaphoreInv, SemaphoreExact

LEMMA QueryHistory ==
  ASSUME TypeOK, DbOk \/ DbError
  PROVE  faulted => faulted'
BY DEF DbOk, DbError

(***************************************************************************)
(* The surroundings of the process.                                        *)
(***************************************************************************)

LEMMA RestartInv ==
  ASSUME DispatchInv, Restart
  PROVE  OwnerInv' /\ RecordInv' /\ SemaphoreInv'
<1>1. \A k \in Key : task'[k].st = "none"
  BY DEF Restart, NoTask, T
<1>2. SemaphoreInv'
  <2>1. Holders' = {}
    BY <1>1 DEF Holders
  <2>2. QED
    BY <2>1, FS_EmptySet, BoundsAssumption DEF SemaphoreInv, SemaphoreExact, Restart
<1>3. RecordInv'
  <2> SUFFICES ASSUME NEW k \in Key PROVE TaskOK(k)' /\ RowTruthful(k)'
    BY DEF RecordInv, TaskInv, RecordsTruthful
  <2>1. RowTruthful(k) /\ rows' = rows /\ accepted' = accepted
    BY DEF DispatchInv, RecordInv, RecordsTruthful, Restart, dbVars
  <2>2. QED
    BY <1>1, <2>1 DEF TaskOK, RowTruthful, Finished, MaxTries
<1>4. OwnerInv'
  <2>1. \A n \in Notif : Unbegun(n)' => Unbegun(n)
    BY DEF DispatchInv, TypeOK, Restart, Unbegun, Queued
  <2>2. RequestInv' /\ OneOwner' /\ ExpandInv' /\ ActiveOwned'
    BY <1>1 DEF DispatchInv, OwnerInv, RequestInv, OneOwner, ExpandInv, ActiveOwned, Busy,
       Finished, Restart, dbVars
  <2>3. StatusInv'
    BY <2>1 DEF DispatchInv, TypeOK, OwnerInv, StatusInv, Owned, Restart, dbVars
  <2>4. UnbegunClean'
    BY <2>1 DEF DispatchInv, OwnerInv, UnbegunClean, Clean, Restart, dbVars, Key
  <2>5. QED
    BY <2>2, <2>3, <2>4 DEF OwnerInv
<1>5. QED
  BY <1>2, <1>3, <1>4

LEMMA EnvironmentInv ==
  ASSUME DispatchInv, Environment
  PROVE  OwnerInv' /\ RecordInv' /\ SemaphoreInv'
<1>1. CASE Restart
  BY <1>1, RestartInv
<1>2. CASE Environment /\ ~Restart
  <2>1. /\ UNCHANGED <<dbVars, pub, queue, jobVars, task, sem, accepted, faulted>>
        /\ ctxDone => ctxDone'
    BY <1>2 DEF Environment, Cancel, Subscribe, Unsubscribe, SyncGroup
  <2>2. RecordInv'
    BY <2>1, QuietRecords DEF DispatchInv, dbVars
  <2>3. SemaphoreInv'
    BY <2>1, QuietSemaphore DEF DispatchInv, Holders
  <2>4. OwnerInv'
    BY <2>1 DEF DispatchInv, OwnerInv, RequestInv, OneOwner, StatusInv, UnbegunClean, ExpandInv,
       ActiveOwned, Busy, Queued, Owned, Unbegun, Clean, Finished, dbVars, jobVars
  <2>5. QED
    BY <2>2, <2>3, <2>4
<1>3. QED
  BY <1>1, <1>2

(***************************************************************************)
(* Deliveries.                                                             *)
(***************************************************************************)

LEMMA DeliveryInv ==
  ASSUME DispatchInv, NEW k \in Key, DeliveryStep(k)
  PROVE  OwnerInv' /\ RecordInv' /\ SemaphoreInv'
<1>0. TypeOK /\ OwnerInv /\ RecordInv /\ SemaphoreInv
  BY DEF DispatchInv
<1>1. /\ UNCHANGED <<request, status, memberCount, envVars, pub, queue, jobVars, ctxDone>>
      /\ ~Finished(k)
      /\ \A x \in Key \ {k} : task'[x] = task[x] /\ rows'[x] = rows[x] /\ accepted'[x] = accepted[x]
      /\ faulted => faulted'
  BY <1>0, DeliveryFrame
<1>2. SemaphoreInv'
  BY <1>0, DeliverySemaphore
<1>3. RecordInv'
  <2> SUFFICES ASSUME NEW x \in Key PROVE TaskOK(x)' /\ RowTruthful(x)'
    BY DEF RecordInv, TaskInv, RecordsTruthful
  <2>1. TaskOK(x) /\ RowTruthful(x)
    BY <1>0 DEF RecordInv, TaskInv, RecordsTruthful
  <2>2. CASE x = k
    BY <1>0, <2>1, <2>2, DeliveryLocal
  <2>3. CASE x # k
    BY <1>1, <2>1, <2>3 DEF TaskOK, RowTruthful, Finished, MaxTries
  <2>4. QED
    BY <2>2, <2>3
<1>4. OwnerInv'
  <2>1. \A x \in Key : Clean(x) => Clean(x)'
    BY <1>1 DEF Clean, Finished, NoTask, T
  <2>2. \A x \in Key : ~Finished(x)' => ~Finished(x)
    BY <1>1 DEF Finished
  <2>3. /\ \A n \in Notif : (Unbegun(n)' <=> Unbegun(n)) /\ (Owned(n)' <=> Owned(n))
        /\ RequestInv' /\ OneOwner'
    BY <1>0, <1>1 DEF OwnerInv, RequestInv, OneOwner, Unbegun, Queued, Owned, Busy, jobVars
  <2>4. StatusInv' /\ UnbegunClean' /\ ActiveOwned'
    BY <1>0, <1>1, <2>1, <2>2, <2>3 DEF OwnerInv, StatusInv, UnbegunClean, ActiveOwned, Key
  <2>5. ExpandInv'
    BY <1>0, <1>1, <2>1 DEF OwnerInv, ExpandInv, jobVars
  <2>6. QED
    BY <2>3, <2>4, <2>5 DEF OwnerInv
<1>5. QED
  BY <1>2, <1>3, <1>4

(***************************************************************************)
(* Publishing.                                                             *)
(***************************************************************************)

LEMMA InsertInv ==
  ASSUME TypeOK, OwnerInv, NEW n \in Notif, NEW r \in Requests, PublishInsert(n, r)
  PROVE  OwnerInv'
<1>1. /\ pub[n] = "none" /\ pub'[n] = "inserted" /\ status'[n] = "pending" /\ request'[n] = r
      /\ \A x \in Notif \ {n} : pub'[x] = pub[x] /\ status'[x] = status[x] /\ request'[x] = request[x]
      /\ UNCHANGED <<queue, jobVars, task, rows, accepted>>
  BY DEF TypeOK, PublishInsert
<1>2. \A x \in Notif : (Unbegun(x)' <=> Unbegun(x)) /\ (Owned(x)' <=> Owned(x))
  BY <1>1 DEF Unbegun, Queued, Owned, jobVars
<1>3. \A w \in Worker : Busy(w) => job[w] # n
  BY <1>1 DEF OwnerInv, OneOwner
<1>4. RequestInv'
  BY <1>1, RequestsAssumption DEF OwnerInv, RequestInv
<1>5. OneOwner'
  BY <1>1, <1>3 DEF TypeOK, OwnerInv, OneOwner, Busy, Queued, jobVars
<1>6. StatusInv'
  <2>1. \A x \in Notif : Owned(x) => x # n
    BY <1>3 DEF Owned, Busy
  <2>2. QED
    BY <1>1, <1>2, <2>1 DEF OwnerInv, StatusInv
<1>7. UnbegunClean' /\ ActiveOwned'
  BY <1>1, <1>2 DEF OwnerInv, UnbegunClean, ActiveOwned, Clean, Finished, Key
<1>8. ExpandInv'
  BY <1>1, <1>3 DEF TypeOK, OwnerInv, ExpandInv, Busy, Clean, jobVars
<1>9. QED
  BY <1>4, <1>5, <1>6, <1>7, <1>8 DEF OwnerInv

LEMMA EnqueueInv ==
  ASSUME TypeOK, OwnerInv, NEW n \in Notif, PublishEnqueue(n)
  PROVE  OwnerInv'
<1>1. /\ pub[n] = "inserted" /\ pub'[n] \in {"enqueued", "rejected"}
      /\ \A x \in Notif \ {n} : pub'[x] = pub[x]
      /\ UNCHANGED <<dbVars, jobVars, task, accepted>>
  BY DEF TypeOK, PublishEnqueue
<1>2. /\ ~Queued(n)
      /\ \A w \in Worker : Busy(w) => job[w] # n
  BY <1>1 DEF OwnerInv, OneOwner, Queued
<1>3. \/ pub'[n] = "enqueued" /\ queue' = Append(queue, n)
      \/ pub'[n] = "rejected" /\ queue' = queue
  BY DEF TypeOK, PublishEnqueue
<1>4. \/ /\ pub'[n] = "enqueued"
         /\ DOMAIN queue' = 1..(Len(queue) + 1)
         /\ \A i \in DOMAIN queue : i \in DOMAIN queue' /\ queue'[i] = queue[i]
         /\ queue'[Len(queue) + 1] = n
         /\ DOMAIN queue = 1..Len(queue) /\ Len(queue) \in Nat
      \/ pub'[n] = "rejected" /\ queue' = queue
  <2>1. /\ queue \in Seq(Notif) /\ Len(queue) \in Nat /\ DOMAIN queue = 1..Len(queue)
        /\ Append(queue, n) \in Seq(Notif) /\ Len(Append(queue, n)) = Len(queue) + 1
        /\ DOMAIN Append(queue, n) = 1..(Len(queue) + 1)
        /\ \A i \in 1..Len(queue) : i \in 1..(Len(queue) + 1) /\ Append(queue, n)[i] = queue[i]
        /\ Append(queue, n)[Len(queue) + 1] = n
    BY DEF TypeOK
  <2>2. QED
    BY <1>3, <2>1
<1>5. \A x \in Notif : Queued(x)' => Queued(x) \/ x = n
  BY <1>4 DEF Queued
<1>6. \A x \in Notif : Unbegun(x)' => Unbegun(x)
  BY <1>1, <1>5 DEF Unbegun, jobVars
<1>7. OneOwner'
  <2>1. (\A i \in DOMAIN queue : pub[queue[i]] = "enqueued")'
    <3> SUFFICES ASSUME NEW i \in DOMAIN queue' PROVE pub'[queue'[i]] = "enqueued"
      OBVIOUS
    <3>1. CASE i \in DOMAIN queue
      <4>1. queue[i] \in Notif /\ pub[queue[i]] = "enqueued" /\ queue'[i] = queue[i]
        BY <1>4, <3>1 DEF TypeOK, OwnerInv, OneOwner
      <4>2. QED
        BY <1>1, <4>1
    <3>2. CASE i \notin DOMAIN queue
      BY <1>4, <3>2
    <3>3. QED
      BY <3>1, <3>2
  <2>2. (\A i, j \in DOMAIN queue : queue[i] = queue[j] => i = j)'
    BY <1>2, <1>4 DEF OwnerInv, OneOwner, Queued
  <2>3. (\A w \in Worker : Busy(w) => pub[job[w]] = "enqueued" /\ ~Queued(job[w]))'
    BY <1>1, <1>2, <1>5 DEF TypeOK, OwnerInv, OneOwner, Busy, jobVars
  <2>4. (\A v, w \in Worker : Busy(v) /\ Busy(w) /\ job[v] = job[w] => v = w)'
    BY <1>1 DEF OwnerInv, OneOwner, Busy, jobVars
  <2>5. QED
    BY <2>1, <2>2, <2>3, <2>4 DEF OneOwner
<1>8. RequestInv' /\ StatusInv' /\ UnbegunClean' /\ ExpandInv' /\ ActiveOwned'
  <2>1. \A x \in Notif : Owned(x)' <=> Owned(x)
    BY <1>1 DEF Owned, jobVars
  <2>2. RequestInv' /\ ExpandInv'
    BY <1>1 DEF OwnerInv, RequestInv, ExpandInv, Clean, dbVars, jobVars
  <2>3. StatusInv'
    BY <1>1, <1>6, <2>1 DEF OwnerInv, StatusInv, dbVars, Unbegun
  <2>4. UnbegunClean' /\ ActiveOwned'
    BY <1>1, <1>6, <2>1 DEF OwnerInv, UnbegunClean, ActiveOwned, Clean, Finished, Key, dbVars
  <2>5. QED
    BY <2>2, <2>3, <2>4
<1>9. QED
  BY <1>7, <1>8 DEF OwnerInv

LEMMA PublishInv ==
  ASSUME DispatchInv, Publish
  PROVE  OwnerInv' /\ RecordInv' /\ SemaphoreInv'
<1>1. OwnerInv'
  BY InsertInv, EnqueueInv DEF DispatchInv, Publish
<1>2. UNCHANGED <<task, rows, accepted, sem, ctxDone, faulted>>
  BY DEF Publish, PublishInsert, PublishEnqueue, dbVars
<1>3. RecordInv'
  BY <1>2, QuietRecords DEF DispatchInv
<1>4. SemaphoreInv'
  BY <1>2, QuietSemaphore DEF DispatchInv, Holders
<1>5. QED
  BY <1>1, <1>3, <1>4

(***************************************************************************)
(* Workers.                                                                *)
(***************************************************************************)

Untouched(k) == task'[k] = task[k] /\ rows'[k] = rows[k]

\* A target that gets its goroutine, or whose SMS is withheld in line: with a
\* record, unless the query failed.
Begins(k) ==
  /\ Clean(k)
  /\ \/ task'[k].st = "spawned" /\ rows'[k] = <<>>
     \/ /\ task'[k].st = "done"
        /\ \/ rows'[k] = <<[status |-> "not_subscribed", attempt |-> 0]>>
           \/ rows'[k] = <<>> /\ (ctxDone' \/ faulted')

\* What a step that only starts targets keeps.
LEMMA BeginsKeeps ==
  ASSUME TypeOK, RecordInv, SemaphoreInv, UNCHANGED <<accepted, sem>>,
         ctxDone => ctxDone', faulted => faulted',
         \A k \in Key : Untouched(k) \/ Begins(k)
  PROVE  RecordInv' /\ SemaphoreInv'
<1>1. RecordInv'
  <2> SUFFICES ASSUME NEW k \in Key PROVE TaskOK(k)' /\ RowTruthful(k)'
    BY DEF RecordInv, TaskInv, RecordsTruthful
  <2>1. TaskOK(k) /\ RowTruthful(k)
    BY DEF RecordInv, TaskInv, RecordsTruthful
  <2>2. CASE Untouched(k)
    BY <2>1, <2>2 DEF Untouched, TaskOK, RowTruthful, Finished, MaxTries
  <2>3. CASE Begins(k)
    <3>1. accepted'[k] = 0 /\ MaxTries(k)' = MaxTries(k) /\ MaxTries(k) \in Nat
      BY <2>3, MaxTriesType DEF Begins, Clean, MaxTries
    <3>2. CASE task'[k].st = "spawned" /\ rows'[k] = <<>>
      BY <3>1, <3>2 DEF TaskOK, RowTruthful
    <3>3. CASE task'[k].st = "done" /\ rows'[k] = <<[status |-> "not_subscribed", attempt |-> 0]>>
      BY <3>1, <3>3 DEF TaskOK, RowTruthful, Finished
    <3>4. CASE task'[k].st = "done" /\ rows'[k] = <<>> /\ (ctxDone' \/ faulted')
      BY <3>1, <3>4 DEF TaskOK, RowTruthful
    <3>5. QED
      BY <2>3, <3>2, <3>3, <3>4 DEF Begins
  <2>4. QED
    BY <2>2, <2>3
<1>2. SemaphoreInv'
  <2>1. Holders' = Holders
    BY DEF Holders, Untouched, Begins, Clean, NoTask, T
  <2>2. QED
    BY <2>1, QuietSemaphore
<1>3. QED
  BY <1>1, <1>2

LEMMA ExpandFrame ==
  ASSUME TypeOK, OwnerInv, NEW w \in Worker, NEW m \in Member, ExpandMember(w, m)
  PROVE  /\ faulted => faulted'
         /\ \A k \in Key :
              \/ Untouched(k)
              \/ Begins(k) /\ k.n = job[w] /\ k.i = gi[w] /\ k.who = m /\ k.src = "group"
<1> DEFINE sms == GroupKey(w, m, "sms")
           others == {GroupKey(w, m, c) : c \in Wanted(w, m) \ {"sms"}}
           Row0 == [status |-> "not_subscribed", attempt |-> 0]
<1>1. faulted => faulted'
  BY DEF ExpandMember, DbOk, DbError
<1>2. \A k \in Key : k \in others \cup {sms} =>
        Clean(k) /\ k.n = job[w] /\ k.i = gi[w] /\ k.who = m /\ k.src = "group"
  <2> SUFFICES ASSUME NEW k \in Key, k \in others \cup {sms}
               PROVE  Clean(k) /\ k.n = job[w] /\ k.i = gi[w] /\ k.who = m /\ k.src = "group"
    OBVIOUS
  <2>1. k.n = job[w] /\ k.i = gi[w] /\ k.who = m /\ k.src = "group"
    BY DEF GroupKey
  <2>2. pc[w] = "expand" /\ m \in todo[w]
    BY DEF ExpandMember
  <2>3. QED
    BY <2>1, <2>2 DEF OwnerInv, ExpandInv
<1>3. ASSUME NEW K, K \subseteq others \cup {sms}, Spawn(K), rows' = rows, NEW k \in Key
      PROVE  \/ Untouched(k)
             \/ Begins(k) /\ k.n = job[w] /\ k.i = gi[w] /\ k.who = m /\ k.src = "group"
  <2>1. CASE k \in K
    <3>1. task'[k].st = "spawned"
      BY <1>3, <2>1 DEF Spawn, T
    <3>2. QED
      BY <1>2, <1>3, <2>1, <3>1 DEF Begins, Clean
  <2>2. CASE k \notin K
    BY <1>3, <2>2 DEF Spawn, Untouched
  <2>3. QED
    BY <2>1, <2>2
<1>4. ASSUME task' = [k \in Key |-> IF k = sms THEN T("done", 0, "unset")
                        ELSE IF k \in others THEN T("spawned", 0, "unset") ELSE task[k]],
             \/ rows' = [rows EXCEPT ![sms] = Append(@, Row0)]
             \/ rows' = rows /\ (ctxDone' \/ faulted'),
             NEW k \in Key
      PROVE  \/ Untouched(k)
             \/ Begins(k) /\ k.n = job[w] /\ k.i = gi[w] /\ k.who = m /\ k.src = "group"
  <2>1. CASE k = sms
    <3>1. task'[k].st = "done" /\ rows[k] = <<>>
      BY <1>2, <1>4, <2>1 DEF Clean, T
    <3>2. rows'[k] = <<Row0>> \/ (rows'[k] = <<>> /\ (ctxDone' \/ faulted'))
      BY <1>4, <2>1, <3>1 DEF TypeOK
    <3>3. QED
      BY <1>2, <2>1, <3>1, <3>2 DEF Begins
  <2>2. CASE k # sms /\ k \in others
    <3>1. task'[k].st = "spawned"
      BY <1>4, <2>2 DEF T
    <3>2. rows'[k] = rows[k]
      BY <1>4, <2>2 DEF TypeOK
    <3>3. QED
      BY <1>2, <2>2, <3>1, <3>2 DEF Begins, Clean
  <2>3. CASE k # sms /\ k \notin others
    BY <1>4, <2>3 DEF TypeOK, Untouched
  <2>4. QED
    BY <2>1, <2>2, <2>3
<1>5. \/ (Spawn(others) \/ Spawn(others \cup {sms})) /\ rows' = rows
      \/ /\ task' = [k \in Key |-> IF k = sms THEN T("done", 0, "unset")
                        ELSE IF k \in others THEN T("spawned", 0, "unset") ELSE task[k]]
         /\ \/ rows' = [rows EXCEPT ![sms] = Append(@, Row0)]
            \/ rows' = rows /\ (ctxDone' \/ faulted')
  BY DEF ExpandMember, DbError
<1>6. QED
  BY <1>1, <1>3, <1>4, <1>5

LEMMA DestinationsFrame ==
  ASSUME TypeOK, OwnerInv, NEW w \in Worker, SpawnDestinations(w)
  PROVE  \A k \in Key : Untouched(k) \/ (Begins(k) /\ k.n = job[w])
<1> DEFINE ds == request[job[w]].dests
           K == {[n |-> job[w], src |-> "dest", i |-> j, who |-> ds[j].who, ch |-> ds[j].ch]
                   : j \in 1..Len(ds)}
<1>1. Spawn(K) /\ rows' = rows /\ pc[w] = "expand"
  BY DEF SpawnDestinations, dbVars
<1> SUFFICES ASSUME NEW k \in Key PROVE Untouched(k) \/ (Begins(k) /\ k.n = job[w])
  OBVIOUS
<1>2. CASE k \in K
  <2>1. k.n = job[w] /\ k.src = "dest"
    BY <1>2
  <2>2. Clean(k)
    BY <1>1, <2>1 DEF OwnerInv, ExpandInv
  <2>3. task'[k].st = "spawned"
    BY <1>1, <1>2 DEF Spawn, T
  <2>4. QED
    BY <1>1, <2>1, <2>2, <2>3 DEF Begins, Clean
<1>3. CASE k \notin K
  BY <1>1, <1>3 DEF Spawn, Untouched
<1>4. QED
  BY <1>2, <1>3

\* A worker that goes on with its job remains its only owner.
LEMMA NextPhase ==
  ASSUME TypeOK, OwnerInv, NEW w \in Worker, NEW p, pc' = [pc EXCEPT ![w] = p], Busy(w),
         p \in {"mark", "expand", "wait", "count"}, p = "mark" => pc[w] = "load",
         UNCHANGED <<request, pub, queue, job>>
  PROVE  /\ RequestInv' /\ OneOwner'
         /\ pub[job[w]] = "enqueued"
         /\ \A n \in Notif : Unbegun(n)' => Unbegun(n) /\ (n = job[w] => p = "mark")
         /\ \A n \in Notif : n # job[w] => (Owned(n)' <=> Owned(n))
<1>1. /\ pub[job[w]] = "enqueued" /\ ~Queued(job[w])
      /\ \A v \in Worker : Busy(v) /\ v # w => job[v] # job[w]
  BY DEF OwnerInv, OneOwner
<1>2. /\ pc'[w] = p
      /\ \A v \in Worker : v # w => pc'[v] = pc[v]
  BY DEF TypeOK
<1>3. \A v \in Worker : Busy(v)' <=> Busy(v)
  BY <1>2 DEF Busy
<1>4. RequestInv' /\ OneOwner'
  BY <1>3 DEF OwnerInv, RequestInv, OneOwner, Queued
<1>5. \A n \in Notif : Unbegun(n)' => Unbegun(n) /\ (n = job[w] => p = "mark")
  BY <1>1, <1>2 DEF Unbegun, Queued, Busy
<1>6. \A n \in Notif : n # job[w] => (Owned(n)' <=> Owned(n))
  BY <1>2 DEF Owned
<1>7. QED
  BY <1>1, <1>4, <1>5, <1>6

\* A worker that returns from processJob.
LEMMA EndPhase ==
  ASSUME TypeOK, OwnerInv, NEW w \in Worker, EndJob(w), pc[w] \in {"load", "count"},
         UNCHANGED <<request, status, pub, queue, todo, task, rows, accepted>>
  PROVE  OwnerInv'
<1>1. /\ pc'[w] = "idle" /\ gi'[w] = 0
      /\ \A v \in Worker : v # w => pc'[v] = pc[v] /\ job'[v] = job[v] /\ gi'[v] = gi[v]
  BY DEF TypeOK, EndJob
<1>2. /\ \A n \in Notif : Unbegun(n)' => Unbegun(n)
      /\ \A n \in Notif : Owned(n)' <=> Owned(n)
      /\ \A v \in Worker : Busy(v)' => Busy(v) /\ v # w
  BY <1>1 DEF Unbegun, Queued, Owned, Busy
<1>3. RequestInv'
  BY DEF OwnerInv, RequestInv
<1>4. OneOwner'
  BY <1>1, <1>2 DEF OwnerInv, OneOwner, Queued
<1>5. StatusInv'
  BY <1>2 DEF OwnerInv, StatusInv
<1>6. UnbegunClean' /\ ActiveOwned'
  BY <1>2 DEF OwnerInv, UnbegunClean, ActiveOwned, Clean, Finished, Key
<1>7. ExpandInv'
  BY <1>1 DEF OwnerInv, ExpandInv, Clean
<1>8. QED
  BY <1>3, <1>4, <1>5, <1>6, <1>7 DEF OwnerInv

LEMMA TakeInv ==
  ASSUME TypeOK, OwnerInv, NEW w \in Worker, Take(w)
  PROVE  OwnerInv'
<1> DEFINE n == Head(queue)
<1>1. /\ n \in Notif /\ queue[1] = n /\ 1 \in DOMAIN queue
      /\ \A i \in DOMAIN Tail(queue) : i + 1 \in DOMAIN queue /\ Tail(queue)[i] = queue[i + 1] /\ i + 1 # 1
      /\ \A i, j \in DOMAIN Tail(queue) : i + 1 = j + 1 => i = j
  BY DEF TypeOK, Take
<1>2. /\ pc[w] = "idle" /\ queue' = Tail(queue)
      /\ pc'[w] = "load" /\ job'[w] = n
      /\ \A v \in Worker : v # w => pc'[v] = pc[v] /\ job'[v] = job[v]
      /\ UNCHANGED <<dbVars, pub, gi, todo, task, accepted>>
  BY DEF TypeOK, Take
<1> HIDE DEF n
<1>3. pub[n] = "enqueued" /\ \A v \in Worker : Busy(v) => job[v] # n
  BY <1>1 DEF OwnerInv, OneOwner, Queued
<1>4. /\ \A x \in Notif : Queued(x)' => Queued(x) /\ x # n
      /\ \A i, j \in DOMAIN queue' : queue'[i] = queue'[j] => i = j
      /\ \A i \in DOMAIN queue' : pub[queue'[i]] = "enqueued"
  BY <1>1, <1>2 DEF OwnerInv, OneOwner, Queued
<1>5. \A x \in Notif : (Unbegun(x)' => Unbegun(x)) /\ (Owned(x)' <=> Owned(x))
  BY <1>1, <1>2, <1>4 DEF Unbegun, Owned, Queued
<1>6. OneOwner'
  <2>1. \A v \in Worker : v # w => (Busy(v)' <=> Busy(v))
    BY <1>2 DEF Busy
  <2>2. \A v \in Worker : job'[v] \in Notif
    BY <1>1, <1>2 DEF TypeOK
  <2>3. (\A v \in Worker : Busy(v) => pub[job[v]] = "enqueued" /\ ~Queued(job[v]))'
    BY <1>2, <1>3, <1>4, <2>1, <2>2 DEF OwnerInv, OneOwner
  <2>4. (\A u, v \in Worker : Busy(u) /\ Busy(v) /\ job[u] = job[v] => u = v)'
    BY <1>2, <1>3, <2>1 DEF OwnerInv, OneOwner
  <2>5. QED
    BY <1>2, <1>4, <2>3, <2>4 DEF OneOwner
<1>7. RequestInv' /\ StatusInv' /\ UnbegunClean' /\ ActiveOwned'
  BY <1>2, <1>5 DEF OwnerInv, RequestInv, StatusInv, UnbegunClean, ActiveOwned, Clean, Finished,
     Key, dbVars
<1>8. ExpandInv'
  BY <1>2 DEF OwnerInv, ExpandInv, Clean, dbVars
<1>9. QED
  BY <1>6, <1>7, <1>8 DEF OwnerInv

\* The owner's bookkeeping over the steps that move a job on.
LEMMA MarkInv ==
  ASSUME TypeOK, OwnerInv, NEW w \in Worker, Mark(w)
  PROVE  OwnerInv'
<1>1. /\ pc[w] = "mark" /\ pc' = [pc EXCEPT ![w] = "expand"]
      /\ status'[job[w]] \in {"processing", status[job[w]]}
      /\ \A n \in Notif : n # job[w] => status'[n] = status[n]
      /\ UNCHANGED <<request, pub, queue, job, gi, todo, task, rows, accepted>>
  BY DEF TypeOK, Mark, SetStatus
<1>2. Busy(w)
  BY <1>1 DEF Busy
<1>3. /\ RequestInv' /\ OneOwner' /\ pub[job[w]] = "enqueued"
      /\ \A n \in Notif : Unbegun(n)' => Unbegun(n) /\ n # job[w]
      /\ \A n \in Notif : n # job[w] => (Owned(n)' <=> Owned(n))
  <2>1. pc' = [pc EXCEPT ![w] = "expand"] /\ UNCHANGED <<request, pub, queue, job>>
    BY <1>1
  <2>2. "expand" \in {"mark", "expand", "wait", "count"} /\ "expand" # "mark"
    OBVIOUS
  <2>3. QED
    BY <1>2, <2>1, <2>2, NextPhase
<1>4. Unbegun(job[w]) /\ job[w] \in Notif
  BY <1>1 DEF TypeOK, Unbegun
<1>5. StatusInv'
  BY <1>1, <1>3, <1>4 DEF OwnerInv, StatusInv
<1>6. UnbegunClean'
  BY <1>1, <1>3 DEF OwnerInv, UnbegunClean, Clean, Key
<1>7. ActiveOwned'
  <2>1. \A n \in Notif : Owned(n) => Owned(n)'
    BY <1>1 DEF TypeOK, Owned
  <2>2. QED
    BY <1>1, <2>1 DEF OwnerInv, ActiveOwned, Finished, Key
<1>8. ExpandInv'
  <2>1. \A v \in Worker : v # w => pc'[v] = pc[v]
    BY <1>1 DEF TypeOK
  <2>2. gi[w] = 0 /\ pc'[w] = "expand" /\ Len(request[job[w]].groups) \in Nat
    BY <1>1 DEF TypeOK, OwnerInv, ExpandInv, Request
  <2>3. \A k \in Key : k.n = job[w] => Clean(k)
    BY <1>4 DEF OwnerInv, UnbegunClean
  <2>4. QED
    BY <1>1, <2>1, <2>2, <2>3 DEF OwnerInv, ExpandInv, Clean
<1>9. QED
  BY <1>3, <1>5, <1>6, <1>7, <1>8 DEF OwnerInv

LEMMA LoadInv ==
  ASSUME TypeOK, OwnerInv, NEW w \in Worker, Load(w)
  PROVE  OwnerInv'
<1>1. CASE EndJob(w)
  BY <1>1, EndPhase DEF Load, dbVars
<1>2. CASE pc' = [pc EXCEPT ![w] = "mark"] /\ UNCHANGED <<job, gi, total>>
  <2>1. pc[w] = "load" /\ Busy(w) /\ UNCHANGED <<request, status, pub, queue, job, gi, todo, task, rows, accepted>>
    BY <1>2 DEF Load, Busy, dbVars
  <2>2. /\ RequestInv' /\ OneOwner'
        /\ \A n \in Notif : Unbegun(n)' => Unbegun(n)
    BY <1>2, <2>1, NextPhase
  <2>3. \A v \in Worker : v # w => pc'[v] = pc[v]
    BY <1>2 DEF TypeOK
  <2>4. pc'[w] = "mark"
    BY <1>2 DEF TypeOK
  <2>5. \A n \in Notif : Owned(n)' <=> Owned(n)
    BY <2>1, <2>3, <2>4 DEF Owned
  <2>6. StatusInv' /\ UnbegunClean' /\ ActiveOwned'
    BY <2>1, <2>2, <2>5 DEF OwnerInv, StatusInv, UnbegunClean, ActiveOwned, Clean, Finished, Key
  <2>7. ExpandInv'
    BY <2>1, <2>3, <2>4 DEF OwnerInv, ExpandInv, Clean
  <2>8. QED
    BY <2>2, <2>6, <2>7 DEF OwnerInv
<1>3. QED
  BY <1>1, <1>2 DEF Load

LEMMA ListInv ==
  ASSUME TypeOK, OwnerInv, NEW w \in Worker, ListMembers(w)
  PROVE  OwnerInv'
<1>1. /\ pc[w] = "expand" /\ todo[w] = {}
      /\ gi[w] \in Nat /\ gi'[w] = gi[w] + 1 /\ gi[w] < Len(request[job[w]].groups)
      /\ Len(request[job[w]].groups) \in Nat
      /\ \A v \in Worker : v # w => gi'[v] = gi[v] /\ todo'[v] = todo[v]
      /\ UNCHANGED <<request, status, pub, queue, pc, job, task, rows, accepted>>
  BY DEF TypeOK, Request, ListMembers, dbVars
<1>2. \A n \in Notif : (Unbegun(n)' <=> Unbegun(n)) /\ (Owned(n)' <=> Owned(n))
  BY <1>1 DEF Unbegun, Queued, Owned
<1>3. RequestInv' /\ OneOwner'
  BY <1>1 DEF OwnerInv, RequestInv, OneOwner, Busy, Queued
<1>4. StatusInv' /\ UnbegunClean' /\ ActiveOwned'
  BY <1>1, <1>2 DEF OwnerInv, StatusInv, UnbegunClean, ActiveOwned, Clean, Finished, Key
<1>5. ExpandInv'
  <2>1. \A k \in Key : k.n = job[w] /\ (k.src = "dest" \/ k.i > gi[w]) => Clean(k)
    BY <1>1 DEF OwnerInv, ExpandInv
  <2>2. \A k \in Key : k.i \in Nat /\ (k.i >= gi[w] + 1 => k.i > gi[w])
    BY <1>1, BoundsAssumption DEF Key, Slot
  <2>3. gi[w] + 1 <= Len(request[job[w]].groups) /\ gi[w] + 1 >= 1
    BY <1>1
  <2>4. \A k \in Key : k.n = job[w] /\ (k.src = "dest" \/ k.i > gi'[w] \/ k.i = gi'[w]) => Clean(k)
    BY <1>1, <2>1, <2>2
  <2>5. QED
    BY <1>1, <2>3, <2>4 DEF OwnerInv, ExpandInv, Clean
<1>6. QED
  BY <1>3, <1>4, <1>5 DEF OwnerInv

LEMMA ExpandMemberInv ==
  ASSUME DispatchInv, NEW w \in Worker, NEW m \in Member, ExpandMember(w, m)
  PROVE  OwnerInv' /\ RecordInv' /\ SemaphoreInv'
<1>0. TypeOK /\ OwnerInv /\ RecordInv /\ SemaphoreInv
  BY DEF DispatchInv
<1>1. /\ pc[w] = "expand" /\ m \in todo[w] /\ job[w] \in Notif
      /\ todo'[w] = todo[w] \ {m}
      /\ \A v \in Worker : v # w => todo'[v] = todo[v]
      /\ UNCHANGED <<request, status, pub, queue, pc, job, gi, sem, ctxDone, accepted>>
  BY <1>0 DEF TypeOK, ExpandMember
<1>2. /\ faulted => faulted'
      /\ \A k \in Key :
           \/ Untouched(k)
           \/ Begins(k) /\ k.n = job[w] /\ k.i = gi[w] /\ k.who = m /\ k.src = "group"
  BY <1>0, ExpandFrame
<1>3. RecordInv' /\ SemaphoreInv'
  BY <1>0, <1>1, <1>2, BeginsKeeps
<1>4. \A n \in Notif : (Unbegun(n)' <=> Unbegun(n)) /\ (Owned(n)' <=> Owned(n))
  BY <1>1 DEF Unbegun, Queued, Owned
<1>5. RequestInv' /\ OneOwner' /\ StatusInv'
  BY <1>0, <1>1, <1>4 DEF OwnerInv, RequestInv, OneOwner, StatusInv, Busy, Queued
<1>6. \A v \in Worker : Busy(v) /\ v # w => job[v] # job[w]
  BY <1>0, <1>1 DEF OwnerInv, OneOwner, Busy
<1>7. Owned(job[w]) /\ ~Unbegun(job[w])
  BY <1>0, <1>1, <1>6 DEF Owned, Unbegun, OwnerInv, OneOwner, Busy
<1>8. UnbegunClean'
  BY <1>0, <1>1, <1>2, <1>4, <1>7 DEF OwnerInv, UnbegunClean, Clean, Untouched, Key
<1>9. ActiveOwned'
  BY <1>0, <1>2, <1>4, <1>7 DEF OwnerInv, ActiveOwned, Finished, Untouched, Key
<1>10. ExpandInv'
  <2>1. ASSUME NEW v \in Worker, pc[v] = "expand", NEW k \in Key, k.n = job[v],
               k.src = "dest" \/ k.i > gi[v] \/ (k.i = gi[v] /\ k.who \in todo'[v])
        PROVE  Clean(k)'
    <3>1. Clean(k)
      BY <1>0, <1>1, <2>1 DEF OwnerInv, ExpandInv
    <3>2. Untouched(k)
      <4>1. CASE v = w
        <5>1. gi[w] \in Nat /\ k.i \in Nat
          BY <1>0, BoundsAssumption DEF TypeOK, Key, Slot
        <5>2. ~(k.i = gi[w] /\ k.who = m /\ k.src = "group")
          BY <1>1, <2>1, <4>1, <5>1
        <5>3. QED
          BY <1>2, <5>2
      <4>2. CASE v # w
        BY <1>2, <1>6, <2>1, <4>2 DEF Busy
      <4>3. QED
        BY <4>1, <4>2
    <3>3. QED
      BY <1>1, <3>1, <3>2 DEF Clean, Untouched
  <2>2. QED
    BY <1>0, <1>1, <2>1 DEF OwnerInv, ExpandInv
<1>11. QED
  BY <1>3, <1>5, <1>8, <1>9, <1>10 DEF OwnerInv

LEMMA DestinationsInv ==
  ASSUME DispatchInv, NEW w \in Worker, SpawnDestinations(w)
  PROVE  OwnerInv' /\ RecordInv' /\ SemaphoreInv'
<1>0. TypeOK /\ OwnerInv /\ RecordInv /\ SemaphoreInv
  BY DEF DispatchInv
<1>1. /\ pc[w] = "expand" /\ todo[w] = {} /\ job[w] \in Notif /\ pc' = [pc EXCEPT ![w] = "wait"]
      /\ UNCHANGED <<request, status, pub, queue, job, gi, todo, sem, ctxDone, faulted, accepted>>
  BY <1>0 DEF TypeOK, SpawnDestinations, dbVars
<1>2. \A k \in Key : Untouched(k) \/ (Begins(k) /\ k.n = job[w])
  BY <1>0, DestinationsFrame
<1>3. RecordInv' /\ SemaphoreInv'
  BY <1>0, <1>1, <1>2, BeginsKeeps
<1>4. Busy(w)
  BY <1>1 DEF Busy
<1>5. /\ RequestInv' /\ OneOwner'
      /\ \A n \in Notif : Unbegun(n)' => Unbegun(n) /\ n # job[w]
  <2>1. pc' = [pc EXCEPT ![w] = "wait"] /\ UNCHANGED <<request, pub, queue, job>>
    BY <1>1
  <2>2. "wait" \in {"mark", "expand", "wait", "count"} /\ "wait" # "mark"
    OBVIOUS
  <2>3. QED
    BY <1>0, <1>4, <2>1, <2>2, NextPhase
<1>6. /\ \A v \in Worker : v # w => pc'[v] = pc[v] /\ (Busy(v) => job[v] # job[w])
      /\ pc'[w] = "wait"
  BY <1>0, <1>1, <1>4 DEF TypeOK, OwnerInv, OneOwner
<1>7. \A n \in Notif : Owned(n)' <=> Owned(n)
  BY <1>1, <1>6 DEF Owned
<1>8. StatusInv'
  BY <1>0, <1>1, <1>5, <1>7 DEF OwnerInv, StatusInv
<1>9. UnbegunClean'
  BY <1>0, <1>1, <1>2, <1>5 DEF OwnerInv, UnbegunClean, Clean, Untouched, Key
<1>10. ActiveOwned'
  <2>1. Owned(job[w])
    BY <1>1 DEF Owned
  <2>2. QED
    BY <1>0, <1>2, <1>7, <2>1 DEF OwnerInv, ActiveOwned, Finished, Untouched, Key
<1>11. ExpandInv'
  <2>1. \A v \in Worker, k \in Key : pc[v] = "expand" /\ v # w /\ k.n = job[v] => Untouched(k)
    BY <1>2, <1>6 DEF Busy
  <2>2. QED
    BY <1>0, <1>1, <1>6, <2>1 DEF OwnerInv, ExpandInv, Clean, Untouched
<1>12. QED
  BY <1>3, <1>5, <1>8, <1>9, <1>10, <1>11 DEF OwnerInv

LEMMA FinishInv ==
  ASSUME TypeOK, OwnerInv, NEW w \in Worker, Finish(w)
  PROVE  OwnerInv'
<1>1. /\ pc[w] = "wait" /\ pc' = [pc EXCEPT ![w] = "count"]
      /\ \A k \in Key : k.n = job[w] => Finished(k)
      /\ \A n \in Notif : n # job[w] => status'[n] = status[n]
      /\ UNCHANGED <<request, pub, queue, job, gi, todo, task, rows, accepted>>
  BY DEF TypeOK, Finish, SetStatus
<1>2. Busy(w)
  BY <1>1 DEF Busy
<1>3. /\ RequestInv' /\ OneOwner' /\ pub[job[w]] = "enqueued"
      /\ \A n \in Notif : Unbegun(n)' => Unbegun(n) /\ n # job[w]
      /\ \A n \in Notif : n # job[w] => (Owned(n)' <=> Owned(n))
  <2>1. pc' = [pc EXCEPT ![w] = "count"] /\ UNCHANGED <<request, pub, queue, job>>
    BY <1>1
  <2>2. "count" \in {"mark", "expand", "wait", "count"} /\ "count" # "mark"
    OBVIOUS
  <2>3. QED
    BY <1>2, <2>1, <2>2, NextPhase
<1>4. /\ \A v \in Worker : v # w => pc'[v] = pc[v] /\ (Busy(v) => job[v] # job[w])
      /\ pc'[w] = "count"
  BY <1>1, <1>2 DEF TypeOK, OwnerInv, OneOwner
<1>5. ~Owned(job[w])'
  BY <1>1, <1>4 DEF Owned, Busy
<1>6. StatusInv'
  BY <1>1, <1>3, <1>5 DEF OwnerInv, StatusInv
<1>7. UnbegunClean'
  BY <1>1, <1>3 DEF OwnerInv, UnbegunClean, Clean, Key
<1>8. ActiveOwned'
  BY <1>1, <1>3 DEF OwnerInv, ActiveOwned, Finished, Key
<1>9. ExpandInv'
  BY <1>1, <1>4 DEF OwnerInv, ExpandInv, Clean
<1>10. QED
  BY <1>3, <1>6, <1>7, <1>8, <1>9 DEF OwnerInv

LEMMA StopInv ==
  ASSUME TypeOK, OwnerInv, NEW w \in Worker, Stop(w)
  PROVE  OwnerInv'
<1>1. /\ pc[w] = "idle" /\ pc'[w] = "stopped"
      /\ \A v \in Worker : v # w => pc'[v] = pc[v]
      /\ UNCHANGED <<dbVars, pub, queue, job, gi, todo, task, accepted>>
  BY DEF TypeOK, Stop
<1>2. /\ \A n \in Notif : (Unbegun(n)' <=> Unbegun(n)) /\ (Owned(n)' <=> Owned(n))
      /\ \A v \in Worker : Busy(v)' <=> Busy(v)
  BY <1>1 DEF Unbegun, Queued, Owned, Busy
<1>3. RequestInv' /\ OneOwner' /\ StatusInv' /\ UnbegunClean' /\ ActiveOwned'
  BY <1>1, <1>2 DEF OwnerInv, RequestInv, OneOwner, StatusInv, UnbegunClean, ActiveOwned, Clean,
     Finished, Queued, Key, dbVars
<1>4. ExpandInv'
  BY <1>1 DEF OwnerInv, ExpandInv, Clean, dbVars
<1>5. QED
  BY <1>3, <1>4 DEF OwnerInv

LEMMA WorkerInv ==
  ASSUME DispatchInv, NEW w \in Worker, WorkerStep(w)
  PROVE  OwnerInv' /\ RecordInv' /\ SemaphoreInv'
<1>0. TypeOK /\ OwnerInv /\ RecordInv /\ SemaphoreInv
  BY DEF DispatchInv
<1>1. CASE \E m \in Member : ExpandMember(w, m)
  BY <1>1, ExpandMemberInv
<1>2. CASE SpawnDestinations(w)
  BY <1>2, DestinationsInv
<1>3. CASE \/ Take(w) \/ Stop(w) \/ Load(w) \/ Mark(w) \/ ListMembers(w) \/ Finish(w)
           \/ CountMembers(w)
  <2>1. UNCHANGED <<task, rows, accepted, sem, ctxDone>>
    BY <1>3 DEF Take, Stop, Load, Mark, ListMembers, Finish, CountMembers, dbVars
  <2>2. faulted => faulted'
    BY <1>3 DEF Take, Stop, Load, Mark, ListMembers, Finish, CountMembers, SetStatus, DbOk, DbError
  <2>3. RecordInv' /\ SemaphoreInv'
    BY <1>0, <2>1, <2>2, QuietRecords, QuietSemaphore DEF Holders
  <2>4. OwnerInv'
    <3>1. CASE CountMembers(w)
      BY <1>0, <3>1, EndPhase DEF CountMembers
    <3>2. CASE Take(w) \/ Stop(w) \/ Load(w) \/ Mark(w) \/ ListMembers(w) \/ Finish(w)
      BY <1>0, <3>2, TakeInv, StopInv, LoadInv, MarkInv, ListInv, FinishInv
    <3>3. QED
      BY <1>3, <3>1, <3>2
  <2>5. QED
    BY <2>3, <2>4
<1>4. QED
  BY <1>1, <1>2, <1>3 DEF WorkerStep

(***************************************************************************)
(* The invariant and what follows from it.                                 *)
(***************************************************************************)

LEMMA InitInv == Init => DispatchInv
<1> SUFFICES ASSUME Init PROVE DispatchInv
  OBVIOUS
<1>1. TypeOK
  BY InitType
<1>2. OwnerInv
  <2>1. RequestInv /\ OneOwner /\ StatusInv
    BY BoundsAssumption DEF Init, NoRequest, RequestInv, OneOwner, StatusInv, Busy, Owned
  <2>2. UnbegunClean /\ ActiveOwned
    BY DEF Init, UnbegunClean, ActiveOwned, Clean, Finished, NoTask, T
  <2>3. ExpandInv
    BY DEF Init, ExpandInv
  <2>4. QED
    BY <2>1, <2>2, <2>3 DEF OwnerInv
<1>3. RecordInv
  BY DEF Init, RecordInv, TaskInv, RecordsTruthful, TaskOK, RowTruthful, Finished, NoTask, T
<1>4. SemaphoreInv
  <2>1. Holders = {}
    BY DEF Init, Holders, NoTask, T
  <2>2. QED
    BY <2>1, FS_EmptySet, BoundsAssumption DEF Init, SemaphoreInv, SemaphoreExact
<1>5. QED
  BY <1>1, <1>2, <1>3, <1>4 DEF DispatchInv

LEMMA NextInv == DispatchInv /\ [Next]_vars => DispatchInv'
<1> SUFFICES ASSUME DispatchInv, [Next]_vars PROVE DispatchInv'
  OBVIOUS
<1>1. TypeOK'
  BY StepType DEF DispatchInv
<1>2. OwnerInv' /\ RecordInv' /\ SemaphoreInv'
  <2>1. CASE Next
    BY <2>1, PublishInv, WorkerInv, DeliveryInv, EnvironmentInv DEF Next
  <2>2. CASE UNCHANGED vars
    BY <2>2 DEF vars, dbVars, envVars, jobVars, DispatchInv, OwnerInv, RequestInv, OneOwner,
       StatusInv, UnbegunClean, ExpandInv, ActiveOwned, Busy, Queued, Owned, Unbegun, Clean,
       Finished, RecordInv, TaskInv, RecordsTruthful, TaskOK, RowTruthful, MaxTries,
       SemaphoreInv, SemaphoreExact, Holders
  <2>3. QED
    BY <2>1, <2>2
<1>3. QED
  BY <1>1, <1>2 DEF DispatchInv

\* Whoever owns a notification, the history of its targets and the semaphore's
\* tokens stay consistent: the inductive invariant holds in every reachable state.
THEOREM Consistent == Spec => []DispatchInv
<1>1. QED
  BY InitInv, NextInv, PTL DEF Spec

\* Every variable keeps its type; the token counter never goes below zero.
THEOREM TypeCorrect == Spec => []TypeOK
<1>1. DispatchInv => TypeOK
  BY DEF DispatchInv
<1>2. QED
  BY <1>1, Consistent, PTL

\* The tokens taken from sem are exactly the goroutines between acquiring and
\* returning, and at most notify.delivery_concurrency deliveries run at once.
THEOREM SemaphoreIsExact == Spec => []SemaphoreExact
<1>1. DispatchInv => SemaphoreExact
  BY DEF DispatchInv, SemaphoreInv
<1>2. QED
  BY <1>1, Consistent, PTL

\* Every delivery row tells the truth about the provider: at most one row per
\* target, with an attempt count that bounds what was accepted.
THEOREM RowsAreTruthful == Spec => []RecordsTruthful
<1>1. DispatchInv => RecordsTruthful
  BY DEF DispatchInv, RecordInv
<1>2. QED
  BY <1>1, Consistent, PTL
=============================================================================
