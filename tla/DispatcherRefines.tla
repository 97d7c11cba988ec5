------------------------- MODULE DispatcherRefines --------------------------
(***************************************************************************)
(* What follows from the inductive invariant of DispatcherProofs:          *)
(*   - what no step of Dispatcher may do, and that dispatching implements  *)
(*     the life cycle of Lifecycle.tla: whoever writes a row or a status   *)
(*     owns the notification at that moment, and an owned one is open;     *)
(*   - that totalMembers and member_count cover the targets (CountInv).    *)
(***************************************************************************)
EXTENDS DispatcherProofs

\* Rows and acceptances change only for a notification that some worker owns.
LEMMA TouchedIsOwned ==
  ASSUME DispatchInv, Next, NEW k \in Key,
         rows'[k] # rows[k] \/ accepted'[k] # accepted[k]
  PROVE  Owned(k.n) /\ status' = status
<1>0. TypeOK /\ OwnerInv
  BY DEF DispatchInv
<1>1. CASE Publish \/ Environment
  BY <1>1 DEF Publish, PublishInsert, PublishEnqueue, Environment, Cancel, Restart, Subscribe,
     Unsubscribe, SyncGroup, dbVars
<1>2. ASSUME NEW w \in Worker, WorkerStep(w)
      PROVE  Owned(k.n) /\ status' = status
  <2>1. CASE \E m \in Member : ExpandMember(w, m)
    <3>1. PICK m \in Member : ExpandMember(w, m)
      BY <2>1
    <3>2. accepted' = accepted /\ status' = status /\ pc[w] = "expand"
      BY <3>1 DEF ExpandMember
    <3>3. k.n = job[w]
      BY <1>0, <3>1, <3>2, ExpandFrame DEF Untouched
    <3>4. QED
      BY <3>2, <3>3 DEF Owned
  <2>2. CASE ~\E m \in Member : ExpandMember(w, m)
    BY <1>2, <2>2 DEF WorkerStep, Take, Stop, Load, Mark, ListMembers, SpawnDestinations, Finish,
       CountMembers, dbVars
  <2>3. QED
    BY <2>1, <2>2
<1>3. ASSUME NEW x \in Key, DeliveryStep(x)
      PROVE  Owned(k.n) /\ status' = status
  <2>1. x = k /\ ~Finished(k) /\ status' = status
    BY <1>0, <1>3, DeliveryFrame
  <2>2. QED
    BY <1>0, <2>1 DEF OwnerInv, ActiveOwned
<1>4. QED
  BY <1>1, <1>2, <1>3 DEF Next

\* So they change only while the notification is open.
LEMMA TouchedIsOpen ==
  ASSUME DispatchInv, Next, NEW k \in Key,
         rows'[k] # rows[k] \/ accepted'[k] # accepted[k]
  PROVE  status[k.n] \in {"pending", "processing"} /\ status' = status
<1>1. k.n \in Notif
  BY DEF Key
<1>2. QED
  BY <1>1, TouchedIsOwned DEF DispatchInv, OwnerInv, StatusInv

\* Once a notification is completed or failed, no goroutine writes a row or
\* sends a message for it any more: wg.Wait comes before the final status.
THEOREM ClosedIsQuiet == Spec => NothingAfterClose
<1> DEFINE Quiet == \A k \in Key : status[k.n] \in Closed
                      => rows'[k] = rows[k] /\ accepted'[k] = accepted[k]
<1>1. DispatchInv /\ [Next]_vars => [Quiet]_vars
  <2> SUFFICES ASSUME DispatchInv, Next PROVE Quiet
    OBVIOUS
  <2> SUFFICES ASSUME NEW k \in Key, status[k.n] \in Closed
               PROVE  rows'[k] = rows[k] /\ accepted'[k] = accepted[k]
    OBVIOUS
  <2>1. QED
    BY TouchedIsOpen DEF Closed
<1>2. QED
  BY <1>1, Consistent, PTL DEF Spec, NothingAfterClose

\* The steps that write a status.
LEMMA StatusSteps ==
  ASSUME DispatchInv, Next, status' # status
  PROVE  /\ rows' = rows
         /\ \/ \E n \in Notif :
                 status[n] = "absent" /\ status' = [status EXCEPT ![n] = "pending"]
            \/ \E n \in Notif :
                 status[n] = "pending" /\ status' = [status EXCEPT ![n] = "processing"]
            \/ \E w \in Worker, s \in Closed :
                 /\ Finish(w) /\ ~ctxDone /\ faulted' = faulted
                 /\ status[job[w]] \in {"pending", "processing"}
                 /\ status' = [status EXCEPT ![job[w]] = s]
<1>0. TypeOK /\ OwnerInv
  BY DEF DispatchInv
<1>1. CASE Publish
  <2>1. PICK n \in Notif, r \in Requests : PublishInsert(n, r)
    BY <1>1 DEF Publish, PublishEnqueue, dbVars
  <2>2. status[n] = "absent"
    BY <1>0, <2>1 DEF OwnerInv, StatusInv, PublishInsert
  <2>3. QED
    BY <2>1, <2>2 DEF PublishInsert
<1>2. ASSUME NEW w \in Worker, Mark(w)
      PROVE  /\ rows' = rows
             /\ \E n \in Notif : status[n] = "pending" /\ status' = [status EXCEPT ![n] = "processing"]
  <2>1. job[w] \in Notif /\ pc[w] = "mark"
    BY <1>0, <1>2 DEF TypeOK, Mark
  <2>2. pub[job[w]] = "enqueued" /\ Unbegun(job[w])
    BY <1>0, <2>1 DEF OwnerInv, OneOwner, Busy, Unbegun
  <2>3. status[job[w]] = "pending"
    BY <1>0, <2>1, <2>2 DEF OwnerInv, StatusInv
  <2>4. QED
    BY <1>2, <2>1, <2>3 DEF Mark, SetStatus
<1>3. ASSUME NEW w \in Worker, Finish(w)
      PROVE  /\ rows' = rows
             /\ \E s \in Closed :
                 /\ Finish(w) /\ ~ctxDone /\ faulted' = faulted
                 /\ status[job[w]] \in {"pending", "processing"}
                 /\ status' = [status EXCEPT ![job[w]] = s]
  <2>1. job[w] \in Notif /\ Owned(job[w])
    BY <1>0, <1>3 DEF TypeOK, Finish, Owned
  <2>2. status[job[w]] \in {"pending", "processing"}
    BY <1>0, <2>1 DEF OwnerInv, StatusInv
  <2>3. (IF TotalTargets(w) = 0 THEN "failed" ELSE "completed") \in Closed
    BY DEF Closed
  <2>4. QED
    BY <1>3, <2>2, <2>3 DEF Finish, SetStatus, DbOk
<1>4. ASSUME NEW w \in Worker, WorkerStep(w) PROVE Mark(w) \/ Finish(w)
  BY <1>4 DEF WorkerStep, Take, Stop, Load, ListMembers, ExpandMember, SpawnDestinations,
     CountMembers, dbVars
<1>5. ~Environment /\ ~\E k \in Key : DeliveryStep(k)
  BY <1>0, DeliveryFrame DEF Environment, Cancel, Restart, Subscribe, Unsubscribe, SyncGroup, dbVars
<1>6. QED
  BY <1>1, <1>2, <1>3, <1>4, <1>5 DEF Next

\* A notification becomes completed only when every target it was expanded to,
\* on a channel that has a provider, has its one record, database errors excepted.
THEOREM CompletionIsRecorded == Spec => CompletedIsRecorded
<1> DEFINE HasRow ==
      \A k \in Key :
        (status[k.n] # "completed" /\ status'[k.n] = "completed" /\ ~faulted)
          => (task[k].st # "none" /\ k.ch \in Providers => Len(rows[k]) = 1)
<1>1. DispatchInv /\ [Next]_vars => [HasRow]_vars
  <2> SUFFICES ASSUME DispatchInv, Next, NEW k \in Key,
                      status[k.n] # "completed", status'[k.n] = "completed", ~faulted,
                      task[k].st # "none", k.ch \in Providers
               PROVE  Len(rows[k]) = 1
    OBVIOUS
  <2>1. TypeOK /\ TaskOK(k) /\ RowTruthful(k) /\ k.n \in Notif
    BY DEF DispatchInv, RecordInv, TaskInv, RecordsTruthful, Key
  <2>2. PICK w \in Worker : Finish(w) /\ ~ctxDone /\ k.n = job[w]
    BY <2>1, StatusSteps DEF TypeOK
  <2>3. task[k].st = "done"
    BY <2>2 DEF Finish, Finished
  <2>4. rows[k] # <<>>
    BY <2>1, <2>2, <2>3 DEF TaskOK
  <2>5. QED
    BY <2>1, <2>4 DEF RowTruthful
<1>2. QED
  BY <1>1, Consistent, PTL DEF Spec, CompletedIsRecorded

\* The steps that write a row: one target, its first row.
LEMMA RowSteps ==
  ASSUME DispatchInv, Next, rows' # rows
  PROVE  \E k \in Key, r \in Row :
           /\ rows[k] = <<>>
           /\ rows' = [rows EXCEPT ![k] = <<r>>]
<1>0. TypeOK /\ TypeOK'
  BY StepType DEF DispatchInv
<1>1. ASSUME NEW k \in Key, NEW r \in Row, rows[k] = <<>>, rows' = [rows EXCEPT ![k] = Append(@, r)]
      PROVE  rows' = [rows EXCEPT ![k] = <<r>>]
  <2>1. Append(rows[k], r) = <<r>>
    BY <1>1
  <2>2. QED
    BY <1>1, <2>1
<1>2. CASE \E k \in Key : DeliveryStep(k)
  <2>1. PICK k \in Key : DeliveryStep(k)
    BY <1>2
  <2>2. rows[k] = <<>>
    BY <2>1, <1>0, DeliveryFrame DEF DispatchInv, RecordInv, TaskInv, TaskOK
  <2>3. \E r \in Row : rows' = [rows EXCEPT ![k] = Append(@, r)]
    <3>1. CASE WithholdDestination(k)
      BY <3>1 DEF WithholdDestination, Row
    <3>2. CASE RecordDelivery(k)
      <4>1. [status |-> task[k].res, attempt |-> task[k].tries] \in Row
        BY <1>0, TaskType DEF TypeOK, Row
      <4>2. QED
        BY <3>2, <4>1 DEF RecordDelivery
    <3>3. WithholdDestination(k) \/ RecordDelivery(k)
      BY <2>1 DEF DeliveryStep, Acquire, SkipDestination, StartDestination, PrepareEmail, Send,
         Resend, Abandon, dbVars
    <3>4. QED
      BY <3>1, <3>2, <3>3
  <2>4. QED
    BY <1>1, <2>2, <2>3
<1>3. CASE \E w \in Worker, m \in Member : ExpandMember(w, m)
  <2>1. PICK w \in Worker, m \in Member : ExpandMember(w, m)
    BY <1>3
  <2> DEFINE sms == GroupKey(w, m, "sms")
             Row0 == [status |-> "not_subscribed", attempt |-> 0]
  <2>2. rows' = [rows EXCEPT ![sms] = Append(@, Row0)] /\ Row0 \in Row
    BY <2>1 DEF ExpandMember, Row
  <2> HIDE DEF sms, Row0
  <2>3. sms \in Key /\ rows'[sms] # rows[sms]
    BY <1>0, <2>2 DEF TypeOK
  <2>4. rows[sms] = <<>>
    BY <1>0, <2>1, <2>3, ExpandFrame DEF DispatchInv, Untouched, Begins, Clean
  <2>5. QED
    BY <1>1, <2>2, <2>3, <2>4
<1>4. QED
  <2>1. ~Publish /\ ~Environment
    BY DEF Publish, PublishInsert, PublishEnqueue, Environment, Cancel, Restart, Subscribe,
       Unsubscribe, SyncGroup, dbVars
  <2>2. ASSUME NEW w \in Worker, WorkerStep(w) PROVE \E m \in Member : ExpandMember(w, m)
    BY <2>2 DEF WorkerStep, Take, Stop, Load, Mark, ListMembers, SpawnDestinations, Finish,
       CountMembers, dbVars
  <2>3. QED
    BY <1>2, <1>3, <2>1, <2>2 DEF Next

\* Whatever the queue, the workers, the retries, errors and restarts do, a caller
\* who reads statuses and rows sees the life cycle of Lifecycle.tla and no more.
THEOREM LifecycleIsImplemented == Spec => ImplementsLifecycle
<1>1. Init => Life!LInit
  BY DEF Init, Life!LInit
<1>2. DispatchInv /\ [Next]_vars => [Life!LNext]_<<status, rows>>
  <2> SUFFICES ASSUME DispatchInv, Next, status' # status \/ rows' # rows
               PROVE  Life!LNext
    BY DEF vars, dbVars
  <2>1. CASE status' # status
    <3>1. CASE \E n \in Notif : status[n] = "absent" /\ status' = [status EXCEPT ![n] = "pending"]
      BY <2>1, <3>1, StatusSteps DEF Life!LNext, Life!Appear
    <3>2. CASE \E n \in Notif : status[n] = "pending" /\ status' = [status EXCEPT ![n] = "processing"]
      BY <2>1, <3>2, StatusSteps DEF Life!LNext, Life!Begin
    <3>3. CASE \E w \in Worker, s \in Closed :
                 /\ status[job[w]] \in {"pending", "processing"}
                 /\ status' = [status EXCEPT ![job[w]] = s]
      <4>1. \A w \in Worker : job[w] \in Notif
        BY DEF DispatchInv, TypeOK
      <4>2. QED
        BY <2>1, <3>3, <4>1, StatusSteps DEF Life!LNext, Life!Close, Life!Open, Life!Closed, Closed
    <3>4. QED
      BY <2>1, <3>1, <3>2, <3>3, StatusSteps
  <2>2. CASE status' = status /\ rows' # rows
    <3>1. PICK k \in Key, r \in Row : rows[k] = <<>> /\ rows' = [rows EXCEPT ![k] = <<r>>]
      BY <2>2, RowSteps
    <3>2. rows'[k] = <<r>> /\ rows'[k] # rows[k]
      BY <3>1 DEF DispatchInv, TypeOK
    <3>3. status[k.n] \in {"pending", "processing"}
      BY <3>2, TouchedIsOpen
    <3>4. Len(rows'[k]) = 1 /\ rows'[k][1] \in Row /\ rows' = [rows EXCEPT ![k] = rows'[k]]
      <4>1. Len(<<r>>) = 1 /\ <<r>>[1] = r
        OBVIOUS
      <4>2. QED
        BY <3>1, <3>2, <4>1, Zenon
    <3>5. QED
      BY <2>2, <3>1, <3>3, <3>4 DEF Life!LNext, Life!Record, Life!Open
  <2>3. QED
    BY <2>1, <2>2
<1>3. QED
  BY <1>1, <1>2, Consistent, PTL DEF Spec, ImplementsLifecycle, Life!LSpec, Life!lvars
(***************************************************************************)
(* Counting: totalMembers and member_count cover the targets.              *)
(***************************************************************************)

\* The targets of a notification are finitely many.
LEMMA TargetsFinite ==
  ASSUME NEW K \in SUBSET Key
  PROVE  IsFiniteSet(Targets(K)) /\ Cardinality(Targets(K)) \in Nat
<1> DEFINE Pairs == {"group", "dest"} \X Slot
           Nested == Pairs \X Member
           flat == [p \in Nested |-> <<p[1][1], p[1][2], p[2]>>]
           All == {flat[p] : p \in Nested}
<1>1. IsFiniteSet(Nested)
  <2>1. IsFiniteSet({"group", "dest"})
    <3>1. IsFiniteSet({"group"} \cup {"dest"})
      BY FS_Singleton, FS_AddElement
    <3>2. {"group"} \cup {"dest"} = {"group", "dest"}
      OBVIOUS
    <3>3. QED
      BY <3>1, <3>2
  <2>2. IsFiniteSet(Slot)
    BY BoundsAssumption, FS_Interval DEF Slot
  <2>3. IsFiniteSet(Pairs)
    BY <2>1, <2>2, FS_Product
  <2>4. QED
    BY <2>3, SetsAssumption, FS_Product
<1>2. flat \in Surjection(Nested, All)
  BY DEF Surjection
<1>3. IsFiniteSet(All)
  BY <1>1, <1>2, FS_Surjection
<1>4. ASSUME NEW k \in K PROVE <<k.src, k.i, k.who>> \in All
  <2>1. k.src \in {"group", "dest"} /\ k.i \in Slot /\ k.who \in Member
    BY <1>4 DEF Key
  <2>2. <<<<k.src, k.i>>, k.who>> \in Nested
    BY <2>1
  <2>3. flat[<<<<k.src, k.i>>, k.who>>] = <<k.src, k.i, k.who>>
    BY <2>2
  <2>4. QED
    BY <2>2, <2>3
<1>5. Targets(K) \subseteq All
  BY <1>4 DEF Targets
<1>6. QED
  BY <1>3, <1>5, FS_Subset, FS_CardinalityType

LEMMA TouchedType ==
  ASSUME NEW n
  PROVE  /\ IsFiniteSet(Touched(n)) /\ Cardinality(Touched(n)) \in Nat
         /\ IsFiniteSet(Touched(n)') /\ Cardinality(Touched(n)') \in Nat
<1>1. /\ {k \in Key : k.n = n /\ ~Clean(k)} \in SUBSET Key
      /\ {k \in Key : k.n = n /\ ~Clean(k)'} \in SUBSET Key
  OBVIOUS
<1>2. Touched(n)' = Targets({k \in Key : k.n = n /\ ~Clean(k)'})
  BY DEF Touched, Targets
<1>3. QED
  BY <1>1, <1>2, TargetsFinite DEF Touched

\* A step that touches targets in X only adds at most as many.
LEMMA TouchedGrows ==
  ASSUME NEW n, NEW X, IsFiniteSet(X),
         \A k \in Key : k.n = n /\ Clean(k) /\ ~Clean(k)' => <<k.src, k.i, k.who>> \in X
  PROVE  Cardinality(Touched(n)') <= Cardinality(Touched(n)) + Cardinality(X)
<1>1. Touched(n)' \subseteq Touched(n) \cup X
  BY DEF Touched, Targets
<1>2. IsFiniteSet(Touched(n) \cup X) /\ IsFiniteSet(Touched(n) \cap X)
  BY TouchedType, FS_Union, FS_Subset, Touched(n) \cap X \in SUBSET X
<1>3. /\ Cardinality(Touched(n) \cup X)
           = Cardinality(Touched(n)) + Cardinality(X) - Cardinality(Touched(n) \cap X)
      /\ Cardinality(Touched(n)') <= Cardinality(Touched(n) \cup X)
  BY <1>1, <1>2, TouchedType, FS_Union, FS_Subset
<1>4. /\ Cardinality(X) \in Nat /\ Cardinality(Touched(n) \cap X) \in Nat
      /\ Cardinality(Touched(n)) \in Nat /\ Cardinality(Touched(n)') \in Nat
  BY <1>2, TouchedType, FS_CardinalityType
<1>5. QED
  BY <1>3, <1>4

LEMMA TouchedStays ==
  ASSUME NEW n, \A k \in Key : k.n = n /\ Clean(k) => Clean(k)'
  PROVE  Cardinality(Touched(n)') <= Cardinality(Touched(n))
<1>1. IsFiniteSet({}) /\ Cardinality({}) = 0
  BY FS_EmptySet
<1>2. Cardinality(Touched(n)') <= Cardinality(Touched(n)) + Cardinality({})
  BY <1>1, TouchedGrows
<1>3. QED
  BY <1>1, <1>2, TouchedType

\* A target with a record is one that was touched.
LEMMA RecordedIsTouched ==
  ASSUME NEW n
  PROVE  Cardinality(Recorded(n)) <= Cardinality(Touched(n))
<1>1. Recorded(n) \in SUBSET Touched(n)
  BY DEF Recorded, Touched, Targets, Clean
<1>2. QED
  BY <1>1, TouchedType, FS_Subset

\* What a worker owes after a step, for the job it has then.
LEMMA JobCounted ==
  ASSUME NEW w \in Worker, NEW n, job'[w] = n,
         pc'[w] = "expand" => Cardinality(Touched(n)') + Cardinality(todo'[w]) <= total'[w],
         pc'[w] \in {"wait", "count"} =>
           Cardinality(Touched(n)') <= total'[w] + Len(request'[n].dests)
  PROVE  JobCount(w)'
BY DEF JobCount, Touched, TotalTargets

\* A worker that moves on to its next step has counted what it touched.
LEMMA MemberCounted ==
  ASSUME DispatchInv, NEW w \in Worker, JobCount(w), NEW m \in Member, ExpandMember(w, m)
  PROVE  JobCount(w)'
<1>0. TypeOK /\ OwnerInv
  BY DEF DispatchInv
<1>1. /\ pc[w] = "expand" /\ m \in todo[w] /\ todo[w] \subseteq Member
      /\ todo'[w] = todo[w] \ {m}
      /\ UNCHANGED <<pc, job, total>>
  BY <1>0 DEF TypeOK, ExpandMember
<1>n. PICK n \in Notif : n = job[w]
  BY <1>0 DEF TypeOK
<1>2. Cardinality(Touched(n)') <= Cardinality(Touched(n)) + 1
  <2>0. PICK X : X = {<<"group", gi[w], m>>}
    OBVIOUS
  <2>1. IsFiniteSet(X) /\ Cardinality(X) = 1
    BY <2>0, FS_Singleton
  <2>2. ASSUME NEW k \in Key, Clean(k), ~Clean(k)' PROVE <<k.src, k.i, k.who>> \in X
    <3>1. ~Untouched(k)
      BY <2>2 DEF Clean, Untouched, ExpandMember
    <3>2. QED
      BY <1>0, <2>0, <3>1, ExpandFrame
  <2>3. QED
    BY <2>1, <2>2, TouchedGrows
<1>3. /\ Cardinality(todo[w]) \in Nat
      /\ Cardinality(todo'[w]) = Cardinality(todo[w]) - 1
  BY <1>1, SetsAssumption, FS_Subset, FS_RemoveElement, FS_CardinalityType
<1>4. Cardinality(Touched(n)) + Cardinality(todo[w]) <= total[w] /\ total[w] \in Nat
  BY <1>0, <1>1, <1>n DEF JobCount, TypeOK
<1>5. Cardinality(Touched(n)') + Cardinality(todo'[w]) <= total'[w]
  BY <1>1, <1>2, <1>3, <1>4, TouchedType
<1>6. QED
  BY <1>1, <1>n, <1>5, JobCounted

LEMMA DestinationsCounted ==
  ASSUME DispatchInv, NEW w \in Worker, JobCount(w), SpawnDestinations(w)
  PROVE  JobCount(w)'
<1>0. TypeOK /\ OwnerInv
  BY DEF DispatchInv
<1>n. PICK n \in Notif, ds \in Seq(Dest) : n = job[w] /\ ds = request[n].dests
  BY <1>0 DEF TypeOK, Request
<1> DEFINE slot == [j \in 1..Len(ds) |-> <<"dest", j, ds[j].who>>]
           X == {slot[j] : j \in 1..Len(ds)}
<1>1. /\ pc[w] = "expand" /\ pc'[w] = "wait" /\ todo[w] = {}
      /\ Len(ds) \in Nat /\ total[w] \in Nat
      /\ UNCHANGED <<request, rows, accepted, job, total>>
  BY <1>0 DEF TypeOK, SpawnDestinations, dbVars
<1>2. IsFiniteSet(X) /\ Cardinality(X) <= Len(ds)
  <2>1. IsFiniteSet(1..Len(ds)) /\ Cardinality(1..Len(ds)) = Len(ds)
    <3>1. PICK N \in Nat : N = Len(ds)
      BY <1>1
    <3>2. IsFiniteSet(1..N) /\ Cardinality(1..N) = IF 1 > N THEN 0 ELSE N - 1 + 1
      BY FS_Interval
    <3>3. QED
      BY <3>1, <3>2
  <2>2. slot \in Surjection(1..Len(ds), X)
    BY DEF Surjection
  <2> HIDE DEF slot, X
  <2>3. QED
    BY <2>1, <2>2, FS_Surjection
<1>3. ASSUME NEW k \in Key, Clean(k), ~Clean(k)' PROVE <<k.src, k.i, k.who>> \in X
  <2>1. task'[k] # task[k]
    BY <1>1, <1>3 DEF Clean
  <2>2. PICK j \in 1..Len(ds) :
          k = [n |-> n, src |-> "dest", i |-> j, who |-> ds[j].who, ch |-> ds[j].ch]
    BY <1>n, <2>1 DEF SpawnDestinations, Spawn
  <2>3. <<k.src, k.i, k.who>> = slot[j]
    BY <2>2
  <2>4. QED
    BY <2>3
<1> HIDE DEF X, slot
<1>4. Cardinality(Touched(n)') <= Cardinality(Touched(n)) + Cardinality(X)
  BY <1>2, <1>3, TouchedGrows
<1>5. Cardinality(Touched(n)) <= total[w]
  <2>1. Cardinality(todo[w]) = 0
    BY <1>1, FS_EmptySet
  <2>2. QED
    BY <1>n, <1>1, <2>1, TouchedType DEF JobCount
<1>6. Cardinality(Touched(n)') <= total'[w] + Len(request'[n].dests)
  BY <1>n, <1>1, <1>2, <1>4, <1>5, TouchedType, FS_CardinalityType
<1>7. QED
  BY <1>n, <1>1, <1>6, JobCounted

LEMMA GroupCounted ==
  ASSUME DispatchInv, NEW w \in Worker, JobCount(w), ListMembers(w)
  PROVE  JobCount(w)'
<1>0. TypeOK
  BY DEF DispatchInv
<1>n. PICK n \in Notif : n = job[w]
  BY <1>0 DEF TypeOK
<1>1. /\ pc[w] = "expand" /\ todo[w] = {} /\ total[w] \in Nat
      /\ UNCHANGED <<pc, job, task, rows, accepted>>
  BY <1>0 DEF TypeOK, ListMembers, dbVars
<1>2. Cardinality(Touched(n)') <= Cardinality(Touched(n))
  BY <1>1, TouchedStays DEF Clean
<1>3. Cardinality(Touched(n)) <= total[w]
  <2>1. Cardinality(todo[w]) = 0
    BY <1>1, FS_EmptySet
  <2>2. QED
    BY <1>n, <1>1, <2>1, TouchedType DEF JobCount
<1>4. \/ \E S \in SUBSET Member : todo'[w] = S /\ total'[w] = total[w] + Cardinality(S)
      \/ todo' = todo /\ total' = total
  <2>1. members[request[job[w]].groups[gi[w] + 1]] \in SUBSET Member
    <3>1. request[job[w]].groups \in Seq(Group) /\ gi[w] + 1 \in 1..Len(request[job[w]].groups)
      BY <1>0 DEF TypeOK, Request, ListMembers
    <3>2. QED
      BY <1>0, <3>1 DEF TypeOK
  <2>2. QED
    BY <1>0, <2>1 DEF TypeOK, ListMembers
<1>5. CASE \E S \in SUBSET Member : todo'[w] = S /\ total'[w] = total[w] + Cardinality(S)
  <2>1. PICK S \in SUBSET Member : todo'[w] = S /\ total'[w] = total[w] + Cardinality(S)
    BY <1>5
  <2>2. Cardinality(S) \in Nat
    BY SetsAssumption, FS_Subset, FS_CardinalityType
  <2>3. Cardinality(Touched(n)') + Cardinality(todo'[w]) <= total'[w]
    BY <1>1, <1>2, <1>3, <2>1, <2>2, TouchedType
  <2>4. QED
    BY <1>n, <1>1, <2>3, JobCounted
<1>6. CASE todo' = todo /\ total' = total
  <2>1. Cardinality(Touched(n)') + Cardinality(todo'[w]) <= total'[w]
    <3>1. todo'[w] = {} /\ total'[w] = total[w] /\ Cardinality({}) = 0
      BY <1>1, <1>6, FS_EmptySet
    <3>2. Cardinality(todo'[w]) = 0
      BY <3>1
    <3>3. QED
      BY <1>1, <1>2, <1>3, <3>1, <3>2, TouchedType
  <2>2. QED
    BY <1>n, <1>1, <2>1, JobCounted
<1>7. QED
  BY <1>4, <1>5, <1>6

\* A worker that just begins to expand has touched nothing.
LEMMA MarkCounted ==
  ASSUME DispatchInv, NEW w \in Worker, Mark(w)
  PROVE  JobCount(w)'
<1>0. TypeOK /\ OwnerInv
  BY DEF DispatchInv
<1>n. PICK n \in Notif : n = job[w]
  BY <1>0 DEF TypeOK
<1>1. /\ pc[w] = "mark" /\ pc'[w] = "expand" /\ total[w] \in Nat
      /\ UNCHANGED <<job, todo, total, task, rows, accepted>>
  BY <1>0 DEF TypeOK, Mark
<1>2. Unbegun(n)
  BY <1>n, <1>1 DEF Unbegun
<1>3. Touched(n)' = {}
  BY <1>0, <1>1, <1>2 DEF OwnerInv, UnbegunClean, Touched, Targets, Clean
<1>4. todo'[w] = {}
  BY <1>0, <1>1 DEF OwnerInv, ExpandInv
<1>5. Cardinality(Touched(n)') = 0 /\ Cardinality(todo'[w]) = 0
  BY <1>3, <1>4, FS_EmptySet
<1>6. QED
  BY <1>n, <1>1, <1>5, JobCounted

\* The other steps of a worker touch nothing.
LEMMA OwnStepCounted ==
  ASSUME DispatchInv, NEW w \in Worker, JobCount(w), WorkerStep(w)
  PROVE  JobCount(w)'
<1>0. TypeOK
  BY DEF DispatchInv
<1>1. CASE Finish(w)
  <2>n. PICK n \in Notif : n = job[w]
    BY <1>0 DEF TypeOK
  <2>1. /\ pc[w] = "wait" /\ pc'[w] = "count"
        /\ UNCHANGED <<request, job, total, task, rows, accepted>>
    BY <1>0, <1>1 DEF TypeOK, Finish
  <2>2. Cardinality(Touched(n)') <= Cardinality(Touched(n))
    BY <2>1, TouchedStays DEF Clean
  <2>3. Cardinality(Touched(n)) <= total[w] + Len(request[n].dests)
    BY <2>n, <2>1 DEF JobCount, TotalTargets
  <2>4. total[w] + Len(request[n].dests) \in Nat
    BY <1>0 DEF TypeOK, Request
  <2>5. Cardinality(Touched(n)') <= total'[w] + Len(request'[n].dests)
    BY <2>1, <2>2, <2>3, <2>4, TouchedType
  <2>6. QED
    BY <2>n, <2>1, <2>5, JobCounted
<1>2. CASE Take(w) \/ Stop(w) \/ Load(w) \/ CountMembers(w)
  <2>1. pc'[w] \in {"load", "stopped", "mark", "idle"}
    BY <1>0, <1>2 DEF TypeOK, Take, Stop, Load, CountMembers, EndJob
  <2>2. QED
    BY <2>1 DEF JobCount
<1>3. QED
  BY <1>1, <1>2, MarkCounted, GroupCounted, MemberCounted, DestinationsCounted DEF WorkerStep

\* A step of somebody else leaves a worker's count as it is.
LEMMA OthersKeepCount ==
  ASSUME TypeOK, NEW w \in Worker, JobCount(w),
         pc'[w] = pc[w], job'[w] = job[w], todo'[w] = todo[w], total'[w] = total[w],
         Busy(w) => request'[job[w]] = request[job[w]],
         Busy(w) => \A k \in Key : k.n = job[w] /\ Clean(k) => Clean(k)'
  PROVE  JobCount(w)'
<1>n. PICK n \in Notif : n = job[w]
  BY DEF TypeOK
<1>1. CASE pc[w] \in {"expand", "wait", "count"}
  <2>1. Busy(w)
    BY <1>1 DEF Busy
  <2>2. Cardinality(Touched(n)') <= Cardinality(Touched(n))
    BY <1>n, <2>1, TouchedStays
  <2>3. request'[n] = request[n] /\ Len(request[n].dests) \in Nat /\ total[w] \in Nat
    BY <1>n, <2>1 DEF TypeOK, Request
  <2>4. CASE pc[w] = "expand"
    <3>1. Cardinality(Touched(n)) + Cardinality(todo[w]) <= total[w]
      BY <1>n, <2>4 DEF JobCount
    <3>2. Cardinality(todo[w]) \in Nat
      BY SetsAssumption, FS_Subset, FS_CardinalityType DEF TypeOK
    <3>3. Cardinality(Touched(n)') + Cardinality(todo'[w]) <= total'[w]
      BY <2>2, <2>3, <3>1, <3>2, TouchedType
    <3>4. QED
      BY <1>n, <2>4, <3>3, JobCounted
  <2>5. CASE pc[w] \in {"wait", "count"}
    <3>1. Cardinality(Touched(n)) <= total[w] + Len(request[n].dests)
      BY <1>n, <2>5 DEF JobCount, TotalTargets
    <3>2. Cardinality(Touched(n)') <= total'[w] + Len(request'[n].dests)
      BY <2>2, <2>3, <3>1, TouchedType
    <3>3. QED
      BY <1>n, <2>5, <3>2, JobCounted
  <2>6. QED
    BY <1>1, <2>4, <2>5
<1>2. CASE pc[w] \notin {"expand", "wait", "count"}
  BY <1>2 DEF JobCount
<1>3. QED
  BY <1>1, <1>2

LEMMA JobCountsKept ==
  ASSUME DispatchInv, Next, NEW w \in Worker, JobCount(w)
  PROVE  JobCount(w)'
<1>0. TypeOK /\ OwnerInv
  BY DEF DispatchInv
<1>1. CASE Publish
  <2>1. /\ UNCHANGED <<jobVars, task, rows, accepted>>
        /\ \A n \in Notif : request'[n] # request[n] => pub[n] = "none"
    BY <1>0, <1>1 DEF TypeOK, Publish, PublishInsert, PublishEnqueue, dbVars
  <2>2. Busy(w) => pub[job[w]] = "enqueued" /\ job[w] \in Notif
    BY <1>0 DEF TypeOK, OwnerInv, OneOwner
  <2>3. QED
    BY <1>0, <2>1, <2>2, OthersKeepCount DEF jobVars, Clean
<1>2. CASE WorkerStep(w)
  BY <1>2, OwnStepCounted
<1>3. ASSUME NEW v \in Worker, v # w, WorkerStep(v) PROVE JobCount(w)'
  <2>1. /\ pc'[w] = pc[w] /\ job'[w] = job[w] /\ todo'[w] = todo[w] /\ total'[w] = total[w]
        /\ request' = request
    BY <1>0, <1>3 DEF TypeOK, WorkerStep, Take, Stop, Load, Mark, ListMembers, ExpandMember,
       SpawnDestinations, Finish, CountMembers, EndJob, dbVars
  <2>2. ASSUME Busy(w), NEW k \in Key, k.n = job[w], Clean(k) PROVE Clean(k)'
    <3>1. CASE \E m \in Member : ExpandMember(v, m)
      <4>1. job[v] # job[w] /\ accepted' = accepted
        BY <1>0, <1>3, <2>2, <3>1 DEF ExpandMember, OwnerInv, OneOwner, Busy
      <4>2. Untouched(k)
        BY <1>0, <2>2, <3>1, <4>1, ExpandFrame
      <4>3. QED
        BY <2>2, <4>1, <4>2 DEF Clean, Untouched
    <3>2. CASE SpawnDestinations(v)
      <4>1. job[v] # job[w] /\ accepted' = accepted
        BY <1>0, <1>3, <2>2, <3>2 DEF SpawnDestinations, OwnerInv, OneOwner, Busy
      <4>2. Untouched(k)
        BY <1>0, <2>2, <3>2, <4>1, DestinationsFrame
      <4>3. QED
        BY <2>2, <4>1, <4>2 DEF Clean, Untouched
    <3>3. CASE UNCHANGED <<task, rows, accepted>>
      BY <2>2, <3>3 DEF Clean
    <3>4. QED
      BY <1>3, <3>1, <3>2, <3>3 DEF WorkerStep, Take, Stop, Load, Mark, ListMembers, Finish,
         CountMembers, dbVars
  <2>3. QED
    BY <1>0, <2>1, <2>2, OthersKeepCount
<1>4. ASSUME NEW x \in Key, DeliveryStep(x) PROVE JobCount(w)'
  <2>1. /\ UNCHANGED <<request, jobVars>>
        /\ ~Finished(x)
        /\ \A k \in Key \ {x} : task'[k] = task[k] /\ rows'[k] = rows[k] /\ accepted'[k] = accepted[k]
    BY <1>0, <1>4, DeliveryFrame
  <2>2. \A k \in Key : Clean(k) => Clean(k)'
    BY <2>1 DEF Clean, Finished, NoTask, T
  <2>3. QED
    BY <1>0, <2>1, <2>2, OthersKeepCount DEF jobVars
<1>5. CASE Environment
  <2>1. CASE Restart
    BY <2>1 DEF Restart, JobCount
  <2>2. CASE UNCHANGED <<request, jobVars, task, rows, accepted>>
    BY <1>0, <2>2, OthersKeepCount DEF jobVars, Clean
  <2>3. QED
    BY <1>5, <2>1, <2>2 DEF Environment, Cancel, Subscribe, Unsubscribe, SyncGroup, dbVars
<1>6. QED
  BY <1>1, <1>2, <1>3, <1>4, <1>5 DEF Next

\* A job that was enqueued and is neither queued nor with a worker is over for good.
Over(n) ==
  /\ pub[n] = "enqueued" /\ ~Queued(n)
  /\ \A w \in Worker : Busy(w) => job[w] # n

LEMMA OverStays ==
  ASSUME DispatchInv, Next, NEW n \in Notif, Over(n)
  PROVE  Over(n)'
<1>0. TypeOK /\ OwnerInv
  BY DEF DispatchInv
<1>1. ASSUME NEW x \in Notif, PublishEnqueue(x) PROVE Over(n)'
  <2>1. /\ x # n /\ pub'[n] = pub[n] /\ UNCHANGED jobVars
        /\ queue' = queue \/ queue' = Append(queue, x)
    BY <1>0, <1>1 DEF TypeOK, Over, PublishEnqueue
  <2>2. Queued(n)' => Queued(n)
    <3>1. CASE queue' = queue
      BY <3>1 DEF Queued
    <3>2. CASE queue' = Append(queue, x)
      <4>1. /\ DOMAIN Append(queue, x) = 1..(Len(queue) + 1) /\ DOMAIN queue = 1..Len(queue)
            /\ Len(queue) \in Nat
            /\ \A i \in 1..Len(queue) : Append(queue, x)[i] = queue[i]
            /\ Append(queue, x)[Len(queue) + 1] = x
        BY <1>0 DEF TypeOK
      <4>2. QED
        BY <2>1, <3>2, <4>1 DEF Queued
    <3>3. QED
      BY <2>1, <3>1, <3>2
  <2>3. QED
    BY <2>1, <2>2 DEF Over, Busy, jobVars
<1>2. ASSUME NEW x \in Notif, NEW r \in Requests, PublishInsert(x, r) PROVE Over(n)'
  BY <1>0, <1>2 DEF TypeOK, Over, PublishInsert, Queued, Busy, jobVars
<1>3. ASSUME NEW w \in Worker, WorkerStep(w) PROVE Over(n)'
  <2>1. CASE Take(w)
    <3>1. /\ Head(queue) = queue[1] /\ 1 \in DOMAIN queue
          /\ \A i \in DOMAIN Tail(queue) : i + 1 \in DOMAIN queue /\ Tail(queue)[i] = queue[i + 1]
      BY <1>0, <2>1 DEF TypeOK, Take
    <3>2. /\ Head(queue) # n /\ (Queued(n)' => Queued(n))
      BY <2>1, <3>1 DEF Over, Queued, Take
    <3>3. /\ job'[w] # n /\ pub' = pub
          /\ \A v \in Worker : v # w => pc'[v] = pc[v] /\ job'[v] = job[v]
      BY <1>0, <2>1, <3>2 DEF TypeOK, Take
    <3>4. QED
      BY <3>2, <3>3 DEF Over, Busy
  <2>2. CASE ~Take(w)
    <3>1. /\ UNCHANGED <<pub, queue>>
          /\ \A v \in Worker : v # w => pc'[v] = pc[v] /\ job'[v] = job[v]
          /\ Busy(w)' => Busy(w) /\ job'[w] = job[w]
      BY <1>0, <1>3, <2>2 DEF TypeOK, WorkerStep, Stop, Load, Mark, ListMembers, ExpandMember,
         SpawnDestinations, Finish, CountMembers, EndJob, Busy
    <3>2. QED
      BY <3>1 DEF Over, Queued, Busy
  <2>3. QED
    BY <2>1, <2>2
<1>4. ASSUME NEW k \in Key, DeliveryStep(k) PROVE Over(n)'
  BY <1>0, <1>4, DeliveryFrame DEF Over, Queued, Busy, jobVars
<1>5. CASE Environment
  <2>1. CASE Restart
    <3>1. queue' = <<>> /\ pub'[n] = "enqueued" /\ \A w \in Worker : pc'[w] = "idle"
      BY <1>0, <2>1 DEF TypeOK, Restart, Over
    <3>2. ~Queued(n)' /\ \A w \in Worker : ~Busy(w)'
      BY <3>1 DEF Queued, Busy
    <3>3. QED
      BY <3>1, <3>2 DEF Over
  <2>2. CASE UNCHANGED <<pub, queue, jobVars>>
    BY <2>2 DEF Over, Queued, Busy, jobVars
  <2>3. QED
    BY <1>5, <2>1, <2>2 DEF Environment, Cancel, Subscribe, Unsubscribe, SyncGroup
<1>6. QED
  BY <1>1, <1>2, <1>3, <1>4, <1>5 DEF Next, Publish

\* Only the last step of a job stores a count.
LEMMA StoredCountKept ==
  ASSUME DispatchInv, Next, NEW n \in Notif, \A w \in Worker : JobCount(w), StoredCount(n)
  PROVE  StoredCount(n)'
<1>0. TypeOK /\ OwnerInv
  BY DEF DispatchInv
<1>1. CASE memberCount'[n] = memberCount[n]
  <2> SUFFICES ASSUME memberCount[n] # 0
               PROVE  Over(n)' /\ Cardinality(Recorded(n)') <= memberCount'[n]
    BY <1>1 DEF StoredCount, Over
  <2>1. Over(n) /\ Cardinality(Recorded(n)) <= memberCount[n]
    BY DEF StoredCount, Over
  <2>2. ~Owned(n)
    BY <2>1 DEF Over, Owned, Busy
  <2>3. \A k \in Key : k.n = n => rows'[k] = rows[k]
    BY <2>2, TouchedIsOwned
  <2>4. Recorded(n)' = Recorded(n)
    BY <2>3 DEF Recorded, Targets
  <2>5. QED
    BY <1>1, <2>1, <2>4, OverStays
<1>2. CASE memberCount'[n] # memberCount[n]
  <2>1. PICK w \in Worker : CountMembers(w) /\ n = job[w] /\ memberCount'[n] = TotalTargets(w)
    <3>1. ~Publish /\ ~Environment /\ ~\E k \in Key : DeliveryStep(k)
      BY <1>0, <1>2, DeliveryFrame DEF Publish, PublishInsert, PublishEnqueue, Environment, Cancel,
         Restart, Subscribe, Unsubscribe, SyncGroup, dbVars
    <3>2. PICK w \in Worker : WorkerStep(w)
      BY <3>1 DEF Next
    <3>3. CountMembers(w)
      BY <1>2, <3>2 DEF WorkerStep, Take, Stop, Load, Mark, ListMembers, ExpandMember,
         SpawnDestinations, Finish, dbVars
    <3>4. QED
      BY <1>0, <1>2, <3>3 DEF TypeOK, CountMembers
  <2>2. pc[w] = "count" /\ Busy(w)
    BY <2>1 DEF CountMembers, Busy
  <2>3. /\ pub[n] = "enqueued" /\ ~Queued(n)
        /\ \A v \in Worker : Busy(v) /\ v # w => job[v] # n
    BY <1>0, <2>1, <2>2 DEF OwnerInv, OneOwner
  <2>4. /\ UNCHANGED <<pub, queue, rows>> /\ ~Busy(w)'
        /\ \A v \in Worker : v # w => pc'[v] = pc[v] /\ job'[v] = job[v]
    BY <1>0, <2>1 DEF TypeOK, CountMembers, EndJob, Busy
  <2>5. Over(n)'
    BY <2>3, <2>4 DEF Over, Queued, Busy
  <2>6. Cardinality(Touched(n)) <= TotalTargets(w) /\ TotalTargets(w) \in Nat
    BY <1>0, <2>1, <2>2 DEF JobCount, TotalTargets, TypeOK, Request
  <2>7. Recorded(n)' = Recorded(n) /\ Cardinality(Recorded(n)) \in Nat
    <3>1. {k \in Key : k.n = n /\ rows[k] # <<>>} \in SUBSET Key
      OBVIOUS
    <3>2. QED
      BY <2>4, <3>1, TargetsFinite DEF Recorded, Targets
  <2>8. Cardinality(Recorded(n)') <= memberCount'[n]
    BY <2>1, <2>6, <2>7, RecordedIsTouched, TouchedType
  <2>9. QED
    BY <2>5, <2>8 DEF StoredCount, Over
<1>3. QED
  BY <1>1, <1>2

\* A notification is marked failed when nothing of it was touched.
LEMMA FailedKept ==
  ASSUME DispatchInv, Next, \A w \in Worker : JobCount(w), FailedSentNothing
  PROVE  FailedSentNothing'
<1>0. TypeOK /\ OwnerInv
  BY DEF DispatchInv
<1> SUFFICES ASSUME NEW k \in Key, status'[k.n] = "failed"
             PROVE  rows'[k] = <<>> /\ accepted'[k] = 0
  BY DEF FailedSentNothing
<1>n. k.n \in Notif
  BY DEF Key
<1>1. CASE status'[k.n] = status[k.n]
  BY <1>1, TouchedIsOpen DEF FailedSentNothing
<1>2. CASE status'[k.n] # status[k.n]
  <2>1. PICK w \in Worker : Finish(w) /\ k.n = job[w] /\ status'[k.n] # "completed"
    BY <1>0, <1>n, <1>2, StatusSteps DEF TypeOK
  <2>2. TotalTargets(w) = 0 /\ pc[w] = "wait" /\ UNCHANGED <<rows, accepted>>
    BY <1>0, <1>n, <1>2, <2>1 DEF TypeOK, Finish, SetStatus
  <2>3. Cardinality(Touched(k.n)) = 0
    BY <2>1, <2>2, TouchedType DEF JobCount
  <2>4. Touched(k.n) = {}
    BY <2>3, TouchedType, FS_EmptySet
  <2>5. Clean(k)
    BY <2>4 DEF Touched, Targets
  <2>6. QED
    BY <2>2, <2>5 DEF Clean
<1>3. QED
  BY <1>1, <1>2

\* However members join and leave groups, listings fail, workers stop and processes
\* restart in between, the counts cover what was touched.
THEOREM CountsConsistent == Spec => []CountInv
<1>1. Init => CountInv
  <2> SUFFICES ASSUME Init PROVE CountInv
    OBVIOUS
  <2>1. \A n \in Notif : memberCount[n] = 0 /\ status[n] = "absent"
    BY DEF Init
  <2>2. \A k \in Key : k.n \in Notif
    BY DEF Key
  <2>3. QED
    BY <2>1, <2>2 DEF Init, CountInv, JobCount, StoredCount, FailedSentNothing
<1>2. DispatchInv /\ CountInv /\ [Next]_vars => CountInv'
  <2> SUFFICES ASSUME DispatchInv, CountInv, [Next]_vars PROVE CountInv'
    OBVIOUS
  <2>1. CASE Next
    BY <2>1, JobCountsKept, StoredCountKept, FailedKept DEF CountInv
  <2>2. CASE UNCHANGED vars
    <3>1. CountInv /\ UNCHANGED vars
      BY <2>2
    <3>2. QED
      BY <3>1 DEF vars, dbVars, jobVars, CountInv, JobCount, StoredCount, FailedSentNothing,
         Touched, Recorded, Targets, Clean, TotalTargets, Queued, Busy
  <2>3. QED
    BY <2>1, <2>2
<1>3. QED
  BY <1>1, <1>2, Consistent, PTL DEF Spec

\* A notification marked failed has no record and nothing was sent for it.
\* (totalTargets == 0 in processJob)
THEOREM FailedIsEmpty == Spec => []FailedSentNothing
<1>1. CountInv => FailedSentNothing
  BY DEF CountInv
<1>2. QED
  BY <1>1, CountsConsistent, PTL

\* A stored member_count is at least the number of targets with a record.
\* (UpdateNotificationMemberCount, the last step of processJob)
THEOREM CountsCover == Spec => []CountCoversTargets
<1>1. CountInv => CountCoversTargets
  BY DEF CountInv, StoredCount, CountCoversTargets
<1>2. QED
  BY <1>1, CountsConsistent, PTL

=============================================================================
