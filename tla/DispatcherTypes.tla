--------------------------- MODULE DispatcherTypes ---------------------------
(***************************************************************************)
(* Lemmas about Dispatcher: typing first, then the delivery goroutines.    *)
(* The counter of the semaphore stays in Nat only because every goroutine  *)
(* that returns holds a token, so typing is proved relative to             *)
(* SemaphoreInv; DispatcherProofs closes the loop.                         *)
(***************************************************************************)
EXTENDS Dispatcher, FiniteSetTheorems, TLAPS

\* The record of a goroutine and its fields.
LEMMA TaskType ==
  /\ \A st \in TaskSt, tries \in Nat, res \in Result :
       /\ T(st, tries, res) \in Task
       /\ T(st, tries, res).st = st
       /\ T(st, tries, res).tries = tries
       /\ T(st, tries, res).res = res
  /\ \A t \in Task : t.st \in TaskSt /\ t.tries \in Nat /\ t.res \in Result
BY DEF T, Task

LEMMA LoopHeadType ==
  ASSUME NEW k \in Key
  PROVE  LoopHead(k) \in Task
BY TaskType DEF LoopHead, TaskSt, Result

\* A delivery target of a worker's current group is a key.
LEMMA GroupKeyType ==
  ASSUME TypeOK, NEW w \in Worker, NEW m \in Member, NEW c \in Channel, gi[w] \in Slot
  PROVE  GroupKey(w, m, c) \in Key
  BY DEF TypeOK, GroupKey, Key

LEMMA InitType == Init => TypeOK
<1> SUFFICES ASSUME Init PROVE TypeOK
  OBVIOUS
<1>1. NoJob \in Notif
  BY SetsAssumption DEF NoJob
<1>2. NoRequest \in Request
  BY DEF NoRequest, Request, Dest
<1>3. NoTask \in Task
  BY DEF NoTask, T, Task, TaskSt, Result
<1>4. "idle" \in PC /\ "absent" \in Status /\ "none" \in Pub
  BY DEF PC, Status, Pub
<1>5. request \in [Notif -> Request] /\ job \in [Worker -> Notif] /\ task \in [Key -> Task]
  BY <1>1, <1>2, <1>3 DEF Init
<1>6. subs \subseteq Member /\ members \in [Group -> SUBSET Member]
  BY StartAssumption DEF Init
<1>7. rows \in [Key -> Seq(Row)] /\ queue \in Seq(Notif)
  BY DEF Init
<1>8. /\ pc \in [Worker -> PC] /\ pub \in [Notif -> Pub] /\ status \in [Notif -> Status]
      /\ gi \in [Worker -> Nat] /\ todo \in [Worker -> SUBSET Member] /\ total \in [Worker -> Nat]
      /\ memberCount \in [Notif -> Nat] /\ accepted \in [Key -> Nat]
      /\ sem \in Nat /\ ctxDone \in BOOLEAN /\ faulted \in BOOLEAN
      /\ restarts \in Nat /\ changes \in Nat
  BY <1>4 DEF Init
<1>9. QED
  BY <1>5, <1>6, <1>7, <1>8 DEF TypeOK

\* What a query of the dispatcher does to the error history.
LEMMA QueryType ==
  ASSUME TypeOK, DbOk \/ DbError
  PROVE  faulted' \in BOOLEAN
BY DEF TypeOK, DbOk, DbError

\* Writing a row for one target.
LEMMA AppendRowType ==
  ASSUME TypeOK, NEW k, NEW r \in Row, rows' = [rows EXCEPT ![k] = Append(@, r)]
  PROVE  rows' \in [Key -> Seq(Row)]
<1>1. CASE k \in Key
  <2>1. rows[k] \in Seq(Row)
    BY <1>1 DEF TypeOK
  <2>2. Append(rows[k], r) \in Seq(Row)
    BY <2>1
  <2>3. QED
    BY <2>2 DEF TypeOK
<1>2. CASE k \notin Key
  BY <1>2 DEF TypeOK
<1>3. QED
  BY <1>1, <1>2

\* Every step keeps the types.
LEMMA PublishType ==
  ASSUME TypeOK, Publish
  PROVE  TypeOK'
<1>1. ASSUME NEW n \in Notif, PublishEnqueue(n) PROVE TypeOK'
  <2>1. queue' \in Seq(Notif)
    <3>1. Append(queue, n) \in Seq(Notif) /\ queue \in Seq(Notif)
      BY DEF TypeOK
    <3>2. QED
      BY <1>1, <3>1 DEF PublishEnqueue
  <2>2. pub' \in [Notif -> Pub]
    BY <1>1 DEF TypeOK, Pub, PublishEnqueue
  <2>3. QED
    BY <1>1, <2>1, <2>2 DEF TypeOK, PublishEnqueue, dbVars, envVars, jobVars
<1>2. ASSUME NEW n \in Notif, NEW r \in Requests, PublishInsert(n, r) PROVE TypeOK'
  <2>1. r \in Request
    BY RequestsAssumption
  <2>2. QED
    BY <1>2, <2>1 DEF TypeOK, Pub, Status, PublishInsert, envVars, jobVars
<1>3. QED
  BY <1>1, <1>2 DEF Publish

LEMMA EndJobType ==
  ASSUME TypeOK, NEW w \in Worker, EndJob(w)
  PROVE  /\ pc' \in [Worker -> PC] /\ job' \in [Worker -> Notif]
         /\ gi' \in [Worker -> Nat] /\ total' \in [Worker -> Nat]
<1>1. NoJob \in Notif
  BY SetsAssumption DEF NoJob
<1>2. QED
  BY <1>1 DEF TypeOK, PC, EndJob

LEMMA SpawnType ==
  ASSUME TypeOK, NEW K, Spawn(K)
  PROVE  task' \in [Key -> Task]
<1>1. T("spawned", 0, "unset") \in Task
  BY TaskType DEF TaskSt, Result
<1>2. QED
  BY <1>1 DEF TypeOK, Spawn

LEMMA WorkerType ==
  ASSUME TypeOK, NEW w \in Worker, WorkerStep(w)
  PROVE  TypeOK'
<1>1. CASE Take(w)
  BY <1>1 DEF TypeOK, PC, Take, dbVars, envVars
<1>2. CASE Stop(w)
  BY <1>2 DEF TypeOK, PC, Stop, dbVars, envVars
<1>3. CASE Load(w)
  <2>1. /\ pc' \in [Worker -> PC] /\ job' \in [Worker -> Notif]
        /\ gi' \in [Worker -> Nat] /\ total' \in [Worker -> Nat]
    <3>1. CASE DbOk /\ pc' = [pc EXCEPT ![w] = "mark"] /\ UNCHANGED <<job, gi, total>>
      BY <3>1 DEF TypeOK, PC
    <3>2. CASE EndJob(w)
      BY <3>2, EndJobType
    <3>3. QED
      BY <1>3, <3>1, <3>2 DEF Load
  <2>2. faulted' \in BOOLEAN
    BY <1>3, QueryType DEF Load
  <2>3. QED
    BY <1>3, <2>1, <2>2 DEF TypeOK, Load, dbVars, envVars
<1>4. CASE Mark(w)
  BY <1>4 DEF TypeOK, PC, Status, Mark, SetStatus, DbOk, DbError, envVars
<1>5. CASE ListMembers(w)
  <2> DEFINE gs == request[job[w]].groups
             M == members[gs[gi[w] + 1]]
  <2>1. gs \in Seq(Group) /\ gi[w] + 1 \in 1..Len(gs)
    BY <1>5 DEF TypeOK, Request, ListMembers
  <2>2. M \in SUBSET Member /\ Cardinality(M) \in Nat
    BY <2>1, SetsAssumption, FS_Subset, FS_CardinalityType DEF TypeOK
  <2> HIDE DEF M
  <2>3. gi' \in [Worker -> Nat]
    BY <1>5 DEF TypeOK, ListMembers
  <2>4. todo' \in [Worker -> SUBSET Member] /\ total' \in [Worker -> Nat]
    <3>1. \/ /\ todo' = [todo EXCEPT ![w] = M]
             /\ total' = [total EXCEPT ![w] = @ + Cardinality(M)]
          \/ UNCHANGED <<todo, total>>
      BY <1>5 DEF ListMembers, M
    <3>2. total[w] + Cardinality(M) \in Nat
      BY <2>2 DEF TypeOK
    <3>3. CASE /\ todo' = [todo EXCEPT ![w] = M]
               /\ total' = [total EXCEPT ![w] = total[w] + Cardinality(M)]
      <4>1. todo' \in [Worker -> SUBSET Member]
        BY <2>2, <3>3 DEF TypeOK
      <4>2. total' \in [Worker -> Nat]
        BY <3>2, <3>3 DEF TypeOK
      <4>3. QED
        BY <4>1, <4>2
    <3>4. CASE UNCHANGED <<todo, total>>
      BY <3>4 DEF TypeOK
    <3>5. QED
      BY <3>1, <3>3, <3>4
  <2>5. faulted' \in BOOLEAN
    BY <1>5, QueryType DEF ListMembers
  <2>6. QED
    BY <1>5, <2>3, <2>4, <2>5 DEF TypeOK, ListMembers, dbVars, envVars
<1>6. ASSUME NEW m \in Member, ExpandMember(w, m) PROVE TypeOK'
  <2> DEFINE sms == GroupKey(w, m, "sms")
             others == {GroupKey(w, m, c) : c \in Wanted(w, m) \ {"sms"}}
  <2>1. task' \in [Key -> Task]
    <3>1. T("spawned", 0, "unset") \in Task /\ T("done", 0, "unset") \in Task
      BY TaskType DEF TaskSt, Result
    <3>2. CASE \/ Spawn(others) \/ Spawn(others \cup {sms})
      BY <3>2, SpawnType
    <3>3. CASE task' = [k \in Key |-> IF k = sms THEN T("done", 0, "unset")
                             ELSE IF k \in others THEN T("spawned", 0, "unset")
                             ELSE task[k]]
      BY <3>1, <3>3 DEF TypeOK
    <3>4. QED
      BY <1>6, <3>2, <3>3 DEF ExpandMember
  <2>2. rows' \in [Key -> Seq(Row)]
    <3>1. [status |-> "not_subscribed", attempt |-> 0] \in Row
      BY DEF Row
    <3>2. \/ UNCHANGED rows
          \/ rows' = [rows EXCEPT ![sms] = Append(@, [status |-> "not_subscribed", attempt |-> 0])]
      BY <1>6 DEF ExpandMember
    <3>3. QED
      BY <3>1, <3>2, AppendRowType DEF TypeOK
  <2>3. faulted' \in BOOLEAN
    BY <1>6 DEF TypeOK, ExpandMember, DbOk, DbError
  <2>4. todo' \in [Worker -> SUBSET Member]
    BY <1>6 DEF TypeOK, ExpandMember
  <2>5. QED
    BY <1>6, <2>1, <2>2, <2>3, <2>4 DEF TypeOK, ExpandMember, envVars
<1>7. CASE SpawnDestinations(w)
  <2>1. task' \in [Key -> Task]
    BY <1>7, SpawnType DEF SpawnDestinations
  <2>2. QED
    BY <1>7, <2>1 DEF TypeOK, PC, SpawnDestinations, dbVars, envVars
<1>8. CASE Finish(w)
  BY <1>8 DEF TypeOK, PC, Status, Finish, SetStatus, DbOk, DbError, envVars
<1>9. CASE CountMembers(w)
  <2>1. TotalTargets(w) \in Nat
    BY DEF TypeOK, Request, TotalTargets
  <2>2. memberCount' \in [Notif -> Nat]
    BY <1>9, <2>1 DEF TypeOK, CountMembers
  <2>3. faulted' \in BOOLEAN
    BY <1>9, QueryType DEF CountMembers
  <2>4. QED
    BY <1>9, <2>2, <2>3, EndJobType DEF TypeOK, CountMembers, envVars
<1>10. QED
  BY <1>1, <1>2, <1>3, <1>4, <1>5, <1>6, <1>7, <1>8, <1>9 DEF WorkerStep

\* A goroutine that holds a token and returns.
LEMMA HolderPositive ==
  ASSUME TypeOK, SemaphoreInv, NEW k \in Holders
  PROVE  sem \in Nat \ {0}
BY FS_EmptySet DEF SemaphoreInv, SemaphoreExact, TypeOK

LEMMA ReturnType ==
  ASSUME TypeOK, SemaphoreInv, NEW k \in Key, k \in Holders, Return(k)
  PROVE  task' \in [Key -> Task] /\ sem' \in Nat
<1>1. T("done", task[k].tries, task[k].res) \in Task
  BY TaskType DEF TypeOK, TaskSt
<1>2. sem - 1 \in Nat
  BY HolderPositive
<1>3. QED
  BY <1>1, <1>2 DEF TypeOK, Return

LEMMA DeliveryType ==
  ASSUME TypeOK, SemaphoreInv, NEW k \in Key, DeliveryStep(k)
  PROVE  TypeOK'
<1>0. task[k] \in Task /\ task[k].tries \in Nat /\ task[k].res \in Result /\ task[k].tries + 1 \in Nat
  BY TaskType DEF TypeOK
<1> DEFINE Moved == task' \in [Key -> Task] /\ sem' \in Nat
<1>1. CASE Acquire(k)
  <2>1. Moved
    <3>1. T("started", 0, "unset") \in Task /\ LoopHead(k) \in Task
      BY TaskType, LoopHeadType DEF TaskSt, Result
    <3>2. sem' \in Nat
      <4>1. sem' = sem + 1
        BY <1>1 DEF Acquire
      <4>2. QED
        BY <4>1 DEF TypeOK
    <3>3. \E t \in Task : task' = [task EXCEPT ![k] = t]
      BY <1>1, <3>1 DEF Acquire
    <3>4. QED
      BY <3>2, <3>3 DEF TypeOK
  <2>2. QED
    BY <1>1, <2>1 DEF TypeOK, Acquire, dbVars, envVars, jobVars
<1>2. CASE SkipDestination(k)
  <2>1. Moved
    BY <1>2, ReturnType DEF SkipDestination, Holders
  <2>2. QED
    BY <1>2, <2>1 DEF TypeOK, SkipDestination, dbVars, envVars, jobVars
<1>3. CASE StartDestination(k)
  <2>1. task' \in [Key -> Task]
    BY <1>3, LoopHeadType DEF TypeOK, StartDestination
  <2>2. faulted' \in BOOLEAN
    BY <1>3 DEF TypeOK, StartDestination, DbOk
  <2>3. QED
    BY <1>3, <2>1, <2>2 DEF TypeOK, StartDestination, dbVars, envVars, jobVars
<1>4. CASE WithholdDestination(k)
  <2>1. Moved
    BY <1>4, ReturnType DEF WithholdDestination, Holders
  <2>2. rows' \in [Key -> Seq(Row)]
    <3>1. [status |-> "not_subscribed", attempt |-> 0] \in Row
      BY DEF Row
    <3>2. QED
      BY <1>4, <3>1, AppendRowType DEF TypeOK, WithholdDestination
  <2>3. faulted' \in BOOLEAN
    BY <1>4 DEF TypeOK, WithholdDestination, DbError
  <2>4. QED
    BY <1>4, <2>1, <2>2, <2>3 DEF TypeOK, WithholdDestination, envVars, jobVars
<1>5. CASE PrepareEmail(k)
  <2>1. task' \in [Key -> Task]
    <3>1. T("insert", 1, "failed") \in Task /\ LoopHead(k) \in Task
      BY TaskType, LoopHeadType DEF TaskSt, Result
    <3>2. QED
      BY <1>5, <3>1 DEF TypeOK, PrepareEmail
  <2>2. faulted' \in BOOLEAN
    BY <1>5 DEF TypeOK, PrepareEmail, DbOk, DbError
  <2>3. QED
    BY <1>5, <2>1, <2>2 DEF TypeOK, PrepareEmail, dbVars, envVars, jobVars
<1>6. CASE Send(k)
  <2> DEFINE tries == task[k].tries + 1
  <2>1. task' \in [Key -> Task]
    <3>1. /\ T("insert", tries, "accepted") \in Task
          /\ T("backoff", tries, "failed") \in Task
          /\ T("insert", tries, "failed") \in Task
      BY <1>0, TaskType DEF TaskSt, Result
    <3>2. QED
      BY <1>6, <3>1 DEF TypeOK, Send
  <2>2. accepted' \in [Key -> Nat]
    <3>1. accepted[k] + 1 \in Nat
      BY DEF TypeOK
    <3>2. accepted' = accepted \/ accepted' = [accepted EXCEPT ![k] = accepted[k] + 1]
      BY <1>6 DEF Send
    <3>3. QED
      BY <3>1, <3>2 DEF TypeOK
  <2>3. QED
    BY <1>6, <2>1, <2>2 DEF TypeOK, Send, dbVars, envVars, jobVars
<1>7. CASE Resend(k)
  <2>1. task' \in [Key -> Task]
    <3>1. T("send", task[k].tries, task[k].res) \in Task
      BY <1>0, TaskType DEF TaskSt
    <3>2. QED
      BY <1>7, <3>1 DEF TypeOK, Resend
  <2>2. QED
    BY <1>7, <2>1 DEF TypeOK, Resend, dbVars, envVars, jobVars
<1>8. CASE Abandon(k)
  <2>1. Moved
    BY <1>8, ReturnType DEF Abandon, Holders
  <2>2. QED
    BY <1>8, <2>1 DEF TypeOK, Abandon, dbVars, envVars, jobVars
<1>9. CASE RecordDelivery(k)
  <2>1. Moved
    BY <1>9, ReturnType DEF RecordDelivery, Holders
  <2>2. rows' \in [Key -> Seq(Row)]
    <3>1. [status |-> task[k].res, attempt |-> task[k].tries] \in Row
      BY <1>0 DEF Row
    <3>2. QED
      BY <1>9, <3>1, AppendRowType DEF TypeOK, RecordDelivery
  <2>3. faulted' \in BOOLEAN
    BY <1>9, QueryType DEF RecordDelivery
  <2>4. QED
    BY <1>9, <2>1, <2>2, <2>3 DEF TypeOK, RecordDelivery, envVars, jobVars
<1>10. QED
  BY <1>1, <1>2, <1>3, <1>4, <1>5, <1>6, <1>7, <1>8, <1>9 DEF DeliveryStep

LEMMA EnvironmentType ==
  ASSUME TypeOK, Environment
  PROVE  TypeOK'
<1>1. CASE Cancel
  BY <1>1 DEF TypeOK, Cancel, dbVars, envVars, jobVars
<1>2. CASE Restart
  <2>1. NoJob \in Notif /\ NoTask \in Task
    BY SetsAssumption DEF NoJob, NoTask, T, Task, TaskSt, Result
  <2>2. task' \in [Key -> Task] /\ job' \in [Worker -> Notif]
    BY <1>2, <2>1 DEF Restart
  <2>3. pub' \in [Notif -> Pub] /\ pc' \in [Worker -> PC]
    BY <1>2 DEF TypeOK, Restart, Pub, PC
  <2>4. gi' \in [Worker -> Nat] /\ todo' \in [Worker -> SUBSET Member] /\ total' \in [Worker -> Nat]
    BY <1>2 DEF Restart
  <2>5. sem' \in Nat /\ ctxDone' \in BOOLEAN /\ restarts' \in Nat
    <3>1. sem' = 0 /\ ctxDone' = FALSE /\ restarts' = restarts + 1
      BY <1>2 DEF Restart
    <3>2. restarts + 1 \in Nat
      BY DEF TypeOK
    <3>3. QED
      BY <3>1, <3>2
  <2>6. queue' \in Seq(Notif)
    BY <1>2 DEF Restart
  <2>7. QED
    BY <1>2, <2>2, <2>3, <2>4, <2>5, <2>6 DEF TypeOK, Restart, dbVars, envVars
<1>3. ASSUME NEW m \in Member, Subscribe(m) \/ Unsubscribe(m) PROVE TypeOK'
  BY <1>3 DEF TypeOK, Subscribe, Unsubscribe, dbVars, jobVars
<1>4. ASSUME NEW g \in Group, NEW S \in SUBSET Member, SyncGroup(g, S) PROVE TypeOK'
  BY <1>4 DEF TypeOK, SyncGroup, dbVars, jobVars
<1>5. QED
  BY <1>1, <1>2, <1>3, <1>4 DEF Environment

LEMMA StepType ==
  ASSUME TypeOK, SemaphoreInv, [Next]_vars
  PROVE  TypeOK'
<1>1. CASE UNCHANGED vars
  BY <1>1 DEF TypeOK, vars, dbVars, envVars, jobVars
<1>2. QED
  BY <1>1, PublishType, WorkerType, DeliveryType, EnvironmentType DEF Next

(***************************************************************************)
(* Deliveries: what one step of a delivery touches, what it leaves true of *)
(* its own target, and that the tokens taken from the semaphore stay       *)
(* exactly the goroutines holding one.                                     *)
(***************************************************************************)

\* A delivery step works for one target that is in progress and touches no
\* other target, no worker and no notification.
LEMMA DeliveryFrame ==
  ASSUME TypeOK, NEW k \in Key, DeliveryStep(k)
  PROVE  /\ UNCHANGED <<request, status, memberCount, envVars, pub, queue, jobVars, ctxDone>>
         /\ ~Finished(k)
         /\ task'[k].st # "none"
         /\ \A x \in Key \ {k} : task'[x] = task[x] /\ rows'[x] = rows[x] /\ accepted'[x] = accepted[x]
         /\ faulted => faulted'
<1>1. CASE Acquire(k)
  BY <1>1 DEF TypeOK, Finished, Acquire, LoopHead, T, dbVars
<1>2. CASE SkipDestination(k)
  BY <1>2 DEF TypeOK, Finished, SkipDestination, Return, T, dbVars
<1>3. CASE StartDestination(k)
  <2>1. faulted => faulted'
    BY <1>3 DEF StartDestination, DbOk
  <2>2. LoopHead(k).st # "none"
    BY DEF LoopHead, T
  <2>3. QED
    BY <1>3, <2>1, <2>2 DEF TypeOK, Finished, StartDestination, dbVars
<1>4. CASE WithholdDestination(k)
  BY <1>4 DEF TypeOK, Finished, WithholdDestination, Return, T, DbError
<1>5. CASE PrepareEmail(k)
  <2>1. faulted => faulted'
    BY <1>5 DEF PrepareEmail, DbOk, DbError
  <2>2. LoopHead(k).st # "none" /\ T("insert", 1, "failed").st # "none"
    BY DEF LoopHead, T
  <2>3. \E t : t.st # "none" /\ task' = [task EXCEPT ![k] = t]
    BY <1>5, <2>2 DEF PrepareEmail
  <2>4. QED
    BY <1>5, <2>1, <2>3 DEF TypeOK, Finished, PrepareEmail, dbVars
<1>6. CASE Send(k)
  BY <1>6 DEF TypeOK, Finished, Send, T, dbVars
<1>7. CASE Resend(k)
  BY <1>7 DEF TypeOK, Finished, Resend, T, dbVars
<1>8. CASE Abandon(k)
  BY <1>8 DEF TypeOK, Finished, Abandon, Return, T, dbVars
<1>9. CASE RecordDelivery(k)
  BY <1>9 DEF TypeOK, Finished, RecordDelivery, Return, T, DbOk, DbError
<1>10. QED
  BY <1>1, <1>2, <1>3, <1>4, <1>5, <1>6, <1>7, <1>8, <1>9 DEF DeliveryStep

\* The number of sends a delivery may make, and where its retry loop begins.
LEMMA MaxTriesType ==
  ASSUME NEW k \in Key
  PROVE  MaxTries(k) \in Nat /\ (k.ch = "email" => MaxTries(k) = 1)
<1>1. RetryLimit \in Nat
  BY BoundsAssumption
<1>2. QED
  BY <1>1 DEF MaxTries

LEMMA LoopHeadFields ==
  ASSUME NEW k \in Key
  PROVE  /\ MaxTries(k) # 0 => LoopHead(k).st = "send"
         /\ MaxTries(k) = 0 => LoopHead(k).st = "insert"
         /\ LoopHead(k).tries = 0
         /\ LoopHead(k).res = "unset"
BY DEF LoopHead, T

\* A delivery that has no row, where nothing has been accepted, and that is about
\* to look, to send for the first time or to give up.
LEMMA FreshDelivery ==
  ASSUME NEW k \in Key, rows'[k] = <<>>, accepted'[k] = 0,
         \/ task'[k].st = "started"
         \/ task'[k].st = "send" /\ task'[k].tries = 0 /\ MaxTries(k) # 0
         \/ task'[k].st = "insert" /\ task'[k].res # "accepted" /\ task'[k].tries = MaxTries(k)
  PROVE  TaskOK(k)' /\ RowTruthful(k)'
<1>1. MaxTries(k) \in Nat /\ MaxTries(k)' = MaxTries(k)
  BY MaxTriesType DEF MaxTries
<1>2. RowTruthful(k)'
  BY DEF RowTruthful
<1>3. TaskOK(k)'
  BY <1>1 DEF TaskOK
<1>4. QED
  BY <1>2, <1>3

\* A delivery that starts: no row, nothing accepted yet.
LEMMA DeliveryStarts ==
  ASSUME TypeOK, NEW k \in Key, rows[k] = <<>>, accepted[k] = 0,
         rows'[k] = rows[k], accepted'[k] = accepted[k],
         \/ task'[k] = LoopHead(k)
         \/ task'[k] = T("started", 0, "unset")
         \/ task'[k] = T("insert", 1, "failed") /\ k.ch = "email"
  PROVE  TaskOK(k)' /\ RowTruthful(k)'
<1>1. MaxTries(k) \in Nat /\ (k.ch = "email" => MaxTries(k) = 1)
  BY MaxTriesType
<1>2. CASE task'[k] = LoopHead(k)
  BY <1>1, <1>2, LoopHeadFields, FreshDelivery
<1>3. CASE task'[k] = T("started", 0, "unset")
  <2>1. task'[k].st = "started"
    BY <1>3 DEF T
  <2>2. QED
    BY <2>1, FreshDelivery
<1>4. CASE task'[k] = T("insert", 1, "failed") /\ k.ch = "email"
  <2>1. task'[k].st = "insert" /\ task'[k].res = "failed" /\ task'[k].tries = 1
    BY <1>4 DEF T
  <2>2. QED
    BY <1>1, <1>4, <2>1, FreshDelivery
<1>5. QED
  BY <1>2, <1>3, <1>4

\* The first row of a target is its only one.
LEMMA FirstRow ==
  ASSUME TypeOK, NEW k \in Key, rows[k] = <<>>, NEW r, rows' = [rows EXCEPT ![k] = Append(@, r)]
  PROVE  rows'[k] # <<>> /\ Len(rows'[k]) = 1 /\ rows'[k][1] = r
<1>1. rows'[k] = <<r>>
  BY DEF TypeOK
<1>2. QED
  BY <1>1

\* A goroutine that returns with its row written, or without when it may.
LEMMA DeliveryEnds ==
  ASSUME TypeOK, NEW k \in Key, rows[k] = <<>>, accepted'[k] = accepted[k], Return(k),
         NEW r \in Row,
         accepted[k] <= r.attempt, r.attempt <= MaxTries(k),
         r.status = "accepted" => accepted[k] >= 1,
         r.status = "failed" => r.attempt = MaxTries(k),
         \/ rows' = [rows EXCEPT ![k] = Append(@, r)]
         \/ rows' = rows /\ (ctxDone' \/ faulted')
  PROVE  TaskOK(k)' /\ RowTruthful(k)'
<1>1. task'[k].st = "done"
  BY DEF TypeOK, Return, T
<1>2. CASE rows' = [rows EXCEPT ![k] = Append(@, r)]
  <2>1. rows'[k] # <<>> /\ Len(rows'[k]) = 1 /\ rows'[k][1] = r
    BY <1>2, FirstRow
  <2>2. QED
    BY <1>1, <2>1 DEF TaskOK, RowTruthful, Finished, MaxTries
<1>3. CASE rows' = rows /\ (ctxDone' \/ faulted')
  BY <1>1, <1>3 DEF TaskOK, RowTruthful, Finished
<1>4. QED
  BY <1>2, <1>3

\* A delivery step keeps what is known of its own target.
LEMMA DeliveryLocal ==
  ASSUME TypeOK, NEW k \in Key, TaskOK(k), RowTruthful(k), DeliveryStep(k)
  PROVE  TaskOK(k)' /\ RowTruthful(k)'
<1>0. /\ task[k] \in Task /\ task[k].tries \in Nat /\ accepted[k] \in Nat
      /\ task[k].res \in Result /\ rows[k] \in Seq(Row)
      /\ MaxTries(k) \in Nat
  BY TaskType, BoundsAssumption DEF TypeOK, MaxTries
<1>1. CASE Acquire(k)
  <2>1. rows[k] = <<>> /\ accepted[k] = 0
    BY <1>1 DEF TaskOK, Finished, Acquire
  <2>2. task'[k] = LoopHead(k) \/ task'[k] = T("started", 0, "unset")
    BY <1>1 DEF TypeOK, Acquire
  <2>3. QED
    BY <1>1, <2>1, <2>2, DeliveryStarts DEF Acquire, dbVars
<1>2. CASE SkipDestination(k)
  BY <1>0, <1>2 DEF TypeOK, Finished, TaskOK, RowTruthful, SkipDestination, Return, T, dbVars, MaxTries
<1>3. CASE StartDestination(k)
  <2>1. rows[k] = <<>> /\ accepted[k] = 0
    BY <1>3 DEF TaskOK, Finished, StartDestination
  <2>2. task'[k] = LoopHead(k)
    BY <1>3 DEF TypeOK, StartDestination
  <2>3. QED
    BY <1>3, <2>1, <2>2, DeliveryStarts DEF StartDestination, dbVars
<1>4. CASE WithholdDestination(k)
  <2> DEFINE r == [status |-> "not_subscribed", attempt |-> 0]
  <2>1. /\ rows[k] = <<>> /\ accepted[k] <= r.attempt /\ r.attempt <= MaxTries(k)
        /\ r.status # "accepted" /\ r.status # "failed"
    BY <1>0, <1>4 DEF TaskOK, Finished, WithholdDestination
  <2>2. r \in Row
    BY DEF Row
  <2>3. rows' = [rows EXCEPT ![k] = Append(@, r)] \/ (rows' = rows /\ (ctxDone' \/ faulted'))
    BY <1>4 DEF WithholdDestination, DbError
  <2>4. QED
    BY <1>0, <1>4, <2>1, <2>2, <2>3, DeliveryEnds DEF WithholdDestination
<1>5. CASE PrepareEmail(k)
  <2>1. rows[k] = <<>> /\ accepted[k] = 0
    BY <1>5 DEF TaskOK, Finished, PrepareEmail
  <2>2. task'[k] = LoopHead(k) \/ (task'[k] = T("insert", 1, "failed") /\ k.ch = "email")
    BY <1>5 DEF TypeOK, PrepareEmail
  <2>3. QED
    BY <1>5, <2>1, <2>2, DeliveryStarts DEF PrepareEmail, dbVars
<1>6. CASE Send(k)
  BY <1>0, <1>6 DEF TypeOK, Finished, TaskOK, RowTruthful, Send, T, dbVars, MaxTries
<1>7. CASE Resend(k)
  BY <1>0, <1>7 DEF TypeOK, Finished, TaskOK, RowTruthful, Resend, T, dbVars, MaxTries
<1>8. CASE Abandon(k)
  BY <1>0, <1>8 DEF TypeOK, Finished, TaskOK, RowTruthful, Abandon, Return, T, dbVars, MaxTries
<1>9. CASE RecordDelivery(k)
  <2> DEFINE r == [status |-> task[k].res, attempt |-> task[k].tries]
  <2>1. /\ rows[k] = <<>> /\ accepted[k] <= r.attempt /\ r.attempt <= MaxTries(k)
        /\ r.status = "accepted" => accepted[k] >= 1
        /\ r.status = "failed" => r.attempt = MaxTries(k)
    BY <1>0, <1>9 DEF TaskOK, Finished, RecordDelivery
  <2>2. r \in Row
    BY <1>0 DEF Row
  <2>3. rows' = [rows EXCEPT ![k] = Append(@, r)] \/ (rows' = rows /\ (ctxDone' \/ faulted'))
    BY <1>9 DEF RecordDelivery, DbError
  <2>4. QED
    BY <1>9, <2>1, <2>2, <2>3, DeliveryEnds DEF RecordDelivery
<1>10. QED
  BY <1>1, <1>2, <1>3, <1>4, <1>5, <1>6, <1>7, <1>8, <1>9 DEF DeliveryStep

\* The tokens taken stay the goroutines that hold one.
LEMMA DeliverySemaphore ==
  ASSUME TypeOK, SemaphoreInv, NEW k \in Key, DeliveryStep(k)
  PROVE  SemaphoreInv'
<1> DEFINE Frame == \A x \in Key \ {k} : task'[x] = task[x]
           Enters == k \notin Holders /\ k \in Holders' /\ sem < Concurrency /\ sem' = sem + 1
           Leaves == k \in Holders /\ k \notin Holders' /\ sem' = sem - 1
           Stays  == (k \in Holders <=> k \in Holders') /\ sem' = sem
<1>1. Frame
  BY DeliveryFrame
<1>2. CASE Enters
  <2>1. Holders' = Holders \cup {k}
    BY <1>1, <1>2 DEF Holders
  <2>2. QED
    BY <1>2, <2>1, FS_AddElement, BoundsAssumption DEF SemaphoreInv, SemaphoreExact, TypeOK
<1>3. CASE Leaves
  <2>1. Holders' = Holders \ {k}
    BY <1>1, <1>3 DEF Holders
  <2>2. QED
    BY <1>3, <2>1, FS_RemoveElement, BoundsAssumption DEF SemaphoreInv, SemaphoreExact, TypeOK
<1>4. CASE Stays
  <2>1. Holders' = Holders
    BY <1>1, <1>4 DEF Holders
  <2>2. QED
    BY <1>4, <2>1 DEF SemaphoreInv, SemaphoreExact
<1>5. Enters \/ Leaves \/ Stays
  <2>1. CASE Acquire(k)
    BY <2>1 DEF TypeOK, Holders, Acquire, LoopHead, T
  <2>2. CASE \/ SkipDestination(k) \/ WithholdDestination(k) \/ Abandon(k) \/ RecordDelivery(k)
    <3>1. Return(k) /\ k \in Holders
      BY <2>2 DEF Holders, SkipDestination, WithholdDestination, Abandon, RecordDelivery
    <3>2. QED
      BY <3>1 DEF TypeOK, Holders, Return, T
  <2>3. CASE StartDestination(k) \/ PrepareEmail(k)
    <3>1. LoopHead(k).st \in {"insert", "send"} /\ T("insert", 1, "failed").st = "insert"
      BY DEF LoopHead, T
    <3>2. /\ k \in Holders /\ sem' = sem
          /\ \E t : t.st \in {"insert", "send"} /\ task' = [task EXCEPT ![k] = t]
      BY <2>3, <3>1 DEF Holders, StartDestination, PrepareEmail
    <3>3. QED
      BY <3>2 DEF TypeOK, Holders
  <2>4. CASE Send(k) \/ Resend(k)
    BY <2>4 DEF TypeOK, Holders, Send, Resend, T
  <2>5. QED
    BY <2>1, <2>2, <2>3, <2>4 DEF DeliveryStep
<1>6. QED
  BY <1>2, <1>3, <1>4, <1>5
=============================================================================
