----------------------------- MODULE Dispatcher -----------------------------
(***************************************************************************)
(* Publishing a notification and dispatching it: the handler that stores a *)
(* notification and offers a job to the bounded queue (api/handlers.go),   *)
(* the worker pool that expands a job into one delivery per target, and    *)
(* the delivery goroutines with their shared semaphore, retries and        *)
(* records (notify/dispatcher.go), under database errors, SIGTERM and      *)
(* restarts (cmd/notification_relay/main.go).                              *)
(*                                                                         *)
(* SQLite is reached through one connection, so each query is atomic. A    *)
(* query fails when the dispatcher's context is cancelled, and may fail at *)
(* any time when DbMayFail. The subscription read and the not_subscribed   *)
(* insert that may follow it are one step: no other actor can tell when    *)
(* between them it ran. delivery rows drop error_message (written by a     *)
(* second query that nothing in the program reads back).                   *)
(***************************************************************************)
EXTENDS Integers, Sequences, FiniteSets

CONSTANTS
  Notif,        \* notification ids (fresh UUIDs, one per publish)
  Worker,       \* worker goroutines, notify.worker_count of them
  Member,       \* people: usernames of group members, owners of phone numbers
  Group,        \* directory groups
  Requests,     \* the publish requests that pass validation
  MaxEntries,   \* bound: entries of a request's groups or destinations list
  Providers,    \* the channels whose provider is configured (non-nil)
  StartSubs,    \* the subscriptions and the memberships a database may hold
  StartMembers, \* when the process first starts
  Reach,        \* Reach[m]: the channels m has an address or a number for
  QueueCap,     \* capacity of the job channel (256 in main.go)
  Concurrency,  \* capacity of sem, notify.delivery_concurrency
  RetryLimit,   \* notify.retry_limit: sends per SMS or voice delivery
  DbMayFail,    \* whether a query may fail while the context is live
  MaxRestarts,  \* bound: how often the process ends and starts again
  MaxChanges    \* bound: subscription and membership changes

Channel == {"sms", "voice", "email"}
Dest    == [who : Member, ch : Channel]
Request == [groups : Seq(Group), channels : SUBSET Channel, dests : Seq(Dest)]
Slot    == 1..MaxEntries

\* A delivery target: entry i of the notification's groups and one of that
\* group's members on one channel, or entry i of its destinations.
Key == [n : Notif, src : {"group", "dest"}, i : Slot, who : Member, ch : Channel]

ASSUME SetsAssumption ==
  /\ Notif # {}
  /\ IsFiniteSet(Notif) /\ IsFiniteSet(Worker)
  /\ IsFiniteSet(Member) /\ IsFiniteSet(Group)
ASSUME BoundsAssumption ==
  /\ MaxEntries \in Nat
  /\ QueueCap \in Nat \ {0}
  /\ Concurrency \in Nat \ {0}
  /\ RetryLimit \in Nat
  /\ DbMayFail \in BOOLEAN
  /\ MaxRestarts \in Nat
  /\ MaxChanges \in Nat
ASSUME ProvidersAssumption ==
  /\ Providers \subseteq Channel
  /\ Reach \in [Member -> SUBSET Channel]
ASSUME StartAssumption ==
  /\ StartSubs \subseteq SUBSET Member
  /\ StartMembers \subseteq [Group -> SUBSET Member]
\* Validation in handlePublishNotification rejects everything else before it
\* changes any state.
ASSUME RequestsAssumption ==
  \A r \in Requests :
    /\ r \in Request
    /\ Len(r.groups) <= MaxEntries /\ Len(r.dests) <= MaxEntries
    /\ Len(r.groups) + Len(r.dests) > 0
    /\ Len(r.groups) > 0 => r.channels # {}

VARIABLES
  \* the database
  request,      \* what each stored notification asks for
  status,       \* notifications.status
  memberCount,  \* notifications.member_count
  rows,         \* deliveries, per target, in insertion order
  subs,         \* sms_subscriptions
  members,      \* group_members
  \* the publish handlers
  pub,          \* none, inserted, enqueued (202), rejected (503), lost
  \* the dispatcher's memory
  queue,        \* the job channel
  pc, job,      \* each worker's place in processJob and its job
  gi, todo,     \* groups listed so far, members of the last one left to expand
  total,        \* totalMembers
  task,         \* the delivery goroutine of each target
  sem,          \* tokens in the semaphore channel
  ctxDone,      \* the signal context is cancelled
  \* the providers
  accepted,     \* messages the provider accepted for a target
  \* history and bounds
  faulted,      \* some query failed while the context was live
  restarts, changes

dbVars  == <<request, status, memberCount, rows>>
envVars == <<subs, members, changes>>
jobVars == <<pc, job, gi, todo, total>>
vars == <<dbVars, envVars, pub, queue, jobVars, task, sem, ctxDone, accepted,
          faulted, restarts>>

T(st, tries, res) == [st |-> st, tries |-> tries, res |-> res]
NoTask == T("none", 0, "unset")
NoJob == CHOOSE n \in Notif : TRUE    \* job of a worker that has none
NoRequest == [groups |-> <<>>, channels |-> {}, dests |-> <<>>]

TaskSt == {"none", "spawned", "started", "send", "backoff", "insert", "done"}
Result == {"unset", "accepted", "failed"}   \* "unset": finalStatus is still empty
Task == [st : TaskSt, tries : Nat, res : Result]
Row == [status : Result \cup {"not_subscribed"}, attempt : Nat]
PC == {"idle", "load", "mark", "expand", "wait", "count", "stopped"}
Status == {"absent", "pending", "processing", "completed", "failed"}
Pub == {"none", "inserted", "enqueued", "rejected", "lost"}

TypeOK ==
  /\ request \in [Notif -> Request]
  /\ status \in [Notif -> Status]
  /\ memberCount \in [Notif -> Nat]
  /\ rows \in [Key -> Seq(Row)]
  /\ subs \subseteq Member
  /\ members \in [Group -> SUBSET Member]
  /\ pub \in [Notif -> Pub]
  /\ queue \in Seq(Notif)
  /\ pc \in [Worker -> PC]
  /\ job \in [Worker -> Notif]
  /\ gi \in [Worker -> Nat]
  /\ todo \in [Worker -> SUBSET Member]
  /\ total \in [Worker -> Nat]
  /\ task \in [Key -> Task]
  /\ sem \in Nat
  /\ ctxDone \in BOOLEAN
  /\ accepted \in [Key -> Nat]
  /\ faulted \in BOOLEAN
  /\ restarts \in Nat
  /\ changes \in Nat

Init ==
  /\ request = [n \in Notif |-> NoRequest]
  /\ status = [n \in Notif |-> "absent"]
  /\ memberCount = [n \in Notif |-> 0]
  /\ rows = [k \in Key |-> <<>>]
  /\ subs \in StartSubs
  /\ members \in StartMembers
  /\ pub = [n \in Notif |-> "none"]
  /\ queue = <<>>
  /\ pc = [w \in Worker |-> "idle"]
  /\ job = [w \in Worker |-> NoJob]
  /\ gi = [w \in Worker |-> 0]
  /\ todo = [w \in Worker |-> {}]
  /\ total = [w \in Worker |-> 0]
  /\ task = [k \in Key |-> NoTask]
  /\ sem = 0
  /\ ctxDone = FALSE
  /\ accepted = [k \in Key |-> 0]
  /\ faulted = FALSE
  /\ restarts = 0
  /\ changes = 0

-----------------------------------------------------------------------------
\* Queries made with the dispatcher's context.

DbOk    == ~ctxDone /\ UNCHANGED faulted
DbError == (ctxDone \/ DbMayFail) /\ faulted' = (faulted \/ ~ctxDone)

\* setNotificationStatus: a failed update is only logged.
SetStatus(n, s) ==
  \/ DbOk /\ status' = [status EXCEPT ![n] = s]
  \/ DbError /\ UNCHANGED status

-----------------------------------------------------------------------------
\* The publish handler. It runs on the request's context, so a handler still
\* in flight during shutdown goes on.

PublishInsert(n, r) ==
  /\ pub[n] = "none"
  /\ request' = [request EXCEPT ![n] = r]
  /\ status' = [status EXCEPT ![n] = "pending"]
  /\ pub' = [pub EXCEPT ![n] = "inserted"]
  /\ UNCHANGED <<memberCount, rows, envVars, queue, jobVars, task, sem, ctxDone,
                 accepted, faulted, restarts>>

\* The non-blocking send: a full queue is answered with 503, and the row stays.
PublishEnqueue(n) ==
  /\ pub[n] = "inserted"
  /\ \/ /\ Len(queue) < QueueCap
        /\ queue' = Append(queue, n)
        /\ pub' = [pub EXCEPT ![n] = "enqueued"]
     \/ /\ Len(queue) >= QueueCap
        /\ pub' = [pub EXCEPT ![n] = "rejected"]
        /\ UNCHANGED queue
  /\ UNCHANGED <<dbVars, envVars, jobVars, task, sem, ctxDone, accepted, faulted,
                 restarts>>

-----------------------------------------------------------------------------
\* A worker. select picks either ready case, so a worker may still take a job
\* after cancellation.

Take(w) ==
  /\ pc[w] = "idle"
  /\ queue # <<>>
  /\ job' = [job EXCEPT ![w] = Head(queue)]
  /\ queue' = Tail(queue)
  /\ pc' = [pc EXCEPT ![w] = "load"]
  /\ UNCHANGED <<dbVars, envVars, pub, gi, todo, total, task, sem, ctxDone,
                 accepted, faulted, restarts>>

Stop(w) ==
  /\ pc[w] = "idle"
  /\ ctxDone
  /\ pc' = [pc EXCEPT ![w] = "stopped"]
  /\ UNCHANGED <<dbVars, envVars, pub, queue, job, gi, todo, total, task, sem,
                 ctxDone, accepted, faulted, restarts>>

\* Returning from processJob: its locals are gone.
EndJob(w) ==
  /\ pc' = [pc EXCEPT ![w] = "idle"]
  /\ job' = [job EXCEPT ![w] = NoJob]
  /\ gi' = [gi EXCEPT ![w] = 0]
  /\ total' = [total EXCEPT ![w] = 0]

\* Loading the notification; on an error the job is dropped as it is.
Load(w) ==
  /\ pc[w] = "load"
  /\ \/ DbOk /\ pc' = [pc EXCEPT ![w] = "mark"] /\ UNCHANGED <<job, gi, total>>
     \/ DbError /\ EndJob(w)
  /\ UNCHANGED <<dbVars, envVars, pub, queue, todo, task, sem, ctxDone, accepted,
                 restarts>>

\* Marking it "processing" and parsing its lists. Every list was stored by
\* json.Marshal, so the three parse-error returns are never taken.
Mark(w) ==
  /\ pc[w] = "mark"
  /\ SetStatus(job[w], "processing")
  /\ pc' = [pc EXCEPT ![w] = "expand"]
  /\ UNCHANGED <<request, memberCount, rows, envVars, pub, queue, job, gi, todo, total,
                 task, sem, ctxDone, accepted, restarts>>

\* Mutant: the members of a group are not added to totalMembers.
ListMembersUncounted(w) ==
  LET gs == request[job[w]].groups IN
  /\ pc[w] = "expand"
  /\ todo[w] = {}
  /\ gi[w] < Len(gs)
  /\ gi' = [gi EXCEPT ![w] = @ + 1]
  /\ \/ DbOk /\ todo' = [todo EXCEPT ![w] = members[gs[gi[w] + 1]]]
     \/ DbError /\ UNCHANGED todo
  /\ UNCHANGED <<dbVars, envVars, pub, queue, pc, job, total, task, sem, ctxDone,
                 accepted, restarts>>

\* Mutant: totalMembers is assigned instead of added to.
ListMembersLastGroup(w) ==
  LET gs == request[job[w]].groups IN
  /\ pc[w] = "expand"
  /\ todo[w] = {}
  /\ gi[w] < Len(gs)
  /\ gi' = [gi EXCEPT ![w] = @ + 1]
  /\ \/ /\ DbOk
        /\ todo' = [todo EXCEPT ![w] = members[gs[gi[w] + 1]]]
        /\ total' = [total EXCEPT ![w] = Cardinality(members[gs[gi[w] + 1]])]
     \/ DbError /\ UNCHANGED <<todo, total>>
  /\ UNCHANGED <<dbVars, envVars, pub, queue, pc, job, task, sem, ctxDone, accepted,
                 restarts>>

\* Listing the next group. On an error the group is skipped.
ListMembers(w) ==
  LET gs == request[job[w]].groups IN
  /\ pc[w] = "expand"
  /\ todo[w] = {}
  /\ gi[w] < Len(gs)
  /\ gi' = [gi EXCEPT ![w] = @ + 1]
  /\ \/ /\ DbOk
        /\ todo' = [todo EXCEPT ![w] = members[gs[gi[w] + 1]]]
        /\ total' = [total EXCEPT ![w] = @ + Cardinality(members[gs[gi[w] + 1]])]
     \/ DbError /\ UNCHANGED <<todo, total>>
  /\ UNCHANGED <<dbVars, envVars, pub, queue, pc, job, task, sem, ctxDone, accepted,
                 restarts>>

GroupKey(w, m, c) ==
  [n |-> job[w], src |-> "group", i |-> gi[w], who |-> m, ch |-> c]

\* The channels member m of the current group gets a delivery on.
Wanted(w, m) == request[job[w]].channels \cap Providers \cap Reach[m]

Spawn(K) == task' = [k \in Key |-> IF k \in K THEN T("spawned", 0, "unset") ELSE task[k]]

\* SMS is gated here, once, by the member's subscription. Any error of the
\* lookup counts as "not subscribed". A withheld SMS is recorded in line, so its
\* target goes straight to "done".
ExpandMember(w, m) ==
  LET sms    == GroupKey(w, m, "sms")
      others == {GroupKey(w, m, c) : c \in Wanted(w, m) \ {"sms"}}
      Withheld == task' = [k \in Key |-> IF k = sms THEN T("done", 0, "unset")
                             ELSE IF k \in others THEN T("spawned", 0, "unset")
                             ELSE task[k]]
  IN
  /\ pc[w] = "expand"
  /\ m \in todo[w]
  /\ todo' = [todo EXCEPT ![w] = @ \ {m}]
  /\ \/ /\ "sms" \notin Wanted(w, m)
        /\ Spawn(others)
        /\ UNCHANGED <<rows, faulted>>
     \/ /\ "sms" \in Wanted(w, m)
        /\ m \in subs
        /\ DbOk
        /\ Spawn(others \cup {sms})
        /\ UNCHANGED rows
     \/ /\ "sms" \in Wanted(w, m)
        /\ ~ctxDone
        /\ m \notin subs \/ DbMayFail
        /\ faulted' = (faulted \/ m \in subs)
        /\ rows' = [rows EXCEPT ![sms] = Append(@, [status |-> "not_subscribed", attempt |-> 0])]
        /\ Withheld
     \/ /\ "sms" \in Wanted(w, m)
        /\ m \notin subs \/ DbMayFail \/ ctxDone
        /\ DbError
        /\ Withheld
        /\ UNCHANGED rows
  /\ UNCHANGED <<request, status, memberCount, envVars, pub, queue, pc, job, gi, total,
                 sem, ctxDone, accepted, restarts>>

\* Mutant: the worker takes a token of its own while it waits for its deliveries.
SpawnHoldingToken(w) ==
  LET ds == request[job[w]].dests IN
  /\ pc[w] = "expand"
  /\ todo[w] = {}
  /\ gi[w] >= Len(request[job[w]].groups)
  /\ sem < Concurrency
  /\ sem' = sem + 1
  /\ Spawn({[n |-> job[w], src |-> "dest", i |-> j, who |-> ds[j].who, ch |-> ds[j].ch]
               : j \in 1..Len(ds)})
  /\ pc' = [pc EXCEPT ![w] = "wait"]
  /\ UNCHANGED <<dbVars, envVars, pub, queue, job, gi, todo, total, ctxDone,
                 accepted, faulted, restarts>>

\* One goroutine per destination, whatever its channel.
SpawnDestinations(w) ==
  LET ds == request[job[w]].dests IN
  /\ pc[w] = "expand"
  /\ todo[w] = {}
  /\ gi[w] >= Len(request[job[w]].groups)
  /\ Spawn({[n |-> job[w], src |-> "dest", i |-> j, who |-> ds[j].who, ch |-> ds[j].ch]
               : j \in 1..Len(ds)})
  /\ pc' = [pc EXCEPT ![w] = "wait"]
  /\ UNCHANGED <<dbVars, envVars, pub, queue, job, gi, todo, total, sem, ctxDone,
                 accepted, faulted, restarts>>

TotalTargets(w) == total[w] + Len(request[job[w]].dests)

Finished(k) == task[k].st \in {"none", "done"}

\* Mutant: the final status is written without wg.Wait.
FinishAtOnce(w) ==
  /\ pc[w] = "wait"
  /\ SetStatus(job[w], IF TotalTargets(w) = 0 THEN "failed" ELSE "completed")
  /\ pc' = [pc EXCEPT ![w] = "count"]
  /\ UNCHANGED <<request, memberCount, rows, envVars, pub, queue, job, gi, todo, total,
                 task, sem, ctxDone, accepted, restarts>>

\* Mutant: the final status is written on a context that is never cancelled.
FinishDetached(w) ==
  /\ pc[w] = "wait"
  /\ \A k \in Key : k.n = job[w] => Finished(k)
  /\ status' = [status EXCEPT ![job[w]] = IF TotalTargets(w) = 0 THEN "failed" ELSE "completed"]
  /\ pc' = [pc EXCEPT ![w] = "count"]
  /\ UNCHANGED <<request, memberCount, rows, envVars, pub, queue, job, gi, todo, total,
                 task, sem, ctxDone, accepted, faulted, restarts>>

\* wg.Wait, then the final status.
Finish(w) ==
  /\ pc[w] = "wait"
  /\ \A k \in Key : k.n = job[w] => Finished(k)
  /\ SetStatus(job[w], IF TotalTargets(w) = 0 THEN "failed" ELSE "completed")
  /\ pc' = [pc EXCEPT ![w] = "count"]
  /\ UNCHANGED <<request, memberCount, rows, envVars, pub, queue, job, gi, todo, total,
                 task, sem, ctxDone, accepted, restarts>>

CountMembers(w) ==
  /\ pc[w] = "count"
  /\ \/ DbOk /\ memberCount' = [memberCount EXCEPT ![job[w]] = TotalTargets(w)]
     \/ DbError /\ UNCHANGED memberCount
  /\ EndJob(w)
  /\ UNCHANGED <<request, status, rows, envVars, pub, queue, todo, task, sem, ctxDone,
                 accepted, restarts>>

-----------------------------------------------------------------------------
\* A delivery goroutine.

MaxTries(k) == IF k.ch = "email" THEN 1 ELSE RetryLimit

\* The head of the retry loop: with a limit of 0 nothing is ever sent.
LoopHead(k) == T(IF MaxTries(k) = 0 THEN "insert" ELSE "send", 0, "unset")

\* Mutant: the token is released twice.
ReturnReleasesTwice(k) ==
  /\ task' = [task EXCEPT ![k] = T("done", @.tries, @.res)]
  /\ sem' = sem - 2

\* Returning from the goroutine releases the token (deferred) and calls wg.Done.
Return(k) ==
  /\ task' = [task EXCEPT ![k] = T("done", @.tries, @.res)]
  /\ sem' = sem - 1

\* A group's SMS or voice delivery starts sending at once. An email is prepared
\* first, and a destination is looked at first.
Acquire(k) ==
  /\ task[k].st = "spawned"
  /\ sem < Concurrency
  /\ sem' = sem + 1
  /\ task' = [task EXCEPT ![k] = IF k.src = "dest" \/ k.ch = "email"
                                   THEN T("started", 0, "unset") ELSE LoopHead(k)]
  /\ UNCHANGED <<dbVars, envVars, pub, queue, jobVars, ctxDone, accepted, faulted, restarts>>

\* A destination whose channel has no provider is dropped without a record.
SkipDestination(k) ==
  /\ task[k].st = "started"
  /\ k.ch \notin Providers
  /\ Return(k)
  /\ UNCHANGED <<dbVars, envVars, pub, queue, jobVars, ctxDone, accepted, faulted, restarts>>

StartDestination(k) ==
  /\ task[k].st = "started"
  /\ k.ch \in Providers \ {"email"}
  /\ \/ k.ch = "sms" /\ k.who \in subs /\ DbOk
     \/ k.ch = "voice" /\ UNCHANGED faulted
  /\ task' = [task EXCEPT ![k] = LoopHead(k)]
  /\ UNCHANGED <<dbVars, envVars, pub, queue, jobVars, sem, ctxDone, accepted, restarts>>

\* An SMS destination whose number is not registered, or whose lookup failed.
WithholdDestination(k) ==
  /\ task[k].st = "started"
  /\ k.ch = "sms"
  /\ k.ch \in Providers
  /\ k.who \notin subs \/ DbMayFail \/ ctxDone
  /\ \/ /\ ~ctxDone
        /\ faulted' = (faulted \/ k.who \in subs)
        /\ rows' = [rows EXCEPT ![k] = Append(@, [status |-> "not_subscribed", attempt |-> 0])]
     \/ DbError /\ UNCHANGED rows
  /\ Return(k)
  /\ UNCHANGED <<request, status, memberCount, envVars, pub, queue, jobVars, ctxDone,
                 accepted, restarts>>

\* Template, event, variables and rendering: either all succeed or the
\* delivery is recorded as failed without a send.
PrepareEmail(k) ==
  /\ task[k].st = "started"
  /\ k.ch = "email"
  /\ k.ch \in Providers
  /\ \/ DbOk /\ task' = [task EXCEPT ![k] = LoopHead(k)]
     \/ UNCHANGED faulted /\ task' = [task EXCEPT ![k] = T("insert", 1, "failed")]
     \/ DbError /\ task' = [task EXCEPT ![k] = T("insert", 1, "failed")]
  /\ UNCHANGED <<dbVars, envVars, pub, queue, jobVars, sem, ctxDone, accepted, restarts>>

\* Mutant: finalAttempt = n instead of n + 1.
SendCountsFromZero(k) ==
  /\ task[k].st = "send"
  /\ LET tries == task[k].tries + 1 IN
     \/ /\ accepted' = [accepted EXCEPT ![k] = @ + 1]
        /\ task' = [task EXCEPT ![k] = T("insert", @.tries, "accepted")]
     \/ /\ accepted' \in {accepted, [accepted EXCEPT ![k] = @ + 1]}
        /\ task' = [task EXCEPT ![k] = IF tries < MaxTries(k)
                                         THEN T("backoff", tries, "failed")
                                         ELSE T("insert", @.tries, "failed")]
  /\ UNCHANGED <<dbVars, envVars, pub, queue, jobVars, sem, ctxDone, faulted, restarts>>

\* One call of the provider. It may accept and say so, fail, or accept and have
\* its answer lost, which the sender sees as a failure.
Send(k) ==
  /\ task[k].st = "send"
  /\ LET tries == task[k].tries + 1 IN
     \/ /\ accepted' = [accepted EXCEPT ![k] = @ + 1]
        /\ task' = [task EXCEPT ![k] = T("insert", tries, "accepted")]
     \/ /\ accepted' \in {accepted, [accepted EXCEPT ![k] = @ + 1]}
        /\ task' = [task EXCEPT ![k] = IF tries < MaxTries(k)
                                         THEN T("backoff", tries, "failed")
                                         ELSE T("insert", tries, "failed")]
  /\ UNCHANGED <<dbVars, envVars, pub, queue, jobVars, sem, ctxDone, faulted, restarts>>

\* The delay is over; if the context is cancelled as well, select picks either.
Resend(k) ==
  /\ task[k].st = "backoff"
  /\ task' = [task EXCEPT ![k] = T("send", @.tries, @.res)]
  /\ UNCHANGED <<dbVars, envVars, pub, queue, jobVars, sem, ctxDone, accepted, faulted, restarts>>

\* Mutant: giving up on cancellation does not release the token.
AbandonLeaksToken(k) ==
  /\ task[k].st = "backoff"
  /\ ctxDone
  /\ task' = [task EXCEPT ![k] = T("done", @.tries, @.res)]
  /\ UNCHANGED <<dbVars, envVars, pub, queue, jobVars, sem, ctxDone, accepted, faulted, restarts>>

Abandon(k) ==
  /\ task[k].st = "backoff"
  /\ ctxDone
  /\ Return(k)
  /\ UNCHANGED <<dbVars, envVars, pub, queue, jobVars, ctxDone, accepted, faulted, restarts>>

\* Recording the outcome; if the insert fails the outcome is only logged.
RecordDelivery(k) ==
  /\ task[k].st = "insert"
  /\ \/ /\ DbOk
        /\ rows' = [rows EXCEPT ![k] = Append(@, [status |-> task[k].res, attempt |-> task[k].tries])]
     \/ DbError /\ UNCHANGED rows
  /\ Return(k)
  /\ UNCHANGED <<request, status, memberCount, envVars, pub, queue, jobVars, ctxDone,
                 accepted, restarts>>

-----------------------------------------------------------------------------
\* The process and its surroundings.

Cancel ==
  /\ ~ctxDone
  /\ ctxDone' = TRUE
  /\ UNCHANGED <<dbVars, envVars, pub, queue, jobVars, task, sem, accepted, faulted, restarts>>

\* Mutant: a restart naively takes up a notification that was left processing.
RestartRequeues ==
  /\ restarts < MaxRestarts
  /\ restarts' = restarts + 1
  /\ pub' = [n \in Notif |-> IF pub[n] = "inserted" THEN "lost" ELSE pub[n]]
  /\ \E n \in Notif : queue' = IF status[n] = "processing" THEN <<n>> ELSE <<>>
  /\ pc' = [w \in Worker |-> "idle"]
  /\ job' = [w \in Worker |-> NoJob]
  /\ gi' = [w \in Worker |-> 0]
  /\ todo' = [w \in Worker |-> {}]
  /\ total' = [w \in Worker |-> 0]
  /\ task' = [k \in Key |-> NoTask]
  /\ sem' = 0
  /\ ctxDone' = FALSE
  /\ UNCHANGED <<dbVars, envVars, accepted, faulted>>

\* The process ends (after a signal, without waiting for its workers, or by a
\* crash) and starts again with an empty queue. Nothing reads pending or
\* processing notifications back.
Restart ==
  /\ restarts < MaxRestarts
  /\ restarts' = restarts + 1
  /\ pub' = [n \in Notif |-> IF pub[n] = "inserted" THEN "lost" ELSE pub[n]]
  /\ queue' = <<>>
  /\ pc' = [w \in Worker |-> "idle"]
  /\ job' = [w \in Worker |-> NoJob]
  /\ gi' = [w \in Worker |-> 0]
  /\ todo' = [w \in Worker |-> {}]
  /\ total' = [w \in Worker |-> 0]
  /\ task' = [k \in Key |-> NoTask]
  /\ sem' = 0
  /\ ctxDone' = FALSE
  /\ UNCHANGED <<dbVars, envVars, accepted, faulted>>

Subscribe(m) ==
  /\ changes < MaxChanges /\ changes' = changes + 1
  /\ m \notin subs
  /\ subs' = subs \cup {m}
  /\ UNCHANGED <<dbVars, members, pub, queue, jobVars, task, sem, ctxDone, accepted,
                 faulted, restarts>>

Unsubscribe(m) ==
  /\ changes < MaxChanges /\ changes' = changes + 1
  /\ m \in subs
  /\ subs' = subs \ {m}
  /\ UNCHANGED <<dbVars, members, pub, queue, jobVars, task, sem, ctxDone, accepted,
                 faulted, restarts>>

\* The directory synchronisation replaces a group's members in one transaction.
SyncGroup(g, S) ==
  /\ changes < MaxChanges /\ changes' = changes + 1
  /\ members' = [members EXCEPT ![g] = S]
  /\ UNCHANGED <<dbVars, subs, pub, queue, jobVars, task, sem, ctxDone, accepted,
                 faulted, restarts>>

-----------------------------------------------------------------------------
Publish == \E n \in Notif : PublishEnqueue(n) \/ \E r \in Requests : PublishInsert(n, r)

WorkerStep(w) ==
  \/ Take(w) \/ Stop(w) \/ Load(w) \/ Mark(w) \/ ListMembers(w)
  \/ \E m \in Member : ExpandMember(w, m)
  \/ SpawnDestinations(w) \/ Finish(w) \/ CountMembers(w)

DeliveryStep(k) ==
  \/ Acquire(k) \/ SkipDestination(k) \/ StartDestination(k) \/ WithholdDestination(k)
  \/ PrepareEmail(k) \/ Send(k) \/ Resend(k) \/ Abandon(k) \/ RecordDelivery(k)

Environment ==
  \/ Cancel \/ Restart
  \/ \E m \in Member : Subscribe(m) \/ Unsubscribe(m)
  \/ \E g \in Group, S \in SUBSET Member : SyncGroup(g, S)

Next ==
  \/ Publish
  \/ \E w \in Worker : WorkerStep(w)
  \/ \E k \in Key : DeliveryStep(k)
  \/ Environment

Spec == Init /\ [][Next]_vars

\* Goroutines run: a handler that stored its row goes on to offer the job, a
\* worker and a delivery that can move do. HTTP clients and the SMTP dialer
\* have timeouts, so a provider call ends.
Fairness ==
  /\ \A n \in Notif : WF_vars(PublishEnqueue(n))
  /\ \A w \in Worker : WF_vars(WorkerStep(w))
  /\ \A k \in Key : WF_vars(DeliveryStep(k))

FairSpec == Spec /\ Fairness

-----------------------------------------------------------------------------
\* Properties.

Closed == {"completed", "failed"}

Holders == {k \in Key : task[k].st \in {"started", "send", "backoff", "insert"}}

\* The tokens taken from the semaphore are exactly the goroutines between
\* acquiring and returning, on every exit path of every delivery function, and
\* never exceed notify.delivery_concurrency: no path leaks a token, so the pool
\* cannot silently shrink until deliveries hang.
SemaphoreExact ==
  /\ sem = Cardinality(Holders)
  /\ sem <= Concurrency

\* What a delivery row says is true of the provider: at most one row per target
\* over all restarts, no more messages accepted than the attempts it reports, no
\* more attempts than allowed, "accepted" only if a message was accepted,
\* "failed" only after every attempt was used up, "not_subscribed" only if
\* nothing went out.
RowTruthful(k) ==
  LET r == rows[k][1] IN
  rows[k] # <<>> =>
    /\ Len(rows[k]) = 1
    /\ accepted[k] <= r.attempt
    /\ r.attempt <= MaxTries(k)
    /\ r.status = "accepted" => accepted[k] >= 1
    /\ r.status = "failed" => r.attempt = MaxTries(k)
RecordsTruthful == \A k \in Key : RowTruthful(k)

-----------------------------------------------------------------------------
\* The inductive invariant that carries the safety properties: who owns a
\* notification at each moment, which targets have not been touched yet, and how
\* far a delivery is.

Clean(k) == task[k] = NoTask /\ rows[k] = <<>> /\ accepted[k] = 0
Queued(n) == \E i \in DOMAIN queue : queue[i] = n
Busy(w) == pc[w] \in {"load", "mark", "expand", "wait", "count"}
Owned(n) == \E w \in Worker : pc[w] \in {"expand", "wait"} /\ job[w] = n
Unbegun(n) ==
  \/ pub[n] # "enqueued"
  \/ Queued(n)
  \/ \E w \in Worker : pc[w] \in {"load", "mark"} /\ job[w] = n

\* A stored request is one that was validated.
RequestInv ==
  \A n \in Notif :
    Len(request[n].groups) <= MaxEntries /\ Len(request[n].dests) <= MaxEntries

\* An enqueued job is in one place: once in the queue or with one worker.
OneOwner ==
  /\ \A i \in DOMAIN queue : pub[queue[i]] = "enqueued"
  /\ \A i, j \in DOMAIN queue : queue[i] = queue[j] => i = j
  /\ \A w \in Worker : Busy(w) => pub[job[w]] = "enqueued" /\ ~Queued(job[w])
  /\ \A v, w \in Worker : Busy(v) /\ Busy(w) /\ job[v] = job[w] => v = w

\* Its status says how far it is.
StatusInv ==
  /\ \A n \in Notif : pub[n] = "none" => status[n] = "absent"
  /\ \A n \in Notif : pub[n] # "none" /\ Unbegun(n) => status[n] = "pending"
  /\ \A n \in Notif : Owned(n) => status[n] \in {"pending", "processing"}

\* Nothing is known of the targets of a notification no worker has expanded.
UnbegunClean == \A k \in Key : Unbegun(k.n) => Clean(k)

\* A worker expands group after group, member after member, destinations last.
ExpandInv ==
  \A w \in Worker :
    /\ todo[w] # {} => pc[w] = "expand" /\ gi[w] >= 1
    /\ pc[w] \in {"idle", "load", "mark"} => gi[w] = 0
    /\ pc[w] = "expand" =>
         /\ gi[w] <= Len(request[job[w]].groups)
         /\ \A k \in Key :
              /\ k.n = job[w]
              /\ k.src = "dest" \/ k.i > gi[w] \/ (k.i = gi[w] /\ k.who \in todo[w])
              => Clean(k)

\* A delivery in progress belongs to a notification some worker waits for.
ActiveOwned == \A k \in Key : ~Finished(k) => Owned(k.n)

\* A delivery in progress has no row yet; its tries bound what was accepted.
TaskOK(k) ==
  LET t == task[k] IN
  /\ ~Finished(k) => rows[k] = <<>>
  /\ t.st \in {"spawned", "started"} => accepted[k] = 0
  /\ t.st \in {"send", "backoff"} => accepted[k] <= t.tries /\ t.tries < MaxTries(k)
  /\ t.st = "insert" =>
       /\ accepted[k] <= t.tries /\ t.tries <= MaxTries(k)
       /\ t.res = "accepted" => accepted[k] >= 1
       /\ t.res = "failed" => t.tries = MaxTries(k)
  /\ t.st = "done" /\ k.ch \in Providers /\ ~ctxDone /\ ~faulted => rows[k] # <<>>
TaskInv == \A k \in Key : TaskOK(k)

SemaphoreInv == IsFiniteSet(Holders) /\ SemaphoreExact

OwnerInv == RequestInv /\ OneOwner /\ StatusInv /\ UnbegunClean /\ ExpandInv /\ ActiveOwned
RecordInv == TaskInv /\ RecordsTruthful

DispatchInv == TypeOK /\ OwnerInv /\ RecordInv /\ SemaphoreInv

\* The members and destinations of a notification, as entry and owner: those that
\* something is known of, and those that have a record.
Targets(K) == {<<k.src, k.i, k.who>> : k \in K}
Touched(n) == Targets({k \in Key : k.n = n /\ ~Clean(k)})
Recorded(n) == Targets({k \in Key : k.n = n /\ rows[k] # <<>>})

\* totalMembers counts every member that was or will be expanded and, with the
\* destinations, every target that was touched.
JobCount(w) ==
  /\ pc[w] = "expand" => Cardinality(Touched(job[w])) + Cardinality(todo[w]) <= total[w]
  /\ pc[w] \in {"wait", "count"} => Cardinality(Touched(job[w])) <= TotalTargets(w)

\* The count is stored by the last step of a job.
StoredCount(n) ==
  memberCount[n] # 0 =>
    /\ pub[n] = "enqueued" /\ ~Queued(n)
    /\ \A w \in Worker : Busy(w) => job[w] # n
    /\ Cardinality(Recorded(n)) <= memberCount[n]

-----------------------------------------------------------------------------
\* A notification marked "failed" (no targets found) has no record and nothing
\* was sent for it, even when some groups could not be listed.
FailedSentNothing ==
  \A k \in Key : status[k.n] = "failed" => rows[k] = <<>> /\ accepted[k] = 0

\* member_count is either still 0 or at least the number of targets that have a
\* record, so a reader never sees more recipients than the count.
CountCoversTargets ==
  \A n \in Notif : memberCount[n] > 0 => Cardinality(Recorded(n)) <= memberCount[n]

\* The inductive invariant behind these two.
CountInv ==
  /\ \A w \in Worker : JobCount(w)
  /\ \A n \in Notif : StoredCount(n)
  /\ FailedSentNothing

\* A notification becomes "completed" only when every target it was expanded to
\* has its record (a destination without a provider has none): also across a
\* shutdown, where deliveries are abandoned and inserts fail, because the same
\* cancelled context stops the final update. Database errors excepted.
CompletedIsRecorded ==
  [][\A k \in Key :
       (status[k.n] # "completed" /\ status'[k.n] = "completed" /\ ~faulted)
         => (task[k].st # "none" /\ k.ch \in Providers => Len(rows[k]) = 1)]_vars

\* Once a notification is closed no goroutine still works for it: no row is
\* added and no message goes out (wg.Wait before the final status).
NothingAfterClose ==
  [][\A k \in Key : status[k.n] \in Closed
       => rows'[k] = rows[k] /\ accepted'[k] = accepted[k]]_vars

\* README.md:306 and :366: a member must have an active SMS subscription before
\* the dispatcher sends them an SMS. The code looks once, before the delivery
\* waits for the semaphore and for its retries.
SmsOnlyToSubscribed ==
  [][\A k \in Key : k.ch = "sms" /\ accepted'[k] > accepted[k] => k.who \in subs]_vars

\* Seen through the API, dispatching is the simple life cycle of Lifecycle.tla.
Life == INSTANCE Lifecycle
ImplementsLifecycle == Life!LSpec

\* A job that was enqueued is closed, unless the process is told to stop, dies, or
\* the database fails.
EnqueuedIsClosed ==
  \A n \in Notif :
    pub[n] = "enqueued" ~>
      (status[n] \in Closed \/ ctxDone \/ faulted \/ restarts > 0)
=============================================================================
