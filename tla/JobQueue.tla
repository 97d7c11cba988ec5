------------------------------ MODULE JobQueue -------------------------------
(***************************************************************************)
(* The channel of jobs between everybody who stores a notification and the  *)
(* dispatcher's workers: bounded, shared, and never waited for by a         *)
(* producer. A job that finds it full is not queued, and its notification   *)
(* stays pending. What happens to a job a worker takes is Dispatcher's.     *)
(***************************************************************************)
EXTENDS Integers, FiniteSets, Sequences, SequencesExt

CONSTANTS
  QueueCap,     \* 256 in main.go
  IntakeLoads   \* bound: the instances: [roles, rcpts, mails, asks, faults]

ASSUME QueueAssumption ==
  QueueCap \in Nat \ {0} /\ \A l \in IntakeLoads : l.faults \in Nat

VARIABLES
  load,    \* the load of this behaviour
  faults,  \* how many more calls of the database or the directory may fail
  queue,   \* the notifications in the channel
  taken    \* those a worker took

queueVars == <<load, faults, queue, taken>>

QueueInit ==
  /\ load \in IntakeLoads
  /\ faults = load.faults
  /\ queue = <<>> /\ taken = {}

Room == Len(queue) < QueueCap
Queued(j) == j \in ToSet(queue) \cup taken

\* select with a default: a full channel is not waited for.
Offer(j) == queue' = IF Room THEN Append(queue, j) ELSE queue

\* A worker takes the next job.
Take ==
  /\ queue # <<>>
  /\ queue' = Tail(queue) /\ taken' = taken \cup {Head(queue)}
  /\ UNCHANGED <<load, faults>>

\* A call fails.
Trouble == faults > 0 /\ faults' = faults - 1 /\ UNCHANGED <<load, queue, taken>>
=============================================================================
