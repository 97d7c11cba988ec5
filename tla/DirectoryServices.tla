-------------------------- MODULE DirectoryServices --------------------------
(***************************************************************************)
(* Everything that lives on the directory, composed: the administrators'    *)
(* handlers and the group syncer, which share the tables and the one writer *)
(* connection, and the authentication of requests with its cache and the    *)
(* sessions. All of them read the same changing directory and the same      *)
(* clock, fail by the same faults and die together.                         *)
(***************************************************************************)
EXTENDS GroupSync, Access

vars == <<dirVars, regVars, syncVars, cacheVars, accessVars>>

TypeOK == DirTypeOK /\ RegTypeOK /\ SyncTypeOK /\ AccessTypeOK

Init == DirInit /\ RegInit /\ SyncInit /\ AccessInit

RegistryStep(c) ==
  /\ \/ \E a \in load.asks[c] : Arrive(c, a) /\ UNCHANGED dirVars
     \/ Handle(c) /\ UNCHANGED dirVars
     \/ CallFails(c)
  /\ UNCHANGED <<syncVars, cacheVars, accessVars>>

SyncStep ==
  /\ (Sync /\ UNCHANGED dirVars) \/ SyncFails
  /\ UNCHANGED <<cacheVars, accessVars>>

AccessStep(v) ==
  /\ (Serve(v) /\ UNCHANGED dirVars) \/ DirectoryFails(v)
  /\ UNCHANGED <<regVars, syncVars>>

SweepStep ==
  /\ SweepStart \/ Sweep
  /\ UNCHANGED <<dirVars, regVars, syncVars>>

\* What happens around the program.
World ==
  /\ DirectoryChange \/ Replicate \/ Tick
  /\ UNCHANGED <<regVars, syncVars, cacheVars, accessVars>>

\* The process dies and is started again.
Crash ==
  /\ Spend("crashes")
  /\ UNCHANGED <<load, now, contents, gone>>
  /\ RegCrash /\ SyncCrash /\ AccessCrash

Next ==
  \/ \E c \in Client : RegistryStep(c)
  \/ SyncStep
  \/ \E v \in Visitor : AccessStep(v)
  \/ SweepStep
  \/ World
  \/ Crash

Spec == Init /\ [][Next]_vars

\* The syncer's loop and the sweeper keep running; a handler keeps going, and gets the
\* writer connection when it waits for it again and again (database/sql serves
\* waiting requests in order).
Fairness ==
  /\ WF_vars(SyncStep)
  /\ WF_vars(SweepStep)
  /\ \A c \in Client : SF_vars(Handle(c) /\ UNCHANGED <<dirVars, syncVars, cacheVars, accessVars>>)

FairSpec == Spec /\ Fairness
=============================================================================
