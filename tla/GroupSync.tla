------------------------------ MODULE GroupSync ------------------------------
(***************************************************************************)
(* The group syncer (ldap/sync.go): a loop that reads the list of sync      *)
(* groups, drops the members of groups that are no longer listed, and       *)
(* replaces those of each listed group by what the directory says, in a     *)
(* transaction. The members are found in two queries: where the group is,   *)
(* and who has it, so named, in memberOf. Handlers add and remove sync      *)
(* groups and the directory changes between any two steps. The ticker may   *)
(* fire at any time. The server answers the second query from one content,  *)
(* although its pages are fetched one by one.                               *)
(***************************************************************************)
EXTENDS Registry

CONSTANTS
  Nameless,  \* entries without a sAMAccountName; they are not stored
  NoPlace
ASSUME NamelessAssumption == Nameless \subseteq Users /\ NoPlace \notin Places

VARIABLES
  groupMembers,  \* the group_members table: groupMembers[g] as last committed
  doing,         \* off, idle, names, clean, connect, groups, search, begin, insert
  listed,        \* the sync groups this cycle read
  orphans,       \* groups with members that are not listed, still to be deleted
  conn,          \* the server it is connected to, or none
  todo,          \* listed groups still to be searched
  group,         \* the group at hand, or NoGroup
  dn,            \* where that group was found, or NoPlace
  found,         \* what the search for the group at hand returned
  inTx,          \* the members the open transaction has inserted
  floor          \* ghost: the oldest content a server had when the cycle began, 0 between cycles

fetch == <<group, dn, found, inTx>>
cycle == <<listed, orphans, conn, todo, fetch, floor>>
syncVars == <<groupMembers, doing, cycle>>

SyncTypeOK ==
  /\ groupMembers \in [Groups -> SUBSET (Users \ Nameless)]
  /\ doing \in {"off", "idle", "names", "clean", "connect", "groups", "search", "begin", "insert"}
  /\ listed \subseteq Groups /\ orphans \subseteq Groups /\ todo \subseteq Groups
  /\ group \in Groups \cup {NoGroup}
  /\ conn \in Server \cup {"none"} /\ dn \in Places \cup {NoPlace}
  /\ found \subseteq Users /\ inTx \subseteq found
  /\ floor \in 0..Oldest
  /\ held <=> doing = "insert"

SyncInit ==
  /\ groupMembers = [g \in Groups |-> {}]
  /\ doing = IF load.syncer THEN "idle" ELSE "off"
  /\ listed = {} /\ orphans = {} /\ conn = "none" /\ todo = {} /\ floor = 0
  /\ group = NoGroup /\ dn = NoPlace /\ found = {} /\ inTx = {}

-----------------------------------------------------------------------------
SyncGroups == {g \in Groups : rows["sync_groups"][g] # NoRow}

\* What is known of the group at hand is forgotten when syncGroup returns, and
\* what the cycle read when it ends.
NoFetch == group' = NoGroup /\ dn' = NoPlace /\ found' = {} /\ inTx' = {}
NoCycle == listed' = {} /\ orphans' = {} /\ conn' = "none" /\ todo' = {} /\ floor' = 0 /\ NoFetch
EndCycle == doing' = "idle" /\ NoCycle

\* Mutant: a cycle without sync groups ends before the cleanup.
ListSkipsEmpty ==
  /\ doing = "idle" /\ WriterFree /\ SyncGroups # {}
  /\ listed' = SyncGroups
  /\ floor' = Oldest
  /\ doing' = "names"
  /\ UNCHANGED <<groupMembers, orphans, conn, todo, fetch, regVars>>

\* The ticker fires: the cycle reads the list.
List ==
  /\ doing = "idle" /\ WriterFree
  /\ listed' = SyncGroups
  /\ floor' = Oldest
  /\ doing' = "names"
  /\ UNCHANGED <<groupMembers, orphans, conn, todo, fetch, regVars>>

ListNames ==
  /\ doing = "names" /\ WriterFree
  /\ orphans' = {g \in Groups : groupMembers[g] # {}} \ listed
  /\ doing' = "clean"
  /\ UNCHANGED <<groupMembers, listed, conn, todo, fetch, floor, regVars>>

CleanGroup(g) ==
  /\ doing = "clean" /\ g \in orphans /\ WriterFree
  /\ groupMembers' = [groupMembers EXCEPT ![g] = {}]
  /\ orphans' = orphans \ {g}
  /\ UNCHANGED <<doing, listed, conn, todo, fetch, floor, regVars>>

\* Without sync groups the cycle ends before it connects.
CleanDone ==
  /\ doing = "clean" /\ orphans = {}
  /\ IF listed = {} THEN EndCycle ELSE doing' = "connect" /\ UNCHANGED cycle
  /\ UNCHANGED <<groupMembers, regVars>>

\* Mutant: groups that have members already are not searched again.
ConnectNewOnly ==
  /\ doing = "connect"
  /\ doing' = "groups" /\ todo' = {g \in listed : groupMembers[g] = {}}
  /\ conn' \in Server
  /\ UNCHANGED <<groupMembers, listed, orphans, fetch, floor, regVars>>

\* The first server that answers is used, the backup when the primary does not.
Connect ==
  /\ doing = "connect"
  /\ doing' = "groups" /\ todo' = listed
  /\ conn' \in Server
  /\ UNCHANGED <<groupMembers, listed, orphans, fetch, floor, regVars>>

\* The first query. A group the server does not know is skipped: its members stay.
Resolve(g) ==
  /\ doing = "groups" /\ g \in todo
  /\ todo' = todo \ {g}
  /\ IF g \in DOMAIN Seen(conn).groups
     THEN doing' = "search" /\ group' = g /\ dn' = Seen(conn).groups[g].place
     ELSE UNCHANGED <<doing, group, dn>>
  /\ UNCHANGED <<groupMembers, listed, orphans, conn, found, inTx, floor, regVars>>

\* The second query. If the group is no longer where it was found, nobody has it under
\* that name, which is no error.
Search ==
  /\ doing = "search"
  /\ found' = PeopleAt(Seen(conn).groups, group, dn)
  /\ dn' = NoPlace
  /\ doing' = "begin"
  /\ UNCHANGED <<groupMembers, listed, orphans, conn, todo, group, inTx, floor, regVars>>

\* BEGIN takes the writer connection; the old members are deleted in the transaction.
BeginTx ==
  /\ doing = "begin" /\ WriterFree
  /\ held' = TRUE
  /\ doing' = "insert"
  /\ UNCHANGED <<groupMembers, cycle, requests>>

\* Mutant: entries without a name are stored too.
InsertNameless(u) ==
  /\ doing = "insert" /\ u \in found \ inTx
  /\ inTx' = inTx \cup {u}
  /\ UNCHANGED <<groupMembers, doing, listed, orphans, conn, todo, group, dn, found, floor, regVars>>

\* Mutant: the rows are written outside the transaction.
InsertOutside(u) ==
  /\ doing = "insert" /\ u \in found \ (inTx \cup Nameless)
  /\ inTx' = inTx \cup {u}
  /\ groupMembers' = [groupMembers EXCEPT ![group] = inTx']
  /\ UNCHANGED <<doing, listed, orphans, conn, todo, group, dn, found, floor, regVars>>

\* A row of the transaction; entries without a name are skipped.
InsertMember(u) ==
  /\ doing = "insert" /\ u \in found \ (inTx \cup Nameless)
  /\ inTx' = inTx \cup {u}
  /\ UNCHANGED <<groupMembers, doing, listed, orphans, conn, todo, group, dn, found, floor, regVars>>

\* The transaction ends and the connection goes back to the pool.
EndTx ==
  /\ held' = FALSE
  /\ doing' = "groups"
  /\ NoFetch
  /\ UNCHANGED <<listed, orphans, conn, todo, floor, requests>>

Commit ==
  /\ doing = "insert" /\ found \subseteq inTx \cup Nameless
  /\ groupMembers' = [groupMembers EXCEPT ![group] = inTx]
  /\ EndTx

CycleDone ==
  /\ doing = "groups" /\ todo = {}
  /\ EndCycle
  /\ UNCHANGED <<groupMembers, regVars>>

Sync ==
  \/ List \/ ListNames \/ CleanDone \/ Connect \/ Search \/ BeginTx \/ Commit \/ CycleDone
  \/ \E g \in Groups : CleanGroup(g) \/ Resolve(g)
  \/ \E u \in Users : InsertMember(u)

-----------------------------------------------------------------------------
\* Failures. A list that fails ends the cycle, a cleanup that fails is given up for
\* this cycle (one group of it: skipped), a connection that fails ends the cycle, and
\* whatever fails for one group leaves that group for the next cycle.

ListFails == doing = "idle" /\ UNCHANGED <<syncVars, regVars>>

NamesFail ==
  /\ doing = "names"
  /\ IF listed = {} THEN EndCycle ELSE doing' = "connect" /\ UNCHANGED cycle
  /\ UNCHANGED <<groupMembers, regVars>>

CleanFails ==
  /\ doing = "clean"
  /\ \E g \in orphans : orphans' = orphans \ {g}
  /\ UNCHANGED <<groupMembers, doing, listed, conn, todo, fetch, floor, regVars>>

ConnectFails == doing = "connect" /\ EndCycle /\ UNCHANGED <<groupMembers, regVars>>

ResolveFails ==
  /\ doing = "groups"
  /\ \E g \in todo : todo' = todo \ {g}
  /\ UNCHANGED <<groupMembers, doing, listed, orphans, conn, fetch, floor, regVars>>

SearchFails ==
  /\ doing = "search"
  /\ doing' = "groups"
  /\ NoFetch
  /\ UNCHANGED <<groupMembers, listed, orphans, conn, todo, floor, regVars>>

\* Mutant: an error after BEGIN returns without a rollback.
NoRollback ==
  /\ doing \in {"begin", "insert"}
  /\ doing' = "groups"
  /\ NoFetch
  /\ UNCHANGED <<groupMembers, listed, orphans, conn, todo, floor, regVars>>

\* Mutant: what was written before the error is committed.
CommitsRest ==
  /\ doing \in {"begin", "insert"}
  /\ groupMembers' = [groupMembers EXCEPT ![group] = inTx]
  /\ EndTx

\* Any error of the transaction, its commit included, rolls it back.
TxFails ==
  /\ doing \in {"begin", "insert"}
  /\ EndTx
  /\ UNCHANGED groupMembers

SyncFails ==
  /\ Fault
  /\ ListFails \/ NamesFail \/ CleanFails \/ ConnectFails \/ ResolveFails \/ SearchFails \/ TxFails

\* A restart begins with a cycle; memory is lost, an open transaction is rolled back.
SyncCrash ==
  /\ doing' = IF doing = "off" THEN "off" ELSE "idle"
  /\ NoCycle
  /\ UNCHANGED groupMembers

-----------------------------------------------------------------------------
\* The members stored for a group are all of those the directory had at one time, or
\* nobody: never a part of them, never two contents mixed, whatever fails or dies in
\* the middle. (syncGroup: search, then delete and inserts in a transaction.)
SnapshotsOnly ==
  \A g \in Groups : groupMembers[g] # {} =>
    \E i \in DOMAIN contents :
      g \in DOMAIN contents[i].groups /\ groupMembers[g] = contents[i].groups[g].people \ Nameless

\* A reader of group_members sees a group jump, at once, to its members in one content of
\* the directory, never one that every server had left when the cycle began, or to nobody,
\* but only if the group is off the list the cycle read or was removed or moved in the
\* directory during the cycle. ("It runs inside a transaction so readers always see a
\* consistent snapshot", syncGroup: a group is searched before the transaction, whose BEGIN
\* may wait for the writer; cleanupGroups goes by the same list.)
Mirror == INSTANCE GroupMirror WITH
  contents <- [i \in DOMAIN contents |-> contents[i].groups], oldest <- Oldest, active <- SyncGroups,
  busy <- doing \notin {"off", "idle"}, list <- listed, stored <- groupMembers
ImplementsMirror == Mirror!Spec

\* A group that stays off the list loses its members for good, although a cycle that
\* read the older list may still be writing them. (cleanupGroups, on every cycle)
RemovedIsCleaned ==
  load.syncer => \A g \in Groups :
    <>[](rows["sync_groups"][g] = NoRow) => <>[](groupMembers[g] = {})

\* A group that stays on the list and in the directory is mirrored in the end, once
\* the directory stops changing and its servers agree. (syncOnce, one group after the other)
ListedIsMirrored ==
  load.syncer => \A g \in Groups :
    LET present == contents[Latest].groups
    IN <>[](rows["sync_groups"][g] # NoRow /\ g \in DOMAIN present /\ Oldest = Latest) =>
         <>[](g \in DOMAIN present /\ groupMembers[g] = present[g].people \ Nameless)

\* No request waits for the writer connection for ever: whatever happens to the
\* syncer's transaction, it ends. (The rollback deferred in syncGroup.)
EveryoneServed == \A c \in Client : step[c] = "get" ~> step[c] \in {"done", "gone"}
=============================================================================
