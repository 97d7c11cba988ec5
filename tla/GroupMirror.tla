---------------------------- MODULE GroupMirror -----------------------------
(***************************************************************************)
(* What the group_members table promises its readers (the dispatcher, the   *)
(* API), without connections, queries, transactions and failures. In a      *)
(* round, the members of a group on the list are replaced at once, by those *)
(* of one content of the directory that some server still had when the      *)
(* round began. There is one way for such a group to lose everybody without *)
(* anybody leaving it: it was removed, or moved in the directory's tree,    *)
(* since it was looked up. A group off the list is emptied.                 *)
(***************************************************************************)
EXTENDS Integers, Sequences

CONSTANTS
  Groups, Users, Places,
  Nameless  \* persons that are not stored

VARIABLES
  contents,  \* what the directory has contained so far: its groups, their place and people
  oldest,    \* the oldest content some server still has
  active,    \* the groups to be mirrored
  busy,      \* is a round going on
  list,      \* the active groups when it began
  floor,     \* the oldest content when it began
  stored     \* stored[g]: the members a reader sees

vars == <<contents, oldest, active, busy, list, floor, stored>>

Memberships == UNION {[D -> [place : Places, people : SUBSET Users]] : D \in SUBSET Groups}

Init ==
  /\ contents \in {<<c>> : c \in Memberships} /\ oldest = 1
  /\ active \in SUBSET Groups
  /\ busy = FALSE /\ list = {} /\ floor = 0
  /\ stored = [g \in Groups |-> {}]

\* Without a backup server the content before the edit is gone at once.
DirectoryChange ==
  /\ \E c \in Memberships : contents' = Append(contents, c)
  /\ oldest' \in {oldest, oldest + 1}
  /\ UNCHANGED <<active, busy, list, floor, stored>>

Replicate ==
  /\ oldest < Len(contents) /\ oldest' = oldest + 1
  /\ UNCHANGED <<contents, active, busy, list, floor, stored>>

Configure ==
  /\ active' \in SUBSET Groups
  /\ UNCHANGED <<contents, oldest, busy, list, floor, stored>>

Begin ==
  /\ ~busy
  /\ busy' = TRUE /\ list' = active /\ floor' = oldest
  /\ UNCHANGED <<contents, oldest, active, stored>>

\* The group has been at this place in content i: its members there in the same or a
\* later content.
Members(g, i, j) ==
  IF g \in DOMAIN contents[j] /\ contents[j][g].place = contents[i][g].place
  THEN contents[j][g].people ELSE {}

Replace(g) ==
  /\ busy /\ g \in list
  /\ \E i, j \in floor..Len(contents) :
       /\ i <= j /\ g \in DOMAIN contents[i]
       /\ stored' = [stored EXCEPT ![g] = Members(g, i, j) \ Nameless]
  /\ UNCHANGED <<contents, oldest, active, busy, list, floor>>

Drop(g) ==
  /\ busy /\ g \notin list
  /\ stored' = [stored EXCEPT ![g] = {}]
  /\ UNCHANGED <<contents, oldest, active, busy, list, floor>>

End ==
  /\ busy
  /\ busy' = FALSE /\ list' = {} /\ floor' = 0
  /\ UNCHANGED <<contents, oldest, active, stored>>

Next ==
  \/ DirectoryChange \/ Replicate \/ Configure \/ Begin \/ End
  \/ \E g \in Groups : Replace(g) \/ Drop(g)

Spec == Init /\ [][Next]_vars
=============================================================================
