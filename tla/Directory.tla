------------------------------ MODULE Directory ------------------------------
(***************************************************************************)
(* What the program cannot control and reads again and again: the LDAP      *)
(* directory (which groups exist, where in the tree, who is a member of     *)
(* them, what everybody's password is), the clock, and the failures of      *)
(* directory and database calls. The directory is code of somebody else,    *)
(* modelled from the queries of src/ldap: edits are made on the primary     *)
(* server and taken over by the backup, if there is one, in their order and *)
(* at any time later. All of it is bounded by a budget that a behaviour     *)
(* spends: the load it starts with says what may happen in it.              *)
(***************************************************************************)
EXTENDS Integers, FiniteSets, Sequences, Functions

CONSTANTS
  Groups,     \* names of groups; the admins' other tables use them as names too
  Users,      \* entries that are persons
  Passwords,
  Places,     \* where a group can be: the rest of its distinguished name
  Loads       \* bound: the instances: what is active, asked for and may fail

\* asks, visits: what each client and visitor may ask for; syncer: is the group syncer running;
\* backup: has the directory a backup server; edited: the persons and groups whose entries
\* change; budget: how many faults, crashes, changes of the directory and steps of the clock.
Budget == {"faults", "crashes", "changes", "time"}

ASSUME LoadsAssumption ==
  \A l \in Loads :
    /\ l.syncer \in BOOLEAN /\ l.backup \in BOOLEAN
    /\ l.edited \subseteq Users \cup Groups /\ l.budget \in [Budget -> Nat]

ASSUME PasswordsAssumption == Passwords # {} /\ Places # {}

VARIABLES
  load,      \* the load of this behaviour
  budget,    \* what is left of its budget
  now,       \* the clock
  contents,  \* what the primary server has contained so far, the last of them now
  gone       \* gone[i]: when contents[i] left the backup, and so the directory

dirVars == <<load, budget, now, contents, gone>>

\* A content: each group it has with its place and its persons, and everybody's password.
Entries == [place : Places, people : SUBSET Users]
Memberships == UNION {[D -> Entries] : D \in SUBSET Groups}
Content == [groups : Memberships, password : [Users -> Passwords]]

DirTypeOK ==
  /\ load \in Loads
  /\ budget \in [Budget -> Nat]
  /\ now \in Nat
  /\ \A i \in DOMAIN contents :
       /\ DOMAIN contents[i].groups \subseteq Groups
       /\ \A g \in DOMAIN contents[i].groups : contents[i].groups[g] \in Entries
       /\ contents[i].password \in [Users -> Passwords]
  /\ \A i \in DOMAIN gone : gone[i] \in Nat
  /\ Len(gone) < Len(contents)

DirInit ==
  /\ load \in Loads
  /\ budget = load.budget
  /\ now = 0
  /\ contents = <<[groups |-> [g \in Groups |-> [place |-> CHOOSE p \in Places : TRUE, people |-> Users]],
                   password |-> [u \in Users |-> CHOOSE p \in Passwords : TRUE]]>>
  /\ gone = <<>>

Spend(what) ==
  /\ budget[what] > 0
  /\ budget' = [budget EXCEPT ![what] = @ - 1]

\* Which content a server has. Without a backup its content is the primary's.
Server == IF load.backup THEN {"primary", "backup"} ELSE {"primary"}
Latest == Len(contents)
Oldest == Len(gone) + 1
At(s) == IF s = "primary" THEN Latest ELSE Oldest
Seen(s) == contents[At(s)]

\* The memberOf attribute of a person, as groups.
GroupsOf(c, u) == {g \in DOMAIN c.groups : u \in c.groups[g].people}

\* The persons whose memberOf has group g as it would be named at place p.
PeopleAt(groups, g, p) ==
  IF g \in DOMAIN groups /\ groups[g].place = p THEN groups[g].people ELSE {}

\* Somebody edits the directory: a membership, a group (removed, or moved elsewhere in the
\* tree), a password.
Edited(c) ==
  LET gs == DOMAIN c.groups \cap load.edited
      us == Users \cap load.edited
  IN {[c EXCEPT !.groups[g].people = IF u \in @ THEN @ \ {u} ELSE @ \cup {u}] : g \in gs, u \in us}
     \cup {[c EXCEPT !.groups = Restrict(@, DOMAIN @ \ {g})] : g \in gs}
     \cup {[c EXCEPT !.groups[g].place = p] : g \in gs, p \in Places}
     \cup {[c EXCEPT !.password[u] = p] : u \in us, p \in Passwords}

DirectoryChange ==
  /\ Spend("changes")
  /\ \E c \in Edited(contents[Latest]) : c # contents[Latest] /\ contents' = Append(contents, c)
  /\ gone' = IF load.backup THEN gone ELSE Append(gone, now)
  /\ UNCHANGED <<load, now>>

\* The backup takes over the next edit.
Replicate ==
  /\ Oldest < Latest
  /\ gone' = Append(gone, now)
  /\ UNCHANGED <<load, budget, now, contents>>

Tick ==
  /\ Spend("time")
  /\ now' = now + 1
  /\ UNCHANGED <<load, contents, gone>>

\* A call of the directory or of the database fails.
Fault == Spend("faults") /\ UNCHANGED <<load, now, contents, gone>>

\* The last time some server had content i.
Until(i) == IF i < Oldest THEN gone[i] ELSE now
=============================================================================
