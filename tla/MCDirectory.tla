----------------------------- MODULE MCDirectory -----------------------------
(***************************************************************************)
(* Small instances of DirectoryServices. Each load activates the parts that *)
(* interact, so that the state spaces add up instead of multiplying.        *)
(***************************************************************************)
EXTENDS DirectoryServices

CONSTANTS g1, g2, u1, u2, u3, c1, c2, c3, v1, v2, v3, here, there

\* What may happen, and what is asked for, without a backup server.
B(faults, crashes, changes, time) ==
  [faults |-> faults, crashes |-> crashes, changes |-> changes, time |-> time]
L(asks, visits, syncer, edited, limits) ==
  [asks |-> asks, visits |-> visits, syncer |-> syncer, backup |-> FALSE, edited |-> edited,
   budget |-> limits]

A(t, op, k) == [op |-> op, table |-> t, key |-> k, valid |-> TRUE]
V(kind, u, p, perm, t) == [kind |-> kind, user |-> u, pass |-> p, perm |-> perm, token |-> t]

None == [c \in Client |-> {}]
Nobody == [v \in Visitor |-> {}]

\* A sync group is added, removed and added again while the syncer runs, with a fault
\* or a restart, and while the directory changes.
SyncAsks(more) ==
  [None EXCEPT ![c1] = {A("sync_groups", "create", g1)}, ![c2] = {A("sync_groups", "delete", g1)},
               ![c3] = more]
SyncLoads ==
  {L(SyncAsks({}), Nobody, TRUE, {u1, g1}, B(1, 0, 1, 0)), L(SyncAsks({}), Nobody, TRUE, {u1, g1}, B(0, 1, 1, 0)),
   L(SyncAsks({A("sync_groups", "create", g1)}), Nobody, TRUE, {u1, g1}, B(0, 0, 0, 0)),
   L(SyncAsks({A("sync_groups", "create", g2)}), Nobody, TRUE, {u1, g1}, B(0, 0, 0, 0))}

\* With a backup server that takes over an edit late: a group is added to the list and then
\* edited, removed or moved; two requests of one person meet.
OnlyAdded == [None EXCEPT ![c1] = {A("sync_groups", "create", g1)}]
Twice == [v \in Visitor |-> IF v \in {v1, v2} THEN {V("basic", u1, "p1", "admin", "none")} ELSE {}]
WithBackup(l) == [l EXCEPT !.backup = TRUE]
BackupLoads ==
  {WithBackup(L(OnlyAdded, Nobody, TRUE, {u1, g1}, B(0, 0, 1, 0))),
   WithBackup(L(None, Twice, FALSE, {u1, g1}, B(0, 0, 1, 2)))}

\* Three administrators on one row of each of the other tables.
Ops(t, ops) == [c \in Client |-> {A(t, op, g1) : op \in ops}]
TableLoads ==
  {L(Ops("email_templates", {"create", "update", "delete"}), Nobody, FALSE, {}, B(0, 1, 0, 0)),
   L(Ops("smtp_cram_credentials", {"create", "delete"}), Nobody, FALSE, {}, B(1, 0, 0, 0)),
   L([None EXCEPT ![c1] = {[A("email_templates", "create", g1) EXCEPT !.valid = FALSE]}],
     Nobody, FALSE, {}, B(0, 0, 0, 0))}

\* Basic requests of two persons while memberships and passwords change.
Basic(u, p, perm) == V("basic", u, p, perm, "none")
CacheLoads ==
  {L(None, [Nobody EXCEPT ![v1] = {Basic(u1, "p1", "admin")}, ![v2] = {Basic(u1, "p1", "admin")},
                          ![v3] = {Basic(u1, "p2", "read")}],
     FALSE, {u1, g1}, B(0, 0, 1, 2)),
   L(None, [Nobody EXCEPT ![v1] = {Basic(u1, "p1", "admin")}, ![v2] = {Basic(u2, "p1", "read")}],
     FALSE, {u1, g1}, B(0, 1, 0, 2))}

\* A login, its session used and ended by others, and a restart or a failing directory.
SessionLoads ==
  {L(None, [Nobody EXCEPT ![v1] = {V("login", u1, "p1", "read", "none")},
                          ![v2] = {V(k, "none", "none", "admin", v1) : k \in {"page", "form"}},
                          ![v3] = {V(k, "none", "none", "read", v1) : k \in {"page", "logout"}}],
     FALSE, {}, B(1 - c, c, 0, 2)) : c \in {0, 1}}

MCLoads == SyncLoads \cup BackupLoads \cup TableLoads \cup CacheLoads \cup SessionLoads

MCRoleGroups == [admin |-> {g1}, publisher |-> {}, reader |-> {g2}]
=============================================================================
