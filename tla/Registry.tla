------------------------------ MODULE Registry -------------------------------
(***************************************************************************)
(* The tables administrators edit through the API: the groups to            *)
(* synchronise (api/sync_groups.go), the e-mail templates                   *)
(* (api/templates.go) and the CRAM-MD5 credentials                          *)
(* (api/cram_credentials.go). Every handler checks in one query and writes  *)
(* in another; only the unique index of the table and the single writer     *)
(* connection keep two of them apart. What a row holds (a subject and body, *)
(* an encrypted secret) is named by the request that wrote it.              *)
(* Listings, the encryption and the text of templates are left out.         *)
(***************************************************************************)
EXTENDS Directory

CONSTANTS
  Client,  \* requests; each asks for one thing
  NoRow,
  NoGroup

Tables == {"sync_groups", "email_templates", "smtp_cram_credentials"}

ASSUME ClientAssumption == NoRow \notin Client /\ NoGroup \notin Groups
ASSUME AsksAssumption ==
  \A l \in Loads, c \in Client :
    \A a \in l.asks[c] : a.op \in {"create", "update", "delete"} /\ a.table \in Tables /\ a.key \in Groups

VARIABLES
  rows,     \* rows[t][k]: the request that wrote the row with key k, or NoRow
  ask,      \* what each request asks for: [op, table, key, valid]
  step,     \* idle, get, verify, write, reread, audit, done, gone (died with the process)
  answer,   \* the status code it was answered with; 0 before
  wrote,    \* ghost: the requests whose INSERT, UPDATE or DELETE took effect
  audited,  \* the requests with an entry in audit_log
  held      \* a transaction of the syncer holds the writer connection

requests == <<rows, ask, step, answer, wrote, audited>>
regVars == <<requests, held>>

NoAsk == [op |-> "none", table |-> "none", key |-> NoGroup, valid |-> FALSE]

RegTypeOK ==
  /\ rows \in [Tables -> [Groups -> Client \cup {NoRow}]]
  /\ ask \in [Client -> (UNION {load.asks[c] : c \in Client}) \cup {NoAsk}]
  /\ step \in [Client -> {"idle", "get", "verify", "write", "reread", "audit", "done", "gone"}]
  /\ answer \in [Client -> {0, 200, 201, 204, 404, 409, 422, 500}]
  /\ wrote \subseteq Client /\ audited \subseteq Client
  /\ held \in BOOLEAN

RegInit ==
  /\ rows = [t \in Tables |-> [k \in Groups |-> NoRow]]
  /\ ask = [c \in Client |-> NoAsk]
  /\ step = [c \in Client |-> "idle"]
  /\ answer = [c \in Client |-> 0]
  /\ wrote = {}
  /\ audited = {}
  /\ held = FALSE

\* The pool has one connection: a query waits while a transaction holds it.
WriterFree == ~held

Row(c) == rows[ask[c].table][ask[c].key]
SetRow(c, v) == rows' = [rows EXCEPT ![ask[c].table][ask[c].key] = v]
Goto(c, s) == step' = [step EXCEPT ![c] = s] /\ UNCHANGED answer
Answer(c, code) ==
  /\ step' = [step EXCEPT ![c] = "done"]
  /\ answer' = [answer EXCEPT ![c] = code]

Success(c) == CASE ask[c].op = "create" -> 201
                [] ask[c].op = "update" -> 200
                [] ask[c].op = "delete" -> 204

-----------------------------------------------------------------------------
\* The steps handlers are made of; each query is atomic.

\* The request arrives; one whose body is not acceptable is answered at once.
Arrive(c, a) ==
  /\ step[c] = "idle"
  /\ ask' = [ask EXCEPT ![c] = a]
  /\ IF a.valid THEN Goto(c, "get") ELSE Answer(c, 422)
  /\ UNCHANGED <<rows, wrote, audited, held>>

\* A creation is refused when there is a row already.
CheckAbsent(c, next) ==
  /\ step[c] = "get" /\ WriterFree
  /\ IF Row(c) # NoRow THEN Answer(c, 409) ELSE Goto(c, next)
  /\ UNCHANGED <<rows, ask, wrote, audited, held>>

\* An update or a deletion is refused when there is none.
CheckPresent(c) ==
  /\ step[c] = "get" /\ WriterFree
  /\ IF Row(c) = NoRow THEN Answer(c, 404) ELSE Goto(c, "write")
  /\ UNCHANGED <<rows, ask, wrote, audited, held>>

\* Mutant: a refused insert is answered and the handler goes on.
InsertGoesOn(c) ==
  /\ step[c] = "write" /\ WriterFree
  /\ IF Row(c) = NoRow
     THEN SetRow(c, c) /\ wrote' = wrote \cup {c}
     ELSE UNCHANGED <<rows, wrote>>
  /\ Goto(c, "audit")
  /\ UNCHANGED <<ask, audited, held>>

\* Mutant: INSERT OR REPLACE, which the unique index does not refuse.
Upsert(c) ==
  /\ step[c] = "write" /\ WriterFree
  /\ SetRow(c, c) /\ wrote' = wrote \cup {c} /\ Goto(c, "audit")
  /\ UNCHANGED <<ask, audited, held>>

\* The unique index refuses a second row with the same key.
Insert(c) ==
  /\ step[c] = "write" /\ WriterFree
  /\ IF Row(c) = NoRow
     THEN SetRow(c, c) /\ wrote' = wrote \cup {c} /\ Goto(c, "audit")
     ELSE Answer(c, 500) /\ UNCHANGED <<rows, wrote>>
  /\ UNCHANGED <<ask, audited, held>>

Delete(c) ==
  /\ step[c] = "write" /\ WriterFree
  /\ SetRow(c, NoRow)
  /\ wrote' = wrote \cup {c}
  /\ Goto(c, "audit")
  /\ UNCHANGED <<ask, audited, held>>

\* The entry of the audit log is written last.
Audit(c) ==
  /\ step[c] = "audit" /\ WriterFree
  /\ audited' = audited \cup {c}
  /\ Answer(c, Success(c))
  /\ UNCHANGED <<rows, ask, wrote, held>>
-----------------------------------------------------------------------------
\* The handlers.

Asks(c, t, op) == ask[c].table = t /\ ask[c].op = op

\* The group must exist in the directory; any other outcome is a refusal too.
VerifyGroup(c) ==
  /\ step[c] = "verify"
  /\ \E s \in Server : IF ask[c].key \in DOMAIN Seen(s).groups THEN Goto(c, "write") ELSE Answer(c, 422)
  /\ UNCHANGED <<rows, ask, wrote, audited, held>>

createSyncGroup(c) ==
  /\ Asks(c, "sync_groups", "create")
  /\ CheckAbsent(c, "verify") \/ VerifyGroup(c) \/ Insert(c) \/ Audit(c)

deleteSyncGroup(c) ==
  /\ Asks(c, "sync_groups", "delete")
  /\ CheckPresent(c) \/ Delete(c) \/ Audit(c)

createTemplate(c) ==
  /\ Asks(c, "email_templates", "create")
  /\ CheckAbsent(c, "write") \/ Insert(c) \/ Audit(c)

\* UPDATE ... WHERE template_name: no row, no effect and no error.
UpdateTemplate(c) ==
  /\ step[c] = "write" /\ WriterFree
  /\ IF Row(c) = NoRow
     THEN UNCHANGED <<rows, wrote>>
     ELSE SetRow(c, c) /\ wrote' = wrote \cup {c}
  /\ Goto(c, "reread")
  /\ UNCHANGED <<ask, audited, held>>

\* The row is read again for the answer; if it is gone meanwhile, that is an error.
RereadTemplate(c) ==
  /\ step[c] = "reread" /\ WriterFree
  /\ IF Row(c) = NoRow THEN Answer(c, 500) ELSE Goto(c, "audit")
  /\ UNCHANGED <<rows, ask, wrote, audited, held>>

updateTemplate(c) ==
  /\ Asks(c, "email_templates", "update")
  /\ CheckPresent(c) \/ UpdateTemplate(c) \/ RereadTemplate(c) \/ Audit(c)

deleteTemplate(c) ==
  /\ Asks(c, "email_templates", "delete")
  /\ CheckPresent(c) \/ Delete(c) \/ Audit(c)

createCRAMCredential(c) ==
  /\ Asks(c, "smtp_cram_credentials", "create")
  /\ CheckAbsent(c, "write") \/ Insert(c) \/ Audit(c)

deleteCRAMCredential(c) ==
  /\ Asks(c, "smtp_cram_credentials", "delete")
  /\ CheckPresent(c) \/ Delete(c) \/ Audit(c)

\* A query fails, or the caller hangs up and its context is cancelled: the handler
\* answers 500, except that a lost audit entry is only logged. A failing directory
\* call is a refusal.
CallFails(c) ==
  /\ Fault
  /\ \/ step[c] \in {"get", "write", "reread"} /\ Answer(c, 500)
     \/ step[c] = "verify" /\ Answer(c, 422)
     \/ step[c] = "audit" /\ Answer(c, Success(c))
  /\ UNCHANGED <<rows, ask, wrote, audited, held>>

Handle(c) ==
  \/ createSyncGroup(c) \/ deleteSyncGroup(c)
  \/ createTemplate(c) \/ updateTemplate(c) \/ deleteTemplate(c)
  \/ createCRAMCredential(c) \/ deleteCRAMCredential(c)

\* The process dies: requests in flight are never answered, an open transaction is
\* rolled back by the database.
Dropped(c) == step[c] \notin {"idle", "done"}
RegCrash ==
  /\ step' = [c \in Client |-> IF Dropped(c) THEN "gone" ELSE step[c]]
  /\ held' = FALSE
  /\ UNCHANGED <<rows, ask, answer, wrote, audited>>

-----------------------------------------------------------------------------
SameRow(c, d) == ask[c].table = ask[d].table /\ ask[c].key = ask[d].key
Did(c, op) == c \in wrote /\ ask[c].op = op

\* What an administrator was told stays true until another one changes it: who was
\* told 201 finds the row as written (the CRAM-MD5 secret, shown once, is the one in
\* the table), or somebody else deleted or updated it; and a row is created again
\* only after a deletion. An update answered 200 took effect, or found the row deleted
\* when it wrote and created again when it read it back. (createSyncGroupCore, createTemplateCore,
\* handleCreateCRAMCredential: check and insert are two queries.)
ToldIsTrue ==
  /\ \A c \in Client : answer[c] = 201 /\ Row(c) # c =>
       \E d \in Client \ {c} : SameRow(c, d) /\ (Did(d, "delete") \/ Did(d, "update"))
  /\ \A c \in Client :
       Cardinality({d \in Client : answer[d] = 201 /\ SameRow(c, d)})
         <= Cardinality({d \in Client : SameRow(c, d) /\ Did(d, "delete")}) + 1
  /\ \A c \in Client : answer[c] = 200 /\ c \notin wrote =>
       \E d, e \in Client : SameRow(c, d) /\ SameRow(c, e) /\ Did(d, "delete") /\ Did(e, "create")

\* With every query answered and nobody about to write an entry, the audit log
\* accounts for each row: its creations are the row that is there and those that
\* were deleted, although the entry is written in a query of its own, after the
\* change. (auditLogAction; two deletions that overlap are both logged.)
Untroubled == budget.faults = load.budget.faults /\ budget.crashes = load.budget.crashes
Logged(t, k, op) ==
  Cardinality({c \in audited : ask[c].table = t /\ ask[c].key = k /\ ask[c].op = op})
AuditAccounts ==
  Untroubled =>
    \A t \in Tables, k \in Groups :
      (\A c \in Client : step[c] \in {"reread", "audit"} => ask[c].table # t \/ ask[c].key # k) =>
        /\ rows[t][k] # NoRow => rows[t][k] \in audited
        /\ Logged(t, k, "create")
             <= Logged(t, k, "delete") + (IF rows[t][k] = NoRow THEN 0 ELSE 1)
=============================================================================
