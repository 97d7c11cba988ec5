--------------------------- MODULE RegistryProofs ----------------------------
(***************************************************************************)
(* Theorems about the tables of the administrators and the group syncer in  *)
(* DirectoryServices, for any number of requests and groups, any directory  *)
(* and any other activity beside them: what an administrator was told stays *)
(* true, the audit log accounts for the rows, and the members stored for a  *)
(* group are those of one content of the directory, whole, and none that    *)
(* was gone when the cycle began (GroupMirror).                             *)
(***************************************************************************)
EXTENDS AccessProofs

(***************************************************************************)
(* The invariant of the tables.                                            *)
(***************************************************************************)

On(c, t, k) == ask[c].table = t /\ ask[c].key = k

\* The requests that changed row k of table t by the operation op.
Made(t, k, op) == {c \in wrote : On(c, t, k) /\ ask[c].op = op}
Updated(c) == ask[c].op = "update"

\* A request before and after its change; what an update knows that found no row.
RequestOK(c) ==
  LET t == ask[c].table
      k == ask[c].key
  IN /\ ask[c] \in load.asks[c] \cup {NoAsk}
     /\ step[c] # "idle" => ask[c] \in load.asks[c]
     /\ step[c] \in {"idle", "get", "verify", "write"} => c \notin wrote
     /\ step[c] \in {"idle", "get", "verify", "write", "reread", "audit"} => c \notin audited
     /\ step[c] = "verify" => ask[c].op = "create"
     /\ step[c] = "reread" => Updated(c)
     /\ step[c] = "audit" => c \in wrote \/ Updated(c)
     /\ answer[c] # 0 <=> step[c] = "done"
     /\ answer[c] = 201 => ask[c].op = "create" /\ c \in wrote
     /\ answer[c] = 200 => Updated(c)
     /\ c \in audited => c \in wrote \/ Updated(c)
     /\ Updated(c) /\ step[c] = "write" => Made(t, k, "create") # {}
     /\ Updated(c) /\ c \notin wrote /\ (step[c] \in {"reread", "audit"} \/ answer[c] = 200) =>
          Made(t, k, "create") # {} /\ Made(t, k, "delete") # {}

\* A creation that is not in the table any more was undone by somebody else.
UndoneByOther(c) ==
  c \in wrote /\ ask[c].op = "create" /\ Row(c) # c =>
    \E d \in wrote \ {c} : SameRow(c, d) /\ ask[d].op \in {"delete", "update"}

\* Without failures every change has its entry, or will have; so has the row.
EntryDue(c) ==
  Untroubled /\ c \in wrote =>
    \/ step[c] \in {"reread", "audit"}
    \/ c \in audited
    \/ Updated(c) /\ Row(c) # c

\* A row was written by somebody, is there only after a creation and gone only after a
\* deletion; each creation but the first needed a deletion.
RowOK(t, k) ==
  /\ rows[t][k] # NoRow =>
       /\ rows[t][k] \in Made(t, k, "create") \cup Made(t, k, "update")
       /\ Made(t, k, "create") # {}
  /\ rows[t][k] = NoRow /\ Made(t, k, "create") # {} => Made(t, k, "delete") # {}
  /\ Cardinality(Made(t, k, "create"))
       <= Cardinality(Made(t, k, "delete")) + (IF rows[t][k] = NoRow THEN 0 ELSE 1)

BudgetInv ==
  /\ load \in Loads /\ budget \in [Budget -> Nat]
  /\ \A x \in Budget : budget[x] <= load.budget[x]

AnyAsk == (UNION {load.asks[c] : c \in Client}) \cup {NoAsk}
Points == {"idle", "get", "verify", "write", "reread", "audit", "done", "gone"}
Codes == {0, 200, 201, 204, 404, 409, 422, 500}

TableInv ==
  /\ BudgetInv
  /\ rows \in [Tables -> [Groups -> Client \cup {NoRow}]]
  /\ ask \in [Client -> AnyAsk] /\ step \in [Client -> Points] /\ answer \in [Client -> Codes]
  /\ wrote \subseteq Client /\ audited \subseteq Client
  /\ IsFiniteSet(wrote) /\ IsFiniteSet(audited)
  /\ \A c \in Client : RequestOK(c) /\ UndoneByOther(c) /\ EntryDue(c)
  /\ \A t \in Tables, k \in Groups : RowOK(t, k)

(***************************************************************************)
(* Facts about budgets, requests and rows.                                 *)
(***************************************************************************)

\* What is spent does not come back: a behaviour with a failure stays one.
LEMMA SpendFacts ==
  ASSUME BudgetInv, load' = load, NEW w \in Budget, Spend(w) \/ UNCHANGED budget
  PROVE  /\ BudgetInv' /\ (Untroubled' => Untroubled)
         /\ Spend(w) /\ w \in {"faults", "crashes"} => ~Untroubled'
<1>1. load.budget \in [Budget -> Nat]
  BY LoadsAssumption DEF BudgetInv
<1>2. \A x \in Budget : budget[x] \in Nat /\ load.budget[x] \in Nat /\ budget[x] <= load.budget[x]
  BY <1>1 DEF BudgetInv
<1>3. CASE UNCHANGED budget
  <2>1. CASE Spend(w)
    BY <1>2, <1>3, <2>1 DEF Spend, BudgetInv
  <2>2. CASE ~Spend(w)
    BY <1>3, <2>2 DEF BudgetInv, Untroubled
  <2>3. QED
    BY <2>1, <2>2
<1>4. CASE Spend(w)
  <2>1. /\ budget' = [budget EXCEPT ![w] = budget[w] - 1] /\ budget[w] > 0
        /\ budget[w] - 1 \in Nat /\ budget[w] - 1 < load.budget[w]
    BY <1>2, <1>4 DEF Spend
  <2>2. /\ budget' \in [Budget -> Nat] /\ budget'[w] < load.budget[w]
        /\ \A x \in Budget \ {w} : budget'[x] = budget[x]
    BY <2>1 DEF BudgetInv
  <2>3. BudgetInv'
    BY <1>2, <2>2 DEF BudgetInv
  <2>4. \A x \in Budget : budget'[x] = load.budget[x] => budget[x] = load.budget[x] /\ x # w
    BY <1>2, <2>2
  <2>5. "faults" \in Budget /\ "crashes" \in Budget
    BY DEF Budget
  <2>6. QED
    BY <2>3, <2>4, <2>5 DEF Untroubled
<1>5. QED
  BY <1>3, <1>4

\* A request that arrived names a row of a table.
LEMMA AskFacts ==
  ASSUME TableInv, NEW c \in Client
  PROVE  /\ step[c] # "idle" =>
              ask[c].table \in Tables /\ ask[c].key \in Groups /\ ask[c].op \in {"create", "update", "delete"}
         /\ c \in wrote => step[c] \in {"reread", "audit", "done", "gone"}
         /\ c \in audited => step[c] \in {"done", "gone"}
<1>1. RequestOK(c) /\ load \in Loads /\ step[c] \in Points
  BY DEF TableInv, BudgetInv
<1>2. step[c] # "idle" => ask[c] \in load.asks[c]
  BY <1>1 DEF RequestOK
<1>3. QED
  BY <1>1, <1>2, AsksAssumption DEF RequestOK, Points

\* A step of request c: it arrives once, others and what they did stay.
Moves(c) ==
  /\ load' = load /\ BudgetInv' /\ (Untroubled' => Untroubled)
  /\ ask' \in [Client -> AnyAsk'] /\ step' \in [Client -> Points] /\ answer' \in [Client -> Codes]
  /\ step[c] # "idle" => ask'[c] = ask[c]
  /\ \A d \in Client \ {c} : ask'[d] = ask[d] /\ step'[d] = step[d] /\ answer'[d] = answer[d]
  /\ wrote' = wrote \/ (wrote' = wrote \cup {c} /\ step[c] # "idle")
  /\ audited' = audited \/ audited' = audited \cup {c}
  /\ rows' \in [Tables -> [Groups -> Client \cup {NoRow}]]

LEMMA MadeGrows ==
  ASSUME TableInv, NEW c \in Client, Moves(c), NEW t, NEW k, NEW op
  PROVE  /\ Made(t, k, op) \subseteq Made(t, k, op)'
         /\ wrote' = wrote => Made(t, k, op)' = Made(t, k, op)
         /\ wrote' = wrote \cup {c} /\ c \notin wrote =>
              Made(t, k, op)' = IF On(c, t, k) /\ ask[c].op = op /\ step[c] # "idle" THEN Made(t, k, op) \cup {c}
                                ELSE Made(t, k, op)
<1>1. \A d \in wrote : ask'[d] = ask[d]
  <2>1. c \in wrote => step[c] # "idle"
    BY AskFacts
  <2>2. QED
    BY <2>1 DEF Moves, TableInv
<1>2. wrote \subseteq wrote' /\ wrote \subseteq Client
  BY DEF Moves, TableInv
<1>3. CASE wrote' = wrote
  <2>1. Made(t, k, op)' = Made(t, k, op)
    BY <1>1, <1>3 DEF Made, On
  <2>2. QED
    BY <1>3, <2>1
<1>4. CASE wrote' # wrote
  <2>1. step[c] # "idle" /\ ask'[c] = ask[c] /\ wrote' = wrote \cup {c}
    BY <1>4 DEF Moves
  <2>2. QED
    BY <1>1, <2>1 DEF Made, On
<1>5. QED
  BY <1>3, <1>4

\* The sets that are counted are finite.
LEMMA MadeFinite ==
  ASSUME TableInv, NEW t, NEW k, NEW op
  PROVE  /\ IsFiniteSet(Made(t, k, op)) /\ Cardinality(Made(t, k, op)) \in Nat
         /\ \A c : c \notin Made(t, k, op) =>
              Cardinality(Made(t, k, op) \cup {c}) = Cardinality(Made(t, k, op)) + 1
<1>1. IsFiniteSet(Made(t, k, op))
  BY FS_Subset DEF Made, TableInv
<1>2. QED
  BY <1>1, FS_AddElement, FS_CardinalityType

\* What c may do to a row: write its own name, or remove what is there.
RowMoves(c) ==
  \A t \in Tables, k \in Groups :
    rows'[t][k] # rows[t][k] =>
      /\ On(c, t, k) /\ c \in wrote' /\ step[c] # "idle"
      /\ rows'[t][k] \in {c, NoRow}
      /\ rows[t][k] = NoRow \/ ask[c].op \in {"update", "delete"}

LEMMA OthersStay ==
  ASSUME TableInv, NEW c \in Client, Moves(c), RowMoves(c), NEW d \in Client \ {c}
  PROVE  RequestOK(d)' /\ UndoneByOther(d)' /\ EntryDue(d)'
<1>1. /\ RequestOK(d) /\ UndoneByOther(d) /\ EntryDue(d)
      /\ ask'[d] = ask[d] /\ step'[d] = step[d] /\ answer'[d] = answer[d] /\ load' = load
      /\ (d \in wrote' <=> d \in wrote) /\ (d \in audited' <=> d \in audited)
      /\ wrote \subseteq wrote' /\ wrote \subseteq Client
  BY DEF TableInv, Moves
<1>2. \A t, k, op : Made(t, k, op) \subseteq Made(t, k, op)'
  BY MadeGrows
<1>3. RequestOK(d)'
  BY <1>1, <1>2 DEF RequestOK, Updated
<1>4. d \in wrote => ask[d].table \in Tables /\ ask[d].key \in Groups
  BY AskFacts
<1>5. UndoneByOther(d)'
  <2> SUFFICES ASSUME d \in wrote, ask[d].op = "create", Row(d)' # d
               PROVE  \E e \in wrote' \ {d} : SameRow(d, e)' /\ ask'[e].op \in {"delete", "update"}
    BY <1>1 DEF UndoneByOther
  <2>1. CASE Row(d) # d
    <3>1. PICK e \in wrote \ {d} : SameRow(d, e) /\ ask[e].op \in {"delete", "update"}
      BY <1>1, <2>1 DEF UndoneByOther
    <3>2. ask'[e] = ask[e]
      <4>1. e = c => step[c] # "idle"
        BY <1>1, <3>1, AskFacts
      <4>2. QED
        BY <1>1, <3>1, <4>1 DEF Moves
    <3>3. QED
      BY <1>1, <3>1, <3>2 DEF SameRow
  <2>2. CASE Row(d) = d
    <3>1. /\ On(c, ask[d].table, ask[d].key) /\ c \in wrote' /\ ask'[c] = ask[c]
          /\ Row(d) = NoRow \/ ask[c].op \in {"update", "delete"}
      BY <1>1, <1>4, <2>2 DEF RowMoves, Row, Moves
    <3>2. d # NoRow
      BY ClientAssumption
    <3>3. QED
      BY <1>1, <2>2, <3>1, <3>2 DEF SameRow, On
  <2>3. QED
    BY <2>1, <2>2
<1>6. EntryDue(d)'
  <2>1. d \in wrote /\ Row(d)' = d => Row(d) = d
    BY <1>1, <1>4, ClientAssumption DEF RowMoves, Row
  <2>2. QED
    BY <1>1, <2>1 DEF EntryDue, Updated, Moves
<1>7. QED
  BY <1>3, <1>5, <1>6

(***************************************************************************)
(* Steps of a request that write no row.                                   *)
(***************************************************************************)

LEMMA QuietRequest ==
  ASSUME TableInv, NEW c \in Client, Moves(c), rows' = rows, wrote' = wrote,
         RequestOK(c)', EntryDue(c)'
  PROVE  TableInv'
<1>1. \A t, k, op : Made(t, k, op)' = Made(t, k, op)
  BY MadeGrows
<1>2. ASSUME NEW t \in Tables, NEW k \in Groups PROVE RowOK(t, k)'
  BY <1>1, <1>2 DEF TableInv, RowOK
<1>3. UndoneByOther(c)'
  <2>1. \A d \in wrote : ask'[d] = ask[d]
    BY AskFacts DEF Moves, TableInv
  <2>2. UndoneByOther(c)
    BY DEF TableInv
  <2>3. QED
    BY <2>1, <2>2 DEF UndoneByOther, SameRow, Row
<1>4. ASSUME NEW d \in Client PROVE RequestOK(d)' /\ UndoneByOther(d)' /\ EntryDue(d)'
  BY <1>3, OthersStay DEF RowMoves
<1>5. IsFiniteSet(audited') /\ audited' \subseteq Client
  BY FS_AddElement DEF TableInv, Moves
<1>6. QED
  BY <1>2, <1>4, <1>5 DEF TableInv, Moves

\* A step of a request that arrived: to another place, or to its answer.
Steps(c) == (\E s \in Points : Goto(c, s)) \/ \E a \in Codes : Answer(c, a)

LEMMA StepsMove ==
  ASSUME TableInv, NEW c \in Client, step[c] # "idle", Steps(c), ask' = ask, load' = load,
         BudgetInv', Untroubled' => Untroubled, wrote' = wrote \/ wrote' = wrote \cup {c},
         audited' = audited \/ audited' = audited \cup {c},
         rows' \in [Tables -> [Groups -> Client \cup {NoRow}]]
  PROVE  Moves(c)
<1>1. "done" \in Points
  BY DEF Points
<1>2. step' \in [Client -> Points] /\ answer' \in [Client -> Codes]
  BY <1>1 DEF Steps, Goto, Answer, TableInv
<1>3. \A d \in Client \ {c} : step'[d] = step[d] /\ answer'[d] = answer[d]
  BY DEF Steps, Goto, Answer, TableInv
<1>4. ask' \in [Client -> AnyAsk']
  BY DEF TableInv, AnyAsk
<1>5. QED
  BY <1>2, <1>3, <1>4 DEF Moves

\* Nothing is spent.
LEMMA SpendNothing ==
  ASSUME TableInv, UNCHANGED dirVars
  PROVE  load' = load /\ BudgetInv' /\ (Untroubled' => Untroubled)
BY DEF TableInv, BudgetInv, Untroubled, dirVars

LEMMA ArriveKeeps ==
  ASSUME TableInv, NEW c \in Client, NEW a \in load.asks[c], Arrive(c, a), UNCHANGED dirVars
  PROVE  TableInv'
<1>1. /\ step[c] = "idle" /\ ask' = [ask EXCEPT ![c] = a] /\ (Goto(c, "get") \/ Answer(c, 422))
      /\ UNCHANGED <<rows, wrote, audited>>
  BY DEF Arrive
<1>2. RequestOK(c) /\ c \notin wrote /\ c \notin audited /\ DOMAIN ask = Client /\ answer[c] = 0
  BY <1>1 DEF TableInv, RequestOK
<1>3. /\ ask'[c] = a /\ DOMAIN ask' = Client /\ \A d \in Client \ {c} : ask'[d] = ask[d]
  BY <1>1, <1>2
<1>4. /\ step' \in [Client -> Points] /\ answer' \in [Client -> Codes]
      /\ \A d \in Client \ {c} : step'[d] = step[d] /\ answer'[d] = answer[d]
      /\ (step'[c] = "get" /\ answer'[c] = 0) \/ (step'[c] = "done" /\ answer'[c] = 422)
  BY <1>1, <1>2 DEF Goto, Answer, TableInv, Points, Codes
<1>5. Moves(c)
  <2>1. ask' \in [Client -> AnyAsk']
    BY <1>1, SpendNothing DEF TableInv, AnyAsk
  <2>2. QED
    BY <1>1, <1>3, <1>4, <2>1, SpendNothing DEF Moves, TableInv
<1>6. RequestOK(c)'
  BY <1>1, <1>2, <1>3, <1>4, SpendNothing DEF RequestOK
<1>7. EntryDue(c)'
  BY <1>1, <1>2 DEF EntryDue
<1>8. QED
  BY <1>1, <1>5, <1>6, <1>7, QuietRequest

\* A step of a request that only reads: what has to hold of it afterwards.
LEMMA ReadKeeps ==
  ASSUME TableInv, NEW c \in Client, step[c] # "idle", UNCHANGED <<rows, ask, wrote, audited, load>>,
         BudgetInv', Untroubled' => Untroubled,
         \/ \E s \in Points : /\ Goto(c, s) /\ RequestOK(c)'
                              /\ s = "audit" \/ c \notin wrote
         \/ \E a \in Codes \ {0} : /\ Answer(c, a)
                                   /\ a # 201 /\ (a = 200 => RequestOK(c)')
                                   /\ c \notin wrote \/ (Row(c) # c /\ Updated(c)) \/ ~Untroubled'
  PROVE  TableInv'
<1>1. Steps(c)
  BY DEF Steps
<1>2. Moves(c)
  BY <1>1, StepsMove DEF TableInv
<1>3. RequestOK(c) /\ EntryDue(c)
  BY DEF TableInv
<1>4. \A t, k, op : Made(t, k, op)' = Made(t, k, op)
  BY DEF Made, On
<1>5. RequestOK(c)'
  <2>1. CASE \E s \in Points : Goto(c, s) /\ RequestOK(c)'
    BY <2>1
  <2>2. CASE \E a \in Codes \ {0, 201} : Answer(c, a) /\ (a = 200 => RequestOK(c)')
    <3>1. PICK a \in Codes \ {0, 201} : Answer(c, a) /\ (a = 200 => RequestOK(c)')
      BY <2>2
    <3>2. step'[c] = "done" /\ answer'[c] = a
      BY <3>1 DEF Answer, TableInv
    <3>3. CASE a # 200
      BY <1>3, <3>1, <3>2, <3>3 DEF RequestOK, Updated
    <3>4. QED
      BY <3>1, <3>3
  <2>3. QED
    BY <2>1, <2>2
<1>6. EntryDue(c)'
  <2>1. CASE c \notin wrote \/ ~Untroubled'
    BY <2>1 DEF EntryDue
  <2>2. CASE Goto(c, "audit")
    <3>1. step'[c] = "audit"
      BY <2>2 DEF Goto, TableInv
    <3>2. QED
      BY <3>1 DEF EntryDue
  <2>3. CASE Row(c) # c /\ Updated(c)
    BY <2>3 DEF EntryDue, Row, Updated
  <2>4. QED
    BY <2>1, <2>2, <2>3
<1>7. QED
  BY <1>2, <1>5, <1>6, QuietRequest

\* A request that is refused: it changed nothing, or its change is gone or not due.
LEMMA RefuseKeeps ==
  ASSUME TableInv, NEW c \in Client, step[c] # "idle", UNCHANGED <<rows, ask, wrote, audited, load>>,
         BudgetInv', Untroubled' => Untroubled,
         NEW a \in {404, 409, 422, 500}, Answer(c, a),
         c \notin wrote \/ (Row(c) # c /\ Updated(c)) \/ ~Untroubled'
  PROVE  TableInv'
<1>1. a \in Codes \ {0} /\ a # 200 /\ a # 201
  BY DEF Codes
<1>2. QED
  BY <1>1, ReadKeeps

\* What has to hold of a request that goes on.
LEMMA GoesOK ==
  ASSUME TableInv, NEW c \in Client, step[c] # "idle", answer[c] = 0, c \notin audited,
         NEW s \in {"verify", "write", "reread", "audit"}, Goto(c, s),
         UNCHANGED <<rows, ask, wrote, audited, load>>,
         s \in {"verify", "write"} => c \notin wrote,
         s = "verify" => ask[c].op = "create",
         s = "reread" => Updated(c),
         s = "audit" => c \in wrote \/ Updated(c),
         Updated(c) /\ s = "write" => Made(ask[c].table, ask[c].key, "create") # {},
         Updated(c) /\ c \notin wrote /\ s \in {"reread", "audit"} =>
           Made(ask[c].table, ask[c].key, "create") # {} /\ Made(ask[c].table, ask[c].key, "delete") # {}
  PROVE  RequestOK(c)'
<1>1. step'[c] = s /\ answer'[c] = 0 /\ ask'[c] = ask[c] /\ load' = load
      /\ (c \in wrote' <=> c \in wrote) /\ c \notin audited'
  BY DEF Goto, TableInv
<1>2. \A t, k, op : Made(t, k, op)' = Made(t, k, op)
  BY DEF Made, On
<1>3. RequestOK(c)
  BY DEF TableInv
<1> DEFINE created == Made(ask[c].table, ask[c].key, "create")
           deleted2 == Made(ask[c].table, ask[c].key, "delete")
<1>4. created' = created /\ deleted2' = deleted2
  BY <1>1, <1>2
<1>5. Updated(c)' = Updated(c)
  BY <1>1 DEF Updated
<1>6. QED
  BY <1>1, <1>3, <1>4, <1>5 DEF RequestOK

LEMMA CheckAbsentKeeps ==
  ASSUME TableInv, NEW c \in Client, NEW s \in {"verify", "write"}, CheckAbsent(c, s),
         ask[c].op = "create", UNCHANGED dirVars
  PROVE  TableInv'
<1>1. step[c] = "get" /\ UNCHANGED <<rows, ask, wrote, audited>> /\ (Answer(c, 409) \/ Goto(c, s))
  BY DEF CheckAbsent
<1>2. RequestOK(c) /\ c \notin wrote
  BY <1>1 DEF TableInv, RequestOK
<1>3. CASE Answer(c, 409)
  BY <1>1, <1>2, <1>3, SpendNothing, RefuseKeeps
<1>4. CASE Goto(c, s)
  <2>1. RequestOK(c)'
    BY <1>1, <1>2, <1>4, SpendNothing, GoesOK DEF RequestOK, Updated
  <2>2. QED
    BY <1>1, <1>2, <1>4, <2>1, SpendNothing, ReadKeeps DEF Points
<1>5. QED
  BY <1>1, <1>3, <1>4

\* An update that goes on has found a row, so the row was created.
LEMMA CheckPresentKeeps ==
  ASSUME TableInv, NEW c \in Client, CheckPresent(c), UNCHANGED dirVars
  PROVE  TableInv'
<1>1. /\ step[c] = "get" /\ UNCHANGED <<rows, ask, wrote, audited>>
      /\ (Row(c) = NoRow /\ Answer(c, 404)) \/ (Row(c) # NoRow /\ Goto(c, "write"))
  BY DEF CheckPresent
<1>2. RequestOK(c) /\ c \notin wrote
  BY <1>1 DEF TableInv, RequestOK
<1>3. CASE Answer(c, 404)
  BY <1>1, <1>2, <1>3, SpendNothing, RefuseKeeps
<1>4. CASE Row(c) # NoRow /\ Goto(c, "write")
  <2>1. Made(ask[c].table, ask[c].key, "create") # {}
    BY <1>1, <1>4, AskFacts DEF TableInv, RowOK, Row
  <2>2. RequestOK(c)'
    BY <1>1, <1>2, <1>4, <2>1, SpendNothing, GoesOK DEF RequestOK
  <2>3. QED
    BY <1>1, <1>2, <1>4, <2>2, SpendNothing, ReadKeeps DEF Points
<1>5. QED
  BY <1>1, <1>3, <1>4

LEMMA VerifyGroupKeeps ==
  ASSUME TableInv, NEW c \in Client, VerifyGroup(c), UNCHANGED dirVars
  PROVE  TableInv'
<1>1. /\ step[c] = "verify" /\ UNCHANGED <<rows, ask, wrote, audited>>
      /\ Answer(c, 422) \/ Goto(c, "write")
  BY DEF VerifyGroup
<1>2. RequestOK(c) /\ c \notin wrote
  BY <1>1 DEF TableInv, RequestOK
<1>3. CASE Answer(c, 422)
  BY <1>1, <1>2, <1>3, SpendNothing, RefuseKeeps
<1>4. CASE Goto(c, "write")
  <2>1. RequestOK(c)'
    BY <1>1, <1>2, <1>4, SpendNothing, GoesOK DEF RequestOK, Updated
  <2>2. QED
    BY <1>1, <1>2, <1>4, <2>1, SpendNothing, ReadKeeps DEF Points
<1>5. QED
  BY <1>1, <1>3, <1>4

LEMMA RereadKeeps ==
  ASSUME TableInv, NEW c \in Client, RereadTemplate(c), UNCHANGED dirVars
  PROVE  TableInv'
<1>1. /\ step[c] = "reread" /\ UNCHANGED <<rows, ask, wrote, audited>>
      /\ (Row(c) = NoRow /\ Answer(c, 500)) \/ Goto(c, "audit")
  BY DEF RereadTemplate
<1>2. RequestOK(c) /\ Updated(c) /\ c # NoRow
  BY <1>1, ClientAssumption DEF TableInv, RequestOK
<1>3. CASE Row(c) = NoRow /\ Answer(c, 500)
  BY <1>1, <1>2, <1>3, SpendNothing, RefuseKeeps
<1>4. CASE Goto(c, "audit")
  <2>1. RequestOK(c)'
    BY <1>1, <1>2, <1>4, SpendNothing, GoesOK DEF RequestOK
  <2>2. QED
    BY <1>1, <1>4, <2>1, SpendNothing, ReadKeeps DEF Points
<1>5. QED
  BY <1>1, <1>3, <1>4

\* The answer given once the change is made.
LEMMA SuccessFacts ==
  ASSUME TableInv, NEW c \in Client, step[c] = "audit"
  PROVE  /\ Success(c) \in {200, 201, 204}
         /\ Success(c) = 201 => ask[c].op = "create" /\ c \in wrote
         /\ Success(c) = 200 => Updated(c)
<1>1. ask[c].op \in {"create", "update", "delete"} /\ RequestOK(c)
  BY AskFacts DEF TableInv
<1>2. QED
  BY <1>1 DEF Success, Updated, RequestOK

LEMMA AuditKeeps ==
  ASSUME TableInv, NEW c \in Client, Audit(c), UNCHANGED dirVars
  PROVE  TableInv'
<1>1. /\ step[c] = "audit" /\ audited' = audited \cup {c} /\ Answer(c, Success(c))
      /\ UNCHANGED <<rows, ask, wrote>>
  BY DEF Audit
<1>2. Success(c) \in Codes \ {0} /\ Steps(c)
  BY <1>1, SuccessFacts DEF Codes, Steps
<1>3. Moves(c)
  BY <1>1, <1>2, SpendNothing, StepsMove DEF TableInv
<1>4. step'[c] = "done" /\ answer'[c] = Success(c)
  BY <1>1 DEF Answer, TableInv
<1>5. \A t, k, op : Made(t, k, op)' = Made(t, k, op)
  BY <1>1 DEF Made, On
<1>6. RequestOK(c)
  BY DEF TableInv
<1>7. RequestOK(c)'
  BY <1>1, <1>2, <1>4, <1>5, <1>6, SuccessFacts, SpendNothing DEF RequestOK, Updated
<1>8. EntryDue(c)'
  BY <1>1 DEF EntryDue
<1>9. QED
  BY <1>1, <1>3, <1>7, <1>8, QuietRequest

LEMMA CallFailsKeeps ==
  ASSUME TableInv, NEW c \in Client, CallFails(c)
  PROVE  TableInv'
<1>1. Fault /\ UNCHANGED <<rows, ask, wrote, audited>>
  BY DEF CallFails
<1>2. load' = load /\ BudgetInv' /\ ~Untroubled'
  <2>1. "faults" \in Budget /\ Spend("faults") /\ load' = load
    BY <1>1 DEF Fault, Budget
  <2>2. QED
    BY <2>1, SpendFacts DEF TableInv
<1>3. CASE step[c] \in {"get", "write", "reread", "verify"} /\ (Answer(c, 500) \/ Answer(c, 422))
  BY <1>1, <1>2, <1>3, RefuseKeeps
<1>4. CASE step[c] = "audit" /\ Answer(c, Success(c))
  <2>1. Success(c) \in Codes \ {0} /\ Steps(c)
    BY <1>4, SuccessFacts DEF Codes, Steps
  <2>2. Moves(c)
    BY <1>1, <1>2, <1>4, <2>1, StepsMove DEF TableInv
  <2>3. step'[c] = "done" /\ answer'[c] = Success(c) /\ RequestOK(c)
    BY <1>4 DEF Answer, TableInv
  <2>4. \A t, k, op : Made(t, k, op)' = Made(t, k, op)
    BY <1>1 DEF Made, On
  <2>5. RequestOK(c)'
    BY <1>1, <1>2, <1>4, <2>1, <2>3, <2>4, SuccessFacts DEF RequestOK, Updated
  <2>6. EntryDue(c)'
    BY <1>2 DEF EntryDue
  <2>7. QED
    BY <1>1, <2>2, <2>5, <2>6, QuietRequest
<1>5. QED
  BY <1>3, <1>4 DEF CallFails

(***************************************************************************)
(* Steps of a request that write its row.                                  *)
(***************************************************************************)

LEMMA SetRowFacts ==
  ASSUME TableInv, NEW c \in Client, step[c] # "idle", NEW v \in Client \cup {NoRow}, SetRow(c, v)
  PROVE  /\ rows' \in [Tables -> [Groups -> Client \cup {NoRow}]]
         /\ \A t \in Tables, k \in Groups : rows'[t][k] = IF On(c, t, k) THEN v ELSE rows[t][k]
<1>1. /\ ask[c].table \in Tables /\ ask[c].key \in Groups
      /\ rows \in [Tables -> [Groups -> Client \cup {NoRow}]]
      /\ rows' = [rows EXCEPT ![ask[c].table][ask[c].key] = v]
  BY AskFacts DEF TableInv, SetRow
<1>2. QED
  BY <1>1 DEF On

\* The counts: a creation fills the row, an update finds it filled, a deletion empties it.
LEMMA WriteKeeps ==
  ASSUME TableInv, NEW c \in Client, step[c] = "write", UNCHANGED <<ask, audited>>, UNCHANGED dirVars,
         NEW v, SetRow(c, v), wrote' = wrote \cup {c},
         NEW s \in {"reread", "audit"}, Goto(c, s), s = "reread" => Updated(c),
         \/ ask[c].op = "create" /\ v = c /\ Row(c) = NoRow
         \/ Updated(c) /\ v = c /\ Row(c) # NoRow
         \/ ask[c].op = "delete" /\ v = NoRow
  PROVE  TableInv'
<1> DEFINE t0 == ask[c].table
           k0 == ask[c].key
<1>1. /\ t0 \in Tables /\ k0 \in Groups /\ Row(c) = rows[t0][k0] /\ On(c, t0, k0)
      /\ v \in Client \cup {NoRow} /\ c # NoRow
  BY AskFacts, ClientAssumption DEF Row, On
<1>2. RequestOK(c) /\ c \notin wrote /\ c \notin audited /\ answer[c] = 0
  BY DEF TableInv, RequestOK
<1>3. /\ rows' \in [Tables -> [Groups -> Client \cup {NoRow}]]
      /\ \A t \in Tables, k \in Groups : rows'[t][k] = IF On(c, t, k) THEN v ELSE rows[t][k]
  BY <1>1, SetRowFacts
<1>4. step'[c] = s /\ answer'[c] = 0 /\ ask'[c] = ask[c]
  BY <1>2 DEF Goto, TableInv
<1>5. Moves(c)
  <2>1. Steps(c)
    BY DEF Steps, Points
  <2>2. QED
    BY <1>3, <2>1, SpendNothing, StepsMove
<1>6. RowMoves(c)
  BY <1>1, <1>3 DEF RowMoves, On, Updated, Row
<1>7. \A t, k, op : Made(t, k, op)' = IF On(c, t, k) /\ ask[c].op = op THEN Made(t, k, op) \cup {c} ELSE Made(t, k, op)
  BY <1>2, <1>5, MadeGrows
<1>8. \A t, k, op : c \notin Made(t, k, op)
  BY <1>2 DEF Made
<1>9. ASSUME NEW t \in Tables, NEW k \in Groups PROVE RowOK(t, k)'
  <2> DEFINE made == Made(t, k, "create")
             deleted2 == Made(t, k, "delete")
             updated == Made(t, k, "update")
             there == IF rows[t][k] = NoRow THEN 0 ELSE 1
             holds == /\ rows[t][k] # NoRow => rows[t][k] \in made \cup updated /\ made # {}
                      /\ rows[t][k] = NoRow /\ made # {} => deleted2 # {}
                      /\ Cardinality(made) <= Cardinality(deleted2) + there
  <2>1. holds /\ (holds' => RowOK(t, k)')
    BY DEF TableInv, RowOK
  <2>2. /\ Cardinality(made) \in Nat /\ Cardinality(deleted2) \in Nat
        /\ Cardinality(made \cup {c}) = Cardinality(made) + 1
        /\ Cardinality(deleted2 \cup {c}) = Cardinality(deleted2) + 1
    BY <1>8, MadeFinite
  <2>3. /\ made' = IF On(c, t, k) /\ ask[c].op = "create" THEN made \cup {c} ELSE made
        /\ deleted2' = IF On(c, t, k) /\ ask[c].op = "delete" THEN deleted2 \cup {c} ELSE deleted2
        /\ updated' = IF On(c, t, k) /\ Updated(c) THEN updated \cup {c} ELSE updated
    BY <1>7 DEF Updated
  <2>4. there = (IF rows[t][k] = NoRow THEN 0 ELSE 1) /\ there' = (IF rows'[t][k] = NoRow THEN 0 ELSE 1)
    OBVIOUS
  <2> HIDE DEF made, deleted2, updated, there
  <2>5. CASE ~On(c, t, k)
    <3>1. made' = made /\ deleted2' = deleted2 /\ updated' = updated /\ rows'[t][k] = rows[t][k]
      BY <1>3, <2>3, <2>5
    <3>2. QED
      BY <2>1, <2>4, <3>1
  <2>6. CASE On(c, t, k)
    <3>1. rows[t][k] = Row(c) /\ rows'[t][k] = v
      BY <1>3, <2>6 DEF On, Row
    <3>2. CASE ask[c].op = "create" /\ v = c /\ Row(c) = NoRow
      <4>1. made' = made \cup {c} /\ deleted2' = deleted2 /\ there = 0 /\ there' = 1
        BY <1>1, <2>3, <2>4, <2>6, <3>1, <3>2
      <4>2. Cardinality(made') <= Cardinality(deleted2') + there'
        BY <2>1, <2>2, <4>1
      <4>3. QED
        BY <1>1, <2>1, <3>1, <3>2, <4>1, <4>2
    <3>3. CASE Updated(c) /\ v = c /\ Row(c) # NoRow
      <4>1. made' = made /\ deleted2' = deleted2 /\ updated' = updated \cup {c} /\ there' = there
        BY <1>1, <2>3, <2>4, <2>6, <3>1, <3>3 DEF Updated
      <4>2. QED
        BY <1>1, <2>1, <3>1, <3>3, <4>1
    <3>4. CASE ask[c].op = "delete" /\ v = NoRow
      <4>1. made' = made /\ deleted2' = deleted2 \cup {c} /\ there \in {0, 1} /\ there' = 0
        BY <2>3, <2>4, <2>6, <3>1, <3>4
      <4>2. Cardinality(made') <= Cardinality(deleted2') + there'
        BY <2>1, <2>2, <4>1
      <4>3. QED
        BY <2>1, <3>1, <3>4, <4>1, <4>2
    <3>5. QED
      BY <3>2, <3>3, <3>4
  <2>7. QED
    BY <2>5, <2>6
<1>10. RequestOK(c)'
  BY <1>2, <1>4, <1>5 DEF RequestOK, Updated, Moves
<1>11. UndoneByOther(c)' /\ EntryDue(c)'
  <2>1. Row(c)' = v
    BY <1>1, <1>3 DEF Row
  <2>2. QED
    BY <1>4, <2>1 DEF UndoneByOther, EntryDue, Updated
<1>12. ASSUME NEW d \in Client PROVE RequestOK(d)' /\ UndoneByOther(d)' /\ EntryDue(d)'
  BY <1>5, <1>6, <1>10, <1>11, OthersStay
<1>13. IsFiniteSet(wrote') /\ wrote' \subseteq Client
  BY FS_AddElement DEF TableInv
<1>14. QED
  BY <1>5, <1>9, <1>12, <1>13 DEF TableInv, Moves

LEMMA InsertKeeps ==
  ASSUME TableInv, NEW c \in Client, Insert(c), ask[c].op = "create", UNCHANGED dirVars
  PROVE  TableInv'
<1>1. step[c] = "write" /\ c \notin wrote /\ UNCHANGED <<ask, audited>>
  BY DEF Insert, TableInv, RequestOK
<1>2. CASE Row(c) = NoRow
  BY <1>1, <1>2, WriteKeeps DEF Insert
<1>3. CASE Row(c) # NoRow
  <2>1. Answer(c, 500) /\ UNCHANGED <<rows, wrote>>
    BY <1>3 DEF Insert
  <2>2. QED
    BY <1>1, <2>1, SpendNothing, RefuseKeeps
<1>4. QED
  BY <1>2, <1>3

LEMMA DeleteKeeps ==
  ASSUME TableInv, NEW c \in Client, Delete(c), ask[c].op = "delete", UNCHANGED dirVars
  PROVE  TableInv'
BY WriteKeeps DEF Delete

\* An update that finds no row any more: it was created once, and deleted.
LEMMA UpdateKeeps ==
  ASSUME TableInv, NEW c \in Client, UpdateTemplate(c), Updated(c), UNCHANGED dirVars
  PROVE  TableInv'
<1>1. step[c] = "write" /\ UNCHANGED <<ask, audited>> /\ Goto(c, "reread")
  BY DEF UpdateTemplate
<1>2. CASE Row(c) # NoRow
  BY <1>1, <1>2, WriteKeeps DEF UpdateTemplate
<1>3. CASE Row(c) = NoRow
  <2>1. UNCHANGED <<rows, wrote>>
    BY <1>3 DEF UpdateTemplate
  <2>2. RequestOK(c) /\ c \notin wrote /\ c \notin audited /\ answer[c] = 0
    BY <1>1 DEF TableInv, RequestOK
  <2>3. Made(ask[c].table, ask[c].key, "create") # {}
    BY <1>1, <2>2 DEF RequestOK
  <2>4. Made(ask[c].table, ask[c].key, "delete") # {}
    BY <1>1, <1>3, <2>3, AskFacts DEF TableInv, RowOK, Row
  <2>5. RequestOK(c)'
    BY <1>1, <2>1, <2>2, <2>3, <2>4, SpendNothing, GoesOK
  <2>6. QED
    BY <1>1, <2>1, <2>2, <2>5, SpendNothing, ReadKeeps DEF Points
<1>4. QED
  BY <1>2, <1>3

(***************************************************************************)
(* Every step.                                                             *)
(***************************************************************************)

LEMMA TableStart == Init => TableInv
<1> SUFFICES ASSUME Init PROVE TableInv
  OBVIOUS
<1>1. BudgetInv
  <2>1. load \in Loads /\ budget = load.budget
    BY DEF Init, DirInit
  <2>2. load.budget \in [Budget -> Nat]
    BY <2>1, LoadsAssumption
  <2>3. QED
    BY <2>1, <2>2 DEF BudgetInv
<1>2. /\ rows = [t \in Tables |-> [k \in Groups |-> NoRow]] /\ ask = [c \in Client |-> NoAsk]
      /\ step = [c \in Client |-> "idle"] /\ answer = [c \in Client |-> 0]
      /\ wrote = {} /\ audited = {}
  BY DEF Init, RegInit
<1>3. \A t, k, op : Made(t, k, op) = {}
  BY <1>2 DEF Made
<1>4. ASSUME NEW c \in Client PROVE RequestOK(c) /\ UndoneByOther(c) /\ EntryDue(c)
  BY <1>2 DEF RequestOK, UndoneByOther, EntryDue
<1>5. ASSUME NEW t \in Tables, NEW k \in Groups PROVE RowOK(t, k)
  <2>1. rows[t][k] = NoRow /\ Cardinality({}) = 0
    BY <1>2, FS_EmptySet
  <2>2. QED
    BY <1>3, <2>1 DEF RowOK
<1>6. ask \in [Client -> AnyAsk] /\ step \in [Client -> Points] /\ answer \in [Client -> Codes]
  BY <1>2 DEF AnyAsk, Points, Codes
<1>7. QED
  BY <1>1, <1>2, <1>4, <1>5, <1>6, FS_EmptySet DEF TableInv

\* What is done beside the requests spends at most something.
LEMMA OthersKeepTables ==
  ASSUME TableInv, UNCHANGED <<rows, ask, step, answer, wrote, audited>>, load' = load,
         NEW w \in Budget, Spend(w) \/ UNCHANGED budget
  PROVE  TableInv'
<1>1. BudgetInv' /\ (Untroubled' => Untroubled)
  BY SpendFacts DEF TableInv
<1>2. \A t, k, op : Made(t, k, op)' = Made(t, k, op)
  BY DEF Made, On
<1>3. ASSUME NEW c \in Client PROVE RequestOK(c)' /\ UndoneByOther(c)' /\ EntryDue(c)'
  <2>1. RequestOK(c) /\ UndoneByOther(c) /\ EntryDue(c)
    BY DEF TableInv
  <2>2. RequestOK(c)'
    BY <1>2, <2>1 DEF RequestOK, Updated
  <2>3. UndoneByOther(c)'
    BY <2>1 DEF UndoneByOther, SameRow, Row
  <2>4. EntryDue(c)'
    BY <1>1, <2>1 DEF EntryDue, Updated, Row
  <2>5. QED
    BY <2>2, <2>3, <2>4
<1>4. ASSUME NEW t \in Tables, NEW k \in Groups PROVE RowOK(t, k)'
  BY <1>2 DEF TableInv, RowOK
<1>5. AnyAsk' = AnyAsk
  BY DEF AnyAsk
<1>6. QED
  BY <1>1, <1>3, <1>4, <1>5 DEF TableInv

LEMMA HandleKeeps ==
  ASSUME TableInv, NEW c \in Client, Handle(c), UNCHANGED dirVars
  PROVE  TableInv'
<1>1. CASE createSyncGroup(c)
  BY <1>1, CheckAbsentKeeps, VerifyGroupKeeps, InsertKeeps, AuditKeeps DEF createSyncGroup, Asks
<1>2. CASE createTemplate(c) \/ createCRAMCredential(c)
  BY <1>2, CheckAbsentKeeps, InsertKeeps, AuditKeeps DEF createTemplate, createCRAMCredential, Asks
<1>3. CASE deleteSyncGroup(c) \/ deleteTemplate(c) \/ deleteCRAMCredential(c)
  BY <1>3, CheckPresentKeeps, DeleteKeeps, AuditKeeps DEF deleteSyncGroup, deleteTemplate, deleteCRAMCredential, Asks
<1>4. CASE updateTemplate(c)
  BY <1>4, CheckPresentKeeps, UpdateKeeps, RereadKeeps, AuditKeeps DEF updateTemplate, Asks, Updated
<1>5. QED
  BY <1>1, <1>2, <1>3, <1>4 DEF Handle

\* A restart: what was under way is never answered, what was written stays.
LEMMA CrashKeepsTables ==
  ASSUME TableInv, Crash
  PROVE  TableInv'
<1>1. /\ step' = [c \in Client |-> IF Dropped(c) THEN "gone" ELSE step[c]]
      /\ UNCHANGED <<rows, ask, answer, wrote, audited>> /\ load' = load
  BY DEF Crash, RegCrash
<1>2. BudgetInv' /\ ~Untroubled'
  <2>1. "crashes" \in Budget /\ Spend("crashes")
    BY DEF Crash, Budget
  <2>2. QED
    BY <1>1, <2>1, SpendFacts DEF TableInv
<1>3. \A t, k, op : Made(t, k, op)' = Made(t, k, op)
  BY <1>1 DEF Made, On
<1>4. ASSUME NEW c \in Client PROVE RequestOK(c)' /\ UndoneByOther(c)' /\ EntryDue(c)'
  <2>1. RequestOK(c) /\ UndoneByOther(c)
    BY DEF TableInv
  <2>2. step'[c] = (IF step[c] \in {"idle", "done"} THEN step[c] ELSE "gone") /\ ask'[c] = ask[c] /\ answer'[c] = answer[c]
    BY <1>1 DEF Dropped
  <2>3. RequestOK(c)'
    BY <1>1, <1>3, <2>1, <2>2 DEF RequestOK, Updated
  <2>4. UndoneByOther(c)'
    BY <1>1, <2>1 DEF UndoneByOther, SameRow, Row
  <2>5. EntryDue(c)'
    BY <1>2 DEF EntryDue
  <2>6. QED
    BY <2>3, <2>4, <2>5
<1>5. ASSUME NEW t \in Tables, NEW k \in Groups PROVE RowOK(t, k)'
  BY <1>1, <1>3 DEF TableInv, RowOK
<1>6. step' \in [Client -> Points]
  BY <1>1 DEF TableInv, Points
<1>7. AnyAsk' = AnyAsk
  BY <1>1 DEF AnyAsk
<1>8. QED
  BY <1>1, <1>2, <1>4, <1>5, <1>6, <1>7 DEF TableInv

\* The steps of the syncer, the visitors and the world leave the requests alone.
LEMMA BesideRequests ==
  ASSUME SyncStep \/ (\E v \in Visitor : AccessStep(v)) \/ SweepStep \/ World \/ UNCHANGED vars
  PROVE  /\ UNCHANGED <<rows, ask, step, answer, wrote, audited>> /\ load' = load
         /\ \E w \in Budget : Spend(w) \/ UNCHANGED budget
<1>1. UNCHANGED regVars \/ UNCHANGED requests => UNCHANGED <<rows, ask, step, answer, wrote, audited>>
  BY DEF regVars, requests
<1>2. Fault => load' = load /\ Spend("faults")
  BY DEF Fault
<1>3. UNCHANGED dirVars => load' = load /\ UNCHANGED budget
  BY DEF dirVars
<1>4. {"faults", "changes", "time"} \subseteq Budget
  BY DEF Budget
<1>5. CASE SyncStep
  <2>1. Sync \/ ListFails \/ NamesFail \/ CleanFails \/ ConnectFails \/ ResolveFails \/ SearchFails \/ TxFails =>
          UNCHANGED regVars \/ UNCHANGED requests
    BY DEF Sync, List, ListNames, CleanDone, Connect, BeginTx, Commit, CycleDone, CleanGroup, Resolve, Search,
           InsertMember, ListFails, NamesFail, CleanFails, ConnectFails, ResolveFails, SearchFails, TxFails, EndTx
  <2>2. QED
    BY <1>1, <1>2, <1>3, <1>4, <1>5, <2>1 DEF SyncStep, SyncFails
<1>6. CASE \E v \in Visitor : AccessStep(v)
  BY <1>1, <1>2, <1>3, <1>4, <1>6 DEF AccessStep, DirectoryFails
<1>7. CASE SweepStep
  BY <1>1, <1>3, <1>4, <1>7 DEF SweepStep
<1>8. CASE World
  BY <1>1, <1>4, <1>8 DEF World, DirectoryChange, Replicate, Tick
<1>9. CASE UNCHANGED vars
  BY <1>1, <1>3, <1>4, <1>9 DEF vars
<1>10. QED
  BY <1>5, <1>6, <1>7, <1>8, <1>9

LEMMA TableNext == TableInv /\ [Next]_vars => TableInv'
<1> SUFFICES ASSUME TableInv, [Next]_vars PROVE TableInv'
  OBVIOUS
<1>1. CASE \E c \in Client : RegistryStep(c)
  BY <1>1, ArriveKeeps, HandleKeeps, CallFailsKeeps DEF RegistryStep
<1>2. CASE SyncStep \/ (\E v \in Visitor : AccessStep(v)) \/ SweepStep \/ World \/ UNCHANGED vars
  BY <1>2, BesideRequests, OthersKeepTables
<1>3. CASE Crash
  BY <1>3, CrashKeepsTables
<1>4. QED
  BY <1>1, <1>2, <1>3 DEF Next

\* The invariant of the tables holds in every reachable state. (The handlers of
\* api/sync_groups.go, api/templates.go and api/cram_credentials.go together.)
THEOREM TablesConsistent == Spec => []TableInv
<1>1. QED
  BY TableStart, TableNext, PTL DEF Spec

\* What an administrator was told stays true until another one changes it, and a row is
\* created again only after a deletion, for any number of requests that check and
\* write in any order. (createSyncGroupCore, createTemplateCore,
\* handleCreateCRAMCredential, handleUpdateTemplate.)
THEOREM ToldStaysTrue == Spec => []ToldIsTrue
<1>1. TableInv => ToldIsTrue
  <2> SUFFICES ASSUME TableInv PROVE ToldIsTrue
    OBVIOUS
  <2>1. ASSUME NEW c \in Client, answer[c] = 201, Row(c) # c
        PROVE  \E d \in Client \ {c} : SameRow(c, d) /\ (Did(d, "delete") \/ Did(d, "update"))
    BY <2>1 DEF TableInv, RequestOK, UndoneByOther, Did
  <2>2. ASSUME NEW c \in Client
        PROVE  Cardinality({d \in Client : answer[d] = 201 /\ SameRow(c, d)})
                 <= Cardinality({d \in Client : SameRow(c, d) /\ Did(d, "delete")}) + 1
    <3> DEFINE told == {d \in Client : answer[d] = 201 /\ SameRow(c, d)}
               undone == {d \in Client : SameRow(c, d) /\ Did(d, "delete")}
               t == ask[c].table
               k == ask[c].key
    <3>1. told \subseteq Made(t, k, "create")
      BY DEF TableInv, RequestOK, Made, On, SameRow
    <3>2. undone = Made(t, k, "delete")
      BY DEF TableInv, Made, On, SameRow, Did
    <3>3. /\ IsFiniteSet(Made(t, k, "create")) /\ Cardinality(Made(t, k, "create")) \in Nat
          /\ Cardinality(Made(t, k, "delete")) \in Nat
      BY MadeFinite
    <3>4. Cardinality(told) <= Cardinality(Made(t, k, "create")) /\ Cardinality(told) \in Nat
      BY <3>1, <3>3, FS_Subset, FS_CardinalityType
    <3>5. CASE told = {}
      <4>1. Cardinality(told) = 0
        BY <3>5, FS_EmptySet
      <4>2. QED
        BY <3>2, <3>3, <4>1
    <3>6. CASE told # {}
      <4>1. PICK d \in Client : answer[d] = 201 /\ SameRow(c, d)
        BY <3>6
      <4>2. d \in wrote /\ ask[d].table = t /\ ask[d].key = k
        BY <4>1 DEF TableInv, RequestOK, SameRow
      <4>3. t \in Tables /\ k \in Groups
        BY <4>2, AskFacts
      <4>4. Cardinality(Made(t, k, "create"))
              <= Cardinality(Made(t, k, "delete")) + (IF rows[t][k] = NoRow THEN 0 ELSE 1)
        BY <4>3 DEF TableInv, RowOK
      <4> HIDE DEF told, undone, t, k
      <4>5. Cardinality(told) <= Cardinality(undone) + 1
        BY <3>2, <3>3, <3>4, <4>4
      <4>6. QED
        BY <4>5 DEF told, undone
    <3>7. QED
      BY <3>5, <3>6
  <2>3. ASSUME NEW c \in Client, answer[c] = 200, c \notin wrote
        PROVE  \E d, e \in Client : SameRow(c, d) /\ SameRow(c, e) /\ Did(d, "delete") /\ Did(e, "create")
    <3>1. /\ Made(ask[c].table, ask[c].key, "create") # {}
          /\ Made(ask[c].table, ask[c].key, "delete") # {}
      BY <2>3 DEF TableInv, RequestOK
    <3>2. PICK e \in wrote : On(e, ask[c].table, ask[c].key) /\ ask[e].op = "create"
      BY <3>1 DEF Made
    <3>3. PICK d \in wrote : On(d, ask[c].table, ask[c].key) /\ ask[d].op = "delete"
      BY <3>1 DEF Made
    <3>4. d \in Client /\ e \in Client
      BY DEF TableInv
    <3>5. QED
      BY <3>2, <3>3, <3>4 DEF On, SameRow, Did
  <2>4. QED
    BY <2>1, <2>2, <2>3 DEF ToldIsTrue
<1>2. QED
  BY <1>1, TablesConsistent, PTL

\* With every query answered and nobody about to write an entry, the audit log accounts
\* for each row: the one that is there and those that were deleted, for any number of
\* requests in any order. (auditLogAction, called after the change.)
THEOREM AuditIsComplete == Spec => []AuditAccounts
<1>1. TableInv => AuditAccounts
  <2> SUFFICES ASSUME TableInv, Untroubled, NEW t \in Tables, NEW k \in Groups,
                      \A c \in Client : step[c] \in {"reread", "audit"} => ask[c].table # t \/ ask[c].key # k
               PROVE  /\ rows[t][k] # NoRow => rows[t][k] \in audited
                      /\ Logged(t, k, "create")
                           <= Logged(t, k, "delete") + (IF rows[t][k] = NoRow THEN 0 ELSE 1)
    BY DEF AuditAccounts
  <2>1. RowOK(t, k)
    BY DEF TableInv
  <2>2. \A c \in wrote : On(c, t, k) => c \in audited \/ (Updated(c) /\ Row(c) # c)
    BY DEF TableInv, EntryDue, On
  <2>3. \A c \in audited : c \in wrote \/ Updated(c)
    BY DEF TableInv, RequestOK
  <2>4. rows[t][k] # NoRow => rows[t][k] \in audited
    <3> SUFFICES ASSUME rows[t][k] # NoRow PROVE rows[t][k] \in audited
      OBVIOUS
    <3>1. rows[t][k] \in wrote /\ On(rows[t][k], t, k)
      BY <2>1 DEF RowOK, Made
    <3>2. Row(rows[t][k]) = rows[t][k]
      BY <3>1 DEF On, Row
    <3>3. QED
      BY <2>2, <3>1, <3>2
  <2>5. ASSUME NEW op \in {"create", "delete"}
        PROVE  Logged(t, k, op) = Cardinality(Made(t, k, op))
    <3>1. {c \in audited : ask[c].table = t /\ ask[c].key = k /\ ask[c].op = op} = Made(t, k, op)
      BY <2>2, <2>3 DEF Made, On, Updated
    <3>2. QED
      BY <3>1 DEF Logged
  <2>6. QED
    BY <2>1, <2>4, <2>5 DEF RowOK
<1>2. QED
  BY <1>1, TablesConsistent, PTL

(***************************************************************************)
(* The syncer.                                                             *)
(***************************************************************************)

Fetching == doing \in {"search", "begin", "insert"}
InTransaction == doing \in {"begin", "insert"}

SyncTypes ==
  /\ groupMembers \in [Groups -> SUBSET (Users \ Nameless)]
  /\ doing \in {"off", "idle", "names", "clean", "connect", "groups", "search", "begin", "insert"}
  /\ listed \subseteq Groups /\ orphans \subseteq Groups /\ todo \subseteq Groups
  /\ group \in Groups \cup {NoGroup}
  /\ conn \in Server \cup {"none"} /\ dn \in Places \cup {NoPlace}
  /\ found \subseteq Users /\ inTx \subseteq found \ Nameless
  /\ held \in BOOLEAN /\ (held <=> doing = "insert")
  /\ floor \in 0..Oldest /\ (floor = 0 <=> doing \in {"off", "idle"})
  /\ IF Fetching THEN group \in Groups ELSE group = NoGroup
  /\ ~InTransaction => found = {}
  /\ doing # "insert" => inTx = {}

\* The group at hand was at this place in content i; its members there in content j.
PlacedAt(i) == group \in DOMAIN contents[i].groups /\ dn = contents[i].groups[group].place
FoundAt(i, j) ==
  /\ group \in DOMAIN contents[i].groups
  /\ found = PeopleAt(contents[j].groups, group, contents[i].groups[group].place)

\* Where the group at hand was found some content of this cycle had it, and what the
\* search returned are its members there in the same or a later one.
ListingInv ==
  /\ doing = "search" => \E i \in floor..At(conn) : PlacedAt(i)
  /\ InTransaction => \E i, j \in floor..Latest : i <= j /\ FoundAt(i, j)

SyncInv == SyncTypes /\ ListingInv /\ SnapshotsOnly

LEMMA SyncStart == Init => SyncInv
<1> SUFFICES ASSUME Init PROVE SyncInv
  OBVIOUS
<1>1. Oldest \in Nat /\ ~held
  BY AccessStart, DirFacts DEF AccessInv, Init, RegInit
<1>2. /\ groupMembers = [g \in Groups |-> {}] /\ doing \in {"off", "idle"}
      /\ listed = {} /\ orphans = {} /\ conn = "none" /\ todo = {} /\ floor = 0
      /\ group = NoGroup /\ dn = NoPlace /\ found = {} /\ inTx = {} /\ held = FALSE
  BY DEF Init, RegInit, SyncInit
<1>3. SyncTypes
  <2>1. held \in BOOLEAN /\ (held <=> doing = "insert")
    BY <1>2
  <2>2. floor \in 0..Oldest /\ (floor = 0 <=> doing \in {"off", "idle"})
    BY <1>1, <1>2
  <2>3. ~Fetching /\ ~InTransaction
    BY <1>2 DEF Fetching, InTransaction
  <2>4. QED
    BY <1>2, <2>1, <2>2, <2>3 DEF SyncTypes
<1>4. QED
  BY <1>2, <1>3 DEF SyncInv, ListingInv, SnapshotsOnly, InTransaction

\* Where a group is and who is in it are of its type.
LEMMA EntryFacts ==
  ASSUME DirInv, NEW i \in 1..Latest
  PROVE  /\ DOMAIN contents[i].groups \subseteq Groups
         /\ \A g \in DOMAIN contents[i].groups :
              contents[i].groups[g].place \in Places /\ contents[i].groups[g].people \subseteq Users
         /\ \A g, p : PeopleAt(contents[i].groups, g, p) \subseteq Users
<1>1. contents[i] \in Content
  BY DirFacts
<1>2. PICK D \in SUBSET Groups : contents[i].groups \in [D -> Entries]
  BY <1>1 DEF Content, Memberships
<1>3. /\ DOMAIN contents[i].groups \subseteq Groups
      /\ \A g \in DOMAIN contents[i].groups :
           contents[i].groups[g].place \in Places /\ contents[i].groups[g].people \subseteq Users
  BY <1>2 DEF Entries
<1>4. QED
  BY <1>3 DEF PeopleAt

\* What was read of the directory stays read while more contents come.
LEMMA ListingStays ==
  ASSUME DirInv, DirStep, SyncTypes, ListingInv,
         doing' = "search" => doing = "search" /\ UNCHANGED <<group, dn, conn, floor>>,
         InTransaction' => InTransaction /\ UNCHANGED <<group, found, floor>>
  PROVE  ListingInv'
<1>1. /\ Latest \in Nat /\ Oldest \in Nat /\ floor \in Nat /\ Latest' \in Nat /\ Oldest' \in Nat
      /\ Latest <= Latest' /\ Oldest <= Oldest' /\ Oldest <= Latest
  <2>1. (DirInv => Latest \in Nat /\ Oldest \in Nat)'
    BY DirFacts, PTL
  <2>2. QED
    BY <2>1, DirFacts, DirStays DEF SyncTypes
<1>2. \A i \in 1..Latest : contents'[i] = contents[i]
  BY DirStays
<1>3. CASE doing' = "search"
  <2>1. PICK i \in floor..At(conn) : PlacedAt(i)
    BY <1>3 DEF ListingInv
  <2>2. floor >= 1
    BY <1>1, <1>3 DEF SyncTypes
  <2>3. At(conn) \in Nat /\ At(conn)' \in Nat /\ At(conn) <= At(conn)' /\ At(conn) <= Latest
    BY <1>1, <1>3 DEF At
  <2>4. i \in 1..Latest /\ i \in floor'..At(conn)'
    BY <1>1, <1>3, <2>2, <2>3
  <2>5. PlacedAt(i)'
    BY <1>2, <1>3, <2>1, <2>4 DEF PlacedAt
  <2>6. QED
    BY <1>3, <2>4, <2>5 DEF ListingInv, InTransaction
<1>4. CASE InTransaction'
  <2>1. PICK i \in floor..Latest, j \in floor..Latest : i <= j /\ FoundAt(i, j)
    BY <1>4 DEF ListingInv
  <2>3. floor >= 1
    BY <1>1, <1>4 DEF SyncTypes, InTransaction
  <2>4. i \in 1..Latest /\ j \in 1..Latest /\ i \in floor'..Latest' /\ j \in floor'..Latest'
    BY <1>1, <1>4, <2>3
  <2>5. FoundAt(i, j)'
    BY <1>2, <1>4, <2>1, <2>4 DEF FoundAt, PeopleAt
  <2>6. QED
    BY <1>4, <2>1, <2>4, <2>5 DEF ListingInv, InTransaction
<1>5. QED
  BY <1>3, <1>4 DEF ListingInv

LEMMA SnapshotsStay ==
  ASSUME DirInv, DirStep, SnapshotsOnly, groupMembers' = groupMembers
  PROVE  SnapshotsOnly'
<1>1. DOMAIN contents \subseteq DOMAIN contents' /\ \A i \in DOMAIN contents : contents'[i] = contents[i]
  <2>1. (DirInv => DOMAIN contents = 1..Latest /\ Latest \in Nat)'
    BY DirFacts, PTL
  <2>2. QED
    BY <2>1, DirFacts, DirStays
<1>2. QED
  BY <1>1 DEF SnapshotsOnly

\* While the syncer does not move.
LEMMA SyncRests ==
  ASSUME DirInv, DirStep, SyncInv, UNCHANGED syncVars, held' = held
  PROVE  SyncInv'
<1>1. UNCHANGED <<groupMembers, doing, listed, orphans, conn, todo, group, dn, found, inTx, floor>>
  BY DEF syncVars, cycle, fetch
<1>2. ListingInv' /\ SnapshotsOnly'
  BY <1>1, ListingStays, SnapshotsStay DEF SyncInv, InTransaction
<1>3. floor' \in 0..Oldest' /\ Server' = Server
  <2>1. Oldest \in Nat /\ Oldest <= Oldest' /\ load' = load
    BY DirFacts, DirStays
  <2>2. (DirInv => Oldest \in Nat)'
    BY DirFacts, PTL
  <2>3. QED
    BY <1>1, <2>1, <2>2, DirStays DEF SyncInv, SyncTypes, Server
<1>4. QED
  BY <1>1, <1>2, <1>3 DEF SyncInv, SyncTypes, Fetching, InTransaction

\* A step of the syncer sees one content of each server.
LEMMA SyncStands ==
  ASSUME DirInv, SyncStep
  PROVE  /\ DirStep /\ UNCHANGED <<load, now, contents, gone>>
         /\ Oldest' = Oldest /\ Latest' = Latest /\ Server' = Server
         /\ Oldest \in Nat /\ Latest \in Nat /\ 1 <= Oldest /\ Oldest <= Latest
<1>1. UNCHANGED <<load, now, contents, gone>>
  BY DEF SyncStep, SyncFails, Fault, dirVars
<1>2. QED
  BY <1>1, DirFacts DEF DirStep, Oldest, Latest, Server

LEMMA SyncTypesKeep ==
  ASSUME DirInv, SyncTypes, SyncStep
  PROVE  SyncTypes'
<1>1. Oldest' = Oldest /\ Server' = Server /\ Oldest \in Nat /\ 1 <= Oldest
  BY SyncStands
<1>2. CASE List
  BY <1>1, <1>2 DEF List, SyncTypes, Fetching, InTransaction, SyncGroups, fetch, regVars
<1>3. CASE ListNames \/ CleanFails \/ ListFails
  BY <1>1, <1>3 DEF ListNames, CleanFails, ListFails, SyncTypes, Fetching, InTransaction, syncVars, cycle, fetch, regVars
<1>4. CASE CleanDone \/ CycleDone \/ NamesFail \/ ConnectFails
  <2>1. CASE EndCycle
    BY <1>1, <1>4, <2>1 DEF CleanDone, CycleDone, NamesFail, ConnectFails, EndCycle, NoCycle, NoFetch, SyncTypes,
                            Fetching, InTransaction, regVars
  <2>2. CASE doing' = "connect" /\ UNCHANGED cycle /\ doing \in {"names", "clean"}
    BY <1>1, <1>4, <2>2 DEF CleanDone, CycleDone, NamesFail, ConnectFails, SyncTypes, Fetching, InTransaction,
                            cycle, fetch, regVars
  <2>3. QED
    BY <1>4, <2>1, <2>2 DEF CleanDone, CycleDone, NamesFail, ConnectFails
<1>5. CASE Connect \/ ResolveFails
  BY <1>1, <1>5 DEF Connect, ResolveFails, SyncTypes, Fetching, InTransaction, fetch, regVars
<1>6. CASE \E g \in Groups : CleanGroup(g)
  BY <1>1, <1>6 DEF CleanGroup, SyncTypes, Fetching, InTransaction, fetch, regVars
<1>7. CASE \E g \in Groups : Resolve(g)
  <2>1. PICK g \in Groups : Resolve(g)
    BY <1>7
  <2>2. Seen(conn) = contents[At(conn)] /\ At(conn) \in 1..Latest
    BY DirFacts DEF Seen
  <2>3. g \in DOMAIN Seen(conn).groups => Seen(conn).groups[g].place \in Places
    BY <2>2, EntryFacts
  <2>4. QED
    BY <1>1, <2>1, <2>3 DEF Resolve, SyncTypes, Fetching, InTransaction, regVars
<1>8. CASE Search
  <2>1. PeopleAt(Seen(conn).groups, group, dn) \subseteq Users
    BY DirFacts, EntryFacts DEF Seen
  <2>2. QED
    BY <1>1, <1>8, <2>1 DEF Search, SyncTypes, Fetching, InTransaction, regVars
<1>9. CASE SearchFails
  BY <1>1, <1>9 DEF SearchFails, NoFetch, SyncTypes, Fetching, InTransaction, regVars
<1>10. CASE TxFails
  BY <1>1, <1>10 DEF TxFails, EndTx, NoFetch, SyncTypes, Fetching, InTransaction
<1>11. CASE BeginTx \/ \E u \in Users : InsertMember(u)
  BY <1>1, <1>11 DEF BeginTx, InsertMember, cycle, fetch, SyncTypes, Fetching, InTransaction, regVars
<1>12. CASE Commit
  BY <1>1, <1>12 DEF Commit, EndTx, NoFetch, SyncTypes, Fetching, InTransaction
<1>13. QED
  BY <1>2, <1>3, <1>4, <1>5, <1>6, <1>7, <1>8, <1>9, <1>10, <1>11, <1>12 DEF SyncStep, Sync, SyncFails

\* The two queries see one server, the second the same content or a later one.
LEMMA ListingKeeps ==
  ASSUME DirInv, SyncTypes, ListingInv, SyncStep
  PROVE  ListingInv'
<1>1. /\ DirStep /\ UNCHANGED contents /\ Oldest' = Oldest /\ Latest' = Latest
      /\ Oldest \in Nat /\ Latest \in Nat /\ 1 <= Oldest /\ Oldest <= Latest
  BY SyncStands
<1>2. At(conn) \in Nat /\ Oldest <= At(conn) /\ At(conn) <= Latest /\ Seen(conn) = contents[At(conn)]
  BY <1>1, DirFacts DEF Seen
<1>3. CASE \E g \in Groups : Resolve(g)
  <2>1. PICK g \in Groups : Resolve(g)
    BY <1>3
  <2>2. CASE g \in DOMAIN Seen(conn).groups
    <3>1. /\ doing' = "search" /\ group' = g /\ dn' = Seen(conn).groups[g].place
          /\ UNCHANGED <<conn, floor>>
      BY <2>1, <2>2 DEF Resolve
    <3>2. floor \in Nat /\ floor <= Oldest
      BY <1>1 DEF SyncTypes
    <3>3. At(conn)' = At(conn) /\ At(conn) \in floor..At(conn)
      BY <1>1, <1>2, <3>1, <3>2 DEF At
    <3>4. PlacedAt(At(conn))'
      BY <1>1, <1>2, <2>2, <3>1, <3>3 DEF PlacedAt
    <3>5. QED
      BY <3>1, <3>3, <3>4 DEF ListingInv, InTransaction
  <2>3. CASE g \notin DOMAIN Seen(conn).groups
    BY <1>1, <2>1, <2>3, ListingStays DEF Resolve, InTransaction
  <2>4. QED
    BY <2>2, <2>3
<1>4. CASE Search
  <2>1. /\ doing = "search" /\ doing' = "begin" /\ found' = PeopleAt(Seen(conn).groups, group, dn)
        /\ UNCHANGED <<conn, group, floor>>
    BY <1>4 DEF Search
  <2>2. PICK i \in floor..At(conn) : PlacedAt(i)
    BY <2>1 DEF ListingInv
  <2>3. floor \in Nat /\ floor <= At(conn)
    BY <1>1, <1>2 DEF SyncTypes
  <2>4. PICK j \in floor..Latest : j = At(conn) /\ i <= j /\ i \in floor..Latest
    BY <1>1, <1>2, <2>3
  <2>5. FoundAt(i, j)'
    BY <1>1, <1>2, <2>1, <2>2, <2>4 DEF FoundAt, PlacedAt
  <2>6. i \in floor'..Latest' /\ j \in floor'..Latest' /\ i <= j
    BY <1>1, <2>1, <2>4
  <2>7. QED
    BY <2>1, <2>5, <2>6 DEF ListingInv, InTransaction
<1>5. CASE ~Search /\ \A g \in Groups : ~Resolve(g)
  <2>1. /\ doing' = "search" => doing = "search" /\ UNCHANGED <<group, dn, conn, floor>>
        /\ InTransaction' => InTransaction /\ UNCHANGED <<group, found, floor>>
    <3>1. CASE List \/ ListNames \/ CleanDone \/ Connect \/ CycleDone \/ NamesFail \/ ConnectFails \/ SearchFails
      BY <3>1 DEF List, ListNames, CleanDone, Connect, CycleDone, NamesFail, ConnectFails, SearchFails, EndCycle,
                  InTransaction
    <3>2. CASE (\E g \in Groups : CleanGroup(g)) \/ CleanFails \/ ResolveFails \/ ListFails
      BY <3>2 DEF CleanGroup, CleanFails, ResolveFails, ListFails, syncVars, cycle, fetch, InTransaction
    <3>3. CASE BeginTx \/ (\E u \in Users : InsertMember(u)) \/ Commit \/ TxFails
      BY <3>3 DEF BeginTx, InsertMember, Commit, TxFails, EndTx, cycle, fetch, InTransaction
    <3>4. QED
      BY <1>5, <3>1, <3>2, <3>3 DEF SyncStep, Sync, SyncFails
  <2>2. QED
    BY <1>1, <2>1, ListingStays
<1>6. QED
  BY <1>3, <1>4, <1>5

\* Emptying a group, or committing what the search returned.
LEMMA SnapshotsKeep ==
  ASSUME DirInv, SyncInv, SyncStep
  PROVE  SnapshotsOnly'
<1>1. /\ DirStep /\ UNCHANGED contents /\ Latest \in Nat /\ SyncTypes /\ ListingInv /\ SnapshotsOnly
      /\ DOMAIN contents = 1..Latest
  BY SyncStands, DirFacts DEF SyncInv
<1>2. CASE \E g \in Groups : CleanGroup(g)
  BY <1>1, <1>2 DEF CleanGroup, SyncTypes, SnapshotsOnly
<1>3. CASE Commit
  <2>1. /\ doing = "insert" /\ found \subseteq inTx \cup Nameless
        /\ groupMembers' = [groupMembers EXCEPT ![group] = inTx]
    BY <1>3 DEF Commit
  <2>2. group \in Groups /\ inTx = found \ Nameless /\ floor \in Nat /\ floor >= 1
    BY <1>1, <2>1, SyncStands DEF SyncTypes, Fetching
  <2>3. PICK i \in floor..Latest, j \in floor..Latest : FoundAt(i, j)
    BY <1>1, <2>1 DEF ListingInv, InTransaction
  <2>4. j \in DOMAIN contents
    BY <1>1, <2>2
  <2>5. found # {} => group \in DOMAIN contents[j].groups /\ found = contents[j].groups[group].people
    BY <2>3 DEF FoundAt, PeopleAt
  <2>6. groupMembers'[group] = inTx /\ \A h \in Groups \ {group} : groupMembers'[h] = groupMembers[h]
    BY <1>1, <2>1, <2>2 DEF SyncTypes
  <2>7. inTx # {} => group \in DOMAIN contents[j].groups /\ inTx = contents[j].groups[group].people \ Nameless
    BY <2>2, <2>5
  <2>8. QED
    BY <1>1, <2>4, <2>6, <2>7 DEF SnapshotsOnly
<1>4. CASE ~Commit /\ \A g \in Groups : ~CleanGroup(g)
  <2>1. groupMembers' = groupMembers
    BY <1>4 DEF SyncStep, SyncFails, Sync, List, ListNames, CleanDone, Connect, Search, Resolve, BeginTx, InsertMember,
                CycleDone, ListFails, NamesFail, CleanFails, ConnectFails, ResolveFails, SearchFails, TxFails, syncVars
  <2>2. QED
    BY <1>1, <2>1, SnapshotsStay
<1>5. QED
  BY <1>2, <1>3, <1>4

LEMMA SyncKeeps ==
  ASSUME DirInv, SyncInv, SyncStep
  PROVE  SyncInv'
BY SyncTypesKeep, ListingKeeps, SnapshotsKeep DEF SyncInv

LEMMA SyncNext == AccessInv /\ SyncInv /\ [Next]_vars => SyncInv'
<1> SUFFICES ASSUME AccessInv, SyncInv, [Next]_vars PROVE SyncInv'
  OBVIOUS
<1>1. DirInv
  BY DEF AccessInv
<1>2. CASE SyncStep
  BY <1>1, <1>2, SyncKeeps
<1>3. CASE \E c \in Client : RegistryStep(c)
  <2>1. PICK c \in Client : RegistryStep(c)
    BY <1>3
  <2>2. held' = held
    BY <2>1 DEF RegistryStep, Arrive, CallFails, Handle, createSyncGroup, deleteSyncGroup, createTemplate,
                updateTemplate, deleteTemplate, createCRAMCredential, deleteCRAMCredential, CheckAbsent,
                CheckPresent, VerifyGroup, Insert, Delete, UpdateTemplate, RereadTemplate, Audit
  <2>3. DirStep /\ UNCHANGED syncVars
    BY <2>1, AsideSteps DEF Aside, RegistryStep
  <2>4. QED
    BY <1>1, <2>2, <2>3, SyncRests
<1>4. CASE (\E v \in Visitor : AccessStep(v)) \/ SweepStep \/ World \/ UNCHANGED vars
  <2>1. UNCHANGED syncVars /\ held' = held
    BY <1>4 DEF AccessStep, SweepStep, World, vars, regVars
  <2>2. DirStep
    BY <1>4, AsideSteps DEF Aside, AccessStep, DirectoryFails, Fault, DirStep, dirVars
  <2>3. QED
    BY <1>1, <2>1, <2>2, SyncRests
<1>5. CASE Crash
  <2>0. UNCHANGED <<load, now, contents, gone>> /\ RegCrash /\ SyncCrash /\ Oldest \in Nat
    BY <1>1, <1>5, DirFacts DEF Crash
  <2>1. /\ DirStep /\ groupMembers' = groupMembers /\ held' = FALSE /\ NoCycle
        /\ doing' = IF doing = "off" THEN "off" ELSE "idle"
        /\ Oldest' = Oldest /\ Oldest \in Nat /\ Server' = Server
    BY <2>0 DEF RegCrash, SyncCrash, DirStep, Oldest, Server
  <2>2. SnapshotsOnly' /\ ListingInv'
    BY <1>1, <2>1, SnapshotsStay DEF SyncInv, ListingInv, InTransaction
  <2>3. SyncTypes'
    <3>1. held' \in BOOLEAN /\ (held' <=> doing' = "insert")
      BY <2>1
    <3>2. floor' = 0 /\ floor' \in 0..Oldest' /\ doing' \in {"off", "idle"}
      BY <2>1 DEF NoCycle
    <3>3. ~Fetching' /\ ~InTransaction'
      BY <3>2 DEF Fetching, InTransaction
    <3>4. /\ listed' = {} /\ orphans' = {} /\ conn' = "none" /\ todo' = {}
          /\ group' = NoGroup /\ dn' = NoPlace /\ found' = {} /\ inTx' = {}
          /\ groupMembers' \in [Groups -> SUBSET (Users \ Nameless)]
      BY <2>1 DEF NoCycle, NoFetch, SyncInv, SyncTypes
    <3>5. QED
      BY <3>1, <3>2, <3>3, <3>4 DEF SyncTypes
  <2>4. QED
    BY <2>2, <2>3 DEF SyncInv
<1>6. QED
  BY <1>2, <1>3, <1>4, <1>5 DEF Next

\* The invariant of the syncer holds in every reachable state. (ldap/sync.go)
THEOREM SyncConsistent == Spec => []SyncInv
<1>1. Init /\ [][Next]_vars /\ []AccessInv => []SyncInv
  BY SyncStart, SyncNext, PTL
<1>2. QED
  BY <1>1, AccessConsistent, PTL DEF Spec

\* The members stored for a group are all of those the directory had at one time, or
\* nobody, for any directory, any groups and a failure or a restart anywhere.
\* (syncGroup of ldap/sync.go)
THEOREM MembersAreSnapshots == Spec => []SnapshotsOnly
<1>1. SyncInv => SnapshotsOnly
  BY DEF SyncInv
<1>2. QED
  BY <1>1, SyncConsistent, PTL

(***************************************************************************)
(* The syncer implements GroupMirror. ListingInv says of which contents of  *)
(* the directory what is at hand is; CycleInv that a cycle goes by the list *)
(* it has read.                                                             *)
(***************************************************************************)

\* A cycle cleans no group of its list, searches no other, and starts with nothing.
CycleInv ==
  /\ doing \in {"off", "idle"} => listed = {} /\ orphans = {} /\ todo = {}
  /\ orphans \cap listed = {} /\ todo \subseteq listed
  /\ Fetching => group \in listed

LEMMA CycleNext == CycleInv /\ [Next]_vars => CycleInv'
<1> SUFFICES ASSUME CycleInv, [Next]_vars PROVE CycleInv'
  OBVIOUS
<1>1. CASE UNCHANGED syncVars
  BY <1>1 DEF syncVars, cycle, fetch, CycleInv, Fetching
<1>2. CASE SyncStep
  <2>1. CASE List \/ ListNames \/ Connect \/ ListFails
    BY <2>1 DEF List, ListNames, Connect, ListFails, syncVars, cycle, fetch, CycleInv, Fetching
  <2>2. CASE CleanDone \/ CycleDone \/ NamesFail \/ ConnectFails
    BY <2>2 DEF CleanDone, CycleDone, NamesFail, ConnectFails, EndCycle, NoCycle, cycle, CycleInv, Fetching
  <2>3. CASE (\E g \in Groups : CleanGroup(g) \/ Resolve(g)) \/ CleanFails \/ ResolveFails
    BY <2>3 DEF CleanGroup, Resolve, CleanFails, ResolveFails, fetch, CycleInv, Fetching
  <2>4. CASE Search \/ SearchFails \/ BeginTx \/ (\E u \in Users : InsertMember(u)) \/ Commit \/ TxFails
    BY <2>4 DEF Search, SearchFails, BeginTx, InsertMember, Commit, TxFails, EndTx, cycle, fetch, CycleInv, Fetching
  <2>5. QED
    BY <1>2, <2>1, <2>2, <2>3, <2>4 DEF SyncStep, Sync, SyncFails
<1>3. CASE Crash
  BY <1>3 DEF Crash, SyncCrash, NoCycle, CycleInv, Fetching
<1>4. QED
  BY <1>1, <1>2, <1>3 DEF Next, RegistryStep, AccessStep, SweepStep, World, vars

MirrorInv == ListingInv /\ CycleInv

\* The group at hand is on the list of the cycle; it was found where some content of the
\* directory, no older than those the servers had when the cycle began, had it; and what
\* the second query returned are its members at that place in the same content or a later
\* one: nobody if it had been removed or moved by then. (SearchGroupMembers of
\* ldap/client.go, whatever server Connect chose and whatever changes meanwhile)
THEOREM MirrorConsistent == Spec => []MirrorInv
<1>1. Init => CycleInv
  BY DEF Init, SyncInit, CycleInv, Fetching
<1>2. SyncInv => ListingInv
  BY DEF SyncInv
<1>3. QED
  BY <1>1, <1>2, CycleNext, SyncConsistent, PTL DEF Spec, MirrorInv

\* The contents of the directory, as the mirror sees them.
History == [i \in DOMAIN contents |-> contents[i].groups]

LEMMA SameMemberships == Mirror!Memberships = Memberships
BY DEF Mirror!Memberships, Memberships, Entries

LEMMA HistoryFacts ==
  ASSUME DirInv
  PROVE  /\ History \in Seq(Memberships) /\ Len(History) = Latest /\ DOMAIN History = 1..Latest
         /\ \A i \in 1..Latest : History[i] = contents[i].groups
<1>1. /\ Latest \in Nat /\ DOMAIN contents = 1..Latest
      /\ \A i \in 1..Latest : contents[i].groups \in Memberships
  BY DirFacts DEF Content
<1>2. /\ History \in [1..Latest -> Memberships] /\ DOMAIN History = 1..Latest
      /\ \A i \in 1..Latest : History[i] = contents[i].groups
  BY <1>1 DEF History
<1>3. History \in Seq(Memberships)
  BY <1>1, <1>2, SeqDef
<1>4. DOMAIN History = 1..Len(History) /\ Len(History) \in Nat
  BY <1>3, LenProperties
<1>5. Len(History) = Latest
  <2>1. \A a, b \in Nat : 1..a = 1..b => a <= b
    <3>1. ASSUME NEW a \in Nat, NEW b \in Nat, 1..a = 1..b PROVE a <= b
      <4>1. a = 0 \/ a \in 1..a
        OBVIOUS
      <4>2. QED
        BY <3>1, <4>1
    <3>2. QED
      BY <3>1
  <2>2. QED
    BY <1>1, <1>2, <1>4, <2>1
<1>6. QED
  BY <1>2, <1>3, <1>5

\* It grows by one content at a time, and the servers follow.
LEMMA HistoryGrows ==
  ASSUME DirInv, DirStep
  PROVE  \/ History' = History /\ Oldest' = Oldest
         \/ History' = History /\ Oldest < Len(History) /\ Oldest' = Oldest + 1
         \/ (\E m \in Memberships : History' = Append(History, m)) /\ Oldest' \in {Oldest, Oldest + 1}
<1>1. /\ Latest \in Nat /\ Oldest \in Nat /\ Latest = Len(contents) /\ Oldest = Len(gone) + 1
      /\ contents \in Seq(Content) /\ gone \in Seq(Nat) /\ now \in Nat
      /\ \A i \in 1..Latest : contents[i] \in Content
  BY DirFacts DEF Latest, Oldest, DirInv
<1>2. /\ History \in Seq(Memberships) /\ Len(History) = Latest
      /\ \A i \in 1..Latest : History[i] = contents[i].groups
  BY HistoryFacts
<1>3. gone' = Append(gone, now) => Oldest' = Oldest + 1
  BY <1>1, AppendProperties DEF Oldest
<1>4. CASE DirectoryChange
  <2>1. PICK c \in Edited(contents[Latest]) : contents' = Append(contents, c)
    BY <1>4 DEF DirectoryChange
  <2>2. 1 <= Latest /\ c \in Content
    BY <1>1, <2>1, DirFacts, EditedIsContent
  <2>3. c.groups \in Memberships
    BY <2>2 DEF Content
  <2>4. /\ Len(contents') = Latest + 1 /\ contents'[Latest + 1] = c
        /\ \A i \in 1..Latest : contents'[i] = contents[i]
    BY <1>1, <2>1, <2>2, AppendProperties
  <2>5. /\ History' \in Seq(Memberships) /\ Len(History') = Latest + 1
        /\ \A i \in 1..Latest + 1 : History'[i] = contents'[i].groups
    <3>1. DirInv' /\ Latest' = Latest + 1
      BY <2>4, DirStays DEF Latest
    <3>2. (DirInv => /\ History \in Seq(Memberships) /\ Len(History) = Latest
                     /\ \A i \in 1..Latest : History[i] = contents[i].groups)'
      BY HistoryFacts, PTL
    <3>3. Memberships' = Memberships
      BY DEF Memberships, Entries
    <3>4. QED
      BY <3>1, <3>2, <3>3
  <2> DEFINE grown == Append(History, c.groups)
  <2>6. /\ grown \in Seq(Memberships) /\ Len(grown) = Latest + 1 /\ grown[Latest + 1] = c.groups
        /\ \A i \in 1..Latest : grown[i] = History[i]
    BY <1>2, <2>3, AppendProperties
  <2> HIDE DEF grown
  <2>7. \A i \in 1..Latest + 1 : History'[i] = grown[i]
    <3>1. ASSUME NEW i \in 1..Latest + 1 PROVE i \in 1..Latest \/ i = Latest + 1
      BY <1>1
    <3>2. QED
      BY <1>2, <2>4, <2>5, <2>6, <3>1
  <2>8. History' = grown
    BY <2>5, <2>6, <2>7, SeqEqual
  <2>9. Oldest' \in {Oldest, Oldest + 1}
    BY <1>3, <1>4 DEF DirectoryChange, Oldest
  <2>10. QED
    BY <2>3, <2>8, <2>9 DEF grown
<1>5. CASE Replicate
  BY <1>2, <1>3, <1>5 DEF Replicate, History
<1>6. CASE UNCHANGED <<contents, gone>>
  BY <1>6 DEF History, Oldest
<1>7. QED
  BY <1>4, <1>5, <1>6 DEF DirStep, Tick

LEMMA MirrorInit == Init => Mirror!Init
<1> SUFFICES ASSUME Init PROVE Mirror!Init
  OBVIOUS
<1>1. DirInv
  BY AccessStart DEF AccessInv
<1>2. Latest = 1 /\ Oldest = 1
  <2>1. PICK c : contents = <<c>>
    BY DEF Init, DirInit
  <2>2. gone = <<>>
    BY DEF Init, DirInit
  <2>3. QED
    BY <2>1, <2>2 DEF Latest, Oldest
<1>3. History \in Seq(Memberships) /\ Len(History) = 1 /\ History[1] \in Memberships
  <2>1. History \in Seq(Memberships) /\ Len(History) = 1
    BY <1>1, <1>2, HistoryFacts
  <2>2. QED
    BY <2>1, ElementOfSeq
<1>4. History = <<History[1]>>
  BY <1>3
<1>5. /\ doing \in {"off", "idle"} /\ listed = {} /\ floor = 0 /\ SyncGroups \subseteq Groups
      /\ groupMembers = [g \in Groups |-> {}]
  BY DEF Init, SyncInit, SyncGroups
<1>6. History \in {<<c>> : c \in Memberships}
  BY <1>3, <1>4
<1>7. QED
  BY <1>2, <1>5, <1>6, SameMemberships DEF Mirror!Init, History

\* What is left of a step for the mirror: its round, and what is stored.
Round == <<doing \notin {"off", "idle"}, listed, floor>>

\* The directory and the list of groups change in steps of their own.
LEMMA OutsideStep ==
  ASSUME DirInv, DirStep, UNCHANGED <<Round, groupMembers>>, UNCHANGED rows \/ UNCHANGED <<contents, gone>>
  PROVE  [Mirror!Next]_(Mirror!vars)
<1>1. UNCHANGED <<contents, gone>> => History' = History /\ Oldest' = Oldest
  BY DEF History, Oldest
<1>2. (UNCHANGED rows => SyncGroups' = SyncGroups) /\ SyncGroups' \in SUBSET Groups
  BY DEF SyncGroups
<1>3. CASE History' = History /\ Oldest' = Oldest
  <2>1. Mirror!Configure
    BY <1>2, <1>3 DEF Round, Mirror!Configure, History
  <2>2. QED
    BY <2>1 DEF Mirror!Next
<1>4. CASE SyncGroups' = SyncGroups /\ History' = History /\ Oldest < Len(History) /\ Oldest' = Oldest + 1
  <2>1. Mirror!Replicate
    BY <1>4 DEF Round, Mirror!Replicate, History
  <2>2. QED
    BY <2>1 DEF Mirror!Next
<1>5. CASE /\ SyncGroups' = SyncGroups /\ \E m \in Memberships : History' = Append(History, m)
           /\ Oldest' \in {Oldest, Oldest + 1}
  <2>1. Mirror!DirectoryChange
    BY <1>5, SameMemberships DEF Round, Mirror!DirectoryChange, History
  <2>2. QED
    BY <2>1 DEF Mirror!Next
<1>6. QED
  BY <1>1, <1>2, <1>3, <1>4, <1>5, HistoryGrows

\* A round begins, ends, or neither.
LEMMA RoundStep ==
  ASSUME UNCHANGED <<contents, gone, rows, groupMembers>>,
         \/ UNCHANGED Round
         \/ doing = "idle" /\ doing' = "names" /\ listed' = SyncGroups /\ floor' = Oldest
         \/ doing \notin {"off", "idle"} /\ doing' \in {"off", "idle"} /\ listed' = {} /\ floor' = 0
  PROVE  [Mirror!Next]_(Mirror!vars)
<1>1. History' = History /\ Oldest' = Oldest /\ SyncGroups' = SyncGroups
  BY DEF History, Oldest, SyncGroups
<1>2. CASE UNCHANGED Round
  BY <1>1, <1>2 DEF Round, History, Mirror!vars
<1>3. CASE doing = "idle" /\ doing' = "names" /\ listed' = SyncGroups /\ floor' = Oldest
  <2>1. Mirror!Begin
    BY <1>1, <1>3 DEF Mirror!Begin, History
  <2>2. QED
    BY <2>1 DEF Mirror!Next
<1>4. CASE doing \notin {"off", "idle"} /\ doing' \in {"off", "idle"} /\ listed' = {} /\ floor' = 0
  <2>1. Mirror!End
    BY <1>1, <1>4 DEF Mirror!End, History
  <2>2. QED
    BY <2>1 DEF Mirror!Next
<1>5. QED
  BY <1>2, <1>3, <1>4

LEMMA CommitReplaces ==
  ASSUME DirInv, SyncInv, MirrorInv, UNCHANGED <<contents, gone, rows>>, Commit
  PROVE  [Mirror!Next]_(Mirror!vars)
<1>1. /\ InTransaction /\ found \subseteq inTx \cup Nameless
      /\ groupMembers' = [groupMembers EXCEPT ![group] = inTx]
      /\ doing \notin {"off", "idle"} /\ doing' \notin {"off", "idle"} /\ UNCHANGED <<listed, floor>>
  BY DEF Commit, EndTx, InTransaction
<1>2. /\ group \in Groups /\ inTx = found \ Nameless /\ group \in listed
      /\ floor \in Nat /\ floor >= 1 /\ Latest \in Nat
  BY <1>1, DirFacts DEF SyncInv, SyncTypes, MirrorInv, CycleInv, InTransaction, Fetching
<1>3. PICK i \in floor..Latest, j \in floor..Latest : i <= j /\ FoundAt(i, j)
  BY <1>1 DEF MirrorInv, ListingInv
<1>4. /\ History[i] = contents[i].groups /\ History[j] = contents[j].groups
      /\ i \in floor..Len(History) /\ j \in floor..Len(History)
  BY <1>2, HistoryFacts
<1>5. group \in DOMAIN History[i] /\ found = Mirror!Members(group, i, j)
  BY <1>3, <1>4 DEF FoundAt, PeopleAt, Mirror!Members, History
<1>6. History' = History /\ Oldest' = Oldest /\ SyncGroups' = SyncGroups
  BY DEF History, Oldest, SyncGroups
<1>7. groupMembers' = [groupMembers EXCEPT ![group] = Mirror!Members(group, i, j) \ Nameless]
  BY <1>1, <1>2, <1>5
<1>8. Mirror!Replace(group)
  BY <1>1, <1>2, <1>3, <1>4, <1>5, <1>6, <1>7 DEF Mirror!Replace, History
<1>9. QED
  BY <1>2, <1>8 DEF Mirror!Next

LEMMA CleanDrops ==
  ASSUME MirrorInv, UNCHANGED <<contents, gone, rows>>, NEW g \in Groups, CleanGroup(g)
  PROVE  [Mirror!Next]_(Mirror!vars)
<1>1. g \notin listed
  BY DEF MirrorInv, CycleInv, CleanGroup
<1>2. History' = History /\ Oldest' = Oldest /\ SyncGroups' = SyncGroups
  BY DEF History, Oldest, SyncGroups
<1>3. Mirror!Drop(g)
  BY <1>1, <1>2 DEF CleanGroup, Mirror!Drop, History
<1>4. QED
  BY <1>3 DEF Mirror!Next

LEMMA MirrorStep == AccessInv /\ SyncInv /\ MirrorInv /\ [Next]_vars => [Mirror!Next]_(Mirror!vars)
<1> SUFFICES ASSUME AccessInv, SyncInv, MirrorInv, [Next]_vars PROVE [Mirror!Next]_(Mirror!vars)
  OBVIOUS
<1>1. DirInv
  BY DEF AccessInv
<1>2. CASE SyncStep
  <2>1. UNCHANGED <<contents, gone, rows>>
    BY <1>2 DEF SyncStep, SyncFails, Fault, dirVars, Sync, List, ListNames, CleanDone, Connect, BeginTx, Commit,
                EndTx, CycleDone, CleanGroup, Resolve, Search, InsertMember, ListFails, NamesFail, CleanFails,
                ConnectFails, ResolveFails, SearchFails, TxFails, regVars, requests
  <2>2. CASE Commit
    BY <1>1, <2>1, <2>2, CommitReplaces
  <2>3. CASE \E g \in Groups : CleanGroup(g)
    BY <2>1, <2>3, CleanDrops
  <2>4. CASE List
    BY <2>1, <2>4, RoundStep DEF List
  <2>5. CASE CleanDone \/ NamesFail \/ CycleDone \/ ConnectFails
    BY <2>1, <2>5, RoundStep DEF CleanDone, NamesFail, CycleDone, ConnectFails, EndCycle, NoCycle, cycle, Round
  <2>6. CASE ListNames \/ Connect \/ CleanFails \/ ResolveFails \/ ListFails
    BY <2>1, <2>6, RoundStep DEF ListNames, Connect, CleanFails, ResolveFails, ListFails, syncVars, cycle, Round
  <2>7. CASE (\E g \in Groups : Resolve(g)) \/ Search \/ SearchFails
    BY <2>1, <2>7, RoundStep DEF Resolve, Search, SearchFails, Round
  <2>8. CASE BeginTx \/ (\E u \in Users : InsertMember(u)) \/ TxFails
    BY <2>1, <2>8, RoundStep DEF BeginTx, InsertMember, TxFails, EndTx, cycle, Round
  <2>9. QED
    BY <1>2, <2>2, <2>3, <2>4, <2>5, <2>6, <2>7, <2>8 DEF SyncStep, Sync, SyncFails
<1>3. CASE Crash
  <2>1. UNCHANGED <<contents, gone, rows, groupMembers>>
    BY <1>3 DEF Crash, RegCrash, SyncCrash
  <2>2. doing' \in {"off", "idle"} /\ listed' = {} /\ floor' = 0
    BY <1>3 DEF Crash, SyncCrash, NoCycle
  <2>3. doing \in {"off", "idle"} => UNCHANGED Round
    BY <2>2 DEF MirrorInv, CycleInv, SyncInv, SyncTypes, Round
  <2>4. QED
    BY <2>1, <2>2, <2>3, RoundStep
<1>4. CASE \/ (\E c \in Client : RegistryStep(c)) \/ (\E v \in Visitor : AccessStep(v)) \/ SweepStep
           \/ World \/ UNCHANGED vars
  <2>1. UNCHANGED syncVars /\ (UNCHANGED regVars \/ \E c \in Client : RegistryStep(c))
    BY <1>4 DEF RegistryStep, AccessStep, SweepStep, World, vars
  <2>2. DirStep
    BY <1>4, AsideSteps DEF Aside, AccessStep, DirectoryFails, Fault, DirStep, dirVars
  <2>3. (\E c \in Client : RegistryStep(c)) => UNCHANGED <<contents, gone>>
    BY DEF RegistryStep, CallFails, Fault, dirVars
  <2>4. UNCHANGED <<Round, groupMembers>>
    BY <2>1 DEF syncVars, cycle, Round
  <2>5. UNCHANGED rows \/ UNCHANGED <<contents, gone>>
    <3>1. CASE UNCHANGED regVars
      BY <3>1 DEF regVars, requests
    <3>2. QED
      BY <2>1, <2>3, <3>1
  <2>6. QED
    BY <1>1, <2>2, <2>4, <2>5, OutsideStep
<1>5. QED
  BY <1>2, <1>3, <1>4 DEF Next

\* A reader of group_members sees a group on the list replaced at once by its members in
\* one content of the directory, none that every server had left when the cycle began, or
\* by nobody if it was removed or moved between the two queries of its search; and emptied
\* otherwise only off the list: for any directory and lag of its backup, any groups, and
\* failures and restarts anywhere. (syncGroup and cleanupGroups of ldap/sync.go,
\* SearchGroupMembers of ldap/client.go)
THEOREM MirrorIsImplemented == Spec => ImplementsMirror
<1>1. Init /\ [][Next]_vars /\ []AccessInv /\ []SyncInv /\ []MirrorInv => Mirror!Spec
  BY MirrorInit, MirrorStep, PTL DEF Mirror!Spec
<1>2. QED
  BY <1>1, AccessConsistent, SyncConsistent, MirrorConsistent, PTL DEF Spec, ImplementsMirror

(***************************************************************************)
(* Types.                                                                  *)
(***************************************************************************)

Stages == {"idle", "search", "bind", "put", "grant", "done", "gone"}
Replies == {0, 200, 303, 401, 403, 500}

\* What AccessInv and SessionInv leave open about the visits and the sweeper.
VisitTypes ==
  /\ visit \in [Visitor -> (UNION {load.visits[v] : v \in Visitor}) \cup {NoVisit}]
  /\ vstep \in [Visitor -> Stages] /\ reply \in [Visitor -> Replies]
  /\ \A v \in Visitor : got[v].at \in -1..now /\ got[v].server \in Server
  /\ sweepAt >= -1

LEMMA VisitTypesStart == Init => VisitTypes
BY DEF Init, DirInit, AccessInit, VisitTypes, Stages, Replies, Nothing, Server

\* The place a visit goes to and its answer are among those there are.
LEMMA VisitMoves ==
  ASSUME NEW v \in Visitor, Serve(v) \/ DirectoryFails(v)
  PROVE  (\E s \in Stages : VGoto(v, s)) \/ \E a \in Replies : Reply(v, a)
<1>1. ASSUME NEW groups, Granted(v, groups) PROVE VGoto(v, "grant") \/ Reply(v, 200) \/ Reply(v, 403)
  BY <1>1 DEF Granted
<1>2. CASE LookupHit(v)
  BY <1>1, <1>2 DEF LookupHit, Stages, Replies
<1>3. CASE Store(v)
  BY <1>1, <1>3 DEF Store, Stages, Replies
<1>4. CASE LookupMiss(v) \/ SearchUser(v)
  BY <1>4 DEF LookupMiss, SearchUser, Stages
<1>5. CASE BindUser(v) \/ DirectoryFails(v)
  BY <1>5 DEF BindUser, DirectoryFails, Stages, Replies
<1>6. CASE Login(v) \/ Logout(v) \/ LoginForm(v)
  BY <1>6 DEF Login, Logout, LoginForm, Replies
<1>7. CASE Page(v)
  <2>1. Reply(v, 303) \/ Reply(v, 200) \/ Reply(v, 403)
    BY <1>7 DEF Page
  <2>2. QED
    BY <2>1 DEF Replies
<1>8. QED
  BY <1>2, <1>3, <1>4, <1>5, <1>6, <1>7 DEF Serve, authenticate

\* A result in hand carries the time it was had.
LEMMA GotMoves ==
  ASSUME AccessInv, VisitTypes, NEW v \in Visitor, Serve(v) \/ DirectoryFails(v), now' = now
  PROVE  \A w \in Visitor : got'[w].at \in -1..now /\ got'[w].server \in Server
<1>1. /\ now \in Nat /\ got \in [Visitor -> GotResult] /\ "primary" \in Server
      /\ \A w \in Visitor : got[w].at \in -1..now /\ got[w].server \in Server
  BY DEF AccessInv, DirInv, VisitTypes, Server
<1>2. CASE got' = got
  BY <1>1, <1>2
<1>4. CASE LookupHit(v)
  <2>1. got' = [got EXCEPT ![v] = [Nothing EXCEPT !.groups = index[Key(v)].groups,
                                   !.late = index[Key(v)].late, !.at = now, !.cached = TRUE]]
    BY <1>4 DEF LookupHit
  <2>2. QED
    BY <1>1, <2>1 DEF Nothing
<1>5. CASE Store(v)
  <2>1. got' = [got EXCEPT ![v].read = 0, ![v].server = "primary", ![v].late = now - got[v].read, ![v].at = now]
    BY <1>5 DEF Store
  <2>2. QED
    BY <1>1, <2>1 DEF GotResult
<1>6. CASE SearchUser(v)
  <2>1. PICK s \in Server :
          got' = [got EXCEPT ![v].groups = GroupsOf(Seen(s), visit[v].user), ![v].server = s, ![v].read = now]
    BY <1>6 DEF SearchUser
  <2>2. QED
    BY <1>1, <2>1 DEF GotResult
<1>7. CASE BindUser(v) \/ DirectoryFails(v)
  <2>1. got' = got \/ got' = [got EXCEPT ![v] = Nothing]
    BY <1>7 DEF BindUser, DirectoryFails
  <2>2. Nothing.at = -1 /\ Nothing.server = "primary"
    BY DEF Nothing
  <2>3. QED
    BY <1>1, <2>1, <2>2
<1>8. CASE LookupMiss(v) \/ Login(v) \/ LoginForm(v) \/ Page(v) \/ Logout(v)
  BY <1>2, <1>8 DEF LookupMiss, Login, LoginForm, Page, Logout, NoAuth
<1>9. QED
  BY <1>4, <1>5, <1>6, <1>7, <1>8 DEF Serve, authenticate

LEMMA VisitTypesNext == AccessInv /\ VisitTypes /\ [Next]_vars => VisitTypes'
<1> SUFFICES ASSUME AccessInv, VisitTypes, [Next]_vars PROVE VisitTypes'
  OBVIOUS
<1>1. now \in Nat
  BY DEF AccessInv, DirInv
<1>2. CASE (\E c \in Client : RegistryStep(c)) \/ SyncStep \/ World \/ UNCHANGED vars
  <2>1. UNCHANGED <<visit, vstep, got, reply, sweepAt>> /\ (now' = now \/ now' = now + 1)
    BY <1>2, AsideSteps DEF Aside, RegistryStep, SyncStep, World, vars, accessVars
  <2>2. load' = load
    BY <1>2 DEF RegistryStep, CallFails, SyncStep, SyncFails, Fault, World, DirectoryChange, Replicate, Tick,
                vars, dirVars
  <2>3. QED
    BY <1>1, <2>1, <2>2 DEF VisitTypes, Server
<1>3. CASE SweepStep
  <2>1. /\ UNCHANGED <<visit, vstep, got, reply, now, load>>
        /\ sweepAt' = -1 \/ sweepAt' = now
    BY <1>3 DEF SweepStep, SweepStart, Sweep, NoRequest, NoAuth, dirVars
  <2>2. QED
    BY <1>1, <2>1 DEF VisitTypes, Server
<1>4. CASE \E v \in Visitor : AccessStep(v)
  <2>1. PICK v \in Visitor : AccessStep(v)
    BY <1>4
  <2>2. (Serve(v) \/ DirectoryFails(v)) /\ now' = now /\ load' = load
    BY <2>1 DEF AccessStep, DirectoryFails, Fault, dirVars
  <2>3. visit' = visit /\ sweepAt' = sweepAt
    BY <2>2 DEF Serve, authenticate, LookupHit, LookupMiss, SearchUser, BindUser, Store, DirectoryFails,
                Login, LoginForm, Page, Logout, NoSession
  <2>4. vstep' \in [Visitor -> Stages] /\ reply' \in [Visitor -> Replies]
    <3>1. CASE \E s \in Stages : VGoto(v, s)
      BY <3>1 DEF VGoto, VisitTypes
    <3>2. CASE \E a \in Replies : Reply(v, a)
      <4>1. "done" \in Stages
        BY DEF Stages
      <4>2. QED
        BY <3>2, <4>1 DEF Reply, VisitTypes
    <3>3. QED
      BY <2>2, <3>1, <3>2, VisitMoves
  <2>5. \A w \in Visitor : got'[w].at \in -1..now /\ got'[w].server \in Server
    BY <2>2, GotMoves
  <2>6. QED
    BY <2>2, <2>3, <2>4, <2>5 DEF VisitTypes, Server
<1>5. CASE Crash
  <2>1. /\ vstep' = [v \in Visitor |-> IF vstep[v] \in {"idle", "done"} THEN vstep[v] ELSE "gone"]
        /\ sweepAt' = -1 /\ UNCHANGED <<visit, got, reply, now, load>>
    BY <1>5 DEF Crash, AccessCrash
  <2>2. vstep' \in [Visitor -> Stages]
    BY <2>1 DEF VisitTypes, Stages
  <2>3. QED
    BY <2>1, <2>2 DEF VisitTypes, Server
<1>6. QED
  BY <1>2, <1>3, <1>4, <1>5 DEF Next

\* Every variable of DirectoryServices keeps its type; above all the writer connection
\* is held exactly while the syncer's transaction is open.
THEOREM ServicesTyped == Spec => []TypeOK
<1>1. Init /\ [][Next]_vars /\ []AccessInv => []VisitTypes
  BY VisitTypesStart, VisitTypesNext, PTL
<1>2. AccessInv /\ SessionInv /\ VisitTypes /\ TableInv /\ SyncInv => TypeOK
  <2> SUFFICES ASSUME AccessInv, SessionInv, VisitTypes, TableInv, SyncInv PROVE TypeOK
    OBVIOUS
  <2>1. DirTypeOK
    <3>1. DirInv /\ DOMAIN contents = 1..Latest
      BY DirFacts DEF AccessInv
    <3>2. ASSUME NEW i \in DOMAIN contents
          PROVE  /\ DOMAIN contents[i].groups \subseteq Groups
                 /\ \A g \in DOMAIN contents[i].groups : contents[i].groups[g] \in Entries
                 /\ contents[i].password \in [Users -> Passwords]
      <4>1. contents[i] \in Content
        BY <3>1, DirFacts
      <4>2. PICK D \in SUBSET Groups : contents[i].groups \in [D -> Entries]
        BY <4>1 DEF Content, Memberships
      <4>3. QED
        BY <4>1, <4>2 DEF Content
    <3>3. \A i \in DOMAIN gone : gone[i] \in Nat
      BY <3>1, LenProperties, ElementOfSeq DEF DirInv
    <3>4. QED
      BY <3>1, <3>2, <3>3 DEF DirInv, TableInv, BudgetInv, DirTypeOK
  <2>2. RegTypeOK
    BY DEF TableInv, SyncInv, SyncTypes, RegTypeOK, AnyAsk, Points, Codes
  <2>3. SyncTypeOK
    BY DEF SyncInv, SyncTypes, SyncTypeOK
  <2>4. AccessTypeOK
    BY DEF AccessInv, GotResult, SessionInv, VisitTypes, AccessTypeOK, Stages, Replies
  <2>5. QED
    BY <2>1, <2>2, <2>3, <2>4 DEF TypeOK
<1>3. QED
  BY <1>1, <1>2, AccessConsistent, SessionsConsistent, TablesConsistent, SyncConsistent, PTL DEF Spec
=============================================================================
