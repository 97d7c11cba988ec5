------------------------------ MODULE AuthCache ------------------------------
(***************************************************************************)
(* The cache of successful authentications (ldap/cache.go): an index from   *)
(* credentials to entries and a list of the same entries, most recently     *)
(* used first, changed together under one mutex. The list is kept as the    *)
(* sequence of its keys. A key is a name and a password; the code's hash of *)
(* the two is left out.                                                     *)
(***************************************************************************)
EXTENDS Integers, SequencesExt

CONSTANTS
  MaxSize,  \* ldap.auth_cache_size; no cache when it is not positive
  TTL       \* ldap.auth_cache_ttl

ASSUME CacheAssumption == MaxSize \in Int /\ TTL \in Nat

VARIABLES
  index,  \* index[k] = [groups, late, expires] for the keys it has
  lru     \* the keys, front first

cacheVars == <<index, lru>>

CacheInit == index = <<>> /\ lru = <<>>

\* A list without the element at key k's place.
Without(s, k) == RemoveAt(s, CHOOSE i \in DOMAIN s : s[i] = k)
MoveToFront(s, k) == <<k>> \o Without(s, k)

\* Mutant: the expiry is not looked at.
FreshAlways(k, time) == k \in DOMAIN index

Fresh(k, time) == k \in DOMAIN index /\ time <= index[k].expires

\* Mutant: a hit also makes the entry young again.
HitRenews(k, time) ==
  /\ Fresh(k, time)
  /\ lru' = MoveToFront(lru, k)
  /\ index' = [index EXCEPT ![k].expires = time + TTL]

\* cacheGet: a fresh entry is used and moves to the front; an expired one leaves both.
Hit(k, time) ==
  /\ Fresh(k, time)
  /\ lru' = MoveToFront(lru, k)
  /\ UNCHANGED index

Miss(k, time) ==
  /\ ~Fresh(k, time)
  /\ IF k \in DOMAIN index
     THEN index' = Restrict(index, DOMAIN index \ {k}) /\ lru' = Without(lru, k)
     ELSE UNCHANGED cacheVars

Entry(groups, late, time) == [groups |-> groups, late |-> late, expires |-> time + TTL]

\* cachePut: an entry that is there is replaced; a new one takes the place of the one
\* at the back when the cache is full.
Replace(k, e) ==
  /\ k \in DOMAIN index
  /\ index' = [index EXCEPT ![k] = e]
  /\ lru' = MoveToFront(lru, k)

\* Mutant: the evicted element leaves the list and stays in the index.
AddLeaks(k, e) ==
  /\ k \notin DOMAIN index
  /\ lru' = <<k>> \o (IF Len(lru) >= MaxSize THEN Front(lru) ELSE lru)
  /\ index' = [x \in {k} \cup DOMAIN index |-> IF x = k THEN e ELSE index[x]]

Evicted == IF Len(lru) >= MaxSize THEN {Last(lru)} ELSE {}

Add(k, e) ==
  /\ k \notin DOMAIN index
  /\ lru' = <<k>> \o (IF Evicted = {} THEN lru ELSE Front(lru))
  /\ index' = [x \in {k} \cup (DOMAIN index \ Evicted) |-> IF x = k THEN e ELSE index[x]]

Put(k, e) == Replace(k, e) \/ Add(k, e)

\* The cache's two structures hold the same keys, each once, and no more than they
\* may. (The list and the index are changed by different calls in each branch of
\* cacheGet and cachePut; a slip would leak entries or evict nothing.)
InStep ==
  /\ ToSet(lru) = DOMAIN index
  /\ IsInjective(lru)
  /\ Len(lru) <= MaxSize \/ lru = <<>>
=============================================================================
