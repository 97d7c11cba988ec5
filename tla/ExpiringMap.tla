---------------------------- MODULE ExpiringMap -----------------------------
(***************************************************************************)
(* What the cache of authentications promises, without its list and its     *)
(* index: a map of bounded size whose entries may be lost at any time, are  *)
(* written only by who has just learned the result, and are served as they  *)
(* were written, for TTL after that and no longer.                          *)
(***************************************************************************)
EXTENDS Integers, FiniteSets, Functions

CONSTANTS
  Keys, Results,
  MaxSize,  \* ldap.auth_cache_size
  TTL       \* ldap.auth_cache_ttl

VARIABLES
  map,     \* map[k] = [result, until] for the keys it has
  now,     \* the clock
  served   \* what was answered from the map: [key, result, at]

vars == <<map, now, served>>

Init == map = <<>> /\ now = 0 /\ served = {}

\* k's result is learned now; other entries may have to make room.
Learn(k, r) ==
  /\ \E kept \in SUBSET (DOMAIN map \ {k}) :
       /\ Cardinality(kept) < MaxSize
       /\ map' = [x \in kept \cup {k} |->
                    IF x = k THEN [result |-> r, until |-> now + TTL] ELSE map[x]]
  /\ UNCHANGED <<now, served>>

Lose ==
  /\ \E kept \in SUBSET DOMAIN map : map' = Restrict(map, kept)
  /\ UNCHANGED <<now, served>>

Serve(k) ==
  /\ k \in DOMAIN map /\ now <= map[k].until
  /\ served' = served \cup {[key |-> k, result |-> map[k].result, at |-> now]}
  /\ UNCHANGED <<map, now>>

Tick == now' \in Nat /\ now' > now /\ UNCHANGED <<map, served>>

Next ==
  \/ \E k \in Keys, r \in Results : Learn(k, r)
  \/ Lose
  \/ \E k \in Keys : Serve(k)
  \/ Tick

Spec == Init /\ [][Next]_vars
=============================================================================
