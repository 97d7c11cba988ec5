---------------------------- MODULE AccessProofs -----------------------------
(***************************************************************************)
(* Theorems about authentication in DirectoryServices, for a cache of any   *)
(* size and TTL, any directory, and any other activity beside it: the list  *)
(* and the index of the cache stay in step, together they implement a map   *)
(* whose entries expire, and nobody is let in on what was not true lately.  *)
(***************************************************************************)
EXTENDS DirectoryServices, FunctionTheorems, SequenceTheorems, FiniteSetTheorems, TLAPS

(***************************************************************************)
(* The list.                                                               *)
(***************************************************************************)

\* A list of keys without repetition.
Listing(s, S) == s \in Seq(S) /\ IsInjective(s)

LEMMA ListFacts ==
  ASSUME NEW S, NEW s, Listing(s, S)
  PROVE  /\ Len(s) \in Nat /\ DOMAIN s = 1..Len(s)
         /\ ToSet(s) \subseteq S
         /\ \A k : k \in ToSet(s) <=> \E i \in 1..Len(s) : s[i] = k
         /\ \A i, j \in 1..Len(s) : s[i] = s[j] => i = j
         /\ s = <<>> <=> Len(s) = 0
<1>1. Len(s) \in Nat /\ DOMAIN s = 1..Len(s) /\ \A i \in 1..Len(s) : s[i] \in S
  BY LenProperties, ElementOfSeq DEF Listing
<1>2. s = <<>> <=> Len(s) = 0
  BY EmptySeq DEF Listing
<1>3. QED
  BY <1>1, <1>2 DEF Listing, IsInjective, ToSet

\* Taking the element of a key out of the list.
LEMMA WithoutFacts ==
  ASSUME NEW S, NEW s, Listing(s, S), NEW k \in ToSet(s)
  PROVE  /\ Listing(Without(s, k), S)
         /\ ToSet(Without(s, k)) = ToSet(s) \ {k}
         /\ Len(Without(s, k)) = Len(s) - 1
<1> DEFINE i == CHOOSE x \in DOMAIN s : s[x] = k
           t == Without(s, k)
<1>1. /\ Len(s) \in Nat /\ DOMAIN s = 1..Len(s) /\ s \in Seq(S)
      /\ \A x \in 1..Len(s) : s[x] \in S
      /\ \A x, y \in 1..Len(s) : s[x] = s[y] => x = y
  BY ListFacts, ElementOfSeq DEF Listing
<1>2. i \in 1..Len(s) /\ s[i] = k
  BY <1>1 DEF ToSet
<1>3. t = SubSeq(s, 1, i - 1) \o SubSeq(s, i + 1, Len(s))
  BY DEF Without, RemoveAt
<1> HIDE DEF i, t
<1>4. /\ SubSeq(s, 1, i - 1) \in Seq(S) /\ Len(SubSeq(s, 1, i - 1)) = i - 1
      /\ \A x \in 1..i - 1 : SubSeq(s, 1, i - 1)[x] = s[x]
  <2>1. \A x \in 1..i - 1 : s[x] \in S
    BY <1>1, <1>2
  <2>2. i - 1 \in Int /\ i - 1 - 1 + 1 = i - 1 /\ \A x \in 1..i - 1 : 1 + x - 1 = x
    BY <1>1, <1>2
  <2>3. QED
    BY <1>1, <1>2, <2>1, <2>2, SubSeqProperties
<1>5. /\ SubSeq(s, i + 1, Len(s)) \in Seq(S) /\ Len(SubSeq(s, i + 1, Len(s))) = Len(s) - i
      /\ \A x \in 1..Len(s) - i : SubSeq(s, i + 1, Len(s))[x] = s[i + x]
  <2>1. \A x \in i + 1..Len(s) : s[x] \in S
    BY <1>1, <1>2
  <2>2. /\ i + 1 \in Int /\ Len(s) \in Int /\ Len(s) - (i + 1) + 1 = Len(s) - i
        /\ \A x \in 1..Len(s) - i : (i + 1) + x - 1 = i + x
    BY <1>1, <1>2
  <2>3. /\ SubSeq(s, i + 1, Len(s)) \in Seq(S)
        /\ Len(SubSeq(s, i + 1, Len(s))) = IF i + 1 <= Len(s) THEN Len(s) - (i + 1) + 1 ELSE 0
        /\ \A x \in 1..Len(s) - (i + 1) + 1 : SubSeq(s, i + 1, Len(s))[x] = s[(i + 1) + x - 1]
    BY <2>1, <2>2, SubSeqProperties
  <2>4. Len(SubSeq(s, i + 1, Len(s))) = Len(s) - i
    <3>1. \A n \in Nat : \A x \in 1..n : (IF x + 1 <= n THEN n - (x + 1) + 1 ELSE 0) = n - x
      OBVIOUS
    <3>2. QED
      BY <1>1, <1>2, <2>3, <3>1
  <2>5. QED
    BY <2>2, <2>3, <2>4
<1>6. /\ t \in Seq(S) /\ Len(t) = Len(s) - 1
      /\ \A x \in 1..Len(s) - 1 : t[x] = IF x < i THEN s[x] ELSE s[x + 1]
  <2>1. /\ t \in Seq(S) /\ Len(t) = (i - 1) + (Len(s) - i)
        /\ \A x \in 1..(i - 1) + (Len(s) - i) :
             t[x] = IF x <= i - 1 THEN SubSeq(s, 1, i - 1)[x]
                    ELSE SubSeq(s, i + 1, Len(s))[x - (i - 1)]
    BY <1>3, <1>4, <1>5, ConcatProperties
  <2>2. (i - 1) + (Len(s) - i) = Len(s) - 1
    BY <1>1, <1>2
  <2>3. ASSUME NEW x \in 1..Len(s) - 1 PROVE t[x] = IF x < i THEN s[x] ELSE s[x + 1]
    <3>1. CASE x < i
      BY <1>1, <1>2, <1>4, <2>1, <2>2, <3>1
    <3>2. CASE ~(x < i)
      <4>1. x - (i - 1) \in 1..Len(s) - i /\ i + (x - (i - 1)) = x + 1 /\ ~(x <= i - 1)
        BY <1>1, <1>2, <3>2
      <4>2. QED
        BY <1>5, <2>1, <2>2, <3>2, <4>1
    <3>3. QED
      BY <3>1, <3>2
  <2>4. QED
    BY <2>1, <2>2, <2>3
<1>7. DOMAIN t = 1..Len(s) - 1
  BY <1>6, LenProperties
<1>8. IsInjective(t)
  <2> SUFFICES ASSUME NEW x \in 1..Len(s) - 1, NEW y \in 1..Len(s) - 1, t[x] = t[y] PROVE x = y
    BY <1>7 DEF IsInjective
  <2> DEFINE xx == IF x < i THEN x ELSE x + 1
             yy == IF y < i THEN y ELSE y + 1
  <2>1. xx \in 1..Len(s) /\ yy \in 1..Len(s) /\ t[x] = s[xx] /\ t[y] = s[yy]
    BY <1>1, <1>2, <1>6
  <2>2. xx = yy
    BY <1>1, <2>1
  <2>3. QED
    BY <1>1, <1>2, <2>2
<1>9. ToSet(t) = ToSet(s) \ {k}
  <2>1. ASSUME NEW e \in ToSet(t) PROVE e \in ToSet(s) \ {k}
    <3>1. PICK x \in 1..Len(s) - 1 : t[x] = e
      BY <1>7 DEF ToSet
    <3> DEFINE xx == IF x < i THEN x ELSE x + 1
    <3>2. xx \in 1..Len(s) /\ xx # i /\ s[xx] = e
      BY <1>1, <1>2, <1>6, <3>1
    <3>3. QED
      BY <1>1, <1>2, <3>2 DEF ToSet
  <2>2. ASSUME NEW e \in ToSet(s) \ {k} PROVE e \in ToSet(t)
    <3>1. PICK x \in 1..Len(s) : s[x] = e
      BY <1>1 DEF ToSet
    <3> DEFINE xx == IF x < i THEN x ELSE x - 1
    <3>2. xx \in 1..Len(s) - 1 /\ t[xx] = e
      BY <1>1, <1>2, <1>6, <3>1
    <3>3. QED
      BY <1>7, <3>2 DEF ToSet
  <2>3. QED
    BY <2>1, <2>2
<1>10. QED
  BY <1>6, <1>8, <1>9 DEF Listing, t

\* Putting a new element at the front.
LEMMA ConsFacts ==
  ASSUME NEW S, NEW s, Listing(s, S), NEW k \in S, k \notin ToSet(s)
  PROVE  /\ Listing(<<k>> \o s, S)
         /\ ToSet(<<k>> \o s) = ToSet(s) \cup {k}
         /\ Len(<<k>> \o s) = Len(s) + 1
<1> DEFINE t == <<k>> \o s
<1>1. /\ Len(s) \in Nat /\ DOMAIN s = 1..Len(s) /\ s \in Seq(S)
      /\ \A x, y \in 1..Len(s) : s[x] = s[y] => x = y
      /\ \A x \in 1..Len(s) : s[x] # k
  BY ListFacts DEF Listing
<1>2. <<k>> \in Seq(S) /\ Len(<<k>>) = 1 /\ <<k>>[1] = k
  OBVIOUS
<1>3. /\ t \in Seq(S) /\ Len(t) = Len(s) + 1
      /\ \A x \in 1..Len(s) + 1 : t[x] = IF x = 1 THEN k ELSE s[x - 1]
  BY <1>1, <1>2, ConcatProperties
<1> HIDE DEF t
<1>4. DOMAIN t = 1..Len(s) + 1
  BY <1>3, LenProperties
<1>5. IsInjective(t)
  <2> SUFFICES ASSUME NEW x \in 1..Len(s) + 1, NEW y \in 1..Len(s) + 1, t[x] = t[y] PROVE x = y
    BY <1>4 DEF IsInjective
  <2>1. CASE x = 1 \/ y = 1
    BY <1>1, <1>3, <2>1
  <2>2. CASE x # 1 /\ y # 1
    BY <1>1, <1>3, <2>2
  <2>3. QED
    BY <2>1, <2>2
<1>6. ToSet(t) = ToSet(s) \cup {k}
  <2>1. ASSUME NEW e \in ToSet(t) PROVE e \in ToSet(s) \cup {k}
    BY <1>1, <1>3, <1>4 DEF ToSet
  <2>2. ASSUME NEW e \in ToSet(s) \cup {k} PROVE e \in ToSet(t)
    <3>1. CASE e = k
      <4>1. 1 \in DOMAIN t /\ t[1] = k
        BY <1>1, <1>3, <1>4
      <4>2. QED
        BY <3>1, <4>1 DEF ToSet
    <3>2. CASE e # k
      <4>1. PICK x \in 1..Len(s) : s[x] = e
        BY <1>1, <3>2 DEF ToSet
      <4>2. x + 1 \in DOMAIN t /\ t[x + 1] = e
        BY <1>1, <1>3, <1>4, <4>1
      <4>3. QED
        BY <4>2 DEF ToSet
    <3>3. QED
      BY <3>1, <3>2
  <2>3. QED
    BY <2>1, <2>2
<1>7. QED
  BY <1>3, <1>5, <1>6 DEF Listing, t

LEMMA MoveFacts ==
  ASSUME NEW S, NEW s, Listing(s, S), NEW k \in ToSet(s)
  PROVE  /\ Listing(MoveToFront(s, k), S)
         /\ ToSet(MoveToFront(s, k)) = ToSet(s)
         /\ Len(MoveToFront(s, k)) = Len(s)
<1> DEFINE t == Without(s, k)
<1>1. Listing(t, S) /\ ToSet(t) = ToSet(s) \ {k} /\ Len(t) = Len(s) - 1 /\ k \in S /\ Len(s) \in Nat
  BY WithoutFacts, ListFacts
<1> HIDE DEF t
<1>2. Listing(<<k>> \o t, S) /\ ToSet(<<k>> \o t) = ToSet(t) \cup {k} /\ Len(<<k>> \o t) = Len(t) + 1
  BY <1>1, ConsFacts
<1>3. QED
  BY <1>1, <1>2 DEF MoveToFront, t

\* Taking the last element off.
LEMMA FrontFacts ==
  ASSUME NEW S, NEW s, Listing(s, S), s # <<>>
  PROVE  /\ Listing(Front(s), S)
         /\ ToSet(Front(s)) = ToSet(s) \ {Last(s)}
         /\ Len(Front(s)) = Len(s) - 1
         /\ Last(s) \in ToSet(s)
<1> DEFINE t == Front(s)
<1>1. /\ Len(s) \in Nat /\ Len(s) # 0 /\ DOMAIN s = 1..Len(s) /\ s \in Seq(S)
      /\ \A x \in 1..Len(s) : s[x] \in S
      /\ \A x, y \in 1..Len(s) : s[x] = s[y] => x = y
  BY ListFacts, ElementOfSeq DEF Listing
<1>2. /\ t \in Seq(S) /\ Len(t) = Len(s) - 1
      /\ \A x \in 1..Len(s) - 1 : t[x] = s[x]
  <2>1. \A x \in 1..Len(s) - 1 : s[x] \in S
    BY <1>1
  <2>2. /\ 1 \in Int /\ Len(s) - 1 \in Int /\ Len(s) - 1 - 1 + 1 = Len(s) - 1
        /\ \A x \in 1..Len(s) - 1 : 1 + x - 1 = x
    BY <1>1
  <2>3. QED
    BY <1>1, <2>1, <2>2, SubSeqProperties DEF Front
<1> HIDE DEF t
<1>3. DOMAIN t = 1..Len(s) - 1
  BY <1>2, LenProperties
<1>4. IsInjective(t)
  BY <1>1, <1>2, <1>3 DEF IsInjective
<1>5. Len(s) \in DOMAIN s /\ Last(s) = s[Len(s)]
  BY <1>1 DEF Last
<1>6. ToSet(t) = ToSet(s) \ {Last(s)}
  <2>1. ASSUME NEW e \in ToSet(t) PROVE e \in ToSet(s) \ {Last(s)}
    <3>1. PICK x \in 1..Len(s) - 1 : t[x] = e
      BY <1>3 DEF ToSet
    <3>2. x \in 1..Len(s) /\ x # Len(s) /\ Len(s) \in 1..Len(s)
      <4>1. \A n \in Nat : n # 0 => n \in 1..n /\ \A y \in 1..n - 1 : y \in 1..n /\ y # n
        OBVIOUS
      <4>2. QED
        BY <1>1, <4>1
    <3>3. s[x] = e
      BY <1>2, <3>1
    <3>4. e # Last(s)
      BY <1>1, <1>5, <3>2, <3>3
    <3>5. QED
      BY <1>1, <3>2, <3>3, <3>4 DEF ToSet
  <2>2. ASSUME NEW e \in ToSet(s) \ {Last(s)} PROVE e \in ToSet(t)
    <3>1. PICK x \in 1..Len(s) : s[x] = e
      BY <1>1 DEF ToSet
    <3>2. x \in 1..Len(s) - 1 /\ t[x] = e
      BY <1>1, <1>2, <1>5, <3>1
    <3>3. QED
      BY <1>3, <3>2 DEF ToSet
  <2>3. QED
    BY <2>1, <2>2
<1>7. QED
  BY <1>2, <1>4, <1>5, <1>6 DEF Listing, t, ToSet

(***************************************************************************)
(* The cache.                                                              *)
(***************************************************************************)

Credentials == Users \X Passwords
StoredResult == [groups : SUBSET Groups, late : Int, expires : Int]

CacheOK ==
  /\ Listing(lru, Credentials)
  /\ InStep
  /\ index \in [DOMAIN index -> StoredResult]

LEMMA EmptyCache == index = <<>> /\ lru = <<>> => CacheOK
<1> SUFFICES ASSUME index = <<>>, lru = <<>> PROVE CacheOK
  OBVIOUS
<1>1. Listing(lru, Credentials)
  BY DEF Listing, IsInjective
<1>2. DOMAIN index = {} /\ ToSet(lru) = {}
  BY DEF ToSet
<1>3. index \in [DOMAIN index -> StoredResult]
  BY <1>2
<1>4. QED
  BY <1>1, <1>2, <1>3 DEF CacheOK, InStep, Listing

LEMMA HitKeeps ==
  ASSUME CacheOK, NEW k, NEW t, Hit(k, t)
  PROVE  CacheOK' /\ index' = index
<1>1. k \in ToSet(lru) /\ lru' = MoveToFront(lru, k) /\ index' = index
  BY DEF Hit, Fresh, CacheOK, InStep
<1>2. Listing(lru', Credentials) /\ ToSet(lru') = ToSet(lru) /\ Len(lru') = Len(lru)
  BY <1>1, MoveFacts DEF CacheOK
<1>3. lru # <<>>
  BY <1>1 DEF ToSet
<1>4. QED
  BY <1>1, <1>2, <1>3 DEF CacheOK, InStep, Listing

LEMMA MissKeeps ==
  ASSUME CacheOK, NEW k, NEW t, Miss(k, t)
  PROVE  /\ CacheOK'
         /\ DOMAIN index' \subseteq DOMAIN index /\ \A x \in DOMAIN index' : index'[x] = index[x]
         /\ index' = Restrict(index, DOMAIN index')
<1>1. CASE k \in DOMAIN index
  <2>1. /\ k \in ToSet(lru) /\ lru' = Without(lru, k)
        /\ index' = Restrict(index, DOMAIN index \ {k})
    BY <1>1 DEF Miss, CacheOK, InStep
  <2>2. Listing(lru', Credentials) /\ ToSet(lru') = ToSet(lru) \ {k} /\ Len(lru') = Len(lru) - 1
    BY <2>1, WithoutFacts DEF CacheOK
  <2>3. /\ DOMAIN index' = DOMAIN index \ {k}
        /\ \A x \in DOMAIN index' : index'[x] = index[x]
        /\ index' \in [DOMAIN index' -> StoredResult]
    BY <2>1 DEF Restrict, CacheOK
  <2>4. Len(lru) \in Nat /\ MaxSize \in Int /\ (Len(lru) <= MaxSize \/ lru = <<>>) /\ lru # <<>>
    BY <2>1, ListFacts, CacheAssumption DEF CacheOK, InStep, ToSet
  <2>5. Len(lru') <= MaxSize
    BY <2>2, <2>4
  <2>6. CacheOK'
    BY <2>2, <2>3, <2>5 DEF CacheOK, InStep, Listing
  <2>7. QED
    BY <2>1, <2>3, <2>6
<1>2. CASE k \notin DOMAIN index
  <2>1. UNCHANGED cacheVars
    BY <1>2 DEF Miss
  <2>2. CacheOK'
    BY <2>1 DEF cacheVars, CacheOK, InStep
  <2>3. index = Restrict(index, DOMAIN index)
    BY DEF Restrict, CacheOK
  <2>4. QED
    BY <2>1, <2>2, <2>3 DEF cacheVars
<1>3. QED
  BY <1>1, <1>2

\* Storing a result loses at most other entries and keeps the size.
LEMMA PutKeeps ==
  ASSUME CacheOK, MaxSize > 0, NEW k \in Credentials, NEW e \in StoredResult, Put(k, e)
  PROVE  /\ CacheOK'
         /\ k \in DOMAIN index' /\ DOMAIN index' \subseteq DOMAIN index \cup {k}
         /\ index' = [x \in DOMAIN index' |-> IF x = k THEN e ELSE index[x]]
<1>1. Len(lru) \in Nat /\ MaxSize \in Int
  BY ListFacts, CacheAssumption DEF CacheOK
<1>2. CASE Replace(k, e)
  <2>1. /\ k \in ToSet(lru) /\ lru' = MoveToFront(lru, k) /\ index' = [index EXCEPT ![k] = e]
    BY <1>2 DEF Replace, CacheOK, InStep
  <2>2. Listing(lru', Credentials) /\ ToSet(lru') = ToSet(lru) /\ Len(lru') = Len(lru)
    BY <2>1, MoveFacts DEF CacheOK
  <2>3. /\ DOMAIN index' = DOMAIN index /\ k \in DOMAIN index
        /\ index' = [x \in DOMAIN index |-> IF x = k THEN e ELSE index[x]]
        /\ index' \in [DOMAIN index' -> StoredResult]
    BY <1>2, <2>1 DEF Replace, CacheOK
  <2>4. lru # <<>>
    BY <2>1 DEF ToSet
  <2>5. CacheOK'
    BY <2>2, <2>3, <2>4 DEF CacheOK, InStep, Listing
  <2>6. QED
    BY <2>3, <2>5
<1>3. CASE Add(k, e)
  <2> DEFINE rest == IF Evicted = {} THEN lru ELSE Front(lru)
  <2>1. /\ k \notin DOMAIN index /\ lru' = <<k>> \o rest
        /\ index' = [x \in {k} \cup (DOMAIN index \ Evicted) |-> IF x = k THEN e ELSE index[x]]
    BY <1>3 DEF Add
  <2>2. Listing(rest, Credentials) /\ ToSet(rest) = DOMAIN index \ Evicted /\ Len(rest) < MaxSize
    <3>1. CASE Len(lru) >= MaxSize
      <4>1. lru # <<>> /\ Evicted = {Last(lru)}
        BY <1>1, <3>1, ListFacts DEF Evicted, CacheOK
      <4>2. /\ Listing(Front(lru), Credentials) /\ ToSet(Front(lru)) = ToSet(lru) \ {Last(lru)}
            /\ Len(Front(lru)) = Len(lru) - 1
        BY <4>1, FrontFacts DEF CacheOK
      <4>3. Len(lru) <= MaxSize
        BY <4>1 DEF CacheOK, InStep
      <4>4. QED
        BY <1>1, <4>1, <4>2, <4>3 DEF CacheOK, InStep
    <3>2. CASE ~(Len(lru) >= MaxSize)
      BY <1>1, <3>2 DEF Evicted, CacheOK, InStep
    <3>3. QED
      BY <3>1, <3>2
  <2> HIDE DEF rest
  <2>3. k \notin ToSet(rest)
    BY <2>1, <2>2
  <2>4. /\ Listing(lru', Credentials) /\ ToSet(lru') = ToSet(rest) \cup {k}
        /\ Len(lru') = Len(rest) + 1
    BY <2>1, <2>2, <2>3, ConsFacts
  <2>5. /\ DOMAIN index' = {k} \cup (DOMAIN index \ Evicted)
        /\ index' \in [DOMAIN index' -> StoredResult]
    BY <2>1 DEF CacheOK
  <2>6. Len(rest) \in Nat /\ Len(lru') <= MaxSize
    BY <1>1, <2>2, <2>4, ListFacts
  <2>7. CacheOK'
    BY <2>2, <2>4, <2>5, <2>6 DEF CacheOK, InStep, Listing
  <2>8. QED
    BY <2>1, <2>5, <2>7
<1>4. QED
  BY <1>2, <1>3 DEF Put

(***************************************************************************)
(* The directory and what it has contained.                                *)
(***************************************************************************)

\* A content of the directory and the last time a server had it.
Known == [groups : Memberships, password : [Users -> Passwords], until : Nat]
Contents == {[groups |-> contents[i].groups, password |-> contents[i].password, until |-> Until(i)] :
               i \in DOMAIN contents}

DirInv ==
  /\ load \in Loads /\ now \in Nat
  /\ contents \in Seq(Content) /\ gone \in Seq(Nat)
  /\ Len(gone) < Len(contents)

DirStep ==
  /\ DirectoryChange \/ Replicate \/ Tick \/ UNCHANGED <<now, contents, gone>>
  /\ UNCHANGED load

\* Everything the directory has contained, at some time, it had then or later.
Remembered ==
  \A d \in Contents : \E e \in Contents' :
    e.groups = d.groups /\ e.password = d.password /\ e.until >= d.until

\* Among the contents C, at some time not before since: the person's groups, the password.
Had(C, u, groups, since) == \E d \in C : d.until >= since /\ groups = GroupsOf(d, u)
Knew(C, u, pass, since) == \E d \in C : d.until >= since /\ d.password[u] = pass
Vouched(C, u, pass, groups, since) == Had(C, u, groups, since) /\ Knew(C, u, pass, since)

LEMMA SameContents == UNCHANGED dirVars => Contents' = Contents
  BY DEF dirVars, Contents, Until, Oldest

\* The places of the servers in the list of contents.
LEMMA DirFacts ==
  ASSUME DirInv
  PROVE  /\ Latest \in Nat /\ Oldest \in Nat /\ 1 <= Oldest /\ Oldest <= Latest
         /\ DOMAIN contents = 1..Latest /\ \A i \in 1..Latest : contents[i] \in Content
         /\ DOMAIN gone = 1..(Oldest - 1)
         /\ \A i \in 1..Latest : Until(i) \in Nat /\ (i >= Oldest => Until(i) = now)
         /\ \A s : At(s) \in DOMAIN contents /\ At(s) >= Oldest
<1>1. /\ Len(contents) \in Nat /\ DOMAIN contents = 1..Len(contents)
      /\ \A i \in 1..Len(contents) : contents[i] \in Content
      /\ Len(gone) \in Nat /\ DOMAIN gone = 1..Len(gone) /\ \A i \in 1..Len(gone) : gone[i] \in Nat
  BY LenProperties, ElementOfSeq DEF DirInv
<1>2. /\ Latest \in Nat /\ Oldest \in Nat /\ 1 <= Oldest /\ Oldest <= Latest
      /\ Latest = Len(contents) /\ Oldest - 1 = Len(gone)
  BY <1>1 DEF Latest, Oldest, DirInv
<1>3. \A i \in 1..Latest : Until(i) \in Nat /\ (i >= Oldest => Until(i) = now)
  BY <1>1, <1>2 DEF Until, DirInv
<1>4. \A s : At(s) \in 1..Latest /\ At(s) >= Oldest
  BY <1>2 DEF At
<1>5. QED
  BY <1>1, <1>2, <1>3, <1>4

LEMMA ContentsKnown == DirInv => Contents \subseteq Known
  BY DirFacts DEF Contents, Known, Content

\* An edited content is a content.
LEMMA EditedIsContent ==
  ASSUME NEW c \in Content
  PROVE  Edited(c) \subseteq Content
<1>1. PICK D \in SUBSET Groups : c.groups \in [D -> Entries]
  BY DEF Content, Memberships
<1>2. c.password \in [Users -> Passwords] /\ c = [groups |-> c.groups, password |-> c.password]
  BY DEF Content
<1>3. ASSUME NEW g \in D, NEW e \in Entries
      PROVE  [c EXCEPT !.groups[g] = e] \in Content
  <2>1. [c.groups EXCEPT ![g] = e] \in [D -> Entries]
    BY <1>1
  <2>2. [c.groups EXCEPT ![g] = e] \in Memberships
    BY <2>1 DEF Memberships
  <2>3. QED
    BY <1>2, <2>2 DEF Content
<1>4. ASSUME NEW g \in D, NEW u \in Users
      PROVE  [c EXCEPT !.groups[g].people = IF u \in @ THEN @ \ {u} ELSE @ \cup {u}] \in Content
  <2> DEFINE was == c.groups[g].people
             e == [c.groups[g] EXCEPT !.people = IF u \in was THEN was \ {u} ELSE was \cup {u}]
  <2>1. c.groups[g] \in Entries
    BY <1>1
  <2>2. e \in Entries
    BY <2>1 DEF Entries
  <2>3. [c EXCEPT !.groups[g].people = IF u \in @ THEN @ \ {u} ELSE @ \cup {u}] = [c EXCEPT !.groups[g] = e]
    BY <1>1, <1>2
  <2>4. QED
    BY <1>3, <2>2, <2>3
<1>5. ASSUME NEW g \in D
      PROVE  [c EXCEPT !.groups = Restrict(@, DOMAIN @ \ {g})] \in Content
  <2>1. Restrict(c.groups, DOMAIN c.groups \ {g}) \in [D \ {g} -> Entries] /\ D \ {g} \in SUBSET Groups
    BY <1>1 DEF Restrict
  <2>2. Restrict(c.groups, DOMAIN c.groups \ {g}) \in Memberships
    BY <2>1 DEF Memberships
  <2>3. QED
    BY <1>2, <2>2 DEF Content
<1>6. ASSUME NEW g \in D, NEW p \in Places
      PROVE  [c EXCEPT !.groups[g].place = p] \in Content
  <2> DEFINE e == [c.groups[g] EXCEPT !.place = p]
  <2>1. c.groups[g] \in Entries
    BY <1>1
  <2>2. e \in Entries
    BY <2>1 DEF Entries
  <2>3. [c EXCEPT !.groups[g].place = p] = [c EXCEPT !.groups[g] = e]
    BY <1>1, <1>2
  <2>4. QED
    BY <1>3, <2>2, <2>3
<1>7. ASSUME NEW u \in Users, NEW p \in Passwords
      PROVE  [c EXCEPT !.password[u] = p] \in Content
  <2>1. [c.password EXCEPT ![u] = p] \in [Users -> Passwords]
    BY <1>2
  <2>2. QED
    BY <1>2, <2>1 DEF Content
<1>8. DOMAIN c.groups = D
  BY <1>1
<1> DEFINE gs == DOMAIN c.groups \cap load.edited
           us == Users \cap load.edited
           S1 == {[c EXCEPT !.groups[g].people = IF u \in @ THEN @ \ {u} ELSE @ \cup {u}] : g \in gs, u \in us}
           S2 == {[c EXCEPT !.groups = Restrict(@, DOMAIN @ \ {g})] : g \in gs}
           S3 == {[c EXCEPT !.groups[g].place = p] : g \in gs, p \in Places}
           S4 == {[c EXCEPT !.password[u] = p] : u \in us, p \in Passwords}
<1>9. gs \subseteq D /\ us \subseteq Users
  BY <1>8
<1>10. S1 \subseteq Content
  <2> HIDE DEF gs, us
  <2>1. QED
    BY <1>4, <1>9
<1>11. S2 \subseteq Content
  <2> HIDE DEF gs
  <2>1. QED
    BY <1>5, <1>9
<1>12. S3 \subseteq Content
  <2> HIDE DEF gs
  <2>1. QED
    BY <1>6, <1>9
<1>13. S4 \subseteq Content
  <2> HIDE DEF us
  <2>1. QED
    BY <1>7, <1>9
<1>14. Edited(c) = S1 \cup S2 \cup S3 \cup S4
  BY DEF Edited
<1> HIDE DEF S1, S2, S3, S4
<1>15. QED
  BY <1>10, <1>11, <1>12, <1>13, <1>14

\* What was contained is contained, at the same place, and new contents are contents.
LEMMA DirStays ==
  ASSUME DirInv, DirStep
  PROVE  /\ DirInv' /\ now' >= now /\ load' = load
         /\ Latest <= Latest' /\ Oldest <= Oldest'
         /\ \A i \in 1..Latest : contents'[i] = contents[i] /\ Until(i)' >= Until(i)
<1>1. load' = load /\ now \in Nat /\ DirInv
  BY DEF DirStep, DirInv
<1>2. /\ Latest \in Nat /\ Oldest \in Nat /\ 1 <= Oldest /\ Oldest <= Latest /\ Len(gone) = Oldest - 1
      /\ Len(contents) = Latest /\ \A i \in 1..Latest : contents[i] \in Content
      /\ \A i \in 1..Latest : Until(i) \in Nat /\ (i >= Oldest => Until(i) = now)
  BY DirFacts DEF Latest, Oldest
<1>3. \/ gone' = gone
      \/ gone' = Append(gone, now) /\ now' = now
  BY DEF DirStep, DirectoryChange, Replicate, Tick
<1>4. \/ contents' = contents
      \/ \E c \in Content : contents' = Append(contents, c)
  <2>1. DirectoryChange => \E c \in Content : contents' = Append(contents, c)
    BY <1>2, EditedIsContent DEF DirectoryChange
  <2>2. QED
    BY <2>1 DEF DirStep, Replicate, Tick
<1>5. now' \in Nat /\ now' >= now
  BY <1>1 DEF DirStep, DirectoryChange, Replicate, Tick
<1>6. /\ gone' \in Seq(Nat) /\ Len(gone) <= Len(gone') /\ Len(gone') \in {Len(gone), Len(gone) + 1}
      /\ \A i \in 1..Len(gone) : gone'[i] = gone[i]
      /\ gone' # gone => now' = now /\ Len(gone') = Len(gone) + 1 /\ gone'[Len(gone) + 1] = now
  <2>1. CASE gone' = gone
    BY <1>1, <1>2, <2>1 DEF DirInv
  <2>2. CASE gone' = Append(gone, now) /\ now' = now
    BY <1>1, <1>2, <2>2, AppendProperties DEF DirInv
  <2>3. QED
    BY <1>3, <2>1, <2>2
<1>7. /\ contents' \in Seq(Content) /\ Len(contents') \in {Latest, Latest + 1}
      /\ \A i \in 1..Latest : contents'[i] = contents[i]
  <2>1. CASE contents' = contents
    BY <1>1, <1>2, <2>1 DEF DirInv
  <2>2. CASE \E c \in Content : contents' = Append(contents, c)
    BY <1>1, <1>2, <2>2, AppendProperties DEF DirInv
  <2>3. QED
    BY <1>4, <2>1, <2>2
<1>8. Len(gone') < Len(contents')
  <2>1. CASE DirectoryChange
    <3>1. PICK c \in Edited(contents[Latest]) : contents' = Append(contents, c)
      BY <2>1 DEF DirectoryChange
    <3>2. contents[Latest] \in Content /\ c \in Content
      BY <1>2, <3>1, EditedIsContent
    <3>3. Len(contents') = Latest + 1
      BY <1>1, <1>2, <3>1, <3>2, AppendProperties DEF DirInv
    <3>4. QED
      BY <1>2, <1>6, <3>3
  <2>2. CASE Replicate
    <3>1. contents' = contents /\ Oldest < Latest
      BY <2>2 DEF Replicate
    <3>2. QED
      BY <1>2, <1>6, <3>1
  <2>3. CASE UNCHANGED <<contents, gone>>
    BY <1>1, <2>3 DEF DirInv
  <2>4. QED
    BY <2>1, <2>2, <2>3 DEF DirStep, Tick
<1>9. DirInv'
  BY <1>1, <1>5, <1>6, <1>7, <1>8 DEF DirInv
<1>10. Latest <= Latest' /\ Oldest <= Oldest'
  BY <1>2, <1>6, <1>7 DEF Latest, Oldest
<1>11. ASSUME NEW i \in 1..Latest PROVE Until(i)' >= Until(i)
  <2>1. CASE i < Oldest
    <3>1. i < Oldest' /\ Until(i) = gone[i] /\ Until(i)' = gone'[i] /\ i \in 1..Len(gone)
      BY <1>2, <1>10, <2>1, DirFacts, <1>6 DEF Until, Oldest
    <3>2. QED
      BY <1>2, <1>6, <3>1
  <2>2. CASE ~(i < Oldest)
    <3>1. Until(i) = now
      BY <2>2 DEF Until
    <3>2. Until(i)' = now \/ Until(i)' = now'
      BY <1>2, <1>6, <2>2 DEF Until, Oldest
    <3>3. QED
      BY <1>5, <1>1, <3>1, <3>2
  <2>3. QED
    BY <2>1, <2>2
<1>12. QED
  BY <1>1, <1>5, <1>7, <1>9, <1>10, <1>11

LEMMA DirectoryRemembers ==
  ASSUME DirInv, DirStep
  PROVE  /\ DirInv' /\ now' >= now /\ Remembered
         /\ Contents \subseteq Known /\ Contents' \subseteq Known
<1>1. DirInv' /\ now' >= now
  BY DirStays
<1>2. Contents \subseteq Known
  BY ContentsKnown
<1>3. Contents' \subseteq Known
  <2>1. (DirInv => Contents \subseteq Known)'
    BY ContentsKnown, PTL
  <2>2. QED
    BY <1>1, <2>1
<1>4. ASSUME NEW d \in Contents
      PROVE  \E e \in Contents' : e.groups = d.groups /\ e.password = d.password /\ e.until >= d.until
  <2>1. PICK i \in DOMAIN contents :
          d = [groups |-> contents[i].groups, password |-> contents[i].password, until |-> Until(i)]
    BY DEF Contents
  <2>2. i \in 1..Latest /\ i \in DOMAIN contents'
    <3>1. /\ DOMAIN contents = 1..Latest /\ Latest \in Nat
      BY DirFacts
    <3>2. (DirInv => DOMAIN contents = 1..Latest /\ Latest \in Nat)'
      BY DirFacts, PTL
    <3>3. QED
      BY <1>1, <3>1, <3>2, DirStays
  <2>3. contents'[i] = contents[i] /\ Until(i)' >= Until(i)
    BY <2>2, DirStays
  <2> DEFINE e == [groups |-> contents'[i].groups, password |-> contents'[i].password, until |-> Until(i)']
  <2>4. e \in Contents'
    BY <2>2 DEF Contents
  <2>5. QED
    BY <2>1, <2>3, <2>4
<1>5. QED
  BY <1>1, <1>2, <1>3, <1>4 DEF Remembered

\* What a server has is among the contents, and it has it now.
LEMMA SeenIsKnown ==
  ASSUME DirInv, NEW s
  PROVE  \E d \in Contents : d.groups = Seen(s).groups /\ d.password = Seen(s).password /\ d.until = now
<1>1. At(s) \in DOMAIN contents /\ Until(At(s)) = now
  BY DirFacts
<1>2. [groups |-> Seen(s).groups, password |-> Seen(s).password, until |-> now] \in Contents
  BY <1>1 DEF Contents, Seen
<1>3. QED
  BY <1>2

\* What was once true stays known to have been.
LEMMA VouchedStays ==
  ASSUME DirInv, DirStep
  PROVE  \A u, p, g : \A s \in Int :
           /\ Had(Contents, u, g, s) => Had(Contents, u, g, s)'
           /\ Knew(Contents, u, p, s) => Knew(Contents, u, p, s)'
           /\ Vouched(Contents, u, p, g, s) => Vouched(Contents, u, p, g, s)'
<1>1. Remembered /\ Contents \subseteq Known /\ Contents' \subseteq Known
  BY DirectoryRemembers
<1>2. (\A d \in Contents : d.until \in Int) /\ \A d \in Contents' : d.until \in Int
  BY <1>1 DEF Known
<1>3. ASSUME NEW u, NEW g, NEW s \in Int, Had(Contents, u, g, s) PROVE Had(Contents, u, g, s)'
  <2>1. PICK d \in Contents : d.until >= s /\ g = GroupsOf(d, u)
    BY <1>3 DEF Had
  <2>2. PICK e \in Contents' : e.groups = d.groups /\ e.until >= d.until
    BY <1>1 DEF Remembered
  <2>3. e.until >= s
    BY <1>2, <2>1, <2>2
  <2>4. QED
    BY <2>1, <2>2, <2>3 DEF Had, GroupsOf
<1>4. ASSUME NEW u, NEW p, NEW s \in Int, Knew(Contents, u, p, s) PROVE Knew(Contents, u, p, s)'
  <2>1. PICK d \in Contents : d.until >= s /\ d.password[u] = p
    BY <1>4 DEF Knew
  <2>2. PICK e \in Contents' : e.password = d.password /\ e.until >= d.until
    BY <1>1 DEF Remembered
  <2>3. e.until >= s
    BY <1>2, <2>1, <2>2
  <2>4. QED
    BY <2>1, <2>2, <2>3 DEF Knew
<1>5. QED
  BY <1>3, <1>4 DEF Vouched

\* What was true at a time was true not before any earlier one.
LEMMA VouchedBefore ==
  ASSUME DirInv, NEW s \in Int, NEW r \in Int, r <= s
  PROVE  \A u, p, g : /\ Had(Contents, u, g, s) => Had(Contents, u, g, r)
                      /\ Knew(Contents, u, p, s) => Knew(Contents, u, p, r)
                      /\ Vouched(Contents, u, p, g, s) => Vouched(Contents, u, p, g, r)
<1>1. Contents \subseteq Known
  BY ContentsKnown
<1>2. \A d \in Contents : d.until \in Int /\ (d.until >= s => d.until >= r)
  BY <1>1 DEF Known
<1>3. QED
  BY <1>2 DEF Had, Knew, Vouched

(***************************************************************************)
(* The invariant: a request has in its hands, and the cache keeps, only what *)
(* the directory vouched for when the authentication started.              *)
(***************************************************************************)

IsLogin(v) == visit[v].kind \in {"basic", "login"}
Needed(v) == IF visit[v].kind = "login" THEN "read" ELSE visit[v].perm
GotResult ==
  [groups : SUBSET Groups, server : {"primary", "backup"}, read : Int, late : Int, at : Int, cached : BOOLEAN]

\* The result of v was true then, or later.
Since(v) == got[v].at - TTL - got[v].late
GotVouched(v, since) == Vouched(Contents, visit[v].user, visit[v].pass, got[v].groups, since)

VisitOK(v) ==
  /\ IsLogin(v) => Key(v) \in Credentials
  /\ vstep[v] \in {"search", "bind", "put", "grant"} => IsLogin(v)
  /\ vstep[v] \in {"idle", "search", "bind", "put", "grant"} => reply[v] = 0
  /\ vstep[v] \in {"idle", "search", "bind", "put"} => ~got[v].cached
  /\ vstep[v] \in {"bind", "put"} => Had(Contents, visit[v].user, got[v].groups, got[v].read) /\ got[v].read <= now
  /\ vstep[v] = "put" => Knew(Contents, visit[v].user, visit[v].pass, got[v].read)
  /\ vstep[v] = "grant" => GotVouched(v, Since(v))
  /\ IsLogin(v) /\ reply[v] = 200 =>
       GotVouched(v, Since(v)) /\ hasPermission(resolveRoles(got[v].groups), Needed(v))

EntryOK(k) ==
  Vouched(Contents, k[1], k[2], index[k].groups, index[k].expires - TTL - index[k].late)

AccessInv ==
  /\ DirInv
  /\ CacheOK
  /\ DOMAIN vstep = Visitor /\ reply \in [Visitor -> Int] /\ got \in [Visitor -> GotResult]
  /\ \A k \in DOMAIN index : EntryOK(k)
  /\ \A v \in Visitor : VisitOK(v)

LEMMA AccessStart == Init => AccessInv
<1> SUFFICES ASSUME Init PROVE AccessInv
  OBVIOUS
<1>1. DirInv
  <2>1. (CHOOSE p \in Passwords : TRUE) \in Passwords /\ (CHOOSE p \in Places : TRUE) \in Places
    BY PasswordsAssumption
  <2> DEFINE groups == [g \in Groups |-> [place |-> CHOOSE p \in Places : TRUE, people |-> Users]]
             c == [groups |-> groups, password |-> [u \in Users |-> CHOOSE p \in Passwords : TRUE]]
  <2>2. groups \in [Groups -> Entries] /\ Groups \in SUBSET Groups
    BY <2>1 DEF Entries
  <2>3. groups \in Memberships
    BY <2>2 DEF Memberships
  <2>4. c \in Content
    BY <2>1, <2>3 DEF Content
  <2>5. contents = <<c>> /\ gone = <<>> /\ load \in Loads /\ now = 0
    BY DEF Init, DirInit
  <2> HIDE DEF c
  <2>6. QED
    BY <2>4, <2>5 DEF DirInv
<1>2. CacheOK /\ index = <<>>
  BY EmptyCache DEF Init, AccessInit, CacheInit
<1>3. DOMAIN vstep = Visitor /\ reply \in [Visitor -> Int] /\ got \in [Visitor -> GotResult]
  BY DEF Init, AccessInit, Nothing, GotResult
<1>4. ASSUME NEW v \in Visitor PROVE VisitOK(v)
  <2>1. vstep[v] = "idle" /\ reply[v] = 0 /\ ~got[v].cached
    BY DEF Init, AccessInit, Nothing
  <2>2. visit[v] = NoVisit \/ visit[v] \in load.visits[v]
    BY DEF Init, AccessInit
  <2>3. IsLogin(v) => Key(v) \in Credentials
    <3>1. load \in Loads
      BY DEF Init, DirInit
    <3>2. NoVisit.kind = "none"
      BY DEF NoVisit
    <3>3. QED
      BY <2>2, <3>1, <3>2, VisitAssumption DEF IsLogin, Key, Credentials
  <2>4. QED
    BY <2>1, <2>3 DEF VisitOK
<1>5. QED
  BY <1>1, <1>2, <1>3, <1>4 DEF AccessInv

LEMMA SinceInt ==
  ASSUME AccessInv
  PROVE  /\ \A v \in Visitor : got[v] \in GotResult /\ Since(v) \in Int
         /\ \A k \in DOMAIN index : index[k] \in StoredResult /\ index[k].expires - TTL - index[k].late \in Int
<1>1. TTL \in Int
  BY CacheAssumption
<1>2. \A v \in Visitor : got[v] \in GotResult
  BY DEF AccessInv
<1>3. \A k \in DOMAIN index : index[k] \in StoredResult
  BY DEF AccessInv, CacheOK
<1>4. QED
  BY <1>1, <1>2, <1>3 DEF Since, GotResult, StoredResult

\* What a visit knows stays true while the world goes on without it.
LEMMA VisitStays ==
  ASSUME AccessInv, DirStep, NEW v \in Visitor,
         visit' = visit, vstep'[v] = vstep[v], got'[v] = got[v], reply'[v] = reply[v]
  PROVE  VisitOK(v)'
<1>1. DirInv /\ VisitOK(v) /\ Since(v) \in Int /\ got[v].read \in Int
  BY SinceInt DEF AccessInv, GotResult
<1>2. /\ Had(Contents, visit[v].user, got[v].groups, got[v].read) => Had(Contents, visit[v].user, got[v].groups, got[v].read)'
      /\ Knew(Contents, visit[v].user, visit[v].pass, got[v].read) => Knew(Contents, visit[v].user, visit[v].pass, got[v].read)'
      /\ GotVouched(v, Since(v)) => GotVouched(v, Since(v))'
  BY <1>1, VouchedStays DEF GotVouched, Since
<1>3. got[v].read <= now => got'[v].read <= now'
  BY <1>1, DirectoryRemembers DEF DirInv
<1>4. /\ IsLogin(v)' = IsLogin(v) /\ Key(v)' = Key(v) /\ Needed(v)' = Needed(v)
      /\ hasPermission(resolveRoles(got[v].groups), Needed(v)) =>
           hasPermission(resolveRoles(got[v].groups), Needed(v))'
  BY DEF IsLogin, Key, Needed
<1>5. QED
  BY <1>1, <1>2, <1>3, <1>4 DEF VisitOK

\* So do the entries the cache keeps.
LEMMA EntryStays ==
  ASSUME AccessInv, DirStep, NEW k \in DOMAIN index, k \in DOMAIN index', index'[k] = index[k]
  PROVE  EntryOK(k)'
<1>1. DirInv /\ EntryOK(k) /\ index[k].expires - TTL - index[k].late \in Int
  BY SinceInt DEF AccessInv
<1>2. QED
  BY <1>1, VouchedStays DEF EntryOK

\* A step of one visit that leaves the others where they are.
Alone(v) ==
  /\ visit' = visit /\ DOMAIN vstep' = Visitor
  /\ reply' \in [Visitor -> Int] /\ got' \in [Visitor -> GotResult]
  /\ \A w \in Visitor \ {v} : vstep'[w] = vstep[w] /\ reply'[w] = reply[w] /\ got'[w] = got[w]

LEMMA OneMoves ==
  ASSUME AccessInv, DirStep, NEW v \in Visitor, Alone(v),
         CacheOK', VisitOK(v)', \A k \in DOMAIN index' : EntryOK(k)'
  PROVE  AccessInv'
<1>1. DirInv'
  BY DirectoryRemembers DEF AccessInv
<1>2. ASSUME NEW w \in Visitor PROVE VisitOK(w)'
  BY VisitStays DEF Alone
<1>3. QED
  BY <1>1, <1>2 DEF AccessInv, Alone

\* Steps that leave the visits and the cache alone.
LEMMA QuietStep ==
  ASSUME AccessInv, DirStep, UNCHANGED <<cacheVars, visit, vstep, got, reply>>
  PROVE  AccessInv'
<1>1. visit' = visit /\ vstep' = vstep /\ got' = got /\ reply' = reply /\ index' = index /\ lru' = lru
  BY DEF cacheVars
<1>2. DirInv'
  BY DirectoryRemembers DEF AccessInv
<1>3. CacheOK'
  BY <1>1 DEF AccessInv, CacheOK, InStep
<1>4. \A v \in Visitor : VisitOK(v)'
  BY <1>1, VisitStays
<1>5. \A k \in DOMAIN index : EntryOK(k)'
  BY <1>1, EntryStays
<1>6. QED
  BY <1>1, <1>2, <1>3, <1>4, <1>5 DEF AccessInv

\* Answering a Basic request from a result, or going on with a login.
LEMMA GrantedOK ==
  ASSUME AccessInv, NEW v \in Visitor, Begins(v) \/ vstep[v] = "put", visit' = visit,
         NEW a \in GotResult, got' = [got EXCEPT ![v] = a], Granted(v, a.groups),
         Vouched(Contents', visit'[v].user, visit'[v].pass, a.groups, a.at - TTL - a.late)
  PROVE  Alone(v) /\ VisitOK(v)'
<1>1. VisitOK(v) /\ reply[v] = 0 /\ IsLogin(v)
  BY DEF Begins, VisitOK, AccessInv, IsLogin
<1>2. IsLogin(v)' = IsLogin(v) /\ Key(v)' = Key(v) /\ Needed(v)' = Needed(v)
  BY DEF IsLogin, Key, Needed
<1>3. got'[v] = a /\ GotVouched(v, Since(v))'
  <2>1. got'[v] = a
    BY DEF AccessInv
  <2>2. QED
    BY <2>1 DEF GotVouched, Since
<1>4. CASE visit[v].kind = "basic"
  <2> DEFINE c == IF hasPermission(resolveRoles(a.groups), visit[v].perm) THEN 200 ELSE 403
  <2>1. vstep' = [vstep EXCEPT ![v] = "done"] /\ reply' = [reply EXCEPT ![v] = c]
    BY <1>4 DEF Granted, Reply
  <2>2. vstep'[v] = "done" /\ reply'[v] = c
    BY <2>1 DEF AccessInv
  <2>3. c \in {200, 403} /\ (c = 200 => hasPermission(resolveRoles(a.groups), visit[v].perm))
    OBVIOUS
  <2>4. Needed(v) = visit[v].perm
    BY <1>4 DEF Needed
  <2> HIDE DEF c
  <2>5. VisitOK(v)'
    <3>1. IsLogin(v)' => Key(v)' \in Credentials
      BY <1>1, <1>2 DEF VisitOK
    <3>2. reply'[v] = 200 => hasPermission(resolveRoles(got[v].groups), Needed(v))'
      <4>1. ASSUME reply'[v] = 200 PROVE hasPermission(resolveRoles(got'[v].groups), Needed(v)')
        BY <1>2, <1>3, <2>2, <2>3, <2>4, <4>1
      <4>2. QED
        BY <4>1
    <3>3. QED
      BY <1>3, <2>2, <3>1, <3>2 DEF VisitOK
  <2>6. Alone(v)
    BY <2>1, <2>3 DEF Alone, AccessInv
  <2>7. QED
    BY <2>5, <2>6
<1>5. CASE visit[v].kind # "basic"
  <2>1. vstep' = [vstep EXCEPT ![v] = "grant"] /\ reply' = reply
    BY <1>5 DEF Granted, VGoto
  <2>2. vstep'[v] = "grant" /\ reply'[v] = 0 /\ reply' = [reply EXCEPT ![v] = 0]
    BY <1>1, <2>1 DEF AccessInv
  <2>3. VisitOK(v)'
    BY <1>1, <1>2, <1>3, <2>2 DEF VisitOK
  <2>4. Alone(v)
    BY <2>1 DEF Alone, AccessInv
  <2>5. QED
    BY <2>3, <2>4
<1>6. QED
  BY <1>4, <1>5

LEMMA HitStep ==
  ASSUME AccessInv, NEW v \in Visitor, LookupHit(v), UNCHANGED dirVars
  PROVE  AccessInv' /\ visit' = visit /\ index' = index
<1> DEFINE e == index[Key(v)]
           a == [Nothing EXCEPT !.groups = e.groups, !.late = e.late, !.at = now, !.cached = TRUE]
<1>1. /\ Begins(v) /\ Hit(Key(v), now) /\ visit' = visit
      /\ got' = [got EXCEPT ![v] = a] /\ Granted(v, e.groups)
  BY DEF LookupHit
<1>2. CacheOK' /\ index' = index
  BY <1>1, HitKeeps DEF AccessInv
<1>3. DirStep /\ DirInv
  BY DEF dirVars, DirStep, AccessInv
<1>4. Key(v) \in DOMAIN index /\ now <= e.expires
  BY <1>1 DEF Hit, Fresh
<1>5. e \in StoredResult /\ EntryOK(Key(v)) /\ now \in Int /\ TTL \in Int
  BY <1>4, SinceInt, CacheAssumption DEF AccessInv, DirInv
<1>6. a \in GotResult
  <2>1. e.groups \in SUBSET Groups /\ e.late \in Int
    BY <1>5 DEF StoredResult
  <2>2. Nothing \in GotResult
    BY DEF Nothing, GotResult
  <2> HIDE DEF e
  <2>3. QED
    BY <1>5, <2>1, <2>2 DEF GotResult
<1>7. Vouched(Contents, visit[v].user, visit[v].pass, e.groups, e.expires - TTL - e.late)
  BY <1>5 DEF EntryOK, Key
<1>8. Vouched(Contents, visit[v].user, visit[v].pass, e.groups, now - TTL - e.late)
  <2>1. /\ e.expires - TTL - e.late \in Int /\ now - TTL - e.late \in Int
        /\ now - TTL - e.late <= e.expires - TTL - e.late
    BY <1>4, <1>5 DEF StoredResult
  <2>2. QED
    BY <1>3, <1>7, <2>1, VouchedBefore
<1>9. Vouched(Contents', visit'[v].user, visit'[v].pass, a.groups, a.at - TTL - a.late)
  <2>1. a.groups = e.groups /\ a.at - TTL - a.late = now - TTL - e.late
    BY DEF Nothing
  <2> HIDE DEF a, e
  <2>2. QED
    BY <1>1, <1>8, <2>1, SameContents
<1> HIDE DEF a, e
<1>10. a.groups = e.groups
  BY DEF a, Nothing
<1>11. VisitOK(v)' /\ Alone(v)
  BY <1>1, <1>6, <1>9, <1>10, GrantedOK
<1>12. \A k \in DOMAIN index' : EntryOK(k)'
  BY <1>2, <1>3, EntryStays
<1>13. QED
  BY <1>1, <1>2, <1>3, <1>11, <1>12, OneMoves

LEMMA MissStep ==
  ASSUME AccessInv, NEW v \in Visitor, LookupMiss(v), UNCHANGED dirVars
  PROVE  AccessInv' /\ visit' = visit /\ got' = got /\ index' = Restrict(index, DOMAIN index')
         /\ DOMAIN index' \subseteq DOMAIN index
<1>1. /\ Begins(v) /\ visit' = visit /\ got' = got /\ reply' = reply
      /\ vstep' = [vstep EXCEPT ![v] = "search"]
  BY DEF LookupMiss, VGoto
<1>2. DirStep
  BY DEF dirVars, DirStep
<1>3. /\ CacheOK' /\ DOMAIN index' \subseteq DOMAIN index /\ \A x \in DOMAIN index' : index'[x] = index[x]
      /\ index' = Restrict(index, DOMAIN index')
  <2>1. CASE MaxSize > 0
    BY <2>1, MissKeeps DEF LookupMiss, AccessInv
  <2>2. CASE ~(MaxSize > 0)
    <3>1. UNCHANGED cacheVars
      BY <2>2 DEF LookupMiss
    <3>2. CacheOK'
      BY <3>1 DEF cacheVars, AccessInv, CacheOK, InStep
    <3>3. index = Restrict(index, DOMAIN index)
      BY DEF Restrict, AccessInv, CacheOK
    <3>4. QED
      BY <3>1, <3>2, <3>3 DEF cacheVars
  <2>3. QED
    BY <2>1, <2>2
<1>4. got[v] \in GotResult /\ reply[v] = 0 /\ IsLogin(v) /\ VisitOK(v) /\ ~got[v].cached
  BY <1>1, SinceInt DEF Begins, AccessInv, VisitOK, IsLogin
<1>5. got' = [got EXCEPT ![v] = got[v]] /\ reply' = [reply EXCEPT ![v] = 0]
  BY <1>1, <1>4 DEF AccessInv
<1>6. VisitOK(v)'
  <2>1. vstep'[v] = "search" /\ reply'[v] = 0 /\ got'[v] = got[v]
    BY <1>1, <1>4 DEF AccessInv
  <2>2. QED
    BY <1>1, <1>4, <2>1 DEF VisitOK, IsLogin, Key
<1>7. \A k \in DOMAIN index' : EntryOK(k)'
  BY <1>2, <1>3, EntryStays
<1>8. AccessInv'
  <2>1. Alone(v)
    BY <1>1, <1>4 DEF Alone, AccessInv
  <2>2. QED
    BY <1>2, <1>3, <1>6, <1>7, <2>1, OneMoves
<1>9. QED
  BY <1>1, <1>3, <1>8

LEMMA SearchStep ==
  ASSUME AccessInv, NEW v \in Visitor, SearchUser(v), UNCHANGED dirVars
  PROVE  /\ AccessInv' /\ visit' = visit /\ UNCHANGED cacheVars
         /\ ~got[v].cached /\ ~got'[v].cached /\ \A w \in Visitor \ {v} : got'[w] = got[w]
<1>0. PICK s \in Server :
        got' = [got EXCEPT ![v].groups = GroupsOf(Seen(s), visit[v].user), ![v].server = s, ![v].read = now]
  BY DEF SearchUser
<1> DEFINE groups == GroupsOf(Seen(s), visit[v].user)
           a == [got[v] EXCEPT !.groups = groups, !.server = s, !.read = now]
<1>1. /\ vstep[v] = "search" /\ visit' = visit /\ UNCHANGED cacheVars /\ reply' = reply
      /\ vstep' = [vstep EXCEPT ![v] = "bind"]
  BY DEF SearchUser, VGoto
<1>2. DirStep /\ DirInv /\ CacheOK /\ got \in [Visitor -> GotResult] /\ index' = index /\ lru' = lru
  BY <1>1 DEF dirVars, DirStep, AccessInv, cacheVars
<1>3. CacheOK'
  BY <1>2 DEF CacheOK, InStep
<1>4. VisitOK(v) /\ IsLogin(v) /\ reply[v] = 0 /\ ~got[v].cached /\ got[v] \in GotResult
  BY <1>1, SinceInt DEF AccessInv, VisitOK
<1>5. groups \in SUBSET Groups /\ s \in {"primary", "backup"}
  <2>1. Seen(s) \in Content
    BY <1>2, DirFacts DEF Seen
  <2>2. DOMAIN Seen(s).groups \subseteq Groups
    BY <2>1 DEF Content, Memberships
  <2>3. QED
    BY <2>2 DEF GroupsOf, Server
<1>6. now \in Int
  BY <1>2 DEF DirInv
<1>7. /\ a \in GotResult /\ a.groups = groups /\ a.read = now /\ a.cached = got[v].cached
  BY <1>4, <1>5, <1>6 DEF GotResult
<1>8. got' = [got EXCEPT ![v] = a]
  BY <1>0, <1>2 DEF GotResult
<1> HIDE DEF a
<1>9. vstep'[v] = "bind" /\ reply'[v] = 0 /\ got'[v] = a /\ reply' = [reply EXCEPT ![v] = 0]
  BY <1>1, <1>4, <1>8 DEF AccessInv
<1>10. Had(Contents, visit[v].user, a.groups, a.read)
  <2>1. PICK d \in Contents : d.groups = Seen(s).groups /\ d.until = now
    BY <1>2, SeenIsKnown
  <2>2. now >= now
    BY <1>6
  <2>3. QED
    BY <1>7, <2>1, <2>2 DEF Had, GroupsOf
<1>11. Had(Contents, visit[v].user, got[v].groups, got[v].read)' /\ got'[v].read <= now'
  BY <1>1, <1>6, <1>7, <1>9, <1>10, SameContents DEF dirVars
<1>12. VisitOK(v)'
  <2>1. IsLogin(v)' /\ Key(v)' \in Credentials
    BY <1>1, <1>4 DEF VisitOK, IsLogin, Key
  <2>2. QED
    BY <1>4, <1>7, <1>9, <1>11, <2>1 DEF VisitOK
<1>13. \A k \in DOMAIN index' : EntryOK(k)'
  BY <1>2, EntryStays
<1>14. AccessInv'
  <2>1. Alone(v)
    BY <1>1, <1>7, <1>8 DEF Alone, AccessInv
  <2>2. QED
    BY <1>2, <1>3, <1>12, <1>13, <2>1, OneMoves
<1>15. QED
  BY <1>1, <1>2, <1>4, <1>7, <1>8, <1>9, <1>14

\* The end of a failed authentication.
LEMMA RefusedStep ==
  ASSUME AccessInv, DirStep, NEW v \in Visitor, vstep[v] \in {"search", "bind"},
         NEW c \in {401, 500}, Reply(v, c), got' = [got EXCEPT ![v] = Nothing],
         UNCHANGED <<visit, cacheVars>>
  PROVE  AccessInv'
<1>1. /\ vstep' = [vstep EXCEPT ![v] = "done"] /\ reply' = [reply EXCEPT ![v] = c]
      /\ visit' = visit /\ index' = index /\ lru' = lru
  BY DEF Reply, cacheVars
<1>2. Nothing \in GotResult
  BY DEF Nothing, GotResult
<1>3. vstep'[v] = "done" /\ reply'[v] = c
  BY <1>1 DEF AccessInv
<1>4. VisitOK(v)'
  BY <1>1, <1>3 DEF VisitOK, AccessInv, IsLogin, Key
<1>5. CacheOK'
  BY <1>1 DEF AccessInv, CacheOK, InStep
<1>6. \A k \in DOMAIN index' : EntryOK(k)'
  BY <1>1, EntryStays
<1>7. Alone(v)
  BY <1>1, <1>2 DEF Alone, AccessInv
<1>8. QED
  BY <1>4, <1>5, <1>6, <1>7, OneMoves

LEMMA BindStep ==
  ASSUME AccessInv, NEW v \in Visitor, BindUser(v), UNCHANGED dirVars
  PROVE  AccessInv'
<1>1. /\ vstep[v] = "bind" /\ UNCHANGED <<visit, cacheVars>>
      /\ visit' = visit /\ index' = index /\ lru' = lru
  BY DEF BindUser, cacheVars
<1>2. DirStep /\ DirInv
  BY DEF dirVars, DirStep, AccessInv
<1> DEFINE right == visit[v].pass = Seen(got[v].server).password[visit[v].user]
<1>3. CASE right
  <2>1. vstep' = [vstep EXCEPT ![v] = "put"] /\ reply' = reply /\ got' = got
    BY <1>3 DEF BindUser, VGoto
  <2>2. VisitOK(v) /\ IsLogin(v) /\ reply[v] = 0 /\ ~got[v].cached /\ got[v] \in GotResult
    BY <1>1, SinceInt DEF AccessInv, VisitOK
  <2>3. vstep'[v] = "put" /\ reply' = [reply EXCEPT ![v] = 0] /\ got' = [got EXCEPT ![v] = got[v]]
    BY <2>1, <2>2 DEF AccessInv
  <2>4. Had(Contents, visit[v].user, got[v].groups, got[v].read) /\ got[v].read <= now
    BY <1>1, <2>2 DEF VisitOK
  <2>5. Knew(Contents, visit[v].user, visit[v].pass, got[v].read)
    <3>1. PICK d \in Contents : d.password = Seen(got[v].server).password /\ d.until = now
      BY <1>2, SeenIsKnown
    <3>2. now >= got[v].read
      BY <1>2, <2>2, <2>4 DEF DirInv, GotResult
    <3>3. QED
      BY <1>3, <3>1, <3>2 DEF Knew
  <2>6. Had(Contents, visit[v].user, got[v].groups, got[v].read)' /\ Knew(Contents, visit[v].user, visit[v].pass, got[v].read)'
    BY <1>1, <2>1, <2>4, <2>5, SameContents
  <2>7. VisitOK(v)'
    <3>1. IsLogin(v)' /\ Key(v)' \in Credentials
      BY <1>1, <2>2 DEF VisitOK, IsLogin, Key
    <3>2. got'[v].read <= now' /\ ~got'[v].cached
      BY <2>1, <2>2, <2>4 DEF dirVars
    <3>3. vstep'[v] = "put" /\ reply'[v] = 0
      BY <2>1, <2>2 DEF AccessInv
    <3>4. QED
      BY <2>6, <3>1, <3>2, <3>3 DEF VisitOK
  <2>8. CacheOK' /\ \A k \in DOMAIN index' : EntryOK(k)'
    <3>1. CacheOK'
      BY <1>1 DEF AccessInv, CacheOK, InStep
    <3>2. QED
      BY <1>1, <1>2, <3>1, EntryStays
  <2>9. Alone(v)
    BY <1>1, <2>1, <2>2 DEF Alone, AccessInv
  <2>10. QED
    BY <1>2, <2>7, <2>8, <2>9, OneMoves
<1>4. CASE ~right
  BY <1>1, <1>2, <1>4, RefusedStep DEF BindUser
<1>5. QED
  BY <1>3, <1>4

LEMMA StoreStep ==
  ASSUME AccessInv, NEW v \in Visitor, Store(v), UNCHANGED dirVars
  PROVE  /\ AccessInv' /\ visit' = visit /\ Key(v) \in Credentials /\ got[v].groups \in SUBSET Groups
         /\ ~got[v].cached /\ ~got'[v].cached /\ \A w \in Visitor \ {v} : got'[w] = got[w]
         /\ MaxSize > 0 => Put(Key(v), Entry(got[v].groups, now - got[v].read, now))
         /\ MaxSize > 0 => Entry(got[v].groups, now - got[v].read, now) \in StoredResult
         /\ ~(MaxSize > 0) => UNCHANGED cacheVars
<1> DEFINE late == now - got[v].read
           a == [got[v] EXCEPT !.read = 0, !.server = "primary", !.late = late, !.at = now]
           e == Entry(got[v].groups, late, now)
<1>1. /\ vstep[v] = "put" /\ visit' = visit /\ Granted(v, got[v].groups)
      /\ got' = [got EXCEPT ![v].read = 0, ![v].server = "primary", ![v].late = late, ![v].at = now]
      /\ IF MaxSize > 0 THEN Put(Key(v), e) ELSE UNCHANGED cacheVars
  BY DEF Store
<1>2. /\ DirStep /\ DirInv /\ CacheOK /\ got \in [Visitor -> GotResult]
      /\ now \in Int /\ TTL \in Nat
  BY CacheAssumption DEF dirVars, DirStep, AccessInv, DirInv
<1>3. VisitOK(v) /\ IsLogin(v) /\ ~got[v].cached /\ got[v] \in GotResult
  BY <1>1, SinceInt DEF AccessInv, VisitOK
<1>4. /\ Had(Contents, visit[v].user, got[v].groups, got[v].read) /\ got[v].read <= now
      /\ Knew(Contents, visit[v].user, visit[v].pass, got[v].read)
  BY <1>1, <1>3 DEF VisitOK
<1>5. late \in Int /\ got[v].read \in Int /\ got[v].groups \in SUBSET Groups
  BY <1>2, <1>3 DEF GotResult
<1>6. /\ a \in GotResult /\ a.groups = got[v].groups /\ a.cached = got[v].cached
      /\ a.at = now /\ a.late = late
  <2> HIDE DEF late
  <2> DEFINE d == [got[v] EXCEPT !.read = 0]
             b == [d EXCEPT !.server = "primary"]
             c == [b EXCEPT !.late = late]
  <2>0. d \in GotResult /\ d.groups = got[v].groups /\ d.cached = got[v].cached
    BY <1>3, <1>5 DEF GotResult
  <2>1. b \in GotResult /\ b.groups = got[v].groups /\ b.cached = got[v].cached
    <3> HIDE DEF d
    <3>1. QED
      BY <2>0 DEF GotResult
  <2>2. a = [c EXCEPT !.at = now]
    OBVIOUS
  <2> HIDE DEF b
  <2>3. c \in GotResult /\ c.groups = got[v].groups /\ c.cached = got[v].cached /\ c.late = late
    BY <1>5, <2>1 DEF GotResult
  <2> HIDE DEF c
  <2>4. QED
    BY <1>2, <2>2, <2>3 DEF GotResult
<1>7. got' = [got EXCEPT ![v] = a]
  <2> HIDE DEF late
  <2>1. [got EXCEPT ![v].read = 0, ![v].server = "primary", ![v].late = late, ![v].at = now]
          = [got EXCEPT ![v] = a]
    BY <1>2, <1>3 DEF GotResult
  <2>2. QED
    BY <1>1, <2>1
<1>8. a.at - TTL - a.late = got[v].read - TTL
  BY <1>2, <1>5, <1>6
<1>9. Vouched(Contents, visit[v].user, visit[v].pass, a.groups, a.at - TTL - a.late)
  <2>1. got[v].read - TTL \in Int /\ got[v].read - TTL <= got[v].read
    BY <1>2, <1>5
  <2>2. Vouched(Contents, visit[v].user, visit[v].pass, got[v].groups, got[v].read)
    BY <1>4 DEF Vouched
  <2>3. QED
    BY <1>2, <1>5, <1>6, <1>8, <2>1, <2>2, VouchedBefore
<1>10. Vouched(Contents', visit'[v].user, visit'[v].pass, a.groups, a.at - TTL - a.late)
  <2> HIDE DEF a, e, late
  <2>1. QED
    BY <1>1, <1>9, SameContents
<1>11. e \in StoredResult /\ e.groups = got[v].groups /\ e.expires - TTL - e.late = got[v].read
  BY <1>2, <1>5 DEF Entry, StoredResult
<1>12. Key(v) \in Credentials /\ Key(v)[1] = visit[v].user /\ Key(v)[2] = visit[v].pass
  BY <1>3 DEF VisitOK, Key
<1> HIDE DEF a, e, late
<1>13. VisitOK(v)' /\ Alone(v)
  BY <1>1, <1>6, <1>7, <1>10, GrantedOK
<1>14. CacheOK' /\ \A k \in DOMAIN index' : EntryOK(k)'
  <2>1. CASE MaxSize > 0
    <3>1. /\ CacheOK' /\ DOMAIN index' \subseteq DOMAIN index \cup {Key(v)}
          /\ index' = [x \in DOMAIN index' |-> IF x = Key(v) THEN e ELSE index[x]]
      BY <1>1, <1>2, <1>11, <1>12, <2>1, PutKeeps
    <3>2. ASSUME NEW k \in DOMAIN index', k # Key(v) PROVE EntryOK(k)'
      BY <1>2, <3>1, <3>2, EntryStays
    <3>3. ASSUME Key(v) \in DOMAIN index' PROVE EntryOK(Key(v))'
      <4>1. index'[Key(v)] = e
        BY <3>1, <3>3
      <4>2. Vouched(Contents, Key(v)[1], Key(v)[2], e.groups, e.expires - TTL - e.late)
        BY <1>4, <1>11, <1>12 DEF Vouched
      <4>3. Key(v)' = Key(v)
        BY <1>1 DEF Key
      <4>4. Vouched(Contents, Key(v)[1], Key(v)[2], e.groups, e.expires - TTL - e.late) =>
              EntryOK(Key(v))'
        BY <4>1, <4>3, SameContents DEF EntryOK
      <4>5. QED
        BY <4>2, <4>4
    <3>4. ASSUME NEW k \in DOMAIN index' PROVE EntryOK(k)'
      <4>1. Key(v)' = Key(v)
        BY <1>1 DEF Key
      <4>2. CASE k = Key(v)
        BY <3>3, <4>1, <4>2 DEF EntryOK
      <4>3. QED
        BY <3>2, <4>2
    <3>5. QED
      BY <3>1, <3>4
  <2>2. CASE ~(MaxSize > 0)
    <3>1. index' = index /\ lru' = lru
      BY <1>1, <2>2 DEF cacheVars
    <3>2. CacheOK'
      BY <1>2, <3>1 DEF CacheOK, InStep
    <3>3. QED
      BY <1>2, <3>1, <3>2, EntryStays
  <2>3. QED
    BY <2>1, <2>2
<1>15. AccessInv'
  BY <1>2, <1>13, <1>14, OneMoves
<1>16. got'[v] = a /\ \A w \in Visitor \ {v} : got'[w] = got[w]
  BY <1>2, <1>7
<1>17. QED
  BY <1>1, <1>3, <1>5, <1>6, <1>11, <1>12, <1>15, <1>16 DEF e, late

\* Logins, pages, the login form and logouts leave the cache and its results alone.
LEMMA SessionStep ==
  ASSUME AccessInv, NEW v \in Visitor, Login(v) \/ LoginForm(v) \/ Page(v) \/ Logout(v), UNCHANGED dirVars
  PROVE  AccessInv' /\ UNCHANGED <<visit, got, cacheVars>>
<1>1. /\ visit' = visit /\ got' = got /\ index' = index /\ lru' = lru /\ UNCHANGED cacheVars
  BY DEF Login, LoginForm, Page, Logout, NoAuth, cacheVars
<1>2. DirStep /\ CacheOK /\ DOMAIN vstep = Visitor /\ reply \in [Visitor -> Int] /\ got \in [Visitor -> GotResult]
  BY DEF dirVars, DirStep, AccessInv
<1>3. VisitOK(v)
  BY DEF AccessInv
<1>4. CacheOK'
  BY <1>1, <1>2 DEF CacheOK, InStep
<1>5. \A k \in DOMAIN index' : EntryOK(k)'
  BY <1>1, <1>2, EntryStays
<1>6. got' = [got EXCEPT ![v] = got[v]] /\ got[v] \in GotResult
  BY <1>1, <1>2
<1>7. IsLogin(v)' = IsLogin(v) /\ Key(v)' = Key(v) /\ Needed(v)' = Needed(v)
  BY <1>1 DEF IsLogin, Key, Needed
<1>8. \E c \in {200, 303, 403} :
        /\ vstep' = [vstep EXCEPT ![v] = "done"] /\ reply' = [reply EXCEPT ![v] = c]
        /\ IsLogin(v) /\ c = 200 => Login(v) /\ hasPermission(resolveRoles(got[v].groups), "read")
                                             /\ Needed(v) = "read" /\ vstep[v] = "grant"
  <2>1. CASE Login(v)
    <3>1. CASE hasPermission(resolveRoles(got[v].groups), "read")
      <4>1. Reply(v, 200) /\ Needed(v) = "read" /\ vstep[v] = "grant"
        BY <2>1, <3>1 DEF Login, Needed
      <4>2. QED
        BY <2>1, <3>1, <4>1 DEF Reply
    <3>2. CASE ~hasPermission(resolveRoles(got[v].groups), "read")
      <4>1. Reply(v, 403)
        BY <2>1, <3>2 DEF Login
      <4>2. QED
        BY <4>1 DEF Reply
    <3>3. QED
      BY <3>1, <3>2
  <2>2. CASE LoginForm(v)
    <3>1. ~IsLogin(v) /\ Reply(v, IF Found(visit[v].token) THEN 303 ELSE 200)
      BY <2>2 DEF LoginForm, IsLogin
    <3>2. QED
      BY <3>1 DEF Reply
  <2>3. CASE Page(v)
    <3>1. ~IsLogin(v)
      BY <2>3 DEF Page, IsLogin
    <3>2. PICK c \in {200, 303, 403} : Reply(v, c)
      BY <2>3 DEF Page
    <3>3. vstep' = [vstep EXCEPT ![v] = "done"] /\ reply' = [reply EXCEPT ![v] = c]
      BY <3>2 DEF Reply
    <3>4. QED
      BY <3>1, <3>3
  <2>4. CASE Logout(v)
    <3>1. ~IsLogin(v) /\ Reply(v, 303)
      BY <2>4 DEF Logout, IsLogin
    <3>2. QED
      BY <3>1 DEF Reply
  <2>5. QED
    BY <2>1, <2>2, <2>3, <2>4
<1>9. PICK c \in {200, 303, 403} :
        /\ vstep' = [vstep EXCEPT ![v] = "done"] /\ reply' = [reply EXCEPT ![v] = c]
        /\ IsLogin(v) /\ c = 200 => Login(v) /\ hasPermission(resolveRoles(got[v].groups), "read")
                                             /\ Needed(v) = "read" /\ vstep[v] = "grant"
  BY <1>8
<1>10. vstep'[v] = "done" /\ reply'[v] = c /\ c \in Int
  BY <1>2, <1>9
<1>11. IsLogin(v) /\ c = 200 => GotVouched(v, Since(v))'
  <2>1. IsLogin(v) /\ c = 200 => GotVouched(v, Since(v))
    BY <1>3, <1>9 DEF VisitOK
  <2>2. GotVouched(v, Since(v)) => GotVouched(v, Since(v))'
    BY <1>1, SameContents DEF GotVouched, Since
  <2>3. QED
    BY <2>1, <2>2
<1>12. IsLogin(v) /\ c = 200 => hasPermission(resolveRoles(got[v].groups), Needed(v))'
  <2>1. ASSUME IsLogin(v), c = 200 PROVE hasPermission(resolveRoles(got'[v].groups), Needed(v)')
    BY <1>1, <1>7, <1>9, <2>1
  <2>2. QED
    BY <2>1
<1>13. VisitOK(v)'
  BY <1>3, <1>7, <1>10, <1>11, <1>12 DEF VisitOK
<1>14. AccessInv'
  <2>1. Alone(v)
    BY <1>1, <1>6, <1>9, <1>10 DEF Alone, AccessInv
  <2>2. QED
    BY <1>2, <1>4, <1>5, <1>13, <2>1, OneMoves
<1>15. QED
  BY <1>1, <1>14

(***************************************************************************)
(* Every step.                                                             *)
(***************************************************************************)

\* What the handlers of the admins, the syncer, the sweeper and the world do leaves
\* authentication alone.
Aside ==
  /\ UNCHANGED <<cacheVars, visit, vstep, got, reply>>
  /\ DirStep
  /\ UNCHANGED now \/ now' = now + 1

LEMMA AsideSteps ==
  ASSUME (\E c \in Client : RegistryStep(c)) \/ SyncStep \/ SweepStep \/ World \/ UNCHANGED vars
  PROVE  Aside
<1>1. Fault => DirStep /\ UNCHANGED now
  BY DEF Fault, DirStep
<1>2. UNCHANGED dirVars => DirStep /\ UNCHANGED now
  BY DEF dirVars, DirStep
<1>3. UNCHANGED <<cacheVars, accessVars>> => UNCHANGED <<cacheVars, visit, vstep, got, reply>>
  BY DEF accessVars
<1>4. CASE \E c \in Client : RegistryStep(c)
  BY <1>1, <1>2, <1>3, <1>4 DEF RegistryStep, CallFails, Aside
<1>5. CASE SyncStep
  BY <1>1, <1>2, <1>3, <1>5 DEF SyncStep, SyncFails, Aside
<1>6. CASE SweepStep
  <2>1. SweepStart \/ Sweep => UNCHANGED <<cacheVars, visit, vstep, got, reply>>
    BY DEF SweepStart, Sweep, NoRequest, NoAuth
  <2>2. QED
    BY <1>2, <1>6, <2>1 DEF SweepStep, Aside
<1>7. CASE World
  <2>1. DirectoryChange => DirStep /\ UNCHANGED now
    BY DEF DirectoryChange, DirStep
  <2>2. Replicate => DirStep /\ UNCHANGED now
    BY DEF Replicate, DirStep
  <2>3. Tick => DirStep /\ now' = now + 1
    BY DEF Tick, DirStep
  <2>4. QED
    BY <1>3, <1>7, <2>1, <2>2, <2>3 DEF World, Aside
<1>8. CASE UNCHANGED vars
  <2>1. UNCHANGED dirVars /\ UNCHANGED <<cacheVars, accessVars>>
    BY <1>8 DEF vars
  <2>2. QED
    BY <1>2, <1>3, <2>1 DEF Aside
<1>9. QED
  BY <1>4, <1>5, <1>6, <1>7, <1>8

\* A restart empties the cache and drops who was waiting.
LEMMA CrashStep ==
  ASSUME AccessInv, Crash
  PROVE  AccessInv' /\ UNCHANGED <<visit, got, now>> /\ index' = <<>>
<1>1. /\ vstep' = [v \in Visitor |-> IF vstep[v] \in {"idle", "done"} THEN vstep[v] ELSE "gone"]
      /\ visit' = visit /\ got' = got /\ reply' = reply
      /\ index' = <<>> /\ lru' = <<>> /\ UNCHANGED <<load, now, contents, gone>>
  BY DEF Crash, AccessCrash
<1>2. DirStep /\ DirInv' /\ DirInv
  BY <1>1 DEF DirStep, AccessInv, DirInv
<1>3. CacheOK' /\ DOMAIN index' = {}
  <2>1. DOMAIN index' = {}
    BY <1>1
  <2>2. (index = <<>> /\ lru = <<>> => CacheOK)'
    BY EmptyCache, PTL
  <2>3. QED
    BY <1>1, <2>1, <2>2
<1>4. ASSUME NEW v \in Visitor PROVE VisitOK(v)'
  <2>1. CASE vstep[v] \in {"idle", "done"}
    <3>1. vstep'[v] = vstep[v]
      BY <1>1, <2>1
    <3>2. QED
      BY <1>1, <1>2, <3>1, VisitStays
  <2>2. CASE vstep[v] \notin {"idle", "done"}
    <3>1. vstep'[v] = "gone"
      BY <1>1, <2>2
    <3>2. VisitOK(v) /\ Since(v) \in Int
      BY SinceInt DEF AccessInv
    <3>3. IsLogin(v)' = IsLogin(v) /\ Key(v)' = Key(v) /\ Needed(v)' = Needed(v)
      BY <1>1 DEF IsLogin, Key, Needed
    <3>4. GotVouched(v, Since(v)) => GotVouched(v, Since(v))'
      BY <1>1, <1>2, <3>2, VouchedStays DEF GotVouched, Since
    <3>5. hasPermission(resolveRoles(got[v].groups), Needed(v)) =>
            hasPermission(resolveRoles(got[v].groups), Needed(v))'
      BY <1>1, <3>3
    <3>6. QED
      BY <1>1, <3>1, <3>2, <3>3, <3>4, <3>5 DEF VisitOK
  <2>3. QED
    BY <2>1, <2>2
<1>5. QED
  BY <1>1, <1>2, <1>3, <1>4 DEF AccessInv

LEMMA FailStep ==
  ASSUME AccessInv, NEW v \in Visitor, DirectoryFails(v)
  PROVE  /\ AccessInv' /\ UNCHANGED <<visit, cacheVars, now>>
         /\ ~got[v].cached /\ ~got'[v].cached /\ \A w \in Visitor \ {v} : got'[w] = got[w]
<1>1. /\ vstep[v] \in {"search", "bind"} /\ Reply(v, 500) /\ got' = [got EXCEPT ![v] = Nothing]
      /\ UNCHANGED <<visit, cacheVars>> /\ UNCHANGED <<load, now, contents, gone>>
  BY DEF DirectoryFails, Fault
<1>2. DirStep
  BY <1>1 DEF DirStep
<1>3. AccessInv'
  BY <1>1, <1>2, RefusedStep
<1>4. ~got[v].cached
  BY <1>1 DEF AccessInv, VisitOK
<1>5. ~got'[v].cached /\ \A w \in Visitor \ {v} : got'[w] = got[w]
  BY <1>1 DEF AccessInv, Nothing
<1>6. QED
  BY <1>1, <1>3, <1>4, <1>5

LEMMA AccessNext == AccessInv /\ [Next]_vars => AccessInv'
<1> SUFFICES ASSUME AccessInv, [Next]_vars PROVE AccessInv'
  OBVIOUS
<1>1. CASE (\E c \in Client : RegistryStep(c)) \/ SyncStep \/ SweepStep \/ World \/ UNCHANGED vars
  BY <1>1, AsideSteps, QuietStep DEF Aside
<1>2. CASE \E v \in Visitor : AccessStep(v)
  <2>1. PICK v \in Visitor : AccessStep(v)
    BY <1>2
  <2>2. CASE Serve(v) /\ UNCHANGED dirVars
    BY <2>2, HitStep, MissStep, SearchStep, BindStep, StoreStep, SessionStep DEF Serve, authenticate
  <2>3. CASE DirectoryFails(v)
    BY <2>3, FailStep
  <2>4. QED
    BY <2>1, <2>2, <2>3 DEF AccessStep
<1>3. CASE Crash
  BY <1>3, CrashStep
<1>4. QED
  BY <1>1, <1>2, <1>3 DEF Next

\* The invariant holds in every reachable state. (ldap/auth.go, ldap/cache.go and
\* api/ui_auth.go together.)
THEOREM AccessConsistent == Spec => []AccessInv
<1>1. QED
  BY AccessStart, AccessNext, PTL DEF Spec

\* The list and the index of the cache hold the same keys, each once, and no more
\* than the configured size, whatever its order of hits, misses and stores.
\* (cacheGet and cachePut of ldap/cache.go)
THEOREM CacheInStep == Spec => []InStep
<1>1. AccessInv => InStep
  BY DEF AccessInv, CacheOK
<1>2. QED
  BY <1>1, AccessConsistent, PTL

\* Nobody is let in on a password or a group that was not true within the TTL and the
\* time the authentication took. (AuthenticateUser of ldap/cache.go)
THEOREM RevocationIsBounded == Spec => []RevocationBounded
<1>1. AccessInv => RevocationBounded
  <2> SUFFICES ASSUME AccessInv, NEW v \in Visitor, visit[v].kind \in {"basic", "login"}, reply[v] = 200
               PROVE  /\ \E i \in DOMAIN contents :
                           Until(i) >= Since(v) /\ contents[i].password[visit[v].user] = visit[v].pass
                      /\ \E i \in DOMAIN contents :
                           /\ Until(i) >= Since(v)
                           /\ hasPermission(resolveRoles(GroupsOf(contents[i], visit[v].user)), Needed(v))
    BY DEF RevocationBounded, Since, Needed
  <2>1. GotVouched(v, Since(v)) /\ hasPermission(resolveRoles(got[v].groups), Needed(v))
    BY DEF AccessInv, VisitOK, IsLogin
  <2>2. PICK d \in Contents : d.until >= Since(v) /\ got[v].groups = GroupsOf(d, visit[v].user)
    BY <2>1 DEF GotVouched, Vouched, Had
  <2>3. PICK i \in DOMAIN contents : d.groups = contents[i].groups /\ d.until = Until(i)
    BY DEF Contents
  <2>4. GroupsOf(d, visit[v].user) = GroupsOf(contents[i], visit[v].user)
    BY <2>3 DEF GroupsOf
  <2>5. PICK e \in Contents : e.until >= Since(v) /\ e.password[visit[v].user] = visit[v].pass
    BY <2>1 DEF GotVouched, Vouched, Knew
  <2>6. PICK k \in DOMAIN contents : e.password = contents[k].password /\ e.until = Until(k)
    BY DEF Contents
  <2>7. QED
    BY <2>1, <2>2, <2>3, <2>4, <2>5, <2>6
<1>2. QED
  BY <1>1, AccessConsistent, PTL

(***************************************************************************)
(* The cache implements a map whose entries expire.                        *)
(***************************************************************************)

\* The map and the answers given from it, as Map sees them.
TheMap == [k \in DOMAIN index |-> [result |-> index[k].groups, until |-> index[k].expires]]
TheServed == {[key |-> Key(v), result |-> got[v].groups, at |-> got[v].at] :
                v \in {w \in Visitor : got[w].cached}}

\* There are as many keys in the index as elements in the list.
LEMMA ListingSize ==
  ASSUME NEW S, NEW s, Listing(s, S)
  PROVE  IsFiniteSet(ToSet(s)) /\ Cardinality(ToSet(s)) = Len(s)
<1>1. /\ Len(s) \in Nat /\ DOMAIN s = 1..Len(s)
      /\ \A k : k \in ToSet(s) <=> \E i \in 1..Len(s) : s[i] = k
      /\ \A i, j \in 1..Len(s) : s[i] = s[j] => i = j
  BY ListFacts
<1> DEFINE f == [i \in 1..Len(s) |-> s[i]]
<1>2. f \in Bijection(1..Len(s), ToSet(s))
  BY <1>1, Fun_IsBij
<1>3. ExistsBijection(1..Len(s), ToSet(s))
  BY <1>2 DEF ExistsBijection
<1>4. QED
  BY <1>1, <1>3, FS_NatBijection, FS_CountingElements

\* The map only loses entries, or does not change.
LEMMA LoseOnly ==
  ASSUME index' = Restrict(index, DOMAIN index'), DOMAIN index' \subseteq DOMAIN index,
         UNCHANGED <<TheServed, now>>
  PROVE  Map!Lose
<1>1. TheMap' = [x \in DOMAIN index' |-> TheMap[x]]
  <2>1. \A x \in DOMAIN index' : index'[x] = index[x] /\ x \in DOMAIN index
    BY DEF Restrict
  <2>2. QED
    BY <2>1 DEF TheMap
<1>2. DOMAIN index' \in SUBSET DOMAIN TheMap
  BY DEF TheMap
<1>3. QED
  BY <1>1, <1>2 DEF Map!Lose, Map!Restrict, TheMap, TheServed

\* What one visit does without the cache changes nothing in what was served.
LEMMA ServedSame ==
  ASSUME visit' = visit, NEW v \in Visitor, ~got[v].cached, ~got'[v].cached,
         \A w \in Visitor \ {v} : got'[w] = got[w]
  PROVE  TheServed' = TheServed
<1>1. {w \in Visitor : got'[w].cached} = {w \in Visitor : got[w].cached}
  OBVIOUS
<1>2. \A w \in {x \in Visitor : got[x].cached} : got'[w] = got[w] /\ Key(w)' = Key(w)
  BY DEF Key
<1>3. QED
  BY <1>1, <1>2 DEF TheServed

LEMMA HitServes ==
  ASSUME AccessInv, NEW v \in Visitor, LookupHit(v), UNCHANGED dirVars
  PROVE  \E k \in Users \X Passwords : Map!Serve(k)
<1>1. /\ visit' = visit /\ index' = index /\ now' = now
      /\ Begins(v) /\ Hit(Key(v), now)
      /\ got' = [got EXCEPT ![v] = [Nothing EXCEPT !.groups = index[Key(v)].groups,
                                    !.late = index[Key(v)].late, !.at = now, !.cached = TRUE]]
  BY HitStep DEF LookupHit, dirVars
<1>2. Key(v) \in DOMAIN index /\ now <= index[Key(v)].expires /\ ~got[v].cached /\ Key(v) \in Credentials
  BY <1>1 DEF Hit, Fresh, Begins, AccessInv, VisitOK, IsLogin
<1>3. /\ got'[v].cached /\ got'[v].groups = index[Key(v)].groups /\ got'[v].at = now
      /\ \A w \in Visitor \ {v} : got'[w] = got[w]
  BY <1>1 DEF AccessInv, Nothing
<1>4. TheServed' = TheServed \cup {[key |-> Key(v), result |-> TheMap[Key(v)].result, at |-> now]}
  <2>1. {w \in Visitor : got'[w].cached} = {w \in Visitor : got[w].cached} \cup {v}
    BY <1>3
  <2>2. \A w \in Visitor : Key(w)' = Key(w)
    BY <1>1 DEF Key
  <2>3. TheMap[Key(v)].result = index[Key(v)].groups
    BY <1>2 DEF TheMap
  <2>4. \A w \in {x \in Visitor : got[x].cached} : got'[w] = got[w]
    BY <1>2, <1>3
  <2>5. QED
    BY <1>3, <2>1, <2>2, <2>3, <2>4 DEF TheServed
<1>5. TheMap' = TheMap
  BY <1>1 DEF TheMap
<1>6. Key(v) \in DOMAIN TheMap /\ now <= TheMap[Key(v)].until
  BY <1>2 DEF TheMap
<1>7. ASSUME NEW k \in Users \X Passwords, k = Key(v) PROVE Map!Serve(k)
  BY <1>1, <1>4, <1>5, <1>6, <1>7 DEF Map!Serve, TheMap, TheServed
<1>8. QED
  BY <1>2, <1>7 DEF Credentials

LEMMA StoreLearns ==
  ASSUME AccessInv, NEW v \in Visitor, Store(v), UNCHANGED dirVars, MaxSize > 0
  PROVE  \E k \in Users \X Passwords, r \in SUBSET Groups : Map!Learn(k, r)
<1> DEFINE e == Entry(got[v].groups, now - got[v].read, now)
           kept == DOMAIN index' \ {Key(v)}
<1>1. /\ visit' = visit /\ Key(v) \in Credentials /\ got[v].groups \in SUBSET Groups /\ now' = now
      /\ Put(Key(v), e) /\ e \in StoredResult /\ TheServed' = TheServed /\ AccessInv'
  BY StoreStep, ServedSame DEF dirVars
<1>2. e.groups = got[v].groups /\ e.expires = now + TTL
  BY DEF Entry
<1> HIDE DEF e
<1>3. /\ Key(v) \in DOMAIN index' /\ DOMAIN index' \subseteq DOMAIN index \cup {Key(v)}
      /\ index' = [x \in DOMAIN index' |-> IF x = Key(v) THEN e ELSE index[x]]
      /\ CacheOK'
  BY <1>1, PutKeeps DEF AccessInv
<1>4. kept \in SUBSET (DOMAIN TheMap \ {Key(v)}) /\ DOMAIN index' = kept \cup {Key(v)}
  BY <1>3 DEF TheMap
<1>5. Cardinality(kept) < MaxSize
  <2>1. Listing(lru', Credentials) /\ ToSet(lru') = DOMAIN index' /\ (Len(lru') <= MaxSize \/ lru' = <<>>)
    BY <1>3 DEF CacheOK, InStep
  <2>2. IsFiniteSet(DOMAIN index') /\ Cardinality(DOMAIN index') = Len(lru') /\ Len(lru') \in Nat
    BY <2>1, ListingSize, ListFacts
  <2>3. lru' # <<>>
    BY <1>3, <2>1 DEF ToSet
  <2>4. Cardinality(kept) = Cardinality(DOMAIN index') - 1
    <3>1. Cardinality(DOMAIN index' \ {Key(v)}) =
            IF Key(v) \in DOMAIN index' THEN Cardinality(DOMAIN index') - 1 ELSE Cardinality(DOMAIN index')
      BY <2>2, FS_RemoveElement
    <3>2. QED
      BY <1>3, <3>1
  <2>5. QED
    BY <2>1, <2>2, <2>3, <2>4, CacheAssumption
<1> HIDE DEF kept
<1>6. TheMap' = [x \in kept \cup {Key(v)} |->
                  IF x = Key(v) THEN [result |-> got[v].groups, until |-> now + TTL] ELSE TheMap[x]]
  <2>1. \A x \in DOMAIN index' : index'[x] = IF x = Key(v) THEN e ELSE index[x]
    BY <1>3
  <2>2. \A x \in kept : TheMap[x] = [result |-> index[x].groups, until |-> index[x].expires] /\ x # Key(v)
    BY <1>4 DEF TheMap
  <2>3. TheMap' = [x \in kept \cup {Key(v)} |-> [result |-> index'[x].groups, until |-> index'[x].expires]]
    BY <1>4 DEF TheMap
  <2>4. \A x \in kept \cup {Key(v)} :
          [result |-> index'[x].groups, until |-> index'[x].expires] =
            IF x = Key(v) THEN [result |-> got[v].groups, until |-> now + TTL] ELSE TheMap[x]
    BY <1>2, <1>4, <2>1, <2>2
  <2>5. QED
    BY <2>3, <2>4
<1>7. Map!Cardinality(kept) = Cardinality(kept)
  BY DEF Map!Cardinality, Cardinality
<1>8. ASSUME NEW k \in Users \X Passwords, NEW r \in SUBSET Groups, k = Key(v), r = got[v].groups
      PROVE  Map!Learn(k, r)
  <2>1. /\ kept \in SUBSET (DOMAIN TheMap \ {k}) /\ Map!Cardinality(kept) < MaxSize
        /\ TheMap' = [x \in kept \cup {k} |->
                        IF x = k THEN [result |-> r, until |-> now + TTL] ELSE TheMap[x]]
    BY <1>4, <1>5, <1>6, <1>7, <1>8
  <2>2. UNCHANGED <<now, TheServed>>
    BY <1>1
  <2>3. \E s \in SUBSET (DOMAIN TheMap \ {k}) :
          /\ Map!Cardinality(s) < MaxSize
          /\ TheMap' = [x \in s \cup {k} |->
                          IF x = k THEN [result |-> r, until |-> now + TTL] ELSE TheMap[x]]
    BY <2>1
  <2>4. QED
    BY <2>2, <2>3 DEF Map!Learn, TheMap, TheServed
<1>9. QED
  BY <1>1, <1>8 DEF Credentials

\* Every step of the system is a step of the map, or leaves it alone.
LEMMA StepRefines == AccessInv /\ [Next]_vars => [Map!Next]_(Map!vars)
<1> SUFFICES ASSUME AccessInv, [Next]_vars PROVE Map!Next \/ UNCHANGED <<TheMap, now, TheServed>>
  BY DEF Map!vars, TheMap, TheServed
<1>1. CASE (\E c \in Client : RegistryStep(c)) \/ SyncStep \/ SweepStep \/ World \/ UNCHANGED vars
  <2>1. Aside
    BY <1>1, AsideSteps
  <2>2. UNCHANGED <<TheMap, TheServed>>
    BY <2>1 DEF Aside, TheMap, TheServed, Key, cacheVars
  <2>3. now' = now + 1 => Map!Tick
    BY <2>2 DEF AccessInv, DirInv, Map!Tick, TheMap, TheServed
  <2>4. QED
    BY <2>1, <2>2, <2>3 DEF Aside, Map!Next
<1>2. CASE \E v \in Visitor : AccessStep(v)
  <2>1. PICK v \in Visitor : AccessStep(v)
    BY <1>2
  <2>2. CASE UNCHANGED dirVars /\ LookupHit(v)
    BY <2>2, HitServes DEF Map!Next
  <2>3. CASE UNCHANGED dirVars /\ LookupMiss(v)
    <3>1. /\ visit' = visit /\ got' = got /\ index' = Restrict(index, DOMAIN index')
          /\ DOMAIN index' \subseteq DOMAIN index
      BY <2>3, MissStep
    <3>2. UNCHANGED <<TheServed, now>>
      BY <2>3, <3>1 DEF TheServed, Key, dirVars
    <3>3. QED
      BY <3>1, <3>2, LoseOnly DEF Map!Next
  <2>4. CASE UNCHANGED dirVars /\ SearchUser(v)
    <3>1. TheServed' = TheServed /\ index' = index /\ now' = now
      BY <2>4, SearchStep, ServedSame DEF cacheVars, dirVars
    <3>2. QED
      BY <3>1 DEF TheMap
  <2>5. CASE UNCHANGED dirVars /\ BindUser(v)
    <3>1. /\ visit' = visit /\ index' = index /\ now' = now
          /\ got' = got \/ got' = [got EXCEPT ![v] = Nothing]
      BY <2>5 DEF BindUser, cacheVars, dirVars
    <3>2. ~got[v].cached
      BY <2>5 DEF BindUser, AccessInv, VisitOK
    <3>3. ~got'[v].cached /\ \A w \in Visitor \ {v} : got'[w] = got[w]
      BY <3>1, <3>2 DEF AccessInv, Nothing
    <3>4. TheServed' = TheServed
      BY <3>1, <3>2, <3>3, ServedSame
    <3>5. QED
      BY <3>1, <3>4 DEF TheMap
  <2>6. CASE UNCHANGED dirVars /\ Store(v)
    <3>1. CASE MaxSize > 0
      BY <2>6, <3>1, StoreLearns DEF Map!Next
    <3>2. CASE ~(MaxSize > 0)
      <4>1. TheServed' = TheServed /\ index' = index /\ now' = now
        BY <2>6, <3>2, StoreStep, ServedSame DEF cacheVars, dirVars
      <4>2. QED
        BY <4>1 DEF TheMap
    <3>3. QED
      BY <3>1, <3>2
  <2>7. CASE UNCHANGED dirVars /\ (Login(v) \/ LoginForm(v) \/ Page(v) \/ Logout(v))
    <3>1. UNCHANGED <<visit, got, cacheVars, now>>
      BY <2>7, SessionStep DEF dirVars
    <3>2. QED
      BY <3>1 DEF TheMap, TheServed, Key, cacheVars
  <2>8. CASE DirectoryFails(v)
    <3>1. TheServed' = TheServed /\ index' = index /\ now' = now
      BY <2>8, FailStep, ServedSame DEF cacheVars
    <3>2. QED
      BY <3>1 DEF TheMap
  <2>9. QED
    BY <2>1, <2>2, <2>3, <2>4, <2>5, <2>6, <2>7, <2>8 DEF AccessStep, Serve, authenticate
<1>3. CASE Crash
  <2>1. UNCHANGED <<visit, got, now>> /\ index' = <<>>
    BY <1>3, CrashStep
  <2>2. index' = Restrict(index, DOMAIN index') /\ DOMAIN index' \subseteq DOMAIN index
    <3>1. DOMAIN index' = {}
      BY <2>1
    <3>2. <<>> = [x \in {} |-> index[x]]
      OBVIOUS
    <3>3. QED
      BY <2>1, <3>1, <3>2 DEF Restrict
  <2>3. TheServed' = TheServed
    BY <2>1 DEF TheServed, Key
  <2>4. QED
    BY <2>1, <2>2, <2>3, LoseOnly DEF Map!Next
<1>4. QED
  BY <1>1, <1>2, <1>3 DEF Next

\* The list and the index together behave like a map with expiring entries: what is
\* served from it was learned, at most TTL ago, and served as it was written.
\* (AuthenticateUser, cacheGet and cachePut of ldap/cache.go, with restarts)
THEOREM CacheRefinesMap == Spec => CacheImplementsMap
<1>1. Init => Map!Init
  <2> SUFFICES ASSUME Init PROVE TheMap = <<>> /\ now = 0 /\ TheServed = {}
    BY DEF Map!Init, TheMap, TheServed
  <2>1. index = <<>> /\ now = 0
    BY DEF Init, AccessInit, CacheInit, DirInit
  <2>2. TheMap = <<>>
    BY <2>1 DEF TheMap
  <2>3. \A v \in Visitor : ~got[v].cached
    BY DEF Init, AccessInit, Nothing
  <2>4. QED
    BY <2>1, <2>2, <2>3 DEF TheServed
<1>2. QED
  BY <1>1, StepRefines, AccessConsistent, PTL DEF Spec, CacheImplementsMap, Map!Spec

(***************************************************************************)
(* Sessions.                                                               *)
(***************************************************************************)

Session == [roles : SUBSET DOMAIN RoleGroups, expires : Int]

\* The store has what was logged in and not ended, each with the TTL it got by its
\* last use; a token that was answered is never given out again.
SessionInv ==
  /\ sessions \in [DOMAIN sessions -> Session]
  /\ DOMAIN sessions \subseteq Visitor /\ ended \subseteq Visitor
  /\ lastUse \in [Visitor -> Int] /\ \A t \in Visitor : lastUse[t] <= now
  /\ sweepAt \in Int /\ sweepAt <= now
  /\ \A t \in DOMAIN sessions :
       vstep[t] = "done" /\ t \notin ended /\ sessions[t].expires = lastUse[t] + SessionTTL
  /\ \A t \in ended : vstep[t] = "done"
  /\ \A t \in Visitor : reply[t] = 200 => vstep[t] = "done"
  /\ \A t \in Visitor :
       lastUse[t] # -1 /\ t \notin ended /\ now <= lastUse[t] + SessionTTL => t \in DOMAIN sessions

LEMMA SessionStart == Init => SessionInv
<1> SUFFICES ASSUME Init PROVE SessionInv
  OBVIOUS
<1>1. /\ sessions = <<>> /\ ended = {} /\ lastUse = [v \in Visitor |-> -1] /\ sweepAt = -1
      /\ now = 0 /\ reply = [v \in Visitor |-> 0]
  BY DEF Init, AccessInit, DirInit
<1>2. DOMAIN sessions = {} /\ sessions \in [{} -> Session]
  BY <1>1
<1>3. QED
  BY <1>1, <1>2 DEF SessionInv

\* A request on its way has no session and did not end one.
LEMMA OnItsWay ==
  ASSUME AccessInv, SessionInv, NEW v \in Visitor,
         vstep[v] \in {"idle", "search", "bind", "put", "grant"},
         UNCHANGED <<sessions, sweepAt, lastUse, ended, now>>,
         \A w \in Visitor \ {v} : vstep'[w] = vstep[w] /\ reply'[w] = reply[w],
         vstep'[v] = "done" \/ reply'[v] = reply[v]
  PROVE  SessionInv'
<1>1. reply[v] = 0 /\ v \notin DOMAIN sessions /\ v \notin ended
  BY DEF AccessInv, VisitOK, SessionInv
<1>2. QED
  BY <1>1 DEF SessionInv

LEMMA AuthenticationKeeps ==
  ASSUME AccessInv, SessionInv, NEW v \in Visitor, authenticate(v) \/ DirectoryFails(v), now' = now
  PROVE  SessionInv'
<1>1. vstep[v] \in {"idle", "search", "bind", "put", "grant"} /\ NoSession
  BY DEF authenticate, LookupHit, LookupMiss, SearchUser, BindUser, Store, DirectoryFails, Begins
<1>2. (\E s \in {"search", "bind", "put", "grant"} : VGoto(v, s)) \/ \E c \in {200, 401, 403, 500} : Reply(v, c)
  <2>1. ASSUME NEW groups, Granted(v, groups) PROVE VGoto(v, "grant") \/ Reply(v, 200) \/ Reply(v, 403)
    BY <2>1 DEF Granted
  <2>2. CASE LookupHit(v)
    BY <2>1, <2>2 DEF LookupHit
  <2>3. CASE Store(v)
    BY <2>1, <2>3 DEF Store
  <2>4. CASE LookupMiss(v)
    BY <2>4 DEF LookupMiss
  <2>5. CASE SearchUser(v)
    BY <2>5 DEF SearchUser
  <2>6. CASE BindUser(v) \/ DirectoryFails(v)
    BY <2>6 DEF BindUser, DirectoryFails
  <2>7. QED
    BY <2>2, <2>3, <2>4, <2>5, <2>6 DEF authenticate
<1>3. /\ \A w \in Visitor \ {v} : vstep'[w] = vstep[w] /\ reply'[w] = reply[w]
      /\ vstep'[v] = "done" \/ reply'[v] = reply[v]
  BY <1>2 DEF VGoto, Reply, AccessInv
<1>4. QED
  BY <1>1, <1>3, OnItsWay DEF NoSession

\* A request that is answered.
Finished(v) ==
  /\ vstep'[v] = "done"
  /\ \A w \in Visitor \ {v} : vstep'[w] = vstep[w] /\ reply'[w] = reply[w]

LEMMA Finishes ==
  ASSUME AccessInv, NEW v \in Visitor, NEW c, Reply(v, c)
  PROVE  Finished(v)
<1>1. QED
  BY DEF Finished, Reply, AccessInv

\* Every use of a token is either a prolongation or the removal of an expired session.
LEMMA UseKeeps ==
  ASSUME AccessInv, SessionInv, NEW v \in Visitor, Finished(v), NEW t \in Visitor, vstep[t] = "done",
         SessionGet(t), UNCHANGED <<sweepAt, ended, now>>
  PROVE  SessionInv'
<1>1. now \in Int /\ SessionTTL \in Nat
  BY AccessAssumption DEF AccessInv, DirInv
<1>2. \A w \in Visitor : vstep[w] = "done" => vstep'[w] = "done"
  BY DEF Finished
<1>3. \A w \in Visitor : reply'[w] = 200 => vstep'[w] = "done"
  BY DEF Finished, SessionInv
<1>4. CASE Found(t)
  <2>1. t \in DOMAIN sessions /\ t \notin ended
    BY <1>4 DEF Found, SessionInv
  <2>2. sessions' = [sessions EXCEPT ![t].expires = now + SessionTTL] /\ lastUse' = [lastUse EXCEPT ![t] = now]
    BY <1>4 DEF SessionGet
  <2>3. /\ DOMAIN sessions' = DOMAIN sessions /\ sessions' \in [DOMAIN sessions -> Session]
        /\ sessions'[t].expires = now + SessionTTL
        /\ \A x \in DOMAIN sessions \ {t} : sessions'[x] = sessions[x]
    BY <1>1, <2>1, <2>2 DEF SessionInv, Session
  <2>4. /\ lastUse' \in [Visitor -> Int] /\ lastUse'[t] = now
        /\ \A x \in Visitor \ {t} : lastUse'[x] = lastUse[x]
    BY <1>1, <2>2 DEF SessionInv
  <2>5. QED
    BY <1>1, <1>2, <1>3, <2>1, <2>3, <2>4 DEF SessionInv
<1>5. CASE ~Found(t)
  <2>1. sessions' = Restrict(sessions, DOMAIN sessions \ {t}) /\ lastUse' = lastUse
    BY <1>5 DEF SessionGet
  <2>2. /\ DOMAIN sessions' = DOMAIN sessions \ {t} /\ sessions' \in [DOMAIN sessions' -> Session]
        /\ \A x \in DOMAIN sessions' : sessions'[x] = sessions[x]
    BY <2>1 DEF Restrict, SessionInv
  <2>3. ~(lastUse[t] # -1 /\ t \notin ended /\ now <= lastUse[t] + SessionTTL)
    BY <1>5 DEF Found, SessionInv
  <2>4. QED
    BY <1>1, <1>2, <1>3, <2>1, <2>2, <2>3 DEF SessionInv
<1>6. QED
  BY <1>4, <1>5

LEMMA CookieFacts ==
  ASSUME SessionInv, NEW v \in Visitor, HasCookie(v)
  PROVE  visit[v].token \in Visitor /\ vstep[visit[v].token] = "done"
<1>1. QED
  BY DEF HasCookie, SessionInv

LEMMA LoginKeeps ==
  ASSUME AccessInv, SessionInv, NEW v \in Visitor, Login(v), now' = now
  PROVE  SessionInv'
<1> DEFINE roles == resolveRoles(got[v].groups)
           new == [roles |-> roles, expires |-> now + SessionTTL]
<1>1. now \in Int /\ SessionTTL \in Nat /\ now >= 0
  BY AccessAssumption DEF AccessInv, DirInv
<1>2. v \notin DOMAIN sessions /\ v \notin ended /\ UNCHANGED <<sweepAt, ended>>
  BY DEF Login, SessionInv
<1>3. Finished(v)
  BY Finishes DEF Login
<1>4. /\ \A w \in Visitor : vstep[w] = "done" => vstep'[w] = "done"
      /\ \A w \in Visitor : reply'[w] = 200 => vstep'[w] = "done"
  BY <1>3 DEF Finished, SessionInv
<1>5. CASE UNCHANGED <<sessions, lastUse>>
  BY <1>2, <1>4, <1>5 DEF SessionInv
<1>6. CASE /\ sessions' = [t \in {v} \cup DOMAIN sessions |-> IF t = v THEN new ELSE sessions[t]]
           /\ lastUse' = [lastUse EXCEPT ![v] = now]
  <2>1. roles \in SUBSET DOMAIN RoleGroups
    BY DEF resolveRoles
  <2>2. new \in Session
    BY <1>1, <2>1 DEF Session
  <2> HIDE DEF roles
  <2>3. new.expires = now + SessionTTL
    OBVIOUS
  <2> HIDE DEF new
  <2>4. /\ DOMAIN sessions' = {v} \cup DOMAIN sessions /\ sessions'[v] = new
        /\ \A x \in DOMAIN sessions : sessions'[x] = sessions[x]
        /\ sessions' = [x \in DOMAIN sessions' |-> sessions'[x]]
    BY <1>2, <1>6
  <2>5. sessions' \in [DOMAIN sessions' -> Session]
    BY <2>2, <2>4 DEF SessionInv
  <2>6. /\ lastUse' \in [Visitor -> Int] /\ lastUse'[v] = now
        /\ \A x \in Visitor \ {v} : lastUse'[x] = lastUse[x]
    BY <1>1, <1>6 DEF SessionInv
  <2>7. vstep'[v] = "done"
    BY <1>3 DEF Finished
  <2>8. QED
    BY <1>1, <1>2, <1>4, <2>3, <2>4, <2>5, <2>6, <2>7 DEF SessionInv
<1>7. QED
  BY <1>5, <1>6 DEF Login

LEMMA LogoutKeeps ==
  ASSUME AccessInv, SessionInv, NEW v \in Visitor, Logout(v), now' = now
  PROVE  SessionInv'
<1> DEFINE t == visit[v].token
<1>1. t \in Visitor /\ vstep[t] = "done"
  BY CookieFacts DEF Logout
<1>2. Finished(v)
  BY Finishes DEF Logout
<1>3. /\ \A w \in Visitor : vstep[w] = "done" => vstep'[w] = "done"
      /\ \A w \in Visitor : reply'[w] = 200 => vstep'[w] = "done"
  BY <1>2 DEF Finished, SessionInv
<1>4. /\ sessions' = Restrict(sessions, DOMAIN sessions \ {t}) /\ ended' = ended \cup {t}
      /\ UNCHANGED <<sweepAt, lastUse>>
  BY DEF Logout
<1> HIDE DEF t
<1>5. /\ DOMAIN sessions' = DOMAIN sessions \ {t} /\ sessions' \in [DOMAIN sessions' -> Session]
      /\ \A x \in DOMAIN sessions' : sessions'[x] = sessions[x]
  BY <1>4 DEF Restrict, SessionInv
<1>6. QED
  BY <1>1, <1>3, <1>4, <1>5 DEF SessionInv

\* The sweeper decides with a time that has passed.
LEMMA SweepKeeps ==
  ASSUME AccessInv, SessionInv, SweepStart \/ Sweep, now' = now
  PROVE  SessionInv'
<1>1. now \in Int /\ SessionTTL \in Nat /\ UNCHANGED <<vstep, reply, lastUse, ended>>
  BY AccessAssumption DEF AccessInv, DirInv, SweepStart, Sweep, NoRequest
<1>2. CASE SweepStart
  BY <1>1, <1>2 DEF SweepStart, SessionInv
<1>3. CASE Sweep
  <2> DEFINE kept == {t \in DOMAIN sessions : sweepAt <= sessions[t].expires}
  <2>1. sessions' = Restrict(sessions, kept) /\ sweepAt' = -1
    BY <1>3 DEF Sweep
  <2>2. /\ DOMAIN sessions' = kept /\ sessions' \in [DOMAIN sessions' -> Session]
        /\ \A x \in kept : sessions'[x] = sessions[x]
    BY <2>1 DEF Restrict, SessionInv
  <2>3. \A t \in DOMAIN sessions : now <= lastUse[t] + SessionTTL => t \in kept
    BY <1>1 DEF SessionInv, Session
  <2>4. -1 <= now
    BY DEF AccessInv, DirInv
  <2> HIDE DEF kept
  <2>5. kept \subseteq DOMAIN sessions
    BY DEF kept
  <2>6. QED
    BY <1>1, <2>1, <2>2, <2>3, <2>4, <2>5 DEF SessionInv
<1>4. QED
  BY <1>2, <1>3

\* A restart ends every session at once.
LEMMA RestartKeeps ==
  ASSUME AccessInv, SessionInv, Crash
  PROVE  SessionInv'
<1>1. /\ sessions' = <<>> /\ sweepAt' = -1 /\ ended' = ended \cup DOMAIN sessions
      /\ UNCHANGED <<reply, lastUse, now>>
      /\ \A v \in Visitor : vstep[v] = "done" => vstep'[v] = "done"
  BY DEF Crash, AccessCrash
<1>2. DOMAIN sessions' = {} /\ sessions' \in [DOMAIN sessions' -> Session]
  BY <1>1
<1>3. -1 <= now
  BY DEF AccessInv, DirInv
<1>4. QED
  BY <1>1, <1>2, <1>3 DEF SessionInv

LEMMA SessionNext == AccessInv /\ SessionInv /\ [Next]_vars => SessionInv'
<1> SUFFICES ASSUME AccessInv, SessionInv, [Next]_vars PROVE SessionInv'
  OBVIOUS
<1>1. CASE (\E c \in Client : RegistryStep(c)) \/ SyncStep \/ World \/ UNCHANGED vars
  <2>1. UNCHANGED accessVars
    BY <1>1 DEF RegistryStep, SyncStep, World, vars
  <2>2. now' = now \/ now' = now + 1
    BY <1>1, AsideSteps DEF Aside
  <2>3. now \in Int /\ SessionTTL \in Nat
    BY AccessAssumption DEF AccessInv, DirInv
  <2>4. QED
    BY <2>1, <2>2, <2>3 DEF accessVars, SessionInv
<1>2. CASE SweepStep
  BY <1>2, SweepKeeps DEF SweepStep, dirVars
<1>3. CASE \E v \in Visitor : AccessStep(v)
  <2>1. PICK v \in Visitor : AccessStep(v)
    BY <1>3
  <2>2. now' = now
    BY <2>1 DEF AccessStep, dirVars, DirectoryFails, Fault
  <2>3. CASE authenticate(v) \/ DirectoryFails(v)
    BY <2>2, <2>3, AuthenticationKeeps
  <2>4. CASE Login(v)
    BY <2>2, <2>4, LoginKeeps
  <2>5. CASE LoginForm(v) \/ Page(v)
    <3>1. /\ visit[v].token \in Visitor /\ vstep[visit[v].token] = "done"
          /\ SessionGet(visit[v].token) /\ UNCHANGED <<sweepAt, ended>>
      BY <2>5, CookieFacts DEF LoginForm, Page
    <3>2. Finished(v)
      BY <2>5, Finishes DEF LoginForm, Page
    <3>3. QED
      BY <2>2, <3>1, <3>2, UseKeeps
  <2>6. CASE Logout(v)
    BY <2>2, <2>6, LogoutKeeps
  <2>7. QED
    BY <2>1, <2>3, <2>4, <2>5, <2>6 DEF AccessStep, Serve
<1>4. CASE Crash
  BY <1>4, RestartKeeps
<1>5. QED
  BY <1>1, <1>2, <1>3, <1>4 DEF Next

\* What the store has is what was logged in, not ended, and expires one TTL after its
\* last use. (uiSessionStore of api/ui_session.go)
THEOREM SessionsConsistent == Spec => []SessionInv
<1>1. Init /\ [][Next]_vars /\ []AccessInv => []SessionInv
  BY SessionStart, SessionNext, PTL
<1>2. QED
  BY <1>1, AccessConsistent, PTL DEF Spec

\* A session that was logged out or lost is gone for good, and one that was used within
\* its TTL is there, although the sweeper decides with the time it took before the mutex.
\* (get, delete and sweepExpired of api/ui_session.go)
THEOREM SessionsAreHonest == Spec => []SessionsHonest
<1>1. SessionInv => SessionsHonest
  BY DEF SessionInv, SessionsHonest
<1>2. QED
  BY <1>1, SessionsConsistent, PTL
=============================================================================
