------------------------- MODULE CachedRoute_proofs -------------------------
(***************************************************************************)
(* The cache and the middleware above it, for any number of keys, entries  *)
(* and handlers.                                                           *)
(*                                                                         *)
(* CInv is the cache's own inductive invariant.  What is ahead of a key in *)
(* the list has been used since the key was (Ahead); so when the last of a *)
(* full list gives way, MaxEntries other keys have been used since it was. *)
(* Only CacheAssumption is used of it, whatever the Responses are.         *)
(* MInv says what a handler has recorded half-way, and what an entry owes  *)
(* to the handler that stored it.                                          *)
(***************************************************************************)
EXTENDS CachedRoute, FiniteSetTheorems, WellFoundedInduction, TLAPS

-----------------------------------------------------------------------------
(* The recency list.                                                        *)

\* Removing elements leaves a list of the others.
LEMMA KeepIsList ==
  ASSUME NEW list, IsList(list), NEW S \in SUBSET Keys
  PROVE  /\ IsList(Keep(list, S))
         /\ Elements(Keep(list, S)) = Elements(list) \intersect S
         /\ Keep(list, S) \subseteq list
<1>1. \A j, k \in Keys : <<j, k>> \in Keep(list, S) <=> <<j, k>> \in list /\ j \in S /\ k \in S
  BY DEF Keep
<1>2. Elements(Keep(list, S)) = Elements(list) \intersect S
  BY <1>1 DEF Elements
<1>3. Keep(list, S) \subseteq (Elements(list) \intersect S) \X (Elements(list) \intersect S)
  BY DEF Keep, IsList
<1>4. Elements(list) \subseteq Keys /\ Keep(list, S) \subseteq list
  BY DEF Elements, Keep
<1>5. IsList(Keep(list, S))
  BY <1>1, <1>2, <1>3, <1>4 DEF IsList
<1> QED BY <1>2, <1>4, <1>5

\* MoveToFront and PushFront put a key before all others and leave these in
\* their order.
LEMMA ToFrontIsList ==
  ASSUME NEW list, IsList(list), NEW key \in Keys
  PROVE  /\ IsList(ToFront(list, key))
         /\ Elements(ToFront(list, key)) = Elements(list) \union {key}
         /\ \A j, k \in Keys : <<j, k>> \in ToFront(list, key) =>
              \/ j = key
              \/ k # key /\ <<j, k>> \in list
<1> DEFINE new == ToFront(list, key)
           present == Elements(list) \union {key}
<1>1. Elements(list) \subseteq Keys
  BY DEF Elements
<1>2. \A j, k \in Keys : <<j, k>> \in new <=>
        \/ j # key /\ k # key /\ <<j, k>> \in list
        \/ j = key /\ k \in present
  BY DEF ToFront, Keep
<1>3. new \subseteq present \X present
  <2>1. list \subseteq Elements(list) \X Elements(list)
    BY DEF IsList
  <2> QED BY <2>1 DEF ToFront, Keep
<1> HIDE DEF new
<1>4. Elements(new) = present
  BY <1>2 DEF Elements
<1>5. \A j, k \in present : <<j, k>> \in new \/ <<k, j>> \in new
  BY <1>1, <1>2 DEF IsList
<1>6. \A j, k \in present : <<j, k>> \in new /\ <<k, j>> \in new => j = k
  BY <1>1, <1>2 DEF IsList
<1>7. \A i, j, k \in present : <<i, j>> \in new /\ <<j, k>> \in new => <<i, k>> \in new
  BY <1>1, <1>2 DEF IsList
<1>8. IsList(new)
  BY <1>3, <1>4, <1>5, <1>6, <1>7 DEF IsList
<1> QED BY <1>2, <1>4, <1>8 DEF new

\* Every nonempty set of naturals has a least element.
LEMMA LeastNatural ==
  ASSUME NEW S \in SUBSET Nat, S # {}
  PROVE  \E n \in S : \A m \in S : n <= m
<1> DEFINE R == {ss \in Nat \X Nat : ss[1] < ss[2]}
<1>1. IsWellFoundedOn(R, Nat)
  BY NatLessThanWellFounded DEF OpToRel
<1> HIDE DEF R
<1>2. PICK n \in S : \A m \in S : ~(<<m, n>> \in R)
  BY <1>1, WFMin
<1>3. ASSUME NEW m \in S PROVE n <= m
  <2>1. ~(<<m, n>> \in R) /\ m \in Nat /\ n \in Nat
    BY <1>2
  <2>2. ~(m < n)
    BY <2>1 DEF R
  <2> QED BY <2>1, <2>2
<1> QED BY <1>3

\* A list that is not empty has a last element: the one with the fewest behind
\* it.
LEMMA BackIsLast ==
  ASSUME NEW list, IsList(list), Elements(list) # {}, IsFiniteSet(Elements(list))
  PROVE  /\ Back(list) \in Elements(list)
         /\ \A j \in Elements(list) : <<j, Back(list)>> \in list
<1> DEFINE E == Elements(list)
           behind == [k \in E |-> {j \in E : <<k, j>> \in list}]
           sizes == {Cardinality(behind[k]) : k \in E}
<1>1. \A k \in E : <<k, k>> \in list
  BY DEF Elements
<1>2. \A k \in E : behind[k] \subseteq E
  OBVIOUS
<1>3. \A k \in E : IsFiniteSet(behind[k]) /\ Cardinality(behind[k]) \in Nat
  BY <1>2, FS_Subset, FS_CardinalityType
<1>4. \A j, k \in E : j \in behind[k] <=> <<k, j>> \in list
  OBVIOUS
<1> HIDE DEF behind
<1>5. PICK n \in sizes : \A m \in sizes : n <= m
  <2>1. sizes \in SUBSET Nat /\ sizes # {}
    BY <1>3
  <2> HIDE DEF sizes
  <2> QED BY <2>1, LeastNatural
<1>6. PICK k \in E : \A m \in E : Cardinality(behind[k]) <= Cardinality(behind[m])
  BY <1>5
<1> HIDE DEF sizes
<1>7. ASSUME NEW j \in E, j # k PROVE <<j, k>> \in list
  <2> SUFFICES ASSUME <<j, k>> \notin list PROVE FALSE
    OBVIOUS
  <2>1. <<k, j>> \in list
    BY DEF IsList
  <2>2. behind[j] \subseteq behind[k]
    BY <1>2, <1>4, <2>1 DEF IsList
  <2>3. k \in behind[k] /\ k \notin behind[j]
    BY <1>1, <1>4
  <2>4. Cardinality(behind[j]) <= Cardinality(behind[k])
    BY <1>3, <2>2, FS_Subset
  <2>5. Cardinality(behind[j]) = Cardinality(behind[k])
    BY <1>3, <1>6, <2>4
  <2>6. behind[j] = behind[k]
    BY <1>3, <2>2, <2>5, FS_Subset
  <2> QED BY <2>3, <2>6
<1>8. k \in E /\ \A j \in E : <<j, k>> \in list
  BY <1>1, <1>7
<1> QED BY <1>8 DEF Back

-----------------------------------------------------------------------------
(* Get and Set.                                                             *)

\* What is ahead of a key in the list has been used since the key was, and an
\* entry is what was last stored under its key.
Finite == IsFiniteSet(DOMAIN entries) /\ \A k \in Keys : IsFiniteSet(usedSince[k])

Current == \A k \in DOMAIN entries : entries[k] = stored[k]

Ahead == \A j, k \in Keys : <<j, k>> \in recency /\ j # k => j \in usedSince[k]

CInv == CacheTypeOK /\ Finite /\ Current /\ Ahead /\ RecentlyUsedKept

\* A use of a key empties what was used since, and adds it to the others'.
LEMMA UseCounts ==
  ASSUME CInv, NEW key \in Keys, Use(key)
  PROVE  /\ usedSince' \in [Keys -> SUBSET Keys]
         /\ \A k \in Keys : IsFiniteSet(usedSince'[k])
         /\ \A k \in Keys : k # key => key \in usedSince'[k] /\ usedSince[k] \subseteq usedSince'[k]
         /\ \A k \in Keys : k # key => Cardinality(usedSince[k]) <= Cardinality(usedSince'[k])
         /\ \A k \in Keys : Cardinality(usedSince[k]) \in Nat /\ Cardinality(usedSince'[k]) \in Nat
<1>1. /\ usedSince' = [j \in Keys |-> IF j = key THEN {} ELSE usedSince[j] \union {key}]
      /\ usedSince \in [Keys -> SUBSET Keys] /\ \A k \in Keys : IsFiniteSet(usedSince[k])
  BY DEF Use, CInv, CacheTypeOK, Finite
<1>2. usedSince' \in [Keys -> SUBSET Keys]
  BY <1>1
<1>3. \A k \in Keys : k # key => usedSince'[k] = usedSince[k] \union {key}
  BY <1>1
<1>4. \A k \in Keys : IsFiniteSet(usedSince'[k])
  BY <1>1, FS_EmptySet, FS_AddElement
<1>5. \A k \in Keys : Cardinality(usedSince[k]) \in Nat /\ Cardinality(usedSince'[k]) \in Nat
  BY <1>1, <1>4, FS_CardinalityType
<1>6. \A k \in Keys : k # key => Cardinality(usedSince[k]) <= Cardinality(usedSince'[k])
  BY <1>3, <1>4, FS_Subset
<1> QED BY <1>2, <1>3, <1>4, <1>5, <1>6

\* A miss and the passing of time.
LEMMA GetMissKeeps ==
  ASSUME CInv, NEW key \in Keys, GetMiss(key) \/ CacheTick \/ UNCHANGED cacheVars
  PROVE  CInv'
<1>1. UNCHANGED <<entries, recency, stored, usedSince>>
  BY DEF GetMiss, CacheTick, cacheVars
<1>2. clock' \in 0 .. MaxTime /\ clock <= clock' /\ clock \in Nat
  BY CacheAssumption DEF GetMiss, CacheTick, cacheVars, CInv, CacheTypeOK
<1>3. answer' \in [key : Keys, response : Responses \union {NoResponse}]
  BY DEF GetMiss, CacheTick, cacheVars, CInv, CacheTypeOK
<1>4. CacheTypeOK'
  BY <1>1, <1>2, <1>3 DEF CInv, CacheTypeOK
<1>5. RecentlyUsedKept'
  <2>1. \A k \in Keys : stored[k].expiresAt \in Nat
    BY DEF CInv, CacheTypeOK, Entry
  <2>2. ASSUME NEW k \in Keys, clock' < stored[k].expiresAt PROVE clock < stored[k].expiresAt
    BY <1>2, <2>1, <2>2
  <2> QED BY <1>1, <2>2 DEF CInv, RecentlyUsedKept
<1> QED BY <1>1, <1>4, <1>5 DEF CInv, Finite, Current, Ahead

\* An expired entry is removed from the map and from the list.
LEMMA GetExpiredKeeps ==
  ASSUME CInv, NEW key \in Keys, GetExpired(key)
  PROVE  CInv'
<1>1. /\ key \in DOMAIN entries /\ ~Live(key)
      /\ entries' = [k \in DOMAIN entries \ {key} |-> entries[k]]
      /\ recency' = Keep(recency, Keys \ {key})
      /\ answer' = [key |-> key, response |-> NoResponse]
      /\ UNCHANGED <<clock, stored, usedSince>>
  BY DEF GetExpired, Restrict
<1>2. CacheTypeOK /\ Finite /\ Current /\ Ahead /\ RecentlyUsedKept
  BY DEF CInv
<1>3. /\ IsList(recency') /\ recency' \subseteq recency
      /\ Elements(recency') = DOMAIN entries \ {key}
  <2>1. IsList(recency) /\ Elements(recency) = DOMAIN entries /\ DOMAIN entries \subseteq Keys
    BY <1>2 DEF CacheTypeOK
  <2> QED BY <1>1, <2>1, KeepIsList
<1>4. DOMAIN entries' = DOMAIN entries \ {key} /\ \A k \in DOMAIN entries' : entries'[k] = entries[k]
  BY <1>1
<1>5. IsFiniteSet(DOMAIN entries') /\ Cardinality(DOMAIN entries') <= Cardinality(DOMAIN entries)
  BY <1>2, <1>4, FS_Subset DEF Finite
<1>6. CacheTypeOK'
  <2>1. DOMAIN entries' \subseteq Keys
    BY <1>2, <1>4 DEF CacheTypeOK
  <2>2. entries' \in [DOMAIN entries' -> Entry]
    BY <1>1, <1>2, <1>4 DEF CacheTypeOK
  <2>3. Cardinality(DOMAIN entries') <= MaxEntries
    <3>1. Cardinality(DOMAIN entries) \in Nat /\ Cardinality(DOMAIN entries') \in Nat
      BY <1>2, <1>5, FS_CardinalityType DEF Finite
    <3>2. Cardinality(DOMAIN entries) <= MaxEntries /\ MaxEntries \in Nat
      BY <1>2, CacheAssumption DEF CacheTypeOK
    <3> QED BY <1>5, <3>1, <3>2
  <2>4. answer' \in [key : Keys, response : Responses \union {NoResponse}]
    BY <1>1
  <2>5. UNCHANGED <<clock, stored, usedSince>>
    BY <1>1
  <2>6. Elements(recency') = DOMAIN entries'
    BY <1>3, <1>4
  <2> QED BY <1>2, <1>3, <2>1, <2>2, <2>3, <2>4, <2>5, <2>6 DEF CacheTypeOK
<1>7. Finite'
  BY <1>1, <1>2, <1>5 DEF Finite
<1>8. Current'
  BY <1>1, <1>2, <1>4 DEF Current
<1>9. Ahead'
  BY <1>1, <1>2, <1>3 DEF Ahead
<1>10. RecentlyUsedKept'
  <2>1. ~(clock < stored[key].expiresAt)
    BY <1>1, <1>2 DEF Live, Current
  <2> QED BY <1>1, <1>2, <1>4, <2>1 DEF RecentlyUsedKept
<1> QED BY <1>6, <1>7, <1>8, <1>9, <1>10 DEF CInv

\* A key that is present is used, by a hit or by a Set that replaces its entry.
LEMMA TouchKeeps ==
  ASSUME CInv, NEW key \in DOMAIN entries, NEW entry \in Entry,
         entries' = [entries EXCEPT ![key] = entry],
         stored' = [stored EXCEPT ![key] = entry],
         recency' = ToFront(recency, key), Use(key), clock' = clock,
         answer' \in [key : Keys, response : Responses \union {NoResponse}]
  PROVE  CInv'
<1>1. CacheTypeOK /\ Finite /\ Current /\ Ahead /\ RecentlyUsedKept
  BY DEF CInv
<1>2. /\ IsList(recency) /\ Elements(recency) = DOMAIN entries /\ DOMAIN entries \subseteq Keys
      /\ entries \in [DOMAIN entries -> Entry] /\ stored \in [Keys -> Entry]
  BY <1>1 DEF CacheTypeOK
<1>3. key \in Keys
  BY <1>2
<1>4. /\ IsList(recency') /\ Elements(recency') = DOMAIN entries
      /\ \A j, k \in Keys : <<j, k>> \in recency' => j = key \/ (k # key /\ <<j, k>> \in recency)
  <2>1. /\ IsList(recency') /\ Elements(recency') = Elements(recency) \union {key}
        /\ \A j, k \in Keys : <<j, k>> \in recency' => j = key \/ (k # key /\ <<j, k>> \in recency)
    BY <1>2, <1>3, ToFrontIsList
  <2>2. Elements(recency) \union {key} = DOMAIN entries
    BY <1>2
  <2> QED BY <2>1, <2>2
<1>5. DOMAIN entries' = DOMAIN entries /\ entries' \in [DOMAIN entries -> Entry]
  BY <1>2
<1>6. stored' \in [Keys -> Entry]
  BY <1>2
<1>7. /\ usedSince' \in [Keys -> SUBSET Keys]
      /\ \A k \in Keys : IsFiniteSet(usedSince'[k])
      /\ \A k \in Keys : k # key => key \in usedSince'[k] /\ usedSince[k] \subseteq usedSince'[k]
      /\ \A k \in Keys : k # key => Cardinality(usedSince[k]) <= Cardinality(usedSince'[k])
      /\ \A k \in Keys : Cardinality(usedSince[k]) \in Nat /\ Cardinality(usedSince'[k]) \in Nat
  BY <1>3, UseCounts
<1>8. CacheTypeOK'
  BY <1>1, <1>4, <1>5, <1>6, <1>7 DEF CacheTypeOK
<1>9. Finite'
  BY <1>1, <1>5, <1>7 DEF Finite
<1>10. Current'
  BY <1>1, <1>2, <1>5 DEF Current
<1>11. Ahead'
  BY <1>1, <1>4, <1>7 DEF Ahead
<1>12. RecentlyUsedKept'
  <2> SUFFICES ASSUME NEW k \in Keys, k # key, clock < stored[k].expiresAt,
                      Cardinality(usedSince'[k]) < MaxEntries
               PROVE  k \in DOMAIN entries
    BY <1>2, <1>5 DEF RecentlyUsedKept
  <2>1. Cardinality(usedSince[k]) < MaxEntries
    BY <1>7, CacheAssumption
  <2> QED BY <1>1, <2>1 DEF RecentlyUsedKept
<1> QED BY <1>8, <1>9, <1>10, <1>11, <1>12 DEF CInv

\* A hit stores what is there already.
LEMMA GetHitKeeps ==
  ASSUME CInv, NEW key \in Keys, GetHit(key)
  PROVE  CInv'
<1>1. /\ key \in DOMAIN entries /\ recency' = ToFront(recency, key) /\ Use(key)
      /\ answer' = [key |-> key, response |-> entries[key].response]
      /\ UNCHANGED <<entries, clock, stored>>
  BY DEF GetHit
<1>2. /\ entries \in [DOMAIN entries -> Entry] /\ stored \in [Keys -> Entry]
      /\ stored[key] = entries[key]
  BY <1>1 DEF CInv, CacheTypeOK, Current
<1>3. PICK entry \in Entry : entry = entries[key]
  BY <1>1, <1>2
<1>4. /\ entries' = [entries EXCEPT ![key] = entry]
      /\ stored' = [stored EXCEPT ![key] = entry]
  BY <1>1, <1>2, <1>3
<1>5. answer' \in [key : Keys, response : Responses \union {NoResponse}]
  BY <1>1, <1>3 DEF Entry
<1> QED BY <1>1, <1>4, <1>5, TouchKeeps

\* Set on a new key of a cache that has room for it, or makes room: what
\* removeExpired leaves (S) and what is in the list in the end.
Inserted(key, S, kept) ==
  /\ IsList(kept)
  /\ S \subseteq DOMAIN entries
  /\ key \in Elements(kept)
  /\ Elements(kept) \subseteq S \union {key}
  /\ Cardinality(Elements(kept)) <= MaxEntries
  /\ \A j, k \in Keys : <<j, k>> \in kept => j = key \/ (k # key /\ <<j, k>> \in recency)
  /\ \A k \in DOMAIN entries \ S : ~Live(k)
  /\ \A k \in S \ Elements(kept) :
       /\ Cardinality(S) = MaxEntries
       /\ \A j \in S \ {k} : <<j, k>> \in recency

\* Only the last of a full list of unexpired entries gives way.
LEMMA InsertMakesRoom ==
  ASSUME CInv, NEW key \in Keys, NEW entry, Insert(key, entry)
  PROVE  \E S, kept :
           /\ Inserted(key, S, kept)
           /\ S = Survivors
           /\ recency' = kept
           /\ entries' = [j \in Elements(kept) |-> IF j = key THEN entry ELSE entries[j]]
<1> DEFINE S == Survivors
           base == Keep(recency, S)
           list == ToFront(base, key)
           back == Back(list)
           kept == IF Cardinality(Elements(list)) > MaxEntries
                   THEN Keep(list, Keys \ {back}) ELSE list
<1>1. /\ recency' = kept /\ key \notin DOMAIN entries
      /\ entries' = [j \in Elements(kept) |-> IF j = key THEN entry ELSE entries[j]]
  BY DEF Insert
<1>2. /\ IsList(recency) /\ Elements(recency) = DOMAIN entries /\ DOMAIN entries \subseteq Keys
      /\ IsFiniteSet(DOMAIN entries) /\ Cardinality(DOMAIN entries) <= MaxEntries
  BY DEF CInv, CacheTypeOK, Finite
<1>3. S \subseteq DOMAIN entries /\ \A k \in DOMAIN entries \ S : ~Live(k)
  BY DEF Survivors
<1> HIDE DEF S
<1>4. IsList(base) /\ Elements(base) = S /\ base \subseteq recency
  <2>1. S \in SUBSET Keys /\ Elements(recency) \intersect S = S
    BY <1>2, <1>3
  <2>2. IsList(base) /\ Elements(base) = Elements(recency) \intersect S /\ base \subseteq recency
    BY <1>2, <2>1, KeepIsList
  <2> QED BY <2>1, <2>2
<1> HIDE DEF base
<1>5. /\ IsList(list) /\ Elements(list) = S \union {key}
      /\ \A j, k \in Keys : <<j, k>> \in list => j = key \/ (k # key /\ <<j, k>> \in recency)
  BY <1>4, ToFrontIsList
<1> HIDE DEF list
<1>6. /\ IsFiniteSet(S) /\ Cardinality(S) \in Nat /\ Cardinality(S) <= MaxEntries
      /\ IsFiniteSet(S \union {key}) /\ Cardinality(S \union {key}) = Cardinality(S) + 1
      /\ MaxEntries \in Nat \ {0}
  <2>1. IsFiniteSet(S) /\ Cardinality(S) <= Cardinality(DOMAIN entries)
    BY <1>2, <1>3, FS_Subset
  <2>2. Cardinality(S) \in Nat /\ Cardinality(DOMAIN entries) \in Nat
    BY <1>2, <2>1, FS_CardinalityType
  <2>3. IsFiniteSet(S \union {key}) /\ Cardinality(S \union {key}) = Cardinality(S) + 1
    BY <1>1, <1>3, <2>1, FS_AddElement
  <2> QED BY <1>2, <2>1, <2>2, <2>3, CacheAssumption
<1>7. CASE ~(Cardinality(Elements(list)) > MaxEntries)
  <2>1. kept = list
    BY <1>7
  <2>2. Cardinality(Elements(list)) <= MaxEntries
    BY <1>5, <1>6, <1>7
  <2>3. Inserted(key, S, list)
    BY <1>3, <1>5, <2>2 DEF Inserted
  <2> QED BY <1>1, <2>1, <2>3 DEF S
<1>8. CASE Cardinality(Elements(list)) > MaxEntries
  <2>1. kept = Keep(list, Keys \ {back})
    BY <1>8
  <2>2. Cardinality(S) = MaxEntries
    BY <1>5, <1>6, <1>8
  <2>3. back \in S \union {key} /\ \A j \in S \union {key} : <<j, back>> \in list
    BY <1>5, <1>6, BackIsLast
  <2>4. S # {}
    BY <1>6, <2>2, FS_EmptySet
  <2>5. S \subseteq Keys
    BY <1>2, <1>3
  <2>6. back # key
    BY <1>1, <1>3, <1>5, <2>3, <2>4, <2>5
  <2> HIDE DEF back
  <2>7. /\ IsList(Keep(list, Keys \ {back}))
        /\ Elements(Keep(list, Keys \ {back})) = (S \union {key}) \ {back}
        /\ Keep(list, Keys \ {back}) \subseteq list
    <3>1. Keys \ {back} \in SUBSET Keys
      OBVIOUS
    <3> QED BY <1>5, <2>5, <3>1, KeepIsList
  <2> HIDE DEF kept
  <2>8. Cardinality((S \union {key}) \ {back}) = MaxEntries
    <3>1. Cardinality((S \union {key}) \ {back}) = Cardinality(S \union {key}) - 1
      BY <1>6, <2>3, FS_RemoveElement
    <3> QED BY <1>6, <2>2, <3>1
  <2>9. \A j \in S \ {back} : <<j, back>> \in recency
    BY <1>1, <1>3, <1>5, <2>3, <2>5, <2>6
  <2>10. Inserted(key, S, kept)
    BY <1>3, <1>5, <1>6, <2>1, <2>2, <2>6, <2>7, <2>8, <2>9 DEF Inserted
  <2> QED BY <1>1, <2>10 DEF S
<1> QED BY <1>7, <1>8

\* What gives way to a new key has expired, or MaxEntries other keys have been
\* used since it was.
LEMMA InsertKeeps ==
  ASSUME CInv, NEW key \in Keys, NEW entry \in Entry, Insert(key, entry),
         stored' = [stored EXCEPT ![key] = entry], Use(key), UNCHANGED <<clock, answer>>
  PROVE  CInv'
<1>1. PICK S, kept :
        /\ Inserted(key, S, kept)
        /\ recency' = kept
        /\ entries' = [j \in Elements(kept) |-> IF j = key THEN entry ELSE entries[j]]
  BY InsertMakesRoom
<1> DEFINE K == Elements(kept)
<1>2. /\ IsList(kept) /\ S \subseteq DOMAIN entries
      /\ key \in K /\ K \subseteq S \union {key} /\ Cardinality(K) <= MaxEntries
      /\ \A j, k \in Keys : <<j, k>> \in kept => j = key \/ (k # key /\ <<j, k>> \in recency)
      /\ \A k \in DOMAIN entries \ S : ~Live(k)
      /\ \A k \in S \ K : Cardinality(S) = MaxEntries /\ \A j \in S \ {k} : <<j, k>> \in recency
  BY <1>1 DEF Inserted
<1> HIDE DEF K
<1>3. /\ CacheTypeOK /\ Finite /\ Current /\ Ahead /\ RecentlyUsedKept
      /\ DOMAIN entries \subseteq Keys /\ entries \in [DOMAIN entries -> Entry]
      /\ stored \in [Keys -> Entry] /\ key \notin DOMAIN entries
  BY DEF CInv, CacheTypeOK, Insert
<1>4. /\ DOMAIN entries' = K /\ entries'[key] = entry
      /\ \A k \in K : k # key => k \in DOMAIN entries /\ entries'[k] = entries[k]
      /\ entries' \in [K -> Entry]
  <2>1. entries' = [j \in K |-> IF j = key THEN entry ELSE entries[j]]
    BY <1>1 DEF K
  <2> QED BY <1>2, <1>3, <2>1
<1>5. IsFiniteSet(S) /\ IsFiniteSet(K)
  <2>1. IsFiniteSet(S)
    BY <1>2, <1>3, FS_Subset DEF Finite
  <2>2. IsFiniteSet(S \union {key})
    BY <2>1, FS_AddElement
  <2> QED BY <1>2, <2>1, <2>2, FS_Subset
<1>6. /\ usedSince' \in [Keys -> SUBSET Keys]
      /\ \A k \in Keys : IsFiniteSet(usedSince'[k])
      /\ \A k \in Keys : k # key => key \in usedSince'[k] /\ usedSince[k] \subseteq usedSince'[k]
      /\ \A k \in Keys : k # key => Cardinality(usedSince[k]) <= Cardinality(usedSince'[k])
      /\ \A k \in Keys : Cardinality(usedSince[k]) \in Nat /\ Cardinality(usedSince'[k]) \in Nat
  BY UseCounts
<1>7. CacheTypeOK'
  <2>1. K \subseteq Keys /\ Elements(recency') = K /\ IsList(recency')
    BY <1>1, <1>2, <1>3 DEF K
  <2>2. stored' \in [Keys -> Entry]
    BY <1>3
  <2> QED BY <1>2, <1>3, <1>4, <1>6, <2>1, <2>2 DEF CacheTypeOK
<1>8. Finite'
  BY <1>4, <1>5, <1>6 DEF Finite
<1>9. Current'
  <2>1. stored'[key] = entry /\ \A k \in Keys : k # key => stored'[k] = stored[k]
    BY <1>3
  <2> QED BY <1>3, <1>4, <2>1 DEF Current
<1>10. Ahead'
  BY <1>1, <1>2, <1>3, <1>6 DEF Ahead
<1>11. RecentlyUsedKept'
  <2> SUFFICES ASSUME NEW k \in Keys, k # key, clock < stored[k].expiresAt,
                      Cardinality(usedSince'[k]) < MaxEntries, k \notin K
               PROVE  FALSE
    BY <1>2, <1>3, <1>4 DEF RecentlyUsedKept
  <2>1. k \in DOMAIN entries
    <3>1. Cardinality(usedSince[k]) < MaxEntries
      BY <1>6, CacheAssumption
    <3> QED BY <1>3, <3>1 DEF RecentlyUsedKept
  <2>2. Live(k)
    BY <1>3, <2>1 DEF Live, Current
  <2>3. k \in S \ K
    BY <1>2, <2>1, <2>2
  <2>4. (S \union {key}) \ {k} \subseteq usedSince'[k]
    BY <1>2, <1>3, <1>6, <2>3 DEF Ahead
  <2>5. Cardinality((S \union {key}) \ {k}) = MaxEntries
    <3>1. IsFiniteSet(S \union {key}) /\ Cardinality(S \union {key}) = Cardinality(S) + 1
      BY <1>2, <1>3, <1>5, FS_AddElement
    <3>2. Cardinality((S \union {key}) \ {k}) = Cardinality(S \union {key}) - 1
      BY <2>3, <3>1, FS_RemoveElement
    <3>3. Cardinality(S) = MaxEntries
      BY <1>2, <2>3
    <3> QED BY <3>1, <3>2, <3>3, CacheAssumption
  <2>6. Cardinality((S \union {key}) \ {k}) <= Cardinality(usedSince'[k])
    BY <1>6, <2>4, FS_Subset
  <2> QED BY <1>6, <2>5, <2>6, CacheAssumption
<1> QED BY <1>7, <1>8, <1>9, <1>10, <1>11 DEF CInv

\* Set on a key that is present, and on a new one.
LEMMA SetKeeps ==
  ASSUME CInv, NEW key \in Keys, NEW response \in Responses, Set(key, response)
  PROVE  CInv'
<1>1. PICK entry : entry = [response |-> response, expiresAt |-> clock + TTL]
  OBVIOUS
<1>2. /\ Replace(key, entry) \/ Insert(key, entry)
      /\ stored' = [stored EXCEPT ![key] = entry]
      /\ Use(key) /\ UNCHANGED <<clock, answer>>
  BY <1>1 DEF Set
<1>3. entry \in Entry
  <2>1. clock + TTL \in Nat
    BY CacheAssumption DEF CInv, CacheTypeOK
  <2> QED BY <1>1, <2>1 DEF Entry
<1>4. CASE Replace(key, entry)
  <2>1. /\ key \in DOMAIN entries /\ entries' = [entries EXCEPT ![key] = entry]
        /\ recency' = ToFront(recency, key)
        /\ answer' \in [key : Keys, response : Responses \union {NoResponse}]
    BY <1>2, <1>4 DEF Replace, CInv, CacheTypeOK
  <2> QED BY <1>2, <1>3, <2>1, TouchKeeps
<1>5. CASE Insert(key, entry)
  BY <1>2, <1>3, <1>5, InsertKeeps
<1> QED BY <1>2, <1>4, <1>5

\* A new cache satisfies CInv.
LEMMA CInvInit ==
  ASSUME CacheInit
  PROVE  CInv
<1>1. DOMAIN entries = {} /\ recency = {} /\ Elements(recency) = {}
  BY DEF CacheInit, Elements
<1>2. IsFiniteSet({}) /\ Cardinality({}) = 0
  BY FS_EmptySet
<1>3. entries \in [DOMAIN entries -> Entry] /\ IsList(recency)
  BY <1>1 DEF IsList
<1>4. Never \in Entry
  BY DEF Never, Entry
<1>5. Cardinality(DOMAIN entries) <= MaxEntries
  BY <1>1, <1>2, CacheAssumption
<1>6. answer \in [key : Keys, response : Responses \union {NoResponse}]
  BY DEF CacheInit
<1>7. CacheTypeOK
  BY <1>1, <1>3, <1>4, <1>5, <1>6, CacheAssumption DEF CacheInit, CacheTypeOK
<1>8. Finite /\ Current /\ Ahead
  BY <1>1, <1>2 DEF CacheInit, Finite, Current, Ahead
<1>9. RecentlyUsedKept
  BY DEF CacheInit, RecentlyUsedKept, Never
<1> QED BY <1>7, <1>8, <1>9 DEF CInv

\* So does a cache after any step.
LEMMA CInvStep ==
  ASSUME CInv, [CacheNext]_cacheVars
  PROVE  CInv'
<1>1. ASSUME NEW k \in Keys, Get(k) PROVE CInv'
  BY <1>1, GetMissKeeps, GetExpiredKeeps, GetHitKeeps DEF Get
<1>2. ASSUME NEW k \in Keys, NEW response \in Responses, Set(k, response) PROVE CInv'
  BY <1>2, SetKeeps
<1>3. CASE CacheTick \/ UNCHANGED cacheVars
  <2>1. PICK k \in Keys : TRUE
    BY DEF CInv, CacheTypeOK
  <2> QED BY <1>3, <2>1, GetMissKeeps
<1> QED BY <1>1, <1>2, <1>3 DEF CacheNext

\* CInv holds of every cache, whoever uses it.
LEMMA CInvInvariant == CacheSpec => []CInv
<1>1. CacheInit => CInv
  BY CInvInit
<1>2. CInv /\ [CacheNext]_cacheVars => CInv'
  BY CInvStep
<1> QED BY <1>1, <1>2, PTL DEF CacheSpec

\* For any number of keys and entries: the map and the list of a cache agree,
\* and it never holds more than MaxEntries (Get, Set, removeExpired).
THEOREM CacheTypeCorrect == CacheSpec => []CacheTypeOK
<1>1. CInv => CacheTypeOK
  BY DEF CInv
<1> QED BY <1>1, CInvInvariant, PTL

\* For any number of keys and entries: an unexpired response stays while fewer
\* than MaxEntries other keys have been used since it was.
THEOREM RecentlyUsedAlwaysKept == CacheSpec => []RecentlyUsedKept
<1>1. CInv => RecentlyUsedKept
  BY DEF CInv
<1> QED BY <1>1, CInvInvariant, PTL

\* For any number of keys and entries: an unexpired response is pushed out only
\* by a cache full of unexpired ones (removeExpired before the eviction in Set).
THEOREM ExpiredAlwaysGoFirst == CacheSpec => ExpiredGoFirst
<1> DEFINE GoFirst ==
      \A k \in DOMAIN entries : Live(k) /\ k \notin DOMAIN entries' =>
        /\ Cardinality(DOMAIN entries) = MaxEntries
        /\ \A j \in DOMAIN entries : Live(j)
<1>1. CInv /\ [CacheNext]_cacheVars => [GoFirst]_cacheVars
  <2> SUFFICES ASSUME CInv, CacheNext, NEW k \in DOMAIN entries, Live(k), k \notin DOMAIN entries'
               PROVE  /\ Cardinality(DOMAIN entries) = MaxEntries
                      /\ \A j \in DOMAIN entries : Live(j)
    OBVIOUS
  <2>1. ASSUME NEW key \in Keys, Get(key) PROVE k \in DOMAIN entries'
    BY <2>1 DEF Get, GetMiss, GetExpired, GetHit, Restrict
  <2>2. CASE CacheTick
    BY <2>2 DEF CacheTick
  <2>3. ASSUME NEW key \in Keys, NEW response \in Responses, Set(key, response)
        PROVE  /\ Cardinality(DOMAIN entries) = MaxEntries
               /\ \A j \in DOMAIN entries : Live(j)
    <3>1. PICK entry : Replace(key, entry) \/ Insert(key, entry)
      BY <2>3 DEF Set
    <3>2. ~Replace(key, entry)
      BY DEF Replace
    <3>3. Insert(key, entry)
      BY <3>1, <3>2
    <3>4. PICK S, kept :
            /\ Inserted(key, S, kept) /\ S = Survivors
            /\ entries' = [j \in Elements(kept) |-> IF j = key THEN entry ELSE entries[j]]
      BY <3>3, InsertMakesRoom
    <3>5. k \in S \ Elements(kept) /\ S \subseteq DOMAIN entries
      BY <3>4 DEF Inserted
    <3>6. Cardinality(S) = MaxEntries
      BY <3>4, <3>5 DEF Inserted
    <3>7. IsFiniteSet(DOMAIN entries) /\ Cardinality(DOMAIN entries) <= MaxEntries
      BY DEF CInv, Finite, CacheTypeOK
    <3>8. Cardinality(S) <= Cardinality(DOMAIN entries) /\ Cardinality(DOMAIN entries) \in Nat
      BY <3>5, <3>7, FS_Subset, FS_CardinalityType
    <3>9. Cardinality(DOMAIN entries) = MaxEntries
      BY <3>6, <3>7, <3>8, CacheAssumption
    <3>10. S = DOMAIN entries
      BY <3>5, <3>6, <3>7, <3>9, FS_Subset
    <3>11. S = {j \in DOMAIN entries : Live(j)}
      BY <3>4, <3>9, CacheAssumption DEF Survivors
    <3> QED BY <3>9, <3>10, <3>11
  <2> QED BY <2>1, <2>2, <2>3 DEF CacheNext
<1>2. ExpiredGoFirst <=> [][GoFirst]_cacheVars
  BY DEF ExpiredGoFirst
<1> HIDE DEF GoFirst
<1> QED BY <1>1, <1>2, CInvInvariant, PTL DEF CacheSpec

-----------------------------------------------------------------------------
(* The middleware.                                                          *)

\* What a handler has recorded: only shareable responses, and all that was
\* sent so far unless a write failed.  No handler is under way for longer than
\* MaxFlight.
Recording(c) ==
  /\ ~c.request.personal
  /\ c.requestedAt <= clock /\ clock <= c.requestedAt + MaxFlight
  /\ c.at = "upstream" => ~c.recording /\ c.length = 0 /\ c.sent = 0
  /\ c.recording => c.shareable /\ (~c.writeFailed => c.length = c.sent)
  /\ c.at = "returned" => c.ended

\* An entry expires at most TTL and one flight after it was requested.
Fresh(entry) ==
  /\ entry.response \in Responses
  /\ entry.response.whole /\ entry.response.shareable
  /\ entry.expiresAt <= entry.response.requestedAt + MaxFlight + TTL

MInv ==
  /\ call \in [Handlers -> Call \union {Idle}]
  /\ \A h \in Handlers : call[h] # Idle => Recording(call[h])
  /\ \A k \in DOMAIN entries : Fresh(entries[k])

\* An idle handler has no record of a call.
LEMMA IdleIsNoCall == Idle \notin Call /\ Idle.at = "idle"
BY DEF Idle, Call

\* The step of one handler; entries may go but none changes.
LEMMA CallStep ==
  ASSUME MInv, NEW h \in Handlers, NEW c \in Call \union {Idle}, c # Idle => Recording(c),
         call' = [call EXCEPT ![h] = c], clock' = clock,
         \A k \in DOMAIN entries' : k \in DOMAIN entries /\ entries'[k] = entries[k]
  PROVE  MInv'
<1>1. call \in [Handlers -> Call \union {Idle}]
  BY DEF MInv
<1>2. call' \in [Handlers -> Call \union {Idle}]
  BY <1>1
<1>3. call'[h] = c /\ \A g \in Handlers : g # h => call'[g] = call[g]
  BY <1>1
<1>4. ASSUME NEW g \in Handlers, call'[g] # Idle PROVE Recording(call[g])'
  <2>1. CASE g = h
    BY <1>3, <1>4, <2>1 DEF Recording
  <2>2. CASE g # h
    BY <1>3, <1>4, <2>2 DEF MInv, Recording
  <2> QED BY <2>1, <2>2
<1>5. \A k \in DOMAIN entries' : Fresh(entries'[k])
  BY DEF MInv
<1> QED BY <1>2, <1>4, <1>5 DEF MInv

\* A call under way, and its record.
LEMMA UnderWay ==
  ASSUME MInv, NEW h \in Handlers, call[h].at # "idle"
  PROVE  call[h] \in Call /\ Recording(call[h])
BY IdleIsNoCall DEF MInv

\* A miss starts a call that has recorded nothing.
LEMMA MissKeeps ==
  ASSUME CInv, MInv, NEW h \in Handlers, NEW request \in Request, Miss(h, request)
  PROVE  MInv'
<1>1. PICK c :
        c = [at |-> "upstream", request |-> request, requestedAt |-> clock,
             recording |-> FALSE, writeFailed |-> FALSE, length |-> 0,
             sent |-> 0, ended |-> FALSE, shareable |-> FALSE, trailers |-> FALSE]
  OBVIOUS
<1>2. call' = [call EXCEPT ![h] = c] /\ ~request.personal /\ clock' = clock
  BY <1>1 DEF Miss, isCacheableRequest, GetMiss, GetExpired
<1>3. clock \in 0 .. MaxTime /\ MaxTime \in Nat
  BY CacheAssumption DEF CInv, CacheTypeOK
<1>4. c \in Call
  <2>1. 0 \in 0 .. MaxBytes /\ 0 \in 0 .. MaxBody
    BY CachedRouteAssumption
  <2> QED BY <1>1, <1>3, <2>1 DEF Call
<1>5. Recording(c)
  BY <1>1, <1>2, <1>3, CachedRouteAssumption DEF Recording
<1>6. \A k \in DOMAIN entries' : k \in DOMAIN entries /\ entries'[k] = entries[k]
  BY DEF Miss, GetMiss, GetExpired, Restrict
<1> QED BY <1>2, <1>4, <1>5, <1>6, CallStep

\* WriteHeader starts to record only what may be shared.
LEMMA WriteHeaderKeeps ==
  ASSUME CInv, MInv, NEW h \in Handlers, NEW status \in {200, 502}, NEW header \in {"plain", "barred"},
         WriteHeader(h, status, header)
  PROVE  MInv'
<1>1. call[h] \in Call /\ Recording(call[h]) /\ call[h].at = "upstream"
  BY UnderWay DEF WriteHeader
<1>2. PICK old \in Call : old = call[h]
  BY <1>1
<1>3. PICK b \in BOOLEAN :
        /\ b = (status = 200 /\ ~responseHeadersPreventCaching(header))
        /\ b = (status = 200 /\ header = "plain" /\ ~call[h].request.personal)
  <2>1. ~call[h].request.personal
    BY <1>1 DEF Recording
  <2> QED BY <2>1 DEF responseHeadersPreventCaching
<1>4. PICK c \in Call : c = [old EXCEPT !.at = "body", !.recording = b, !.shareable = b]
  BY DEF Call
<1>5. call' = [call EXCEPT ![h] = c]
  BY <1>2, <1>3, <1>4, Zenon DEF WriteHeader
<1>6. Recording(c)
  BY <1>1, <1>2, <1>4 DEF Call, Recording
<1>7. UNCHANGED <<entries, clock>>
  BY DEF WriteHeader, cacheVars
<1> QED BY <1>5, <1>6, <1>7, CallStep

\* Write keeps the recorded copy as long as what was sent, or gives it up.
LEMMA WriteKeeps ==
  ASSUME CInv, MInv, NEW h \in Handlers, NEW written \in {0, 1}, Write(h, written)
  PROVE  MInv'
<1>1. /\ call[h] \in Call /\ Recording(call[h]) /\ call[h].at = "body"
      /\ ~call[h].writeFailed /\ call[h].sent < MaxBody
  BY UnderWay DEF Write
<1>2. PICK old \in Call : old = call[h]
  BY <1>1
<1> DEFINE fits == old.length + written <= MaxBytes
<1>3. PICK c : c = [old EXCEPT !.sent = @ + 1, !.writeFailed = (written = 0),
                               !.recording = (@ /\ fits),
                               !.length = IF ~old.recording THEN @
                                          ELSE IF fits THEN @ + written ELSE 0]
  OBVIOUS
<1>4. call' = [call EXCEPT ![h] = c]
  BY <1>2, <1>3 DEF Write
<1>5. /\ old.length \in 0 .. MaxBytes /\ old.sent \in 0 .. MaxBody /\ old.recording \in BOOLEAN
      /\ MaxBytes \in Nat /\ MaxBody \in Nat
  BY <1>2, CachedRouteAssumption DEF Call
<1>6. /\ old.sent + 1 \in 0 .. MaxBody
      /\ fits => old.length + written \in 0 .. MaxBytes
      /\ 0 \in 0 .. MaxBytes
  BY <1>1, <1>2, <1>5
<1>7. c \in Call
  BY <1>3, <1>5, <1>6 DEF Call
<1>8. /\ c.request = old.request /\ c.requestedAt = old.requestedAt /\ c.at = "body"
      /\ c.shareable = old.shareable
      /\ c.recording => old.recording /\ c.length = old.length + written
      /\ ~c.writeFailed => written = 1
      /\ c.sent = old.sent + 1
  BY <1>1, <1>2, <1>3 DEF Call
<1>9. Recording(c)
  BY <1>1, <1>2, <1>5, <1>8 DEF Recording
<1>10. UNCHANGED <<entries, clock>>
  BY DEF Write, cacheVars
<1> QED BY <1>4, <1>7, <1>9, <1>10, CallStep

\* The inner handler returns, or panics.
LEMMA EndsKeeps ==
  ASSUME CInv, MInv, NEW h \in Handlers,
         Aborts(h) \/ \E trailers \in BOOLEAN : Returns(h, trailers)
  PROVE  MInv'
<1>1. call[h] \in Call /\ Recording(call[h]) /\ call[h].at = "body"
  BY UnderWay DEF Aborts, Returns
<1>2. UNCHANGED <<entries, clock>>
  BY DEF Aborts, Returns, cacheVars
<1>3. CASE Aborts(h)
  <2>1. call' = [call EXCEPT ![h] = Idle]
    BY <1>3 DEF Aborts
  <2> QED BY <1>2, <2>1, CallStep
<1>4. ASSUME NEW trailers \in BOOLEAN, Returns(h, trailers) PROVE MInv'
  <2>1. PICK old \in Call : old = call[h]
    BY <1>1
  <2>2. PICK c : c = [old EXCEPT !.at = "returned", !.ended = TRUE, !.trailers = trailers]
    OBVIOUS
  <2>3. call' = [call EXCEPT ![h] = c]
    BY <1>4, <2>1, <2>2 DEF Returns
  <2>4. c \in Call
    BY <2>2 DEF Call
  <2>5. Recording(c)
    BY <1>1, <2>1, <2>2 DEF Recording, Call
  <2> QED BY <1>2, <2>3, <2>4, <2>5, CallStep
<1> QED BY <1>3, <1>4

\* What Set leaves in the map: the new entry under its key, and old ones.
LEMMA SetEntries ==
  ASSUME CInv, NEW key \in Keys, NEW entry, Replace(key, entry) \/ Insert(key, entry)
  PROVE  \A k \in DOMAIN entries' :
           \/ k = key /\ entries'[k] = entry
           \/ k \in DOMAIN entries /\ entries'[k] = entries[k]
<1>1. CASE Replace(key, entry)
  <2>1. entries \in [DOMAIN entries -> Entry]
    BY DEF CInv, CacheTypeOK
  <2>2. entries' = [entries EXCEPT ![key] = entry] /\ key \in DOMAIN entries
    BY <1>1 DEF Replace
  <2> QED BY <2>1, <2>2
<1>2. CASE Insert(key, entry)
  <2>1. PICK S, kept :
          /\ Inserted(key, S, kept)
          /\ entries' = [j \in Elements(kept) |-> IF j = key THEN entry ELSE entries[j]]
    BY <1>2, InsertMakesRoom
  <2>2. \A k \in Elements(kept) : k = key \/ k \in DOMAIN entries
    BY <2>1 DEF Inserted
  <2> QED BY <2>1, <2>2
<1> QED BY <1>1, <1>2

\* What Store puts into the cache.
LEMMA StoreSets ==
  ASSUME CInv, MInv, NEW h \in Handlers, Store(h), call[h].recording /\ ~call[h].writeFailed
  PROVE  \E key \in Keys, response \in Responses :
           /\ Set(key, response)
           /\ response.whole /\ response.shareable
           /\ clock <= response.requestedAt + MaxFlight
<1>1. call[h] \in Call /\ Recording(call[h]) /\ call[h].at = "returned"
  BY UnderWay DEF Store
<1>2. PICK old \in Call : old = call[h]
  BY <1>1
<1>3. PICK response :
        response = [requestedAt |-> old.requestedAt, length |-> old.length,
                    whole |-> old.ended /\ old.length = old.sent,
                    shareable |-> old.shareable, trailers |-> old.trailers]
  OBVIOUS
<1>4. Set(old.request.key, response)
  BY <1>2, <1>3 DEF Store
<1>5. old.request.key \in Keys
  BY DEF Call, Request
<1>6. old.ended /\ old.length = old.sent /\ old.shareable /\ clock <= old.requestedAt + MaxFlight
  BY <1>1, <1>2 DEF Recording
<1>7. response \in Responses
  <2>1. /\ old.requestedAt \in 0 .. MaxTime /\ old.length \in 0 .. MaxBytes
        /\ old.shareable \in BOOLEAN /\ old.trailers \in BOOLEAN
    BY DEF Call
  <2>2. (old.ended /\ old.length = old.sent) \in BOOLEAN
    OBVIOUS
  <2> QED BY <1>3, <2>1, <2>2, CachedRouteAssumption DEF Response
<1>8. response.whole /\ response.shareable /\ response.requestedAt = old.requestedAt
  BY <1>3, <1>6
<1> QED BY <1>4, <1>5, <1>6, <1>7, <1>8

\* Storing the captured copy, or not.
LEMMA StoreKeeps ==
  ASSUME CInv, MInv, NEW h \in Handlers, Store(h)
  PROVE  MInv'
<1>1. call' = [call EXCEPT ![h] = Idle]
  BY DEF Store
<1>2. CASE ~(call[h].recording /\ ~call[h].writeFailed)
  <2>1. UNCHANGED <<entries, clock>>
    BY <1>2 DEF Store, cacheVars
  <2> QED BY <1>1, <2>1, CallStep
<1>3. CASE call[h].recording /\ ~call[h].writeFailed
  <2>1. PICK key \in Keys, response \in Responses :
          /\ Set(key, response)
          /\ response.whole /\ response.shareable
          /\ clock <= response.requestedAt + MaxFlight
    BY <1>3, StoreSets
  <2>2. PICK entry : entry = [response |-> response, expiresAt |-> clock + TTL]
    OBVIOUS
  <2>3. Replace(key, entry) \/ Insert(key, entry)
    BY <2>1, <2>2 DEF Set
  <2>4. clock' = clock
    BY <2>1 DEF Set
  <2>5. Fresh(entry)
    <3>1. response.requestedAt \in Nat /\ clock \in Nat /\ TTL \in Nat /\ MaxFlight \in Nat
      BY CacheAssumption, CachedRouteAssumption DEF Response, CInv, CacheTypeOK
    <3>2. clock + TTL <= response.requestedAt + MaxFlight + TTL
      BY <2>1, <3>1
    <3> QED BY <2>1, <2>2, <3>2 DEF Fresh
  <2>6. \A k \in DOMAIN entries' : Fresh(entries'[k])
    BY <2>3, <2>5, SetEntries DEF MInv
  <2>7. call \in [Handlers -> Call \union {Idle}]
    BY DEF MInv
  <2>8. call' \in [Handlers -> Call \union {Idle}]
    BY <1>1, <2>7
  <2>9. ASSUME NEW g \in Handlers, call'[g] # Idle PROVE Recording(call[g])'
    <3>1. call'[g] = call[g]
      BY <1>1, <2>7, <2>9
    <3> QED BY <2>4, <2>9, <3>1 DEF MInv, Recording
  <2> QED BY <2>6, <2>8, <2>9 DEF MInv
<1> QED BY <1>2, <1>3

\* Time passes only while no handler has used up its time.
LEMMA TickKeeps ==
  ASSUME CInv, MInv, Tick
  PROVE  MInv'
<1>1. /\ clock' = clock + 1 /\ clock \in Nat /\ UNCHANGED <<entries, call>>
      /\ \A h \in Handlers : call[h] # Idle => clock - call[h].requestedAt < MaxFlight
  BY CacheAssumption DEF Tick, CacheTick, CInv, CacheTypeOK
<1>2. ASSUME NEW h \in Handlers, call[h] # Idle PROVE Recording(call[h])'
  <2>1. call[h] \in Call /\ Recording(call[h])
    BY <1>2 DEF MInv
  <2>2. call[h].requestedAt \in Nat /\ MaxFlight \in Nat
    BY <2>1, CacheAssumption, CachedRouteAssumption DEF Call
  <2>3. call[h].requestedAt <= clock' /\ clock' <= call[h].requestedAt + MaxFlight
    BY <1>1, <1>2, <2>1, <2>2 DEF Recording
  <2> QED BY <1>1, <2>1, <2>3 DEF Recording
<1> QED BY <1>1, <1>2 DEF MInv

\* Every step of the middleware is a Get, a Set or nothing to the cache.
LEMMA UsesCache ==
  ASSUME CInv, MInv, [Next]_vars
  PROVE  [CacheNext]_cacheVars
<1>1. ASSUME NEW h \in Handlers, NEW request \in Request,
             Bypass(h, request) \/ Hit(h, request) \/ Miss(h, request)
      PROVE  [CacheNext]_cacheVars
  <2>1. request.key \in Keys
    BY DEF Request
  <2> QED BY <1>1, <2>1 DEF Bypass, Hit, Miss, vars, CacheNext, Get
<1>2. ASSUME NEW h \in Handlers, Store(h) PROVE [CacheNext]_cacheVars
  <2>1. CASE call[h].recording /\ ~call[h].writeFailed
    BY <1>2, <2>1, StoreSets DEF CacheNext
  <2>2. CASE ~(call[h].recording /\ ~call[h].writeFailed)
    BY <1>2, <2>2 DEF Store
  <2> QED BY <2>1, <2>2
<1>3. CASE Tick
  BY <1>3 DEF Tick, CacheNext
<1>4. ASSUME NEW h \in Handlers,
             \/ \E status \in {200, 502}, header \in {"plain", "barred"} :
                  WriteHeader(h, status, header)
             \/ \E written \in {0, 1} : Write(h, written)
             \/ \E trailers \in BOOLEAN : Returns(h, trailers)
             \/ Aborts(h)
      PROVE  [CacheNext]_cacheVars
  BY <1>4 DEF WriteHeader, Write, Returns, Aborts
<1>5. CASE UNCHANGED vars
  BY <1>5 DEF vars
<1> QED BY <1>1, <1>2, <1>3, <1>4, <1>5 DEF Next

\* CInv and MInv hold in every state of every behaviour.
LEMMA MInvInvariant == Spec => [](CInv /\ MInv)
<1>1. Init => CInv /\ MInv
  <2> SUFFICES ASSUME Init PROVE CInv /\ MInv
    OBVIOUS
  <2>1. CInv
    BY CInvInit DEF Init
  <2>2. DOMAIN entries = {} /\ call = [h \in Handlers |-> Idle]
    BY DEF Init, CacheInit
  <2>3. MInv
    BY <2>2 DEF MInv
  <2> QED BY <2>1, <2>3
<1>2. CInv /\ MInv /\ [Next]_vars => CInv' /\ MInv'
  <2> SUFFICES ASSUME CInv, MInv, [Next]_vars PROVE CInv' /\ MInv'
    OBVIOUS
  <2>1. CInv'
    BY CInvStep, UsesCache
  <2>2. ASSUME NEW h \in Handlers, NEW request \in Request,
               Bypass(h, request) \/ Hit(h, request)
        PROVE  MInv'
    <3>1. UNCHANGED <<entries, clock, call>>
      BY <2>2 DEF Bypass, Hit, GetHit, vars, cacheVars
    <3> QED BY <3>1 DEF MInv, Recording
  <2>3. ASSUME UNCHANGED vars PROVE MInv'
    BY <2>3 DEF vars, cacheVars, MInv, Recording
  <2>4. MInv'
    BY <2>2, <2>3, MissKeeps, WriteHeaderKeeps, WriteKeeps, EndsKeeps, StoreKeeps, TickKeeps
       DEF Next
  <2> QED BY <2>1, <2>4
<1> QED BY <1>1, <1>2, PTL DEF Spec

\* Every variable keeps its type; a recorded body never exceeds MaxBytes.
THEOREM TypeCorrect == Spec => []TypeOK
<1>1. CInv /\ MInv => TypeOK
  BY DEF CInv, MInv, TypeOK
<1> QED BY <1>1, MInvInvariant, PTL

\* The middleware uses the store as Cache allows, so that what is proved of
\* every cache holds of this one.
THEOREM RouteUsesCache == Spec => CacheSpec
<1>1. Init => CacheInit
  BY DEF Init
<1>2. CInv /\ MInv /\ [Next]_vars => [CacheNext]_cacheVars
  BY UsesCache
<1> QED BY <1>1, <1>2, MInvInvariant, PTL DEF Spec, CacheSpec

\* For any number of handlers, in whatever order they end: only complete and
\* shareable responses are in the store (cacheResponseWriter, response).
THEOREM AlwaysStoredShareable == Spec => []StoredShareable
<1>1. MInv => StoredShareable
  BY DEF MInv, Fresh, StoredShareable
<1> QED BY <1>1, MInvInvariant, PTL

\* For any number of handlers: a hit is younger than TTL and one flight.
THEOREM AgeAlwaysBounded == Spec => []BoundedAge
<1>1. CInv /\ MInv => BoundedAge
  <2> SUFFICES ASSUME CInv, MInv, NEW k \in DOMAIN entries, Live(k)
               PROVE  clock - entries[k].response.requestedAt < TTL + MaxFlight
    BY DEF BoundedAge
  <2>1. /\ clock \in Nat /\ clock < entries[k].expiresAt /\ entries[k].expiresAt \in Nat
    BY CacheAssumption DEF CInv, CacheTypeOK, Entry, Live
  <2>2. /\ entries[k].response \in Responses
        /\ entries[k].expiresAt <= entries[k].response.requestedAt + MaxFlight + TTL
    BY DEF MInv, Fresh
  <2>3. entries[k].response.requestedAt \in Nat /\ MaxFlight \in Nat /\ TTL \in Nat
    BY <2>2, CacheAssumption, CachedRouteAssumption DEF Response
  <2> QED BY <2>1, <2>2, <2>3
<1> QED BY <1>1, MInvInvariant, PTL
=============================================================================
