------------------------------- MODULE Cache -------------------------------
(***************************************************************************)
(* The response cache of one route, internal/cache/cache.go: a map with a  *)
(* recency list, a common time to live and a fixed number of entries.      *)
(*                                                                         *)
(* Get and Set each run under Cache.mu and read the clock under it, so     *)
(* each is one step; the handlers of concurrent requests interleave them.  *)
(* A response is an opaque value: entries are copied in and out.           *)
(***************************************************************************)
EXTENDS Integers, FiniteSets, Functions

CONSTANTS Keys, Responses,
          TTL, MaxEntries,
          NoResponse,       \* the answer of a Get that misses
          MaxTime           \* bound: the clock stops here

ASSUME CacheAssumption ==
  /\ TTL \in Nat \ {0}
  /\ MaxEntries \in Nat \ {0}
  /\ NoResponse \notin Responses
  /\ MaxTime \in Nat

VARIABLES entries,          \* the map, from the keys present to their entries
          recency,          \* the list, as an order: <<j, k>> if j is k or is
                            \*   ahead of it, that is, used more recently
          clock,
          answer,           \* what the latest Get returned: [key, response]
          stored,           \* history: the latest Set of each key, as an entry
          usedSince         \* history: the keys used since each key was used

cacheVars == <<entries, recency, clock, answer, stored, usedSince>>

Entry == [response : Responses \union {NoResponse}, expiresAt : Nat]
Never == [response |-> NoResponse, expiresAt |-> 0]

Elements(list) == {k \in Keys : <<k, k>> \in list}

\* The elements stand one behind the other.
IsList(list) ==
  LET present == Elements(list)
  IN  /\ list \subseteq present \X present
      /\ \A j, k \in present : <<j, k>> \in list \/ <<k, j>> \in list
      /\ \A j, k \in present : <<j, k>> \in list /\ <<k, j>> \in list => j = k
      /\ \A i, j, k \in present :
           <<i, j>> \in list /\ <<j, k>> \in list => <<i, k>> \in list

\* Besides the types: the map and the list describe the same entries, and the
\* capacity is never exceeded.
CacheTypeOK ==
  /\ DOMAIN entries \subseteq Keys
  /\ entries \in [DOMAIN entries -> Entry]
  /\ IsList(recency)
  /\ Elements(recency) = DOMAIN entries
  /\ Cardinality(DOMAIN entries) <= MaxEntries
  /\ clock \in 0 .. MaxTime
  /\ answer \in [key : Keys, response : Responses \union {NoResponse}]
  /\ stored \in [Keys -> Entry]
  /\ usedSince \in [Keys -> SUBSET Keys]

CacheInit ==
  /\ entries = [k \in {} |-> Never]
  /\ recency = {}
  /\ clock = 0
  /\ answer \in [key : Keys, response : {NoResponse}]
  /\ stored = [k \in Keys |-> Never]
  /\ usedSince = [k \in Keys |-> {}]

-----------------------------------------------------------------------------
\* Mutant: an entry is still served in the instant it expires.
LiveOneLonger(k) == clock <= entries[k].expiresAt

\* now.Before(expiresAt) for the entry of a key that is present.
Live(k) == clock < entries[k].expiresAt

\* Remove, of all elements that are not in a set.
Keep(list, S) == list \intersect (S \X S)

\* MoveToFront or PushFront.
ToFront(list, k) ==
  Keep(list, Keys \ {k}) \union ({k} \X (Elements(list) \union {k}))

Back(list) ==
  CHOOSE k \in Elements(list) : \A j \in Elements(list) : <<j, k>> \in list

Use(k) == usedSince' = [j \in Keys |-> IF j = k THEN {} ELSE usedSince[j] \union {k}]

GetMiss(k) ==
  /\ k \notin DOMAIN entries
  /\ answer' = [key |-> k, response |-> NoResponse]
  /\ UNCHANGED <<entries, recency, clock, stored, usedSince>>

\* Mutant: an expired entry leaves the map but not the list.
GetExpiredKeepsElement(k) ==
  /\ k \in DOMAIN entries
  /\ ~Live(k)
  /\ entries' = Restrict(entries, DOMAIN entries \ {k})
  /\ answer' = [key |-> k, response |-> NoResponse]
  /\ UNCHANGED <<recency, clock, stored, usedSince>>

\* An expired entry is removed and reported as a miss.
GetExpired(k) ==
  /\ k \in DOMAIN entries
  /\ ~Live(k)
  /\ entries' = Restrict(entries, DOMAIN entries \ {k})
  /\ recency' = Keep(recency, Keys \ {k})
  /\ answer' = [key |-> k, response |-> NoResponse]
  /\ UNCHANGED <<clock, stored, usedSince>>

\* Mutant: a hit does not count as a use.
GetHitInPlace(k) ==
  /\ k \in DOMAIN entries
  /\ Live(k)
  /\ answer' = [key |-> k, response |-> entries[k].response]
  /\ Use(k)
  /\ UNCHANGED <<entries, recency, clock, stored>>

GetHit(k) ==
  /\ k \in DOMAIN entries
  /\ Live(k)
  /\ recency' = ToFront(recency, k)
  /\ answer' = [key |-> k, response |-> entries[k].response]
  /\ Use(k)
  /\ UNCHANGED <<entries, clock, stored>>

Get(k) == GetMiss(k) \/ GetExpired(k) \/ GetHit(k)

\* Set on a present key, expired or not, replaces its entry in place.
Replace(k, entry) ==
  /\ k \in DOMAIN entries
  /\ entries' = [entries EXCEPT ![k] = entry]
  /\ recency' = ToFront(recency, k)

\* Mutant: a full cache evicts without clearing out expired entries first.
EverythingSurvives == DOMAIN entries

\* removeExpired runs only when the cache is full.
Survivors ==
  IF Cardinality(DOMAIN entries) >= MaxEntries
  THEN {k \in DOMAIN entries : Live(k)}
  ELSE DOMAIN entries

\* Set on a new key: clear out expired entries, push to the front, and if that
\* was not enough drop the entry at the back.
Insert(k, entry) ==
  /\ k \notin DOMAIN entries
  /\ LET list == ToFront(Keep(recency, Survivors), k)
         kept == IF Cardinality(Elements(list)) > MaxEntries
                 THEN Keep(list, Keys \ {Back(list)})
                 ELSE list
     IN  /\ recency' = kept
         /\ entries' = [j \in Elements(kept) |-> IF j = k THEN entry ELSE entries[j]]

Set(k, response) ==
  LET entry == [response |-> response, expiresAt |-> clock + TTL]
  IN  /\ Replace(k, entry) \/ Insert(k, entry)
      /\ stored' = [stored EXCEPT ![k] = entry]
      /\ Use(k)
      /\ UNCHANGED <<clock, answer>>

CacheTick ==
  /\ clock < MaxTime
  /\ clock' = clock + 1
  /\ UNCHANGED <<entries, recency, answer, stored, usedSince>>

CacheNext ==
  \/ \E k \in Keys : Get(k) \/ \E response \in Responses : Set(k, response)
  \/ CacheTick

CacheSpec == CacheInit /\ [][CacheNext]_cacheVars

-----------------------------------------------------------------------------
\* Least recently used: an unexpired response is still there while fewer than
\* MaxEntries other keys have been used since it was.
RecentlyUsedKept ==
  \A k \in Keys :
    clock < stored[k].expiresAt /\ Cardinality(usedSince[k]) < MaxEntries
      => k \in DOMAIN entries

\* An unexpired response is pushed out only by a cache full of unexpired
\* responses: expired entries never cost a live one its place.
ExpiredGoFirst ==
  [][\A k \in DOMAIN entries : Live(k) /\ k \notin DOMAIN entries' =>
       /\ Cardinality(DOMAIN entries) = MaxEntries
       /\ \A j \in DOMAIN entries : Live(j)]_cacheVars
=============================================================================
