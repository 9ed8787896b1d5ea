--------------------------- MODULE Balancer_proofs --------------------------
(***************************************************************************)
(* Machine-checked proofs about Balancer, for every set of requests, every *)
(* number of backends and both strategies: the type invariant, the exact   *)
(* connection counters, the choice of each strategy and the refinement of  *)
(* BackendPool.                                                            *)
(***************************************************************************)
EXTENDS Balancer, TLAPS

\* The module is long: every leaf is small, and the limits leave room for the
\* time its translation takes.
USE SMTT(15), ZenonT(15)

\* Where the walk has a backend at hand, where its loop index is in range, and
\* that a compare-and-swap never starts from zero.
Walk ==
  \A r \in Requests :
    /\ pc[r] \in {"load", "compare", "selected", "held", "cas"}
         => selected[r] \in Backends
    /\ pc[r] \in {"load", "compare"} => offset[r] < N
    /\ pc[r] = "cas" => loaded[r] > 0

IInv == TypeOK /\ Walk /\ ConnectionsCounted

\* A request that holds a backend is counted: Release never meets a zero
\* counter.  It follows from IInv, by counting; the lemmas of the first part
\* take it as a hypothesis.
Held ==
  \A r \in Requests :
    pc[r] \in {"held", "cas"} => activeConnections[selected[r]] > 0

-----------------------------------------------------------------------------
\* The visited index is an index of the backend slice.
LEMMA VisitedInRange ==
  ASSUME TypeOK, NEW r \in Requests
  PROVE  Visited(r) \in Backends
BY BalancerAssumption DEF TypeOK, Visited, Backends

\* A step that moves no request into or out of a backend, and leaves the
\* counters alone, keeps them exact.
LEMMA CountsKept ==
  ASSUME ConnectionsCounted, UNCHANGED activeConnections,
         \A b \in Backends : Using(b)' = Using(b)
  PROVE  ConnectionsCounted'
BY DEF ConnectionsCounted

\* TypeOK in three parts, one per group of variables.
PoolType ==
  /\ strategy \in {RoundRobin, LeastConnections}
  /\ healthy \in [Backends -> BOOLEAN]
  /\ activeConnections \in [Backends -> Nat]
  /\ next \in 0 .. N
  /\ selectionMu \subseteq Requests

CallType ==
  /\ pc \in [Requests -> {"idle", "walk", "load", "compare", "selected",
                          "held", "cas"}]
  /\ start \in [Requests -> 0 .. N]
  /\ offset \in [Requests -> 0 .. N]
  /\ selected \in [Requests -> Backends \union {None}]
  /\ loaded \in [Requests -> Nat]

HistoryType ==
  /\ steady \in [Requests -> SUBSET Backends]
  /\ seen \in [Requests -> SUBSET Backends]
  /\ dark \subseteq Requests
  /\ atStart \in [Requests -> [Backends -> Nat]]
  /\ owed \in [Backends -> SUBSET Backends]

-----------------------------------------------------------------------------
\* The two steps that change a counter keep the counters exact.  It follows from
\* IInv, by counting, like Held.
Recounted ==
  \A r \in Requests : Assign(r) \/ ReleaseSwap(r) => ConnectionsCounted'

\* The types are inductive together with Walk and the exact counters, which
\* keep Release from storing a negative value.
LEMMA IInvStep ==
  ASSUME IInv, Held, [Next]_vars, Recounted
  PROVE  IInv'
<1> USE BalancerAssumption
<1>0. TypeOK /\ Walk /\ ConnectionsCounted
  BY DEF IInv
<1>t. PoolType /\ CallType /\ HistoryType
  BY <1>0 DEF TypeOK, PoolType, CallType, HistoryType
<1>v. \A r \in Requests : Visited(r) \in Backends
  BY <1>0, VisitedInRange
<1>1. ASSUME NEW r \in Requests, Lock(r)
      PROVE  IInv'
  <2>1. TypeOK'
    <3>1. PoolType'
      BY <1>t, <1>v, <1>1 DEF PoolType, CallType, Lock, Goto, Backends
    <3>2. CallType'
      BY <1>t, <1>v, <1>1 DEF PoolType, CallType, Lock, Goto
    <3>3. HistoryType'
      BY <1>t, <1>v, <1>1 DEF PoolType, HistoryType, Lock, Up
    <3> QED
      BY <3>1, <3>2, <3>3 DEF TypeOK, PoolType, CallType, HistoryType
  <2>2. Walk'
    BY <1>0, <1>t, <1>v, <1>1 DEF CallType, Walk, Lock, Goto
  <2>3. UNCHANGED activeConnections /\ \A b \in Backends : Using(b)' = Using(b)
    BY <1>t, <1>v, <1>1 DEF CallType, Using, Lock, Goto
  <2> QED
    BY <1>0, <2>1, <2>2, <2>3, CountsKept DEF IInv
<1>2. ASSUME NEW r \in Requests, Skip(r)
      PROVE  IInv'
  <2>1. TypeOK'
    <3>1. PoolType'
      BY <1>t, <1>v, <1>2
      DEF PoolType, CallType, Skip, Walking, poolVars, Backends
    <3>2. CallType'
      BY <1>t, <1>v, <1>2 DEF PoolType, CallType, Skip, Walking
    <3>3. HistoryType'
      BY <1>t, <1>v, <1>2 DEF PoolType, HistoryType, Skip, history
    <3> QED
      BY <3>1, <3>2, <3>3 DEF TypeOK, PoolType, CallType, HistoryType
  <2>2. Walk'
    BY <1>0, <1>t, <1>v, <1>2 DEF CallType, Walk, Skip, Walking
  <2>3. UNCHANGED activeConnections /\ \A b \in Backends : Using(b)' = Using(b)
    BY <1>t, <1>v, <1>2 DEF CallType, Using, Skip, Walking, poolVars
  <2> QED
    BY <1>0, <2>1, <2>2, <2>3, CountsKept DEF IInv
<1>3. ASSUME NEW r \in Requests, PickRoundRobin(r)
      PROVE  IInv'
  <2>1. TypeOK'
    <3>1. PoolType'
      BY <1>t, <1>v, <1>3
      DEF PoolType, CallType, PickRoundRobin, Pick, Walking, Goto, Backends
    <3>2. CallType'
      BY <1>t, <1>v, <1>3
      DEF PoolType, CallType, PickRoundRobin, Pick, Walking, Goto
    <3>3. HistoryType'
      BY <1>t, <1>v, <1>3 DEF PoolType, HistoryType, PickRoundRobin, Pick, Up
    <3> QED
      BY <3>1, <3>2, <3>3 DEF TypeOK, PoolType, CallType, HistoryType
  <2>2. Walk'
    BY <1>0, <1>t, <1>v, <1>3
    DEF CallType, Walk, PickRoundRobin, Pick, Walking, Goto
  <2>3. UNCHANGED activeConnections /\ \A b \in Backends : Using(b)' = Using(b)
    BY <1>t, <1>v, <1>3
    DEF CallType, Using, PickRoundRobin, Pick, Walking, Goto
  <2> QED
    BY <1>0, <2>1, <2>2, <2>3, CountsKept DEF IInv
<1>4. ASSUME NEW r \in Requests, FirstHealthy(r)
      PROVE  IInv'
  <2>1. TypeOK'
    <3>1. PoolType'
      BY <1>t, <1>v, <1>4
      DEF PoolType, CallType, FirstHealthy, Walking, poolVars, Backends
    <3>2. CallType'
      BY <1>t, <1>v, <1>4 DEF PoolType, CallType, FirstHealthy, Walking
    <3>3. HistoryType'
      BY <1>t, <1>v, <1>4 DEF PoolType, HistoryType, FirstHealthy, history
    <3> QED
      BY <3>1, <3>2, <3>3 DEF TypeOK, PoolType, CallType, HistoryType
  <2>2. Walk'
    BY <1>0, <1>t, <1>v, <1>4 DEF CallType, Walk, FirstHealthy, Walking
  <2>3. UNCHANGED activeConnections /\ \A b \in Backends : Using(b)' = Using(b)
    BY <1>t, <1>v, <1>4 DEF CallType, Using, FirstHealthy, Walking, poolVars
  <2> QED
    BY <1>0, <2>1, <2>2, <2>3, CountsKept DEF IInv
<1>5. ASSUME NEW r \in Requests, LaterHealthy(r)
      PROVE  IInv'
  <2>1. TypeOK'
    <3>1. PoolType'
      BY <1>t, <1>v, <1>5
      DEF PoolType, CallType, LaterHealthy, Walking, Goto, poolVars, Backends
    <3>2. CallType'
      BY <1>t, <1>v, <1>5 DEF PoolType, CallType, LaterHealthy, Walking, Goto
    <3>3. HistoryType'
      BY <1>t, <1>v, <1>5 DEF PoolType, HistoryType, LaterHealthy, history
    <3> QED
      BY <3>1, <3>2, <3>3 DEF TypeOK, PoolType, CallType, HistoryType
  <2>2. Walk'
    BY <1>0, <1>t, <1>v, <1>5 DEF CallType, Walk, LaterHealthy, Walking, Goto
  <2>3. UNCHANGED activeConnections /\ \A b \in Backends : Using(b)' = Using(b)
    BY <1>t, <1>v, <1>5
    DEF CallType, Using, LaterHealthy, Walking, Goto, poolVars
  <2> QED
    BY <1>0, <2>1, <2>2, <2>3, CountsKept DEF IInv
<1>6. ASSUME NEW r \in Requests, LoadLeft(r)
      PROVE  IInv'
  <2>1. TypeOK'
    <3>1. PoolType'
      BY <1>t, <1>v, <1>6
      DEF PoolType, CallType, LoadLeft, Goto, poolVars, Backends
    <3>2. CallType'
      BY <1>t, <1>v, <1>6 DEF PoolType, CallType, LoadLeft, Goto
    <3>3. HistoryType'
      BY <1>t, <1>v, <1>6 DEF PoolType, HistoryType, LoadLeft, history
    <3> QED
      BY <3>1, <3>2, <3>3 DEF TypeOK, PoolType, CallType, HistoryType
  <2>2. Walk'
    BY <1>0, <1>t, <1>v, <1>6 DEF CallType, Walk, LoadLeft, Goto
  <2>3. UNCHANGED activeConnections /\ \A b \in Backends : Using(b)' = Using(b)
    BY <1>t, <1>v, <1>6 DEF CallType, Using, LoadLeft, Goto, poolVars
  <2> QED
    BY <1>0, <2>1, <2>2, <2>3, CountsKept DEF IInv
<1>7. ASSUME NEW r \in Requests, Compare(r)
      PROVE  IInv'
  <2>1. TypeOK'
    <3>1. PoolType'
      BY <1>t, <1>v, <1>7
      DEF PoolType, CallType, Compare, Goto, poolVars, Backends
    <3>2. CallType'
      BY <1>0, <1>t, <1>v, <1>7 DEF CallType, Walk, Compare, Goto
    <3>3. HistoryType'
      BY <1>t, <1>v, <1>7 DEF PoolType, HistoryType, Compare, history
    <3> QED
      BY <3>1, <3>2, <3>3 DEF TypeOK, PoolType, CallType, HistoryType
  <2>2. Walk'
    BY <1>0, <1>t, <1>v, <1>7 DEF CallType, Walk, Compare, Goto
  <2>3. UNCHANGED activeConnections /\ \A b \in Backends : Using(b)' = Using(b)
    BY <1>t, <1>v, <1>7 DEF CallType, Using, Compare, Goto, poolVars
  <2> QED
    BY <1>0, <2>1, <2>2, <2>3, CountsKept DEF IInv
<1>8. ASSUME NEW r \in Requests, WalkDone(r)
      PROVE  IInv'
  <2>1. TypeOK'
    <3>1. PoolType'
      BY <1>t, <1>v, <1>8
      DEF PoolType, CallType, WalkDone, Goto, poolVars, Backends
    <3>2. CallType'
      BY <1>t, <1>v, <1>8 DEF PoolType, CallType, WalkDone, Goto
    <3>3. HistoryType'
      BY <1>t, <1>v, <1>8 DEF PoolType, HistoryType, WalkDone, history
    <3> QED
      BY <3>1, <3>2, <3>3 DEF TypeOK, PoolType, CallType, HistoryType
  <2>2. Walk'
    BY <1>0, <1>t, <1>v, <1>8 DEF CallType, Walk, WalkDone, Goto
  <2>3. UNCHANGED activeConnections /\ \A b \in Backends : Using(b)' = Using(b)
    BY <1>t, <1>v, <1>8 DEF CallType, Using, WalkDone, Goto, poolVars
  <2> QED
    BY <1>0, <2>1, <2>2, <2>3, CountsKept DEF IInv
<1>9. ASSUME NEW r \in Requests, Refuse(r)
      PROVE  IInv'
  <2>1. TypeOK'
    <3>1. PoolType'
      BY <1>t, <1>v, <1>9
      DEF PoolType, CallType, Refuse, Goto, Return, Backends
    <3>2. CallType'
      BY <1>t, <1>v, <1>9 DEF PoolType, CallType, Refuse, Goto, Return
    <3>3. HistoryType'
      BY <1>t, <1>v, <1>9 DEF PoolType, HistoryType, Refuse, Return, NoLoad
    <3> QED
      BY <3>1, <3>2, <3>3 DEF TypeOK, PoolType, CallType, HistoryType
  <2>2. Walk'
    BY <1>0, <1>t, <1>v, <1>9 DEF CallType, Walk, Refuse, Goto, Return
  <2>3. UNCHANGED activeConnections /\ \A b \in Backends : Using(b)' = Using(b)
    BY <1>t, <1>v, <1>9 DEF CallType, Using, Refuse, Goto, Return
  <2> QED
    BY <1>0, <2>1, <2>2, <2>3, CountsKept DEF IInv
<1>10. ASSUME NEW r \in Requests, ReleaseRetry(r)
      PROVE  IInv'
  <2>1. TypeOK'
    <3>1. PoolType'
      BY <1>t, <1>v, <1>10
      DEF PoolType, CallType, ReleaseRetry, Goto, poolVars, Backends
    <3>2. CallType'
      BY <1>t, <1>v, <1>10 DEF PoolType, CallType, ReleaseRetry, Goto
    <3>3. HistoryType'
      BY <1>t, <1>v, <1>10 DEF PoolType, HistoryType, ReleaseRetry, history
    <3> QED
      BY <3>1, <3>2, <3>3 DEF TypeOK, PoolType, CallType, HistoryType
  <2>2. Walk'
    BY <1>0, <1>t, <1>v, <1>10 DEF CallType, Walk, ReleaseRetry, Goto
  <2>3. UNCHANGED activeConnections /\ \A b \in Backends : Using(b)' = Using(b)
    BY <1>t, <1>v, <1>10 DEF CallType, Using, ReleaseRetry, Goto, poolVars
  <2> QED
    BY <1>0, <2>1, <2>2, <2>3, CountsKept DEF IInv
<1>11. ASSUME NEW r \in Requests, Assign(r)
      PROVE  IInv'
  <2>1. TypeOK'
    <3>1. PoolType'
      BY <1>0, <1>t, <1>11
      DEF PoolType, Walk, Assign, Return, Backends
    <3>2. CallType'
      BY <1>t, <1>11 DEF PoolType, CallType, Assign, Goto, Return
    <3>3. HistoryType'
      BY <1>t, <1>11 DEF PoolType, HistoryType, Assign, Return, NoLoad
    <3> QED
      BY <3>1, <3>2, <3>3 DEF TypeOK, PoolType, CallType, HistoryType
  <2>2. Walk'
    BY <1>0, <1>t, <1>11 DEF CallType, Walk, Assign, Goto, Return
  <2> QED
    BY <1>11, <2>1, <2>2 DEF IInv, Recounted
<1>12. ASSUME NEW r \in Requests, ReleaseLoad(r)
      PROVE  IInv'
  <2>1. /\ selected[r] \in Backends
        /\ activeConnections[selected[r]] \in Nat
        /\ activeConnections[selected[r]] > 0
    BY <1>0, <1>t, <1>12 DEF ReleaseLoad, Walk, PoolType, Held
  <2>2. /\ pc' = [pc EXCEPT ![r] = "cas"]
        /\ selected' = selected
    <3>1. activeConnections[selected[r]] # 0
      BY <2>1
    <3>2. /\ pc' = [pc EXCEPT ![r] = "cas"]
          /\ selected' = [selected EXCEPT ![r] = selected[r]]
      BY <1>12, <3>1 DEF ReleaseLoad, Goto
    <3> QED
      BY <1>t, <3>2 DEF CallType
  <2>3. TypeOK'
    <3>1. PoolType'
      BY <1>t, <1>12, <2>1, <2>2
      DEF PoolType, CallType, ReleaseLoad, Goto, poolVars, Backends
    <3>2. CallType'
      BY <1>t, <1>12, <2>1, <2>2 DEF PoolType, CallType, ReleaseLoad, Goto
    <3>3. HistoryType'
      BY <1>t, <1>12, <2>1, <2>2
      DEF PoolType, HistoryType, ReleaseLoad, history
    <3> QED
      BY <3>1, <3>2, <3>3 DEF TypeOK, PoolType, CallType, HistoryType
  <2>4. Walk'
    BY <1>0, <1>t, <1>12, <2>1, <2>2 DEF CallType, Walk, ReleaseLoad, Goto
  <2>5. UNCHANGED activeConnections /\ \A b \in Backends : Using(b)' = Using(b)
    BY <1>t, <1>12, <2>2 DEF CallType, Using, ReleaseLoad, Goto, poolVars
  <2> QED
    BY <1>0, <2>3, <2>4, <2>5, CountsKept DEF IInv
<1>13. ASSUME NEW r \in Requests, ReleaseSwap(r)
      PROVE  IInv'
  <2>1. /\ selected[r] \in Backends
        /\ loaded[r] \in Nat
        /\ loaded[r] > 0
    BY <1>0, <1>t, <1>13 DEF ReleaseSwap, Walk, CallType
  <2>2. TypeOK'
    <3>1. PoolType'
      BY <1>t, <1>13, <2>1 DEF PoolType, CallType, ReleaseSwap, Goto, Backends
    <3>2. CallType'
      BY <1>t, <1>13, <2>1 DEF PoolType, CallType, ReleaseSwap, Goto
    <3>3. HistoryType'
      BY <1>t, <1>13, <2>1 DEF PoolType, HistoryType, ReleaseSwap, history
    <3> QED
      BY <3>1, <3>2, <3>3 DEF TypeOK, PoolType, CallType, HistoryType
  <2>3. Walk'
    BY <1>0, <1>t, <1>13 DEF CallType, Walk, ReleaseSwap, Goto
  <2> QED
    BY <1>13, <2>2, <2>3 DEF IInv, Recounted
<1>14. ASSUME NEW b \in Backends, NEW up \in BOOLEAN, SetHealthy(b, up)
      PROVE  IInv'
  <2>1. TypeOK'
    <3>1. PoolType'
      BY <1>t, <1>14 DEF PoolType, CallType, SetHealthy, callVars, Backends
    <3>2. CallType'
      BY <1>t, <1>14 DEF PoolType, CallType, SetHealthy, callVars
    <3>3. HistoryType'
      BY <1>t, <1>14 DEF PoolType, HistoryType, SetHealthy, Up
    <3> QED
      BY <3>1, <3>2, <3>3 DEF TypeOK, PoolType, CallType, HistoryType
  <2>2. Walk'
    BY <1>0, <1>t, <1>14 DEF CallType, Walk, SetHealthy, callVars
  <2>3. UNCHANGED activeConnections /\ \A c \in Backends : Using(c)' = Using(c)
    BY <1>14 DEF CallType, Using, SetHealthy, callVars
  <2> QED
    BY <1>0, <2>1, <2>2, <2>3, CountsKept DEF IInv
<1>15. CASE UNCHANGED vars
  <2>1. TypeOK' /\ Walk'
    BY <1>0, <1>15 DEF TypeOK, Walk, vars, poolVars, callVars, history
  <2>2. UNCHANGED activeConnections /\ \A b \in Backends : Using(b)' = Using(b)
    BY <1>15 DEF Using, vars, poolVars, callVars
  <2> QED
    BY <1>0, <2>1, <2>2, CountsKept DEF IInv
<1> QED
  BY <1>1, <1>2, <1>3, <1>4, <1>5, <1>6, <1>7, <1>8,
     <1>9, <1>10, <1>11, <1>12, <1>13, <1>14, <1>15
  DEF Next, Acquire, Release

-----------------------------------------------------------------------------
\* How far behind position s the walk meets backend b.
Dist(b, s) == IF b >= s THEN b - s ELSE b - s + N

Selecting(r) == pc[r] \in {"walk", "load", "compare", "selected"}

\* selectionMu is held by one request at a time, the one that selects.
Mutex ==
  /\ \A r, q \in selectionMu : r = q
  /\ \A r \in Requests : r \in selectionMu <=> Selecting(r)

\* The walk of request r: the histories bracket the healthy backends, and the
\* backends that it passed without a choice were not healthy throughout.
Search(r) ==
  Selecting(r) =>
    /\ steady[r] \subseteq Up
    /\ Up \subseteq seen[r]
    /\ pc[r] # "selected" =>
         start[r] = IF strategy = RoundRobin THEN next ELSE 0
    /\ selected[r] # None => selected[r] \in seen[r]
    /\ pc[r] \in {"load", "compare"} =>
         Visited(r) \in seen[r] /\ strategy = LeastConnections
    /\ selected[r] = None => \A b \in steady[r] : Dist(b, start[r]) >= offset[r]
    /\ pc[r] = "walk" /\ strategy = RoundRobin => selected[r] = None

\* Least connections: during the walk counters only go down, and the backend
\* chosen so far is no busier than any passed one was at the start.
Fewest(r) ==
  Selecting(r) /\ strategy = LeastConnections =>
    /\ \A b \in Backends : activeConnections[b] <= atStart[r][b]
    /\ selected[r] # None => \A b \in steady[r] :
         b < offset[r] => activeConnections[selected[r]] <= atStart[r][b]
    /\ pc[r] = "compare" =>
         /\ activeConnections[Visited(r)] <= loaded[r]
         /\ loaded[r] <= atStart[r][Visited(r)]
    /\ pc[r] = "selected" => offset[r] = N

\* Round robin: what is owed a turn before c is picked again lies between the
\* rotation's position and c, and the walk under way has not passed it.
Turns ==
  strategy = RoundRobin =>
    \A c \in Backends : \A b \in owed[c] :
      /\ healthy[b]
      /\ Dist(b, next) < Dist(c, next)
      /\ \A r \in Requests : pc[r] = "walk" => Dist(b, next) >= offset[r]

\* The visited backend is the one at distance offset.
LEMMA VisitedDistance ==
  ASSUME NEW s \in 0 .. N, NEW o \in 0 .. N - 1, NEW b \in Backends
  PROVE  Dist(b, s) = o <=> b = (s + o) % N
<1>1. N \in Nat \ {0} /\ s \in Nat /\ o \in Nat /\ s <= N /\ o < N
      /\ b \in Nat /\ b < N
  BY BalancerAssumption DEF Backends
<1>2. (s + o) % N = IF s + o < N THEN s + o ELSE s + o - N
  BY <1>1
<1> QED
  BY <1>1, <1>2 DEF Dist

\* Distances are indices.
LEMMA DistRange ==
  ASSUME NEW s \in 0 .. N, NEW b \in Backends
  PROVE  Dist(b, s) \in 0 .. N - 1
BY BalancerAssumption DEF Backends, Dist

\* After v is picked, distances are measured from behind v: what lay behind v
\* comes first, in the same order, and v itself comes last.
LEMMA DistShift ==
  ASSUME NEW s \in 0 .. N, NEW v \in Backends, NEW b \in Backends
  PROVE  Dist(b, v + 1) = IF Dist(b, s) > Dist(v, s)
                          THEN Dist(b, s) - Dist(v, s) - 1
                          ELSE Dist(b, s) + N - Dist(v, s) - 1
BY BalancerAssumption DEF Backends, Dist

-----------------------------------------------------------------------------
\* One request selects at a time.
LEMMA MutexStep ==
  ASSUME IInv, Mutex, [Next]_vars
  PROVE  Mutex'
<1>t. /\ selectionMu \subseteq Requests
      /\ pc \in [Requests -> {"idle", "walk", "load", "compare", "selected",
                              "held", "cas"}]
  BY DEF IInv, TypeOK
<1> USE DEF Mutex, Selecting
<1>1. ASSUME NEW r \in Requests, Lock(r) PROVE Mutex'
  BY <1>t, <1>1 DEF Lock, Goto
<1>2. ASSUME NEW r \in Requests,
             \/ Skip(r) \/ PickRoundRobin(r) \/ FirstHealthy(r)
             \/ LaterHealthy(r) \/ LoadLeft(r) \/ Compare(r) \/ WalkDone(r)
      PROVE  Mutex'
  <2>1. UNCHANGED selectionMu
    BY <1>2 DEF Skip, PickRoundRobin, Pick, FirstHealthy, LaterHealthy, LoadLeft,
                Compare, WalkDone, poolVars
  <2>2. Selecting(r)
    BY <1>2 DEF Skip, PickRoundRobin, Pick, FirstHealthy, LaterHealthy, LoadLeft,
                Compare, WalkDone, Walking
  <2>3. \E label \in {"walk", "load", "compare", "selected"} :
          pc' = [pc EXCEPT ![r] = label]
    <3>1. CASE Skip(r) \/ FirstHealthy(r)
      <4>1. pc' = [pc EXCEPT ![r] = "walk"]
        BY <1>t, <3>1 DEF Skip, FirstHealthy, Walking
      <4> QED BY <4>1
    <3> QED BY <1>2, <3>1 DEF PickRoundRobin, Pick, LaterHealthy, LoadLeft, Compare,
                              WalkDone, Goto
  <2> QED BY <1>t, <2>1, <2>2, <2>3
<1>3. ASSUME NEW r \in Requests, Assign(r) \/ Refuse(r) PROVE Mutex'
  <2>1. selectionMu' = selectionMu \ {r}
    BY <1>3 DEF Assign, Refuse, Return
  <2>2. \E label \in {"held", "idle"} : pc' = [pc EXCEPT ![r] = label]
    BY <1>3 DEF Assign, Refuse, Goto
  <2> QED BY <1>t, <2>1, <2>2
<1>4. ASSUME NEW r \in Requests, Release(r) PROVE Mutex'
  <2>1. UNCHANGED selectionMu /\ pc[r] \in {"held", "cas"}
    BY <1>4 DEF Release, ReleaseLoad, ReleaseRetry, ReleaseSwap, poolVars
  <2>2. \E label \in {"held", "idle", "cas"} : pc' = [pc EXCEPT ![r] = label]
    BY <1>4 DEF Release, ReleaseLoad, ReleaseRetry, ReleaseSwap, Goto
  <2> QED BY <1>t, <2>1, <2>2
<1>5. ASSUME NEW b \in Backends, NEW up \in BOOLEAN, SetHealthy(b, up) PROVE Mutex'
  BY <1>5 DEF SetHealthy, callVars
<1>6. CASE UNCHANGED vars
  BY <1>6 DEF vars, poolVars, callVars
<1> QED
  BY <1>1, <1>2, <1>3, <1>4, <1>5, <1>6 DEF Next, Acquire

\* While one request takes a step of Acquire no other selects.
LEMMA OthersWait ==
  ASSUME IInv, Mutex, NEW r \in Requests, Acquire(r), NEW q \in Requests, q # r
  PROVE  ~Selecting(q) /\ ~Selecting(q)'
<1>1. pc \in [Requests -> {"idle", "walk", "load", "compare", "selected",
                           "held", "cas"}]
  BY DEF IInv, TypeOK
<1>2. pc'[q] = pc[q]
  BY <1>1 DEF Acquire, Lock, Skip, PickRoundRobin, Pick, FirstHealthy, LaterHealthy,
              LoadLeft, Compare, WalkDone, Assign, Refuse, Goto
<1>3. selectionMu = {} \/ Selecting(r)
  BY DEF Acquire, Lock, Skip, PickRoundRobin, Pick, FirstHealthy, LaterHealthy,
         LoadLeft, Compare, WalkDone, Assign, Refuse, Walking, Selecting
<1>4. ~Selecting(q)
  BY <1>3 DEF Mutex
<1> QED BY <1>2, <1>4 DEF Selecting

\* A step of Release touches its own request and takes from a counter, never
\* adds to one.
LEMMA ReleaseEffect ==
  ASSUME IInv, NEW r \in Requests, Release(r)
  PROVE  /\ ~Selecting(r) /\ ~Selecting(r)'
         /\ UNCHANGED <<strategy, healthy, next, selectionMu, start, offset, history>>
         /\ \A q \in Requests \ {r} : /\ pc'[q] = pc[q]
                                      /\ selected'[q] = selected[q]
                                      /\ loaded'[q] = loaded[q]
         /\ \A b \in Backends : /\ activeConnections'[b] <= activeConnections[b]
                                /\ activeConnections'[b] \in Nat
<1>1. /\ pc \in [Requests -> {"idle", "walk", "load", "compare", "selected",
                              "held", "cas"}]
      /\ selected \in [Requests -> Backends \union {None}]
      /\ loaded \in [Requests -> Nat]
      /\ activeConnections \in [Backends -> Nat]
  BY DEF IInv, TypeOK
<1>2. CASE ReleaseLoad(r)
  BY <1>1, <1>2 DEF ReleaseLoad, Goto, Selecting, poolVars
<1>3. CASE ReleaseRetry(r)
  BY <1>1, <1>3 DEF ReleaseRetry, Goto, Selecting, poolVars
<1>4. CASE ReleaseSwap(r)
  <2>1. selected[r] \in Backends /\ activeConnections[selected[r]] \in Nat
        /\ activeConnections[selected[r]] = loaded[r] /\ loaded[r] > 0
    BY <1>1, <1>4 DEF ReleaseSwap, IInv, Walk
  <2>2. activeConnections' = [activeConnections EXCEPT ![selected[r]] = loaded[r] - 1]
    BY <1>4 DEF ReleaseSwap
  <2>3. \A b \in Backends : /\ activeConnections'[b] <= activeConnections[b]
                            /\ activeConnections'[b] \in Nat
    BY <1>1, <2>1, <2>2
  <2> QED BY <1>1, <1>4, <2>3 DEF ReleaseSwap, Goto, Selecting
<1> QED BY <1>2, <1>3, <1>4, Zenon DEF Release

\* The search keeps its account of the backends it passed.
LEMMA SearchStep ==
  ASSUME IInv, Mutex, \A q \in Requests : Search(q), [Next]_vars, NEW r \in Requests
  PROVE  Search(r)'
<1>t. /\ PoolType /\ CallType /\ HistoryType /\ Up \subseteq Backends
      /\ N \in Nat \ {0}
  BY BalancerAssumption DEF IInv, TypeOK, PoolType, CallType, HistoryType, Up
<1>s. Search(r)
  OBVIOUS
<1>v. Visited(r) \in Backends
  BY VisitedInRange DEF IInv
<1>d. ASSUME offset[r] < N, NEW b \in Backends, b # Visited(r),
             Dist(b, start[r]) >= offset[r]
      PROVE  Dist(b, start[r]) >= offset[r] + 1
  <2>1. start[r] \in 0 .. N /\ offset[r] \in 0 .. N - 1
    BY <1>t, <1>d DEF CallType
  <2>2. Dist(b, start[r]) # offset[r] /\ Dist(b, start[r]) \in 0 .. N - 1
    BY <1>d, <2>1, VisitedDistance, DistRange DEF Visited
  <2> QED BY <1>d, <2>1, <2>2
<1>1. CASE Lock(r)
  <2>1. /\ steady'[r] = Up /\ seen'[r] = Up /\ offset'[r] = 0 /\ selected'[r] = None
        /\ pc'[r] = "walk" /\ healthy' = healthy /\ strategy' = strategy /\ next' = next
        /\ start'[r] = IF strategy = RoundRobin THEN next ELSE 0
    <3>1. steady'[r] = Up /\ seen'[r] = Up
      BY <1>t, <1>1 DEF Lock, HistoryType
    <3>2. /\ offset'[r] = 0 /\ selected'[r] = None
          /\ start'[r] = IF strategy = RoundRobin THEN next ELSE 0
      BY <1>t, <1>1 DEF Lock, CallType
    <3>3. pc'[r] = "walk" /\ healthy' = healthy /\ strategy' = strategy /\ next' = next
      BY <1>t, <1>1 DEF Lock, Goto, CallType
    <3> QED BY <3>1, <3>2, <3>3
  <2>2. start'[r] \in 0 .. N
    BY <1>t, <2>1 DEF PoolType
  <2>3. \A b \in Backends : Dist(b, start'[r]) >= 0
    BY <1>t, <2>2, DistRange
  <2> QED BY <1>t, <2>1, <2>3 DEF Search, Up
<1>2. CASE Skip(r)
  <2>1. /\ offset'[r] = offset[r] + 1 /\ offset[r] < N /\ Visited(r) \notin Up
        /\ pc[r] = "walk"
        /\ UNCHANGED <<pc, start, selected, steady, seen, healthy, strategy, next>>
    BY <1>t, <1>2 DEF Skip, Walking, CallType, history, poolVars, Up
  <2>2. Up' = Up
    BY <2>1 DEF Up
  <2>3. selected[r] = None => \A b \in steady[r] : Dist(b, start[r]) >= offset[r] + 1
    BY <1>t, <1>s, <1>d, <2>1 DEF Search, Selecting
  <2> QED BY <1>s, <2>1, <2>2, <2>3 DEF Search, Selecting
<1>3. CASE PickRoundRobin(r)
  <2>1. /\ pc[r] = "walk" /\ pc'[r] = "selected" /\ selected'[r] = Visited(r)
        /\ Visited(r) \in Up /\ UNCHANGED <<steady, seen, healthy>>
    BY <1>t, <1>v, <1>3 DEF PickRoundRobin, Pick, Walking, Goto, CallType, Up
  <2>2. Up' = Up /\ Visited(r) # None
    BY <1>t, <1>v, <2>1 DEF Up, None, Backends
  <2> QED BY <1>s, <2>1, <2>2 DEF Search, Selecting
<1>4. CASE FirstHealthy(r)
  <2>1. /\ pc[r] = "walk" /\ selected'[r] = Visited(r) /\ strategy = LeastConnections
        /\ Visited(r) \in Up
        /\ UNCHANGED <<pc, start, steady, seen, healthy, strategy, next>>
    BY <1>t, <1>v, <1>4 DEF FirstHealthy, Walking, CallType, Up, poolVars, history
  <2>2. Up' = Up /\ Visited(r) # None
    BY <1>t, <1>v, <2>1 DEF Up, None, Backends
  <2> QED BY <1>s, <2>1, <2>2 DEF Search, Selecting, RoundRobin, LeastConnections
<1>5. CASE LaterHealthy(r) \/ LoadLeft(r)
  <2>1. /\ pc[r] \in {"walk", "load"} /\ pc'[r] \in {"load", "compare"}
        /\ pc[r] = "walk" => Visited(r) \in Up /\ strategy = LeastConnections
        /\ UNCHANGED <<start, offset, selected, steady, seen, healthy, strategy, next>>
    BY <1>t, <1>v, <1>5
    DEF LaterHealthy, LoadLeft, Walking, Goto, CallType, Up, poolVars, history
  <2>2. Up' = Up /\ Visited(r)' = Visited(r)
    BY <2>1 DEF Up, Visited
  <2> QED BY <1>s, <2>1, <2>2 DEF Search, Selecting
<1>6. CASE Compare(r)
  <2>1. /\ pc[r] = "compare" /\ pc'[r] = "walk" /\ selected[r] \in Backends
        /\ selected'[r] \in {selected[r], Visited(r)}
        /\ UNCHANGED <<start, steady, seen, healthy, strategy, next>>
    BY <1>t, <1>v, <1>6 DEF Compare, Goto, CallType, poolVars, history, IInv, Walk
  <2>2. Up' = Up /\ Visited(r) # None /\ selected[r] # None
    BY <1>t, <1>v, <2>1 DEF Up, None, Backends
  <2> QED BY <1>s, <2>1, <2>2 DEF Search, Selecting, RoundRobin, LeastConnections
<1>7. CASE WalkDone(r)
  <2>1. /\ pc[r] = "walk" /\ pc'[r] = "selected" /\ selected[r] # None
        /\ UNCHANGED <<start, offset, selected, steady, seen, healthy, strategy, next>>
    BY <1>t, <1>7 DEF WalkDone, Goto, CallType, poolVars, history
  <2>2. Up' = Up
    BY <2>1 DEF Up
  <2> QED BY <1>s, <2>1, <2>2 DEF Search, Selecting
<1>8. CASE Assign(r) \/ Refuse(r)
  <2>1. pc'[r] \in {"held", "idle"}
    BY <1>t, <1>8 DEF Assign, Refuse, Goto, CallType
  <2> QED BY <2>1, Zenon DEF Search, Selecting
<1>9. ASSUME NEW q \in Requests \ {r}, Acquire(q) PROVE Search(r)'
  BY <1>9, OthersWait DEF Search
<1>10. ASSUME NEW q \in Requests, Release(q) PROVE Search(r)'
  <2>1. CASE q = r
    BY <1>10, <2>1, ReleaseEffect, ZenonT(30) DEF Search
  <2>2. CASE q # r
    <3>1. /\ pc'[r] = pc[r] /\ selected'[r] = selected[r]
          /\ UNCHANGED <<start, offset, steady, seen, healthy, strategy, next>>
      BY <1>10, <2>2, ReleaseEffect DEF history
    <3>2. Up' = Up /\ Visited(r)' = Visited(r)
      BY <3>1 DEF Up, Visited
    <3> QED BY <1>s, <3>1, <3>2, Zenon DEF Search, Selecting
  <2> QED BY <2>1, <2>2
<1>11. ASSUME NEW b \in Backends, NEW up \in BOOLEAN, SetHealthy(b, up)
       PROVE  Search(r)'
  <2>1. UNCHANGED <<pc, start, offset, selected, strategy, next>>
    BY <1>11 DEF SetHealthy, callVars
  <2>2. Visited(r)' = Visited(r)
    BY <2>1 DEF Visited
  <2>3. Up' = IF up THEN Up \union {b} ELSE Up \ {b}
    BY <1>t, <1>11 DEF SetHealthy, Up, PoolType
  <2>4. steady'[r] = IF up THEN steady[r] ELSE steady[r] \ {b}
    BY <1>11 DEF SetHealthy
  <2>5. Selecting(r) => seen'[r] = IF up THEN seen[r] \union {b} ELSE seen[r]
    BY <1>11 DEF SetHealthy, Mutex
  <2> QED BY <1>s, <2>1, <2>2, <2>3, <2>4, <2>5, Zenon DEF Search, Selecting
<1>12. CASE UNCHANGED vars
  BY <1>s, <1>12, Zenon DEF Search, Selecting, Visited, Up, vars, poolVars, callVars, history
<1> QED
  BY <1>1, <1>2, <1>3, <1>4, <1>5, <1>6, <1>7, <1>8, <1>9, <1>10, <1>11, <1>12
  DEF Next, Acquire

-----------------------------------------------------------------------------
\* Least connections keeps its choice the least busy of what it passed.
LEMMA FewestStep ==
  ASSUME IInv, Mutex, \A q \in Requests : Search(q), [Next]_vars,
         NEW r \in Requests, Fewest(r)
  PROVE  Fewest(r)'
<1>t. /\ PoolType /\ CallType /\ HistoryType /\ N \in Nat \ {0}
  BY BalancerAssumption DEF IInv, TypeOK, PoolType, CallType, HistoryType, Up
<1>s. Search(r)
  OBVIOUS
<1>v. Visited(r) \in Backends
  BY VisitedInRange DEF IInv
<1>o. ASSUME strategy = LeastConnections, Selecting(r), pc[r] # "selected",
             offset[r] < N
      PROVE  Visited(r) = offset[r]
  <2>1. start[r] = 0 /\ offset[r] \in 0 .. N - 1
    BY <1>t, <1>s, <1>o DEF Search, CallType, RoundRobin, LeastConnections
  <2>2. offset[r] \in Backends /\ Dist(offset[r], 0) = offset[r] /\ 0 \in 0 .. N
    BY <1>t, <2>1 DEF Dist, Backends
  <2>3. offset[r] = (0 + offset[r]) % N
    BY <2>1, <2>2, VisitedDistance
  <2> QED BY <2>1, <2>3 DEF Visited
<1>n. /\ activeConnections \in [Backends -> Nat] /\ atStart \in [Requests -> [Backends -> Nat]]
      /\ steady[r] \subseteq Backends /\ offset[r] \in Nat /\ loaded[r] \in Nat
  BY <1>t DEF PoolType, HistoryType, CallType
<1>1. CASE Lock(r)
  <2>1. /\ pc'[r] = "walk" /\ selected'[r] = None /\ atStart'[r] = activeConnections
        /\ activeConnections' = activeConnections
    BY <1>t, <1>1 DEF Lock, Goto, CallType, HistoryType
  <2> QED BY <1>n, <2>1 DEF Fewest
<1>2. CASE Skip(r)
  <2>1. /\ offset'[r] = offset[r] + 1 /\ offset[r] < N /\ ~healthy[Visited(r)]
        /\ pc[r] = "walk" /\ pc'[r] = "walk" /\ strategy' = strategy
        /\ UNCHANGED <<activeConnections, selected, steady, atStart>>
    BY <1>t, <1>2 DEF Skip, Walking, CallType, history, poolVars
  <2>2. Visited(r) \notin steady[r]
    BY <1>s, <2>1 DEF Search, Selecting, Up
  <2>3. strategy = LeastConnections =>
          \A b \in steady[r] : b < offset[r] + 1 => b < offset[r]
    <3> SUFFICES ASSUME strategy = LeastConnections, NEW b \in steady[r],
                        b < offset[r] + 1
                 PROVE  b < offset[r]
      OBVIOUS
    <3>1. b # offset[r]
      BY <1>o, <2>1, <2>2 DEF Selecting
    <3>2. b \in Backends /\ offset[r] \in Nat
      BY <1>n
    <3>3. b \in Nat
      BY <1>t, <3>2 DEF Backends
    <3> QED BY <3>1, <3>2, <3>3
  <2> QED BY <2>1, <2>3 DEF Fewest, Selecting
<1>3. CASE PickRoundRobin(r)
  BY <1>3, ZenonT(30) DEF PickRoundRobin, Pick, Fewest, RoundRobin, LeastConnections
<1>4. CASE FirstHealthy(r)
  <2>1. /\ pc[r] = "walk" /\ selected'[r] = Visited(r) /\ strategy = LeastConnections
        /\ offset'[r] = offset[r] + 1 /\ offset[r] < N /\ selected[r] = None
        /\ pc'[r] = "walk"
        /\ UNCHANGED <<start, steady, activeConnections, atStart>>
    BY <1>t, <1>v, <1>4 DEF FirstHealthy, Walking, CallType, poolVars, history
  <2>2. start[r] = 0 /\ Visited(r) = offset[r]
    BY <1>s, <1>o, <2>1 DEF Search, Selecting, RoundRobin, LeastConnections
  <2>3. \A b \in steady[r] : b >= offset[r]
    <3>1. \A b \in steady[r] : Dist(b, 0) >= offset[r]
      BY <1>s, <2>1, <2>2 DEF Search, Selecting
    <3> QED BY <1>n, <3>1 DEF Dist, Backends
  <2>4. \A b \in steady[r] : b < offset[r] + 1 => b = Visited(r)
    BY <1>n, <2>2, <2>3 DEF Backends
  <2> QED BY <1>v, <2>1, <2>4, Zenon DEF Fewest, Selecting
<1>5. CASE LaterHealthy(r)
  <2>1. /\ pc[r] = "walk" /\ pc'[r] = "load" /\ strategy' = strategy
        /\ UNCHANGED <<offset, selected, steady, activeConnections, atStart>>
    BY <1>t, <1>5 DEF LaterHealthy, Walking, Goto, CallType, poolVars, history
  <2> QED BY <2>1 DEF Fewest, Selecting
<1>6. CASE LoadLeft(r)
  <2>1. /\ pc[r] = "load" /\ pc'[r] = "compare" /\ strategy' = strategy
        /\ loaded'[r] = activeConnections[Visited(r)]
        /\ UNCHANGED <<start, offset, selected, steady, activeConnections, atStart>>
    BY <1>t, <1>6 DEF LoadLeft, Goto, CallType, poolVars, history
  <2>2. Visited(r)' = Visited(r)
    BY <2>1, Zenon DEF Visited
  <2>3. activeConnections[Visited(r)] \in Nat
    BY <1>n, <1>v
  <2>4. ASSUME strategy = LeastConnections
        PROVE  /\ \A b \in Backends : activeConnections[b] <= atStart[r][b]
               /\ selected[r] # None => \A b \in steady[r] :
                    b < offset[r] => activeConnections[selected[r]] <= atStart[r][b]
    BY <2>1, <2>4, Zenon DEF Fewest, Selecting
  <2>5. ASSUME strategy = LeastConnections
        PROVE  /\ activeConnections[Visited(r)] <= loaded'[r]
               /\ loaded'[r] <= atStart[r][Visited(r)]
    <3>1. activeConnections[Visited(r)] <= atStart[r][Visited(r)]
      BY <1>v, <2>4, <2>5
    <3>2. loaded'[r] = activeConnections[Visited(r)]
      BY <2>1
    <3> QED BY <2>3, <3>1, <3>2
  <2> QED BY <2>1, <2>2, <2>4, <2>5 DEF Fewest
<1>7. CASE Compare(r)
  <2>1. /\ pc[r] = "compare" /\ pc'[r] = "walk" /\ strategy' = strategy
        /\ selected[r] \in Backends
        /\ selected'[r] = IF loaded[r] < activeConnections[selected[r]]
                          THEN Visited(r) ELSE selected[r]
        /\ offset'[r] = offset[r] + 1 /\ offset[r] < N
        /\ UNCHANGED <<steady, activeConnections, atStart>>
    BY <1>t, <1>7 DEF Compare, Goto, CallType, poolVars, history, IInv, Walk
  <2> SUFFICES ASSUME strategy = LeastConnections PROVE Fewest(r)'
    BY <2>1, Zenon DEF Fewest
  <2>2. /\ \A b \in Backends : activeConnections[b] <= atStart[r][b]
        /\ \A b \in steady[r] :
             b < offset[r] => activeConnections[selected[r]] <= atStart[r][b]
        /\ activeConnections[Visited(r)] <= loaded[r]
        /\ loaded[r] <= atStart[r][Visited(r)]
    <3>1. \A b \in Backends : b # None
      BY <1>t DEF Backends, None
    <3>2. selected[r] # None
      BY <2>1, <3>1
    <3> QED BY <2>1, <3>2, Zenon DEF Fewest, Selecting
  <2>3. Visited(r) = offset[r]
    BY <1>o, <2>1 DEF Selecting
  <2> DEFINE old == activeConnections[selected[r]]
             seenNow == activeConnections[Visited(r)]
             new == activeConnections[selected'[r]]
  <2>4. old \in Nat /\ seenNow \in Nat /\ loaded[r] \in Nat
    BY <1>n, <1>v, <2>1
  <2>5. new = IF loaded[r] < old THEN seenNow ELSE old
    BY <2>1
  <2>6. new \in Nat /\ new <= old /\ new <= loaded[r]
    <3>1. seenNow <= loaded[r]
      BY <2>2
    <3> HIDE DEF old, seenNow, new
    <3> QED BY <2>4, <2>5, <3>1
  <2>7. ASSUME NEW b \in steady[r], b < offset[r] + 1
        PROVE  new <= atStart[r][b]
    <3>1. b \in Backends /\ atStart[r][b] \in Nat
      BY <1>n
    <3>2. CASE b = Visited(r)
      <4>1. loaded[r] <= atStart[r][b]
        BY <2>2, <3>2
      <4> HIDE DEF new
      <4> QED BY <2>4, <2>6, <3>1, <4>1
    <3>3. CASE b # Visited(r)
      <4>1. b < offset[r]
        <5>1. b # offset[r] /\ b < offset[r] + 1
          BY <2>3, <2>7, <3>3
        <5>2. offset[r] \in Nat /\ b \in Nat
          BY <1>n, <1>t, <3>1 DEF Backends
        <5> QED BY <5>1, <5>2
      <4>2. old <= atStart[r][b]
        BY <2>2, <4>1
      <4> HIDE DEF old, new
      <4> QED BY <2>4, <2>6, <3>1, <4>2
    <3> QED BY <3>2, <3>3
  <2> QED BY <2>1, <2>2, <2>7, Zenon DEF Fewest
<1>8. CASE WalkDone(r)
  <2>1. /\ pc[r] = "walk" /\ pc'[r] = "selected" /\ offset[r] = N /\ strategy' = strategy
        /\ UNCHANGED <<offset, selected, steady, activeConnections, atStart>>
    BY <1>t, <1>8 DEF WalkDone, Goto, CallType, poolVars, history
  <2> QED BY <2>1 DEF Fewest, Selecting
<1>9. CASE Assign(r) \/ Refuse(r)
  <2>1. pc'[r] \in {"held", "idle"}
    BY <1>t, <1>9 DEF Assign, Refuse, Goto, CallType
  <2> QED BY <2>1, Zenon DEF Fewest, Selecting
<1>10. ASSUME NEW q \in Requests \ {r}, Acquire(q) PROVE Fewest(r)'
  BY <1>10, OthersWait DEF Fewest
<1>11. ASSUME NEW q \in Requests, Release(q) PROVE Fewest(r)'
  <2>1. CASE q = r
    BY <1>11, <2>1, ReleaseEffect DEF Fewest
  <2>2. CASE q # r
    <3>1. /\ pc'[r] = pc[r] /\ selected'[r] = selected[r] /\ loaded'[r] = loaded[r]
          /\ UNCHANGED <<start, offset, steady, strategy, atStart>>
          /\ \A b \in Backends : activeConnections'[b] <= activeConnections[b]
      BY <1>11, <2>2, ReleaseEffect, ZenonT(30) DEF history
    <3>2. Visited(r)' = Visited(r)
      BY <3>1 DEF Visited
    <3>4. \A b \in Backends : activeConnections'[b] \in Nat
      BY <1>11, ReleaseEffect
    <3>5. \A b \in Backends, m \in Nat :
            activeConnections[b] <= m => activeConnections'[b] <= m
      BY <1>n, <3>1, <3>4
    <3>6. selected[r] # None => selected[r] \in Backends
      BY <1>t DEF CallType
    <3> QED BY <1>n, <1>v, <3>1, <3>2, <3>5, <3>6 DEF Fewest, Selecting
  <2> QED BY <2>1, <2>2
<1>12. ASSUME NEW b \in Backends, NEW up \in BOOLEAN, SetHealthy(b, up)
       PROVE  Fewest(r)'
  <2>1. UNCHANGED <<pc, start, offset, selected, loaded, strategy, activeConnections, atStart>>
    BY <1>12, Zenon DEF SetHealthy, callVars
  <2>2. Visited(r)' = Visited(r) /\ steady'[r] \subseteq steady[r]
    BY <1>12, <2>1 DEF Visited, SetHealthy
  <2> QED BY <2>1, <2>2, ZenonT(30) DEF Fewest, Selecting
<1>13. CASE UNCHANGED vars
  BY <1>13 DEF Fewest, Selecting, Visited, vars, poolVars, callVars, history
<1> QED
  BY <1>1, <1>2, <1>3, <1>4, <1>5, <1>6, <1>7, <1>8, <1>9, <1>10, <1>11, <1>12, <1>13
  DEF Next, Acquire

\* A round-robin pick finds nothing owed before the visited backend.
LEMMA PickOwesNothing ==
  ASSUME IInv, Turns, NEW r \in Requests, Search(r), PickRoundRobin(r)
  PROVE  /\ start[r] = next /\ next \in 0 .. N /\ Visited(r) \in Backends
         /\ Dist(Visited(r), next) = offset[r]
         /\ owed[Visited(r)] = {}
<1>1. /\ start[r] = next /\ next \in 0 .. N /\ Visited(r) \in Backends
      /\ offset[r] \in 0 .. N - 1 /\ pc[r] = "walk" /\ strategy = RoundRobin
      /\ owed \in [Backends -> SUBSET Backends]
  <2>1. pc[r] = "walk" /\ offset[r] < N /\ strategy = RoundRobin
    BY DEF PickRoundRobin, Pick, Walking
  <2>2. /\ next \in 0 .. N /\ offset[r] \in 0 .. N
        /\ owed \in [Backends -> SUBSET Backends]
    BY DEF IInv, TypeOK
  <2>3. start[r] = next
    BY <2>1 DEF Search, Selecting
  <2>4. Visited(r) \in Backends
    BY VisitedInRange DEF IInv
  <2> QED BY <2>1, <2>2, <2>3, <2>4, BalancerAssumption
<1>2. Dist(Visited(r), next) = offset[r]
  BY <1>1, VisitedDistance DEF Visited
<1>3. ASSUME NEW b \in owed[Visited(r)] PROVE FALSE
  <2>1. b \in Backends
    BY <1>1
  <2>2. Dist(b, next) < offset[r] /\ Dist(b, next) >= offset[r]
    BY <1>1, <1>2, <2>1 DEF Turns
  <2>3. Dist(b, next) \in 0 .. N - 1
    BY <1>1, <2>1, DistRange
  <2>4. Dist(b, next) \in Int /\ offset[r] \in Int
    BY <1>1, <2>3
  <2> QED BY <2>2, <2>4
<1> QED BY <1>1, <1>2, <1>3

\* Round robin keeps the turns in order.
LEMMA TurnsStep ==
  ASSUME IInv, Mutex, \A q \in Requests : Search(q), Turns, [Next]_vars
  PROVE  Turns'
<1>t. /\ PoolType /\ CallType /\ HistoryType /\ N \in Nat \ {0}
  BY BalancerAssumption DEF IInv, TypeOK, PoolType, CallType, HistoryType
<1>r. \A b \in Backends, s \in 0 .. N : Dist(b, s) \in Nat /\ Dist(b, s) < N
  BY <1>t, DistRange
<1>1. ASSUME NEW r \in Requests, PickRoundRobin(r) PROVE Turns'
  <2> DEFINE v == Visited(r)
  <2>1. /\ start[r] = next /\ next \in 0 .. N /\ v \in Backends
        /\ Dist(v, next) = offset[r] /\ owed[v] = {}
    BY <1>1, PickOwesNothing
  <2>2. /\ pc[r] = "walk" /\ strategy = RoundRobin /\ healthy' = healthy
        /\ next' = v + 1 /\ strategy' = strategy /\ pc'[r] = "selected"
        /\ owed' = [c \in Backends |-> IF c = v THEN Up \ {c} ELSE owed[c] \ {v}]
    BY <1>t, <1>1 DEF PickRoundRobin, Pick, Walking, Goto, CallType
  <2>3. \A q \in Requests : pc'[q] # "walk"
    BY <1>1, <2>2, OthersWait, Zenon DEF Acquire, Selecting
  <2> HIDE DEF v
  <2>4. ASSUME NEW c \in Backends, NEW b \in owed'[c]
        PROVE  healthy[b] /\ Dist(b, v + 1) < Dist(c, v + 1)
    <3>1. CASE c = v
      <4>1. b \in Up /\ b # v /\ b \in Backends
        BY <2>2, <2>4, <3>1 DEF Up
      <4>2. Dist(b, v + 1) < N - 1 /\ Dist(v, v + 1) = N - 1
        BY <1>t, <2>1, <4>1 DEF Dist, Backends
      <4> QED BY <3>1, <4>1, <4>2 DEF Up
    <3>2. CASE c # v
      <4>1. b \in owed[c] /\ b # v /\ b \in Backends
        BY <1>t, <2>2, <2>4, <3>2 DEF HistoryType
      <4>2. /\ healthy[b] /\ Dist(b, next) < Dist(c, next)
            /\ Dist(b, next) >= offset[r]
        BY <2>2, <4>1 DEF Turns
      <4>3. Dist(b, next) # Dist(v, next)
        BY <2>1, <4>1, <1>t DEF Dist, Backends
      <4>4. /\ Dist(b, next) > Dist(v, next) /\ Dist(c, next) > Dist(v, next)
        BY <1>r, <2>1, <4>1, <4>2, <4>3
      <4>5. /\ Dist(b, v + 1) = Dist(b, next) - Dist(v, next) - 1
            /\ Dist(c, v + 1) = Dist(c, next) - Dist(v, next) - 1
        BY <2>1, <4>1, <4>4, DistShift
      <4> QED BY <1>r, <2>1, <4>1, <4>2, <4>5
    <3> QED BY <3>1, <3>2
  <2> QED BY <2>2, <2>3, <2>4 DEF Turns
<1>2. ASSUME NEW r \in Requests, Skip(r) PROVE Turns'
  <2>1. /\ offset' = [offset EXCEPT ![r] = @ + 1] /\ offset[r] < N
        /\ ~healthy[Visited(r)] /\ pc[r] = "walk"
        /\ UNCHANGED <<pc, healthy, strategy, next, owed>>
    BY <1>t, <1>2 DEF Skip, Walking, history, poolVars
  <2> SUFFICES ASSUME strategy = RoundRobin, NEW c \in Backends, NEW b \in owed[c],
                      NEW q \in Requests, pc[q] = "walk"
               PROVE  Dist(b, next) >= offset'[q]
    BY <2>1 DEF Turns
  <2>2. healthy[b] /\ Dist(b, next) >= offset[q] /\ b \in Backends
    BY <1>t DEF Turns, HistoryType
  <2>3. CASE q # r
    BY <1>t, <2>1, <2>2, <2>3 DEF CallType
  <2>4. CASE q = r
    <3>1. start[r] = next /\ next \in 0 .. N /\ offset[r] \in 0 .. N - 1
      <4>1. Search(r)
        OBVIOUS
      <4>2. start[r] = next
        BY <2>1, <4>1, ZenonT(30) DEF Search, Selecting
      <4>3. next \in 0 .. N /\ offset[r] \in 0 .. N
        BY <1>t DEF PoolType, CallType
      <4> QED BY <1>t, <2>1, <4>2, <4>3
    <3>2. Dist(b, next) # offset[r]
      BY <2>1, <2>2, <3>1, VisitedDistance DEF Visited
    <3>3. Dist(b, next) \in Nat /\ offset[r] \in Nat
      <4>1. Dist(b, next) \in Nat
        BY <1>r, <2>2, <3>1
      <4>2. offset[r] \in Nat
        BY <3>1
      <4> QED BY <4>1, <4>2
    <3>4. Dist(b, next) >= offset[r] + 1
      BY <2>2, <2>4, <3>2, <3>3
    <3>5. offset'[r] = offset[r] + 1
      BY <1>t, <2>1 DEF CallType
    <3> QED BY <2>4, <3>4, <3>5
  <2> QED BY <2>3, <2>4
<1>3. ASSUME NEW r \in Requests, Lock(r) PROVE Turns'
  <2>1. /\ offset' = [offset EXCEPT ![r] = 0] /\ pc' = [pc EXCEPT ![r] = "walk"]
        /\ UNCHANGED <<healthy, strategy, next, owed>>
    BY <1>3 DEF Lock, Goto
  <2>2. \A c \in Backends : owed[c] \subseteq Backends
    BY <1>t DEF HistoryType
  <2>3. \A c \in Backends : \A b \in owed[c] : Dist(b, next) >= 0
    BY <1>t, <1>r, <2>2 DEF PoolType
  <2> QED BY <1>t, <2>1, <2>3 DEF Turns, CallType
<1>4. ASSUME NEW r \in Requests, strategy = RoundRobin,
             \/ FirstHealthy(r) \/ LaterHealthy(r) \/ LoadLeft(r) \/ Compare(r)
      PROVE  Turns'
  <2>1. pc[r] \notin {"load", "compare"}
    BY <1>4 DEF Search, Selecting, RoundRobin, LeastConnections
  <2> QED BY <1>4, <2>1 DEF FirstHealthy, LaterHealthy, LoadLeft, Compare, RoundRobin,
                            LeastConnections
<1>5. ASSUME NEW r \in Requests, WalkDone(r) \/ Assign(r) \/ Refuse(r) PROVE Turns'
  <2>1. /\ UNCHANGED <<healthy, strategy, next, owed>>
        /\ pc'[r] # "walk"
        /\ \A q \in Requests \ {r} : ~Selecting(q)'
    BY <1>t, <1>5, OthersWait, ZenonT(30)
    DEF WalkDone, Assign, Refuse, Return, Goto, poolVars, history, CallType, Acquire
  <2> QED BY <2>1 DEF Turns, Selecting
<1>6. ASSUME NEW r \in Requests, Release(r) PROVE Turns'
  <2>1. /\ UNCHANGED <<healthy, strategy, next, owed, offset>>
        /\ ~Selecting(r)' /\ \A q \in Requests \ {r} : pc'[q] = pc[q]
    BY <1>6, ReleaseEffect, ZenonT(30) DEF history
  <2> QED BY <2>1, ZenonT(30) DEF Turns, Selecting
<1>7. ASSUME NEW b \in Backends, NEW up \in BOOLEAN, SetHealthy(b, up) PROVE Turns'
  <2>1. /\ UNCHANGED <<pc, strategy, next, offset>>
        /\ healthy' = [healthy EXCEPT ![b] = up]
        /\ owed' = [c \in Backends |-> IF up THEN owed[c] ELSE owed[c] \ {b}]
    BY <1>7 DEF SetHealthy, callVars
  <2> SUFFICES ASSUME strategy = RoundRobin, NEW c \in Backends, NEW d \in owed'[c]
               PROVE  /\ healthy'[d] /\ Dist(d, next) < Dist(c, next)
                      /\ \A r \in Requests : pc[r] = "walk" => Dist(d, next) >= offset[r]
    BY <2>1 DEF Turns
  <2>2. d \in owed[c] /\ d \in Backends /\ (d = b => up)
    BY <1>t, <2>1 DEF HistoryType
  <2> QED BY <1>t, <2>1, <2>2 DEF Turns, PoolType
<1>8. CASE UNCHANGED vars
  BY <1>8, ZenonT(30) DEF Turns, vars, poolVars, callVars, history
<1>9. strategy' = strategy
  BY ZenonT(30)
  DEF Next, Acquire, Release, Lock, Skip, PickRoundRobin, Pick, FirstHealthy,
         LaterHealthy, LoadLeft, Compare, WalkDone, Assign, Refuse, Return, ReleaseLoad,
         ReleaseRetry, ReleaseSwap, SetHealthy, vars, poolVars
<1>10. CASE strategy # RoundRobin
  BY <1>9, <1>10, Zenon DEF Turns
<1> QED
  BY <1>1, <1>2, <1>3, <1>4, <1>5, <1>6, <1>7, <1>8, <1>10 DEF Next, Acquire

-----------------------------------------------------------------------------
\* The walk's invariant, on top of IInv.
WInv ==
  /\ Mutex
  /\ \A r \in Requests : Search(r) /\ Fewest(r)
  /\ Turns

\* A new pool satisfies WInv.
LEMMA InitWInv ==
  ASSUME Init
  PROVE  WInv
<1>1. Mutex
  BY DEF Init, Mutex, Selecting
<1>2. \A r \in Requests : Search(r) /\ Fewest(r)
  BY DEF Init, Search, Fewest, Selecting
<1>3. Turns
  BY DEF Init, Turns
<1> QED BY <1>1, <1>2, <1>3 DEF WInv

\* Every step keeps WInv.
LEMMA WInvStep ==
  ASSUME IInv, WInv, [Next]_vars
  PROVE  WInv'
<1>1. Mutex'
  BY MutexStep DEF WInv
<1>2. ASSUME NEW r \in Requests PROVE Search(r)' /\ Fewest(r)'
  BY SearchStep, FewestStep DEF WInv
<1>3. Turns'
  BY TurnsStep DEF WInv
<1> QED BY <1>1, <1>2, <1>3 DEF WInv

\* When the walk has passed every backend, its choice is the least busy.
LEMMA WalkedIsFewest ==
  ASSUME IInv, WInv
  PROVE  FewestConnections
<1> SUFFICES ASSUME strategy = LeastConnections, NEW r \in Requests,
                    pc[r] = "selected", NEW b \in steady[r]
             PROVE  activeConnections[selected[r]] <= atStart[r][b]
  BY DEF FewestConnections
<1>1. selected[r] # None /\ b \in Backends
  BY BalancerAssumption DEF IInv, Walk, TypeOK, Backends, None
<1>2. offset[r] = N /\ b < N
  BY <1>1, BalancerAssumption DEF WInv, Fewest, Selecting, Backends
<1> QED BY <1>1, <1>2 DEF WInv, Fewest, Selecting

\* Every step of Acquire, Release and SetHealthy is a step of BackendPool or
\* leaves its variables alone.
LEMMA PromiseStep ==
  ASSUME IInv, Held, WInv, [Next]_vars
  PROVE  [Promise!BPNext]_(Promise!bpVars)
<1> DEFINE assigned == [r \in Requests |->
                          IF pc[r] \in {"held", "cas"} THEN selected[r] ELSE None]
<1> SUFFICES \/ Promise!BPNext
             \/ UNCHANGED <<healthy, selectionMu, assigned, steady, seen>>
  BY DEF Promise!bpVars
<1>t. /\ PoolType /\ CallType /\ HistoryType /\ N \in Nat \ {0}
  BY BalancerAssumption DEF IInv, TypeOK, PoolType, CallType, HistoryType
<1>1. ASSUME NEW r \in Requests, Lock(r) PROVE Promise!BPNext
  <2>1. assigned' = assigned /\ assigned[r] = None
    BY <1>t, <1>1 DEF Lock, Goto, CallType
  <2>2. r \notin selectionMu /\ Promise!Up = Up
    BY <1>1 DEF Lock, Promise!Up, Up
  <2>3. Promise!Ask(r)
    BY <1>1, <2>1, <2>2 DEF Lock, Promise!Ask
  <2> QED BY <2>3 DEF Promise!BPNext
<1>2. ASSUME NEW r \in Requests,
             \/ Skip(r) \/ PickRoundRobin(r) \/ FirstHealthy(r)
             \/ LaterHealthy(r) \/ LoadLeft(r) \/ Compare(r) \/ WalkDone(r)
      PROVE  UNCHANGED <<healthy, selectionMu, assigned, steady, seen>>
  <2>1. UNCHANGED <<healthy, selectionMu, steady, seen>>
    BY <1>2 DEF Skip, PickRoundRobin, Pick, FirstHealthy, LaterHealthy, LoadLeft,
                Compare, WalkDone, poolVars, history
  <2>2. ASSUME NEW q \in Requests PROVE assigned'[q] = assigned[q]
    <3>1. CASE q = r
      BY <1>t, <1>2, <3>1, ZenonT(30)
      DEF Skip, PickRoundRobin, Pick, FirstHealthy, LaterHealthy, LoadLeft, Compare,
          WalkDone, Walking, Goto, CallType
    <3>2. CASE q # r
      BY <1>t, <1>2, <3>2, Zenon
      DEF Skip, PickRoundRobin, Pick, FirstHealthy, LaterHealthy, LoadLeft, Compare,
          WalkDone, Goto, CallType
    <3> QED BY <3>1, <3>2, ZenonT(30)
  <2> QED BY <2>1, <2>2
<1>3. ASSUME NEW r \in Requests, Assign(r) PROVE Promise!BPNext
  <2>1. /\ pc[r] = "selected" /\ selected[r] \in Backends /\ selected[r] # None
    BY <1>3, BalancerAssumption DEF Assign, IInv, Walk, Backends, None
  <2>2. selected[r] \in seen[r] /\ r \in selectionMu
    BY <2>1, Zenon DEF WInv, Mutex, Search, Selecting
  <2>3. assigned' = [assigned EXCEPT ![r] = selected[r]]
    BY <1>t, <1>3, Zenon DEF Assign, Goto, CallType
  <2>4. PICK b \in Backends : b = selected[r]
    BY <2>1
  <2>5. Promise!Assign(r, b)
    BY <1>3, <2>2, <2>3, <2>4, Zenon DEF Assign, Return, Promise!Assign, Promise!Answer
  <2> QED BY <2>5 DEF Promise!BPNext
<1>4. ASSUME NEW r \in Requests, Refuse(r) PROVE Promise!BPNext
  <2>1. pc[r] = "walk" /\ selected[r] = None /\ offset[r] = N
    BY <1>4 DEF Refuse
  <2>2. \A b \in steady[r] : Dist(b, start[r]) >= N
    BY <2>1, Zenon DEF WInv, Search, Selecting
  <2>3. steady[r] \subseteq Backends /\ start[r] \in 0 .. N
    BY <1>t DEF HistoryType, CallType
  <2>4. \A b \in steady[r] : Dist(b, start[r]) \in 0 .. N - 1
    BY <2>3, DistRange
  <2>5. steady[r] = {}
    BY <1>t, <2>2, <2>4
  <2>6. assigned' = assigned
    BY <1>t, <1>4 DEF Refuse, Goto, CallType
  <2>7. r \in selectionMu
    BY <2>1 DEF WInv, Mutex, Selecting
  <2>8. Promise!Refuse(r)
    BY <1>4, <2>5, <2>6, <2>7, ZenonT(30) DEF Refuse, Return, Promise!Refuse, Promise!Answer
  <2> QED BY <2>8 DEF Promise!BPNext
<1>5. ASSUME NEW r \in Requests, ReleaseLoad(r) \/ ReleaseRetry(r)
      PROVE  UNCHANGED <<healthy, selectionMu, assigned, steady, seen>>
  <2>1. selected[r] \in Backends /\ activeConnections[selected[r]] # 0
    <3>1. pc[r] \in {"held", "cas"}
      BY <1>5 DEF ReleaseLoad, ReleaseRetry
    <3>2. /\ selected[r] \in Backends /\ activeConnections[selected[r]] \in Nat
          /\ activeConnections[selected[r]] > 0
      BY <3>1 DEF IInv, TypeOK, Walk, Held
    <3> QED BY <3>2
  <2>2. UNCHANGED <<healthy, selectionMu, steady, seen>>
    BY <1>5 DEF ReleaseLoad, ReleaseRetry, poolVars, history
  <2>3. assigned' = assigned
    BY <1>t, <1>5, <2>1 DEF ReleaseLoad, ReleaseRetry, Goto, CallType
  <2> QED BY <2>2, <2>3
<1>6. ASSUME NEW r \in Requests, ReleaseSwap(r) PROVE Promise!BPNext
  <2>1. selected[r] \in Backends /\ pc[r] = "cas"
    BY <1>6 DEF ReleaseSwap, IInv, Walk
  <2>2. assigned[r] # None
    BY <2>1, BalancerAssumption DEF Backends, None
  <2>3. assigned' = [assigned EXCEPT ![r] = None]
    BY <1>t, <1>6, ZenonT(30) DEF ReleaseSwap, Goto, CallType
  <2>4. Promise!Finish(r)
    BY <1>6, <2>2, <2>3, Zenon DEF ReleaseSwap, history, Promise!Finish
  <2> QED BY <2>4 DEF Promise!BPNext
<1>7. ASSUME NEW b \in Backends, NEW up \in BOOLEAN, SetHealthy(b, up)
      PROVE  Promise!BPNext
  <2>1. Promise!Observe(b, up)
    BY <1>7, Zenon DEF SetHealthy, callVars, Promise!Observe
  <2> QED BY <2>1 DEF Promise!BPNext
<1>8. CASE UNCHANGED vars
  BY <1>8 DEF vars, poolVars, callVars, history
<1> QED
  BY <1>1, <1>2, <1>3, <1>4, <1>5, <1>6, <1>7, <1>8, ZenonT(30) DEF Next, Acquire, Release

-----------------------------------------------------------------------------
\* The second part counts the requests that hold a backend.
INSTANCE FiniteSetTheorems

\* The users of a backend are finitely many.
LEMMA UsingFinite ==
  ASSUME NEW b
  PROVE  IsFiniteSet(Using(b))
BY FS_Subset, BalancerAssumption DEF Using

\* The step of Acquire that counts a request keeps the counters exact.
LEMMA AssignCounts ==
  ASSUME IInv, NEW r \in Requests, Assign(r)
  PROVE  ConnectionsCounted'
<1> DEFINE s == selected[r]
<1>1. s \in Backends /\ pc[r] = "selected"
  BY DEF Assign, IInv, Walk
<1>2. \A b \in Backends :
        Using(b)' = IF b = s THEN Using(b) \union {r} ELSE Using(b)
  BY <1>1 DEF Assign, Goto, IInv, TypeOK, Using
<1>3. r \notin Using(s)
  BY <1>1 DEF Using
<1>4. Cardinality(Using(s) \union {r}) = Cardinality(Using(s)) + 1
  BY <1>3, UsingFinite, FS_AddElement
<1>5. activeConnections' = [activeConnections EXCEPT ![s] = @ + 1]
  BY DEF Assign
<1> QED
  BY <1>1, <1>2, <1>4, <1>5, Zenon DEF ConnectionsCounted, IInv, TypeOK

\* A request that holds a backend is one of its users, so the counter is not
\* zero.
LEMMA HeldIsCounted ==
  ASSUME IInv
  PROVE  Held
<1> SUFFICES ASSUME NEW r \in Requests, pc[r] \in {"held", "cas"}
             PROVE  activeConnections[selected[r]] > 0
  BY DEF Held
<1> DEFINE s == selected[r]
<1>1. s \in Backends
  BY DEF IInv, Walk
<1>2. activeConnections[s] \in Nat
  BY <1>1 DEF IInv, TypeOK
<1>3. r \in Using(s)
  BY DEF Using
<1>4. Cardinality(Using(s)) # 0
  BY <1>3, UsingFinite, FS_EmptySet
<1> QED
  BY <1>1, <1>2, <1>4 DEF IInv, ConnectionsCounted

\* The successful compare-and-swap of Release keeps the counters exact.
LEMMA SwapCounts ==
  ASSUME IInv, NEW r \in Requests, ReleaseSwap(r)
  PROVE  ConnectionsCounted'
<1> DEFINE s == selected[r]
<1>1. s \in Backends /\ activeConnections[s] \in Nat /\ pc[r] = "cas"
  BY DEF ReleaseSwap, IInv, Walk, TypeOK
<1>2. \A b \in Backends : Using(b)' = IF b = s THEN Using(b) \ {r} ELSE Using(b)
  BY <1>1 DEF ReleaseSwap, Goto, IInv, TypeOK, Using
<1>3. r \in Using(s)
  BY <1>1 DEF Using
<1>4. Cardinality(Using(s) \ {r}) = Cardinality(Using(s)) - 1
  BY <1>3, UsingFinite, FS_RemoveElement, Zenon
<1>5. activeConnections' = [activeConnections EXCEPT ![s] = @ - 1]
  BY <1>1 DEF ReleaseSwap
<1> QED
  BY <1>1, <1>2, <1>4, <1>5, Zenon DEF ConnectionsCounted, IInv, TypeOK

\* A new pool satisfies IInv.
LEMMA InitIInv ==
  ASSUME Init
  PROVE  IInv
<1>1. TypeOK
  BY BalancerAssumption DEF Init, TypeOK, NoLoad, Backends, None
<1>2. Walk
  BY DEF Init, Walk
<1>3. \A b \in Backends : Using(b) = {} /\ activeConnections[b] = 0
  BY DEF Init, Using, NoLoad
<1>4. ConnectionsCounted
  BY <1>3, FS_EmptySet DEF ConnectionsCounted
<1> QED
  BY <1>1, <1>2, <1>4 DEF IInv

\* IInv holds in every state of every behaviour.
LEMMA IInvInvariant == Spec => []IInv
<1>1. IInv /\ [Next]_vars => IInv'
  BY IInvStep, HeldIsCounted, AssignCounts, SwapCounts DEF Recounted
<1> QED
  BY <1>1, InitIInv, PTL DEF Spec

\* Every variable keeps its type; in particular the rotation position never
\* exceeds the number of backends and no connection counter goes below zero.
THEOREM TypeCorrect == Spec => []TypeOK
<1>1. IInv => TypeOK
  BY DEF IInv
<1> QED
  BY <1>1, IInvInvariant, PTL

\* For any number of requests and backends, a backend's counter is exactly the
\* number of requests that hold it: no increment or compare-and-swap is lost,
\* and the clamp at zero in Release is never taken by a request.
THEOREM ConnectionsAlwaysCounted == Spec => []ConnectionsCounted
<1>1. IInv => ConnectionsCounted
  BY DEF IInv
<1> QED
  BY <1>1, IInvInvariant, PTL

\* WInv, with IInv, holds in every state of every behaviour.
LEMMA WInvInvariant == Spec => [](IInv /\ WInv)
BY InitWInv, WInvStep, IInvInvariant, PTL DEF Spec

\* Least connections, for any number of backends and concurrent releases: the
\* backend about to be assigned is no busier than any backend that stayed
\* healthy was when the walk began (nextLeastConnections).
THEOREM FewestConnectionsChosen == Spec => []FewestConnections
BY WalkedIsFewest, WInvInvariant, PTL

\* Round robin, for any number of backends and any health changes: no backend
\* is picked again before every backend that stayed healthy since has had its
\* turn (nextRoundRobin).
THEOREM RotationAlwaysEven == Spec => EvenRotation
<1>1. IInv /\ WInv /\ [Next]_vars =>
        [\A r \in Requests : PickRoundRobin(r) => owed[Visited(r)] = {}]_vars
  BY PickOwesNothing DEF WInv
<1> QED
  BY <1>1, WInvInvariant, PTL DEF Spec, EvenRotation

\* Pool.Acquire and Release keep BackendPool's promise: an assigned backend was
\* healthy at some moment of the call, and a refusal means that no backend was
\* healthy throughout it.
THEOREM BalancerImplementsBackendPool == Spec => ImplementsBackendPool
<1>1. Init => Promise!BPInit
  BY DEF Init, Promise!BPInit
<1>2. IInv /\ WInv /\ [Next]_vars => [Promise!BPNext]_(Promise!bpVars)
  BY PromiseStep, HeldIsCounted
<1> QED
  BY <1>1, <1>2, WInvInvariant, PTL DEF Spec, ImplementsBackendPool, Promise!BPSpec
=============================================================================
