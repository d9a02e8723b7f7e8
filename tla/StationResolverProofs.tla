------------------------ MODULE StationResolverProofs ------------------------
(***************************************************************************)
(* Theorems about StationResolver, for any finite sets of callers and      *)
(* codes, any concurrency and any cache size.                              *)
(***************************************************************************)
EXTENDS StationResolver, SequenceTheorems, FiniteSetTheorems, TLAPS

\* Removing an element of a sequence closes the gap.
LEMMA RemoveAtProperties ==
  ASSUME NEW S, NEW s \in Seq(S), NEW i \in 1..Len(s)
  PROVE  /\ RemoveAt(s, i) \in Seq(S)
         /\ Len(RemoveAt(s, i)) = Len(s) - 1
         /\ \A j \in 1..(Len(s) - 1) :
              RemoveAt(s, i)[j] = IF j < i THEN s[j] ELSE s[j + 1]
  <1> DEFINE front == SubSeq(s, 1, i - 1)
             back  == SubSeq(s, i + 1, Len(s))
  <1>1. /\ front \in Seq(S) /\ Len(front) = i - 1
        /\ \A j \in 1..(i - 1) : front[j] = s[j]
    BY SubSeqProperties
  <1>2. /\ back \in Seq(S) /\ Len(back) = Len(s) - i
        /\ \A j \in 1..(Len(s) - i) : back[j] = s[i + j]
    BY SubSeqProperties
  <1>3. RemoveAt(s, i) = front \o back
    BY DEF RemoveAt
  <1> HIDE DEF front, back
  <1>4. /\ front \o back \in Seq(S)
        /\ Len(front \o back) = Len(front) + Len(back)
        /\ \A j \in 1..(Len(front) + Len(back)) :
             (front \o back)[j] = IF j <= Len(front) THEN front[j]
                                                    ELSE back[j - Len(front)]
    BY <1>1, <1>2, ConcatProperties
  <1>5. Len(s) \in Nat /\ Len(front) + Len(back) = Len(s) - 1
    BY <1>1, <1>2
  <1>6. ASSUME NEW j \in 1..(Len(s) - 1)
        PROVE  (front \o back)[j] = IF j < i THEN s[j] ELSE s[j + 1]
    <2>1. CASE j <= i - 1
      BY <1>1, <1>4, <1>5, <2>1
    <2>2. CASE ~(j <= i - 1)
      <3>1. PICK k \in 1..(Len(s) - i) : k = j - (i - 1) /\ i + k = j + 1
        BY <1>5, <2>2
      <3>2. (front \o back)[j] = back[k]
        BY <1>1, <1>4, <1>5, <2>2, <3>1
      <3>3. back[k] = s[j + 1]
        BY <1>2, <3>1
      <3>4. QED
        BY <2>2, <3>2, <3>3
    <2>3. QED
      BY <2>1, <2>2
  <1>7. QED
    BY <1>3, <1>4, <1>5, <1>6

-----------------------------------------------------------------------------
(* Type correctness *)

SemaphoreOK ==
  /\ permits \in Nat
  /\ waiters \in Seq(Call)
  /\ call \in [Call -> CallState]

\* The semaphore operations keep the queue and the calls well-typed.
LEMMA EnterType ==
  ASSUME SemaphoreOK, NEW c \in Call, Enter(c)
  PROVE  SemaphoreOK'
  BY DEF SemaphoreOK, Enter, CallState

LEMMA LeaveType ==
  ASSUME SemaphoreOK, NEW c \in Call, NEW st \in CallState, Leave(c, st)
  PROVE  SemaphoreOK'
  <1>1. CASE Live = {} /\ permits' = permits + 1
    BY <1>1 DEF SemaphoreOK, Leave, CallState
  <1>2. ASSUME NEW i \in Live,
               call' = [call EXCEPT ![c] = st, ![waiters[i]] = "calling"],
               waiters' = RemoveAt(waiters, i), UNCHANGED permits
        PROVE  SemaphoreOK'
    <2>1. i \in 1..Len(waiters)
      BY DEF Live, SemaphoreOK
    <2>2. waiters' \in Seq(Call)
      BY <1>2, <2>1, RemoveAtProperties DEF SemaphoreOK
    <2>3. call' \in [Call -> CallState]
      BY <1>2 DEF SemaphoreOK, CallState
    <2>4. QED
      BY <1>2, <2>2, <2>3 DEF SemaphoreOK
  <1>3. QED
    BY <1>1, <1>2 DEF Leave, SemaphoreOK

LEMMA ReenterType ==
  ASSUME SemaphoreOK, NEW c \in Call, Reenter(c)
  PROVE  SemaphoreOK'
  <1>1. CASE UNCHANGED <<permits, waiters, call>>
    BY <1>1 DEF SemaphoreOK
  <1>2. ASSUME NEW i \in Live,
               call' = [call EXCEPT ![c] = "waiting", ![waiters[i]] = "calling"],
               waiters' = Append(RemoveAt(waiters, i), c), UNCHANGED permits
        PROVE  SemaphoreOK'
    <2>1. i \in 1..Len(waiters)
      BY DEF Live, SemaphoreOK
    <2>2. RemoveAt(waiters, i) \in Seq(Call)
      BY <2>1, RemoveAtProperties DEF SemaphoreOK
    <2>3. waiters' \in Seq(Call)
      BY <1>2, <2>2
    <2>4. call' \in [Call -> CallState]
      BY <1>2 DEF SemaphoreOK, CallState
    <2>5. QED
      BY <1>2, <2>3, <2>4 DEF SemaphoreOK
  <1>3. QED
    BY <1>1, <1>2 DEF Reenter

LEMMA UnwindType ==
  ASSUME SemaphoreOK, NEW c \in Call, Unwind(c)
  PROVE  SemaphoreOK'
  <1>1. CASE call[c] = "unwinding" /\ Leave(c, "cancelled")
    BY <1>1, LeaveType DEF CallState
  <1>2. ASSUME NEW i \in DOMAIN waiters,
               waiters' = RemoveAt(waiters, i),
               call' = [call EXCEPT ![c] = "cancelled"], UNCHANGED permits
        PROVE  SemaphoreOK'
    <2>1. waiters' \in Seq(Call)
      BY <1>2, RemoveAtProperties DEF SemaphoreOK
    <2>2. QED
      BY <1>2, <2>1 DEF SemaphoreOK, CallState
  <1>3. QED
    BY <1>1, <1>2 DEF Unwind

LEMMA CancelType ==
  ASSUME SemaphoreOK, NEW C, CancelCalls(C), UNCHANGED <<permits, waiters>>
  PROVE  SemaphoreOK'
  BY DEF SemaphoreOK, CancelCalls, AfterCancel, CallState

\* Writing an entry keeps the name cache well-typed.
LEMMA StoreType ==
  ASSUME nameCache \in Seq(CacheEntry), NEW k \in Queries, NEW id \in StopId,
         Store(k, id)
  PROVE  nameCache' \in Seq(CacheEntry)
  <1>1. Kept \in Seq(CacheEntry)
    <2>1. CASE Len(nameCache) >= NameCacheMax
      <3>1. nameCache # <<>>
        BY <2>1, ResolverAssumption
      <3>2. QED
        BY <2>1, <3>1, HeadTailProperties DEF Kept
    <2>2. CASE ~(Len(nameCache) >= NameCacheMax)
      BY <2>2 DEF Kept
    <2>3. QED
      BY <2>1, <2>2
  <1>2. [key |-> k, id |-> id] \in CacheEntry
    BY DEF CacheEntry
  <1>3. CASE nameCache' = Append(Kept, [key |-> k, id |-> id])
    BY <1>1, <1>2, <1>3
  <1>4. CASE nameCache' = [i \in DOMAIN Kept |->
               IF Kept[i].key = k THEN [key |-> k, id |-> id] ELSE Kept[i]]
    <2>1. DOMAIN Kept = 1..Len(Kept) /\ Len(Kept) \in Nat
      BY <1>1
    <2>2. \A i \in 1..Len(Kept) : nameCache'[i] \in CacheEntry
      BY <1>1, <1>2, <1>4, <2>1
    <2>3. QED
      BY <1>4, <2>1, <2>2
  <1>5. QED
    BY <1>3, <1>4 DEF Store

\* A search dereferences nothing but hubs: RailChild is applied to hubs only.
DerefsHub ==
  \A s \in Searches :
    search[s].pc = "dereferencing" => TopMatch[search[s].query] \in Hubs

LEMMA DerefsHubStep ==
  ASSUME TypeOK, DerefsHub, [Next]_vars
  PROVE  DerefsHub'
  <1> DEFINE S == [Searches -> [pc : Resting \cup {"searching", "dereferencing", "aborting"},
                                query : Queries, id : StopId]]
  <1>1. search \in S
    BY DEF TypeOK
  <1>2. CASE UNCHANGED search
    BY <1>2 DEF DerefsHub
  <1>3. ASSUME NEW s \in Searches,
               \/ \E q \in Queries : SearchStart(s, q)
               \/ SearchFail(s) \/ SearchAnswer(s) \/ DerefFail(s) \/ DerefAnswer(s)
               \/ SearchCancel(s) \/ SearchAbort(s)
        PROVE  DerefsHub'
    <2>1. CASE \E q \in Queries : SearchStart(s, q)
      BY <1>1, <2>1 DEF SearchStart, DerefsHub, Resting
    <2>2. CASE SearchFail(s) \/ DerefFail(s) \/ DerefAnswer(s)
      BY <1>1, <2>2 DEF SearchFail, DerefFail, DerefAnswer, Return, DerefsHub
    <2>3. CASE SearchAnswer(s)
      BY <1>1, <2>3 DEF SearchAnswer, Return, DerefsHub
    <2>4. CASE SearchCancel(s) \/ SearchAbort(s)
      BY <1>1, <2>4 DEF SearchCancel, SearchAbort, DerefsHub
    <2>5. QED
      BY <1>3, <2>1, <2>2, <2>3, <2>4
  <1>4. QED
    BY <1>2, <1>3 DEF Next, vars, BatchStart, LookupBegin, LookupAnswer, BatchWake,
                      BatchFinish, BatchCancel, BatchAbort, Unwind

LEMMA TypeStep ==
  ASSUME TypeOK, DerefsHub, [Next]_vars
  PROVE  TypeOK'
  <1>0. SemaphoreOK
    BY DEF TypeOK, SemaphoreOK
  <1> DEFINE B == [Batches -> [pc : Resting \cup {"awaiting", "settling", "aborting"},
                               ids : SUBSET Naptans,
                               result : [Naptans -> Name \cup {Absent}]]]
             S == [Searches -> [pc : Resting \cup {"searching", "dereferencing", "aborting"},
                                query : Queries, id : StopId]]
  <1>a. batch \in B /\ search \in S
    BY DEF TypeOK
  <1>b. ASSUME SemaphoreOK', batch' \in B, search' \in S,
               naptanCache' \in [Naptans -> Name \cup {Absent}],
               nameCache' \in Seq(CacheEntry), UNCHANGED tflClient
        PROVE  TypeOK'
    BY <1>b DEF TypeOK, SemaphoreOK
  <1>1. ASSUME NEW b \in Batches, NEW ids \in SUBSET Naptans, BatchStart(b, ids)
        PROVE  TypeOK'
    <2>1. SemaphoreOK'
      BY <1>0, <1>1 DEF BatchStart, SemaphoreOK, CallState
    <2>2. batch' \in B
      BY <1>a, <1>1 DEF BatchStart, TypeOK, Name, Resting
    <2>3. QED
      BY <1>a, <1>b, <1>1, <2>1, <2>2 DEF BatchStart, TypeOK
  <1>2. ASSUME NEW c \in Call, LookupBegin(c)
        PROVE  TypeOK'
    BY <1>0, <1>a, <1>b, <1>2, EnterType DEF LookupBegin, TypeOK
  <1>3. ASSUME NEW b \in Batches, NEW n \in Naptans, LookupAnswer(b, n)
        PROVE  TypeOK'
    <2>1. SemaphoreOK'
      BY <1>0, <1>3, LeaveType DEF LookupAnswer, Call, CallState
    <2>2. QED
      BY <1>a, <1>b, <1>3, <2>1 DEF LookupAnswer, TypeOK
  <1>4. ASSUME NEW b \in Batches, BatchWake(b)
        PROVE  TypeOK'
    <2>1. SemaphoreOK'
      BY <1>0, <1>4, CancelType DEF BatchWake
    <2>2. batch' \in B
      BY <1>a, <1>4 DEF BatchWake, Resting
    <2>3. QED
      BY <1>a, <1>b, <1>4, <2>1, <2>2 DEF BatchWake, TypeOK
  <1>5. ASSUME NEW b \in Batches, BatchFinish(b)
        PROVE  TypeOK'
    <2>1. SemaphoreOK'
      BY <1>0, <1>5 DEF BatchFinish, SemaphoreOK, CallState
    <2>2. batch' \in B
      <3> DEFINE told == [n \in Naptans |->
                    IF call[<<b, n>>] \in Answered
                    THEN IF call[<<b, n>>] = "found" THEN n ELSE None
                    ELSE batch[b].result[n]]
      <3>1. batch[b].result \in [Naptans -> Name \cup {Absent}]
        BY <1>a
      <3>2. told \in [Naptans -> Name \cup {Absent}]
        BY <3>1 DEF Name
      <3>3. batch' = [batch EXCEPT ![b].pc = "returned", ![b].result = told]
        BY <1>5 DEF BatchFinish
      <3> HIDE DEF told
      <3>4. QED
        BY <1>a, <3>2, <3>3 DEF Resting
    <2>3. naptanCache' \in [Naptans -> Name \cup {Absent}]
      BY <1>5 DEF BatchFinish, TypeOK, Name
    <2>4. QED
      BY <1>a, <1>b, <1>5, <2>1, <2>2, <2>3 DEF BatchFinish, TypeOK
  <1>6. ASSUME NEW b \in Batches, BatchCancel(b)
        PROVE  TypeOK'
    <2>1. SemaphoreOK'
      BY <1>0, <1>6, CancelType DEF BatchCancel
    <2>2. batch' \in B
      BY <1>a, <1>6 DEF BatchCancel, Resting
    <2>3. QED
      BY <1>a, <1>b, <1>6, <2>1, <2>2 DEF BatchCancel, TypeOK
  <1>7. ASSUME NEW b \in Batches, BatchAbort(b)
        PROVE  TypeOK'
    <2>1. SemaphoreOK'
      BY <1>0, <1>7 DEF BatchAbort, SemaphoreOK, CallState
    <2>2. batch' \in B
      BY <1>a, <1>7 DEF BatchAbort, Resting
    <2>3. QED
      BY <1>a, <1>b, <1>7, <2>1, <2>2 DEF BatchAbort, TypeOK
  <1>8. ASSUME NEW s \in Searches, NEW q \in Queries, SearchStart(s, q)
        PROVE  TypeOK'
    <2>1. SemaphoreOK'
      BY <1>0, <1>8, EnterType DEF SearchStart, SemaphoreOK, Call
    <2>2. \A i \in Cached(CacheKey[q]) : nameCache[i].id \in StopId
      <3>1. \A i \in 1..Len(nameCache) : nameCache[i] \in CacheEntry
        BY DEF TypeOK
      <3>2. QED
        BY <3>1 DEF Cached, TypeOK, CacheEntry
    <2>3. search' \in S
      BY <1>a, <1>8, <2>2 DEF SearchStart, Resting, StopId
    <2>4. QED
      BY <1>a, <1>b, <1>8, <2>1, <2>3 DEF SearchStart, TypeOK
  <1>9. ASSUME NEW s \in Searches, SearchFail(s)
        PROVE  TypeOK'
    <2>1. SemaphoreOK'
      BY <1>0, <1>9, LeaveType DEF SearchFail, Call, CallState
    <2>2. search' \in S
      BY <1>a, <1>9 DEF SearchFail, Return, Resting, StopId
    <2>3. QED
      BY <1>a, <1>b, <1>9, <2>1, <2>2 DEF SearchFail, TypeOK
  <1>10. ASSUME NEW s \in Searches, SearchAnswer(s)
         PROVE  TypeOK'
    <2>1. SemaphoreOK'
      BY <1>0, <1>10, LeaveType, ReenterType DEF SearchAnswer, Call, CallState
    <2>2. /\ search[s].query \in Queries
          /\ CacheKey[search[s].query] \in Queries
          /\ TopMatch[search[s].query] \in StopId
      BY <1>a, ResolverAssumption DEF StopId
    <2>3. search' \in S
      BY <1>a, <1>10, <2>2 DEF SearchAnswer, Return, Resting
    <2>4. nameCache' \in Seq(CacheEntry)
      BY <1>10, <2>2, StoreType DEF SearchAnswer, TypeOK
    <2>5. QED
      BY <1>a, <1>b, <1>10, <2>1, <2>3, <2>4 DEF SearchAnswer, TypeOK
  <1>11. ASSUME NEW s \in Searches, DerefFail(s)
         PROVE  TypeOK'
    <2>1. SemaphoreOK'
      BY <1>0, <1>11, LeaveType DEF DerefFail, Call, CallState
    <2>2. TopMatch[search[s].query] \in StopId
      BY <1>a, ResolverAssumption DEF StopId
    <2>3. search' \in S
      BY <1>a, <1>11, <2>2 DEF DerefFail, Return, Resting
    <2>4. QED
      BY <1>a, <1>b, <1>11, <2>1, <2>3 DEF DerefFail, TypeOK
  <1>12. ASSUME NEW s \in Searches, DerefAnswer(s)
         PROVE  TypeOK'
    <2> DEFINE id == Endpoint(TopMatch[search[s].query])
    <2>1. SemaphoreOK'
      BY <1>0, <1>12, LeaveType DEF DerefAnswer, Call, CallState
    <2>2. /\ search[s].query \in Queries
          /\ CacheKey[search[s].query] \in Queries
      BY <1>a, ResolverAssumption
    <2>3. id \in StopId
      <3>1. TopMatch[search[s].query] \in Hubs
        BY <1>12 DEF DerefAnswer, DerefsHub
      <3>2. QED
        BY <3>1, ResolverAssumption DEF Endpoint, StopId
    <2>4. search' \in S
      BY <1>a, <1>12, <2>3 DEF DerefAnswer, Return, Resting
    <2>5. nameCache' \in Seq(CacheEntry)
      BY <1>12, <2>2, <2>3, StoreType DEF DerefAnswer, TypeOK
    <2>6. QED
      BY <1>a, <1>b, <1>12, <2>1, <2>4, <2>5 DEF DerefAnswer, TypeOK
  <1>13. ASSUME NEW s \in Searches, SearchCancel(s)
         PROVE  TypeOK'
    <2>1. SemaphoreOK'
      BY <1>0, <1>13, CancelType DEF SearchCancel
    <2>2. search' \in S
      BY <1>a, <1>13 DEF SearchCancel
    <2>3. QED
      BY <1>a, <1>b, <1>13, <2>1, <2>2 DEF SearchCancel, TypeOK
  <1>14. ASSUME NEW s \in Searches, SearchAbort(s)
         PROVE  TypeOK'
    <2>1. SemaphoreOK'
      BY <1>0, <1>14 DEF SearchAbort, SemaphoreOK, CallState
    <2>2. search' \in S
      BY <1>a, <1>14 DEF SearchAbort, Resting
    <2>3. QED
      BY <1>a, <1>b, <1>14, <2>1, <2>2 DEF SearchAbort, TypeOK
  <1>15. ASSUME NEW c \in Call, Unwind(c)
         PROVE  TypeOK'
    BY <1>0, <1>a, <1>b, <1>15, UnwindType DEF Unwind, TypeOK
  <1>16. CASE UNCHANGED vars
    BY <1>16 DEF vars, TypeOK
  <1>17. \A b \in Batches, n \in Naptans : <<b, n>> \in Call
    BY DEF Call
  <1>18. QED
    BY <1>1, <1>2, <1>3, <1>4, <1>5, <1>6, <1>7, <1>8, <1>9, <1>10, <1>11,
       <1>12, <1>13, <1>14, <1>15, <1>16, <1>17 DEF Next

TypeInv == TypeOK /\ DerefsHub

LEMMA TypeInvariant == Spec => []TypeInv
  <1>1. Init => TypeInv
    BY ResolverAssumption
    DEF Init, TypeInv, TypeOK, DerefsHub, CallState, Resting, Name, StopId, CacheEntry
  <1>2. TypeInv /\ [Next]_vars => TypeInv'
    BY TypeStep, DerefsHubStep DEF TypeInv
  <1>3. QED
    BY <1>1, <1>2, PTL DEF Spec

\* Both resolvers keep their state well-typed under every interleaving: no
\* call, cache entry or answer ever takes a value the code does not handle.
THEOREM TypeCorrect == Spec => []TypeOK
  BY TypeInvariant, PTL DEF TypeInv

-----------------------------------------------------------------------------
(* The semaphore: what its operations preserve *)

Engaged == {"waiting", "withdrawn", "calling", "unwinding"}

\* The queue holds exactly the calls that wait or have been withdrawn, once.
QueueExact ==
  /\ \A i \in DOMAIN waiters : call[waiters[i]] \in {"waiting", "withdrawn"}
  /\ \A i, j \in DOMAIN waiters : waiters[i] = waiters[j] => i = j
  /\ \A c \in Call : call[c] \in {"waiting", "withdrawn"} =>
        \E i \in DOMAIN waiters : waiters[i] = c

\* A call waits only while every permit is taken.
WaitsOnlyWhenBusy == \A c \in Call : call[c] = "waiting" => permits = 0

SemaphoreInv ==
  /\ SemaphoreOK
  /\ QueueExact
  /\ WaitsOnlyWhenBusy
  /\ PermitsAccounted

\* Exchanging one element for another leaves the size as it was.
LEMMA ExchangeCardinality ==
  ASSUME NEW S, IsFiniteSet(S), NEW x \in S, NEW y, y \notin S
  PROVE  Cardinality((S \ {x}) \cup {y}) = Cardinality(S)
  <1>1. IsFiniteSet(S \ {x}) /\ Cardinality(S \ {x}) = Cardinality(S) - 1
    BY FS_RemoveElement
  <1>2. Cardinality((S \ {x}) \cup {y}) = Cardinality(S \ {x}) + 1
    BY <1>1, FS_AddElement
  <1>3. Cardinality(S) \in Nat
    BY FS_CardinalityType
  <1>4. QED
    BY <1>1, <1>2, <1>3

LEMMA CallsFinite == IsFiniteSet(Call)
  <1>1. IsFiniteSet(Batches \X Naptans)
    BY FS_Product, ResolverAssumption
  <1>2. QED
    BY <1>1, FS_Union, ResolverAssumption DEF Call

LEMMA HoldersFinite ==
  /\ IsFiniteSet(Holders) /\ Cardinality(Holders) \in Nat
  /\ IsFiniteSet(Holders') /\ Cardinality(Holders') \in Nat
  <1>1. Holders \in SUBSET Call /\ Holders' \in SUBSET Call
    BY DEF Holders
  <1>2. QED
    BY <1>1, CallsFinite, FS_Subset, FS_CardinalityType

\* A call that is not engaged enters: it holds a permit or is queued.
LEMMA EnterKeeps ==
  ASSUME SemaphoreInv, NEW c \in Call, call[c] \notin Engaged, Enter(c)
  PROVE  SemaphoreInv'
  <1> USE DEF SemaphoreInv
  <1>1. SemaphoreOK'
    BY EnterType
  <1>2. CASE /\ permits > 0 /\ Live = {} /\ permits' = permits - 1
             /\ call' = [call EXCEPT ![c] = "calling"] /\ UNCHANGED waiters
    <2>1. Holders' = Holders \cup {c} /\ c \notin Holders
      BY <1>2 DEF Holders, SemaphoreOK, Engaged
    <2>2. PermitsAccounted'
      BY <1>2, <2>1, HoldersFinite, FS_AddElement, ResolverAssumption
      DEF PermitsAccounted, SemaphoreOK
    <2>3. QueueExact'
      BY <1>2 DEF QueueExact, SemaphoreOK, Engaged
    <2>4. WaitsOnlyWhenBusy'
      BY <1>2 DEF WaitsOnlyWhenBusy, SemaphoreOK
    <2>5. QED
      BY <1>1, <2>2, <2>3, <2>4
  <1>3. CASE /\ permits = 0 \/ Live # {}
             /\ call' = [call EXCEPT ![c] = "waiting"]
             /\ waiters' = Append(waiters, c) /\ UNCHANGED permits
    <2>1. Holders' = Holders
      BY <1>3 DEF Holders, SemaphoreOK, Engaged
    <2>2. PermitsAccounted'
      BY <1>3, <2>1 DEF PermitsAccounted
    <2>3. /\ Len(waiters) \in Nat /\ DOMAIN waiters = 1..Len(waiters)
          /\ DOMAIN waiters' = 1..(Len(waiters) + 1)
          /\ waiters'[Len(waiters) + 1] = c
          /\ \A i \in 1..Len(waiters) : waiters'[i] = waiters[i] /\ waiters[i] # c
      BY <1>3 DEF QueueExact, SemaphoreOK, Engaged
    <2>4. QueueExact'
      <3>1. \A i \in DOMAIN waiters' : call'[waiters'[i]] \in {"waiting", "withdrawn"}
        BY <1>3, <2>3 DEF QueueExact, SemaphoreOK
      <3>2. \A i, j \in DOMAIN waiters' : waiters'[i] = waiters'[j] => i = j
        BY <2>3 DEF QueueExact
      <3>3. \A d \in Call : call'[d] \in {"waiting", "withdrawn"} =>
               \E i \in DOMAIN waiters' : waiters'[i] = d
        BY <1>3, <2>3 DEF QueueExact, SemaphoreOK
      <3>4. QED
        BY <3>1, <3>2, <3>3 DEF QueueExact
    <2>5. permits = 0
      BY <1>3 DEF Live, WaitsOnlyWhenBusy, SemaphoreOK
    <2>6. QED
      BY <1>1, <1>3, <2>2, <2>4, <2>5 DEF WaitsOnlyWhenBusy
  <1>4. QED
    BY <1>2, <1>3 DEF Enter

\* Taking the i-th call out of the queue, for whatever becomes of it.
LEMMA DequeueKeeps ==
  ASSUME SemaphoreOK, SemaphoreOK', QueueExact, NEW i \in DOMAIN waiters,
         waiters' = RemoveAt(waiters, i),
         call'[waiters[i]] \notin {"waiting", "withdrawn"},
         \A d \in Call : d # waiters[i] =>
           (call'[d] \in {"waiting", "withdrawn"} <=> call[d] \in {"waiting", "withdrawn"})
  PROVE  QueueExact'
  <1>1. /\ Len(waiters) \in Nat /\ DOMAIN waiters = 1..Len(waiters)
        /\ i \in 1..Len(waiters)
        /\ \A j \in 1..Len(waiters) : waiters[j] \in Call
    BY DEF SemaphoreOK
  <1>2. /\ DOMAIN waiters' = 1..(Len(waiters) - 1)
        /\ \A j \in 1..(Len(waiters) - 1) :
             waiters'[j] = IF j < i THEN waiters[j] ELSE waiters[j + 1]
    BY <1>1, RemoveAtProperties DEF SemaphoreOK
  <1>3. ASSUME NEW j \in DOMAIN waiters'
        PROVE  \E k \in DOMAIN waiters : k # i /\ waiters'[j] = waiters[k]
    <2>1. CASE j < i
      BY <1>1, <1>2, <2>1
    <2>2. CASE ~(j < i)
      <3>1. j + 1 \in DOMAIN waiters /\ j + 1 # i /\ waiters'[j] = waiters[j + 1]
        BY <1>1, <1>2, <2>2
      <3>2. QED
        BY <3>1
    <2>3. QED
      BY <2>1, <2>2
  <1>4. \A j \in DOMAIN waiters' : call'[waiters'[j]] \in {"waiting", "withdrawn"}
    BY <1>1, <1>3 DEF QueueExact
  <1>5. \A j, k \in DOMAIN waiters' : waiters'[j] = waiters'[k] => j = k
    BY <1>1, <1>2 DEF QueueExact
  <1>6. ASSUME NEW d \in Call, call'[d] \in {"waiting", "withdrawn"}
        PROVE  \E j \in DOMAIN waiters' : waiters'[j] = d
    <2>1. d # waiters[i]
      BY <1>6
    <2>2. PICK k \in DOMAIN waiters : waiters[k] = d
      BY <1>6, <2>1 DEF QueueExact
    <2>3. CASE k < i
      BY <1>1, <1>2, <2>2, <2>3
    <2>4. CASE k > i
      <3>1. k - 1 \in DOMAIN waiters' /\ waiters'[k - 1] = waiters[k - 1 + 1]
        BY <1>1, <1>2, <2>4
      <3>2. k - 1 + 1 = k
        BY <1>1
      <3>3. QED
        BY <2>2, <3>1, <3>2
    <2>5. QED
      BY <1>1, <2>1, <2>2, <2>3, <2>4
  <1>7. QED
    BY <1>4, <1>5, <1>6 DEF QueueExact

\* A permit goes from c to the i-th waiter; c is left in state st.
LEMMA HandOverKeeps ==
  ASSUME SemaphoreInv, NEW c \in Call, call[c] \in {"calling", "unwinding"},
         NEW st \in CallState \ {"waiting", "withdrawn", "calling", "unwinding"},
         NEW i \in Live,
         call' = [call EXCEPT ![c] = st, ![waiters[i]] = "calling"],
         waiters' = RemoveAt(waiters, i), UNCHANGED permits,
         SemaphoreOK'
  PROVE  SemaphoreInv'
  <1> USE DEF SemaphoreInv
  <1>1. /\ i \in DOMAIN waiters /\ waiters[i] \in Call
        /\ call[waiters[i]] = "waiting" /\ waiters[i] # c
    BY DEF Live, SemaphoreOK
  <1>2. /\ call'[c] = st /\ call'[waiters[i]] = "calling"
        /\ \A d \in Call \ {c, waiters[i]} : call'[d] = call[d]
    BY <1>1 DEF SemaphoreOK
  <1>3. Holders' = (Holders \ {c}) \cup {waiters[i]} /\ c \in Holders /\ waiters[i] \notin Holders
    BY <1>1, <1>2 DEF Holders
  <1>4. Cardinality(Holders') = Cardinality(Holders)
    BY <1>3, HoldersFinite, ExchangeCardinality
  <1>5. QueueExact'
    BY <1>1, <1>2, DequeueKeeps
  <1>6. WaitsOnlyWhenBusy'
    BY <1>1, <1>2 DEF WaitsOnlyWhenBusy
  <1>7. QED
    BY <1>4, <1>5, <1>6 DEF PermitsAccounted

\* Nobody is waiting: the permit becomes free.
LEMMA LeaveKeeps ==
  ASSUME SemaphoreInv, NEW c \in Call, call[c] \in {"calling", "unwinding"},
         NEW st \in CallState \ {"waiting", "withdrawn", "calling", "unwinding"},
         Leave(c, st)
  PROVE  SemaphoreInv'
  <1>1. SemaphoreOK'
    BY LeaveType DEF SemaphoreInv
  <1>2. CASE /\ Live = {} /\ permits' = permits + 1
             /\ call' = [call EXCEPT ![c] = st] /\ UNCHANGED waiters
    <2> USE DEF SemaphoreInv
    <2>1. Holders' = Holders \ {c} /\ c \in Holders
      BY <1>2 DEF Holders, SemaphoreOK
    <2>2. PermitsAccounted'
      <3>1. Cardinality(Holders') = Cardinality(Holders) - 1
        BY <2>1, HoldersFinite, FS_RemoveElement
      <3>2. QED
        BY <1>2, <3>1, HoldersFinite DEF PermitsAccounted, SemaphoreOK
    <2>3. QueueExact'
      BY <1>2 DEF QueueExact, SemaphoreOK
    <2>4. \A d \in Call : call[d] # "waiting"
      BY <1>2 DEF QueueExact, Live
    <2>5. WaitsOnlyWhenBusy'
      BY <1>2, <2>4 DEF WaitsOnlyWhenBusy, SemaphoreOK
    <2>6. QED
      BY <1>1, <2>2, <2>3, <2>5
  <1>3. ASSUME NEW i \in Live,
               call' = [call EXCEPT ![c] = st, ![waiters[i]] = "calling"],
               waiters' = RemoveAt(waiters, i), UNCHANGED permits
        PROVE  SemaphoreInv'
    BY <1>1, <1>3, HandOverKeeps
  <1>4. QED
    BY <1>2, <1>3 DEF Leave

\* A search between its two calls either keeps its permit or hands it over
\* and queues again.
LEMMA ReenterKeeps ==
  ASSUME SemaphoreInv, NEW c \in Call, call[c] = "calling", Reenter(c)
  PROVE  SemaphoreInv'
  <1> USE DEF SemaphoreInv
  <1>1. SemaphoreOK'
    BY ReenterType
  <1>2. CASE UNCHANGED <<permits, waiters, call>>
    BY <1>1, <1>2 DEF QueueExact, WaitsOnlyWhenBusy, PermitsAccounted, Holders
  <1>3. ASSUME NEW i \in Live,
               call' = [call EXCEPT ![c] = "waiting", ![waiters[i]] = "calling"],
               waiters' = Append(RemoveAt(waiters, i), c), UNCHANGED permits
        PROVE  SemaphoreInv'
    <2>1. /\ i \in DOMAIN waiters /\ waiters[i] \in Call
          /\ call[waiters[i]] = "waiting" /\ waiters[i] # c
      BY DEF Live, SemaphoreOK
    <2>2. /\ call'[c] = "waiting" /\ call'[waiters[i]] = "calling"
          /\ \A d \in Call \ {c, waiters[i]} : call'[d] = call[d]
      BY <1>3, <2>1 DEF SemaphoreOK
    <2>3. Holders' = (Holders \ {c}) \cup {waiters[i]} /\ c \in Holders /\ waiters[i] \notin Holders
      BY <2>1, <2>2 DEF Holders
    <2>4. Cardinality(Holders') = Cardinality(Holders)
      BY <2>3, HoldersFinite, ExchangeCardinality
    <2>5. permits = 0
      BY <2>1 DEF WaitsOnlyWhenBusy
    <2>6. QueueExact'
      <3> DEFINE rest == RemoveAt(waiters, i)
      <3>1. /\ Len(waiters) \in Nat /\ DOMAIN waiters = 1..Len(waiters)
            /\ i \in 1..Len(waiters)
            /\ \A j \in 1..Len(waiters) : waiters[j] \in Call /\ waiters[j] # c
        BY <2>1 DEF QueueExact, SemaphoreOK
      <3>2. /\ rest \in Seq(Call) /\ Len(rest) = Len(waiters) - 1
            /\ \A j \in 1..(Len(waiters) - 1) :
                 rest[j] = IF j < i THEN waiters[j] ELSE waiters[j + 1]
        BY <3>1, RemoveAtProperties DEF SemaphoreOK
      <3> HIDE DEF rest
      <3>3. /\ DOMAIN waiters' = 1..Len(waiters)
            /\ waiters'[Len(waiters)] = c
            /\ \A j \in 1..(Len(waiters) - 1) :
                 waiters'[j] = IF j < i THEN waiters[j] ELSE waiters[j + 1]
        <4>1. waiters' = Append(rest, c)
          BY <1>3 DEF rest
        <4>2. /\ DOMAIN Append(rest, c) = 1..(Len(rest) + 1)
              /\ Append(rest, c)[Len(rest) + 1] = c
              /\ \A j \in 1..Len(rest) : Append(rest, c)[j] = rest[j]
          BY <3>2
        <4>3. Len(rest) + 1 = Len(waiters)
          BY <3>1, <3>2
        <4>4. QED
          BY <3>2, <4>1, <4>2, <4>3
      <3>4. ASSUME NEW j \in DOMAIN waiters', j # Len(waiters)
            PROVE  \E k \in DOMAIN waiters : k # i /\ waiters'[j] = waiters[k]
        <4>1. CASE j < i
          BY <3>1, <3>3, <3>4, <4>1
        <4>2. CASE ~(j < i)
          <5>1. j + 1 \in DOMAIN waiters /\ j + 1 # i /\ waiters'[j] = waiters[j + 1]
            BY <3>1, <3>3, <3>4, <4>2
          <5>2. QED
            BY <5>1
        <4>3. QED
          BY <4>1, <4>2
      <3>5. \A j \in DOMAIN waiters' : call'[waiters'[j]] \in {"waiting", "withdrawn"}
        BY <2>2, <3>1, <3>3, <3>4 DEF QueueExact
      <3>6. \A j, k \in DOMAIN waiters' : waiters'[j] = waiters'[k] => j = k
        <4>1. ASSUME NEW j \in 1..(Len(waiters) - 1) PROVE waiters'[j] # c
          BY <3>1, <3>3, <3>4, <4>1
        <4>2. ASSUME NEW j \in 1..(Len(waiters) - 1), NEW k \in 1..(Len(waiters) - 1),
                     waiters'[j] = waiters'[k]
              PROVE  j = k
          BY <3>1, <3>3, <4>2 DEF QueueExact
        <4>3. QED
          BY <3>1, <3>3, <4>1, <4>2
      <3>7. ASSUME NEW d \in Call, call'[d] \in {"waiting", "withdrawn"}
            PROVE  \E j \in DOMAIN waiters' : waiters'[j] = d
        <4>1. CASE d = c
          BY <3>1, <3>3, <4>1
        <4>2. CASE d # c
          <5>1. d # waiters[i] /\ call[d] \in {"waiting", "withdrawn"}
            BY <2>2, <3>7, <4>2
          <5>2. PICK k \in DOMAIN waiters : waiters[k] = d
            BY <5>1 DEF QueueExact
          <5>3. CASE k < i
            BY <3>1, <3>3, <5>2, <5>3
          <5>4. CASE k > i
            <6>1. /\ k - 1 \in DOMAIN waiters' /\ k - 1 + 1 = k
                  /\ waiters'[k - 1] = waiters[k - 1 + 1]
              BY <3>1, <3>3, <5>4
            <6>2. QED
              BY <5>2, <6>1
          <5>5. QED
            BY <3>1, <5>1, <5>2, <5>3, <5>4
        <4>3. QED
          BY <4>1, <4>2
      <3>8. QED
        BY <3>5, <3>6, <3>7 DEF QueueExact
    <2>7. QED
      BY <1>1, <1>3, <2>4, <2>5, <2>6 DEF PermitsAccounted, WaitsOnlyWhenBusy
  <1>4. QED
    BY <1>2, <1>3 DEF Reenter

\* task.cancel() moves no permit and nobody in the queue.
LEMMA CancelKeeps ==
  ASSUME SemaphoreInv, NEW C, CancelCalls(C), UNCHANGED <<permits, waiters>>
  PROVE  SemaphoreInv'
  <1> USE DEF SemaphoreInv
  <1>1. SemaphoreOK'
    BY CancelType
  <1>2. \A c \in Call :
          /\ call'[c] \in {"calling", "unwinding"} <=> call[c] \in {"calling", "unwinding"}
          /\ call'[c] \in {"waiting", "withdrawn"} <=> call[c] \in {"waiting", "withdrawn"}
          /\ call'[c] = "waiting" => call[c] = "waiting"
    BY DEF CancelCalls, AfterCancel, SemaphoreOK
  <1>3. Holders' = Holders
    BY <1>2 DEF Holders
  <1>4. QueueExact'
    BY <1>2 DEF QueueExact, SemaphoreOK
  <1>5. WaitsOnlyWhenBusy'
    BY <1>2 DEF WaitsOnlyWhenBusy
  <1>6. QED
    BY <1>1, <1>3, <1>4, <1>5 DEF PermitsAccounted

\* Steps that only relabel calls outside the semaphore.
LEMMA RelabelKeeps ==
  ASSUME SemaphoreInv, SemaphoreOK', UNCHANGED <<permits, waiters>>,
         \A c \in Call : call'[c] = call[c]
                        \/ (call[c] \notin Engaged /\ call'[c] \notin Engaged)
  PROVE  SemaphoreInv'
  <1> USE DEF SemaphoreInv
  <1>1. \A c \in Call :
          /\ call'[c] \in {"calling", "unwinding"} <=> call[c] \in {"calling", "unwinding"}
          /\ call'[c] \in {"waiting", "withdrawn"} <=> call[c] \in {"waiting", "withdrawn"}
          /\ call'[c] = "waiting" => call[c] = "waiting"
    BY DEF Engaged
  <1>2. Holders' = Holders
    BY <1>1 DEF Holders
  <1>3. QueueExact'
    BY <1>1 DEF QueueExact, SemaphoreOK
  <1>4. WaitsOnlyWhenBusy'
    BY <1>1 DEF WaitsOnlyWhenBusy
  <1>5. QED
    BY <1>2, <1>3, <1>4 DEF PermitsAccounted

\* The clean-up of a cancelled call leaves the queue or gives the permit back.
LEMMA UnwindKeeps ==
  ASSUME SemaphoreInv, NEW c \in Call, Unwind(c)
  PROVE  SemaphoreInv'
  <1>1. CASE call[c] = "unwinding" /\ Leave(c, "cancelled")
    BY <1>1, LeaveKeeps DEF CallState
  <1>2. ASSUME call[c] = "withdrawn", NEW i \in DOMAIN waiters, waiters[i] = c,
               waiters' = RemoveAt(waiters, i),
               call' = [call EXCEPT ![c] = "cancelled"], UNCHANGED permits
        PROVE  SemaphoreInv'
    <2> USE DEF SemaphoreInv
    <2>1. SemaphoreOK'
      BY UnwindType
    <2>2. Holders' = Holders
      BY <1>2 DEF Holders, SemaphoreOK
    <2>3. QueueExact'
      BY <1>2, <2>1, DequeueKeeps DEF SemaphoreOK
    <2>4. WaitsOnlyWhenBusy'
      BY <1>2 DEF WaitsOnlyWhenBusy, SemaphoreOK
    <2>5. QED
      BY <1>2, <2>1, <2>2, <2>3, <2>4 DEF PermitsAccounted
  <1>3. QED
    BY <1>1, <1>2 DEF Unwind

-----------------------------------------------------------------------------
(* Ownership: what a request leaves behind *)

\* A request that is not being served has no call of its own.
CallsOwned ==
  /\ \A b \in Batches : batch[b].pc \in Resting =>
       \A n \in Naptans : call[<<b, n>>] = "none"
  /\ \A s \in Searches : search[s].pc \in Resting => call[s] = "none"

\* A step of one call never starts another.
LEMMA OthersStayOut ==
  ASSUME SemaphoreOK, NEW c \in Call,
         \/ Enter(c) \/ Reenter(c) \/ Unwind(c)
         \/ \E st \in CallState : Leave(c, st)
  PROVE  \A d \in Call \ {c} : call[d] = "none" => call'[d] = "none"
  <1>1. CASE Enter(c)
    BY <1>1 DEF Enter, SemaphoreOK
  <1>2. CASE Reenter(c)
    BY <1>2 DEF Reenter, Live, SemaphoreOK
  <1>3. ASSUME NEW st \in CallState, Leave(c, st)
        PROVE  \A d \in Call \ {c} : call[d] = "none" => call'[d] = "none"
    BY <1>3 DEF Leave, Live, SemaphoreOK
  <1>4. CASE Unwind(c)
    BY <1>3, <1>4 DEF Unwind, SemaphoreOK, CallState
  <1>5. QED
    BY <1>1, <1>2, <1>3, <1>4

LEMMA LeaveSets ==
  ASSUME SemaphoreOK, NEW c \in Call, call[c] # "waiting", NEW st, Leave(c, st)
  PROVE  call'[c] = st
  BY DEF Leave, Live, SemaphoreOK

LEMMA OwnedFrame ==
  ASSUME CallsOwned, UNCHANGED <<batch, search>>,
         \A d \in Call : call[d] = "none" => call'[d] = "none"
  PROVE  CallsOwned'
  BY DEF CallsOwned, Call

LEMMA OwnershipStep ==
  ASSUME TypeOK, SemaphoreInv, CallsOwned, [Next]_vars
  PROVE  SemaphoreInv' /\ CallsOwned'
  <1> DEFINE B == [Batches -> [pc : Resting \cup {"awaiting", "settling", "aborting"},
                               ids : SUBSET Naptans,
                               result : [Naptans -> Name \cup {Absent}]]]
             S == [Searches -> [pc : Resting \cup {"searching", "dereferencing", "aborting"},
                                query : Queries, id : StopId]]
  <1>a. batch \in B /\ search \in S /\ SemaphoreOK
    BY DEF TypeOK, SemaphoreInv
  <1>b. /\ \A b \in Batches, n \in Naptans : <<b, n>> \in Call /\ <<b, n>> \notin Searches
        /\ \A s \in Searches : s \in Call
        /\ \A b \in Batches : Lookups(b) = {<<b, n>> : n \in Naptans}
    BY ResolverAssumption DEF Call, Lookups
  <1>1. ASSUME NEW b \in Batches, NEW ids \in SUBSET Naptans, BatchStart(b, ids)
        PROVE  SemaphoreInv' /\ CallsOwned'
    <2> DEFINE misses == {n \in ids : naptanCache[n] = Absent}
               waits == misses # {} /\ tflClient
    <2>1. /\ \A n \in Naptans : call[<<b, n>>] = "none"
          /\ call' = [c \in Call |-> IF waits /\ c \in {b} \X misses THEN "created" ELSE call[c]]
          /\ UNCHANGED <<permits, waiters, search>>
      BY <1>1 DEF BatchStart, CallsOwned
    <2>2. \A c \in Call : call'[c] = call[c]
                 \/ (call[c] = "none" /\ call'[c] = "created" /\ waits /\ c \in {b} \X misses)
      BY <2>1
    <2>3. SemaphoreOK'
      BY <1>a, <2>1 DEF SemaphoreOK, CallState
    <2>4. SemaphoreInv'
      BY <2>1, <2>2, <2>3, RelabelKeeps DEF Engaged
    <2>5. /\ batch'[b].pc = (IF waits THEN "awaiting" ELSE "returned")
          /\ \A d \in Batches \ {b} : batch'[d] = batch[d]
      BY <1>a, <1>1 DEF BatchStart
    <2>6. CallsOwned'
      <3>1. ASSUME NEW d \in Batches, batch'[d].pc \in Resting, NEW n \in Naptans
            PROVE  call'[<<d, n>>] = "none"
        <4>1. CASE d = b
          BY <1>b, <2>1, <2>2, <2>5, <3>1, <4>1 DEF Resting
        <4>2. CASE d # b
          BY <1>b, <2>2, <2>5, <3>1, <4>2 DEF CallsOwned
        <4>3. QED
          BY <4>1, <4>2
      <3>2. ASSUME NEW s \in Searches, search'[s].pc \in Resting
            PROVE  call'[s] = "none"
        BY <1>b, <2>1, <2>2, <3>2 DEF CallsOwned
      <3>3. QED
        BY <3>1, <3>2 DEF CallsOwned
    <2>7. QED
      BY <2>4, <2>6
  <1>2. ASSUME NEW c \in Call, LookupBegin(c)
        PROVE  SemaphoreInv' /\ CallsOwned'
    <2>1. SemaphoreInv'
      BY <1>2, EnterKeeps DEF LookupBegin, Engaged
    <2>2. CallsOwned'
      BY <1>a, <1>2, OthersStayOut, OwnedFrame DEF LookupBegin
    <2>3. QED
      BY <2>1, <2>2
  <1>3. ASSUME NEW b \in Batches, NEW n \in Naptans, LookupAnswer(b, n)
        PROVE  SemaphoreInv' /\ CallsOwned'
    <2>1. PICK st \in {"found", "unknown", "failed"} : Leave(<<b, n>>, st)
      BY <1>3 DEF LookupAnswer
    <2>2. <<b, n>> \in Call /\ call[<<b, n>>] = "calling" /\ st \in CallState
      BY <1>b, <1>3 DEF LookupAnswer, CallState
    <2>3. SemaphoreInv'
      BY <2>1, <2>2, LeaveKeeps
    <2>4. CallsOwned'
      BY <1>a, <1>3, <2>1, <2>2, OthersStayOut, OwnedFrame DEF LookupAnswer
    <2>5. QED
      BY <2>3, <2>4
  <1>4. ASSUME NEW b \in Batches, BatchWake(b) \/ BatchCancel(b)
        PROVE  SemaphoreInv' /\ CallsOwned'
    <2>1. CancelCalls(Lookups(b)) /\ UNCHANGED <<permits, waiters, search>>
      BY <1>4 DEF BatchWake, BatchCancel
    <2>2. SemaphoreInv'
      BY <2>1, CancelKeeps
    <2>3. /\ batch'[b].pc \notin Resting
          /\ \A d \in Batches \ {b} : batch'[d] = batch[d]
      BY <1>a, <1>4 DEF BatchWake, BatchCancel, Resting
    <2>4. \A d \in Call : call[d] = "none" => call'[d] = "none"
      BY <1>a, <2>1 DEF CancelCalls, AfterCancel
    <2>5. CallsOwned'
      BY <1>b, <2>1, <2>3, <2>4 DEF CallsOwned
    <2>6. QED
      BY <2>2, <2>5
  <1>5. ASSUME NEW b \in Batches, BatchFinish(b) \/ BatchAbort(b)
        PROVE  SemaphoreInv' /\ CallsOwned'
    <2>1. /\ \A c \in Lookups(b) : call[c] \in Finished
          /\ call' = [c \in Call |-> IF c \in Lookups(b) THEN "none" ELSE call[c]]
          /\ UNCHANGED <<permits, waiters, search>>
          /\ \A d \in Batches \ {b} : batch'[d] = batch[d]
      BY <1>a, <1>5 DEF BatchFinish, BatchAbort
    <2>2. SemaphoreOK'
      BY <1>a, <2>1 DEF SemaphoreOK, CallState
    <2>3. SemaphoreInv'
      BY <2>1, <2>2, RelabelKeeps DEF Finished, Engaged
    <2>4. CallsOwned'
      BY <1>b, <2>1 DEF CallsOwned
    <2>5. QED
      BY <2>3, <2>4
  <1>6. ASSUME NEW s \in Searches, NEW q \in Queries, SearchStart(s, q)
        PROVE  SemaphoreInv' /\ CallsOwned'
    <2>1. call[s] = "none" /\ UNCHANGED batch /\ s \in Call
      BY <1>b, <1>6 DEF SearchStart, CallsOwned
    <2>2. \A t \in Searches \ {s} : search'[t] = search[t]
      BY <1>a, <1>6 DEF SearchStart
    <2>3. CASE UNCHANGED <<permits, waiters, call>>
      <3>1. SemaphoreInv'
        BY <1>a, <2>3, RelabelKeeps DEF SemaphoreOK
      <3>2. CallsOwned'
        BY <2>1, <2>2, <2>3 DEF CallsOwned
      <3>3. QED
        BY <3>1, <3>2
    <2>4. CASE /\ search' = [search EXCEPT ![s] = [pc |-> "searching", query |-> q, id |-> None]]
               /\ Enter(s)
      <3>1. SemaphoreInv'
        BY <2>1, <2>4, EnterKeeps DEF Engaged
      <3>2. \A d \in Call \ {s} : call[d] = "none" => call'[d] = "none"
        BY <1>a, <2>1, <2>4, OthersStayOut
      <3>3. search'[s].pc \notin Resting
        BY <1>a, <2>4 DEF Resting
      <3>4. CallsOwned'
        BY <1>b, <2>1, <2>2, <3>2, <3>3 DEF CallsOwned
      <3>5. QED
        BY <3>1, <3>4
    <2>5. QED
      BY <1>6, <2>3, <2>4 DEF SearchStart
  <1>7. ASSUME NEW s \in Searches, call[s] = "calling", Leave(s, "none"), UNCHANGED batch,
               \A t \in Searches \ {s} : search'[t] = search[t]
        PROVE  SemaphoreInv' /\ CallsOwned'
    <2>1. "none" \in CallState /\ s \in Call
      BY <1>b DEF CallState
    <2>2. SemaphoreInv'
      BY <1>7, <2>1, LeaveKeeps
    <2>3. call'[s] = "none"
      BY <1>a, <1>7, <2>1, LeaveSets
    <2>4. \A d \in Call : call[d] = "none" => call'[d] = "none"
      BY <1>a, <1>7, <2>1, <2>3, OthersStayOut
    <2>5. CallsOwned'
      BY <1>b, <1>7, <2>3, <2>4 DEF CallsOwned
    <2>6. QED
      BY <2>2, <2>5
  <1>8. ASSUME NEW s \in Searches, SearchFail(s) \/ DerefFail(s) \/ DerefAnswer(s)
        PROVE  SemaphoreInv' /\ CallsOwned'
    BY <1>a, <1>7, <1>8 DEF SearchFail, DerefFail, DerefAnswer, Return
  <1>9. ASSUME NEW s \in Searches, SearchAnswer(s)
        PROVE  SemaphoreInv' /\ CallsOwned'
    <2>1. CASE Leave(s, "none") /\ Return(s, TopMatch[search[s].query])
      BY <1>a, <1>7, <1>9, <2>1 DEF SearchAnswer, Return
    <2>2. CASE Reenter(s) /\ search' = [search EXCEPT ![s].pc = "dereferencing"]
      <3>1. call[s] = "calling" /\ UNCHANGED batch
        BY <1>9 DEF SearchAnswer
      <3>2. SemaphoreInv'
        BY <1>b, <2>2, <3>1, ReenterKeeps
      <3>3. \A d \in Call \ {s} : call[d] = "none" => call'[d] = "none"
        BY <1>a, <1>b, <2>2, OthersStayOut
      <3>4. CallsOwned'
        BY <1>a, <1>b, <2>2, <3>1, <3>3 DEF CallsOwned, Resting
      <3>5. QED
        BY <3>2, <3>4
    <2>3. QED
      BY <1>9, <2>1, <2>2 DEF SearchAnswer
  <1>10. ASSUME NEW s \in Searches, SearchCancel(s)
         PROVE  SemaphoreInv' /\ CallsOwned'
    <2>1. CancelCalls({s}) /\ UNCHANGED <<permits, waiters, batch>>
      BY <1>10 DEF SearchCancel
    <2>2. SemaphoreInv'
      BY <2>1, CancelKeeps
    <2>3. \A d \in Call : call[d] = "none" => call'[d] = "none"
      BY <1>a, <2>1 DEF CancelCalls, AfterCancel
    <2>4. CallsOwned'
      BY <1>a, <1>b, <1>10, <2>1, <2>3 DEF CallsOwned, SearchCancel, Resting
    <2>5. QED
      BY <2>2, <2>4
  <1>11. ASSUME NEW s \in Searches, SearchAbort(s)
         PROVE  SemaphoreInv' /\ CallsOwned'
    <2>1. /\ call[s] = "cancelled" /\ call' = [call EXCEPT ![s] = "none"]
          /\ UNCHANGED <<permits, waiters, batch>>
          /\ \A t \in Searches \ {s} : search'[t] = search[t]
      BY <1>a, <1>11 DEF SearchAbort
    <2>2. SemaphoreOK'
      BY <1>a, <2>1 DEF SemaphoreOK, CallState
    <2>3. SemaphoreInv'
      BY <1>a, <1>b, <2>1, <2>2, RelabelKeeps DEF Engaged, SemaphoreOK
    <2>4. CallsOwned'
      BY <1>a, <1>b, <2>1 DEF CallsOwned, SemaphoreOK
    <2>5. QED
      BY <2>3, <2>4
  <1>12. ASSUME NEW c \in Call, Unwind(c)
         PROVE  SemaphoreInv' /\ CallsOwned'
    <2>1. SemaphoreInv'
      BY <1>12, UnwindKeeps
    <2>2. call[c] # "none"
      BY <1>12 DEF Unwind
    <2>3. CallsOwned'
      BY <1>a, <1>12, <2>2, OthersStayOut, OwnedFrame DEF Unwind
    <2>4. QED
      BY <2>1, <2>3
  <1>13. CASE UNCHANGED vars
    <2>1. SemaphoreInv'
      BY <1>a, <1>13, RelabelKeeps DEF vars, SemaphoreOK
    <2>2. QED
      BY <1>13, <2>1 DEF vars, CallsOwned
  <1>14. QED
    BY <1>b, <1>1, <1>2, <1>3, <1>4, <1>5, <1>6, <1>8, <1>9, <1>10, <1>11, <1>12, <1>13
    DEF Next

SafetyInv == TypeInv /\ SemaphoreInv /\ CallsOwned

LEMMA SafetyInvariant == Spec => []SafetyInv
  <1>1. ASSUME Init PROVE SemaphoreInv /\ CallsOwned
    <2>1. Holders = {}
      BY <1>1 DEF Init, Holders
    <2>2. PermitsAccounted
      BY <1>1, <2>1, FS_EmptySet, ResolverAssumption DEF Init, PermitsAccounted
    <2>3. SemaphoreOK /\ QueueExact /\ WaitsOnlyWhenBusy
      BY <1>1, ResolverAssumption
      DEF Init, SemaphoreOK, QueueExact, WaitsOnlyWhenBusy, CallState
    <2>4. CallsOwned
      BY <1>1 DEF Init, CallsOwned, Call
    <2>5. QED
      BY <2>2, <2>3, <2>4 DEF SemaphoreInv
  <1>2. TypeInv /\ SemaphoreInv /\ CallsOwned /\ [Next]_vars => SemaphoreInv' /\ CallsOwned'
    BY OwnershipStep DEF TypeInv
  <1>3. QED
    BY <1>1, <1>2, TypeInvariant, PTL DEF Spec, SafetyInv

\* Whatever the interleaving of answers, deadlines, hand-overs and
\* cancellations, each permit is free or held by exactly one call.
THEOREM PermitsNeverLost == Spec => []PermitsAccounted
  BY SafetyInvariant, PTL DEF SafetyInv, SemaphoreInv

\* A call that waits is in the queue, and there is no free permit it missed.
THEOREM WakeupsNeverLost == Spec => []NoLostWakeup
  <1>1. SafetyInv => NoLostWakeup
    BY DEF SafetyInv, SemaphoreInv, QueueExact, WaitsOnlyWhenBusy, NoLostWakeup, ToSet
  <1>2. QED
    BY <1>1, SafetyInvariant, PTL

\* When a request is over, none of its calls is running, queued or to start.
THEOREM NoOrphans == Spec => []NoneOutlivesRequest
  <1>1. SafetyInv => NoneOutlivesRequest
    <2> SUFFICES ASSUME SafetyInv PROVE NoneOutlivesRequest
      OBVIOUS
    <2>1. \A c \in Call : call[c] = "none" => c \notin ToSet(waiters)
      BY DEF SafetyInv, SemaphoreInv, QueueExact, ToSet
    <2>2. QED
      BY <2>1 DEF SafetyInv, CallsOwned, NoneOutlivesRequest, Lookups, Call
  <1>2. QED
    BY <1>1, SafetyInvariant, PTL

-----------------------------------------------------------------------------
(* The caches *)

\* A lookup that ended definitively carries TfL's answer for its code.
AnswersTrue ==
  \A b \in Batches, n \in Naptans :
    /\ call[<<b, n>>] = "found" => n \in Known
    /\ call[<<b, n>>] = "unknown" => n \notin Known

NaptansTrue == \A n \in Naptans : naptanCache[n] \in {Absent, CommonName(n)}

EntryTrue(e) == \E q \in Queries : CacheKey[q] = e.key /\ e.id = Resolution(q)
NamesTrue == \A i \in DOMAIN nameCache : EntryTrue(nameCache[i])

\* Apart from the call that is answered, no call becomes definitive.
LEMMA AnswersTrueStep ==
  ASSUME TypeOK, AnswersTrue, [Next]_vars
  PROVE  AnswersTrue'
  <1> DEFINE D == {"found", "unknown"}
  <1>a. SemaphoreOK /\ \A b \in Batches, n \in Naptans : <<b, n>> \in Call
    BY DEF TypeOK, SemaphoreOK, Call
  <1>1. ASSUME \A c \in Call : call'[c] \in D => call'[c] = call[c]
        PROVE  AnswersTrue'
    BY <1>a, <1>1 DEF AnswersTrue
  <1>2. ASSUME NEW c \in Call, Enter(c) \/ Reenter(c) \/ LookupBegin(c)
        PROVE  AnswersTrue'
    BY <1>a, <1>1, <1>2 DEF Enter, Reenter, LookupBegin, SemaphoreOK
  <1>3. ASSUME NEW c \in Call, NEW st \in CallState \ D, Leave(c, st)
        PROVE  AnswersTrue'
    BY <1>a, <1>1, <1>3 DEF Leave, SemaphoreOK
  <1>4. ASSUME NEW C, CancelCalls(C)
        PROVE  AnswersTrue'
    BY <1>a, <1>1, <1>4 DEF CancelCalls, AfterCancel
  <1>5. ASSUME NEW b \in Batches, NEW ids \in SUBSET Naptans, BatchStart(b, ids)
        PROVE  AnswersTrue'
    BY <1>a, <1>1, <1>5 DEF BatchStart
  <1>6. ASSUME NEW b \in Batches, NEW n \in Naptans, LookupAnswer(b, n)
        PROVE  AnswersTrue'
    <2>1. PICK st \in {"failed", IF n \in Known THEN "found" ELSE "unknown"} :
            Leave(<<b, n>>, st)
      BY <1>6 DEF LookupAnswer
    <2>2. <<b, n>> \in Call /\ call[<<b, n>>] = "calling"
      BY <1>a, <1>6 DEF LookupAnswer
    <2>3. call'[<<b, n>>] = st
      BY <1>a, <2>1, <2>2, LeaveSets
    <2>4. \A c \in Call \ {<<b, n>>} : call'[c] \in D => call'[c] = call[c]
      BY <1>a, <2>1 DEF Leave, SemaphoreOK
    <2>5. ASSUME NEW d \in Batches, NEW m \in Naptans
          PROVE  /\ call'[<<d, m>>] = "found" => m \in Known
                 /\ call'[<<d, m>>] = "unknown" => m \notin Known
      <3>1. CASE d = b /\ m = n
        BY <2>3, <3>1
      <3>2. CASE ~(d = b /\ m = n)
        BY <1>a, <2>4, <3>2 DEF AnswersTrue
      <3>3. QED
        BY <3>1, <3>2
    <2>6. QED
      BY <2>5 DEF AnswersTrue
  <1>7. ASSUME NEW b \in Batches,
               BatchWake(b) \/ BatchCancel(b) \/ BatchFinish(b) \/ BatchAbort(b)
        PROVE  AnswersTrue'
    BY <1>a, <1>1, <1>4, <1>7 DEF BatchWake, BatchCancel, BatchFinish, BatchAbort
  <1>8. ASSUME NEW s \in Searches,
               \/ \E q \in Queries : SearchStart(s, q)
               \/ SearchFail(s) \/ SearchAnswer(s) \/ DerefFail(s) \/ DerefAnswer(s)
               \/ SearchCancel(s) \/ SearchAbort(s)
        PROVE  AnswersTrue'
    <2>1. s \in Call /\ "none" \in CallState \ D
      BY DEF Call, CallState
    <2>2. CASE \E q \in Queries : SearchStart(s, q)
      BY <1>1, <1>2, <2>1, <2>2 DEF SearchStart
    <2>3. CASE SearchFail(s) \/ SearchAnswer(s) \/ DerefFail(s) \/ DerefAnswer(s)
      BY <1>2, <1>3, <2>1, <2>3 DEF SearchFail, SearchAnswer, DerefFail, DerefAnswer
    <2>4. CASE SearchCancel(s) \/ SearchAbort(s)
      BY <1>a, <1>1, <1>4, <2>4 DEF SearchCancel, SearchAbort, SemaphoreOK
    <2>5. QED
      BY <1>8, <2>2, <2>3, <2>4
  <1>9. ASSUME NEW c \in Call, Unwind(c)
        PROVE  AnswersTrue'
    BY <1>a, <1>1, <1>3, <1>9 DEF Unwind, SemaphoreOK, CallState
  <1>10. CASE UNCHANGED vars
    BY <1>1, <1>10 DEF vars
  <1>11. QED
    BY <1>a, <1>2, <1>5, <1>6, <1>7, <1>8, <1>9, <1>10 DEF Next

\* Only BatchFinish writes the NaPTAN cache, and only definitive answers.
LEMMA NaptansTrueStep ==
  ASSUME TypeOK, AnswersTrue, NaptansTrue, [Next]_vars
  PROVE  NaptansTrue'
  <1>1. CASE UNCHANGED naptanCache
    BY <1>1 DEF NaptansTrue
  <1>2. ASSUME NEW b \in Batches, BatchFinish(b)
        PROVE  NaptansTrue'
    BY <1>2 DEF BatchFinish, NaptansTrue, AnswersTrue, Definitive, CommonName
  <1>3. QED
    BY <1>1, <1>2 DEF Next, vars, BatchStart, LookupBegin, LookupAnswer, BatchWake,
       BatchCancel, BatchAbort, SearchStart, SearchFail, SearchAnswer, DerefFail,
       DerefAnswer, SearchCancel, SearchAbort, Unwind

\* An eviction and a write leave true entries, provided the new one is true.
LEMMA StoreTrue ==
  ASSUME nameCache \in Seq(CacheEntry), NamesTrue,
         NEW k, NEW id, EntryTrue([key |-> k, id |-> id]), Store(k, id)
  PROVE  NamesTrue'
  <1> DEFINE entry == [key |-> k, id |-> id]
  <1>1. Kept \in Seq(CacheEntry) /\ \A i \in DOMAIN Kept : EntryTrue(Kept[i])
    <2>1. CASE Len(nameCache) >= NameCacheMax
      <3>1. nameCache # <<>>
        BY <2>1, ResolverAssumption
      <3>2. /\ Tail(nameCache) \in Seq(CacheEntry)
            /\ Len(Tail(nameCache)) = Len(nameCache) - 1
            /\ \A i \in 1..Len(Tail(nameCache)) : Tail(nameCache)[i] = nameCache[i + 1]
        BY <3>1, HeadTailProperties
      <3>3. \A i \in 1..Len(Tail(nameCache)) : i + 1 \in DOMAIN nameCache
        BY <3>2
      <3>4. QED
        BY <2>1, <3>2, <3>3 DEF Kept, NamesTrue
    <2>2. CASE ~(Len(nameCache) >= NameCacheMax)
      BY <2>2 DEF Kept, NamesTrue
    <2>3. QED
      BY <2>1, <2>2
  <1>2. CASE nameCache' = Append(Kept, entry)
    <2>1. DOMAIN nameCache' = 1..(Len(Kept) + 1)
      BY <1>1, <1>2
    <2>2. \A i \in DOMAIN nameCache' :
             nameCache'[i] = IF i = Len(Kept) + 1 THEN entry ELSE Kept[i]
      BY <1>1, <1>2, <2>1
    <2>3. \A i \in DOMAIN nameCache' : i = Len(Kept) + 1 \/ i \in DOMAIN Kept
      BY <1>1, <2>1
    <2>4. QED
      BY <1>1, <2>2, <2>3 DEF NamesTrue
  <1>3. CASE nameCache' = [i \in DOMAIN Kept |-> IF Kept[i].key = k THEN entry ELSE Kept[i]]
    BY <1>1, <1>3 DEF NamesTrue
  <1>4. QED
    BY <1>2, <1>3 DEF Store

\* Only a search that got all its answers writes the name cache.
LEMMA NamesTrueStep ==
  ASSUME TypeOK, DerefsHub, NamesTrue, [Next]_vars
  PROVE  NamesTrue'
  <1>1. CASE UNCHANGED nameCache
    BY <1>1 DEF NamesTrue, EntryTrue
  <1>2. ASSUME NEW s \in Searches, SearchAnswer(s) \/ DerefAnswer(s), ~UNCHANGED nameCache
        PROVE  NamesTrue'
    <2> DEFINE q == search[s].query
    <2>1. q \in Queries
      BY DEF TypeOK
    <2>2. Store(CacheKey[q], Resolution(q))
      BY <1>2 DEF SearchAnswer, DerefAnswer, DerefsHub, Resolution
    <2>3. EntryTrue([key |-> CacheKey[q], id |-> Resolution(q)])
      BY <2>1 DEF EntryTrue
    <2>4. QED
      BY <2>2, <2>3, StoreTrue DEF TypeOK
  <1>3. QED
    BY <1>1, <1>2 DEF Next, vars, BatchStart, LookupBegin, LookupAnswer, BatchWake,
       BatchFinish, BatchCancel, BatchAbort, SearchStart, SearchFail, DerefFail,
       SearchCancel, SearchAbort, Unwind

CacheInv == TypeInv /\ AnswersTrue /\ NaptansTrue /\ NamesTrue

LEMMA CachesAlways == Spec => []CacheInv
  <1>1. Init => AnswersTrue /\ NaptansTrue /\ NamesTrue
    BY DEF Init, AnswersTrue, NaptansTrue, NamesTrue, Call
  <1>2. CacheInv /\ [Next]_vars => AnswersTrue' /\ NaptansTrue' /\ NamesTrue'
    BY AnswersTrueStep, NaptansTrueStep, NamesTrueStep DEF CacheInv, TypeInv
  <1>3. QED
    BY <1>1, <1>2, TypeInvariant, PTL DEF Spec, CacheInv

\* No failure, deadline or cancellation ever poisons a cache.
THEOREM CachesNeverPoisoned == Spec => []CachesSound
  <1>1. CacheInv => CachesSound
    BY DEF CacheInv, NaptansTrue, NamesTrue, EntryTrue, CachesSound
  <1>2. QED
    BY <1>1, CachesAlways, PTL

-----------------------------------------------------------------------------
(***************************************************************************)
(* What callers of the resolvers see, for any finite sets of callers and   *)
(* codes, any concurrency and any cache size: the name cache stays bounded *)
(* and evicts in order, and resolve_naptans implements StationDirectory.   *)
(*                                                                         *)
(* The first two rest on what one write does (Store): a key keeps its      *)
(* place, a new one goes to the end, and only the first entry may go.      *)
(* The refinement rests on Misses: while a batch is served, its tasks are  *)
(* exactly the ids it has no answer for yet.                               *)
(***************************************************************************)

(* The name cache *)

KeysDiffer(cache) == \A i, j \in DOMAIN cache : cache[i].key = cache[j].key => i = j

\* What an eviction leaves: all, or all but the first.
LEMMA KeptEntries ==
  ASSUME nameCache \in Seq(CacheEntry), NameCacheBounded
  PROVE  /\ Kept \in Seq(CacheEntry) /\ Len(Kept) < NameCacheMax /\ KeysDiffer(Kept)
         /\ \A i \in DOMAIN nameCache :
              \/ i = 1 /\ Len(nameCache) = NameCacheMax
              \/ \E j \in DOMAIN Kept : Kept[j] = nameCache[i]
  <1>1. Len(nameCache) \in Nat /\ NameCacheMax \in Nat \ {0} /\ DOMAIN nameCache = 1..Len(nameCache)
    BY ResolverAssumption, LenProperties
  <1>2. Len(nameCache) <= NameCacheMax /\ KeysDiffer(nameCache)
    BY DEF NameCacheBounded, KeysDiffer
  <1>3. CASE Len(nameCache) >= NameCacheMax
    <2>1. nameCache # <<>> /\ Len(nameCache) = NameCacheMax
      <3> DEFINE n == Len(nameCache)
      <3>1. n \in Nat /\ NameCacheMax \in Nat /\ NameCacheMax # 0 /\ n <= NameCacheMax
        BY <1>1, <1>2
      <3>2. n >= NameCacheMax
        BY <1>3
      <3> HIDE DEF n
      <3>3. n = NameCacheMax /\ n # 0
        BY <3>1, <3>2
      <3>4. nameCache # <<>>
        BY <3>3 DEF n
      <3> QED BY <3>3, <3>4 DEF n
    <2>2. /\ Kept = Tail(nameCache) /\ Kept \in Seq(CacheEntry)
          /\ Len(Kept) = Len(nameCache) - 1
          /\ \A j \in 1..Len(Kept) : Kept[j] = nameCache[j + 1]
      BY <1>3, <2>1, HeadTailProperties DEF Kept
    <2>3. DOMAIN Kept = 1..(Len(nameCache) - 1)
      BY <2>2, LenProperties
    <2>4. KeysDiffer(Kept)
      <3> SUFFICES ASSUME NEW i \in DOMAIN Kept, NEW j \in DOMAIN Kept, Kept[i].key = Kept[j].key
                   PROVE  i = j
        BY DEF KeysDiffer
      <3>1. i + 1 \in DOMAIN nameCache /\ j + 1 \in DOMAIN nameCache
        BY <1>1, <2>3
      <3>2. nameCache[i + 1].key = nameCache[j + 1].key
        BY <2>2, <2>3
      <3>3. i + 1 = j + 1
        BY <3>1, <3>2 DEF NameCacheBounded
      <3> QED BY <2>3, <3>3
    <2>5. \A i \in DOMAIN nameCache : i = 1 \/ \E j \in DOMAIN Kept : Kept[j] = nameCache[i]
      <3> SUFFICES ASSUME NEW i \in DOMAIN nameCache, i # 1
                   PROVE  \E j \in DOMAIN Kept : Kept[j] = nameCache[i]
        OBVIOUS
      <3>1. i - 1 \in DOMAIN Kept /\ (i - 1) + 1 = i
        BY <1>1, <2>3
      <3> QED BY <2>2, <2>3, <3>1
    <2> QED BY <1>1, <2>1, <2>2, <2>4, <2>5
  <1>4. CASE ~(Len(nameCache) >= NameCacheMax)
    <2>1. Kept = nameCache
      BY <1>4 DEF Kept
    <2>2. Len(Kept) < NameCacheMax
      BY <1>1, <1>4, <2>1
    <2>3. \A i \in DOMAIN nameCache : \E j \in DOMAIN Kept : Kept[j] = nameCache[i]
      BY <2>1
    <2> QED BY <1>2, <2>1, <2>2, <2>3
  <1> QED BY <1>3, <1>4

\* A write keeps every entry's key that the eviction has left.
LEMMA StoreKeeps ==
  ASSUME nameCache \in Seq(CacheEntry), NameCacheBounded,
         NEW k \in Queries, NEW id \in StopId, Store(k, id)
  PROVE  /\ NameCacheBounded'
         /\ \A j \in DOMAIN Kept : j \in DOMAIN nameCache' /\ nameCache'[j].key = Kept[j].key
  <1> DEFINE entry == [key |-> k, id |-> id]
  <1>1. /\ Kept \in Seq(CacheEntry) /\ Len(Kept) < NameCacheMax /\ KeysDiffer(Kept)
        /\ Len(Kept) \in Nat /\ DOMAIN Kept = 1..Len(Kept) /\ entry \in CacheEntry
    BY KeptEntries, LenProperties DEF CacheEntry
  <1>2. CASE /\ \E i \in DOMAIN Kept : Kept[i].key = k
             /\ nameCache' = [i \in DOMAIN Kept |-> IF Kept[i].key = k THEN entry ELSE Kept[i]]
    <2>1. nameCache' \in Seq(CacheEntry)
      BY StoreType
    <2>2. DOMAIN nameCache' = DOMAIN Kept /\ \A j \in DOMAIN Kept : nameCache'[j].key = Kept[j].key
      BY <1>2
    <2>3. Len(nameCache') = Len(Kept)
      BY <1>1, <2>1, <2>2, LenProperties
    <2> QED BY <1>1, <2>2, <2>3, ResolverAssumption DEF NameCacheBounded, KeysDiffer
  <1>3. CASE /\ ~\E i \in DOMAIN Kept : Kept[i].key = k
             /\ nameCache' = Append(Kept, entry)
    <2> HIDE DEF entry
    <2>1. /\ nameCache' \in Seq(CacheEntry) /\ Len(nameCache') = Len(Kept) + 1
          /\ \A j \in 1..Len(Kept) : nameCache'[j] = Kept[j]
          /\ nameCache'[Len(Kept) + 1] = entry
      BY <1>1, <1>3, AppendProperties
    <2>2. DOMAIN nameCache' = 1..(Len(Kept) + 1)
      BY <2>1, LenProperties
    <2>3. entry.key = k
      BY DEF entry
    <2>4. \A i, j \in DOMAIN nameCache' : nameCache'[i].key = nameCache'[j].key => i = j
      <3> SUFFICES ASSUME NEW i \in DOMAIN nameCache', NEW j \in DOMAIN nameCache',
                          nameCache'[i].key = nameCache'[j].key
                   PROVE  i = j
        OBVIOUS
      <3>1. /\ i \in 1..Len(Kept) \/ i = Len(Kept) + 1
            /\ j \in 1..Len(Kept) \/ j = Len(Kept) + 1
        BY <1>1, <2>2
      <3> QED BY <1>1, <1>3, <2>1, <2>3, <3>1 DEF KeysDiffer
    <2>5. Len(nameCache') <= NameCacheMax
      BY <1>1, <2>1, ResolverAssumption
    <2> QED BY <1>1, <2>1, <2>2, <2>4, <2>5 DEF NameCacheBounded
  <1> QED BY <1>2, <1>3 DEF Store

\* Only a search that got all its answers writes, and only by Store.
LEMMA NamesStored ==
  ASSUME TypeOK, DerefsHub, [Next]_vars, ~UNCHANGED nameCache
  PROVE  \E k \in Queries, id \in StopId : Store(k, id)
  <1>1. ASSUME NEW s \in Searches, SearchAnswer(s) \/ DerefAnswer(s)
        PROVE  \E k \in Queries, id \in StopId : Store(k, id)
    <2> DEFINE q == search[s].query
    <2>1. q \in Queries /\ CacheKey[q] \in Queries /\ TopMatch[q] \in StopId
      BY ResolverAssumption DEF TypeOK, StopId
    <2>2. CASE SearchAnswer(s)
      BY <2>1, <2>2 DEF SearchAnswer
    <2>3. CASE DerefAnswer(s)
      <3>1. TopMatch[q] \in Hubs
        BY <2>3 DEF DerefAnswer, DerefsHub
      <3>2. Endpoint(TopMatch[q]) \in StopId
        BY <2>1, <3>1, ResolverAssumption DEF Endpoint, StopId
      <3> QED BY <2>1, <2>3, <3>2 DEF DerefAnswer
    <2> QED BY <1>1, <2>2, <2>3
  <1> QED BY <1>1 DEF Next, vars, BatchStart, LookupBegin, LookupAnswer, BatchWake,
       BatchFinish, BatchCancel, BatchAbort, SearchStart, SearchFail, DerefFail,
       SearchCancel, SearchAbort, Unwind

LEMMA NamesBounded == Spec => [](TypeInv /\ NameCacheBounded)
  <1>1. Init => NameCacheBounded
    BY ResolverAssumption DEF Init, NameCacheBounded
  <1>2. TypeInv /\ NameCacheBounded /\ [Next]_vars => NameCacheBounded'
    <2> SUFFICES ASSUME TypeInv, NameCacheBounded, [Next]_vars PROVE NameCacheBounded'
      OBVIOUS
    <2>1. CASE UNCHANGED nameCache
      BY <2>1 DEF NameCacheBounded
    <2>2. CASE ~UNCHANGED nameCache
      BY <2>2, NamesStored, StoreKeeps DEF TypeInv, TypeOK
    <2> QED BY <2>1, <2>2
  <1> QED BY <1>1, <1>2, TypeInvariant, PTL DEF Spec

\* However many searches miss the same key at once, the name cache never holds
\* more than its maximum nor a key twice.
THEOREM NameCacheStaysBounded == Spec => []NameCacheBounded
  BY NamesBounded, PTL

\* Only a full cache evicts, and only its oldest entry.
THEOREM OldestGoesFirst == Spec => EvictsOldestWhenFull
  <1> DEFINE Evicts == \A i \in DOMAIN nameCache :
               (\A j \in DOMAIN nameCache' : nameCache'[j].key # nameCache[i].key)
                 => i = 1 /\ Len(nameCache) = NameCacheMax
  <1>1. TypeInv /\ NameCacheBounded /\ [Next]_vars => [Evicts]_nameCache
    <2> SUFFICES ASSUME TypeInv, NameCacheBounded, [Next]_vars, ~UNCHANGED nameCache,
                        NEW i \in DOMAIN nameCache,
                        \A j \in DOMAIN nameCache' : nameCache'[j].key # nameCache[i].key
                 PROVE  i = 1 /\ Len(nameCache) = NameCacheMax
      OBVIOUS
    <2>1. PICK k \in Queries, id \in StopId : Store(k, id)
      BY NamesStored DEF TypeInv
    <2>2. \A j \in DOMAIN Kept : j \in DOMAIN nameCache' /\ nameCache'[j].key = Kept[j].key
      BY <2>1, StoreKeeps DEF TypeInv, TypeOK
    <2>3. \/ i = 1 /\ Len(nameCache) = NameCacheMax
          \/ \E j \in DOMAIN Kept : Kept[j] = nameCache[i]
      BY KeptEntries DEF TypeInv, TypeOK
    <2> QED BY <2>2, <2>3
  <1> QED BY <1>1, NamesBounded, PTL DEF Spec, EvictsOldestWhenFull

-----------------------------------------------------------------------------
(* resolve_naptans as StationDirectory *)

\* While a batch is served, it has a task for each id without an answer.
Misses ==
  \A b \in Batches : batch[b].pc \notin Resting =>
    \A n \in Naptans :
      call[<<b, n>>] # "none" <=> n \in batch[b].ids /\ batch[b].result[n] = Absent

\* No task comes or goes.
TasksStay ==
  \A b \in Batches, n \in Naptans : call'[<<b, n>>] = "none" <=> call[<<b, n>>] = "none"

LEMMA EnteringKeepsTasks ==
  ASSUME TypeOK, NEW c \in Call, Enter(c) \/ Reenter(c), c \in Searches \/ call[c] # "none"
  PROVE  TasksStay
  <1>1. \A b \in Batches, n \in Naptans : <<b, n>> \in Call /\ <<b, n>> \notin Searches
    BY ResolverAssumption DEF Call
  <1>2. call \in [Call -> CallState] /\ waiters \in Seq(Call)
    BY DEF TypeOK
  <1>3. CASE Enter(c)
    BY <1>1, <1>2, <1>3 DEF Enter, TasksStay
  <1>4. CASE Reenter(c)
    <2>1. ASSUME NEW i \in Live, call' = [call EXCEPT ![c] = "waiting", ![waiters[i]] = "calling"]
          PROVE  TasksStay
      BY <1>1, <1>2, <2>1 DEF Live, TasksStay
    <2>2. CASE call' = call
      BY <2>2 DEF TasksStay
    <2> QED BY <1>4, <2>1, <2>2 DEF Reenter
  <1> QED BY <1>3, <1>4

LEMMA LeavingKeepsTasks ==
  ASSUME TypeOK, NEW c \in Call, NEW st \in CallState, Leave(c, st),
         c \in Searches \/ (call[c] # "none" /\ st # "none")
  PROVE  TasksStay
  <1>1. \A b \in Batches, n \in Naptans : <<b, n>> \in Call /\ <<b, n>> \notin Searches
    BY ResolverAssumption DEF Call
  <1>2. call \in [Call -> CallState] /\ waiters \in Seq(Call)
    BY DEF TypeOK
  <1>3. CASE call' = [call EXCEPT ![c] = st]
    BY <1>1, <1>2, <1>3 DEF TasksStay
  <1>4. ASSUME NEW i \in Live, call' = [call EXCEPT ![c] = st, ![waiters[i]] = "calling"]
        PROVE  TasksStay
    BY <1>1, <1>2, <1>4 DEF Live, TasksStay
  <1> QED BY <1>3, <1>4 DEF Leave

LEMMA CancellingKeepsTasks ==
  ASSUME TypeOK, NEW C, CancelCalls(C)
  PROVE  TasksStay
  <1>1. \A b \in Batches, n \in Naptans : <<b, n>> \in Call
    BY DEF Call
  <1>2. \A st : AfterCancel(st) = "none" <=> st = "none"
    BY DEF AfterCancel
  <1> QED BY <1>1, <1>2 DEF CancelCalls, TasksStay

\* Whatever is not a step of a batch itself leaves batches and tasks alone.
LEMMA OthersKeepTasks ==
  ASSUME TypeOK,
         \/ \E c \in Call : LookupBegin(c) \/ Unwind(c)
         \/ \E b \in Batches, n \in Naptans : LookupAnswer(b, n)
         \/ \E s \in Searches :
              \/ \E q \in Queries : SearchStart(s, q)
              \/ SearchFail(s) \/ SearchAnswer(s) \/ DerefFail(s) \/ DerefAnswer(s)
              \/ SearchCancel(s) \/ SearchAbort(s)
         \/ UNCHANGED vars
  PROVE  TasksStay /\ UNCHANGED <<batch, naptanCache>>
  <1>1. ASSUME NEW c \in Call, LookupBegin(c) PROVE TasksStay
    BY <1>1, EnteringKeepsTasks DEF LookupBegin
  <1>2. ASSUME NEW c \in Call, Unwind(c) PROVE TasksStay
    <2>1. CASE call[c] = "unwinding" /\ Leave(c, "cancelled")
      BY <2>1, LeavingKeepsTasks DEF CallState
    <2>2. CASE call[c] = "withdrawn" /\ call' = [call EXCEPT ![c] = "cancelled"]
      BY <2>2 DEF TypeOK, TasksStay, Call
    <2> QED BY <1>2, <2>1, <2>2 DEF Unwind
  <1>3. ASSUME NEW b \in Batches, NEW n \in Naptans, LookupAnswer(b, n) PROVE TasksStay
    <2>1. <<b, n>> \in Call /\ call[<<b, n>>] = "calling"
      BY <1>3 DEF LookupAnswer, Call
    <2>2. PICK st \in {"failed", IF n \in Known THEN "found" ELSE "unknown"} : Leave(<<b, n>>, st)
      BY <1>3 DEF LookupAnswer
    <2>3. st \in CallState /\ st # "none"
      BY DEF CallState
    <2> QED BY <2>1, <2>2, <2>3, LeavingKeepsTasks
  <1>4. ASSUME NEW s \in Searches,
               \/ \E q \in Queries : SearchStart(s, q)
               \/ SearchFail(s) \/ SearchAnswer(s) \/ DerefFail(s) \/ DerefAnswer(s)
               \/ SearchCancel(s) \/ SearchAbort(s)
        PROVE  TasksStay
    <2>1. s \in Call /\ "none" \in CallState
      BY DEF Call, CallState
    <2>2. CASE UNCHANGED call
      BY <2>2 DEF TasksStay
    <2>3. CASE Enter(s) \/ Reenter(s)
      BY <2>1, <2>3, EnteringKeepsTasks
    <2>4. CASE Leave(s, "none")
      BY <2>1, <2>4, LeavingKeepsTasks
    <2>5. CASE CancelCalls({s})
      BY <2>5, CancellingKeepsTasks
    <2>6. CASE call' = [call EXCEPT ![s] = "none"]
      <3>1. \A b \in Batches, n \in Naptans : <<b, n>> \in Call /\ <<b, n>> # s
        BY ResolverAssumption DEF Call
      <3> QED BY <2>6, <3>1 DEF TypeOK, TasksStay
    <2> QED BY <1>4, <2>2, <2>3, <2>4, <2>5, <2>6 DEF SearchStart, SearchFail, SearchAnswer,
               DerefFail, DerefAnswer, SearchCancel, SearchAbort
  <1>5. CASE UNCHANGED vars
    BY <1>5 DEF vars, TasksStay
  <1>6. UNCHANGED <<batch, naptanCache>>
    BY DEF LookupBegin, Unwind, LookupAnswer, SearchStart, SearchFail, SearchAnswer, DerefFail,
           DerefAnswer, SearchCancel, SearchAbort, vars
  <1> QED BY <1>1, <1>2, <1>3, <1>4, <1>5, <1>6

BatchState == [pc : Resting \cup {"awaiting", "settling", "aborting"},
               ids : SUBSET Naptans, result : [Naptans -> Name \cup {Absent}]]

LEMMA MissesStart ==
  ASSUME TypeOK, CallsOwned, Misses, NEW b \in Batches, NEW ids \in SUBSET Naptans,
         BatchStart(b, ids)
  PROVE  Misses'
  <1> DEFINE misses == {n \in ids : naptanCache[n] = Absent}
             waits == misses # {} /\ tflClient
  <1>1. /\ batch \in [Batches -> BatchState] /\ call \in [Call -> CallState]
        /\ \A d \in Batches, n \in Naptans : <<d, n>> \in Call
    BY DEF TypeOK, BatchState, Call
  <1>2. /\ batch' = [batch EXCEPT ![b] =
             [pc |-> IF waits THEN "awaiting" ELSE "returned", ids |-> ids,
              result |-> [n \in Naptans |->
                 IF n \in ids \ misses THEN naptanCache[n]
                 ELSE IF n \in misses /\ ~waits THEN None ELSE Absent]]]
        /\ call' = [c \in Call |-> IF waits /\ c \in {b} \X misses THEN "created" ELSE call[c]]
        /\ \A n \in Naptans : call[<<b, n>>] = "none"
    BY DEF BatchStart, CallsOwned
  <1>3. misses \subseteq Naptans /\ \A n \in ids \ misses : naptanCache[n] # Absent
    OBVIOUS
  <1>4. ASSUME NEW d \in Batches, batch'[d].pc \notin Resting, NEW n \in Naptans
        PROVE  call'[<<d, n>>] # "none" <=> n \in batch'[d].ids /\ batch'[d].result[n] = Absent
    <2>1. CASE d = b
      <3>1. waits /\ batch'[b].ids = ids
        BY <1>1, <1>2, <1>4, <2>1 DEF Resting
      <3>2. call'[<<b, n>>] # "none" <=> n \in misses
        BY <1>1, <1>2, <3>1
      <3>3. batch'[b].result[n] = IF n \in ids \ misses THEN naptanCache[n] ELSE Absent
        BY <1>1, <1>2, <3>1
      <3> QED BY <1>3, <2>1, <3>1, <3>2, <3>3
    <2>2. CASE d # b
      <3>1. batch'[d] = batch[d] /\ call'[<<d, n>>] = call[<<d, n>>]
        BY <1>1, <1>2, <2>2
      <3> QED BY <1>4, <3>1 DEF Misses
    <2> QED BY <2>1, <2>2
  <1> QED BY <1>4 DEF Misses

LEMMA MissesStep ==
  ASSUME TypeOK, CallsOwned, Misses, [Next]_vars
  PROVE  Misses'
  <1>1. /\ batch \in [Batches -> BatchState] /\ call \in [Call -> CallState]
        /\ \A d \in Batches, n \in Naptans : <<d, n>> \in Call
    BY DEF TypeOK, BatchState, Call
  <1>2. CASE TasksStay /\ UNCHANGED batch
    BY <1>2 DEF TasksStay, Misses
  <1>3. ASSUME NEW b \in Batches, BatchWake(b) \/ BatchCancel(b)
        PROVE  Misses'
    <2>1. TasksStay
      BY <1>3, CancellingKeepsTasks DEF BatchWake, BatchCancel
    <2>2. PICK pc \in {"settling", "aborting"} : batch' = [batch EXCEPT ![b].pc = pc]
      BY <1>3 DEF BatchWake, BatchCancel
    <2>3. batch[b].pc \notin Resting
      BY <1>3 DEF BatchWake, BatchCancel, Resting
    <2>4. ASSUME NEW d \in Batches
          PROVE  /\ batch'[d].ids = batch[d].ids /\ batch'[d].result = batch[d].result
                 /\ batch'[d].pc \notin Resting => batch[d].pc \notin Resting
      BY <1>1, <2>2, <2>3 DEF BatchState
    <2> QED BY <2>1, <2>4 DEF TasksStay, Misses
  <1>4. ASSUME NEW b \in Batches, BatchFinish(b) \/ BatchAbort(b)
        PROVE  Misses'
    <2>1. /\ call' = [c \in Call |-> IF c \in Lookups(b) THEN "none" ELSE call[c]]
          /\ batch'[b].pc \in Resting
          /\ \A d \in Batches : d # b => batch'[d] = batch[d]
      BY <1>1, <1>4 DEF BatchFinish, BatchAbort, BatchState, Resting
    <2>2. \A d \in Batches, n \in Naptans : d # b => call'[<<d, n>>] = call[<<d, n>>]
      BY <1>1, <2>1 DEF Lookups
    <2> QED BY <2>1, <2>2 DEF Misses
  <1>5. ASSUME NEW b \in Batches, NEW ids \in SUBSET Naptans, BatchStart(b, ids)
        PROVE  Misses'
    BY <1>5, MissesStart
  <1>6. ASSUME NEW b \in Batches, NEW n \in Naptans, LookupBegin(<<b, n>>) \/ LookupAnswer(b, n)
        PROVE  TasksStay /\ UNCHANGED batch
    BY <1>1, <1>6, OthersKeepTasks
  <1> QED BY <1>2, <1>3, <1>4, <1>5, <1>6, OthersKeepTasks DEF Next

-----------------------------------------------------------------------------
(* The refinement *)

Served == [b \in Batches |-> batch[b].pc \notin Resting]
Asked == [b \in Batches |-> batch[b].ids]
Told == [b \in Batches |-> batch[b].result]
DirectoryInv == SafetyInv /\ CacheInv /\ Misses

LEMMA DirectoryInvariant == Spec => []DirectoryInv
  <1>1. Init => Misses
    BY DEF Init, Misses, Resting
  <1>2. SafetyInv /\ Misses /\ [Next]_vars => Misses'
    BY MissesStep DEF SafetyInv, TypeInv
  <1> QED BY <1>1, <1>2, SafetyInvariant, CachesAlways, PTL DEF Spec, DirectoryInv

LEMMA StartIsAsk ==
  ASSUME TypeOK, NEW b \in Batches, NEW ids \in SUBSET Naptans, BatchStart(b, ids)
  PROVE  Directory!Ask(b, ids)
  <1> DEFINE misses == {n \in ids : naptanCache[n] = Absent}
             waits == misses # {} /\ tflClient
             answer == [n \in Naptans |->
                 IF n \in ids \ misses THEN naptanCache[n]
                 ELSE IF n \in misses /\ ~waits THEN None ELSE Absent]
             new == [pc |-> IF waits THEN "awaiting" ELSE "returned", ids |-> ids,
                     result |-> answer]
  <1>1. /\ batch \in [Batches -> BatchState] /\ naptanCache' = naptanCache
        /\ batch[b].pc \in Resting /\ batch' = [batch EXCEPT ![b] = new]
    BY DEF TypeOK, BatchState, BatchStart
  <1>2. new.ids = ids /\ new.result = answer /\ (new.pc \in Resting <=> ~waits)
    BY DEF Resting
  <1>3. answer = [n \in Naptans |->
            IF n \notin ids THEN Absent
            ELSE IF naptanCache[n] = Absent /\ ~waits THEN None ELSE naptanCache[n]]
    OBVIOUS
  <1>4. waits => \E n \in ids : naptanCache[n] = Absent
    OBVIOUS
  <1>5. waits \in BOOLEAN
    OBVIOUS
  <1> HIDE DEF waits, answer, new
  <1>6. Served[b] = FALSE
    BY <1>1 DEF Served
  <1>7. Served' = [Served EXCEPT ![b] = waits]
    BY <1>1, <1>2, <1>5 DEF Served
  <1>8. Asked' = [Asked EXCEPT ![b] = ids]
    BY <1>1, <1>2 DEF Asked
  <1>9. Told' = [Told EXCEPT ![b] = answer]
    BY <1>1, <1>2 DEF Told
  <1> QED BY <1>1, <1>3, <1>4, <1>5, <1>6, <1>7, <1>8, <1>9
          DEF Directory!Ask, Served, Asked, Told

\* The ids a finished batch tells the truth about, and the cache learns.
Learnt(b) == {n \in Naptans : call[<<b, n>>] \in Definitive}

LEMMA FinishIsAnswer ==
  ASSUME DirectoryInv, NEW b \in Batches, BatchFinish(b)
  PROVE  \E T \in SUBSET Naptans : Directory!Answer(b, T, T)
  <1> DEFINE ended(n) == call[<<b, n>>]
             name(n) == IF ended(n) = "found" THEN n ELSE None
             missing == {n \in batch[b].ids : batch[b].result[n] = Absent}
             answer == [n \in Naptans |->
                          IF ended(n) \in Answered THEN name(n) ELSE batch[b].result[n]]
             new == [[batch[b] EXCEPT !.pc = "returned"] EXCEPT !.result = answer]
  <1> PICK told \in SUBSET Naptans : told = Learnt(b)
    BY DEF Learnt
  <1>1. /\ batch \in [Batches -> BatchState] /\ call \in [Call -> CallState]
        /\ \A n \in Naptans : <<b, n>> \in Call
    BY DEF DirectoryInv, SafetyInv, TypeInv, TypeOK, BatchState, Call
  <1>2. /\ batch[b].pc = "settling" /\ \A n \in Naptans : ended(n) \in Finished
        /\ batch' = [batch EXCEPT ![b].pc = "returned", ![b].result = answer]
        /\ naptanCache' = [n \in Naptans |->
             IF ended(n) \in Definitive THEN name(n) ELSE naptanCache[n]]
    BY DEF BatchFinish, Lookups
  <1>3. batch' = [batch EXCEPT ![b] = new]
    BY <1>1, <1>2
  <1>4. new.pc = "returned" /\ new.ids = batch[b].ids /\ new.result = answer
    BY <1>1 DEF BatchState
  <1>5. \A n \in Naptans : ended(n) \in Definitive => name(n) = Directory!Truth(n)
    BY DEF DirectoryInv, CacheInv, AnswersTrue, Definitive, Directory!Truth
  <1>6. \A n \in Naptans : n \in missing <=> ended(n) # "none"
    BY <1>2 DEF DirectoryInv, Misses, Resting
  <1>7. told \in SUBSET Naptans /\ told \subseteq missing
    BY <1>6 DEF Learnt, Definitive
  <1>8. answer = [n \in Naptans |-> IF n \in told THEN Directory!Truth(n)
                                    ELSE IF n \in missing THEN None ELSE batch[b].result[n]]
    <2> SUFFICES ASSUME NEW n \in Naptans
                 PROVE  (IF ended(n) \in Answered THEN name(n) ELSE batch[b].result[n]) =
                        (IF n \in told THEN Directory!Truth(n)
                         ELSE IF n \in missing THEN None ELSE batch[b].result[n])
      OBVIOUS
    <2>1. CASE ended(n) \in Definitive
      BY <1>5, <2>1 DEF Learnt, Definitive, Answered
    <2>2. CASE ended(n) \in {"failed", "cancelled"}
      BY <1>6, <2>2 DEF Learnt, Definitive, Answered
    <2>3. CASE ended(n) = "none"
      BY <1>6, <2>3 DEF Learnt, Definitive, Answered
    <2> QED BY <1>2, <2>1, <2>2, <2>3 DEF Finished, Definitive
  <1>9. naptanCache' = [n \in Naptans |-> IF n \in told THEN Directory!Truth(n) ELSE naptanCache[n]]
    BY <1>2, <1>5 DEF Learnt
  <1>10. Served[b] = TRUE /\ Asked[b] = batch[b].ids /\ Told[b] = batch[b].result
    BY <1>2 DEF Served, Asked, Told, Resting
  <1> HIDE DEF answer, new
  <1>11. Served' = [Served EXCEPT ![b] = FALSE]
    BY <1>1, <1>3, <1>4 DEF Served, Resting
  <1>12. Asked' = Asked
    BY <1>1, <1>3, <1>4 DEF Asked
  <1>13. Told' = [Told EXCEPT ![b] = answer]
    BY <1>1, <1>3, <1>4 DEF Told
  <1>14. Directory!Answer(b, told, told)
    BY <1>7, <1>8, <1>9, <1>10, <1>11, <1>12, <1>13 DEF Directory!Answer, Served, Asked, Told
  <1> QED BY <1>14

LEMMA AbortIsGiveUp ==
  ASSUME TypeOK, NEW b \in Batches, BatchAbort(b)
  PROVE  Directory!GiveUp(b)
  <1> DEFINE new == [batch[b] EXCEPT !.pc = "cancelled"]
  <1>1. /\ batch \in [Batches -> BatchState] /\ naptanCache' = naptanCache
        /\ batch[b].pc = "aborting" /\ batch' = [batch EXCEPT ![b] = new]
    BY DEF TypeOK, BatchState, BatchAbort
  <1>2. new.pc = "cancelled" /\ new.ids = batch[b].ids /\ new.result = batch[b].result
    BY <1>1 DEF BatchState
  <1> HIDE DEF new
  <1>3. Served[b] = TRUE /\ Served' = [Served EXCEPT ![b] = FALSE]
    BY <1>1, <1>2 DEF Served, Resting
  <1>4. Asked' = Asked /\ Told' = Told
    BY <1>1, <1>2 DEF Asked, Told
  <1> QED BY <1>1, <1>3, <1>4 DEF Directory!GiveUp, Served, Asked, Told

LEMMA WaitingIsHidden ==
  ASSUME TypeOK, NEW b \in Batches, BatchWake(b) \/ BatchCancel(b)
  PROVE  UNCHANGED <<naptanCache, Served, Asked, Told>>
  <1>1. PICK pc \in {"settling", "aborting"} : batch' = [batch EXCEPT ![b].pc = pc]
    BY DEF BatchWake, BatchCancel
  <1>2. batch \in [Batches -> BatchState] /\ batch[b].pc \notin Resting
    BY DEF TypeOK, BatchState, BatchWake, BatchCancel, Resting
  <1>3. \A d \in Batches : /\ batch'[d].ids = batch[d].ids /\ batch'[d].result = batch[d].result
                           /\ batch'[d].pc \notin Resting <=> batch[d].pc \notin Resting
    BY <1>1, <1>2 DEF BatchState, Resting
  <1>4. naptanCache' = naptanCache
    BY DEF BatchWake, BatchCancel
  <1> QED BY <1>3, <1>4 DEF Served, Asked, Told

LEMMA DirectoryStep ==
  ASSUME DirectoryInv, [Next]_vars
  PROVE  [Directory!Next]_<<naptanCache, Served, Asked, Told>>
  <1> USE DEF Directory!Next
  <1>1. TypeOK
    BY DEF DirectoryInv, SafetyInv, TypeInv
  <1>2. ASSUME NEW b \in Batches, NEW ids \in SUBSET Naptans, BatchStart(b, ids)
        PROVE  Directory!Next
    BY <1>1, <1>2, StartIsAsk
  <1>3. ASSUME NEW b \in Batches, BatchFinish(b)
        PROVE  Directory!Next
    BY <1>3, FinishIsAnswer
  <1>4. ASSUME NEW b \in Batches, BatchAbort(b)
        PROVE  Directory!Next
    BY <1>1, <1>4, AbortIsGiveUp
  <1>5. ASSUME UNCHANGED <<batch, naptanCache>>
        PROVE  UNCHANGED <<naptanCache, Served, Asked, Told>>
    BY <1>5 DEF Served, Asked, Told
  <1>6. \A b \in Batches, n \in Naptans : <<b, n>> \in Call
    BY DEF Call
  <1> HIDE DEF Directory!Next
  <1> QED BY <1>1, <1>2, <1>3, <1>4, <1>5, <1>6, WaitingIsHidden, OthersKeepTasks DEF Next

\* Tasks, permits, deadlines and cancellations are invisible to a caller: its
\* ids are answered from the cache, with the truth, or with None, and the
\* cache only ever learns the truth.
THEOREM ResolverImplementsDirectory == Spec => ImplementsDirectory
  <1>1. Init => Directory!Init
    <2> SUFFICES ASSUME Init PROVE Directory!Init
      OBVIOUS
    <2>1. /\ naptanCache = [n \in Naptans |-> Absent]
          /\ batch = [b \in Batches |->
               [pc |-> "idle", ids |-> {}, result |-> [n \in Naptans |-> Absent]]]
      BY DEF Init
    <2>2. Served = [b \in Batches |-> FALSE]
      BY <2>1 DEF Served, Resting
    <2>3. Asked = [b \in Batches |-> {}] /\ Told = [b \in Batches |-> [n \in Naptans |-> Absent]]
      BY <2>1 DEF Asked, Told
    <2> QED BY <2>1, <2>2, <2>3 DEF Directory!Init, Served, Asked, Told
  <1>2. DirectoryInv /\ [Next]_vars => [Directory!Next]_(Directory!vars)
    BY DirectoryStep DEF Directory!vars, Served, Asked, Told
  <1> QED BY <1>1, <1>2, DirectoryInvariant, PTL DEF Spec, Directory!Spec, ImplementsDirectory

==============================================================================
