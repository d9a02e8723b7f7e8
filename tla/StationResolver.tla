--------------------------- MODULE StationResolver ---------------------------
(***************************************************************************)
(* src/api/stations.py: the two station resolvers and everything they      *)
(* share inside one function process -- the asyncio semaphore that caps    *)
(* the TfL calls in flight, the NaPTAN cache and the bounded name cache.   *)
(*                                                                         *)
(* A batch is a coroutine inside resolve_naptans: it splits its ids into   *)
(* cache hits and misses, creates one lookup task per miss and waits for   *)
(* them until a deadline.  A search is a coroutine inside resolve_name:    *)
(* one /StopPoint/Search call and, when the best match is a hub, a second  *)
(* call to find a usable child.  Coroutines interleave at every await; a   *)
(* step of the model is what runs between two awaits.  Any caller may be   *)
(* cancelled while it is suspended (a dropped chat stream).                *)
(*                                                                         *)
(* TfL is the environment: a call is answered truthfully or fails for a    *)
(* transient reason.  The name of a station is represented by its NaPTAN.  *)
(***************************************************************************)
EXTENDS Integers, FiniteSets, SequencesExt

CONSTANTS
  Batches,       \* callers of resolve_naptans
  Searches,      \* callers of resolve_name
  Naptans,       \* NaPTAN codes a batch may ask for
  Known,         \* the codes /StopPoint/{id} finds; it answers 404 for the rest
  Queries,       \* free-text queries
  Blank,         \* the query that is empty once stripped
  CacheKey,      \* query -> its lower-cased key in the name cache
  StopIds,       \* ids /StopPoint/Search can return
  TopMatch,      \* query -> id of the best match, None for an empty result
  Hubs,          \* the ids that start with HUB
  RailChild,     \* hub -> preferred rail child, None if it has none
  Concurrency,   \* _TFL_LOOKUP_CONCURRENCY
  NameCacheMax,  \* _NAME_CACHE_MAX
  None,          \* Python's None
  Absent         \* no entry in a dict

ASSUME ResolverAssumption ==
  /\ IsFiniteSet(Batches) /\ IsFiniteSet(Searches) /\ IsFiniteSet(Naptans)
  /\ Searches \cap (Batches \X Naptans) = {}
  /\ Known \subseteq Naptans
  /\ Blank \in Queries
  /\ CacheKey \in [Queries -> Queries]
  /\ Hubs \subseteq StopIds
  /\ TopMatch \in [Queries -> StopIds \cup {None}]
  /\ RailChild \in [Hubs -> StopIds \cup {None}]
  /\ Concurrency \in Nat \ {0}
  /\ NameCacheMax \in Nat \ {0}
  /\ None # Absent
  /\ {None, Absent} \cap (Naptans \cup StopIds) = {}

VARIABLES
  tflClient,    \* whether the process has a TfL client (app key configured)
  permits,      \* free permits of _TFL_SEMAPHORE
  waiters,      \* coroutines queued on _TFL_SEMAPHORE, oldest first
  call,         \* how far each TfL call has got
  naptanCache,  \* _NAPTAN_CACHE
  nameCache,    \* _NAME_CACHE in insertion order
  batch,        \* what each batch is doing, asked for and has resolved
  search        \* what each search is doing, asked for and resolved to

vars == <<tflClient, permits, waiters, call, naptanCache, nameCache,
          batch, search>>

Lookups(b) == {b} \X Naptans                  \* the tasks of batch b
Call == (Batches \X Naptans) \cup Searches     \* whoever may hold a permit

\* "calling" and "unwinding" hold a permit, "waiting" and "withdrawn" stand
\* in the queue; a withdrawn or unwinding call has been cancelled but has not
\* run its clean-up yet.
CallState == {"none", "created", "waiting", "calling", "withdrawn", "unwinding",
              "found", "unknown", "failed", "cancelled"}
Finished == {"none", "found", "unknown", "failed", "cancelled"}
Holders == {c \in Call : call[c] \in {"calling", "unwinding"}}

Resting == {"idle", "returned", "cancelled"}
Name == Naptans \cup {None}
StopId == StopIds \cup {None}
CacheEntry == [key : Queries, id : StopId]

TypeOK ==
  /\ tflClient \in BOOLEAN
  /\ permits \in Nat
  /\ waiters \in Seq(Call)
  /\ call \in [Call -> CallState]
  /\ naptanCache \in [Naptans -> Name \cup {Absent}]
  /\ nameCache \in Seq(CacheEntry)
  /\ batch \in [Batches -> [pc : Resting \cup {"awaiting", "settling", "aborting"},
                            ids : SUBSET Naptans,
                            result : [Naptans -> Name \cup {Absent}]]]
  /\ search \in [Searches -> [pc : Resting \cup {"searching", "dereferencing", "aborting"},
                              query : Queries,
                              id : StopId]]

Init ==
  /\ tflClient \in BOOLEAN
  /\ permits = Concurrency
  /\ waiters = <<>>
  /\ call = [c \in Call |-> "none"]
  /\ naptanCache = [n \in Naptans |-> Absent]
  /\ nameCache = <<>>
  /\ batch = [b \in Batches |->
                [pc |-> "idle", ids |-> {}, result |-> [n \in Naptans |-> Absent]]]
  /\ search = [s \in Searches |-> [pc |-> "idle", query |-> Blank, id |-> None]]

-----------------------------------------------------------------------------
(* asyncio.Semaphore *)

\* As if release() only looked at the head of the queue.
LiveHeadOnly == {i \in DOMAIN waiters : i = 1 /\ call[waiters[i]] = "waiting"}

Live == {i \in DOMAIN waiters : call[waiters[i]] = "waiting"}

\* As if acquire() did not look at the count.
EnterAtOnce(c) ==
  /\ permits' = permits - 1
  /\ call' = [call EXCEPT ![c] = "calling"]
  /\ UNCHANGED waiters

\* acquire(): take a permit, or queue behind whoever is already waiting.
Enter(c) ==
  \/ /\ permits > 0 /\ Live = {}
     /\ permits' = permits - 1
     /\ call' = [call EXCEPT ![c] = "calling"]
     /\ UNCHANGED waiters
  \/ /\ permits = 0 \/ Live # {}
     /\ call' = [call EXCEPT ![c] = "waiting"]
     /\ waiters' = Append(waiters, c)
     /\ UNCHANGED permits

\* release() at the end of c's call, which is left in state st: the permit
\* goes straight to the oldest waiter that has not been cancelled.
Leave(c, st) ==
  \/ /\ Live = {}
     /\ permits' = permits + 1
     /\ call' = [call EXCEPT ![c] = st]
     /\ UNCHANGED waiters
  \/ \E i \in Live :
        /\ \A j \in Live : i <= j
        /\ call' = [call EXCEPT ![c] = st, ![waiters[i]] = "calling"]
        /\ waiters' = RemoveAt(waiters, i)
        /\ UNCHANGED permits

\* As if the hub were looked up inside the search's own "async with".
ReenterNested(c) ==
  /\ call' = [call EXCEPT ![c] = "waiting"]
  /\ waiters' = Append(waiters, c)
  /\ UNCHANGED permits

\* release() followed at once by acquire(), with no await in between: c goes
\* to the back of the queue if anybody was waiting.
Reenter(c) ==
  \/ /\ Live = {}
     /\ UNCHANGED <<permits, waiters, call>>
  \/ \E i \in Live :
        /\ \A j \in Live : i <= j
        /\ call' = [call EXCEPT ![c] = "waiting", ![waiters[i]] = "calling"]
        /\ waiters' = Append(RemoveAt(waiters, i), c)
        /\ UNCHANGED permits

\* As if the permit were taken without "async with".
AfterCancelKeepsPermit(st) ==
  CASE st \in {"created", "calling"} -> "cancelled"
    [] st = "waiting" -> "withdrawn"
    [] OTHER -> st

\* task.cancel(): a task that never ran is over, a queued or running one
\* still has to unwind, a finished one is left alone.
AfterCancel(st) ==
  CASE st = "created" -> "cancelled"
    [] st = "waiting" -> "withdrawn"
    [] st = "calling" -> "unwinding"
    [] OTHER -> st

CancelCalls(C) ==
  call' = [c \in Call |-> IF c \in C THEN AfterCancel(call[c]) ELSE call[c]]

\* CancelledError runs through a cancelled call: it leaves the queue or
\* releases its permit.
Unwind(c) ==
  /\ \/ /\ call[c] = "withdrawn"
        /\ \E i \in DOMAIN waiters :
              waiters[i] = c /\ waiters' = RemoveAt(waiters, i)
        /\ call' = [call EXCEPT ![c] = "cancelled"]
        /\ UNCHANGED permits
     \/ /\ call[c] = "unwinding"
        /\ Leave(c, "cancelled")
  /\ UNCHANGED <<tflClient, naptanCache, nameCache, batch, search>>

-----------------------------------------------------------------------------
(* resolve_naptans and _lookup *)

CommonName(n) == IF n \in Known THEN n ELSE None

\* The endings of a lookup that are cached, and those that answer its id.
DefinitiveOrFailed == {"found", "unknown", "failed"}
Definitive == {"found", "unknown"}
Answered == {"found", "unknown", "failed", "cancelled"}

\* Split the ids into hits and misses; without misses (or without a client)
\* the batch returns at once, otherwise it creates its tasks and waits.
BatchStart(b, ids) ==
  LET misses == {n \in ids : naptanCache[n] = Absent}
      waits  == misses # {} /\ tflClient
  IN  /\ batch[b].pc \in Resting
      /\ batch' = [batch EXCEPT ![b] =
           [pc |-> IF waits THEN "awaiting" ELSE "returned",
            ids |-> ids,
            result |-> [n \in Naptans |->
               IF n \in ids \ misses THEN naptanCache[n]
               ELSE IF n \in misses /\ ~waits THEN None ELSE Absent]]]
      /\ call' = [c \in Call |->
           IF waits /\ c \in {b} \X misses THEN "created" ELSE call[c]]
      /\ UNCHANGED <<tflClient, permits, waiters, naptanCache, nameCache, search>>

LookupBegin(c) ==
  /\ call[c] = "created"
  /\ Enter(c)
  /\ UNCHANGED <<tflClient, naptanCache, nameCache, batch, search>>

\* TfL answers a lookup (200 or 404), or the call fails some other way.
LookupAnswer(b, n) ==
  /\ call[<<b, n>>] = "calling"
  /\ \E st \in {"failed", IF n \in Known THEN "found" ELSE "unknown"} :
        Leave(<<b, n>>, st)
  /\ UNCHANGED <<tflClient, naptanCache, nameCache, batch, search>>

\* As if asyncio.wait had no timeout.
BatchWakeNoDeadline(b) ==
  /\ batch[b].pc = "awaiting"
  /\ \A c \in Lookups(b) : call[c] \in Finished
  /\ batch' = [batch EXCEPT ![b].pc = "settling"]
  /\ UNCHANGED <<tflClient, permits, waiters, call, naptanCache, nameCache, search>>

\* asyncio.wait returns because every task is done or because the deadline
\* passed, which can happen at any point; whatever is unfinished is cancelled.
BatchWake(b) ==
  /\ batch[b].pc = "awaiting"
  /\ batch' = [batch EXCEPT ![b].pc = "settling"]
  /\ CancelCalls(Lookups(b))
  /\ UNCHANGED <<tflClient, permits, waiters, naptanCache, nameCache, search>>

\* The gather over the tasks is over: record what was answered, None for the
\* rest, and cache the definitive answers.
BatchFinish(b) ==
  LET ended(n) == call[<<b, n>>]
      name(n)  == IF ended(n) = "found" THEN n ELSE None
  IN  /\ batch[b].pc = "settling"
      /\ \A c \in Lookups(b) : call[c] \in Finished
      /\ batch' = [batch EXCEPT
           ![b].pc = "returned",
           ![b].result = [n \in Naptans |->
              IF ended(n) \in Answered THEN name(n) ELSE batch[b].result[n]]]
      /\ naptanCache' = [n \in Naptans |->
           IF ended(n) \in Definitive THEN name(n) ELSE naptanCache[n]]
      /\ call' = [c \in Call |-> IF c \in Lookups(b) THEN "none" ELSE call[c]]
      /\ UNCHANGED <<tflClient, permits, waiters, nameCache, search>>

\* The caller is cancelled while it waits for its tasks or for their clean-up.
BatchCancel(b) ==
  /\ batch[b].pc \in {"awaiting", "settling"}
  /\ batch' = [batch EXCEPT ![b].pc = "aborting"]
  /\ CancelCalls(Lookups(b))
  /\ UNCHANGED <<tflClient, permits, waiters, naptanCache, nameCache, search>>

\* As if the cancelled tasks were not awaited.
BatchAbortAtOnce(b) ==
  /\ batch[b].pc = "aborting"
  /\ batch' = [batch EXCEPT ![b].pc = "cancelled"]
  /\ UNCHANGED <<tflClient, permits, waiters, call, naptanCache, nameCache, search>>

\* Once its tasks are gone the CancelledError propagates; nothing is cached.
BatchAbort(b) ==
  /\ batch[b].pc = "aborting"
  /\ \A c \in Lookups(b) : call[c] \in Finished
  /\ batch' = [batch EXCEPT ![b].pc = "cancelled"]
  /\ call' = [c \in Call |-> IF c \in Lookups(b) THEN "none" ELSE call[c]]
  /\ UNCHANGED <<tflClient, permits, waiters, naptanCache, nameCache, search>>

-----------------------------------------------------------------------------
(* resolve_name and _deref_hub *)

Cached(k) == {i \in DOMAIN nameCache : nameCache[i].key = k}

\* What is left of the name cache when an entry is about to be written.
KeptOneTooMany == IF Len(nameCache) > NameCacheMax THEN Tail(nameCache) ELSE nameCache
KeptOldest == IF Len(nameCache) >= NameCacheMax THEN Front(nameCache) ELSE nameCache
Kept == IF Len(nameCache) >= NameCacheMax THEN Tail(nameCache) ELSE nameCache

\* A key that is already present keeps its place in the dict's order.
Store(k, id) ==
  LET entry == [key |-> k, id |-> id]
  IN  nameCache' = IF \E i \in DOMAIN Kept : Kept[i].key = k
                   THEN [i \in DOMAIN Kept |-> IF Kept[i].key = k THEN entry ELSE Kept[i]]
                   ELSE Append(Kept, entry)

Return(s, id) ==
  search' = [search EXCEPT ![s].pc = "returned", ![s].id = id]

SearchStart(s, q) ==
  /\ search[s].pc \in Resting
  /\ \/ /\ ~tflClient \/ q = Blank
        /\ search' = [search EXCEPT ![s] = [pc |-> "returned", query |-> q, id |-> None]]
        /\ UNCHANGED <<permits, waiters, call>>
     \/ /\ tflClient /\ q # Blank
        /\ \E i \in Cached(CacheKey[q]) :
              search' = [search EXCEPT ![s] =
                [pc |-> "returned", query |-> q, id |-> nameCache[i].id]]
        /\ UNCHANGED <<permits, waiters, call>>
     \/ /\ tflClient /\ q # Blank
        /\ Cached(CacheKey[q]) = {}
        /\ search' = [search EXCEPT ![s] = [pc |-> "searching", query |-> q, id |-> None]]
        /\ Enter(s)
  /\ UNCHANGED <<tflClient, naptanCache, nameCache, batch>>

\* search_stop fails: None, uncached.
SearchFail(s) ==
  /\ search[s].pc = "searching" /\ call[s] = "calling"
  /\ Leave(s, "none")
  /\ Return(s, None)
  /\ UNCHANGED <<tflClient, naptanCache, nameCache, batch>>

\* search_stop answers.  A hub needs a second call, for which the permit is
\* given up and acquired again; anything else is cached and returned.
SearchAnswer(s) ==
  LET q == search[s].query IN
  /\ search[s].pc = "searching" /\ call[s] = "calling"
  /\ \/ /\ TopMatch[q] \notin Hubs
        /\ Leave(s, "none")
        /\ Store(CacheKey[q], TopMatch[q])
        /\ Return(s, TopMatch[q])
     \/ /\ TopMatch[q] \in Hubs
        /\ Reenter(s)
        /\ search' = [search EXCEPT ![s].pc = "dereferencing"]
        /\ UNCHANGED nameCache
  /\ UNCHANGED <<tflClient, naptanCache, batch>>

\* fetch_stop_point(hub) fails: the hub id itself, uncached.
DerefFail(s) ==
  /\ search[s].pc = "dereferencing" /\ call[s] = "calling"
  /\ Leave(s, "none")
  /\ Return(s, TopMatch[search[s].query])
  /\ UNCHANGED <<tflClient, naptanCache, nameCache, batch>>

Endpoint(hub) == IF RailChild[hub] = None THEN hub ELSE RailChild[hub]

DerefAnswer(s) ==
  LET q  == search[s].query
      id == Endpoint(TopMatch[q])
  IN  /\ search[s].pc = "dereferencing" /\ call[s] = "calling"
      /\ Leave(s, "none")
      /\ Store(CacheKey[q], id)
      /\ Return(s, id)
      /\ UNCHANGED <<tflClient, naptanCache, batch>>

SearchCancel(s) ==
  /\ search[s].pc \in {"searching", "dereferencing"}
  /\ search' = [search EXCEPT ![s].pc = "aborting"]
  /\ CancelCalls({s})
  /\ UNCHANGED <<tflClient, permits, waiters, naptanCache, nameCache, batch>>

SearchAbort(s) ==
  /\ search[s].pc = "aborting" /\ call[s] = "cancelled"
  /\ search' = [search EXCEPT ![s].pc = "cancelled"]
  /\ call' = [call EXCEPT ![s] = "none"]
  /\ UNCHANGED <<tflClient, permits, waiters, naptanCache, nameCache, batch>>

-----------------------------------------------------------------------------
Next ==
  \/ \E b \in Batches :
       \/ \E ids \in SUBSET Naptans : BatchStart(b, ids)
       \/ \E n \in Naptans : LookupBegin(<<b, n>>) \/ LookupAnswer(b, n)
       \/ BatchWake(b) \/ BatchFinish(b) \/ BatchCancel(b) \/ BatchAbort(b)
  \/ \E s \in Searches :
       \/ \E q \in Queries : SearchStart(s, q)
       \/ SearchFail(s) \/ SearchAnswer(s) \/ DerefFail(s) \/ DerefAnswer(s)
       \/ SearchCancel(s) \/ SearchAbort(s)
  \/ \E c \in Call : Unwind(c)

Spec == Init /\ [][Next]_vars

\* The event loop runs every ready coroutine and fires every due timer.
LoopFairness ==
  /\ \A b \in Batches :
       /\ WF_vars(BatchWake(b))
       /\ WF_vars(BatchFinish(b))
       /\ WF_vars(BatchAbort(b))
       /\ \A n \in Naptans : WF_vars(LookupBegin(<<b, n>>))
  /\ \A s \in Searches : WF_vars(SearchAbort(s))
  /\ \A c \in Call : WF_vars(Unwind(c))

\* A TfL call ends: the client gives up after its timeouts and attempts.
TflFairness ==
  /\ \A b \in Batches, n \in Naptans : WF_vars(LookupAnswer(b, n))
  /\ \A s \in Searches :
       WF_vars(SearchFail(s) \/ SearchAnswer(s) \/ DerefFail(s) \/ DerefAnswer(s))

LoopSpec == Spec /\ LoopFairness
FairSpec == LoopSpec /\ TflFairness

-----------------------------------------------------------------------------
(* Properties *)

\* Every permit is either free or held by exactly one call, through every
\* interleaving of answers, hand-overs and cancellations: the process never
\* has more than Concurrency TfL calls open and never loses a permit.
PermitsAccounted == permits + Cardinality(Holders) = Concurrency

\* No lost wake-up: a call waits only while every permit is in use, and
\* whoever waits is in the queue that release() serves.
NoLostWakeup ==
  \A c \in Call : call[c] = "waiting" =>
    permits = 0 /\ c \in ToSet(waiters)

\* "None outlives the request": when a batch or a search has returned or was
\* cancelled, none of its calls holds a permit, stands in the queue or is yet
\* to start, so a dropped chat stream cannot keep slots busy for others.
NoneOutlivesRequest ==
  /\ \A b \in Batches : batch[b].pc \in Resting =>
       \A c \in Lookups(b) : call[c] = "none" /\ c \notin ToSet(waiters)
  /\ \A s \in Searches : search[s].pc \in Resting =>
       call[s] = "none" /\ s \notin ToSet(waiters)

\* The id a query stands for when no TfL call fails.
Resolution(q) == IF TopMatch[q] \in Hubs THEN Endpoint(TopMatch[q]) ELSE TopMatch[q]

\* Neither cache is ever poisoned by a transient failure, a deadline or a
\* cancellation: an entry is what TfL definitively says, for some query that
\* shares the key.
CachesSound ==
  /\ \A n \in Naptans : naptanCache[n] \in {Absent, CommonName(n)}
  /\ \A i \in DOMAIN nameCache : \E q \in Queries :
       CacheKey[q] = nameCache[i].key /\ nameCache[i].id = Resolution(q)

\* The name cache is bounded, and no key is stored twice, although two
\* searches for the same key may both miss and both write.
NameCacheBounded ==
  /\ Len(nameCache) <= NameCacheMax
  /\ \A i, j \in DOMAIN nameCache : nameCache[i].key = nameCache[j].key => i = j

\* An eviction drops the oldest entry only, and never while there is room.
EvictsOldestWhenFull ==
  [][\A i \in DOMAIN nameCache :
       (\A j \in DOMAIN nameCache' : nameCache'[j].key # nameCache[i].key)
         => i = 1 /\ Len(nameCache) = NameCacheMax]_nameCache

\* resolve_naptans as its callers see it.
Directory == INSTANCE StationDirectory WITH
  callers <- Batches,
  facts   <- naptanCache,
  open    <- [b \in Batches |-> batch[b].pc \notin Resting],
  ids     <- [b \in Batches |-> batch[b].ids],
  reply   <- [b \in Batches |-> batch[b].result]

\* Tasks, permits, deadlines and cancellations are invisible: a batch answers
\* every cached id from the cache, each other id with the truth or None, the
\* cache only ever learns the truth, and a cancelled batch teaches it nothing.
ImplementsDirectory == Directory!Spec

\* A batch always comes back, within its deadline, even if TfL never answers
\* a single call and however many others compete for permits.
BatchReturns ==
  \A b \in Batches : (batch[b].pc \notin Resting) ~> (batch[b].pc \in Resting)

\* A search comes back as long as every TfL call ends: the queue is fair, and
\* giving the permit up between search and hub lookup cannot deadlock.
SearchReturns ==
  \A s \in Searches : (search[s].pc \notin Resting) ~> (search[s].pc \in Resting)
=============================================================================
