--------------------------- MODULE EdgeCacheProofs ---------------------------
(***************************************************************************)
(* The cached routes, for every set of origins and of other callers.       *)
(*                                                                         *)
(* The inductive invariant says of each response the CDN keeps what the    *)
(* properties say of the one a caller gets: it varies by Origin and echoes *)
(* its own, it is a success, and it is hardly older than the time it has   *)
(* been kept.  A variant within its window has such a response.            *)
(***************************************************************************)
EXTENDS EdgeCache, TLAPS

KeptOwn == \A c \in Caller : kept[c] # Empty => kept[c].vary /\ kept[c].body.acao = Echo(c)
KeptGood == \A c \in Caller : kept[c] # Empty => kept[c].body.status = 200
KeptYoung == \A c \in Caller : kept[c] # Empty =>
  kept[c].for < Fresh + Stale /\ kept[c].body.age <= kept[c].for + NamesWait
KeptWindow == \A c \in Caller : since[c] < Fresh => kept[c] # Empty /\ kept[c].for < Fresh

Inv == /\ TypeOK /\ KeptOwn /\ KeptGood /\ KeptYoung /\ KeptWindow
       /\ PageMayRead /\ AtMostAMinuteOld

LEMMA InitInv == Init => Inv
<1> SUFFICES ASSUME Init PROVE Inv
  OBVIOUS
<1>1. TypeOK
  <2>1. {key, up, client, healthy} \subseteq BOOLEAN /\ (client <=> key /\ up)
    BY DEF Init
  <2>2. run \in [Caller -> [at : {"idle", "called", "fetched"}, age : 0..NamesWait]]
    BY DEF Init, Idle, NamesWait
  <2>3. since \in [Caller -> 0..Fresh] /\ kept \in [Caller -> Entry \cup {Empty}]
    BY DEF Init, Fresh
  <2> QED BY <2>1, <2>2, <2>3 DEF Init, TypeOK
<1>2. KeptOwn /\ KeptGood /\ KeptYoung /\ PageMayRead /\ AtMostAMinuteOld
  BY DEF Init, KeptOwn, KeptGood, KeptYoung, PageMayRead, AtMostAMinuteOld
<1>3. KeptWindow
  BY DEF Init, KeptWindow, Fresh
<1> QED BY <1>1, <1>2, <1>3 DEF Inv

\* Steps that touch neither the cache nor what was served.
LEMMA CacheUntouched ==
  ASSUME Inv, UNCHANGED <<kept, served, since>>, TypeOK'
  PROVE  Inv'
BY DEF Inv, KeptOwn, KeptGood, KeptYoung, KeptWindow, PageMayRead, AtMostAMinuteOld

\* While TypeOK holds a kept response is one, and a run's age is a number.
LEMMA Parts ==
  ASSUME TypeOK, NEW c \in Caller
  PROVE  /\ kept[c] # Empty => kept[c] \in Entry
         /\ run[c].at \in {"idle", "called", "fetched"} /\ run[c].age \in 0..NamesWait
         /\ since[c] \in 0..Fresh
BY DEF TypeOK

\* The end of a run.
LEMMA RespondKeeps ==
  ASSUME Inv, NEW c \in Caller, NEW status \in {200, 502, 503}, Respond(c, status)
  PROVE  Inv'
<1> DEFINE body == Response(c, status, run[c].age)
           entry == [body |-> body, for |-> 0, vary |-> TRUE]
           ok == status = 200
<1>1. run[c].age \in Nat /\ run[c].age <= NamesWait
  BY Parts DEF Inv, NamesWait
<1>2. body \in Body /\ body.status = status /\ body.age = run[c].age
      /\ body.to = c /\ body.acao = Echo(c)
  BY <1>1 DEF Response, Body, Echo
<1>3. entry \in Entry /\ entry # Empty
      /\ entry.body = body /\ entry.for = 0 /\ entry.vary
  <2> HIDE DEF body
  <2>1. entry \in Entry
    BY <1>2 DEF Entry
  <2>2. entry # Empty
    BY <2>1, EdgeAssumption
  <2> QED BY <2>1, <2>2
<1>4. kept' = IF ok THEN [kept EXCEPT ![c] = entry] ELSE kept
  <2>1. Headers(c, ok).cache = ok /\ (ok => Headers(c, ok).vary = TRUE)
    BY DEF Headers
  <2> QED BY <2>1 DEF Respond
<1>5. /\ kept' \in [Caller -> Entry \cup {Empty}]
      /\ \A d \in Caller : kept'[d] = IF ok /\ d = c THEN entry ELSE kept[d]
  <2> HIDE DEF entry, ok
  <2>1. kept \in [Caller -> Entry \cup {Empty}]
    BY DEF Inv, TypeOK
  <2> QED BY <1>3, <1>4, <2>1
<1>6. /\ since' \in [Caller -> 0..Fresh]
      /\ \A d \in Caller : since'[d] = IF ok /\ d = c THEN 0 ELSE since[d]
  BY DEF Inv, TypeOK, Respond, Fresh
<1>7. served' \in {body, served}
  BY DEF Respond
<1>8. TypeOK'
  <2>1. run' \in [Caller -> [at : {"idle", "called", "fetched"}, age : 0..NamesWait]]
    BY DEF Inv, TypeOK, Respond, Idle, NamesWait
  <2>2. waiting' \subseteq Caller /\ served' \in Body \cup {Empty}
        /\ {key', up', client', healthy'} \subseteq BOOLEAN /\ (client' <=> key' /\ up')
    BY <1>2, <1>7 DEF Inv, TypeOK, Respond
  <2> QED BY <2>1, <2>2, <1>5, <1>6 DEF TypeOK
<1>9. KeptOwn' /\ KeptGood'
  BY <1>2, <1>3, <1>5 DEF Inv, KeptOwn, KeptGood
<1>10. KeptYoung'
  BY <1>1, <1>2, <1>3, <1>5 DEF Inv, KeptYoung, NamesWait, Fresh, Stale
<1>11. KeptWindow'
  BY <1>3, <1>5, <1>6 DEF Inv, KeptWindow, Fresh
<1>12. PageMayRead' /\ AtMostAMinuteOld'
  BY <1>1, <1>2, <1>7 DEF Inv, PageMayRead, AtMostAMinuteOld, Echo, NamesWait
<1> QED BY <1>8, <1>9, <1>10, <1>11, <1>12 DEF Inv

\* A poll, answered from the cache or left waiting.
LEMMA PollKeeps ==
  ASSUME Inv, NEW c \in Caller, Poll(c)
  PROVE  Inv'
<1>1. run' \in [Caller -> [at : {"idle", "called", "fetched"}, age : 0..NamesWait]]
  BY DEF Inv, TypeOK, Poll, CallOnce, Called, NamesWait
<1>2. UNCHANGED <<key, up, client, healthy, kept, since>> /\ waiting' \subseteq Caller
  BY DEF Inv, TypeOK, Poll
<1>3. CASE served' = served
  <2>1. TypeOK'
    BY <1>1, <1>2, <1>3 DEF Inv, TypeOK
  <2> QED BY <2>1, <1>2, <1>3, CacheUntouched
<1>4. CASE \E v \in Usable(c) : served' = [kept[v].body EXCEPT !.to = c]
  <2>1. PICK v \in Usable(c) : served' = [kept[v].body EXCEPT !.to = c]
    BY <1>4
  <2>2. v = c /\ kept[c] # Empty
    BY <2>1 DEF Usable, Inv, KeptOwn
  <2>3. kept[c] \in Entry
    BY <2>2, Parts DEF Inv
  <2>4. kept[c].body \in Body /\ kept[c].body.acao = Echo(c)
        /\ kept[c].body.age <= 1 + NamesWait
    BY <2>2, <2>3 DEF Inv, KeptOwn, KeptYoung, Entry, Body, Fresh, Stale, NamesWait
  <2>5. served' \in Body /\ served'.to = c /\ served'.acao = Echo(c)
        /\ served'.age <= 1 + NamesWait
    BY <2>1, <2>2, <2>4 DEF Body
  <2>6. TypeOK'
    BY <1>1, <1>2, <2>5 DEF Inv, TypeOK
  <2>7. PageMayRead' /\ AtMostAMinuteOld'
    BY <2>5 DEF PageMayRead, AtMostAMinuteOld, Echo
  <2> QED BY <1>2, <2>6, <2>7 DEF Inv, KeptOwn, KeptGood, KeptYoung, KeptWindow
<1> QED BY <1>3, <1>4 DEF Poll

\* Time passes: a response that leaves the stale window leaves the cache.
LEMMA TickKeeps ==
  ASSUME Inv, Tick
  PROVE  Inv'
<1>1. ASSUME NEW c \in Caller, kept[c] # Empty
      PROVE  kept[c] \in Entry /\ kept[c].body \in Body
             /\ kept[c].for \in Nat /\ kept[c].body.age \in Nat
  BY <1>1, Parts DEF Inv, Entry, Body
<1>2. ASSUME NEW c \in Caller, kept'[c] # Empty
      PROVE  /\ kept[c] # Empty /\ kept'[c] \in Entry
             /\ kept'[c].for = kept[c].for + 1 /\ kept'[c].for < Fresh + Stale
             /\ kept'[c].vary = kept[c].vary
             /\ kept'[c].body.acao = kept[c].body.acao
             /\ kept'[c].body.status = kept[c].body.status
             /\ kept'[c].body.age = kept[c].body.age + 1
  <2>1. kept'[c] = Older(kept[c])
    BY DEF Tick
  <2>2. kept[c] # Empty /\ kept[c].for + 1 < Fresh + Stale
    BY <1>2, <2>1, <1>1 DEF Older, Fresh, Stale
  <2>3. kept'[c] = [body |-> [kept[c].body EXCEPT !.age = @ + 1],
                    for |-> kept[c].for + 1, vary |-> kept[c].vary]
    BY <1>2, <2>1 DEF Older
  <2>4. kept[c] \in Entry /\ kept[c].body \in Body
        /\ kept[c].for \in Nat /\ kept[c].body.age \in Nat
    BY <2>2, <1>1
  <2> QED BY <2>2, <2>3, <2>4 DEF Entry, Body
<1>3. kept' \in [Caller -> Entry \cup {Empty}]
  BY <1>2 DEF Tick
<1>4. /\ since' \in [Caller -> 0..Fresh]
      /\ \A c \in Caller : since'[c] = Fresh
  BY DEF Inv, TypeOK, Tick, Fresh
<1>5. TypeOK'
  <2>1. run' \in [Caller -> [at : {"idle", "called", "fetched"}, age : 0..NamesWait]]
    BY DEF Inv, TypeOK, Tick, NamesWait
  <2> QED BY <2>1, <1>3, <1>4 DEF Inv, TypeOK, Tick
<1>6. KeptOwn' /\ KeptGood'
  BY <1>2 DEF Inv, KeptOwn, KeptGood
<1>7. KeptYoung'
  BY <1>1, <1>2 DEF Inv, KeptYoung, NamesWait, Fresh, Stale
<1>8. KeptWindow'
  BY <1>4 DEF KeptWindow, Fresh
<1> QED BY <1>5, <1>6, <1>7, <1>8 DEF Inv, Tick, PageMayRead, AtMostAMinuteOld

LEMMA StepInv == Inv /\ [Next]_vars => Inv'
<1> SUFFICES ASSUME Inv, [Next]_vars PROVE Inv'
  OBVIOUS
<1>1. CASE Startup
  <2>1. TypeOK'
    BY <1>1 DEF Startup, OpenedClient, Inv, TypeOK
  <2> QED BY <2>1, <1>1, CacheUntouched DEF Startup
<1>2. CASE Shutdown
  <2>1. TypeOK'
    BY <1>2 DEF Shutdown, ClientAfterStop, Inv, TypeOK
  <2> QED BY <2>1, <1>2, CacheUntouched DEF Shutdown
<1>3. CASE TflChanges
  <2>1. TypeOK'
    BY <1>3 DEF TflChanges, Inv, TypeOK
  <2> QED BY <2>1, <1>3, CacheUntouched DEF TflChanges
<1>4. CASE Tick
  BY <1>4, TickKeeps
<1>5. ASSUME NEW c \in Caller, Poll(c) PROVE Inv'
  BY <1>5, PollKeeps
<1>6. ASSUME NEW c \in Caller, Route(c) PROVE Inv'
  <2>1. CASE Fetched(c)
    <3>1. TypeOK'
      BY <2>1 DEF Fetched, Inv, TypeOK, NamesWait
    <3> QED BY <3>1, <2>1, CacheUntouched DEF Fetched
  <2>2. CASE Unconfigured(c) \/ FetchFailed(c) \/ Finished(c)
    BY <2>2, RespondKeeps DEF Unconfigured, FetchFailed, Finished
  <2> QED BY <1>6, <2>1, <2>2 DEF Route
<1>7. CASE UNCHANGED vars
  <2>1. TypeOK'
    BY <1>7 DEF vars, Inv, TypeOK
  <2> QED BY <2>1, <1>7, CacheUntouched DEF vars
<1> QED BY <1>1, <1>2, <1>3, <1>4, <1>5, <1>6, <1>7 DEF Next

LEMMA InvAlways == Spec => []Inv
BY InitInv, StepInv, PTL DEF Spec

\* The types of main.py's slots, the CDN's entries and the runs under way; the
\* TfL client is open exactly while a configured instance is up.
THEOREM EdgeTypeCorrect == Spec => []TypeOK
BY InvAlways, PTL DEF Inv

\* Vary: Origin on every cached response protects every allowed origin.
THEOREM PagesMayRead == Spec => []PageMayRead
BY InvAlways, PTL DEF Inv

\* What the cache hands out is never older than its two windows allow.
THEOREM NothingOlder == Spec => []AtMostAMinuteOld
BY InvAlways, PTL DEF Inv

\* _problem's responses are never replayed.
THEOREM NoErrorReplayed == Spec => ErrorsAreFirstHand
<1> DEFINE Told == served' # served /\ served'.status # 200
                     => served'.to \in waiting /\ served'.to \notin waiting'
<1>1. Inv /\ [Next]_vars => [Told]_vars
  <2> SUFFICES ASSUME Inv, Next, served' # served, served'.status # 200
               PROVE  served'.to \in waiting /\ served'.to \notin waiting'
    BY DEF vars
  <2>1. ASSUME NEW c \in Caller, Poll(c) PROVE FALSE
    <3>1. PICK v \in Usable(c) : served' = [kept[v].body EXCEPT !.to = c]
      BY <2>1 DEF Poll
    <3>2. v = c /\ kept[c] # Empty
      BY <3>1 DEF Usable, Inv, KeptOwn
    <3>3. kept[c].body \in Body /\ kept[c].body.status = 200
      BY <3>2, Parts DEF Inv, KeptGood, Entry
    <3> QED BY <3>1, <3>2, <3>3 DEF Body
  <2>2. ASSUME NEW c \in Caller, NEW status, Respond(c, status)
        PROVE  served'.to \in waiting /\ served'.to \notin waiting'
    BY <2>2 DEF Respond, Response
  <2>3. CASE \E c \in Caller : Route(c)
    BY <2>2, <2>3 DEF Route, Unconfigured, Fetched, FetchFailed, Finished
  <2> QED BY <2>1, <2>3 DEF Next, Startup, Shutdown, TflChanges, Tick
<1> QED BY <1>1, InvAlways, PTL DEF Spec, ErrorsAreFirstHand

\* Cache-Control limits each variant to one successful run per window.
THEOREM WindowsHold == Spec => OneRunPerWindow
<1> DEFINE Quiet == \A c \in Caller : run[c] = Idle /\ run'[c] # Idle => since[c] = Fresh
<1>1. Inv /\ [Next]_vars => [Quiet]_vars
  <2> SUFFICES ASSUME Inv, Next, NEW d \in Caller, run[d] = Idle, run'[d] # Idle
               PROVE  since[d] = Fresh
    OBVIOUS
  <2>1. ASSUME NEW c \in Caller, Poll(c) PROVE since[d] = Fresh
    <3>1. CallOnce(c) /\ d = c
      BY <2>1 DEF Poll, CallOnce, Inv, TypeOK
    <3>2. kept[c] # Empty => ~(kept[c].for < Fresh)
      <4> SUFFICES ASSUME kept[c] # Empty PROVE ~(kept[c].for < Fresh)
        OBVIOUS
      <4>1. Usable(c) = {c}
        BY DEF Usable, Inv, KeptOwn
      <4>2. run' # run
        BY <3>1
      <4>3. kept[c].for \in Nat
        BY Parts DEF Inv, Entry
      <4>4. kept[c].for >= Fresh
        BY <4>1, <4>2, <2>1 DEF Poll
      <4> QED BY <4>3, <4>4 DEF Fresh
    <3>3. ~(since[c] < Fresh)
      BY <3>2 DEF Inv, KeptWindow
    <3> QED BY <3>1, <3>3, Parts DEF Inv, Fresh
  <2>2. CASE \E c \in Caller : Route(c)
    BY <2>2 DEF Route, Unconfigured, Fetched, FetchFailed, Finished, Respond, Inv, TypeOK, Idle
  <2>3. CASE Tick
    BY <2>3 DEF Tick, Inv, TypeOK, Idle
  <2> QED BY <2>1, <2>2, <2>3 DEF Next, Startup, Shutdown, TflChanges
<1> QED BY <1>1, InvAlways, PTL DEF Spec, OneRunPerWindow
=============================================================================
