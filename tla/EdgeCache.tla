------------------------------ MODULE EdgeCache ------------------------------
(***************************************************************************)
(* src/api/main.py: start-up, shut-down and one cached GET route, with the *)
(* CDN in front of the function and the callers in front of the CDN.       *)
(*                                                                         *)
(* The CDN is external, modelled from the headers it is given: it keeps a  *)
(* response that says s-maxage, answers from it while it is fresh, answers *)
(* from it and runs the function in the background while it may be stale,  *)
(* and otherwise lets callers with the same variant wait for one run.  A   *)
(* response that varies by Origin answers its own origin only.             *)
(*                                                                         *)
(* One tick is 30 seconds.  An age counts from the moment TfL answered.    *)
(***************************************************************************)
EXTENDS Integers

CONSTANTS
  Allowed,     \* origins that CORSMiddleware accepts
  Outside,     \* other values of the Origin header, its absence being one
  Empty        \* no response kept

Caller == Allowed \cup Outside
\* A response: whom it is for and which origin it lets read it; and what the
\* CDN keeps of one, for how many ticks now.
Body == [to : Caller, status : {200, 502, 503}, age : Nat, acao : Allowed \cup {Empty}]
Entry == [body : Body, for : Nat, vary : BOOLEAN]

ASSUME EdgeAssumption == Empty \notin Caller \cup Body \cup Entry

VARIABLES
  key,       \* TFL_APP_KEY is set
  up,        \* an instance of the function is running
  client,    \* its app.state.tfl_client is open
  healthy,   \* TfL answers
  kept,      \* the CDN's response for each caller's variant
  run,       \* the function run under way for it, and its data's age
  waiting,   \* callers whose request is open
  served,    \* the last response a caller got
  since      \* ticks since each variant's last successful run, at most Fresh

vars == <<key, up, client, healthy, kept, run, waiting, served, since>>

\* _LIVE_CACHE_CONTROL
Fresh == 1
\* As if the stale window were twice as long.
StaleLong == 2
Stale == 1
\* Resolving station names after TfL answered stays under this many ticks.
NamesWait == 1

Idle == [at |-> "idle", age |-> 0]
\* CORSMiddleware echoes an origin it accepts.
Echo(c) == IF c \in Allowed THEN c ELSE Empty
Response(c, status, age) == [to |-> c, status |-> status, age |-> age, acao |-> Echo(c)]

Init ==
  /\ key \in BOOLEAN /\ healthy \in BOOLEAN
  /\ up = FALSE /\ client = FALSE
  /\ kept = [c \in Caller |-> Empty]
  /\ run = [c \in Caller |-> Idle]
  /\ waiting = {}
  /\ served = Empty
  /\ since = [c \in Caller |-> Fresh]

-----------------------------------------------------------------------------
\* A client is made, and its connection opened, only if there is a key.
OpenedClient == key

\* lifespan, before and after its yield; the server lets requests end first.
Startup ==
  /\ ~up
  /\ up' = TRUE /\ client' = OpenedClient
  /\ UNCHANGED <<key, healthy, kept, run, waiting, served, since>>

ClientAfterStop == FALSE

Shutdown ==
  /\ up /\ \A c \in Caller : run[c] = Idle
  /\ up' = FALSE /\ client' = ClientAfterStop
  /\ UNCHANGED <<key, healthy, kept, run, waiting, served, since>>

-----------------------------------------------------------------------------
\* The CDN's side of a request.
Usable(c) == {v \in Caller : kept[v] # Empty /\ (v = c \/ ~kept[v].vary)}
Called == [at |-> "called", age |-> 0]
CallOnce(c) == run' = IF run[c] = Idle THEN [run EXCEPT ![c] = Called] ELSE run

\* A caller polls: a hit, a stale hit or a miss.
Poll(c) ==
  /\ c \notin waiting
  /\ \/ \E v \in Usable(c) :
          /\ served' = [kept[v].body EXCEPT !.to = c]
          /\ \/ kept[v].for < Fresh /\ UNCHANGED run
             \/ kept[v].for >= Fresh /\ CallOnce(c)
          /\ UNCHANGED waiting
     \/ /\ Usable(c) = {}
        /\ CallOnce(c)
        /\ waiting' = waiting \cup {c}
        /\ UNCHANGED served
  /\ UNCHANGED <<key, up, client, healthy, kept, since>>

\* The headers of a response; _problem sets neither Cache-Control nor Vary.
\* As if they were set before the try, not at all, or Vary left to the
\* middleware, which adds it only when it echoes an origin.
HeadersFirst(c, ok) == [cache |-> TRUE, vary |-> TRUE]
HeadersNone(c, ok) == [cache |-> FALSE, vary |-> FALSE]
HeadersOfMiddleware(c, ok) == [cache |-> ok, vary |-> c \in Allowed]
Headers(c, ok) == [cache |-> ok, vary |-> ok \/ c \in Allowed]

\* A run ends: the CDN keeps what it may, and whoever waits is answered.
Respond(c, status) ==
  LET body == Response(c, status, run[c].age)
      headers == Headers(c, status = 200)
  IN /\ kept' = IF headers.cache
                THEN [kept EXCEPT ![c] = [body |-> body, for |-> 0, vary |-> headers.vary]]
                ELSE kept
     /\ run' = [run EXCEPT ![c] = Idle]
     /\ served' = IF c \in waiting THEN body ELSE served
     /\ waiting' = waiting \ {c}
     /\ since' = IF status = 200 THEN [since EXCEPT ![c] = 0] ELSE since
     /\ UNCHANGED <<key, up, client, healthy>>

-----------------------------------------------------------------------------
\* get_status_live and get_recent_disruptions
Unconfigured(c) ==
  /\ up /\ run[c].at = "called" /\ ~client
  /\ Respond(c, 503)

Fetched(c) ==
  /\ up /\ run[c].at = "called" /\ client /\ healthy
  /\ run' = [run EXCEPT ![c] = [at |-> "fetched", age |-> 0]]
  /\ UNCHANGED <<key, up, client, healthy, kept, waiting, served, since>>

FetchFailed(c) ==
  /\ up /\ run[c].at = "called" /\ client /\ ~healthy
  /\ Respond(c, 502)

Finished(c) ==
  /\ run[c].at = "fetched"
  /\ Respond(c, 200)

-----------------------------------------------------------------------------
\* The world: TfL fails and recovers, time passes.
TflChanges ==
  /\ healthy' = ~healthy
  /\ UNCHANGED <<key, up, client, kept, run, waiting, served, since>>

Older(entry) ==
  IF entry = Empty \/ entry.for + 1 >= Fresh + Stale THEN Empty
  ELSE [body |-> [entry.body EXCEPT !.age = @ + 1], for |-> entry.for + 1, vary |-> entry.vary]

Tick ==
  /\ \A c \in Caller : run[c].at = "fetched" => run[c].age < NamesWait
  /\ kept' = [c \in Caller |-> Older(kept[c])]
  /\ run' = [c \in Caller |-> IF run[c].at = "fetched" THEN [run[c] EXCEPT !.age = @ + 1]
                              ELSE run[c]]
  /\ since' = [c \in Caller |-> IF since[c] < Fresh THEN since[c] + 1 ELSE Fresh]
  /\ UNCHANGED <<key, up, client, healthy, waiting, served>>

Route(c) == Unconfigured(c) \/ Fetched(c) \/ FetchFailed(c) \/ Finished(c)

Next ==
  \/ Startup \/ Shutdown \/ TflChanges \/ Tick
  \/ \E c \in Caller : Poll(c) \/ Route(c)

Spec == Init /\ [][Next]_vars

-----------------------------------------------------------------------------
(* Properties *)

\* Types; and the client is open exactly while a configured instance is up.
TypeOK ==
  /\ {key, up, client, healthy} \subseteq BOOLEAN
  /\ client <=> key /\ up
  /\ kept \in [Caller -> Entry \cup {Empty}]
  /\ run \in [Caller -> [at : {"idle", "called", "fetched"}, age : 0..NamesWait]]
  /\ waiting \subseteq Caller
  /\ served \in Body \cup {Empty}
  /\ since \in [Caller -> 0..Fresh]

\* Whoever seeded the shared cache, and whenever, a page on an allowed origin
\* is never given a response that its browser would refuse.
PageMayRead ==
  served # Empty /\ served.to \in Allowed => served.acao = served.to

\* An error is told only to those who waited for the run that failed; a
\* failure is never replayed from the cache.
ErrorsAreFirstHand ==
  [][ served' # served /\ served'.status # 200
        => served'.to \in waiting /\ served'.to \notin waiting' ]_vars

\* After a successful run no other one starts for the same variant until its
\* window is over, however many poll.
OneRunPerWindow ==
  [][ \A c \in Caller : run[c] = Idle /\ run'[c] # Idle => since[c] = Fresh ]_vars

\* What a caller is given left TfL within the minute the header allows, and
\* the time it took to resolve the names.
AtMostAMinuteOld ==
  served # Empty /\ served.status = 200 => served.age <= 1 + NamesWait
=============================================================================
