----------------------------- MODULE AutoRefresh -----------------------------
(***************************************************************************)
(* web/lib/hooks/use-auto-refresh.ts: the polling hook behind the live     *)
(* status and the disruption feeds of the dashboard.                       *)
(*                                                                         *)
(* A run of the hook is numbered; run r stands for its fetch, its          *)
(* AbortController and its continuation.  The continuation reads what the  *)
(* fetch settled with some microtasks after it settled, so a fetch that    *)
(* has already answered may still be superseded, paused or unmounted       *)
(* before it is looked at.  "data" and "error" hold the run they come      *)
(* from, 0 for null; a payload is not modelled.                            *)
(***************************************************************************)
EXTENDS Integers

CONSTANTS
  MaxRuns    \* bound: fetches of one page view

ASSUME RefreshAssumption == MaxRuns \in Nat

VARIABLES
  visible,   \* document.visibilityState = "visible"
  mounted,   \* an effect of the hook is active
  timer,     \* its interval timer is set
  runs,      \* number of the latest run: abort holds its controller
  fetch,     \* what each run's fetch has come to
  dead,      \* runs whose signal is aborted or whose effect was cleaned up
  data,
  error

vars == <<visible, mounted, timer, runs, fetch, dead, data, error>>

Run == 1..MaxRuns
Settled == {"ok", "failed"}
Unread(r) == fetch[r] \in {"pending"} \cup Settled

TypeOK ==
  /\ visible \in BOOLEAN /\ mounted \in BOOLEAN /\ timer \in BOOLEAN
  /\ runs \in 0..MaxRuns
  /\ fetch \in [Run -> {"none", "pending", "read"} \cup Settled]
  /\ dead \subseteq Run
  /\ data \in 0..runs /\ error \in 0..runs

Init ==
  /\ visible \in BOOLEAN
  /\ mounted = FALSE /\ timer = FALSE
  /\ runs = 0 /\ fetch = [r \in Run |-> "none"] /\ dead = {}
  /\ data = 0 /\ error = 0

-----------------------------------------------------------------------------
\* As if run did not abort its predecessor.
SupersededNone == {}
Superseded == {runs} \ {0}

\* run(): abort the previous controller and fetch.
RunFetch ==
  /\ runs < MaxRuns
  /\ runs' = runs + 1
  /\ fetch' = [fetch EXCEPT ![runs + 1] = "pending"]
  /\ dead' = dead \cup Superseded

\* start() of an active effect: fetch at once and set the timer.
Start ==
  /\ timer' = TRUE
  /\ RunFetch

\* The effect begins; a hidden tab does not start polling.
Mount ==
  /\ ~mounted
  /\ mounted' = TRUE
  /\ \/ visible /\ Start
     \/ ~visible /\ UNCHANGED <<timer, runs, fetch, dead>>
  /\ UNCHANGED <<visible, data, error>>

\* The effect's clean-up, at unmount or before it runs again for another
\* intervalMs: cancelled is set, so none of its runs counts any more.
CleanUp ==
  /\ mounted
  /\ mounted' = FALSE /\ timer' = FALSE
  /\ dead' = 1..runs
  /\ UNCHANGED <<visible, runs, fetch, data, error>>

\* handleVisibility, when the tab is hidden and when it comes back.  A fetch
\* in flight is left alone.
Hide ==
  /\ visible
  /\ visible' = FALSE
  /\ timer' = FALSE
  /\ UNCHANGED <<mounted, runs, fetch, dead, data, error>>

Reveal ==
  /\ ~visible
  /\ visible' = TRUE
  /\ \/ mounted /\ ~timer /\ Start
     \/ (~mounted \/ timer) /\ UNCHANGED <<timer, runs, fetch, dead>>
  /\ UNCHANGED <<mounted, data, error>>

Tick ==
  /\ timer
  /\ RunFetch
  /\ UNCHANGED <<visible, mounted, timer, data, error>>

\* The fetch of run r answers or fails; an aborted one may do either before
\* the abort reaches it, otherwise it fails with an AbortError.
Settle(r) ==
  /\ fetch[r] = "pending"
  /\ \E st \in Settled : fetch' = [fetch EXCEPT ![r] = st]
  /\ UNCHANGED <<visible, mounted, timer, runs, dead, data, error>>

\* As if the continuation did not look at the signal.
CountsAlways(r) == mounted
Counts(r) == r \notin dead

\* As if a success left the error in place, or no failure were shown.
ErrorAfterKept(r) == IF fetch[r] = "ok" THEN error ELSE r
ErrorSwallowed(r) == IF fetch[r] = "ok" THEN 0 ELSE error
ErrorAfter(r) == IF fetch[r] = "ok" THEN 0 ELSE r

\* The continuation of run r: setData and setError(null), or setError, unless
\* its effect is over or its signal aborted.
Read(r) ==
  /\ fetch[r] \in Settled
  /\ fetch' = [fetch EXCEPT ![r] = "read"]
  /\ \/ /\ Counts(r)
        /\ data' = IF fetch[r] = "ok" THEN r ELSE data
        /\ error' = ErrorAfter(r)
     \/ /\ ~Counts(r)
        /\ UNCHANGED <<data, error>>
  /\ UNCHANGED <<visible, mounted, timer, runs, dead>>

Next ==
  \/ Mount \/ CleanUp \/ Hide \/ Reveal \/ Tick
  \/ \E r \in Run : Settle(r) \/ Read(r)

Spec == Init /\ [][Next]_vars

\* Every fetch settles in the end -- apiFetch has no timeout, but the API does
\* -- and the browser runs its microtasks and its timers.
Fairness == \A r \in Run : WF_vars(Settle(r)) /\ WF_vars(Read(r))
FairSpec == Spec /\ Fairness /\ WF_vars(Tick)

-----------------------------------------------------------------------------
(* Properties *)

\* "a stale resolution overwrites newer data" never happens: what is shown
\* only ever comes from a newer run than anything shown before it, whichever
\* order the responses arrive in.
NeverBackwards ==
  [][ /\ data' # data => data' > data /\ data' > error
      /\ error' # error => error' = 0 \/ (error' > error /\ error' > data) ]_vars

\* An error is shown only if it is newer than the data next to it: the last
\* snapshot stays up under the alert, and the next success clears the alert.
AlertIsCurrent == error = 0 \/ error > data

\* One fetch at most can still change the screen, it is the latest, and none
\* can once the effect has been cleaned up.
OneLiveFetch ==
  \A r \in Run : Unread(r) /\ r \notin dead => mounted /\ r = runs

\* Every live run that the user stays for ends on screen, as data or as an
\* alert, unless a tick comes first and puts another in its place.  (So an API
\* that takes longer than the interval shows nothing at all: each tick aborts
\* the fetch before it.)
RunIsShown ==
  \A r \in Run :
    (fetch[r] = "pending" /\ r \notin dead)
      ~> (data = r \/ error = r \/ ~visible \/ ~mounted \/ r < runs)
=============================================================================
