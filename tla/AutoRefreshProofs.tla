-------------------------- MODULE AutoRefreshProofs --------------------------
(***************************************************************************)
(* The safety of the polling hook, for every number of runs.               *)
(*                                                                         *)
(* The inductive invariant adds three facts to the properties: runs are    *)
(* numbered without gaps, a run that is yet to be read is not on screen,   *)
(* and the timer runs exactly while a mounted view is visible.  With       *)
(* OneLiveFetch the first two make the only run that may still write to    *)
(* the screen newer than everything on it.                                 *)
(***************************************************************************)
EXTENDS AutoRefresh, TLAPS

Numbered == \A r \in Run : fetch[r] = "none" <=> r > runs
UnreadUnseen == \A r \in Run : Unread(r) => data # r /\ error # r

PollsWhileVisible == timer <=> (mounted /\ visible)

Inv == TypeOK /\ Numbered /\ UnreadUnseen
         /\ AlertIsCurrent /\ OneLiveFetch /\ PollsWhileVisible

LEMMA InitInv == Init => Inv
<1> SUFFICES ASSUME Init PROVE Inv
  OBVIOUS
<1>1. \A r \in Run : fetch[r] = "none" /\ ~Unread(r) /\ r > runs
  BY RefreshAssumption DEF Init, Run, Unread, Settled
<1>2. TypeOK
  <2>1. visible \in BOOLEAN /\ mounted \in BOOLEAN /\ timer \in BOOLEAN
    BY DEF Init
  <2>2. runs \in 0..MaxRuns /\ data \in 0..runs /\ error \in 0..runs /\ dead \subseteq Run
    BY RefreshAssumption DEF Init
  <2>3. fetch \in [Run -> {"none", "pending", "read"} \cup Settled]
    BY DEF Init
  <2> QED BY <2>1, <2>2, <2>3 DEF TypeOK
<1> QED BY <1>1, <1>2 DEF Init, Inv, Numbered, UnreadUnseen, AlertIsCurrent,
          OneLiveFetch, PollsWhileVisible

\* run() kills the one fetch that was alive and starts the next.
LEMMA RunFetchKeeps ==
  ASSUME Inv, RunFetch, UNCHANGED <<data, error>>,
         mounted' = TRUE, timer' \in BOOLEAN, visible' \in BOOLEAN,
         mounted \/ \A r \in Run : Unread(r) => r \in dead
  PROVE  /\ runs' \in 0..MaxRuns
         /\ fetch' \in [Run -> {"none", "pending", "read"} \cup Settled]
         /\ dead' \subseteq Run
         /\ data' \in 0..runs' /\ error' \in 0..runs'
         /\ Numbered' /\ UnreadUnseen' /\ AlertIsCurrent' /\ OneLiveFetch'
<1> DEFINE new == runs + 1
<1> USE RefreshAssumption DEF Run
<1>1. /\ runs \in 0..MaxRuns /\ runs < MaxRuns /\ runs' = new
      /\ new \in Run /\ new > runs
  BY DEF Inv, TypeOK, RunFetch
<1>2. /\ fetch' = [fetch EXCEPT ![new] = "pending"]
      /\ dead' = dead \cup Superseded
      /\ fetch \in [Run -> {"none", "pending", "read"} \cup Settled]
      /\ dead \subseteq Run
      /\ data \in 0..runs /\ error \in 0..runs /\ data' = data /\ error' = error
  BY DEF Inv, TypeOK, RunFetch
<1>3. Superseded \subseteq Run
  BY <1>1 DEF Superseded
<1>4. /\ fetch' \in [Run -> {"none", "pending", "read"} \cup Settled]
      /\ fetch'[new] = "pending"
      /\ \A r \in Run : r # new => fetch'[r] = fetch[r]
  BY <1>1, <1>2 DEF Settled
<1>5. Numbered'
  <2> SUFFICES ASSUME NEW r \in Run
               PROVE  fetch'[r] = "none" <=> r > new
    BY <1>1 DEF Numbered
  <2>1. CASE r = new
    BY <2>1, <1>1, <1>4
  <2>2. CASE r # new
    BY <2>2, <1>1, <1>4 DEF Inv, Numbered
  <2> QED BY <2>1, <2>2
<1>6. UnreadUnseen'
  <2> SUFFICES ASSUME NEW r \in Run, Unread(r)'
               PROVE  data # r /\ error # r
    BY <1>2 DEF UnreadUnseen
  <2>1. CASE r = new
    BY <2>1, <1>1, <1>2
  <2>2. CASE r # new
    BY <2>2, <1>4 DEF Inv, UnreadUnseen, Unread
  <2> QED BY <2>1, <2>2
<1>7. OneLiveFetch'
  <2> SUFFICES ASSUME NEW r \in Run, Unread(r)', r \notin dead'
               PROVE  mounted' /\ r = new
    BY <1>1 DEF OneLiveFetch
  <2>1. r # new => Unread(r) /\ r \notin dead /\ r \notin Superseded
    BY <1>2, <1>4 DEF Unread
  <2>2. r # new => r = runs /\ r # 0
    BY <2>1, <1>1 DEF Inv, OneLiveFetch
  <2>3. r = new
    BY <2>1, <2>2 DEF Superseded
  <2> QED BY <2>3
<1>8. AlertIsCurrent'
  BY <1>2 DEF Inv, AlertIsCurrent
<1> QED BY <1>1, <1>2, <1>3, <1>4, <1>5, <1>6, <1>7, <1>8

\* Whatever leaves the runs and the screen alone keeps the invariant, if it
\* keeps the timer in step.
LEMMA QuietKeeps ==
  ASSUME Inv, UNCHANGED <<mounted, runs, fetch, dead, data, error>>,
         visible' \in BOOLEAN, timer' \in BOOLEAN, PollsWhileVisible'
  PROVE  Inv'
  BY DEF Inv, TypeOK, Numbered, UnreadUnseen, AlertIsCurrent, OneLiveFetch, Unread

LEMMA UnmountedIsDead == Inv /\ ~mounted => \A r \in Run : Unread(r) => r \in dead
  BY DEF Inv, OneLiveFetch

LEMMA MountKeeps == Inv /\ Mount => Inv'
<1> SUFFICES ASSUME Inv, Mount PROVE Inv'
  OBVIOUS
<1>1. CASE visible /\ Start
  <2>1. \A r \in Run : Unread(r) => r \in dead
    BY UnmountedIsDead DEF Mount
  <2>2. /\ mounted' = TRUE /\ timer' = TRUE /\ visible' = visible /\ visible
        /\ RunFetch /\ UNCHANGED <<data, error>>
    BY <1>1 DEF Mount, Start
  <2>3. timer' \in BOOLEAN /\ visible' \in BOOLEAN /\ mounted' \in BOOLEAN
    BY <2>2 DEF Inv, TypeOK
  <2>4. PollsWhileVisible'
    BY <2>2 DEF PollsWhileVisible
  <2> QED BY <2>1, <2>2, <2>3, <2>4, RunFetchKeeps DEF Inv, TypeOK
<1>2. CASE ~visible /\ UNCHANGED <<timer, runs, fetch, dead>>
  <2>1. /\ mounted' = TRUE /\ ~mounted
        /\ UNCHANGED <<visible, timer, runs, fetch, dead, data, error>>
    BY <1>2 DEF Mount
  <2>2. \A r \in Run : Unread(r) => r \in dead
    BY <2>1, UnmountedIsDead
  <2> QED BY <1>2, <2>1, <2>2 DEF Inv, TypeOK, Numbered, UnreadUnseen, AlertIsCurrent,
            OneLiveFetch, PollsWhileVisible, Unread
<1> QED BY <1>1, <1>2 DEF Mount

LEMMA CleanUpKeeps == Inv /\ CleanUp => Inv'
<1> SUFFICES ASSUME Inv, CleanUp PROVE Inv'
  OBVIOUS
<1> USE RefreshAssumption DEF Run
<1>1. /\ mounted' = FALSE /\ timer' = FALSE /\ dead' = 1..runs
      /\ UNCHANGED <<visible, runs, fetch, data, error>>
  BY DEF CleanUp
<1>2. \A r \in Run : Unread(r) => r \in 1..runs
  BY DEF Inv, TypeOK, Numbered, Unread, Settled
<1>3. TypeOK'
  <2>1. dead' \subseteq Run
    BY <1>1 DEF Inv, TypeOK
  <2>2. visible' \in BOOLEAN /\ mounted' \in BOOLEAN /\ timer' \in BOOLEAN
    BY <1>1 DEF Inv, TypeOK
  <2> QED BY <1>1, <2>1, <2>2 DEF Inv, TypeOK
<1>4. OneLiveFetch'
  BY <1>1, <1>2 DEF OneLiveFetch, Unread
<1> QED BY <1>1, <1>3, <1>4 DEF Inv, Numbered, UnreadUnseen, AlertIsCurrent,
          PollsWhileVisible, Unread

LEMMA HideKeeps == Inv /\ Hide => Inv'
<1> SUFFICES ASSUME Inv, Hide PROVE Inv'
  OBVIOUS
<1>1. visible' = FALSE /\ timer' = FALSE /\ UNCHANGED <<mounted, runs, fetch, dead, data, error>>
  BY DEF Hide
<1> QED BY <1>1, QuietKeeps DEF PollsWhileVisible

LEMMA RevealKeeps == Inv /\ Reveal => Inv'
<1> SUFFICES ASSUME Inv, Reveal PROVE Inv'
  OBVIOUS
<1>1. CASE mounted /\ ~timer /\ Start
  <2>1. /\ mounted' = TRUE /\ mounted /\ timer' = TRUE /\ visible' = TRUE
        /\ RunFetch /\ UNCHANGED <<data, error>>
    BY <1>1 DEF Reveal, Start, Inv, TypeOK
  <2>2. PollsWhileVisible'
    BY <2>1 DEF PollsWhileVisible
  <2>3. timer' \in BOOLEAN /\ visible' \in BOOLEAN /\ mounted' \in BOOLEAN
    BY <2>1
  <2> QED BY <2>1, <2>2, <2>3, RunFetchKeeps DEF Inv, TypeOK
<1>2. CASE (~mounted \/ timer) /\ UNCHANGED <<timer, runs, fetch, dead>>
  <2>1. visible' = TRUE /\ ~visible /\ UNCHANGED <<mounted, timer, runs, fetch, dead, data, error>>
    BY <1>2 DEF Reveal
  <2>2. ~timer /\ ~mounted
    BY <1>2, <2>1 DEF Inv, PollsWhileVisible
  <2>3. PollsWhileVisible'
    BY <2>1, <2>2 DEF PollsWhileVisible
  <2>4. timer' \in BOOLEAN /\ visible' \in BOOLEAN
    BY <2>1 DEF Inv, TypeOK
  <2> QED BY <2>1, <2>3, <2>4, QuietKeeps
<1> QED BY <1>1, <1>2 DEF Reveal

LEMMA TickKeeps == Inv /\ Tick => Inv'
<1> SUFFICES ASSUME Inv, Tick PROVE Inv'
  OBVIOUS
<1>1. /\ mounted /\ mounted' = TRUE
      /\ RunFetch /\ UNCHANGED <<visible, mounted, timer, data, error>>
  BY DEF Tick, Inv, TypeOK, PollsWhileVisible
<1>2. timer' \in BOOLEAN /\ visible' \in BOOLEAN /\ mounted' \in BOOLEAN /\ PollsWhileVisible'
  BY <1>1 DEF Inv, TypeOK, PollsWhileVisible
<1> QED BY <1>1, <1>2, RunFetchKeeps DEF Inv, TypeOK

LEMMA SettleKeeps == ASSUME NEW r \in Run, Inv, Settle(r) PROVE Inv'
<1>1. \E st \in Settled : fetch' = [fetch EXCEPT ![r] = st]
  BY DEF Settle
<1>2. PICK st \in Settled : fetch' = [fetch EXCEPT ![r] = st]
  BY <1>1
<1>3. /\ fetch[r] = "pending" /\ fetch'[r] = st
      /\ \A q \in Run : q # r => fetch'[q] = fetch[q]
      /\ fetch' \in [Run -> {"none", "pending", "read"} \cup Settled]
      /\ UNCHANGED <<visible, mounted, timer, runs, dead, data, error>>
  BY <1>2 DEF Settle, Inv, TypeOK, Settled
<1>4. \A q \in Run : (Unread(q)' <=> Unread(q)) /\ (fetch'[q] = "none" <=> fetch[q] = "none")
  BY <1>3 DEF Unread, Settled
<1> QED BY <1>3, <1>4 DEF Inv, TypeOK, Numbered, UnreadUnseen, AlertIsCurrent,
          OneLiveFetch, PollsWhileVisible

\* A run that counts is the latest and newer than all that is on screen.
LEMMA CountingIsNewest ==
  ASSUME NEW r \in Run, Inv, Counts(r), fetch[r] \in Settled
  PROVE  r = runs /\ r > data /\ r > error
<1>1. Unread(r) /\ r \notin dead
  BY DEF Unread, Counts
<1>2. r = runs /\ data # r /\ error # r /\ data \in 0..runs /\ error \in 0..runs
  BY <1>1 DEF Inv, TypeOK, OneLiveFetch, UnreadUnseen
<1> QED BY <1>2, RefreshAssumption DEF Run

LEMMA ReadKeeps == ASSUME NEW r \in Run, Inv, Read(r) PROVE Inv'
<1> USE RefreshAssumption DEF Run
<1>1. /\ fetch[r] \in Settled /\ fetch' = [fetch EXCEPT ![r] = "read"]
      /\ UNCHANGED <<visible, mounted, timer, runs, dead>>
  BY DEF Read
<1>2. /\ fetch' \in [Run -> {"none", "pending", "read"} \cup Settled]
      /\ fetch'[r] = "read" /\ \A q \in Run : q # r => fetch'[q] = fetch[q]
  BY <1>1 DEF Inv, TypeOK, Settled
<1>3. \A q \in Run : (Unread(q)' => Unread(q) /\ q # r)
                       /\ (fetch'[q] = "none" <=> fetch[q] = "none")
  BY <1>1, <1>2 DEF Unread, Settled
<1>4. Numbered' /\ OneLiveFetch' /\ PollsWhileVisible'
  BY <1>1, <1>3 DEF Inv, Numbered, OneLiveFetch, PollsWhileVisible
<1>5. /\ data' \in 0..runs /\ error' \in 0..runs
      /\ data' \in {data, r} /\ error' \in {error, r, 0} /\ AlertIsCurrent'
  <2>1. CASE Counts(r)
    <3>1. r = runs /\ r > data /\ r > error
      BY <2>1, <1>1, CountingIsNewest
    <3> QED BY <2>1, <3>1 DEF Read, ErrorAfter, Inv, TypeOK, AlertIsCurrent
  <2>2. CASE ~Counts(r)
    BY <2>2 DEF Read, Inv, TypeOK, AlertIsCurrent
  <2> QED BY <2>1, <2>2
<1>6. UnreadUnseen'
  BY <1>3, <1>5 DEF Inv, UnreadUnseen, TypeOK
<1>7. TypeOK'
  BY <1>1, <1>2, <1>5 DEF Inv, TypeOK
<1> QED BY <1>4, <1>5, <1>6, <1>7 DEF Inv

LEMMA NextInv == Inv /\ [Next]_vars => Inv'
<1> SUFFICES ASSUME Inv, [Next]_vars PROVE Inv'
  OBVIOUS
<1>1. CASE UNCHANGED vars
  BY <1>1 DEF vars, Inv, TypeOK, Numbered, UnreadUnseen, AlertIsCurrent, OneLiveFetch,
    PollsWhileVisible, Unread
<1>2. CASE Next
  BY <1>2, MountKeeps, CleanUpKeeps, HideKeeps, RevealKeeps, TickKeeps, SettleKeeps,
     ReadKeeps DEF Next
<1> QED BY <1>1, <1>2

LEMMA InvHolds == Spec => []Inv
<1>1. Init => Inv
  BY InitInv
<1>2. Inv /\ [Next]_vars => Inv'
  BY NextInv
<1> QED BY <1>1, <1>2, PTL DEF Spec

\* Every variable of the hook keeps its type, and what is on screen never
\* comes from a run that has not been made.
THEOREM RefreshTypeCorrect == Spec => []TypeOK
<1>1. Inv => TypeOK
  BY DEF Inv
<1> QED BY <1>1, InvHolds, PTL

\* However many fetches overlap, at most one of them -- the latest, of a hook
\* still in use -- can change the screen.
THEOREM AtMostOneLiveFetch == Spec => []OneLiveFetch
<1>1. Inv => OneLiveFetch
  BY DEF Inv
<1> QED BY <1>1, InvHolds, PTL

\* An alert on screen is always newer than the data beside it.
THEOREM AlertNeverOutdated == Spec => []AlertIsCurrent
<1>1. Inv => AlertIsCurrent
  BY DEF Inv
<1> QED BY <1>1, InvHolds, PTL

\* A stale response never overwrites what a newer run has put on screen.
THEOREM NewestWins == Spec => NeverBackwards
<1> DEFINE Forward ==
      /\ data' # data => data' > data /\ data' > error
      /\ error' # error => error' = 0 \/ (error' > error /\ error' > data)
<1>1. ASSUME Inv, [Next]_vars PROVE [Forward]_vars
  <2>1. CASE \E r \in Run : Read(r)
    <3>1. PICK r \in Run : Read(r)
      BY <2>1
    <3>2. CASE Counts(r)
      <4>1. r > data /\ r > error
        BY <3>1, <3>2, <1>1, CountingIsNewest DEF Read
      <4> QED BY <4>1, <3>1, <3>2 DEF Read, ErrorAfter
    <3>3. CASE ~Counts(r)
      BY <3>1, <3>3 DEF Read
    <3> QED BY <3>2, <3>3
  <2>2. CASE ~\E r \in Run : Read(r)
    <3>1. UNCHANGED <<data, error>>
      BY <1>1, <2>2 DEF Next, vars, Mount, CleanUp, Hide, Reveal, Tick, Settle
    <3> QED BY <3>1
  <2> QED BY <2>1, <2>2
<1>2. Spec => [][Forward]_vars
  BY <1>1, InvHolds, PTL DEF Spec
<1> QED BY <1>2 DEF NeverBackwards
=============================================================================
