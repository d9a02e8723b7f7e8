--------------------------- MODULE TflRequestProofs ---------------------------
(***************************************************************************)
(* The safety of one TfL request, for every number of attempts, every      *)
(* duration of a call and every Retry-After header.                        *)
(*                                                                         *)
(* The inductive invariant ties the loop variable to the calls made so far *)
(* (Counted), says that a request goes on only after transient outcomes    *)
(* (StillTransient), where an error's cause can come from (CauseKnown) and *)
(* that a sleep is at least as long as TfL asked for (Rested).             *)
(***************************************************************************)
EXTENDS TflRequest, TLAPS

Going == {"calling", "sleeping"}
Final == log[Len(log)]

Counted ==
  /\ pc = "calling" => Len(log) = attempt
  /\ pc \in {"sleeping", "returned", "raised"} => Len(log) = attempt + 1
  /\ Len(log) <= attempt + 1
  /\ pc = "sleeping" => attempt < MaxAttempts - 1

StillTransient ==
  \A i \in 1..Len(log) : i < Len(log) \/ pc \in Going => Transient(log[i].outcome)

Settled ==
  /\ pc = "returned" => ~Transient(Final.outcome) /\ exists
  /\ pc = "raised" => ~Transient(Final.outcome) \/ Len(log) = MaxAttempts

CauseKnown == cause \in {None} \cup Definitive(exists) \cup OtherRejections

Rested ==
  /\ pc = "calling" /\ log # <<>> => elapsed >= Final.ended + Final.wants /\ elapsed > Final.ended
  /\ pc = "sleeping" => elapsed = Final.ended /\ delay >= Final.wants /\ delay > 0

Inv == /\ TypeOK /\ Counted /\ StillTransient /\ Settled /\ CauseKnown /\ Rested
       /\ WaitsAsAsked /\ ErrorNamesLastOutcome

LEMMA InitInv == Init => Inv
<1> SUFFICES ASSUME Init PROVE Inv
  OBVIOUS
<1>1. log = <<>> /\ Len(log) = 0 /\ pc = "calling" /\ attempt = 0 /\ cause = None
  BY DEF Init
<1>2. log \in Seq(Call)
  BY <1>1
<1>3. TypeOK
  BY <1>2, RequestAssumption DEF Init, TypeOK
<1>4. Counted /\ StillTransient /\ Settled /\ CauseKnown
  BY <1>1 DEF Counted, StillTransient, Settled, CauseKnown
<1>5. Rested /\ WaitsAsAsked /\ ErrorNamesLastOutcome
  BY <1>1 DEF Rested, WaitsAsAsked, ErrorNamesLastOutcome
<1> QED BY <1>3, <1>4, <1>5 DEF Inv

LEMMA BackoffPositive == \A n \in Nat : Backoff(n) \in Nat /\ Backoff(n) > 0
<1> SUFFICES ASSUME NEW n \in Nat PROVE Backoff(n) \in Nat /\ Backoff(n) > 0
  OBVIOUS
<1>1. CASE n >= 5
  BY <1>1 DEF Backoff
<1>2. CASE n \in {0, 1, 2, 3, 4}
  BY <1>2 DEF Backoff
<1> QED BY <1>1, <1>2

\* A pause before a retry is never shorter than TfL asked for.
LEMMA DelayEnough ==
  ASSUME NEW st \in RETRYABLE_STATUS_CODES, NEW h \in RetryAfters, attempt \in Nat
  PROVE  /\ Wants(st, h) \in Nat
         /\ Delay(st, h) \in Nat /\ Delay(st, h) > 0 /\ Delay(st, h) >= Wants(st, h)
<1>1. h \in Int \/ h = Malformed
  BY RequestAssumption
<1>2. Backoff(attempt) \in Nat /\ Backoff(attempt) > 0
  BY BackoffPositive
<1>3. CASE h \in Int /\ h > 0 /\ st \in {429, 503}
  <2>1. RetryAfter(h) = h /\ h # None
    BY <1>3, RequestAssumption DEF RetryAfter
  <2>2. Delay(st, h) = h /\ Wants(st, h) = h
    BY <1>3, <2>1 DEF Delay, Wants, RetryAfterCodes
  <2> QED BY <1>3, <2>2
<1>4. CASE ~(h \in Int /\ h > 0 /\ st \in {429, 503})
  <2>1. st \in RetryAfterCodes => RetryAfter(h) = None
    BY <1>4 DEF RetryAfter, RetryAfterCodes
  <2>2. Delay(st, h) = Backoff(attempt) /\ Wants(st, h) = 0
    BY <1>4, <2>1 DEF Delay, Wants
  <2> QED BY <1>2, <2>2
<1> QED BY <1>3, <1>4

\* What the end of a call adds to the log, and what it leaves alone.
LEMMA EndedLogs ==
  ASSUME Inv, pc = "calling", NEW out \in Outcome, NEW wants \in Nat, NEW d \in Durations,
         Ended(out, wants, d), attempt' = attempt
  PROVE  /\ log' \in Seq(Call) /\ Len(log') = attempt + 1 /\ elapsed' \in Nat
         /\ Final'.outcome = out /\ Final'.wants = wants /\ Final'.ended = elapsed'
         /\ \A i \in 1..(Len(log') - 1) : Transient(log'[i].outcome)
         /\ WaitsAsAsked'
<1> DEFINE new == [outcome |-> out, wants |-> wants, sent |-> elapsed, ended |-> elapsed + d]
<1>1. /\ log \in Seq(Call) /\ elapsed \in Nat /\ attempt \in Nat /\ d \in Nat
      /\ Len(log) = attempt
  BY RequestAssumption DEF Inv, TypeOK, Counted
<1>2. log' = Append(log, new) /\ elapsed' = elapsed + d
  BY DEF Ended
<1>3. new \in Call
  BY <1>1 DEF Call
<1>4. /\ log' \in Seq(Call) /\ Len(log') = attempt + 1
      /\ log'[attempt + 1] = new
      /\ \A i \in 1..attempt : log'[i] = log[i]
  BY <1>1, <1>2, <1>3
<1>5. Final' = new
  BY <1>4 DEF Final
<1>6. \A i \in 1..(Len(log') - 1) : Transient(log'[i].outcome)
  BY <1>1, <1>4 DEF Inv, StillTransient, Going
<1>7. WaitsAsAsked'
  <2> SUFFICES ASSUME NEW i \in 1..(Len(log') - 1)
               PROVE  /\ log'[i + 1].sent >= log'[i].ended + log'[i].wants
                      /\ log'[i + 1].sent > log'[i].ended
    BY DEF WaitsAsAsked
  <2>1. CASE i < attempt
    <3>1. log'[i] = log[i] /\ log'[i + 1] = log[i + 1] /\ i \in 1..(Len(log) - 1)
      BY <2>1, <1>1, <1>4
    <3> QED BY <3>1 DEF Inv, WaitsAsAsked
  <2>2. CASE i = attempt
    <3>1. log'[i] = Final /\ log'[i + 1] = new /\ log # <<>>
      BY <2>2, <1>1, <1>4 DEF Final
    <3> QED BY <3>1 DEF Inv, Rested
  <2> QED BY <2>1, <2>2, <1>1, <1>4
<1> QED BY <1>1, <1>2, <1>4, <1>5, <1>6, <1>7

\* A transient outcome is followed by a long enough sleep or, at the last
\* attempt, by an error that names it and has no cause.
LEMMA TransientKeeps ==
  ASSUME Inv, pc = "calling", NEW out \in Outcome, Transient(out),
         NEW wants \in Nat, NEW d \in Durations, NEW pause \in Nat,
         Ended(out, wants, d), pause > 0, pause >= wants,
         lastResponse' = IF out = Exception THEN None ELSE out,
         RetryOrRaise(pause), UNCHANGED <<exists, attempt>>
  PROVE  Inv'
<1>1. /\ log' \in Seq(Call) /\ Len(log') = attempt + 1 /\ elapsed' \in Nat
      /\ Final'.outcome = out /\ Final'.wants = wants /\ Final'.ended = elapsed'
      /\ \A i \in 1..(Len(log') - 1) : Transient(log'[i].outcome)
      /\ WaitsAsAsked'
  BY EndedLogs
<1>2. /\ attempt \in 0..(MaxAttempts - 1) /\ MaxAttempts \in Nat /\ exists \in BOOLEAN
      /\ delay \in Nat /\ cause \in Status \cup {None} /\ reported \in Outcome \cup {None}
  BY RequestAssumption DEF Inv, TypeOK
<1>3. None \notin Outcome /\ None # Exception
  BY RequestAssumption DEF Outcome, Status, RETRYABLE_STATUS_CODES, OtherRejections, Exception
<1>4. lastResponse' \in RETRYABLE_STATUS_CODES \cup {None}
  BY DEF Transient
<1>5. \A i \in 1..Len(log') : Transient(log'[i].outcome)
  BY <1>1, <1>2 DEF Final
<1>6. CASE ~LastAttempt /\ pc' = "sleeping" /\ delay' = pause /\ UNCHANGED <<cause, reported>>
  <2>1. TypeOK'
    BY <1>1, <1>2, <1>4, <1>6 DEF TypeOK
  <2>2. Counted' /\ Rested'
    BY <1>1, <1>2, <1>6 DEF Counted, Rested, LastAttempt
  <2>3. StillTransient' /\ Settled' /\ CauseKnown' /\ ErrorNamesLastOutcome'
    BY <1>5, <1>6 DEF StillTransient, Settled, CauseKnown, ErrorNamesLastOutcome, Inv
  <2> QED BY <1>1, <2>1, <2>2, <2>3 DEF Inv
<1>7. CASE LastAttempt /\ Raise(None, IF lastResponse' # None THEN lastResponse' ELSE Exception)
  <2>1. pc' = "raised" /\ cause' = None /\ delay' = delay
    BY <1>7 DEF Raise
  <2>2. reported' = out
    BY <1>3, <1>7 DEF Raise
  <2>3. TypeOK'
    BY <1>1, <1>2, <1>4, <2>1, <2>2 DEF TypeOK, Over
  <2>4. Counted' /\ Rested'
    BY <1>1, <1>2, <2>1 DEF Counted, Rested
  <2>5. StillTransient' /\ Settled' /\ CauseKnown'
    BY <1>1, <1>2, <1>5, <1>7, <2>1 DEF StillTransient, Settled, CauseKnown, LastAttempt
  <2>6. ErrorNamesLastOutcome'
    BY <1>1, <2>2 DEF ErrorNamesLastOutcome, Final
  <2> QED BY <1>1, <2>3, <2>4, <2>5, <2>6 DEF Inv
<1> QED BY <1>6, <1>7 DEF RetryOrRaise

LEMMA CallRaisesKeeps == ASSUME NEW d \in Durations, Inv, CallRaises(d) PROVE Inv'
<1>1. attempt \in Nat
  BY RequestAssumption DEF Inv, TypeOK
<1>2. Backoff(attempt) \in Nat /\ Backoff(attempt) > 0
  BY <1>1, BackoffPositive
<1>3. Exception \in Outcome /\ Transient(Exception)
  BY DEF Outcome, Transient
<1>4. lastResponse' = IF Exception = Exception THEN None ELSE Exception
  BY DEF CallRaises, AfterException
<1>5. /\ pc = "calling" /\ Ended(Exception, 0, d) /\ RetryOrRaise(Backoff(attempt))
      /\ UNCHANGED <<exists, attempt>>
  BY DEF CallRaises
<1>6. Backoff(attempt) >= 0 /\ 0 \in Nat
  BY <1>2
<1> QED BY <1>2, <1>3, <1>4, <1>5, <1>6, TransientKeeps

LEMMA CallRetryableKeeps ==
  ASSUME NEW d \in Durations, NEW st \in RETRYABLE_STATUS_CODES, NEW h \in RetryAfters,
         Inv, CallRetryable(st, h, d)
  PROVE  Inv'
<1>1. attempt \in Nat
  BY RequestAssumption DEF Inv, TypeOK
<1>2. /\ Wants(st, h) \in Nat /\ Delay(st, h) \in Nat
      /\ Delay(st, h) > 0 /\ Delay(st, h) >= Wants(st, h)
  BY <1>1, DelayEnough
<1>3. st \in Outcome /\ Transient(st) /\ st # Exception
  BY DEF Outcome, Status, Transient, RETRYABLE_STATUS_CODES, Exception
<1>4. lastResponse' = IF st = Exception THEN None ELSE st
  BY <1>3 DEF CallRetryable
<1>5. /\ pc = "calling" /\ Ended(st, Wants(st, h), d) /\ RetryOrRaise(Delay(st, h))
      /\ UNCHANGED <<exists, attempt>>
  BY DEF CallRetryable
<1> QED BY <1>2, <1>3, <1>4, <1>5, TransientKeeps

LEMMA CallAnswersKeeps ==
  ASSUME NEW d \in Durations, NEW st \in Definitive(exists) \cup OtherRejections,
         Inv, CallAnswers(st, d)
  PROVE  Inv'
<1>1. /\ st \in Status /\ st \in Outcome /\ ~Transient(st)
      /\ st = 200 => exists
  BY DEF Definitive, OtherRejections, Status, Outcome, Transient, RETRYABLE_STATUS_CODES, Exception
<1>2. /\ pc = "calling" /\ Ended(st, 0, d) /\ UNCHANGED <<exists, attempt, lastResponse>>
  BY DEF CallAnswers
<1>3. /\ log' \in Seq(Call) /\ Len(log') = attempt + 1 /\ elapsed' \in Nat
      /\ Final'.outcome = st /\ Final'.ended = elapsed'
      /\ \A i \in 1..(Len(log') - 1) : Transient(log'[i].outcome)
      /\ WaitsAsAsked'
  BY <1>1, <1>2, EndedLogs
<1>4. /\ pc' \in {"returned", "raised"} /\ delay' = delay
      /\ cause' \in {cause, None, st} /\ reported' \in {reported, None, st}
      /\ pc' = "returned" => st = 200
      /\ pc' = "raised" => reported' \in {None, st}
  BY DEF CallAnswers, Raise
<1>5. TypeOK'
  <2>1. cause' \in Status \cup {None} /\ reported' \in Outcome \cup {None}
    BY <1>1, <1>4 DEF Inv, TypeOK
  <2> QED BY <1>2, <1>3, <1>4, <2>1 DEF Inv, TypeOK, Over
<1>6. Counted' /\ Rested'
  BY <1>2, <1>3, <1>4, RequestAssumption DEF Inv, TypeOK, Counted, Rested
<1>7. StillTransient'
  BY <1>2, <1>3, <1>4, RequestAssumption DEF Inv, TypeOK, StillTransient, Going
<1>8. Settled'
  BY <1>1, <1>2, <1>3, <1>4 DEF Settled
<1>9. CauseKnown' /\ ErrorNamesLastOutcome'
  BY <1>2, <1>3, <1>4 DEF Inv, CauseKnown, ErrorNamesLastOutcome, Final
<1> QED BY <1>3, <1>5, <1>6, <1>7, <1>8, <1>9 DEF Inv

LEMMA WakeKeeps == Inv /\ Wake => Inv'
<1> SUFFICES ASSUME Inv, Wake PROVE Inv'
  OBVIOUS
<1>1. /\ pc = "sleeping" /\ pc' = "calling" /\ attempt' = attempt + 1
      /\ elapsed' = elapsed + delay
      /\ UNCHANGED <<exists, lastResponse, delay, cause, reported, log>>
  BY DEF Wake
<1>2. attempt \in Nat /\ attempt < MaxAttempts - 1 /\ MaxAttempts \in Nat
  BY <1>1, RequestAssumption DEF Inv, TypeOK, Counted
<1>3. elapsed \in Nat /\ delay \in Nat
  BY DEF Inv, TypeOK
<1>4. Len(log) = attempt + 1
  BY <1>1 DEF Inv, Counted
<1>5. Final \in Call
  BY <1>2, <1>4 DEF Inv, TypeOK, Final
<1>6. TypeOK'
  BY <1>1, <1>2, <1>3 DEF Inv, TypeOK
<1>7. Rested'
  BY <1>1, <1>3, <1>5 DEF Inv, Rested, Final, Call
<1>8. Counted' /\ StillTransient' /\ Settled' /\ CauseKnown'
  BY <1>1, <1>2, <1>4 DEF Inv, Counted, StillTransient, Settled, CauseKnown, Going
<1>9. WaitsAsAsked' /\ ErrorNamesLastOutcome'
  BY <1>1 DEF Inv, WaitsAsAsked, ErrorNamesLastOutcome
<1> QED BY <1>6, <1>7, <1>8, <1>9 DEF Inv

LEMMA CancelKeeps == Inv /\ Cancel => Inv'
<1> SUFFICES ASSUME Inv, Cancel PROVE Inv'
  OBVIOUS
<1>1. /\ pc' = "cancelled"
      /\ UNCHANGED <<exists, attempt, lastResponse, delay, cause, reported, elapsed, log>>
  BY DEF Cancel
<1>2. TypeOK'
  BY <1>1 DEF Inv, TypeOK, Over
<1>3. Counted' /\ Settled' /\ CauseKnown' /\ Rested' /\ WaitsAsAsked' /\ ErrorNamesLastOutcome'
  BY <1>1 DEF Inv, Counted, Settled, CauseKnown, Rested, WaitsAsAsked, ErrorNamesLastOutcome
<1>4. StillTransient'
  BY <1>1 DEF Inv, StillTransient, Going
<1> QED BY <1>2, <1>3, <1>4 DEF Inv

LEMMA NextInv == Inv /\ [Next]_vars => Inv'
<1> SUFFICES ASSUME Inv, [Next]_vars PROVE Inv'
  OBVIOUS
<1>1. CASE UNCHANGED vars
  BY <1>1 DEF vars, Inv, TypeOK, Counted, StillTransient, Settled, CauseKnown, Rested,
    Final, WaitsAsAsked, ErrorNamesLastOutcome
<1>2. CASE Next
  BY <1>2, CallRaisesKeeps, CallRetryableKeeps, CallAnswersKeeps, WakeKeeps, CancelKeeps
  DEF Next, CallEnds
<1> QED BY <1>1, <1>2

LEMMA InvHolds == Spec => []Inv
<1>1. Init => Inv
  BY InitInv
<1>2. Inv /\ [Next]_vars => Inv'
  BY NextInv
<1> QED BY <1>1, <1>2, PTL DEF Spec

\* Every variable of a request keeps its type.
THEOREM RequestTypeCorrect == Spec => []TypeOK
<1>1. Inv => TypeOK
  BY DEF Inv
<1> QED BY <1>1, InvHolds, PTL

\* A value or a definitive miss is only ever concluded from TfL's own 200 or
\* 404, so that the resolvers' caches may keep it for good.
THEOREM VerdictsAreTrue == Spec => []VerdictTruthful
<1>1. Inv => VerdictTruthful
  BY RequestAssumption DEF Inv, Settled, CauseKnown, VerdictTruthful, IsNotFound, Definitive,
     OtherRejections
<1> QED BY <1>1, InvHolds, PTL

\* A request makes one call for each transient outcome and one more, and
\* never more than MaxAttempts.
THEOREM RetriesAreExact == Spec => []RetriesExactly
<1>1. ASSUME Inv PROVE RetriesExactly
  <2>1. /\ attempt \in Nat /\ attempt <= MaxAttempts - 1 /\ MaxAttempts \in Nat
        /\ Len(log) \in Nat
    BY <1>1, RequestAssumption DEF Inv, TypeOK
  <2>2. Len(log) <= MaxAttempts
    BY <1>1, <2>1 DEF Inv, Counted
  <2>3. \A i \in 1..(Len(log) - 1) : Transient(log[i].outcome)
    BY <1>1, <2>1 DEF Inv, StillTransient
  <2>4. pc = "sleeping" => Len(log) < MaxAttempts
    BY <1>1, <2>1 DEF Inv, Counted
  <2> QED BY <1>1, <2>2, <2>3, <2>4 DEF Inv, Settled, RetriesExactly, Final
<1> QED BY <1>1, InvHolds, PTL

\* An exhausted request names the outcome of its last attempt.
THEOREM ErrorsNameLastOutcome == Spec => []ErrorNamesLastOutcome
<1>1. Inv => ErrorNamesLastOutcome
  BY DEF Inv
<1> QED BY <1>1, InvHolds, PTL

\* TfL is left alone for as long as it asked for.
THEOREM WaitsAreKept == Spec => []WaitsAsAsked
<1>1. Inv => WaitsAsAsked
  BY DEF Inv
<1> QED BY <1>1, InvHolds, PTL
=============================================================================
