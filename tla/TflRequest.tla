------------------------------ MODULE TflRequest ------------------------------
(***************************************************************************)
(* One request of TflClient: with_retry in src/ingestion/tfl_client/       *)
(* retry.py, wrapped by TflClient._request in client.py, up to the verdict *)
(* stations.py draws from the error (_is_not_found).                       *)
(*                                                                         *)
(* TfL either knows what is asked for or does not, and says so whenever it *)
(* answers definitively; any call may instead time out or be turned away   *)
(* for a while.  Time is counted in half seconds, the unit of the back-off.*)
(***************************************************************************)
EXTENDS Integers, Sequences

CONSTANTS
  MaxAttempts,   \* max_attempts
  Durations,     \* how long a call to TfL may take
  RetryAfters,   \* values of the Retry-After header: Malformed or an integer, in half seconds
  Malformed,     \* a missing, non-integer or HTTP-date header
  None

ASSUME RequestAssumption ==
  /\ MaxAttempts \in Nat \ {0}        \* max_attempts < 1 is refused
  /\ Durations \subseteq Nat
  /\ RetryAfters \subseteq Int \cup {Malformed}
  /\ Malformed \notin Int /\ None \notin Int

RETRYABLE_STATUS_CODES == {429, 500, 502, 503, 504}
RetryAfterCodesFew == {429}
RetryAfterCodes == {429, 503}
Definitive(exists) == IF exists THEN {200} ELSE {404}
OtherRejections == {400, 403}
Exception == 0                         \* a timeout or transport error

VARIABLES
  exists,        \* TfL knows what is asked for
  pc,
  attempt,       \* loop variable of with_retry
  lastResponse,  \* last_response; last_exception is set when this is None
  delay,         \* of the sleep
  cause,         \* status of the HTTPStatusError the error was raised from
  reported,      \* what the raised error's message says: a status or Exception
  elapsed,       \* time spent so far
  log            \* every call's outcome, with when it was sent and ended

vars == <<exists, pc, attempt, lastResponse, delay, cause, reported, elapsed, log>>

Status == RETRYABLE_STATUS_CODES \cup OtherRejections \cup {200, 404}
Over == {"returned", "raised", "cancelled"}
Outcome == Status \cup {Exception}
Call == [outcome : Outcome, wants : Nat, sent : Nat, ended : Nat]

TypeOK ==
  /\ exists \in BOOLEAN
  /\ pc \in {"calling", "sleeping"} \cup Over
  /\ attempt \in 0..(MaxAttempts - 1)
  /\ lastResponse \in RETRYABLE_STATUS_CODES \cup {None}
  /\ delay \in Nat /\ elapsed \in Nat
  /\ cause \in Status \cup {None} /\ reported \in Outcome \cup {None}
  /\ log \in Seq(Call)

Init ==
  /\ exists \in BOOLEAN
  /\ pc = "calling" /\ attempt = 0
  /\ lastResponse = None /\ delay = 0
  /\ cause = None /\ reported = None
  /\ elapsed = 0 /\ log = <<>>

-----------------------------------------------------------------------------
\* _exponential_backoff: 0.5 s * 2^attempt, at most 10 s.
Backoff(n) == IF n >= 5 THEN 20 ELSE <<1, 2, 4, 8, 16>>[n + 1]

\* _retry_after_seconds: only a positive integer counts.
RetryAfter(header) == IF header \in Int /\ header > 0 THEN header ELSE None

Delay(status, header) ==
  IF status \in RetryAfterCodes /\ RetryAfter(header) # None
  THEN RetryAfter(header) ELSE Backoff(attempt)

\* How long TfL asks to be left alone (RFC 9110: with 429 and 503).
Wants(status, header) ==
  IF status \in {429, 503} /\ header \in Int /\ header > 0 THEN header ELSE 0

\* A call ends d later.
Ended(outcome, wants, d) ==
  /\ elapsed' = elapsed + d
  /\ log' = Append(log, [outcome |-> outcome, wants |-> wants,
                         sent |-> elapsed, ended |-> elapsed + d])

Raise(from, says) ==
  /\ pc' = "raised" /\ cause' = from /\ reported' = says
  /\ UNCHANGED delay

\* As if one more attempt were made; and the last one, as it is.
LastAttemptLate == attempt = MaxAttempts
LastAttempt == attempt = MaxAttempts - 1

\* Sleep before the next attempt or, after the last one, raise without a
\* cause, naming last_response if it is set and last_exception otherwise.
RetryOrRaise(pause) ==
  \/ /\ ~LastAttempt
     /\ pc' = "sleeping" /\ delay' = pause
     /\ UNCHANGED <<cause, reported>>
  \/ /\ LastAttempt
     /\ Raise(None, IF lastResponse' # None THEN lastResponse' ELSE Exception)

\* As if last_response survived a later exception.
AfterExceptionStale == lastResponse
AfterException == None

CallRaises(d) ==
  /\ pc = "calling"
  /\ Ended(Exception, 0, d)
  /\ lastResponse' = AfterException
  /\ RetryOrRaise(Backoff(attempt))
  /\ UNCHANGED <<exists, attempt>>

CallRetryable(status, header, d) ==
  /\ pc = "calling"
  /\ Ended(status, Wants(status, header), d)
  /\ lastResponse' = status
  /\ RetryOrRaise(Delay(status, header))
  /\ UNCHANGED <<exists, attempt>>

\* A status that is not retried: decode the body, which may fail with an error
\* of its own, or raise from raise_for_status.
CallAnswers(status, d) ==
  /\ pc = "calling"
  /\ Ended(status, 0, d)
  /\ \/ /\ status = 200
        /\ pc' = "returned"
        /\ UNCHANGED <<delay, cause, reported>>
     \/ status = 200 /\ Raise(None, None)
     \/ status # 200 /\ Raise(status, status)
  /\ UNCHANGED <<exists, attempt, lastResponse>>

Wake ==
  /\ pc = "sleeping"
  /\ pc' = "calling"
  /\ attempt' = attempt + 1
  /\ elapsed' = elapsed + delay
  /\ UNCHANGED <<exists, lastResponse, delay, cause, reported, log>>

\* The coroutine is cancelled at one of its awaits.
Cancel ==
  /\ pc \in {"calling", "sleeping"}
  /\ pc' = "cancelled"
  /\ UNCHANGED <<exists, attempt, lastResponse, delay, cause, reported, elapsed, log>>

CallEnds ==
  \E d \in Durations :
     \/ CallRaises(d)
     \/ \E st \in RETRYABLE_STATUS_CODES, h \in RetryAfters : CallRetryable(st, h, d)
     \/ \E st \in Definitive(exists) \cup OtherRejections : CallAnswers(st, d)

Next == CallEnds \/ Wake \/ Cancel

Spec == Init /\ [][Next]_vars

\* As if any HTTP error were a definitive miss; and _is_not_found, which looks
\* at the error's cause.
IsNotFoundAny(c) == c # None
IsNotFound(c) == c = 404

-----------------------------------------------------------------------------
(* Properties *)

\* What a resolver may cache for the life of the process is the truth: a value
\* or a miss is only concluded from TfL's own 200 or 404, however many timeouts
\* and 5xx answers came before it, and never from an exhausted retry.
VerdictTruthful ==
  /\ pc = "returned" => exists
  /\ pc = "raised" /\ IsNotFound(cause) => ~exists

Transient(outcome) == outcome \in RETRYABLE_STATUS_CODES \cup {Exception}

\* A request is over after its first answer that is not transient, or after
\* exactly MaxAttempts transient ones -- no call more, none less, and no pause
\* that no call would follow.
RetriesExactly ==
  /\ Len(log) <= MaxAttempts
  /\ pc = "sleeping" => Len(log) < MaxAttempts
  /\ \A i \in 1..(Len(log) - 1) : Transient(log[i].outcome)
  /\ pc \in {"returned", "raised"} => Len(log) = MaxAttempts \/ ~Transient(log[Len(log)].outcome)
  /\ pc = "returned" => ~Transient(log[Len(log)].outcome)

\* An exhausted request names the outcome of its last attempt, never that of
\* an earlier one.
ErrorNamesLastOutcome ==
  pc = "raised" /\ reported # None => reported = log[Len(log)].outcome

\* TfL is left alone for at least as long as it asked for with 429 or 503, and
\* always for some time between two attempts.
WaitsAsAsked ==
  \A i \in 1..(Len(log) - 1) :
    /\ log[i + 1].sent >= log[i].ended + log[i].wants
    /\ log[i + 1].sent > log[i].ended

\* "up to 300 seconds, which covers a full multi-tool turn" (ARCHITECTURE.md):
\* at least one request of one tool should fit.
FunctionLimit == 600
FitsFunctionLimit == elapsed <= FunctionLimit
=============================================================================
