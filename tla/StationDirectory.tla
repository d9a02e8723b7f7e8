-------------------------- MODULE StationDirectory ---------------------------
(***************************************************************************)
(* What resolve_naptans (src/api/stations.py) promises its callers: a      *)
(* total answer for the ids asked for, taken from the process's memory of  *)
(* definitive TfL answers where it has one, and a memory that nothing but  *)
(* the truth ever enters.  How the answers are fetched is not visible.     *)
(***************************************************************************)
CONSTANTS callers, Naptans, Known, None, Absent

VARIABLES
  facts,   \* naptan -> its name, None once confirmed unknown, Absent if not learnt
  open,    \* caller -> whether its request is being served
  ids,     \* caller -> the ids of its latest request
  reply    \* caller -> what it has been told so far, Absent where nothing

vars == <<facts, open, ids, reply>>

Truth(n) == IF n \in Known THEN n ELSE None

Init ==
  /\ facts = [n \in Naptans |-> Absent]
  /\ open = [c \in callers |-> FALSE]
  /\ ids = [c \in callers |-> {}]
  /\ reply = [c \in callers |-> [n \in Naptans |-> Absent]]

\* A request starts from what is known; it is over at once when nothing is
\* missing, or when there is no client to ask and what is missing is None.
Ask(c, request) ==
  /\ ~open[c]
  /\ ids' = [ids EXCEPT ![c] = request]
  /\ \E served \in BOOLEAN :
       /\ open' = [open EXCEPT ![c] = ~served]
       /\ reply' = [reply EXCEPT ![c] = [n \in Naptans |->
            IF n \notin request THEN Absent
            ELSE IF facts[n] = Absent /\ served THEN None ELSE facts[n]]]
       /\ ~served => \E n \in request : facts[n] = Absent
  /\ UNCHANGED facts

\* Every id still open is answered; some true answers are remembered.
Answer(c, told, learnt) ==
  LET missing == {n \in ids[c] : reply[c][n] = Absent}
  IN  /\ open[c]
      /\ learnt \subseteq told /\ told \subseteq missing
      /\ open' = [open EXCEPT ![c] = FALSE]
      /\ reply' = [reply EXCEPT ![c] = [n \in Naptans |->
           IF n \in told THEN Truth(n) ELSE IF n \in missing THEN None ELSE reply[c][n]]]
      /\ facts' = [n \in Naptans |-> IF n \in learnt THEN Truth(n) ELSE facts[n]]
      /\ UNCHANGED ids

\* The caller went away.
GiveUp(c) ==
  /\ open[c]
  /\ open' = [open EXCEPT ![c] = FALSE]
  /\ UNCHANGED <<facts, ids, reply>>

Next ==
  \E c \in callers :
    \/ \E request \in SUBSET Naptans : Ask(c, request)
    \/ \E told, learnt \in SUBSET Naptans : Answer(c, told, learnt)
    \/ GiveUp(c)

Spec == Init /\ [][Next]_vars
=============================================================================
