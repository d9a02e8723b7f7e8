----------------------------- MODULE Conversation -----------------------------
(***************************************************************************)
(* What the chat panel promises its user: a list of exchanges, one per     *)
(* message sent, in order.  Only the last one may still be open; it is     *)
(* then either settled -- once, for good, as answered or as interrupted -- *)
(* or taken back as if it had never been sent.                             *)
(***************************************************************************)
EXTENDS Naturals, Sequences

VARIABLES sent,       \* messages sent so far
          exchanges   \* the exchanges on screen: their number and status

Status == {"open", "answered", "interrupted", "abandoned"}

Last == exchanges[Len(exchanges)]
Waiting == exchanges # <<>> /\ Last.status = "open"

Init == sent = 0 /\ exchanges = <<>>

Ask ==
  /\ ~Waiting
  /\ sent' = sent + 1
  /\ exchanges' = Append(exchanges, [turn |-> sent + 1, status |-> "open"])

\* "abandoned" when the user leaves the page while the answer streams in.
Settle ==
  /\ Waiting
  /\ \E st \in Status \ {"open"} :
        exchanges' = [exchanges EXCEPT ![Len(exchanges)].status = st]
  /\ UNCHANGED sent

Withdraw ==
  /\ Waiting
  /\ exchanges' = SubSeq(exchanges, 1, Len(exchanges) - 1)
  /\ UNCHANGED sent

Next == Ask \/ Settle \/ Withdraw
Spec == Init /\ [][Next]_<<sent, exchanges>>
=============================================================================
