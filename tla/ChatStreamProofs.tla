--------------------------- MODULE ChatStreamProofs ---------------------------
(***************************************************************************)
(* The safety of the chat, for any number of turns, tool rounds and pieces *)
(* of text, and with instances that are recycled or not.                   *)
(*                                                                         *)
(* The panel and the server need one invariant each.  PanelInv: only the   *)
(* last send can be in a loop, inFlightRef says whether it is, and the     *)
(* last bubble is then its own; bubbles come in pairs whose turns grow.    *)
(* ServerInv: a run that is still going has sent no terminal frame, of its *)
(* copy of the thread only a tool call made last can lack its result, and  *)
(* a thread that lacks one is watched over by a run at its tools or cut.   *)
(* What a turn comes to relates the two.  TurnsOK: as long as a connection *)
(* holds, text read and text on the wire make up the text streamed, and    *)
(* the error of a failed run is on its way or noted.  Bubbles: the live    *)
(* send's bubble shows what was read, and is the only one of its turn.     *)
(***************************************************************************)
EXTENDS ChatStream, SequenceTheorems, FiniteSetTheorems, TLAPS

Reader == [pc : Loops \cup {"none", "done", "failed", "aborted"},
           text : Nat, endedWithError : BOOLEAN]
PanelTypes ==
  /\ mounted \in BOOLEAN /\ draft \in BOOLEAN /\ inFlight \in BOOLEAN
  /\ busy \in BOOLEAN /\ toolStatus \in BOOLEAN /\ serviceError \in BOOLEAN
  /\ typed \in 0..IntroLength
  /\ asked \in 0..MaxTurns
  /\ messages \in Seq(Message)
  /\ reader \in [Turn -> Reader]

LastIsLive ==
  \A t \in Turn : reader[t].pc \in Loops =>
    /\ t = asked /\ mounted /\ inFlight
    /\ Last >= 2 /\ messages[Last].role = "assistant" /\ messages[Last].turn = t
InFlightIsLive == inFlight => asked \in Turn /\ reader[asked].pc \in Loops
Controls == mounted => busy = inFlight /\ (toolStatus => busy)

Half == Last \div 2
Paired ==
  /\ Last = 2 * Half
  /\ \A i \in 1..Half : messages[2 * i - 1].turn = messages[2 * i].turn
                        /\ messages[2 * i].turn <= asked
  /\ \A i, j \in 1..Half : i < j => messages[2 * i].turn < messages[2 * j].turn

PanelInv ==
  PanelTypes /\ LastIsLive /\ InFlightIsLive /\ Controls /\ OwnText /\ Paired

-----------------------------------------------------------------------------
(* Sequences *)

LEMMA PairAppended ==
  ASSUME NEW S, NEW s \in Seq(S), NEW a \in S, NEW b \in S
  PROVE  /\ s \o <<a, b>> \in Seq(S) /\ Len(s \o <<a, b>>) = Len(s) + 2
         /\ \A i \in 1..Len(s) : (s \o <<a, b>>)[i] = s[i]
         /\ (s \o <<a, b>>)[Len(s) + 1] = a /\ (s \o <<a, b>>)[Len(s) + 2] = b
<1>1. <<a, b>> \in Seq(S) /\ Len(<<a, b>>) = 2 /\ Len(s) \in Nat
  OBVIOUS
<1>2. /\ s \o <<a, b>> \in Seq(S) /\ Len(s \o <<a, b>>) = Len(s) + 2
      /\ \A i \in 1..(Len(s) + 2) :
           (s \o <<a, b>>)[i] = IF i <= Len(s) THEN s[i] ELSE <<a, b>>[i - Len(s)]
  BY <1>1, ConcatProperties
<1> QED BY <1>1, <1>2

LEMMA PairRemoved ==
  ASSUME NEW S, NEW s \in Seq(S), Len(s) >= 2
  PROVE  /\ SubSeq(s, 1, Len(s) - 2) \in Seq(S)
         /\ Len(SubSeq(s, 1, Len(s) - 2)) = Len(s) - 2
         /\ \A i \in 1..(Len(s) - 2) : SubSeq(s, 1, Len(s) - 2)[i] = s[i]
<1>1. Len(s) \in Nat /\ \A i \in 1..Len(s) : s[i] \in S
  BY LenProperties, ElementOfSeq
<1> DEFINE n == Len(s) - 2
<1>2. n \in Nat /\ \A i \in 1..n : s[i] \in S
  BY <1>1
<1> HIDE DEF n
<1>3. /\ SubSeq(s, 1, n) \in Seq(S)
      /\ Len(SubSeq(s, 1, n)) = IF 1 <= n THEN n - 1 + 1 ELSE 0
      /\ \A i \in 1..(n - 1 + 1) : SubSeq(s, 1, n)[i] = s[1 + i - 1]
  BY <1>2, SubSeqProperties
<1>4. n - 1 + 1 = n /\ (\A i \in 1..n : 1 + i - 1 = i) /\ (1 <= n \/ n = 0)
  BY <1>2
<1>5. /\ SubSeq(s, 1, n) \in Seq(S) /\ Len(SubSeq(s, 1, n)) = n
      /\ \A i \in 1..n : SubSeq(s, 1, n)[i] = s[i]
  BY <1>3, <1>4
<1> QED BY <1>5 DEF n

LEMMA BubbleRevised ==
  ASSUME NEW s \in Seq(Message), NEW m \in Message, s # <<>>
  PROVE  /\ [s EXCEPT ![Len(s)] = m] \in Seq(Message)
         /\ Len([s EXCEPT ![Len(s)] = m]) = Len(s)
         /\ [s EXCEPT ![Len(s)] = m][Len(s)] = m
         /\ \A i \in 1..Len(s) : i # Len(s) => [s EXCEPT ![Len(s)] = m][i] = s[i]
<1>1. Len(s) \in Nat /\ Len(s) \in 1..Len(s) /\ DOMAIN s = 1..Len(s)
  BY EmptySeq, LenProperties
<1> DEFINE r == [s EXCEPT ![Len(s)] = m]
<1>2. /\ r \in Seq(Message) /\ Len(r) = Len(s)
      /\ \A j \in 1..Len(s) : r[j] = IF j = Len(s) THEN m ELSE s[j]
  BY <1>1, ExceptSeq
<1> QED BY <1>1, <1>2

WithText(x, u, n) == [x EXCEPT !.from = u, !.text = n]
LEMMA BubbleFilled ==
  ASSUME NEW x \in Message, NEW u \in Turn, NEW n \in Nat
  PROVE  /\ WithText(x, u, n) \in Message /\ WithText(x, u, n).turn = x.turn
         /\ WithText(x, u, n).role = x.role /\ WithText(x, u, n).from = u
<1> QED BY DEF Message, WithText

LEMMA BubbleGetsCard ==
  ASSUME NEW x \in Message, NEW n \in Nat, NEW m, m = [x EXCEPT !.views = n]
  PROVE  /\ m \in Message /\ m.turn = x.turn /\ m.role = x.role
         /\ m.from = x.from /\ m.text = x.text
<1> QED BY DEF Message

LEMMA Halves ==
  /\ 0 \div 2 = 0
  /\ \A n \in Nat : /\ n \div 2 \in Nat /\ (n + 2) \div 2 = n \div 2 + 1
                    /\ n >= 2 => (n - 2) \div 2 = n \div 2 - 1
<1> QED OBVIOUS

-----------------------------------------------------------------------------
(* The panel *)

LEMMA PanelInit == Init => PanelInv
<1> SUFFICES ASSUME Init PROVE PanelInv
  OBVIOUS
<1>1. messages = <<>> /\ Last = 0 /\ Half = 0 /\ messages \in Seq(Message)
  BY Halves DEF Init, Last, Half
<1>2. PanelTypes
  <2>1. typed \in 0..IntroLength /\ asked \in 0..MaxTurns
    BY ChatAssumption DEF Init
  <2>2. reader \in [Turn -> Reader]
    BY DEF Init, Reader
  <2> QED BY <1>1, <2>1, <2>2 DEF Init, PanelTypes
<1>3. LastIsLive /\ InFlightIsLive /\ Controls
  BY DEF Init, LastIsLive, InFlightIsLive, Controls, Loops
<1>4. OwnText /\ Paired
  BY <1>1 DEF OwnText, Paired
<1> QED BY <1>2, <1>3, <1>4 DEF PanelInv

LEMMA PanelStays == ASSUME PanelInv, UNCHANGED panel PROVE PanelInv'
<1> USE DEF panel, composer
<1>1. Last' = Last /\ Half' = Half
  BY DEF Last, Half
<1> QED BY <1>1 DEF PanelInv, PanelTypes, LastIsLive, InFlightIsLive, Controls,
                    OwnText, Paired

\* Typing, in the greeting or in the text area.
LEMMA PanelComposes == ASSUME PanelInv, TypeIntro \/ Compose PROVE PanelInv'
<1>1. /\ UNCHANGED <<mounted, asked, inFlight, busy, toolStatus, serviceError, messages, reader>>
      /\ Last' = Last /\ Half' = Half
  BY DEF TypeIntro, Compose, Last, Half
<1>2. draft' \in BOOLEAN /\ typed' \in 0..IntroLength
  <2>1. draft \in BOOLEAN /\ typed \in 0..IntroLength /\ IntroLength \in Nat
    BY ChatAssumption DEF PanelInv, PanelTypes
  <2>2. draft' \in BOOLEAN
    BY <2>1 DEF TypeIntro, Compose
  <2>3. typed' \in 0..IntroLength
    BY <2>1 DEF TypeIntro, IntroRuns, Compose
  <2> QED BY <2>2, <2>3
<1> QED BY <1>1, <1>2 DEF PanelInv, PanelTypes, LastIsLive, InFlightIsLive, Controls,
                          OwnText, Paired

LEMMA PanelSends == ASSUME PanelInv, Send PROVE PanelInv'
<1> DEFINE user == Blank(asked', "user")
           assistant == Blank(asked', "assistant")
<1>1. /\ mounted /\ ~inFlight /\ asked' = asked + 1 /\ asked \in Nat
      /\ asked' \in Turn /\ mounted' = mounted
  BY ChatAssumption DEF Send, SendOnce, PanelInv, PanelTypes, Turn
<1>2. /\ messages \in Seq(Message) /\ Last \in Nat
      /\ messages' = messages \o <<user, assistant>>
      /\ user \in Message /\ assistant \in Message
  BY <1>1, LenProperties DEF Send, PanelInv, PanelTypes, Message, Blank, Last
<1> HIDE DEF user, assistant
<1>3. /\ messages' \in Seq(Message) /\ Last' = Last + 2
      /\ \A i \in 1..Last : messages'[i] = messages[i]
      /\ messages'[Last + 1] = user /\ messages'[Last + 2] = assistant
  BY <1>2, PairAppended DEF Last
<1>4. /\ reader' = [reader EXCEPT ![asked + 1].pc = "connecting"]
      /\ reader \in [Turn -> Reader]
      /\ \A t \in Turn : reader[t].pc \notin Loops
  BY <1>1 DEF Send, PanelInv, PanelTypes, LastIsLive
<1>5. PanelTypes'
  <2>1. reader' \in [Turn -> Reader]
    BY <1>4 DEF Reader, Loops
  <2>2. asked' \in 0..MaxTurns /\ typed' \in 0..IntroLength
    BY <1>1, ChatAssumption DEF Send, Turn
  <2> QED BY <1>1, <1>3, <2>1, <2>2 DEF PanelInv, PanelTypes, Send
<1>6. /\ user.text = 0 /\ assistant.text = 0 /\ assistant.role = "assistant"
      /\ user.turn = asked' /\ assistant.turn = asked'
  BY DEF user, assistant, Blank
<1>7. LastIsLive' /\ InFlightIsLive' /\ Controls'
  <2>1. \A t \in Turn : reader'[t].pc \in Loops => t = asked'
    BY <1>1, <1>4 DEF Reader
  <2>2. inFlight' /\ busy' /\ ~toolStatus' /\ reader'[asked'].pc = "connecting"
    BY <1>1, <1>4 DEF Send, Reader
  <2>3. /\ Last' >= 2 /\ messages'[Last'].role = "assistant"
        /\ messages'[Last'].turn = asked'
    <3>1. Last + 2 >= 2
      BY <1>2
    <3>2. Last' >= 2 /\ messages'[Last'] = assistant
      BY <1>3, <3>1
    <3> QED BY <1>6, <3>2
  <2>4. LastIsLive'
    BY <1>1, <2>1, <2>2, <2>3 DEF LastIsLive
  <2>5. InFlightIsLive' /\ Controls'
    BY <1>1, <2>2 DEF InFlightIsLive, Controls, Loops
  <2> QED BY <2>4, <2>5
<1>8. OwnText'
  <2> SUFFICES ASSUME NEW i \in 1..(Last + 2), messages'[i].text > 0
               PROVE  messages'[i].role = "assistant" /\ messages'[i].from = messages'[i].turn
    BY <1>2, <1>3, LenProperties DEF OwnText, Last
  <2>1. \A n \in Nat : \A k \in 1..(n + 2) : k \in 1..n \/ k = n + 1 \/ k = n + 2
    OBVIOUS
  <2>2. i \in 1..Last
    <3>1. Last \in Nat
      BY <1>2
    <3>2. i \in 1..Last \/ i = Last + 1 \/ i = Last + 2
      BY <2>1, <3>1
    <3> QED BY <1>3, <1>6, <3>2
  <2> QED BY <1>2, <1>3, <2>2, LenProperties DEF PanelInv, OwnText, Last
<1>9. Paired'
  <2>1. Half' = Half + 1 /\ Half \in Nat /\ Last = 2 * Half /\ Last' = 2 * Half'
    BY <1>2, <1>3, Halves DEF Half, PanelInv, Paired
  <2>2. \A i \in 1..Half : /\ messages'[2 * i] = messages[2 * i]
                           /\ messages'[2 * i - 1] = messages[2 * i - 1]
    BY <1>3, <2>1
  <2>3. messages'[2 * Half' - 1] = user /\ messages'[2 * Half'] = assistant
    BY <1>3, <2>1
  <2>4. \A i \in 1..Half : /\ messages[2 * i - 1].turn = messages[2 * i].turn
                           /\ messages[2 * i].turn <= asked
                           /\ messages[2 * i].turn \in Int
    <3>1. \A i \in 1..Half : 2 * i \in 1..Last
      BY <2>1
    <3>2. \A i \in 1..Half : messages[2 * i] \in Message
      BY <1>2, <3>1, ElementOfSeq DEF Last
    <3>3. \A i \in 1..Half : messages[2 * i].turn \in Int
      BY <3>2 DEF Message, Turn
    <3> QED BY <3>3 DEF PanelInv, Paired
  <2>5. \A i \in 1..Half : messages'[2 * i].turn <= asked'
    BY <1>1, <2>2, <2>4
  <2>6. \A i \in 1..Half' : i \in 1..Half \/ i = Half'
    BY <2>1
  <2>7. \A i, j \in 1..Half' : i < j => messages'[2 * i].turn < messages'[2 * j].turn
    <3> SUFFICES ASSUME NEW i \in 1..Half', NEW j \in 1..Half', i < j
                 PROVE  messages'[2 * i].turn < messages'[2 * j].turn
      OBVIOUS
    <3>1. i \in 1..Half
      BY <2>1
    <3>2. CASE j \in 1..Half
      BY <2>2, <3>1, <3>2 DEF PanelInv, Paired
    <3>3. CASE j = Half'
      BY <1>1, <1>6, <2>2, <2>3, <2>4, <3>1, <3>3
    <3> QED BY <2>6, <3>2, <3>3
  <2>8. \A i \in 1..Half' : /\ messages'[2 * i - 1].turn = messages'[2 * i].turn
                            /\ messages'[2 * i].turn <= asked'
    <3> SUFFICES ASSUME NEW i \in 1..Half'
                 PROVE  /\ messages'[2 * i - 1].turn = messages'[2 * i].turn
                        /\ messages'[2 * i].turn <= asked'
      OBVIOUS
    <3>1. CASE i \in 1..Half
      BY <2>2, <2>4, <2>5, <3>1
    <3>2. CASE i = Half'
      BY <1>1, <1>6, <2>3, <3>2
    <3> QED BY <2>6, <3>1, <3>2
  <2> QED BY <2>1, <2>7, <2>8 DEF Paired
<1> QED BY <1>5, <1>7, <1>8, <1>9 DEF PanelInv

\* The last bubble is revised but stays its turn's.
LEMMA PanelRevised ==
  ASSUME PanelInv, Last >= 2, NEW m \in Message,
         messages' = [messages EXCEPT ![Last] = m], asked' = asked,
         m.turn = messages[Last].turn, m.role = messages[Last].role,
         m.text > 0 => m.role = "assistant" /\ m.from = m.turn
  PROVE  /\ messages' \in Seq(Message) /\ Last' = Last /\ messages'[Last] = m
         /\ OwnText' /\ Paired'
<1>1. messages \in Seq(Message) /\ messages # <<>> /\ Last \in Nat /\ Last = Len(messages)
  BY LenProperties, EmptySeq DEF PanelInv, PanelTypes, Last
<1>2. /\ messages' \in Seq(Message) /\ Last' = Last /\ messages'[Last] = m
      /\ \A i \in 1..Last : i # Last => messages'[i] = messages[i]
  BY <1>1, BubbleRevised DEF Last
<1>3. DOMAIN messages = 1..Last /\ DOMAIN messages' = 1..Last
  BY <1>1, <1>2, LenProperties DEF Last
<1>4. OwnText'
  BY <1>2, <1>3 DEF PanelInv, OwnText
<1>5. \A i \in 1..Last : messages'[i].turn = messages[i].turn
  BY <1>2
<1>6. Half' = Half /\ Half \in Nat /\ Last = 2 * Half
  BY <1>1, <1>2, Halves DEF Half, PanelInv, Paired
<1>7. \A i \in 1..Half : /\ messages'[2 * i].turn = messages[2 * i].turn
                         /\ messages'[2 * i - 1].turn = messages[2 * i - 1].turn
  <2>1. \A i \in 1..Half : 2 * i \in 1..Last /\ 2 * i - 1 \in 1..Last
    BY <1>6
  <2> QED BY <1>5, <2>1
<1>8. Paired'
  BY <1>2, <1>6, <1>7 DEF PanelInv, Paired
<1> QED BY <1>2, <1>4, <1>8

\* The send in its loop ends.
LEMMA PanelSendOver ==
  ASSUME PanelInv, NEW t \in Turn, reader[t].pc \in Loops,
         NEW pc \in {"done", "failed"}, SendOver(t, pc),
         UNCHANGED <<composer, mounted, asked>>, serviceError' \in BOOLEAN,
         messages' \in Seq(Message), OwnText', Paired'
  PROVE  PanelInv'
<1>1. /\ reader \in [Turn -> Reader] /\ reader' = [reader EXCEPT ![t].pc = pc]
      /\ \A u \in Turn : reader[u].pc \in Loops => u = t
  BY DEF PanelInv, PanelTypes, LastIsLive, SendOver
<1>2. reader' \in [Turn -> Reader]
  BY <1>1 DEF Reader
<1>3. \A u \in Turn : reader'[u].pc \notin Loops
  BY <1>1 DEF Reader, Loops
<1>4. PanelTypes'
  BY <1>2 DEF PanelInv, PanelTypes, SendOver, composer
<1>5. LastIsLive' /\ InFlightIsLive' /\ Controls'
  BY <1>3 DEF LastIsLive, InFlightIsLive, Controls, SendOver
<1> QED BY <1>4, <1>5 DEF PanelInv

LEMMA PanelRolledBack ==
  ASSUME PanelInv, Last >= 2, messages' = Rollback, asked' = asked
  PROVE  /\ messages' \in Seq(Message) /\ Last' = Last - 2 /\ Half' = Half - 1
         /\ \A i \in 1..(Last - 2) : messages'[i] = messages[i]
         /\ OwnText' /\ Paired'
<1>1. messages \in Seq(Message) /\ Last \in Nat
  BY LenProperties DEF PanelInv, PanelTypes, Last
<1>2. /\ messages' \in Seq(Message) /\ Last' = Last - 2
      /\ \A i \in 1..(Last - 2) : messages'[i] = messages[i]
  BY <1>1, PairRemoved DEF Last, Rollback
<1>3. DOMAIN messages = 1..Last /\ DOMAIN messages' = 1..(Last - 2)
  BY <1>1, <1>2, LenProperties DEF Last
<1>4. OwnText'
  BY <1>1, <1>2, <1>3 DEF PanelInv, OwnText
<1>5. Half' = Half - 1 /\ Half \in Nat /\ Last = 2 * Half
  BY <1>1, <1>2, Halves DEF Half, PanelInv, Paired
<1>6. \A i \in 1..Half' : /\ messages'[2 * i] = messages[2 * i]
                          /\ messages'[2 * i - 1] = messages[2 * i - 1]
                          /\ i \in 1..Half
  <2>1. \A i \in 1..Half' : /\ 2 * i \in 1..(Last - 2) /\ 2 * i - 1 \in 1..(Last - 2)
                            /\ i \in 1..Half
    BY <1>5
  <2> QED BY <1>2, <2>1
<1>7. Paired'
  BY <1>2, <1>5, <1>6 DEF PanelInv, Paired
<1> QED BY <1>2, <1>4, <1>5, <1>7

LEMMA PanelFails ==
  ASSUME PanelInv, NEW t \in Turn, Refused(t) \/ ReadFails(t)
  PROVE  PanelInv'
<1>1. /\ reader[t].pc \in Loops /\ SendOver(t, "failed") /\ messages' = Rollback
      /\ UNCHANGED <<composer, mounted, asked>> /\ serviceError' \in BOOLEAN
  BY DEF Refused, ReadFails, SendFails, Loops
<1>2. Last >= 2
  BY <1>1 DEF PanelInv, LastIsLive
<1> QED BY <1>1, <1>2, PanelRolledBack, PanelSendOver

LEMMA PanelReadsEnd == ASSUME PanelInv, NEW t \in Turn, ReadEnd(t) PROVE PanelInv'
<1>1. /\ reader[t].pc \in Loops /\ SendOver(t, "done")
      /\ UNCHANGED <<composer, mounted, asked>> /\ serviceError' \in BOOLEAN
  BY DEF ReadEnd, Loops, PanelInv, PanelTypes
<1>2. Last >= 2 /\ asked' = asked
  BY <1>1 DEF PanelInv, LastIsLive
<1>3. messages \in Seq(Message) /\ messages[Last] \in Message
  BY <1>2, ElementOfSeq, LenProperties DEF PanelInv, PanelTypes, Last
<1>4. messages' \in Seq(Message) /\ OwnText' /\ Paired'
  <2>1. CASE reader[t].endedWithError
    <3> DEFINE m == [messages[Last] EXCEPT !.errored = TRUE]
    <3>1. messages' = [messages EXCEPT ![Last] = m]
      <4>1. Last > 0
        BY <1>2, <1>3, LenProperties DEF Last
      <4>2. messages' = [messages EXCEPT ![Last].errored = TRUE]
        BY <2>1, <4>1 DEF ReadEnd
      <4> QED BY <4>2
    <3>2. /\ m \in Message /\ m.turn = messages[Last].turn /\ m.role = messages[Last].role
          /\ m.text = messages[Last].text /\ m.from = messages[Last].from
      BY <1>3 DEF Message
    <3>3. m.text > 0 => m.role = "assistant" /\ m.from = m.turn
      BY <1>2, <1>3, <3>2, LenProperties DEF PanelInv, OwnText, Last
    <3> HIDE DEF m
    <3> QED BY <1>2, <3>1, <3>2, <3>3, PanelRevised
  <2>2. CASE ~reader[t].endedWithError
    <3>1. messages' = messages /\ Last' = Last /\ Half' = Half
      BY <2>2 DEF ReadEnd, Last, Half
    <3> QED BY <1>2, <1>3, <3>1 DEF PanelInv, OwnText, Paired
  <2> QED BY <2>1, <2>2
<1> QED BY <1>1, <1>4, PanelSendOver

\* What a frame adds to the last bubble.
LEMMA PanelReadsFrame == ASSUME PanelInv, NEW t \in Turn, ReadFrame(t) PROVE PanelInv'
<1> DEFINE f == Head(wire[t])
<1>1. /\ reader[t].pc = "reading" /\ reader[t].pc \in Loops
      /\ UNCHANGED <<mounted, draft, typed, asked, inFlight, busy, serviceError>>
  BY DEF ReadFrame, Loops, composer
<1>2. /\ Last >= 2 /\ Last # 0 /\ mounted /\ inFlight /\ busy /\ t = asked
      /\ messages[Last].turn = t /\ messages[Last].role = "assistant"
      /\ asked' = asked
  <2>1. Last >= 2 /\ mounted /\ inFlight /\ t = asked /\ messages[Last].turn = t
        /\ messages[Last].role = "assistant"
    BY <1>1 DEF PanelInv, LastIsLive
  <2>2. busy /\ Last # 0
    BY <2>1 DEF PanelInv, Controls
  <2> QED BY <1>1, <2>1, <2>2
<1>3. messages \in Seq(Message) /\ messages[Last] \in Message /\ Last \in 1..Len(messages)
  BY <1>2, ElementOfSeq, LenProperties DEF PanelInv, PanelTypes, Last
<1>4. reader \in [Turn -> Reader] /\ reader[t].text \in Nat
  BY DEF PanelInv, PanelTypes, Reader
<1>5. /\ reader' \in [Turn -> Reader] /\ toolStatus' \in BOOLEAN
      /\ \A u \in Turn : reader'[u].pc = reader[u].pc
  <2>1. CASE f = "token"
    <3>1. reader' = [reader EXCEPT ![t].text = @ + 1] /\ toolStatus' = FALSE
      BY <2>1 DEF ReadFrame, Terminal
    <3>2. reader' = [reader EXCEPT ![t] = [reader[t] EXCEPT !.text = reader[t].text + 1]]
      BY <3>1
    <3>3. [reader[t] EXCEPT !.text = reader[t].text + 1] \in Reader
      BY <1>4 DEF Reader
    <3>4. [reader[t] EXCEPT !.text = reader[t].text + 1].pc = reader[t].pc
      BY <1>4 DEF Reader
    <3> QED BY <1>4, <3>1, <3>2, <3>3, <3>4
  <2>2. CASE f = "tool" \/ f = "card"
    BY <1>4, <2>2 DEF ReadFrame, Terminal
  <2>3. CASE f \in Terminal
    <3>1. /\ reader' = [reader EXCEPT ![t].endedWithError = (f = "error")]
          /\ toolStatus' = toolStatus
      BY <2>3 DEF ReadFrame, Terminal, NoteEnd
    <3>2. (f = "error") \in BOOLEAN
      OBVIOUS
    <3> HIDE DEF f
    <3> QED BY <1>4, <3>1, <3>2 DEF Reader, PanelInv, PanelTypes
  <2> QED BY <2>1, <2>2, <2>3 DEF ReadFrame
<1>6. /\ messages' \in Seq(Message) /\ Last' = Last /\ OwnText' /\ Paired'
      /\ messages'[Last].turn = t /\ messages'[Last].role = "assistant"
  <2>1. CASE f = "token"
    <3> DEFINE m == WithText(messages[Last], t, reader[t].text + 1)
    <3>1. messages' = [messages EXCEPT ![Last] = m]
      <4>1. messages' = [messages EXCEPT ![Last].from = t, ![Last].text = reader[t].text + 1]
        BY <1>2, <2>1 DEF ReadFrame, Terminal
      <4> QED BY <4>1, <1>3 DEF WithText
    <3>2. /\ m \in Message /\ m.turn = messages[Last].turn /\ m.role = messages[Last].role
          /\ m.from = t
      <4>1. reader[t].text + 1 \in Nat
        BY <1>4
      <4> QED BY <1>3, <4>1, BubbleFilled
    <3> HIDE DEF m
    <3> QED BY <1>2, <3>1, <3>2, PanelRevised
  <2>2. CASE f = "card"
    <3> DEFINE m == [messages[Last] EXCEPT !.views = messages[Last].views + 1]
    <3>1. messages' = [messages EXCEPT ![Last] = m]
      <4>1. messages' = [messages EXCEPT ![Last].views = @ + 1]
        BY <1>2, <2>2 DEF ReadFrame, Terminal
      <4> QED BY <4>1, <1>3
    <3>2. /\ m \in Message /\ m.turn = messages[Last].turn /\ m.role = messages[Last].role
          /\ m.text = messages[Last].text /\ m.from = messages[Last].from
      <4>1. messages[Last].views + 1 \in Nat
        BY <1>3 DEF Message
      <4> QED BY <1>3, <4>1, BubbleGetsCard
    <3>3. m.text > 0 => m.role = "assistant" /\ m.from = m.turn
      BY <1>3, <3>2, LenProperties DEF PanelInv, OwnText
    <3> HIDE DEF m
    <3> QED BY <1>2, <3>1, <3>2, <3>3, PanelRevised
  <2>3. CASE f = "tool" \/ f \in Terminal
    <3>1. messages' = messages /\ Last' = Last /\ Half' = Half
      BY <2>3 DEF ReadFrame, Terminal, Last, Half
    <3> QED BY <1>2, <1>3, <3>1 DEF PanelInv, OwnText, Paired
  <2> QED BY <2>1, <2>2, <2>3 DEF ReadFrame
<1>7. PanelTypes'
  BY <1>1, <1>5, <1>6 DEF PanelInv, PanelTypes
<1>8. LastIsLive'
  BY <1>1, <1>2, <1>5, <1>6 DEF PanelInv, LastIsLive
<1>9. InFlightIsLive' /\ Controls'
  BY <1>1, <1>2, <1>5 DEF PanelInv, InFlightIsLive, Controls
<1> QED BY <1>6, <1>7, <1>8, <1>9 DEF PanelInv

LEMMA PanelUnmounts == ASSUME PanelInv, Unmount PROVE PanelInv'
<1>1. /\ mounted' = FALSE
      /\ UNCHANGED <<draft, typed, asked, busy, toolStatus, serviceError, messages>>
      /\ Last' = Last /\ Half' = Half
  BY DEF Unmount, composer, Last, Half
<1>2. reader \in [Turn -> Reader]
  BY DEF PanelInv, PanelTypes
<1>3. Aborting = {t \in Turn : reader[t].pc \in Loops}
  BY DEF PanelInv, LastIsLive, Aborting
<1>4. /\ reader' \in [Turn -> Reader]
      /\ \A t \in Turn : reader'[t].pc \notin Loops
  BY <1>2, <1>3 DEF Unmount, Reader, Loops
<1>5. inFlight' = FALSE
  <2>1. inFlight => Aborting # {}
    BY <1>3 DEF PanelInv, InFlightIsLive
  <2>2. inFlight \in BOOLEAN
    BY DEF PanelInv, PanelTypes
  <2> QED BY <2>1, <2>2 DEF Unmount
<1>6. PanelTypes'
  BY <1>1, <1>4, <1>5 DEF PanelInv, PanelTypes
<1>7. LastIsLive' /\ InFlightIsLive' /\ Controls'
  BY <1>1, <1>4, <1>5 DEF LastIsLive, InFlightIsLive, Controls
<1>8. OwnText' /\ Paired'
  BY <1>1 DEF PanelInv, OwnText, Paired
<1> QED BY <1>6, <1>7, <1>8 DEF PanelInv

LEMMA PanelAccepted == ASSUME PanelInv, NEW t \in Turn, Accept(t) PROVE PanelInv'
<1>1. /\ reader[t].pc \in Loops /\ reader' = [reader EXCEPT ![t].pc = "reading"]
      /\ UNCHANGED <<mounted, draft, typed, asked, inFlight, busy, toolStatus, serviceError,
                     messages>>
      /\ Last' = Last /\ Half' = Half
  BY DEF Accept, composer, Loops, Last, Half
<1>2. reader \in [Turn -> Reader]
  BY DEF PanelInv, PanelTypes
<1>3. /\ reader' \in [Turn -> Reader]
      /\ \A u \in Turn : reader'[u].pc \in Loops <=> reader[u].pc \in Loops
  BY <1>1, <1>2 DEF Reader, Loops
<1>4. PanelTypes'
  BY <1>1, <1>3 DEF PanelInv, PanelTypes
<1>5. LastIsLive' /\ InFlightIsLive' /\ Controls'
  BY <1>1, <1>3 DEF PanelInv, LastIsLive, InFlightIsLive, Controls
<1>6. OwnText' /\ Paired'
  BY <1>1 DEF PanelInv, OwnText, Paired
<1> QED BY <1>4, <1>5, <1>6 DEF PanelInv

LEMMA PanelStep == ASSUME PanelInv, [Next]_vars PROVE PanelInv'
<1>1. CASE TypeIntro \/ Compose
  BY <1>1, PanelComposes
<1>2. CASE Send
  BY <1>2, PanelSends
<1>3. CASE Unmount
  BY <1>3, PanelUnmounts
<1>4. ASSUME NEW t \in Turn, Client(t) PROVE PanelInv'
  BY <1>4, PanelFails, PanelReadsFrame, PanelReadsEnd DEF Client
<1>5. ASSUME NEW t \in Turn, Accept(t) PROVE PanelInv'
  BY <1>5, PanelAccepted
<1>6. CASE UNCHANGED panel
  BY <1>6, PanelStays
<1>7. ASSUME NEW t \in Turn,
             \/ StreamToken(t) \/ CallTool(t) \/ RunTool(t) \/ Reply(t) \/ Finish(t)
             \/ ModelFails(t) \/ Cut(t) \/ Break(t)
      PROVE  UNCHANGED panel
  BY <1>7 DEF StreamToken, CallTool, RunTool, Reply, Finish, ModelFails, Cut, Break
<1>8. CASE Recycle \/ UNCHANGED vars
  <2>1. UNCHANGED panel
    BY <1>8 DEF Recycle, vars
  <2> QED BY <2>1, PanelStays
<1> QED BY <1>1, <1>2, <1>3, <1>4, <1>5, <1>6, <1>7, <1>8 DEF Next, Server

LEMMA PanelAlways == Spec => []PanelInv
<1>1. PanelInv /\ [Next]_vars => PanelInv'
  BY PanelStep
<1> QED BY PanelInit, <1>1, PTL DEF Spec

-----------------------------------------------------------------------------
(* The server: definitions and the thread *)

RunState == [pc : Running \cup {"idle", "answered", "failed", "cut"},
             rounds : 0..MaxRounds, tokens : Nat, memory : Seq(Entry)]
ServerTypes ==
  /\ link \in [Turn -> {"none", "up", "closed", "gone"}]
  /\ wire \in [Turn -> Seq(Frame)]
  /\ server \in [Turn -> RunState]
  /\ thread \in Seq(Entry)

\* No tool call but the last entry lacks its result.
OnlyLastOpen(m) ==
  \A i \in DOMAIN m : m[i].kind = "call" /\ (i = Len(m) \/ m[i + 1].kind # "result")
                        => i = Len(m)
AtTools == \A t \in Turn : server[t].pc = "tools" =>
             server[t].rounds < MaxRounds /\ OnlyLastOpen(server[t].memory)
Watched == Dangling(thread) => \E t \in Turn : server[t].pc \in {"tools", "cut"}

\* What is on a wire has a terminal frame only at its end, and only once the
\* run behind it is over.
EndsAreLast ==
  \A t \in Turn : \A i \in DOMAIN wire[t] :
    wire[t][i] \in Terminal => i = Len(wire[t]) /\ server[t].pc \in {"answered", "failed"}

ServerInv == ServerTypes /\ EndsAreLast /\ AtTools /\ Watched

LEMMA Appended ==
  ASSUME NEW m \in Seq(Entry), NEW e \in Entry
  PROVE  /\ Append(m, e) \in Seq(Entry) /\ DOMAIN m = 1..Len(m) /\ Len(m) \in Nat
         /\ DOMAIN Append(m, e) = 1..(Len(m) + 1) /\ Len(Append(m, e)) = Len(m) + 1
         /\ \A i \in 1..Len(m) : Append(m, e)[i] = m[i]
         /\ Append(m, e)[Len(m) + 1] = e
<1> QED BY AppendProperties, LenProperties

\* What is not a call leaves no call open that was not.
LEMMA NoneOpened ==
  ASSUME NEW m \in Seq(Entry), NEW e \in Entry, e.kind # "call", Dangling(Append(m, e))
  PROVE  Dangling(m)
<1> DEFINE a == Append(m, e)
<1>1. /\ DOMAIN m = 1..Len(m) /\ Len(m) \in Nat /\ DOMAIN a = 1..(Len(m) + 1)
      /\ Len(a) = Len(m) + 1 /\ a[Len(m) + 1] = e /\ \A i \in 1..Len(m) : a[i] = m[i]
  BY Appended
<1>2. PICK i \in DOMAIN a : a[i].kind = "call" /\ (i = Len(a) \/ a[i + 1].kind # "result")
  BY DEF Dangling
<1> HIDE DEF a
<1>3. i \in 1..Len(m)
  BY <1>1, <1>2
<1>4. m[i].kind = "call" /\ (i = Len(m) \/ m[i + 1].kind # "result")
  BY <1>1, <1>2, <1>3
<1> QED BY <1>1, <1>3, <1>4 DEF Dangling

LEMMA CallOpened ==
  ASSUME NEW m \in Seq(Entry), NEW e \in Entry, ~Dangling(m)
  PROVE  OnlyLastOpen(Append(m, e))
<1> DEFINE a == Append(m, e)
<1>1. /\ DOMAIN m = 1..Len(m) /\ Len(m) \in Nat /\ DOMAIN a = 1..(Len(m) + 1)
      /\ Len(a) = Len(m) + 1 /\ \A i \in 1..Len(m) : a[i] = m[i]
  BY Appended
<1> HIDE DEF a
<1>2. ASSUME NEW i \in 1..Len(m), a[i].kind = "call", a[i + 1].kind # "result" PROVE FALSE
  <2>1. i = Len(m) \/ m[i + 1].kind # "result"
    <3>1. CASE i # Len(m)
      <4>1. i + 1 \in 1..Len(m)
        BY <3>1, LenProperties
      <4> QED BY <1>1, <1>2, <4>1
    <3> QED BY <3>1
  <2> QED BY <1>1, <1>2, <2>1 DEF Dangling
<1>3. OnlyLastOpen(a)
  BY <1>1, <1>2 DEF OnlyLastOpen
<1> QED BY <1>3 DEF a

LEMMA ResultCloses ==
  ASSUME NEW m \in Seq(Entry), NEW e \in Entry, e.kind = "result", OnlyLastOpen(m)
  PROVE  ~Dangling(Append(m, e))
<1> DEFINE a == Append(m, e)
<1>1. /\ DOMAIN m = 1..Len(m) /\ Len(m) \in Nat /\ DOMAIN a = 1..(Len(m) + 1)
      /\ Len(a) = Len(m) + 1 /\ a[Len(m) + 1] = e /\ \A i \in 1..Len(m) : a[i] = m[i]
  BY Appended
<1> HIDE DEF a
<1>2. ASSUME NEW i \in DOMAIN a, a[i].kind = "call", i = Len(a) \/ a[i + 1].kind # "result"
      PROVE  FALSE
  <2>1. i \in 1..Len(m)
    BY <1>1, <1>2
  <2>2. i # Len(m) /\ m[i].kind = "call" /\ a[i + 1].kind # "result"
    BY <1>1, <1>2, <2>1
  <2>3. m[i + 1].kind # "result"
    BY <1>1, <2>1, <2>2
  <2> QED BY <1>1, <2>1, <2>2, <2>3 DEF OnlyLastOpen
<1>3. ~Dangling(a)
  BY <1>2 DEF Dangling
<1> QED BY <1>3 DEF a

-----------------------------------------------------------------------------
(* The server: steps *)

LEMMA ServerInit == Init => ServerInv
<1> SUFFICES ASSUME Init PROVE ServerInv
  OBVIOUS
<1>1. wire \in [Turn -> Seq(Frame)] /\ thread \in Seq(Entry) /\ <<>> \in Seq(Entry)
  BY EmptySeq DEF Init
<1>2. server \in [Turn -> RunState]
  BY <1>1, ChatAssumption DEF Init, RunState
<1>3. ServerTypes
  BY <1>1, <1>2 DEF Init, ServerTypes
<1>4. EndsAreLast
  BY DEF Init, EndsAreLast
<1>5. AtTools
  BY DEF Init, AtTools
<1>6. Watched
  BY DEF Init, Watched, Dangling
<1> QED BY <1>3, <1>4, <1>5, <1>6 DEF ServerInv

LEMMA ServerStays == ASSUME ServerInv, UNCHANGED <<link, wire, backend>> PROVE ServerInv'
<1> QED BY DEF backend, ServerInv, ServerTypes, EndsAreLast, AtTools, Watched

\* A run goes on; what it sent is settled separately.
LEMMA RunMoves ==
  ASSUME ServerInv, NEW t \in Turn, NEW r \in RunState, server' = [server EXCEPT ![t] = r],
         link' \in [Turn -> {"none", "up", "closed", "gone"}],
         wire' \in [Turn -> Seq(Frame)], EndsAreLast', thread' \in Seq(Entry),
         r.pc = "tools" => r.rounds < MaxRounds /\ OnlyLastOpen(r.memory),
         \/ ~Dangling(thread')
         \/ r.pc \in {"tools", "cut"}
         \/ server[t].pc \notin {"tools", "cut"} /\ (Dangling(thread') => Dangling(thread))
  PROVE  ServerInv'
<1>1. /\ server \in [Turn -> RunState] /\ server'[t] = r
      /\ \A u \in Turn : u # t => server'[u] = server[u]
  BY DEF ServerInv, ServerTypes
<1>2. ServerTypes'
  BY <1>1 DEF ServerTypes
<1>3. AtTools'
  BY <1>1 DEF ServerInv, AtTools
<1>4. Watched'
  BY <1>1 DEF ServerInv, Watched
<1> QED BY <1>2, <1>3, <1>4 DEF ServerInv

\* A run that is going sends frames, of which only the last may be terminal.
LEMMA Emitted ==
  ASSUME ServerInv, NEW t \in Turn, NEW frames \in Seq(Frame), Emit(t, frames),
         server[t].pc \in Running,
         \A u \in Turn : u # t => server'[u] = server[u],
         \A i \in 1..Len(frames) : frames[i] \in Terminal =>
           i = Len(frames) /\ server'[t].pc \in {"answered", "failed"}
  PROVE  wire' \in [Turn -> Seq(Frame)] /\ EndsAreLast'
<1>1. wire \in [Turn -> Seq(Frame)] /\ wire[t] \in Seq(Frame)
  BY DEF ServerInv, ServerTypes
<1>2. \A i \in DOMAIN wire[t] : wire[t][i] \notin Terminal
  BY DEF ServerInv, EndsAreLast, Running
<1> DEFINE w == IF link[t] = "up" THEN wire[t] \o frames ELSE wire[t]
<1>3. wire' = [wire EXCEPT ![t] = w]
  BY DEF Emit
<1>4. w \in Seq(Frame) /\ \A i \in DOMAIN w : w[i] \in Terminal =>
                            i = Len(w) /\ server'[t].pc \in {"answered", "failed"}
  <2>1. CASE link[t] = "up"
    <3> DEFINE c == wire[t] \o frames
    <3>1. /\ c \in Seq(Frame) /\ Len(c) = Len(wire[t]) + Len(frames)
          /\ \A i \in 1..(Len(wire[t]) + Len(frames)) :
               c[i] = IF i <= Len(wire[t]) THEN wire[t][i] ELSE frames[i - Len(wire[t])]
      BY <1>1, ConcatProperties
    <3>2. /\ Len(wire[t]) \in Nat /\ Len(frames) \in Nat /\ DOMAIN wire[t] = 1..Len(wire[t])
          /\ DOMAIN c = 1..(Len(wire[t]) + Len(frames))
      BY <1>1, <3>1, LenProperties
    <3> HIDE DEF c
    <3>3. ASSUME NEW i \in DOMAIN c, c[i] \in Terminal
          PROVE  i = Len(c) /\ server'[t].pc \in {"answered", "failed"}
      <4>1. ~(i <= Len(wire[t]))
        BY <1>2, <3>1, <3>2, <3>3
      <4>2. /\ i - Len(wire[t]) \in 1..Len(frames)
            /\ frames[i - Len(wire[t])] \in Terminal
        BY <3>1, <3>2, <3>3, <4>1
      <4>3. /\ i - Len(wire[t]) = Len(frames)
            /\ server'[t].pc \in {"answered", "failed"}
        BY <4>2
      <4> QED BY <3>1, <3>2, <4>3
    <3>4. w = c
      BY <2>1 DEF c
    <3> QED BY <3>1, <3>3, <3>4
  <2>2. CASE link[t] # "up"
    BY <1>1, <1>2, <2>2
  <2> QED BY <2>1, <2>2
<1> HIDE DEF w
<1>5. wire'[t] = w /\ \A u \in Turn : u # t => wire'[u] = wire[u]
  BY <1>1, <1>3
<1>6. wire' \in [Turn -> Seq(Frame)]
  BY <1>1, <1>3, <1>4
<1>7. EndsAreLast'
  <2> SUFFICES ASSUME NEW u \in Turn, NEW i \in DOMAIN wire'[u], wire'[u][i] \in Terminal
               PROVE  i = Len(wire'[u]) /\ server'[u].pc \in {"answered", "failed"}
    BY DEF EndsAreLast
  <2>1. CASE u = t
    BY <1>4, <1>5, <2>1
  <2>2. CASE u # t
    BY <1>5, <2>2 DEF ServerInv, EndsAreLast
  <2> QED BY <2>1, <2>2
<1> QED BY <1>6, <1>7

\* A run is somewhere else, with wires as they are, and has sent nothing that
\* binds it.
LEMMA Silent ==
  ASSUME ServerInv, NEW t \in Turn, UNCHANGED wire,
         server[t].pc \notin {"answered", "failed"},
         \A u \in Turn : u # t => server'[u] = server[u]
  PROVE  wire' \in [Turn -> Seq(Frame)] /\ EndsAreLast'
<1>1. \A i \in DOMAIN wire[t] : wire[t][i] \notin Terminal
  BY DEF ServerInv, EndsAreLast
<1> QED BY <1>1 DEF ServerInv, ServerTypes, EndsAreLast

LEMMA Closed ==
  ASSUME ServerInv, NEW t \in Turn, Close(t)
  PROVE  link' \in [Turn -> {"none", "up", "closed", "gone"}]
<1> QED BY DEF Close, ServerInv, ServerTypes

MoreTokens(x) == [x EXCEPT !.tokens = x.tokens + 1]
ToolAnswered(x, m) == [x EXCEPT !.pc = "model", !.memory = m, !.rounds = x.rounds + 1]
LEMMA RunStates ==
  ASSUME NEW x \in RunState
  PROVE  /\ MoreTokens(x) \in RunState /\ MoreTokens(x).pc = x.pc
         /\ \A m \in Seq(Entry) : x.rounds < MaxRounds =>
              ToolAnswered(x, m) \in RunState /\ ToolAnswered(x, m).pc = "model"
<1>1. x.tokens + 1 \in Nat
  BY DEF RunState
<1>2. MoreTokens(x) \in RunState /\ MoreTokens(x).pc = x.pc
  BY <1>1 DEF MoreTokens, RunState
<1>3. ASSUME NEW m \in Seq(Entry), x.rounds < MaxRounds
      PROVE  ToolAnswered(x, m) \in RunState /\ ToolAnswered(x, m).pc = "model"
  <2>1. x.rounds + 1 \in 0..MaxRounds
    BY <1>3, ChatAssumption DEF RunState
  <2> QED BY <1>3, <2>1 DEF ToolAnswered, RunState, Running
<1> QED BY <1>2, <1>3

Moved(t, pc, m) == [server[t] EXCEPT !.pc = pc, !.memory = m]
Added(t, base, kind) == Append(base, [turn |-> t, kind |-> kind])

LEMMA CheckpointTaken ==
  ASSUME ServerInv, NEW t \in Turn, NEW base \in Seq(Entry),
         NEW kind \in {"human", "call", "reply"}, NEW pc \in Running, Checkpoint(t, base, kind, pc)
  PROVE  /\ [turn |-> t, kind |-> kind] \in Entry /\ Added(t, base, kind) \in Seq(Entry)
         /\ server' = [server EXCEPT ![t] = Moved(t, pc, Added(t, base, kind))]
         /\ \A u \in Turn : u # t => server'[u] = server[u]
         /\ thread' = Added(t, base, kind)
         /\ Moved(t, pc, Added(t, base, kind)) \in RunState
         /\ Moved(t, pc, Added(t, base, kind)).pc = pc
         /\ Moved(t, pc, Added(t, base, kind)).rounds = server[t].rounds
         /\ Moved(t, pc, Added(t, base, kind)).memory = Added(t, base, kind)
<1>1. [turn |-> t, kind |-> kind] \in Entry
  BY DEF Entry
<1>2. Added(t, base, kind) \in Seq(Entry)
  BY <1>1, Appended DEF Added
<1>3. server \in [Turn -> RunState] /\ server[t] \in RunState
  BY DEF ServerInv, ServerTypes
<1> DEFINE m == Added(t, base, kind)
<1>4. /\ server' = [server EXCEPT ![t].pc = pc, ![t].memory = m] /\ thread' = m
  BY DEF Checkpoint, Added
<1> HIDE DEF m
<1>5. server' = [server EXCEPT ![t] = Moved(t, pc, m)]
  BY <1>3, <1>4 DEF Moved
<1>6. /\ Moved(t, pc, m) \in RunState /\ Moved(t, pc, m).pc = pc
      /\ Moved(t, pc, m).rounds = server[t].rounds /\ Moved(t, pc, m).memory = m
  BY <1>2, <1>3 DEF Moved, RunState, Running, m
<1>7. \A u \in Turn : u # t => server'[u] = server[u]
  BY <1>3, <1>5
<1> QED BY <1>1, <1>2, <1>4, <1>5, <1>6, <1>7 DEF m

LEMMA ServerAccepts == ASSUME ServerInv, NEW t \in Turn, Accept(t) PROVE ServerInv'
<1> DEFINE r == Moved(t, "model", Added(t, thread, "human"))
<1>1. /\ server[t].pc = "idle" /\ link' = [link EXCEPT ![t] = "up"] /\ UNCHANGED wire
      /\ Checkpoint(t, thread, "human", "model") /\ thread \in Seq(Entry)
  BY DEF Accept, ServerInv, ServerTypes
<1>2. /\ r \in RunState /\ server' = [server EXCEPT ![t] = r] /\ r.pc = "model"
      /\ \A u \in Turn : u # t => server'[u] = server[u]
      /\ thread' = Added(t, thread, "human") /\ thread' \in Seq(Entry)
      /\ [turn |-> t, kind |-> "human"] \in Entry
  BY <1>1, CheckpointTaken DEF Running
<1> HIDE DEF r
<1>3. link' \in [Turn -> {"none", "up", "closed", "gone"}]
  BY <1>1 DEF ServerInv, ServerTypes
<1>4. wire' \in [Turn -> Seq(Frame)] /\ EndsAreLast'
  BY <1>1, <1>2, Silent
<1>5. Dangling(thread') => Dangling(thread)
  BY <1>1, <1>2, NoneOpened DEF Added
<1> QED BY <1>1, <1>2, <1>3, <1>4, <1>5, RunMoves

LEMMA ServerStreams == ASSUME ServerInv, NEW t \in Turn, StreamToken(t) PROVE ServerInv'
<1> DEFINE r == MoreTokens(server[t])
<1>1. /\ server[t].pc = "model" /\ Emit(t, <<"token">>) /\ UNCHANGED <<link, thread>>
      /\ server \in [Turn -> RunState] /\ server[t] \in RunState
      /\ link \in [Turn -> {"none", "up", "closed", "gone"}] /\ thread \in Seq(Entry)
  BY DEF StreamToken, Thinking, ServerInv, ServerTypes
<1>2. server' = [server EXCEPT ![t] = r]
  BY <1>1 DEF StreamToken, MoreTokens
<1>3. r \in RunState /\ r.pc = "model"
  BY <1>1, RunStates
<1> HIDE DEF r
<1>4. \A u \in Turn : u # t => server'[u] = server[u]
  BY <1>1, <1>2
<1>5. <<"token">> \in Seq(Frame) /\ \A i \in 1..Len(<<"token">>) : <<"token">>[i] \notin Terminal
  BY DEF Frame, Terminal
<1>6. wire' \in [Turn -> Seq(Frame)] /\ EndsAreLast'
  BY <1>1, <1>4, <1>5, Emitted DEF Running
<1> QED BY <1>1, <1>2, <1>3, <1>6, RunMoves

LEMMA ServerCallsTool == ASSUME ServerInv, NEW t \in Turn, CallTool(t) PROVE ServerInv'
<1> DEFINE m == server[t].memory
           r == Moved(t, "tools", Added(t, m, "call"))
<1>1. /\ server[t].pc = "model" /\ ~Dangling(m) /\ server[t].rounds < MaxRounds
      /\ Checkpoint(t, m, "call", "tools") /\ UNCHANGED <<link, wire>> /\ m \in Seq(Entry)
      /\ link \in [Turn -> {"none", "up", "closed", "gone"}]
  BY DEF CallTool, Thinking, ServerInv, ServerTypes, RunState
<1> HIDE DEF m
<1>2. /\ r \in RunState /\ server' = [server EXCEPT ![t] = r] /\ r.pc = "tools"
      /\ \A u \in Turn : u # t => server'[u] = server[u]
      /\ r.rounds = server[t].rounds /\ r.memory = Added(t, m, "call")
      /\ thread' = Added(t, m, "call") /\ thread' \in Seq(Entry)
      /\ [turn |-> t, kind |-> "call"] \in Entry
  BY <1>1, CheckpointTaken DEF Running
<1> HIDE DEF r
<1>3. wire' \in [Turn -> Seq(Frame)] /\ EndsAreLast'
  BY <1>1, <1>2, Silent
<1>4. OnlyLastOpen(r.memory)
  BY <1>1, <1>2, CallOpened DEF Added
<1> QED BY <1>1, <1>2, <1>3, <1>4, RunMoves

LEMMA ToolFramesFit ==
  ASSUME NEW tool, NEW answers
  PROVE  /\ ToolFrames(tool, answers) \in Seq(Frame)
         /\ \A i \in 1..Len(ToolFrames(tool, answers)) :
              ToolFrames(tool, answers)[i] \in {"tool", "card"}
<1> DEFINE card == IF answers /\ tool \in CardTools THEN <<"card">> ELSE <<>>
           frames == ToolFrames(tool, answers)
<1>1. card = <<"card">> \/ card = <<>>
  OBVIOUS
<1> HIDE DEF card
<1>2. /\ card \in Seq(Frame) /\ Len(card) \in Nat /\ \A i \in 1..Len(card) : card[i] = "card"
      /\ <<"tool">> \in Seq(Frame) /\ Len(<<"tool">>) = 1 /\ <<"tool">>[1] = "tool"
  <2>1. "card" \in Frame /\ "tool" \in Frame
    BY DEF Frame
  <2>2. <<"tool">> \in Seq(Frame) /\ Len(<<"tool">>) = 1 /\ <<"tool">>[1] = "tool"
    BY <2>1
  <2>3. CASE card = <<"card">>
    BY <2>1, <2>2, <2>3
  <2>4. CASE card = <<>>
    BY <2>2, <2>4, EmptySeq
  <2> QED BY <1>1, <2>3, <2>4
<1>3. frames = <<"tool">> \o card
  BY DEF ToolFrames, card
<1>4. /\ frames \in Seq(Frame) /\ Len(frames) = 1 + Len(card)
      /\ \A i \in 1..(1 + Len(card)) :
           frames[i] = IF i <= 1 THEN <<"tool">>[i] ELSE card[i - 1]
  BY <1>2, <1>3, ConcatProperties
<1> HIDE DEF frames
<1>5. \A i \in 1..Len(frames) : frames[i] \in {"tool", "card"}
  BY <1>2, <1>4
<1> QED BY <1>4, <1>5 DEF frames

LEMMA ServerRunsTool == ASSUME ServerInv, NEW t \in Turn, RunTool(t) PROVE ServerInv'
<1> DEFINE m == Added(t, server[t].memory, "result")
           r == ToolAnswered(server[t], m)
<1>1. /\ server[t].pc = "tools" /\ server[t] \in RunState /\ server[t].memory \in Seq(Entry)
      /\ server[t].rounds < MaxRounds /\ OnlyLastOpen(server[t].memory)
      /\ server \in [Turn -> RunState]
      /\ link \in [Turn -> {"none", "up", "closed", "gone"}] /\ link' = link
  BY DEF RunTool, ServerInv, ServerTypes, AtTools, RunState
<1>2. [turn |-> t, kind |-> "result"] \in Entry
  BY DEF Entry
<1>3. m \in Seq(Entry) /\ ~Dangling(m)
  BY <1>1, <1>2, Appended, ResultCloses DEF Added
<1>4. server' = [server EXCEPT ![t] = r] /\ thread' = m
  <2>1. /\ server' = [server EXCEPT ![t].pc = "model", ![t].memory = m, ![t].rounds = @ + 1]
        /\ thread' = m
    BY DEF RunTool, Added
  <2> HIDE DEF m
  <2> QED BY <1>1, <2>1 DEF ToolAnswered
<1> HIDE DEF m
<1>5. r \in RunState /\ r.pc = "model"
  BY <1>1, <1>3, RunStates
<1> HIDE DEF r
<1>6. \A u \in Turn : u # t => server'[u] = server[u]
  BY <1>1, <1>4
<1>7. PICK tool \in Tools, answers \in BOOLEAN : Emit(t, ToolFrames(tool, answers))
  BY DEF RunTool
<1>8. wire' \in [Turn -> Seq(Frame)] /\ EndsAreLast'
  <2> DEFINE v == ToolFrames(tool, answers)
  <2>1. v \in Seq(Frame) /\ \A i \in 1..Len(v) : v[i] \notin Terminal
    BY ToolFramesFit DEF Terminal
  <2>2. Emit(t, v)
    BY <1>7
  <2> HIDE DEF v
  <2> QED BY <1>1, <1>6, <2>1, <2>2, Emitted DEF Running
<1> QED BY <1>1, <1>3, <1>4, <1>5, <1>8, RunMoves

LEMMA ServerReplies == ASSUME ServerInv, NEW t \in Turn, Reply(t) PROVE ServerInv'
<1> DEFINE m == server[t].memory
           r == Moved(t, "ending", Added(t, m, "reply"))
<1>1. /\ server[t].pc = "model" /\ ~Dangling(m) /\ m \in Seq(Entry)
      /\ Checkpoint(t, m, "reply", "ending") /\ UNCHANGED <<link, wire>>
      /\ link \in [Turn -> {"none", "up", "closed", "gone"}]
  BY DEF Reply, Thinking, ServerInv, ServerTypes, RunState
<1> HIDE DEF m
<1>2. /\ r \in RunState /\ server' = [server EXCEPT ![t] = r] /\ r.pc = "ending"
      /\ \A u \in Turn : u # t => server'[u] = server[u]
      /\ thread' = Added(t, m, "reply") /\ thread' \in Seq(Entry)
      /\ [turn |-> t, kind |-> "reply"] \in Entry
  BY <1>1, CheckpointTaken DEF Running
<1> HIDE DEF r
<1>3. wire' \in [Turn -> Seq(Frame)] /\ EndsAreLast'
  BY <1>1, <1>2, Silent
<1>4. ~Dangling(thread')
  BY <1>1, <1>2, NoneOpened DEF Added
<1> QED BY <1>1, <1>2, <1>3, <1>4, RunMoves

LEMMA ServerEnds ==
  ASSUME ServerInv, NEW t \in Turn, Finish(t) \/ ModelFails(t)
  PROVE  ServerInv'
<1>1. PICK pc \in {"answered", "failed"},
          frames \in {<<"end">>, <<"error">>, <<"token", "error">>} :
        server' = [server EXCEPT ![t].pc = pc] /\ Emit(t, frames)
  BY DEF Finish, ModelFails, FailureFrames
<1>2. /\ server[t].pc \in {"model", "ending"} /\ Close(t) /\ thread' = thread
      /\ server \in [Turn -> RunState] /\ server[t] \in RunState /\ thread \in Seq(Entry)
  BY DEF Finish, ModelFails, ServerInv, ServerTypes
<1> DEFINE r == [server[t] EXCEPT !.pc = pc]
<1>3. server' = [server EXCEPT ![t] = r]
  BY <1>1
<1>4. r \in RunState /\ r.pc = pc
  BY <1>2 DEF RunState
<1> HIDE DEF r
<1>5. server'[t].pc \in {"answered", "failed"} /\ \A u \in Turn : u # t => server'[u] = server[u]
  BY <1>2, <1>3, <1>4
<1>6. frames \in Seq(Frame) /\ \A i \in 1..Len(frames) : frames[i] \in Terminal => i = Len(frames)
  <2>1. CASE frames = <<"end">> \/ frames = <<"error">>
    <3>1. frames \in Seq(Frame) /\ Len(frames) = 1
      <4>1. "end" \in Frame /\ "error" \in Frame
        BY DEF Frame
      <4>2. CASE frames = <<"end">>
        BY <4>1, <4>2
      <4>3. CASE frames = <<"error">>
        BY <4>1, <4>3
      <4> QED BY <2>1, <4>2, <4>3
    <3> QED BY <3>1
  <2>2. CASE frames = <<"token", "error">>
    BY <2>2 DEF Frame, Terminal
  <2> QED BY <2>1, <2>2
<1>7. wire' \in [Turn -> Seq(Frame)] /\ EndsAreLast'
  BY <1>1, <1>2, <1>5, <1>6, Emitted DEF Running
<1> QED BY <1>2, <1>3, <1>4, <1>7, Closed, RunMoves

\* The instance or the connection is gone.
LEMMA ServerCut == ASSUME ServerInv, NEW t \in Turn, Cut(t) PROVE ServerInv'
<1> DEFINE r == [server[t] EXCEPT !.pc = "cut"]
<1>1. /\ server[t].pc \in Running /\ UNCHANGED <<link, wire, thread>>
      /\ server \in [Turn -> RunState] /\ server[t] \in RunState
      /\ link \in [Turn -> {"none", "up", "closed", "gone"}] /\ thread \in Seq(Entry)
      /\ server' = [server EXCEPT ![t] = r]
  BY DEF Cut, ServerInv, ServerTypes
<1>2. r \in RunState /\ r.pc = "cut"
  BY <1>1 DEF RunState
<1> HIDE DEF r
<1>3. \A u \in Turn : u # t => server'[u] = server[u]
  BY <1>1
<1>4. wire' \in [Turn -> Seq(Frame)] /\ EndsAreLast'
  BY <1>1, <1>3, Silent DEF Running
<1> QED BY <1>1, <1>2, <1>4, RunMoves

LEMMA ServerRecycled == ASSUME ServerInv, Recycle PROVE ServerInv'
<1>1. /\ thread' = <<>> /\ UNCHANGED wire
      /\ server' = [t \in Turn |-> IF server[t].pc \in Running
                                   THEN [server[t] EXCEPT !.pc = "cut"] ELSE server[t]]
      /\ link' = [t \in Turn |-> IF server[t].pc \in Running THEN "gone" ELSE link[t]]
  BY DEF Recycle
<1>2. /\ server \in [Turn -> RunState] /\ wire \in [Turn -> Seq(Frame)]
      /\ link \in [Turn -> {"none", "up", "closed", "gone"}]
  BY DEF ServerInv, ServerTypes
<1>3. ASSUME NEW t \in Turn
      PROVE  /\ server'[t] \in RunState
             /\ server'[t].pc = "tools" => FALSE
             /\ server[t].pc \notin Running => server'[t] = server[t]
  <2>1. CASE server[t].pc \in Running
    <3>1. server'[t] = [server[t] EXCEPT !.pc = "cut"]
      BY <1>1, <2>1
    <3> QED BY <1>2, <2>1, <3>1 DEF RunState
  <2>2. CASE server[t].pc \notin Running
    <3>1. server'[t] = server[t]
      BY <1>1, <2>2
    <3> QED BY <1>2, <2>2, <3>1 DEF Running
  <2> QED BY <2>1, <2>2
<1>4. server' \in [Turn -> RunState] /\ link' \in [Turn -> {"none", "up", "closed", "gone"}]
  BY <1>1, <1>2, <1>3
<1>5. ServerTypes'
  BY <1>1, <1>2, <1>4, EmptySeq DEF ServerTypes
<1>6. EndsAreLast'
  BY <1>1, <1>3 DEF ServerInv, EndsAreLast, Running
<1>7. AtTools' /\ Watched'
  <2>1. \A t \in Turn : server'[t].pc # "tools"
    BY <1>3
  <2>2. AtTools'
    BY <2>1 DEF AtTools
  <2>3. DOMAIN thread' = {}
    BY <1>1
  <2>4. Watched'
    BY <2>3 DEF Watched, Dangling
  <2> QED BY <2>2, <2>4
<1> QED BY <1>5, <1>6, <1>7 DEF ServerInv

\* The other end of a wire: the reader takes a frame, or the connection goes.
LEMMA ServerRead == ASSUME ServerInv, NEW t \in Turn, ReadFrame(t) PROVE ServerInv'
<1>1. /\ wire[t] # <<>> /\ wire' = [wire EXCEPT ![t] = Tail(wire[t])]
      /\ UNCHANGED <<link, server, thread>>
  BY DEF ReadFrame, backend
<1>2. wire \in [Turn -> Seq(Frame)] /\ wire[t] \in Seq(Frame)
  BY DEF ServerInv, ServerTypes
<1> DEFINE w == Tail(wire[t])
<1>3. /\ w \in Seq(Frame) /\ Len(w) = Len(wire[t]) - 1 /\ DOMAIN w = 1..Len(w)
      /\ \A i \in 1..Len(w) : w[i] = wire[t][i + 1]
      /\ Len(wire[t]) \in Nat /\ DOMAIN wire[t] = 1..Len(wire[t])
  BY <1>1, <1>2, HeadTailProperties, LenProperties
<1>4. wire' = [wire EXCEPT ![t] = w]
  BY <1>1
<1> HIDE DEF w
<1>5. ASSUME NEW i \in DOMAIN w, w[i] \in Terminal
      PROVE  i = Len(w) /\ server[t].pc \in {"answered", "failed"}
  <2>1. i + 1 \in DOMAIN wire[t] /\ wire[t][i + 1] \in Terminal
    BY <1>3, <1>5
  <2>2. i + 1 = Len(wire[t]) /\ server[t].pc \in {"answered", "failed"}
    BY <2>1 DEF ServerInv, EndsAreLast
  <2> QED BY <1>3, <1>5, <2>2
<1>6. EndsAreLast'
  BY <1>1, <1>2, <1>4, <1>5 DEF ServerInv, EndsAreLast
<1> QED BY <1>1, <1>2, <1>3, <1>4, <1>6 DEF ServerInv, ServerTypes, AtTools, Watched

LEMMA ServerLoses ==
  ASSUME ServerInv, Unmount \/ \E t \in Turn : Break(t)
  PROVE  ServerInv'
<1>1. UNCHANGED <<server, thread>>
  BY DEF Unmount, Break, backend
<1>2. link' \in [Turn -> {"none", "up", "closed", "gone"}]
  BY DEF Unmount, Break, ServerInv, ServerTypes
<1>3. \/ wire' = wire
      \/ \E t \in Turn : wire' = [wire EXCEPT ![t] = <<>>]
  BY DEF Unmount, Break
<1>4. wire \in [Turn -> Seq(Frame)]
  BY DEF ServerInv, ServerTypes
<1>5. \A u \in Turn : wire'[u] = wire[u] \/ wire'[u] = <<>>
  BY <1>3, <1>4
<1>6. wire' \in [Turn -> Seq(Frame)]
  BY <1>3, <1>4, EmptySeq
<1>7. EndsAreLast'
  BY <1>1, <1>5 DEF ServerInv, EndsAreLast
<1> QED BY <1>1, <1>2, <1>6, <1>7 DEF ServerInv, ServerTypes, AtTools, Watched

LEMMA ServerStep == ASSUME ServerInv, [Next]_vars PROVE ServerInv'
<1>1. ASSUME NEW t \in Turn, Server(t) PROVE ServerInv'
  BY <1>1, ServerAccepts, ServerStreams, ServerCallsTool, ServerRunsTool, ServerReplies,
     ServerEnds, ServerCut DEF Server
<1>2. ASSUME NEW t \in Turn, Refused(t) \/ ReadFails(t) \/ ReadEnd(t)
      PROVE  UNCHANGED <<link, wire, backend>>
  BY <1>2 DEF Refused, ReadFails, ReadEnd
<1>3. ASSUME NEW t \in Turn, Client(t) PROVE ServerInv'
  BY <1>2, <1>3, ServerStays, ServerRead DEF Client
<1>4. CASE TypeIntro \/ Compose \/ Send \/ UNCHANGED vars
  <2>1. UNCHANGED <<link, wire, backend>>
    BY <1>4 DEF TypeIntro, Compose, Send, vars
  <2> QED BY <2>1, ServerStays
<1> QED BY <1>1, <1>3, <1>4, ServerLoses, ServerRecycled DEF Next

LEMMA ServerAlways == Spec => []ServerInv
<1>1. ServerInv /\ [Next]_vars => ServerInv'
  BY ServerStep
<1> QED BY ServerInit, <1>1, PTL DEF Spec

-----------------------------------------------------------------------------
(* The outcome of a turn: definitions, and counting text on the wire *)

Tokens(w) == Cardinality({i \in DOMAIN w : w[i] = "token"})

\* A turn not accepted has no run; one that is read gets what the run sent:
\* text read and text on the wire are the text streamed, and a failed run's
\* error is on its way or noted.
Fresh(r, w, s) ==
  r.text = 0 /\ ~r.endedWithError /\ w = <<>> /\ s.pc = "idle" /\ s.tokens = 0
Whole(r, w, s) ==
  /\ ~r.endedWithError /\ r.text + Tokens(w) = s.tokens
  /\ \A i \in 1..Len(w) : w[i] # "error"
Blamed(r, w) == IF w = <<>> THEN r.endedWithError ELSE w[Len(w)] = "error"
Streams(r, l, w, s) ==
  \/ l = "up" /\ s.pc \in Running /\ Whole(r, w, s)
  \/ l = "closed" /\ s.pc = "answered" /\ Whole(r, w, s)
  \/ l = "closed" /\ s.pc = "failed" /\ Blamed(r, w)
TurnOK(r, l, w, s) ==
  /\ r.pc \in {"none", "connecting"} => Fresh(r, w, s)
  /\ r.pc = "reading" /\ l # "gone" => Streams(r, l, w, s)
TurnsOK == \A t \in Turn : TurnOK(reader[t], link[t], wire[t], server[t])

LiveBubble ==
  \A t \in Turn : reader[t].pc \in Loops =>
    /\ messages[Last].text = reader[t].text /\ ~messages[Last].errored
    /\ \A i \in 1..Last : messages[i].role = "assistant" /\ messages[i].turn = t => i = Last
SoFar ==
  /\ \A t \in Turn : t > asked => reader[t].pc = "none"
  /\ \A i \in 1..Last : messages[i].turn <= asked

Bubbles == LiveBubble /\ SoFar /\ OutcomeShown

LEMMA TokensConcat ==
  ASSUME NEW v \in Seq(Frame), NEW w \in Seq(Frame)
  PROVE  Tokens(v) \in Nat /\ Tokens(v \o w) = Tokens(v) + Tokens(w)
<1> DEFINE At(x) == {i \in DOMAIN x : x[i] = "token"}
           m == Len(v)
           n == Len(w)
           c == v \o w
           shifted == {i \in (m + 1)..(m + n) : c[i] = "token"}
<1>1. m \in Nat /\ n \in Nat /\ DOMAIN v = 1..m /\ DOMAIN w = 1..n
  BY LenProperties
<1>2. /\ c \in Seq(Frame) /\ Len(c) = m + n
      /\ \A i \in 1..(m + n) : c[i] = IF i <= m THEN v[i] ELSE w[i - m]
  BY ConcatProperties
<1>3. DOMAIN c = 1..(m + n)
  BY <1>2, LenProperties
<1> HIDE DEF m, n, c
<1>4. IsFiniteSet(At(v)) /\ IsFiniteSet(At(w)) /\ Cardinality(At(v)) \in Nat
  <2>1. IsFiniteSet(1..m) /\ IsFiniteSet(1..n)
    BY <1>1, FS_Interval
  <2>2. At(v) \in SUBSET (1..m) /\ At(w) \in SUBSET (1..n)
    BY <1>1
  <2>3. IsFiniteSet(At(v)) /\ IsFiniteSet(At(w))
    BY <2>1, <2>2, FS_Subset
  <2> QED BY <2>3, FS_CardinalityType
<1>5. At(c) = At(v) \cup shifted /\ At(v) \cap shifted = {}
  BY <1>1, <1>2, <1>3
<1>6. ExistsBijection(At(w), shifted)
  <2> DEFINE f == [i \in At(w) |-> i + m]
  <2>1. \A i \in At(w) : i + m \in shifted
    BY <1>1, <1>2
  <2>2. \A j \in shifted : j - m \in At(w) /\ (j - m) + m = j
    BY <1>1, <1>2
  <2>3. \A i, j \in At(w) : i + m = j + m => i = j
    BY <1>1
  <2> HIDE DEF shifted, At
  <2>4. f \in Injection(At(w), shifted)
    BY <2>1, <2>3 DEF Injection, IsInjective
  <2>5. f \in Surjection(At(w), shifted)
    BY <2>1, <2>2 DEF Surjection
  <2> QED BY <2>4, <2>5 DEF ExistsBijection, Bijection
<1> HIDE DEF shifted, At
<1>7. IsFiniteSet(shifted) /\ Cardinality(shifted) = Cardinality(At(w))
  BY <1>4, <1>6, FS_Bijection
<1>8. Cardinality(At(c)) = Cardinality(At(v)) + Cardinality(shifted)
  <2>1. Cardinality(At(v) \cup shifted) =
          Cardinality(At(v)) + Cardinality(shifted) - Cardinality(At(v) \cap shifted)
    BY <1>4, <1>7, FS_Union
  <2>2. Cardinality(At(v) \cap shifted) = 0 /\ Cardinality(shifted) \in Nat
    BY <1>5, <1>7, FS_EmptySet, FS_CardinalityType
  <2> QED BY <1>4, <1>5, <2>1, <2>2
<1> QED BY <1>4, <1>7, <1>8 DEF Tokens, At, c

LEMMA TokensFew ==
  /\ \A w \in Seq(Frame) : (\A i \in 1..Len(w) : w[i] # "token") => Tokens(w) = 0
  /\ \A f \in Frame : Tokens(<<f>>) = IF f = "token" THEN 1 ELSE 0
<1>1. ASSUME NEW w \in Seq(Frame), \A i \in 1..Len(w) : w[i] # "token"
      PROVE  Tokens(w) = 0
  <2>1. {i \in DOMAIN w : w[i] = "token"} = {}
    BY <1>1, LenProperties
  <2> QED BY <2>1, FS_EmptySet DEF Tokens
<1>2. ASSUME NEW f \in Frame PROVE Tokens(<<f>>) = IF f = "token" THEN 1 ELSE 0
  <2>1. DOMAIN <<f>> = {1} /\ <<f>>[1] = f
    OBVIOUS
  <2>2. {i \in DOMAIN <<f>> : <<f>>[i] = "token"} = IF f = "token" THEN {1} ELSE {}
    BY <2>1
  <2>3. Cardinality({1}) = 1 /\ Cardinality({}) = 0
    BY FS_EmptySet, FS_Singleton
  <2> QED BY <2>2, <2>3 DEF Tokens
<1> QED BY <1>1, <1>2

LEMMA TokensTail ==
  ASSUME NEW w \in Seq(Frame), w # <<>>
  PROVE  /\ Head(w) \in Frame /\ Tail(w) \in Seq(Frame) /\ Tokens(Tail(w)) \in Nat
         /\ Tokens(w) = Tokens(Tail(w)) + IF Head(w) = "token" THEN 1 ELSE 0
<1>1. Head(w) \in Frame /\ Tail(w) \in Seq(Frame) /\ <<Head(w)>> \in Seq(Frame)
  BY HeadTailProperties
<1>2. w = <<Head(w)>> \o Tail(w)
  <2>1. Len(w) \in Nat /\ Len(w) >= 1
    BY LenProperties, EmptySeq
  <2>2. 1 \in 1..Len(w) /\ Len(w) \in 1..Len(w)
    BY <2>1
  <2>3. SubSeq(w, 1, Len(w)) = <<w[1]>> \o SubSeq(w, 2, Len(w))
    BY <2>2, SubSeqRecursiveFirst
  <2>4. SubSeq(w, 1, Len(w)) = w /\ SubSeq(w, 2, Len(w)) = Tail(w) /\ w[1] = Head(w)
    BY <2>2, TailIsSubSeq, SubSeqFull
  <2> QED BY <2>3, <2>4
<1>3. Tokens(w) = Tokens(<<Head(w)>>) + Tokens(Tail(w)) /\ Tokens(Tail(w)) \in Nat
  BY <1>1, <1>2, TokensConcat
<1> QED BY <1>1, <1>3, TokensFew

\* What a live run sends reaches the wire.
LEMMA Sent ==
  ASSUME NEW r \in Reader, NEW w \in Seq(Frame), NEW s \in RunState, s.pc \in Running,
         Streams(r, "up", w, s), NEW v \in Seq(Frame), NEW l, NEW q \in RunState,
         \/ /\ \/ l = "up" /\ q.pc \in Running
               \/ l = "closed" /\ q.pc = "answered"
            /\ q.tokens = s.tokens + Tokens(v)
            /\ \A i \in 1..Len(v) : v[i] # "error"
         \/ l = "closed" /\ q.pc = "failed" /\ v # <<>> /\ v[Len(v)] = "error"
  PROVE  Streams(r, l, w \o v, q)
<1>1. Whole(r, w, s)
  BY DEF Streams, Running
<1> DEFINE c == w \o v
<1>2. /\ c \in Seq(Frame) /\ Len(c) = Len(w) + Len(v)
      /\ \A i \in 1..(Len(w) + Len(v)) : c[i] = IF i <= Len(w) THEN w[i] ELSE v[i - Len(w)]
      /\ Tokens(c) = Tokens(w) + Tokens(v) /\ Tokens(w) \in Nat /\ Tokens(v) \in Nat
  BY ConcatProperties, TokensConcat
<1>3. Len(w) \in Nat /\ Len(v) \in Nat /\ r.text \in Nat /\ s.tokens \in Nat
  BY LenProperties DEF Reader, RunState
<1> HIDE DEF c
<1>4. ASSUME q.tokens = s.tokens + Tokens(v), \A i \in 1..Len(v) : v[i] # "error"
      PROVE  Whole(r, c, q)
  <2>1. r.text + Tokens(c) = q.tokens
    BY <1>1, <1>2, <1>3, <1>4 DEF Whole
  <2>2. \A i \in 1..Len(c) : c[i] # "error"
    <3> SUFFICES ASSUME NEW i \in 1..Len(c) PROVE c[i] # "error"
      OBVIOUS
    <3>1. CASE i <= Len(w)
      BY <1>1, <1>2, <1>3, <3>1 DEF Whole
    <3>2. CASE ~(i <= Len(w))
      <4>1. i - Len(w) \in 1..Len(v)
        BY <1>2, <1>3, <3>2
      <4> QED BY <1>2, <1>4, <3>2, <4>1
    <3> QED BY <3>1, <3>2
  <2> QED BY <1>1, <2>1, <2>2 DEF Whole
<1>5. ASSUME v # <<>>, v[Len(v)] = "error" PROVE Blamed(r, c)
  <2>1. Len(v) >= 1
    BY <1>3, <1>5, EmptySeq
  <2>2. Len(c) \in 1..(Len(w) + Len(v)) /\ ~(Len(c) <= Len(w)) /\ Len(c) - Len(w) = Len(v)
    BY <1>2, <1>3, <2>1
  <2>3. c[Len(c)] = v[Len(v)] /\ c # <<>>
    BY <1>2, <2>2
  <2> QED BY <1>5, <2>3 DEF Blamed
<1> QED BY <1>4, <1>5 DEF Streams, c

\* What is read leaves the wire.
LEMMA Received ==
  ASSUME NEW r \in Reader, NEW l, NEW w \in Seq(Frame), NEW s \in RunState, w # <<>>,
         Streams(r, l, w, s), NEW q \in Reader,
         q.text = r.text + (IF Head(w) = "token" THEN 1 ELSE 0),
         q.endedWithError = (IF Head(w) \in Terminal THEN Head(w) = "error"
                             ELSE r.endedWithError)
  PROVE  Streams(q, l, Tail(w), s)
<1> DEFINE f == Head(w)
           z == Tail(w)
<1>1. /\ z \in Seq(Frame) /\ Len(z) = Len(w) - 1 /\ \A i \in 1..Len(z) : z[i] = w[i + 1]
      /\ Len(w) \in Nat /\ Len(w) >= 1 /\ f = w[1] /\ f \in Frame
  BY HeadTailProperties, LenProperties, EmptySeq
<1>2. Tokens(w) = Tokens(z) + (IF f = "token" THEN 1 ELSE 0) /\ Tokens(z) \in Nat
  BY TokensTail
<1>3. /\ q.text = r.text + (IF f = "token" THEN 1 ELSE 0) /\ r.text \in Nat
      /\ q.endedWithError = (IF f \in Terminal THEN f = "error" ELSE r.endedWithError)
      /\ s.tokens \in Nat
  BY DEF Reader, RunState
<1> HIDE DEF f, z
<1>4. ASSUME Whole(r, w, s) PROVE Whole(q, z, s)
  <2>1. q.text + Tokens(z) = s.tokens
    BY <1>2, <1>3, <1>4 DEF Whole
  <2>2. \A i \in 1..Len(z) : z[i] # "error"
    <3> SUFFICES ASSUME NEW i \in 1..Len(z) PROVE z[i] # "error"
      OBVIOUS
    <3>1. i + 1 \in 1..Len(w)
      BY <1>1
    <3> QED BY <1>1, <1>4, <3>1 DEF Whole
  <2>3. f # "error"
    <3>1. 1 \in 1..Len(w)
      BY <1>1
    <3> QED BY <1>1, <1>4, <3>1 DEF Whole
  <2>4. ~q.endedWithError
    BY <1>3, <1>4, <2>3 DEF Whole
  <2> QED BY <2>1, <2>2, <2>4 DEF Whole
<1>5. ASSUME Blamed(r, w) PROVE Blamed(q, z)
  <2>1. w[Len(w)] = "error"
    BY <1>5 DEF Blamed
  <2>2. CASE z = <<>>
    <3>1. Len(w) = 1
      BY <1>1, <2>2
    <3>2. f = "error" /\ f \in Terminal
      BY <1>1, <2>1, <3>1 DEF Terminal
    <3> QED BY <1>3, <2>2, <3>2 DEF Blamed
  <2>3. CASE z # <<>>
    <3>1. Len(z) \in 1..Len(z) /\ Len(z) + 1 = Len(w)
      BY <1>1, <2>3, EmptySeq, LenProperties
    <3> QED BY <1>1, <2>1, <2>3, <3>1 DEF Blamed
  <2> QED BY <2>2, <2>3
<1> QED BY <1>4, <1>5 DEF Streams, z

-----------------------------------------------------------------------------
(* The outcome of a turn: connections and runs *)

\* One turn moves, the others stay.
LEMMA OneTurn ==
  ASSUME TurnsOK, NEW t \in Turn, TurnOK(reader'[t], link'[t], wire'[t], server'[t]),
         \A u \in Turn : u # t => /\ reader'[u] = reader[u] /\ link'[u] = link[u]
                                  /\ wire'[u] = wire[u] /\ server'[u] = server[u]
  PROVE  TurnsOK'
<1>1. ASSUME NEW u \in Turn PROVE TurnOK(reader'[u], link'[u], wire'[u], server'[u])
  <2>1. CASE u = t
    BY <2>1
  <2>2. CASE u # t
    <3>1. TurnOK(reader[u], link[u], wire[u], server[u])
      BY DEF TurnsOK
    <3> QED BY <2>2, <3>1
  <2> QED BY <2>1, <2>2
<1> QED BY <1>1 DEF TurnsOK

LEMMA ChatTypes ==
  ASSUME PanelInv, ServerInv
  PROVE  /\ reader \in [Turn -> Reader] /\ link \in [Turn -> {"none", "up", "closed", "gone"}]
         /\ wire \in [Turn -> Seq(Frame)] /\ server \in [Turn -> RunState]
<1> QED BY DEF PanelInv, PanelTypes, ServerInv, ServerTypes

\* A live run goes on and sends frames v.
LEMMA RunSends ==
  ASSUME PanelInv, ServerInv, TurnsOK, NEW t \in Turn, server[t].pc \in Running,
         reader' = reader, NEW v \in Seq(Frame), Emit(t, v),
         NEW q \in RunState, server' = [server EXCEPT ![t] = q],
         \/ link' = link /\ q.pc \in Running /\ q.tokens = server[t].tokens + Tokens(v)
            /\ \A i \in 1..Len(v) : v[i] # "error"
         \/ Close(t) /\ q.pc = "answered" /\ q.tokens = server[t].tokens + Tokens(v)
            /\ \A i \in 1..Len(v) : v[i] # "error"
         \/ Close(t) /\ q.pc = "failed" /\ v # <<>> /\ v[Len(v)] = "error"
  PROVE  TurnsOK'
<1> USE ChatTypes
<1>1. TurnOK(reader[t], link[t], wire[t], server[t])
  BY DEF TurnsOK
<1>2. /\ server'[t] = q /\ reader'[t] = reader[t] /\ reader[t] \in Reader
      /\ server[t] \in RunState /\ wire[t] \in Seq(Frame)
      /\ \A u \in Turn : u # t => /\ reader'[u] = reader[u] /\ link'[u] = link[u]
                                  /\ wire'[u] = wire[u] /\ server'[u] = server[u]
  BY DEF Emit, Close
<1>3. reader[t].pc \notin {"none", "connecting"}
  BY <1>1 DEF TurnOK, Fresh, Running
<1>4. TurnOK(reader'[t], link'[t], wire'[t], server'[t])
  <2>1. CASE reader[t].pc = "reading" /\ link[t] # "gone"
    <3>1. link[t] = "up" /\ Streams(reader[t], "up", wire[t], server[t])
      BY <1>1, <2>1 DEF TurnOK, Streams, Running
    <3>2. wire'[t] = wire[t] \o v
      BY <3>1 DEF Emit
    <3>3. \/ /\ \/ link'[t] = "up" /\ q.pc \in Running
                \/ link'[t] = "closed" /\ q.pc = "answered"
             /\ q.tokens = server[t].tokens + Tokens(v)
             /\ \A i \in 1..Len(v) : v[i] # "error"
          \/ link'[t] = "closed" /\ q.pc = "failed" /\ v # <<>> /\ v[Len(v)] = "error"
      BY <3>1 DEF Close
    <3>4. Streams(reader[t], link'[t], wire[t] \o v, q)
      BY <1>2, <3>1, <3>3, Sent
    <3> QED BY <1>2, <1>3, <3>2, <3>4 DEF TurnOK
  <2>2. CASE reader[t].pc # "reading"
    BY <1>2, <1>3, <2>2 DEF TurnOK
  <2>3. CASE link[t] = "gone"
    <3>1. link'[t] = "gone"
      BY <2>3 DEF Close
    <3> QED BY <1>2, <1>3, <3>1 DEF TurnOK
  <2> QED BY <2>1, <2>2, <2>3
<1> QED BY <1>2, <1>4, OneTurn

LEMMA NothingSent ==
  ASSUME ServerInv, NEW t \in Turn, UNCHANGED wire
  PROVE  /\ Emit(t, <<>>) /\ <<>> \in Seq(Frame) /\ Tokens(<<>>) = 0
         /\ \A i \in 1..Len(<<>>) : <<>>[i] # "error"
<1>1. wire \in [Turn -> Seq(Frame)] /\ <<>> \in Seq(Frame) /\ Len(<<>>) = 0
  BY EmptySeq DEF ServerInv, ServerTypes
<1>2. wire[t] \o <<>> = wire[t]
  BY <1>1, ConcatEmptySeq
<1>3. Emit(t, <<>>)
  BY <1>1, <1>2 DEF Emit
<1>4. \A i \in 1..Len(<<>>) : FALSE
  BY <1>1
<1>5. Tokens(<<>>) = 0
  BY <1>1, <1>4, TokensFew
<1> QED BY <1>1, <1>3, <1>4, <1>5

LEMMA RunStepsKeepTurns ==
  ASSUME PanelInv, ServerInv, TurnsOK, NEW t \in Turn,
         \/ StreamToken(t) \/ CallTool(t) \/ RunTool(t) \/ Reply(t) \/ Finish(t) \/ ModelFails(t)
  PROVE  TurnsOK'
<1>1. /\ server \in [Turn -> RunState] /\ server[t] \in RunState /\ thread \in Seq(Entry)
      /\ server[t].memory \in Seq(Entry) /\ server[t].tokens \in Nat
  BY DEF ServerInv, ServerTypes, RunState
<1>2. reader' = reader
  BY DEF StreamToken, CallTool, RunTool, Reply, Finish, ModelFails, panel
<1>3. CASE StreamToken(t)
  <2> DEFINE q == MoreTokens(server[t])
  <2>1. /\ server[t].pc \in Running /\ Emit(t, <<"token">>) /\ link' = link
        /\ server' = [server EXCEPT ![t] = q]
    BY <1>3 DEF StreamToken, Thinking, Running, MoreTokens
  <2>2. q \in RunState /\ q.pc = server[t].pc /\ q.tokens = server[t].tokens + 1
    BY <1>1, RunStates DEF MoreTokens, RunState
  <2> HIDE DEF q
  <2>3. /\ "token" \in Frame /\ <<"token">> \in Seq(Frame)
        /\ \A i \in 1..Len(<<"token">>) : <<"token">>[i] # "error"
    BY DEF Frame
  <2>4. Tokens(<<"token">>) = 1
    BY <2>3, TokensFew
  <2> QED BY <1>2, <2>1, <2>2, <2>3, <2>4, RunSends
<1>4. ASSUME NEW q \in RunState, server' = [server EXCEPT ![t] = q], q.pc \in Running,
             q.tokens = server[t].tokens, server[t].pc \in Running, UNCHANGED <<link, wire>>
      PROVE  TurnsOK'
  <2>1. Tokens(<<>>) = 0 /\ server[t].tokens = server[t].tokens + 0
    BY <1>1, <1>4, NothingSent
  <2>2. q.tokens = server[t].tokens + Tokens(<<>>)
    BY <1>4, <2>1
  <2> QED BY <1>2, <1>4, <2>2, NothingSent, RunSends
<1>5. CASE CallTool(t)
  <2> DEFINE m == server[t].memory
             q == Moved(t, "tools", Added(t, m, "call"))
  <2>1. /\ server[t].pc \in Running /\ Checkpoint(t, m, "call", "tools") /\ m \in Seq(Entry)
        /\ UNCHANGED <<link, wire>>
    BY <1>1, <1>5 DEF CallTool, Thinking, Running
  <2> HIDE DEF m
  <2>2. server' = [server EXCEPT ![t] = q] /\ q \in RunState /\ q.pc = "tools"
    BY <2>1, CheckpointTaken DEF Running
  <2>3. q.tokens = server[t].tokens
    BY <1>1 DEF Moved, RunState
  <2> HIDE DEF q
  <2> QED BY <1>4, <2>1, <2>2, <2>3 DEF Running
<1>6. CASE Reply(t)
  <2> DEFINE m == server[t].memory
             q == Moved(t, "ending", Added(t, m, "reply"))
  <2>1. /\ server[t].pc \in Running /\ Checkpoint(t, m, "reply", "ending") /\ m \in Seq(Entry)
        /\ UNCHANGED <<link, wire>>
    BY <1>1, <1>6 DEF Reply, Thinking, Running
  <2> HIDE DEF m
  <2>2. server' = [server EXCEPT ![t] = q] /\ q \in RunState /\ q.pc = "ending"
    BY <2>1, CheckpointTaken DEF Running
  <2>3. q.tokens = server[t].tokens
    BY <1>1 DEF Moved, RunState
  <2> HIDE DEF q
  <2> QED BY <1>4, <2>1, <2>2, <2>3 DEF Running
<1>7. CASE RunTool(t)
  <2> DEFINE m == Added(t, server[t].memory, "result")
             q == ToolAnswered(server[t], m)
  <2>1. /\ server[t].pc \in Running /\ server[t].rounds < MaxRounds /\ link' = link
        /\ [turn |-> t, kind |-> "result"] \in Entry
    BY <1>7 DEF RunTool, Running, ServerInv, AtTools, Entry
  <2>2. m \in Seq(Entry)
    BY <1>1, <2>1, Appended DEF Added
  <2>3. server' = [server EXCEPT ![t] = q]
    <3>1. server' = [server EXCEPT ![t].pc = "model", ![t].memory = m, ![t].rounds = @ + 1]
      BY <1>7 DEF RunTool, Added
    <3> HIDE DEF m
    <3> QED BY <1>1, <3>1 DEF ToolAnswered
  <2> HIDE DEF m
  <2>4. q \in RunState /\ q.pc = "model" /\ q.tokens = server[t].tokens
    BY <1>1, <2>1, <2>2, RunStates DEF ToolAnswered, RunState
  <2> HIDE DEF q
  <2>5. PICK tool \in Tools, answers \in BOOLEAN : Emit(t, ToolFrames(tool, answers))
    BY <1>7 DEF RunTool
  <2> DEFINE v == ToolFrames(tool, answers)
  <2>6. v \in Seq(Frame) /\ \A i \in 1..Len(v) : v[i] \in {"tool", "card"}
    BY ToolFramesFit
  <2>7. Emit(t, v)
    BY <2>5
  <2> HIDE DEF v
  <2>8. \A i \in 1..Len(v) : v[i] # "token" /\ v[i] # "error"
    BY <2>6
  <2>9. Tokens(v) = 0
    BY <2>6, <2>8, TokensFew
  <2>10. q.tokens = server[t].tokens + Tokens(v) /\ q.pc \in Running
    BY <1>1, <2>4, <2>9 DEF Running
  <2> QED BY <1>2, <2>1, <2>3, <2>4, <2>6, <2>7, <2>8, <2>10, RunSends
<1>8. ASSUME NEW pc \in {"answered", "failed"},
             server' = [server EXCEPT ![t].pc = pc], server[t].pc \in Running, Close(t),
             NEW v \in Seq(Frame), Emit(t, v),
             \/ pc = "answered" /\ v = <<"end">>
             \/ pc = "failed" /\ v # <<>> /\ v[Len(v)] = "error"
      PROVE  TurnsOK'
  <2> DEFINE q == [server[t] EXCEPT !.pc = pc]
  <2>1. server' = [server EXCEPT ![t] = q] /\ q \in RunState /\ q.pc = pc
        /\ q.tokens = server[t].tokens
    BY <1>1, <1>8 DEF RunState
  <2> HIDE DEF q
  <2>2. /\ server[t].pc \in Running /\ Close(t) /\ v \in Seq(Frame) /\ Emit(t, v)
        /\ server' = [server EXCEPT ![t] = q] /\ q \in RunState
    BY <1>8, <2>1
  <2>3. CASE pc = "answered" /\ v = <<"end">>
    <3>1. \A i \in 1..Len(v) : v[i] # "token" /\ v[i] # "error"
      BY <2>3
    <3>2. Tokens(v) = 0
      BY <2>2, <3>1, TokensFew
    <3>3. q.pc = "answered" /\ q.tokens = server[t].tokens + Tokens(v)
      BY <1>1, <2>1, <2>3, <3>2
    <3> QED BY <1>2, <2>2, <3>1, <3>3, RunSends
  <2>4. CASE pc = "failed" /\ v # <<>> /\ v[Len(v)] = "error"
    <3>1. q.pc = "failed"
      BY <2>1, <2>4
    <3> QED BY <1>2, <2>2, <2>4, <3>1, RunSends
  <2> QED BY <1>8, <2>3, <2>4
<1>9. "end" \in Frame /\ "error" \in Frame /\ "token" \in Frame
  BY DEF Frame
<1>10. CASE Finish(t)
  <2>1. <<"end">> \in Seq(Frame)
    BY <1>9
  <2> QED BY <1>8, <1>10, <2>1 DEF Finish, Running
<1>11. CASE ModelFails(t)
  <2>1. PICK v \in FailureFrames : Emit(t, v)
    BY <1>11 DEF ModelFails
  <2>2. v \in Seq(Frame) /\ v # <<>> /\ v[Len(v)] = "error"
    <3>1. CASE v = <<"token", "error">>
      BY <1>9, <3>1
    <3>2. CASE v = <<"error">>
      BY <1>9, <3>2
    <3> QED BY <3>1, <3>2 DEF FailureFrames
  <2> QED BY <1>8, <1>11, <2>1, <2>2 DEF ModelFails, Running
<1> QED BY <1>3, <1>5, <1>6, <1>7, <1>10, <1>11

LEMMA AcceptKeepsTurns ==
  ASSUME PanelInv, ServerInv, TurnsOK, NEW t \in Turn, Accept(t)
  PROVE  TurnsOK'
<1> USE ChatTypes
<1>1. /\ reader[t].pc = "connecting" /\ reader' = [reader EXCEPT ![t].pc = "reading"]
      /\ link' = [link EXCEPT ![t] = "up"] /\ wire' = wire
      /\ Checkpoint(t, thread, "human", "model") /\ thread \in Seq(Entry)
  BY DEF Accept, ServerInv, ServerTypes
<1>2. Fresh(reader[t], wire[t], server[t])
  BY <1>1 DEF TurnsOK, TurnOK
<1>3. /\ reader'[t].pc = "reading" /\ reader'[t].text = reader[t].text
      /\ reader'[t].endedWithError = reader[t].endedWithError
      /\ link'[t] = "up" /\ wire'[t] = wire[t]
      /\ \A u \in Turn : u # t => reader'[u] = reader[u] /\ link'[u] = link[u]
                                  /\ wire'[u] = wire[u]
  BY <1>1 DEF Reader
<1>4. /\ server'[t].pc = "model" /\ server'[t].tokens = server[t].tokens
      /\ \A u \in Turn : u # t => server'[u] = server[u]
  <2> DEFINE q == Moved(t, "model", Added(t, thread, "human"))
  <2>1. /\ server' = [server EXCEPT ![t] = q] /\ q.pc = "model"
        /\ \A u \in Turn : u # t => server'[u] = server[u]
    BY <1>1, CheckpointTaken DEF Running
  <2>2. server[t] \in RunState
    OBVIOUS
  <2>3. q.tokens = server[t].tokens
    BY <2>2 DEF Moved, RunState
  <2> HIDE DEF q
  <2> QED BY <2>1, <2>3
<1>5. Whole(reader'[t], wire'[t], server'[t])
  <2>1. wire'[t] = <<>> /\ Tokens(<<>>) = 0 /\ Len(<<>>) = 0
    BY <1>1, <1>2, <1>3, NothingSent DEF Fresh
  <2>2. reader'[t].text = 0 /\ server'[t].tokens = 0 /\ ~reader'[t].endedWithError
    BY <1>2, <1>3, <1>4 DEF Fresh
  <2> QED BY <2>1, <2>2 DEF Whole
<1>6. TurnOK(reader'[t], link'[t], wire'[t], server'[t])
  BY <1>3, <1>4, <1>5 DEF TurnOK, Streams, Running
<1> QED BY <1>3, <1>4, <1>6, OneTurn

LEMMA CutKeepsTurns ==
  ASSUME PanelInv, ServerInv, TurnsOK, NEW t \in Turn, Cut(t)
  PROVE  TurnsOK'
<1> USE ChatTypes
<1>1. /\ server[t].pc \in Running /\ link[t] = "gone" /\ reader' = reader
      /\ link' = link /\ wire' = wire
      /\ \A u \in Turn : u # t => server'[u] = server[u]
  BY DEF Cut, panel
<1>2. reader[t].pc \notin {"none", "connecting"}
  BY <1>1 DEF TurnsOK, TurnOK, Fresh, Running
<1>3. TurnOK(reader'[t], link'[t], wire'[t], server'[t])
  BY <1>1, <1>2 DEF TurnOK
<1> QED BY <1>1, <1>3, OneTurn

LEMMA ReadFrameKeepsTurns ==
  ASSUME PanelInv, ServerInv, TurnsOK, NEW t \in Turn, ReadFrame(t)
  PROVE  TurnsOK'
<1> USE ChatTypes
<1> DEFINE f == Head(wire[t])
<1>1. /\ reader[t].pc = "reading" /\ link[t] # "gone" /\ wire[t] # <<>>
      /\ wire'[t] = Tail(wire[t]) /\ link' = link /\ server' = server
      /\ reader[t] \in Reader /\ wire[t] \in Seq(Frame) /\ server[t] \in RunState
      /\ \A u \in Turn : u # t => wire'[u] = wire[u]
  BY DEF ReadFrame, backend
<1>2. Streams(reader[t], link[t], wire[t], server[t])
  BY <1>1 DEF TurnsOK, TurnOK
<1>3. /\ reader'[t] \in Reader /\ reader'[t].pc = "reading"
      /\ \A u \in Turn : u # t => reader'[u] = reader[u]
      /\ reader'[t].text = reader[t].text + (IF f = "token" THEN 1 ELSE 0)
      /\ reader'[t].endedWithError = (IF f \in Terminal THEN f = "error"
                                      ELSE reader[t].endedWithError)
  <2>1. CASE f = "token"
    <3> DEFINE n == reader[t].text + 1
    <3>1. reader' = [reader EXCEPT ![t].text = n]
      BY <2>1 DEF ReadFrame, Terminal
    <3>2. n \in Nat
      BY <1>1 DEF Reader
    <3>3. n = reader[t].text + (IF f = "token" THEN 1 ELSE 0) /\ f \notin Terminal
      BY <2>1 DEF Terminal
    <3> HIDE DEF n, f
    <3> QED BY <1>1, <3>1, <3>2, <3>3 DEF Reader
  <2>2. CASE f = "tool" \/ f = "card"
    <3>1. reader' = reader /\ f \notin Terminal /\ f # "token"
      BY <2>2 DEF ReadFrame, Terminal
    <3>2. reader[t].text = reader[t].text + 0
      BY <1>1 DEF Reader
    <3> HIDE DEF f
    <3> QED BY <1>1, <3>1, <3>2
  <2>3. CASE f \in Terminal
    <3> DEFINE e == (f = "error")
    <3>1. reader' = [reader EXCEPT ![t].endedWithError = e] /\ f # "token"
      BY <2>3 DEF ReadFrame, Terminal, NoteEnd
    <3>2. e \in BOOLEAN
      OBVIOUS
    <3>3. reader[t].text = reader[t].text + 0
      BY <1>1 DEF Reader
    <3>4. e = (IF f \in Terminal THEN f = "error" ELSE reader[t].endedWithError)
      BY <2>3
    <3> HIDE DEF f, e
    <3>5. /\ reader'[t] \in Reader /\ reader'[t].pc = "reading"
          /\ \A u \in Turn : u # t => reader'[u] = reader[u]
          /\ reader'[t].text = reader[t].text
      BY <1>1, <3>1, <3>2 DEF Reader
    <3>6. reader'[t].endedWithError = e
      BY <1>1, <3>1 DEF Reader
    <3> QED BY <3>1, <3>3, <3>4, <3>5, <3>6
  <2> QED BY <2>1, <2>2, <2>3 DEF ReadFrame
<1>4. Streams(reader'[t], link[t], Tail(wire[t]), server[t])
  <2>1. /\ reader'[t] \in Reader
        /\ reader'[t].text = reader[t].text + (IF Head(wire[t]) = "token" THEN 1 ELSE 0)
        /\ reader'[t].endedWithError = (IF Head(wire[t]) \in Terminal THEN Head(wire[t]) = "error"
                                        ELSE reader[t].endedWithError)
    BY <1>3
  <2> QED BY <1>1, <1>2, <2>1, Received
<1>5. TurnOK(reader'[t], link'[t], wire'[t], server'[t])
  BY <1>1, <1>3, <1>4 DEF TurnOK
<1> QED BY <1>1, <1>3, <1>5, OneTurn

LEMMA SendOverKeepsTurns ==
  ASSUME PanelInv, ServerInv, TurnsOK, NEW t \in Turn, NEW pc \in {"done", "failed"},
         SendOver(t, pc), UNCHANGED <<link, wire, backend>>
  PROVE  TurnsOK'
<1> USE ChatTypes
<1>1. reader'[t].pc = pc /\ \A u \in Turn : u # t => reader'[u] = reader[u]
  BY DEF SendOver, Reader
<1>2. TurnOK(reader'[t], link'[t], wire'[t], server'[t])
  BY <1>1 DEF TurnOK
<1> QED BY <1>1, <1>2, OneTurn DEF backend

LEMMA SendKeepsTurns ==
  ASSUME PanelInv, ServerInv, TurnsOK, SoFar, Send
  PROVE  TurnsOK'
<1> USE ChatTypes
<1> DEFINE t == asked + 1
<1>1. t \in Turn /\ t > asked
  BY ChatAssumption DEF Send, SendOnce, PanelInv, PanelTypes, Turn
<1>2. /\ reader[t].pc = "none" /\ reader' = [reader EXCEPT ![t].pc = "connecting"]
      /\ UNCHANGED <<link, wire, server>>
  BY <1>1 DEF SoFar, Send, backend
<1> HIDE DEF t
<1>3. Fresh(reader[t], wire[t], server[t])
  BY <1>1, <1>2 DEF TurnsOK, TurnOK
<1>4. /\ reader'[t].pc = "connecting" /\ reader'[t].text = reader[t].text
      /\ reader'[t].endedWithError = reader[t].endedWithError
      /\ \A u \in Turn : u # t => reader'[u] = reader[u]
  BY <1>1, <1>2 DEF Reader
<1>5. TurnOK(reader'[t], link'[t], wire'[t], server'[t])
  BY <1>2, <1>3, <1>4 DEF TurnOK, Fresh
<1> QED BY <1>1, <1>2, <1>4, <1>5, OneTurn

LEMMA LossKeepsTurns ==
  ASSUME PanelInv, ServerInv, TurnsOK, Unmount \/ Recycle \/ \E t \in Turn : Break(t)
  PROVE  TurnsOK'
<1> USE ChatTypes
<1>1. CASE Unmount
  <2>1. UNCHANGED <<wire, server>>
    BY <1>1 DEF Unmount, backend
  <2>2. ASSUME NEW u \in Turn PROVE TurnOK(reader'[u], link'[u], wire'[u], server'[u])
    <3>1. CASE u \in Aborting
      <4>1. reader'[u].pc = "aborted"
        BY <1>1, <3>1 DEF Unmount, Reader
      <4> QED BY <4>1 DEF TurnOK
    <3>2. CASE u \notin Aborting
      <4>1. reader'[u] = reader[u] /\ link'[u] = link[u]
        BY <1>1, <3>2 DEF Unmount
      <4> QED BY <2>1, <4>1 DEF TurnsOK
    <3> QED BY <3>1, <3>2
  <2> QED BY <2>2 DEF TurnsOK
<1>2. CASE Recycle
  <2>1. UNCHANGED <<reader, wire>>
    BY <1>2 DEF Recycle, panel
  <2>2. ASSUME NEW u \in Turn PROVE TurnOK(reader'[u], link'[u], wire'[u], server'[u])
    <3>1. CASE server[u].pc \in Running
      <4>1. link'[u] = "gone"
        BY <1>2, <3>1 DEF Recycle
      <4>2. reader[u].pc \notin {"none", "connecting"}
        BY <3>1 DEF TurnsOK, TurnOK, Fresh, Running
      <4> QED BY <2>1, <4>1, <4>2 DEF TurnOK
    <3>2. CASE server[u].pc \notin Running
      <4>1. server'[u] = server[u] /\ link'[u] = link[u]
        BY <1>2, <3>2 DEF Recycle
      <4> QED BY <2>1, <4>1 DEF TurnsOK
    <3> QED BY <3>1, <3>2
  <2> QED BY <2>2 DEF TurnsOK
<1>3. ASSUME NEW t \in Turn, Break(t) PROVE TurnsOK'
  <2>1. /\ reader[t].pc = "reading" /\ UNCHANGED <<reader, server>> /\ link'[t] = "gone"
        /\ \A u \in Turn : u # t => link'[u] = link[u] /\ wire'[u] = wire[u]
    BY <1>3 DEF Break, panel, backend
  <2>2. TurnOK(reader'[t], link'[t], wire'[t], server'[t])
    BY <2>1 DEF TurnOK
  <2> QED BY <2>1, <2>2, OneTurn
<1> QED BY <1>1, <1>2, <1>3

LEMMA TurnsStep ==
  ASSUME PanelInv, ServerInv, TurnsOK, SoFar, [Next]_vars
  PROVE  TurnsOK'
<1>1. ASSUME NEW t \in Turn, Server(t) PROVE TurnsOK'
  BY <1>1, AcceptKeepsTurns, RunStepsKeepTurns, CutKeepsTurns DEF Server
<1>2. ASSUME NEW t \in Turn, Refused(t) \/ ReadFails(t) \/ ReadEnd(t) PROVE TurnsOK'
  BY <1>2, SendOverKeepsTurns DEF Refused, ReadFails, ReadEnd, SendFails
<1>3. ASSUME NEW t \in Turn, Client(t) PROVE TurnsOK'
  BY <1>2, <1>3, ReadFrameKeepsTurns DEF Client
<1>4. CASE TypeIntro \/ Compose \/ UNCHANGED vars
  <2>1. UNCHANGED <<reader, link, wire, server>>
    BY <1>4 DEF TypeIntro, Compose, vars, panel, backend
  <2> QED BY <2>1 DEF TurnsOK
<1> QED BY <1>1, <1>3, <1>4, SendKeepsTurns, LossKeepsTurns DEF Next

-----------------------------------------------------------------------------
(* The outcome of a turn: bubbles *)

\* A run that is over stays as it is.
LEMMA RunsEndOnce ==
  ASSUME ServerInv, [Next]_vars, NEW u \in Turn, server[u].pc \in {"answered", "failed"}
  PROVE  server'[u] = server[u]
<1>1. server \in [Turn -> RunState]
  BY DEF ServerInv, ServerTypes
<1>2. ASSUME NEW t \in Turn, Server(t) PROVE server'[u] = server[u]
  <2>1. server[t].pc \in Running \cup {"idle"}
    BY <1>2 DEF Server, Accept, StreamToken, CallTool, RunTool, Reply, Finish, ModelFails, Cut,
                Thinking, Running
  <2>2. u # t
    BY <2>1 DEF Running
  <2> QED BY <1>1, <1>2, <2>2
      DEF Server, Accept, StreamToken, CallTool, RunTool, Reply, Finish, ModelFails, Cut, Checkpoint
<1>3. ASSUME NEW t \in Turn, Client(t) \/ Break(t) PROVE server' = server
  BY <1>3 DEF Client, Refused, ReadFails, ReadFrame, ReadEnd, Break, backend
<1>4. CASE Recycle
  BY <1>4 DEF Recycle, Running
<1>5. CASE TypeIntro \/ Compose \/ Send \/ Unmount \/ UNCHANGED vars
  BY <1>5 DEF TypeIntro, Compose, Send, Unmount, vars, backend
<1> QED BY <1>2, <1>3, <1>4, <1>5 DEF Next

LEMMA BubbleTypes ==
  ASSUME PanelInv
  PROVE  /\ messages \in Seq(Message) /\ Last \in Nat /\ DOMAIN messages = 1..Last
         /\ \A i \in 1..Last : messages[i] \in Message /\ messages[i].turn \in Turn
         /\ asked \in Nat /\ Turn \subseteq Nat
<1>1. messages \in Seq(Message) /\ Last \in Nat /\ DOMAIN messages = 1..Last
      /\ \A i \in 1..Last : messages[i] \in Message
  BY LenProperties, ElementOfSeq DEF PanelInv, PanelTypes, Last
<1>2. asked \in Nat /\ Turn \subseteq Nat
  BY DEF PanelInv, PanelTypes, Turn
<1> QED BY <1>1, <1>2 DEF Message

\* The transcript is as it was, and no send begins or is read to its end.
LEMMA BubblesStay ==
  ASSUME PanelInv, ServerInv, Bubbles, [Next]_vars, UNCHANGED <<messages, asked>>,
         \A u \in Turn : /\ reader'[u].pc \in Loops => reader[u].pc \in Loops
                         /\ reader[u].pc = "none" => reader'[u].pc = "none"
                         /\ reader'[u].pc = "done" => reader[u].pc = "done"
                         /\ reader'[u].text = reader[u].text
  PROVE  Bubbles'
<1>1. Last' = Last
  BY DEF Last
<1>2. LiveBubble' /\ SoFar'
  BY <1>1 DEF Bubbles, LiveBubble, SoFar
<1>3. OutcomeShown'
  <2> SUFFICES ASSUME NEW i \in DOMAIN messages, messages[i].role = "assistant",
                      reader'[messages[i].turn].pc = "done"
               PROVE  IF messages[i].errored THEN server'[messages[i].turn].pc = "failed"
                      ELSE /\ server'[messages[i].turn].pc = "answered"
                           /\ messages[i].text = server'[messages[i].turn].tokens
    BY DEF OutcomeShown
  <2> DEFINE t == messages[i].turn
  <2>1. t \in Turn
    BY BubbleTypes
  <2>2. reader[t].pc = "done"
    BY <2>1
  <2>3. IF messages[i].errored THEN server[t].pc = "failed"
        ELSE server[t].pc = "answered" /\ messages[i].text = server[t].tokens
    BY <2>2 DEF Bubbles, OutcomeShown
  <2> HIDE DEF t
  <2>4. server'[t] = server[t]
    BY <2>1, <2>3, RunsEndOnce
  <2>5. IF messages[i].errored THEN server'[t].pc = "failed"
        ELSE server'[t].pc = "answered" /\ messages[i].text = server'[t].tokens
    BY <2>3, <2>4
  <2> QED BY <2>5 DEF t
<1> QED BY <1>2, <1>3 DEF Bubbles

LEMMA BubblesSend ==
  ASSUME PanelInv, ServerInv, TurnsOK, Bubbles, Send
  PROVE  Bubbles'
<1> DEFINE user == Blank(asked', "user")
           assistant == Blank(asked', "assistant")
<1>1. /\ asked' = asked + 1 /\ asked' \in Turn /\ asked' \in Nat /\ asked \in Nat
      /\ reader' = [reader EXCEPT ![asked'].pc = "connecting"] /\ server' = server
      /\ messages' = messages \o <<user, assistant>>
      /\ \A t \in Turn : reader[t].pc \notin Loops
  BY ChatAssumption DEF Send, SendOnce, PanelInv, PanelTypes, Turn, LastIsLive, backend
<1>2. user \in Message /\ assistant \in Message
  BY <1>1 DEF Message, Blank
<1>3. /\ user.role = "user" /\ user.turn = asked' /\ assistant.turn = asked'
      /\ assistant.text = 0 /\ assistant.errored = FALSE
  BY DEF Blank
<1> HIDE DEF user, assistant
<1>4. /\ Last' = Last + 2 /\ DOMAIN messages' = 1..(Last + 2) /\ Last \in Nat
      /\ \A i \in 1..Last : messages'[i] = messages[i]
      /\ messages'[Last + 1] = user /\ messages'[Last + 2] = assistant
  <2>1. messages \in Seq(Message) /\ Last \in Nat
    BY BubbleTypes
  <2>2. /\ messages' \in Seq(Message) /\ Len(messages') = Len(messages) + 2
        /\ \A i \in 1..Len(messages) : messages'[i] = messages[i]
        /\ messages'[Len(messages) + 1] = user /\ messages'[Len(messages) + 2] = assistant
    BY <1>1, <1>2, <2>1, PairAppended
  <2> QED BY <2>1, <2>2, LenProperties DEF Last
<1>5. \A i \in 1..Last' : i \in 1..Last \/ i = Last + 1 \/ i = Last + 2
  BY <1>4
<1>6. \A i \in 1..Last : messages[i].turn <= asked /\ messages[i].turn \in Turn
                         /\ messages[i].turn \in Nat
  BY BubbleTypes DEF Bubbles, SoFar
<1>7. /\ reader'[asked'].pc = "connecting" /\ reader'[asked'].text = 0
      /\ \A u \in Turn : u # asked' => reader'[u] = reader[u]
  <2>1. reader \in [Turn -> Reader] /\ asked' > asked
    BY <1>1 DEF PanelInv, PanelTypes
  <2>2. reader[asked'].pc = "none"
    BY <1>1, <2>1 DEF Bubbles, SoFar
  <2>3. reader[asked'].text = 0
    BY <1>1, <2>2 DEF TurnsOK, TurnOK, Fresh
  <2> QED BY <1>1, <2>1, <2>3 DEF Reader
<1>8. SoFar'
  <2>1. ASSUME NEW t \in Turn, t > asked' PROVE reader'[t].pc = "none"
    <3>1. t > asked /\ t # asked'
      BY <1>1, <2>1, BubbleTypes
    <3> QED BY <1>7, <3>1 DEF Bubbles, SoFar
  <2>2. ASSUME NEW i \in 1..Last' PROVE messages'[i].turn <= asked'
    <3>1. CASE i \in 1..Last
      BY <1>1, <1>4, <1>6, <3>1
    <3>2. CASE i = Last + 1 \/ i = Last + 2
      BY <1>1, <1>3, <1>4, <3>2
    <3> QED BY <1>5, <3>1, <3>2
  <2> QED BY <2>1, <2>2 DEF SoFar
<1>9. LiveBubble'
  <2>1. \A t \in Turn : reader'[t].pc \in Loops => t = asked'
    BY <1>1, <1>7
  <2>2. messages'[Last'].text = 0 /\ messages'[Last'].errored = FALSE
    BY <1>3, <1>4
  <2>3. ASSUME NEW i \in 1..Last', messages'[i].role = "assistant", messages'[i].turn = asked'
        PROVE  i = Last'
    <3>1. i \notin 1..Last
      <4>1. asked' > asked
        BY <1>1
      <4> QED BY <1>1, <1>4, <1>6, <2>3, <4>1
    <3>2. i # Last + 1
      BY <1>3, <1>4, <2>3
    <3> QED BY <1>4, <1>5, <3>1, <3>2
  <2> QED BY <1>7, <2>1, <2>2, <2>3 DEF LiveBubble
<1>10. OutcomeShown'
  <2> SUFFICES ASSUME NEW i \in 1..Last', messages'[i].role = "assistant",
                      reader'[messages'[i].turn].pc = "done"
               PROVE  IF messages'[i].errored THEN server'[messages'[i].turn].pc = "failed"
                      ELSE /\ server'[messages'[i].turn].pc = "answered"
                           /\ messages'[i].text = server'[messages'[i].turn].tokens
    BY <1>4 DEF OutcomeShown
  <2>1. i \in 1..Last
    BY <1>3, <1>4, <1>5, <1>7
  <2>2. messages'[i] = messages[i] /\ messages[i].turn \in Turn
        /\ messages[i].turn # asked'
    BY <1>1, <1>4, <1>6, <2>1
  <2>3. reader[messages[i].turn].pc = "done" /\ i \in DOMAIN messages
    BY <1>7, <2>1, <2>2, BubbleTypes
  <2> QED BY <1>1, <2>2, <2>3 DEF Bubbles, OutcomeShown
<1> QED BY <1>8, <1>9, <1>10 DEF Bubbles

\* The one live send ends: no bubble is live any more.
LEMMA NoneLive ==
  ASSUME PanelInv, NEW t \in Turn, reader[t].pc \in Loops,
         NEW pc \in {"done", "failed"}, SendOver(t, pc)
  PROVE  /\ reader'[t].pc = pc /\ \A u \in Turn : u # t => reader'[u] = reader[u]
         /\ \A u \in Turn : reader'[u].pc \notin Loops
         /\ \A u \in Turn : reader[u].pc = "none" => reader'[u].pc = "none"
<1>1. reader \in [Turn -> Reader] /\ \A u \in Turn : reader[u].pc \in Loops => u = t
  BY DEF PanelInv, PanelTypes, LastIsLive
<1>2. reader'[t].pc = pc /\ \A u \in Turn : u # t => reader'[u] = reader[u]
  BY <1>1 DEF SendOver, Reader
<1> QED BY <1>1, <1>2 DEF Loops

LEMMA BubblesFail ==
  ASSUME PanelInv, Bubbles, NEW t \in Turn, Refused(t) \/ ReadFails(t)
  PROVE  Bubbles'
<1>1. /\ reader[t].pc \in Loops /\ SendOver(t, "failed") /\ messages' = Rollback
      /\ asked' = asked /\ server' = server
  BY DEF Refused, ReadFails, SendFails, Loops, backend
<1>2. /\ reader'[t].pc = "failed" /\ \A u \in Turn : u # t => reader'[u] = reader[u]
      /\ \A u \in Turn : reader'[u].pc \notin Loops
      /\ \A u \in Turn : reader[u].pc = "none" => reader'[u].pc = "none"
  BY <1>1, NoneLive
<1>3. Last >= 2
  BY <1>1 DEF PanelInv, LastIsLive
<1>4. /\ messages' \in Seq(Message) /\ Last' = Last - 2
      /\ \A i \in 1..(Last - 2) : messages'[i] = messages[i]
  BY <1>1, <1>3, PanelRolledBack
<1>5. DOMAIN messages' = 1..Last' /\ \A i \in 1..Last' : i \in 1..Last /\ messages'[i] = messages[i]
  <2>1. DOMAIN messages' = 1..Last'
    BY <1>4, LenProperties DEF Last
  <2> QED BY <1>4, <2>1, BubbleTypes
<1>6. LiveBubble' /\ SoFar'
  BY <1>1, <1>2, <1>5 DEF Bubbles, LiveBubble, SoFar
<1>7. OutcomeShown'
  <2> SUFFICES ASSUME NEW i \in 1..Last', messages[i].role = "assistant",
                      reader'[messages[i].turn].pc = "done"
               PROVE  IF messages[i].errored THEN server[messages[i].turn].pc = "failed"
                      ELSE /\ server[messages[i].turn].pc = "answered"
                           /\ messages[i].text = server[messages[i].turn].tokens
    BY <1>1, <1>5 DEF OutcomeShown
  <2>1. i \in 1..Last /\ messages[i].turn \in Turn /\ i \in DOMAIN messages
    BY <1>5, BubbleTypes
  <2>2. reader[messages[i].turn].pc = "done"
    BY <1>2, <2>1
  <2> QED BY <2>1, <2>2 DEF Bubbles, OutcomeShown
<1> QED BY <1>6, <1>7 DEF Bubbles

\* The last bubble is revised, by the turn it belongs to.
LEMMA LastRevised ==
  ASSUME PanelInv, Bubbles, NEW t \in Turn, reader[t].pc \in Loops,
         NEW m \in Message, m.turn = messages[Last].turn, m.role = messages[Last].role,
         \/ messages' = [messages EXCEPT ![Last] = m]
         \/ messages' = messages /\ m = messages[Last]
  PROVE  /\ Last' = Last /\ DOMAIN messages' = 1..Last /\ Last \in 1..Last
         /\ messages'[Last] = m /\ messages[Last].turn = t
         /\ \A i \in 1..Last : i # Last => messages'[i] = messages[i]
         /\ \A i \in 1..Last : /\ messages'[i].turn = messages[i].turn
                               /\ messages'[i].role = messages[i].role
         /\ \A i \in 1..Last : messages[i].role = "assistant" /\ messages[i].turn = t => i = Last
<1>1. Last >= 2 /\ messages[Last].turn = t
  BY DEF PanelInv, LastIsLive
<1>2. messages \in Seq(Message) /\ Last \in 1..Last /\ DOMAIN messages = 1..Last
  BY <1>1, BubbleTypes
<1>3. CASE messages' = [messages EXCEPT ![Last] = m]
  <2>1. messages # <<>> /\ Last = Len(messages)
    BY <1>1, EmptySeq DEF Last
  <2>2. /\ messages' \in Seq(Message) /\ Len(messages') = Len(messages)
        /\ messages'[Len(messages)] = m
        /\ \A i \in 1..Len(messages) : i # Len(messages) => messages'[i] = messages[i]
    BY <1>2, <1>3, <2>1, BubbleRevised
  <2>3. Last' = Last /\ DOMAIN messages' = 1..Last
    BY <2>1, <2>2, LenProperties DEF Last
  <2> QED BY <1>1, <1>2, <2>1, <2>2, <2>3 DEF Bubbles, LiveBubble
<1>4. CASE messages' = messages /\ m = messages[Last]
  <2>1. Last' = Last
    BY <1>4 DEF Last
  <2> QED BY <1>1, <1>2, <1>4, <2>1 DEF Bubbles, LiveBubble
<1> QED BY <1>3, <1>4

LEMMA BubblesRead ==
  ASSUME PanelInv, ServerInv, TurnsOK, Bubbles, NEW t \in Turn, ReadFrame(t)
  PROVE  Bubbles'
<1> DEFINE f == Head(wire[t])
<1>1. /\ reader[t].pc = "reading" /\ reader[t].pc \in Loops /\ asked' = asked /\ server' = server
      /\ reader \in [Turn -> Reader] /\ reader[t].text \in Nat
  BY DEF ReadFrame, Loops, backend, PanelInv, PanelTypes, Reader
<1>2. /\ Last >= 2 /\ Last # 0 /\ messages[Last] \in Message
      /\ \A u \in Turn : reader[u].pc \in Loops => u = t
  <2>1. Last >= 2 /\ \A u \in Turn : reader[u].pc \in Loops => u = t
    BY <1>1 DEF PanelInv, LastIsLive
  <2> QED BY <2>1, BubbleTypes
<1>3. PICK m \in Message :
        /\ m.turn = messages[Last].turn /\ m.role = messages[Last].role
        /\ m.errored = messages[Last].errored
        /\ \/ messages' = [messages EXCEPT ![Last] = m]
           \/ messages' = messages /\ m = messages[Last]
        /\ m.text = reader'[t].text /\ reader'[t].pc = "reading"
        /\ \A u \in Turn : u # t => reader'[u] = reader[u]
  <2>1. messages[Last].text = reader[t].text
    BY <1>1 DEF Bubbles, LiveBubble
  <2>2. CASE f = "token"
    <3> DEFINE n == reader[t].text + 1
               m == WithText(messages[Last], t, n)
    <3>1. /\ messages' = [messages EXCEPT ![Last].from = t, ![Last].text = n]
          /\ reader' = [reader EXCEPT ![t].text = n] /\ n \in Nat
      BY <1>1, <1>2, <2>2 DEF ReadFrame, Terminal
    <3> HIDE DEF n
    <3>2. messages' = [messages EXCEPT ![Last] = m]
      <4>1. Last \in DOMAIN messages
        BY <1>2, BubbleTypes
      <4> QED BY <3>1, <4>1 DEF WithText
    <3>3. m \in Message /\ m.turn = messages[Last].turn /\ m.role = messages[Last].role
      BY <1>2, <3>1, BubbleFilled
    <3>4. m.text = n /\ m.errored = messages[Last].errored
      BY <1>2 DEF WithText, Message
    <3>5. /\ reader'[t].text = n /\ reader'[t].pc = "reading"
          /\ \A u \in Turn : u # t => reader'[u] = reader[u]
      BY <1>1, <3>1 DEF Reader
    <3> HIDE DEF m
    <3> QED BY <3>2, <3>3, <3>4, <3>5
  <2>3. CASE f = "card"
    <3> DEFINE n == messages[Last].views + 1
               m == [messages[Last] EXCEPT !.views = n]
    <3>1. messages' = [messages EXCEPT ![Last].views = n] /\ reader' = reader
      BY <1>2, <2>3 DEF ReadFrame, Terminal
    <3>2. n \in Nat
      BY <1>2 DEF Message
    <3> HIDE DEF n
    <3>3. messages' = [messages EXCEPT ![Last] = m]
      BY <3>1
    <3>4. /\ m \in Message /\ m.turn = messages[Last].turn /\ m.role = messages[Last].role
          /\ m.text = messages[Last].text /\ m.errored = messages[Last].errored
      BY <1>2, <3>2 DEF Message
    <3> HIDE DEF m
    <3> QED BY <1>1, <2>1, <3>1, <3>3, <3>4
  <2>4. CASE f = "tool"
    <3>1. messages' = messages /\ reader' = reader
      BY <2>4 DEF ReadFrame, Terminal
    <3> QED BY <1>1, <1>2, <2>1, <3>1
  <2>5. CASE f \in Terminal
    <3> DEFINE e == (f = "error")
    <3>1. messages' = messages /\ reader' = [reader EXCEPT ![t].endedWithError = e]
      BY <2>5 DEF ReadFrame, Terminal, NoteEnd
    <3> HIDE DEF e
    <3>2. /\ reader'[t].text = reader[t].text /\ reader'[t].pc = "reading"
          /\ \A u \in Turn : u # t => reader'[u] = reader[u]
      BY <1>1, <3>1 DEF Reader
    <3> QED BY <1>2, <2>1, <3>1, <3>2
  <2> QED BY <2>2, <2>3, <2>4, <2>5 DEF ReadFrame
<1>4. /\ Last' = Last /\ DOMAIN messages' = 1..Last /\ Last \in 1..Last
      /\ messages'[Last] = m /\ messages[Last].turn = t
      /\ \A i \in 1..Last : i # Last => messages'[i] = messages[i]
      /\ \A i \in 1..Last : /\ messages'[i].turn = messages[i].turn
                            /\ messages'[i].role = messages[i].role
  BY <1>1, <1>3, LastRevised
<1>5. \A u \in Turn : reader'[u].pc = reader[u].pc
  BY <1>1, <1>3
<1>6. SoFar'
  BY <1>1, <1>4, <1>5 DEF Bubbles, SoFar
<1>7. LiveBubble'
  BY <1>1, <1>2, <1>3, <1>4, <1>5 DEF Bubbles, LiveBubble
<1>8. OutcomeShown'
  <2> SUFFICES ASSUME NEW i \in 1..Last, messages'[i].role = "assistant",
                      reader'[messages'[i].turn].pc = "done"
               PROVE  IF messages'[i].errored THEN server'[messages'[i].turn].pc = "failed"
                      ELSE /\ server'[messages'[i].turn].pc = "answered"
                           /\ messages'[i].text = server'[messages'[i].turn].tokens
    BY <1>4 DEF OutcomeShown
  <2>1. i # Last
    BY <1>3, <1>4
  <2>2. messages'[i] = messages[i] /\ messages[i].turn \in Turn /\ i \in DOMAIN messages
    BY <1>4, <2>1, BubbleTypes
  <2>3. reader[messages[i].turn].pc = "done"
    BY <1>5, <2>2
  <2> QED BY <1>1, <2>2, <2>3 DEF Bubbles, OutcomeShown
<1> QED BY <1>6, <1>7, <1>8 DEF Bubbles

\* A body read to its end holds all of the text, or the error.
LEMMA BubblesEnd ==
  ASSUME PanelInv, ServerInv, TurnsOK, Bubbles, NEW t \in Turn, ReadEnd(t)
  PROVE  Bubbles'
<1> USE ChatTypes
<1>1. /\ reader[t].pc = "reading" /\ reader[t].pc \in Loops /\ link[t] = "closed"
      /\ wire[t] = <<>> /\ SendOver(t, "done") /\ asked' = asked /\ UNCHANGED <<wire, server>>
  BY DEF ReadEnd, Loops, backend
<1>2. /\ reader'[t].pc = "done" /\ \A u \in Turn : u # t => reader'[u] = reader[u]
      /\ \A u \in Turn : reader'[u].pc \notin Loops
      /\ \A u \in Turn : reader[u].pc = "none" => reader'[u].pc = "none"
  BY <1>1, NoneLive
<1>3. /\ Last >= 2 /\ messages[Last] \in Message
      /\ messages[Last].text = reader[t].text /\ ~messages[Last].errored
  <2>1. Last >= 2
    BY <1>1 DEF PanelInv, LastIsLive
  <2> QED BY <1>1, <2>1, BubbleTypes DEF Bubbles, LiveBubble
<1>4. IF reader[t].endedWithError THEN server[t].pc = "failed"
      ELSE server[t].pc = "answered" /\ reader[t].text = server[t].tokens
  <2>1. Streams(reader[t], link[t], wire[t], server[t])
    BY <1>1 DEF TurnsOK, TurnOK
  <2>2. Tokens(<<>>) = 0 /\ reader[t].text \in Nat /\ reader[t].text + 0 = reader[t].text
    BY <1>1, NothingSent DEF Reader
  <2> QED BY <1>1, <2>1, <2>2 DEF Streams, Whole, Blamed
<1>5. PICK m \in Message :
        /\ m.turn = messages[Last].turn /\ m.role = messages[Last].role
        /\ m.text = reader[t].text /\ m.errored = reader[t].endedWithError
        /\ \/ messages' = [messages EXCEPT ![Last] = m]
           \/ messages' = messages /\ m = messages[Last]
  <2>1. CASE reader[t].endedWithError
    <3> DEFINE m == [messages[Last] EXCEPT !.errored = TRUE]
    <3>1. messages' = [messages EXCEPT ![Last].errored = TRUE]
      <4>1. Last > 0
        BY <1>3, BubbleTypes
      <4> QED BY <2>1, <4>1 DEF ReadEnd
    <3>2. messages' = [messages EXCEPT ![Last] = m]
      BY <3>1
    <3>3. /\ m \in Message /\ m.turn = messages[Last].turn /\ m.role = messages[Last].role
          /\ m.text = messages[Last].text /\ m.errored = TRUE
      BY <1>3 DEF Message
    <3>4. reader[t].endedWithError = TRUE
      BY <2>1 DEF Reader
    <3> HIDE DEF m
    <3> QED BY <1>3, <3>2, <3>3, <3>4
  <2>2. CASE ~reader[t].endedWithError
    <3>1. messages' = messages
      BY <2>2 DEF ReadEnd
    <3>2. reader[t].endedWithError = FALSE /\ messages[Last].errored = FALSE
      BY <1>3, <2>2 DEF Reader, Message
    <3> QED BY <1>3, <3>1, <3>2
  <2> QED BY <2>1, <2>2
<1>6. /\ Last' = Last /\ DOMAIN messages' = 1..Last /\ Last \in 1..Last
      /\ messages'[Last] = m /\ messages[Last].turn = t
      /\ \A i \in 1..Last : i # Last => messages'[i] = messages[i]
      /\ \A i \in 1..Last : /\ messages'[i].turn = messages[i].turn
                            /\ messages'[i].role = messages[i].role
      /\ \A i \in 1..Last : messages[i].role = "assistant" /\ messages[i].turn = t => i = Last
  BY <1>1, <1>5, LastRevised
<1>7. LiveBubble' /\ SoFar'
  BY <1>1, <1>2, <1>6 DEF Bubbles, LiveBubble, SoFar
<1>8. OutcomeShown'
  <2> SUFFICES ASSUME NEW i \in 1..Last, messages'[i].role = "assistant",
                      reader'[messages'[i].turn].pc = "done"
               PROVE  IF messages'[i].errored THEN server'[messages'[i].turn].pc = "failed"
                      ELSE /\ server'[messages'[i].turn].pc = "answered"
                           /\ messages'[i].text = server'[messages'[i].turn].tokens
    BY <1>6 DEF OutcomeShown
  <2>1. CASE i = Last
    <3>1. messages'[i] = m /\ m.turn = t
      BY <1>5, <1>6, <2>1
    <3>2. IF m.errored THEN server'[t].pc = "failed"
          ELSE server'[t].pc = "answered" /\ m.text = server'[t].tokens
      BY <1>1, <1>4, <1>5
    <3> QED BY <3>1, <3>2
  <2>2. CASE i # Last
    <3>1. messages'[i] = messages[i] /\ messages[i].turn \in Turn /\ i \in DOMAIN messages
          /\ messages[i].turn # t
      BY <1>6, <2>2, BubbleTypes
    <3>2. reader[messages[i].turn].pc = "done"
      BY <1>2, <3>1
    <3> QED BY <1>1, <3>1, <3>2 DEF Bubbles, OutcomeShown
  <2> QED BY <2>1, <2>2
<1> QED BY <1>7, <1>8 DEF Bubbles

\* What stays when the transcript does: readers move on within their loops,
\* or leave them with the panel.
LEMMA BubblesKept ==
  ASSUME PanelInv, ServerInv, Bubbles, [Next]_vars,
         \/ TypeIntro \/ Compose \/ Unmount \/ Recycle \/ UNCHANGED vars
         \/ \E t \in Turn : Server(t) \/ Break(t)
  PROVE  Bubbles'
<1>1. reader \in [Turn -> Reader]
  BY DEF PanelInv, PanelTypes
<1>2. CASE UNCHANGED <<messages, asked, reader>>
  BY <1>2, BubblesStay
<1>3. CASE TypeIntro \/ Compose \/ Recycle \/ UNCHANGED vars
  BY <1>2, <1>3 DEF TypeIntro, Compose, Recycle, vars, panel
<1>4. CASE Unmount
  <2>1. UNCHANGED <<messages, asked>>
    BY <1>4 DEF Unmount
  <2>2. ASSUME NEW u \in Turn
        PROVE  /\ reader'[u].pc \in Loops => reader[u].pc \in Loops
               /\ reader[u].pc = "none" => reader'[u].pc = "none"
               /\ reader'[u].pc = "done" => reader[u].pc = "done"
               /\ reader'[u].text = reader[u].text
    <3>1. CASE u \in Aborting
      BY <1>1, <1>4, <3>1 DEF Unmount, Reader, Loops, Aborting
    <3>2. CASE u \notin Aborting
      BY <1>4, <3>2 DEF Unmount
    <3> QED BY <3>1, <3>2
  <2> QED BY <2>1, <2>2, BubblesStay
<1>5. ASSUME NEW t \in Turn, Accept(t) PROVE Bubbles'
  <2>1. /\ UNCHANGED <<messages, asked>> /\ reader[t].pc = "connecting"
        /\ reader' = [reader EXCEPT ![t].pc = "reading"]
    BY <1>5 DEF Accept
  <2>2. \A u \in Turn : /\ reader'[u].pc \in Loops => reader[u].pc \in Loops
                        /\ reader[u].pc = "none" => reader'[u].pc = "none"
                        /\ reader'[u].pc = "done" => reader[u].pc = "done"
                        /\ reader'[u].text = reader[u].text
    BY <1>1, <2>1 DEF Reader, Loops
  <2> QED BY <2>1, <2>2, BubblesStay
<1>6. ASSUME NEW t \in Turn,
             \/ StreamToken(t) \/ CallTool(t) \/ RunTool(t) \/ Reply(t) \/ Finish(t)
             \/ ModelFails(t) \/ Cut(t) \/ Break(t)
      PROVE  Bubbles'
  <2>1. UNCHANGED panel
    BY <1>6 DEF StreamToken, CallTool, RunTool, Reply, Finish, ModelFails, Cut, Break
  <2> QED BY <1>2, <2>1 DEF panel
<1> QED BY <1>3, <1>4, <1>5, <1>6 DEF Server

LEMMA OutcomeInit == Init => TurnsOK /\ Bubbles
<1> SUFFICES ASSUME Init PROVE TurnsOK /\ Bubbles
  OBVIOUS
<1>1. TurnsOK
  BY DEF Init, TurnsOK, TurnOK, Fresh
<1>2. messages = <<>> /\ Last = 0
  BY DEF Init, Last
<1>3. Bubbles
  BY <1>2 DEF Init, Bubbles, LiveBubble, SoFar, OutcomeShown, Loops
<1> QED BY <1>1, <1>3

LEMMA OutcomeStep ==
  ASSUME PanelInv, ServerInv, TurnsOK, Bubbles, [Next]_vars
  PROVE  TurnsOK' /\ Bubbles'
<1>1. TurnsOK'
  BY TurnsStep DEF Bubbles
<1>2. ASSUME NEW t \in Turn, Client(t) PROVE Bubbles'
  BY <1>2, BubblesFail, BubblesRead, BubblesEnd DEF Client
<1>3. Bubbles'
  BY <1>2, BubblesSend, BubblesKept DEF Next
<1> QED BY <1>1, <1>3

-----------------------------------------------------------------------------
(* Theorems *)

\* Every variable of the panel, the connections and the agent keeps its type.
THEOREM ChatTypeCorrect == Spec => []TypeOK
<1>1. PanelInv /\ ServerInv => TypeOK
  <2> SUFFICES ASSUME PanelInv, ServerInv PROVE TypeOK
    OBVIOUS
  <2>1. /\ reader \in [Turn -> [pc : Loops \cup {"none", "done", "failed", "aborted"},
                                text : Nat, endedWithError : BOOLEAN]]
        /\ messages \in Seq(Message) /\ asked \in 0..MaxTurns /\ typed \in 0..IntroLength
    BY DEF PanelInv, PanelTypes, Reader
  <2>2. {mounted, draft, inFlight, busy, toolStatus, serviceError} \subseteq BOOLEAN
    BY DEF PanelInv, PanelTypes
  <2> QED BY <2>1, <2>2 DEF ServerInv, ServerTypes, RunState, TypeOK
<1> QED BY PanelAlways, ServerAlways, <1>1, PTL

\* A bubble only ever shows text of its own turn, whatever is resent, rolled
\* back or broken off meanwhile.
THEOREM BubblesShowTheirOwn == Spec => []OwnText
<1>1. PanelInv => OwnText
  BY DEF PanelInv
<1> QED BY PanelAlways, <1>1, PTL

\* The controls and the rendered transcript never lie about a send.
THEOREM ControlsTellTheTruth == Spec => []BusyIsLive
<1>1. PanelInv => BusyIsLive
  <2> SUFFICES ASSUME PanelInv, mounted PROVE BusyIsLive
    BY DEF BusyIsLive
  <2>1. busy = inFlight /\ (toolStatus => busy)
    BY DEF PanelInv, Controls
  <2>2. ASSUME busy
        PROVE  /\ ShowsWork /\ Last > 0 /\ messages[Last].turn = asked
               /\ reader[asked].pc \in Loops
    <3>1. asked \in Turn /\ reader[asked].pc \in Loops
      BY <2>1, <2>2 DEF PanelInv, InFlightIsLive
    <3>2. /\ Last >= 2 /\ messages[Last].role = "assistant" /\ messages[Last].turn = asked
      BY <3>1 DEF PanelInv, LastIsLive
    <3>3. messages[Last].text \in Nat /\ messages[Last].views \in Nat /\ Last > 0
      <4>1. messages[Last] \in Message /\ Last > 0
        BY <3>2, ElementOfSeq, LenProperties DEF PanelInv, PanelTypes, Last
      <4> QED BY <4>1 DEF Message
    <3>4. ShowsWork
      BY <2>2, <3>2, <3>3 DEF ShowsWork, Skeleton, Filled
    <3> QED BY <3>1, <3>2, <3>3, <3>4
  <2> QED BY <2>1, <2>2 DEF BusyIsLive
<1> QED BY PanelAlways, <1>1, PTL

\* What OneEndFrame says of the stream of turn t: its two branches.
Over(t) == server[t].pc \in Running /\ server'[t].pc \in {"answered", "failed"}
ClosedByItsEnd(t) ==
  /\ link'[t] = "closed"
  /\ Ends(wire'[t]) = {Len(wire'[t])}
  /\ wire'[t][Len(wire'[t])] = IF server'[t].pc = "failed" THEN "error" ELSE "end"
NoNewEnd(t) ==
  /\ link'[t] = "closed" => link[t] = "closed"
  /\ Ends(wire'[t]) # {} => Ends(wire[t]) # {} /\ Len(wire'[t]) <= Len(wire[t])
EndedOnce(t) == IF Over(t) /\ link[t] = "up" THEN ClosedByItsEnd(t) ELSE NoNewEnd(t)

\* A step that leaves a stream alone, or empties it, ends nothing.
LEMMA NothingEnds ==
  ASSUME ServerInv, NEW t \in Turn, link'[t] = "closed" => link[t] = "closed",
         wire'[t] = wire[t] \/ wire'[t] = <<>>
  PROVE  NoNewEnd(t)
<1>1. wire[t] \in Seq(Frame) /\ Len(wire[t]) \in Nat
  BY LenProperties DEF ServerInv, ServerTypes
<1>2. CASE wire'[t] = wire[t]
  BY <1>1, <1>2 DEF NoNewEnd
<1>3. CASE wire'[t] = <<>>
  <2>1. DOMAIN wire'[t] = {}
    BY <1>3
  <2> QED BY <2>1 DEF NoNewEnd, Ends
<1> QED BY <1>2, <1>3

\* A run that goes on has sent no terminal frame, before the step or in it.
LEMMA StillGoing ==
  ASSUME ServerInv', NEW t \in Turn, server'[t].pc \notin {"answered", "failed"},
         link'[t] = "closed" => link[t] = "closed"
  PROVE  EndedOnce(t)
<1>1. Ends(wire'[t]) = {}
  BY DEF ServerInv, EndsAreLast, Ends
<1> QED BY <1>1 DEF EndedOnce, Over, NoNewEnd

\* The stream of a run that is over is as it was, shorter or gone.
LEMMA NotOver ==
  ASSUME ServerInv, NEW t \in Turn, server'[t] = server[t],
         link'[t] = "closed" => link[t] = "closed",
         wire'[t] = wire[t] \/ wire'[t] = <<>>
  PROVE  EndedOnce(t)
<1>1. ~Over(t)
  BY DEF Over, Running
<1>2. NoNewEnd(t)
  BY NothingEnds
<1> QED BY <1>1, <1>2 DEF EndedOnce

LEMMA ReadingEndsNothing ==
  ASSUME ServerInv, NEW t \in Turn, ReadFrame(t), NEW u \in Turn
  PROVE  EndedOnce(u)
<1>1. /\ wire[t] # <<>> /\ wire' = [wire EXCEPT ![t] = Tail(wire[t])]
      /\ UNCHANGED <<link, server>>
  BY DEF ReadFrame, backend
<1>2. wire \in [Turn -> Seq(Frame)] /\ wire[t] \in Seq(Frame)
  BY DEF ServerInv, ServerTypes
<1>3. CASE u # t
  <2>1. wire'[u] = wire[u]
    BY <1>1, <1>2, <1>3
  <2> QED BY <1>1, <2>1, NotOver
<1>4. CASE u = t
  <2> DEFINE w == Tail(wire[t])
  <2>1. /\ Len(w) = Len(wire[t]) - 1 /\ DOMAIN w = 1..Len(w) /\ Len(w) \in Nat
        /\ \A i \in 1..Len(w) : w[i] = wire[t][i + 1]
        /\ Len(wire[t]) \in Nat /\ DOMAIN wire[t] = 1..Len(wire[t])
    BY <1>1, <1>2, HeadTailProperties, LenProperties
  <2>2. wire'[t] = w
    BY <1>1, <1>2
  <2> HIDE DEF w
  <2>3. ASSUME NEW i \in Ends(w) PROVE Ends(wire[t]) # {}
    <3>1. i \in 1..Len(w) /\ w[i] \in Terminal
      BY <2>1, <2>3 DEF Ends
    <3>2. i + 1 \in DOMAIN wire[t] /\ wire[t][i + 1] \in Terminal
      BY <2>1, <3>1
    <3> QED BY <3>2 DEF Ends
  <2>4. Len(w) <= Len(wire[t])
    BY <2>1
  <2>5. NoNewEnd(t)
    BY <1>1, <2>2, <2>3, <2>4 DEF NoNewEnd
  <2>6. ~Over(t)
    BY <1>1 DEF Over, Running
  <2> QED BY <1>4, <2>5, <2>6 DEF EndedOnce
<1> QED BY <1>3, <1>4

\* What a run sends at its end is one terminal frame, behind a token at most.
EndsWith(frames, last) ==
  /\ frames \in Seq(Frame) /\ Len(frames) \in Nat \ {0} /\ frames[Len(frames)] = last
  /\ \A i \in 1..Len(frames) : frames[i] \in Terminal <=> i = Len(frames)
LEMMA EndFrames ==
  ASSUME NEW last \in Terminal, NEW frames, frames = <<last>> \/ frames = <<"token", last>>
  PROVE  EndsWith(frames, last)
<1>1. last \in Frame /\ "token" \in Frame /\ "token" \notin Terminal
  BY DEF Frame, Terminal
<1>2. CASE frames = <<last>>
  BY <1>1, <1>2 DEF EndsWith
<1>3. CASE frames = <<"token", last>>
  BY <1>1, <1>3 DEF EndsWith
<1> QED BY <1>2, <1>3

LEMMA EndIsSent ==
  ASSUME ServerInv, NEW t \in Turn, Finish(t) \/ ModelFails(t), NEW u \in Turn
  PROVE  EndedOnce(u)
<1>1. PICK pc \in {"answered", "failed"},
          frames \in {<<"end">>, <<"error">>, <<"token", "error">>} :
        /\ server' = [server EXCEPT ![t].pc = pc] /\ Emit(t, frames)
        /\ frames = <<"end">> <=> pc = "answered"
  <2>1. CASE Finish(t)
    BY <2>1 DEF Finish
  <2>2. CASE ModelFails(t)
    <3>1. <<"error">> # <<"end">> /\ <<"token", "error">> # <<"end">>
      OBVIOUS
    <3> QED BY <2>2, <3>1 DEF ModelFails, FailureFrames
  <2> QED BY <2>1, <2>2
<1>2. /\ Close(t) /\ server[t].pc \in Running
      /\ server \in [Turn -> RunState] /\ wire \in [Turn -> Seq(Frame)]
      /\ link \in [Turn -> {"none", "up", "closed", "gone"}]
  BY DEF Finish, ModelFails, Running, ServerInv, ServerTypes
<1>3. CASE u # t
  <2>1. server'[u] = server[u] /\ wire'[u] = wire[u] /\ link'[u] = link[u]
    BY <1>1, <1>2, <1>3 DEF Emit, Close
  <2> QED BY <2>1, NotOver
<1>4. CASE u = t /\ link[t] # "up"
  <2>1. wire'[t] = wire[t] /\ link'[t] = link[t]
    BY <1>1, <1>2, <1>4 DEF Emit, Close
  <2>2. NoNewEnd(t)
    BY <2>1, NothingEnds
  <2> QED BY <1>4, <2>2 DEF EndedOnce
<1>5. CASE u = t /\ link[t] = "up"
  <2> DEFINE last == IF pc = "failed" THEN "error" ELSE "end"
             c == wire[t] \o frames
  <2>1. wire'[t] = c /\ link'[t] = "closed"
    BY <1>1, <1>2, <1>5 DEF Emit, Close
  <2>2. server'[t].pc = pc
    BY <1>1, <1>2 DEF RunState
  <2>3. last \in Terminal /\ (frames = <<last>> \/ frames = <<"token", last>>)
    BY <1>1 DEF Terminal
  <2>4. /\ frames \in Seq(Frame) /\ Len(frames) \in Nat \ {0} /\ frames[Len(frames)] = last
        /\ \A i \in 1..Len(frames) : frames[i] \in Terminal <=> i = Len(frames)
    <3>1. EndsWith(frames, last)
      <4> HIDE DEF last
      <4> QED BY <2>3, EndFrames
    <3> HIDE DEF last
    <3> QED BY <3>1 DEF EndsWith
  <2>5. wire[t] \in Seq(Frame) /\ \A i \in DOMAIN wire[t] : wire[t][i] \notin Terminal
    BY <1>2 DEF ServerInv, EndsAreLast, Running
  <2>6. /\ c \in Seq(Frame) /\ Len(c) = Len(wire[t]) + Len(frames)
        /\ \A i \in 1..(Len(wire[t]) + Len(frames)) :
             c[i] = IF i <= Len(wire[t]) THEN wire[t][i] ELSE frames[i - Len(wire[t])]
    BY <2>4, <2>5, ConcatProperties
  <2>7. /\ Len(wire[t]) \in Nat /\ DOMAIN wire[t] = 1..Len(wire[t]) /\ DOMAIN c = 1..Len(c)
    BY <2>5, <2>6, LenProperties
  <2> HIDE DEF c, last
  <2>8. c[Len(c)] = last /\ Len(c) \in 1..Len(c)
    <3>1. /\ Len(c) \in 1..(Len(wire[t]) + Len(frames)) /\ ~(Len(c) <= Len(wire[t]))
          /\ Len(c) - Len(wire[t]) = Len(frames)
      BY <2>4, <2>6, <2>7
    <3> QED BY <2>4, <2>6, <3>1
  <2>9. ASSUME NEW i \in DOMAIN c, c[i] \in Terminal PROVE i = Len(c)
    <3>1. i \in 1..(Len(wire[t]) + Len(frames))
      BY <2>6, <2>7
    <3>2. ~(i <= Len(wire[t]))
      BY <2>5, <2>6, <2>7, <2>9, <3>1
    <3>3. i - Len(wire[t]) \in 1..Len(frames) /\ frames[i - Len(wire[t])] \in Terminal
      BY <2>4, <2>6, <2>7, <2>9, <3>1, <3>2
    <3>4. i - Len(wire[t]) = Len(frames)
      BY <2>4, <3>3
    <3> QED BY <2>4, <2>6, <2>7, <3>1, <3>4
  <2>10. Ends(c) = {Len(c)}
    BY <2>3, <2>7, <2>8, <2>9 DEF Ends
  <2>11. ClosedByItsEnd(t)
    BY <2>1, <2>2, <2>8, <2>10 DEF ClosedByItsEnd, last
  <2>12. Over(t)
    BY <1>2, <2>2 DEF Over
  <2> QED BY <1>5, <2>11, <2>12 DEF EndedOnce
<1> QED BY <1>3, <1>4, <1>5

\* The other steps of a server: the run goes on, or is cut off.
LEMMA NoEndIsSent ==
  ASSUME ServerInv, ServerInv', NEW t \in Turn, NEW u \in Turn,
         Accept(t) \/ StreamToken(t) \/ CallTool(t) \/ RunTool(t) \/ Reply(t) \/ Cut(t)
  PROVE  EndedOnce(u)
<1>1. /\ server \in [Turn -> RunState] /\ wire \in [Turn -> Seq(Frame)]
      /\ link \in [Turn -> {"none", "up", "closed", "gone"}]
  BY DEF ServerInv, ServerTypes
<1>2. link' = link \/ link' = [link EXCEPT ![t] = "up"]
  BY DEF Accept, StreamToken, CallTool, RunTool, Reply, Cut
<1>3. link'[u] = "closed" => link[u] = "closed"
  BY <1>1, <1>2
<1>4. wire' = wire \/ \E frames : Emit(t, frames)
  BY DEF Accept, StreamToken, CallTool, RunTool, Reply, Cut
<1>5. \E r \in RunState : server' = [server EXCEPT ![t] = r]
                          /\ r.pc \notin {"answered", "failed"}
  <2>1. server'[t] \in RunState
    BY DEF ServerInv, ServerTypes
  <2>2. server' = [server EXCEPT ![t] = server'[t]]
    BY <1>1 DEF Accept, StreamToken, CallTool, RunTool, Reply, Cut, Checkpoint
  <2>3. server'[t].pc \notin {"answered", "failed"}
    <3>1. server[t] \in RunState
      BY <1>1
    <3>2. CASE Accept(t) \/ CallTool(t) \/ Reply(t)
      BY <1>1, <3>1, <3>2 DEF Accept, CallTool, Reply, Checkpoint, RunState
    <3>3. CASE StreamToken(t)
      BY <1>1, <3>1, <3>3 DEF StreamToken, Thinking, RunState
    <3>4. CASE RunTool(t) \/ Cut(t)
      BY <1>1, <3>1, <3>4 DEF RunTool, Cut, RunState
    <3> QED BY <3>2, <3>3, <3>4
  <2> QED BY <2>1, <2>2, <2>3
<1>6. CASE u = t
  <2>1. server'[u].pc \notin {"answered", "failed"}
    BY <1>1, <1>5, <1>6
  <2> QED BY <1>3, <2>1, StillGoing
<1>7. CASE u # t
  <2>1. server'[u] = server[u] /\ wire'[u] = wire[u]
    BY <1>1, <1>4, <1>5, <1>7 DEF Emit
  <2> QED BY <1>3, <2>1, NotOver
<1> QED BY <1>6, <1>7

LEMMA EndsInTheEnd ==
  ASSUME ServerInv, ServerInv', Next, NEW u \in Turn
  PROVE  EndedOnce(u)
<1>1. /\ server \in [Turn -> RunState] /\ wire \in [Turn -> Seq(Frame)]
      /\ link \in [Turn -> {"none", "up", "closed", "gone"}]
  BY DEF ServerInv, ServerTypes
<1>2. ASSUME NEW t \in Turn, Server(t) PROVE EndedOnce(u)
  BY <1>2, EndIsSent, NoEndIsSent DEF Server
<1>3. ASSUME NEW t \in Turn, Client(t) PROVE EndedOnce(u)
  <2>1. CASE ReadFrame(t)
    BY <2>1, ReadingEndsNothing
  <2>2. CASE Refused(t) \/ ReadFails(t) \/ ReadEnd(t)
    <3>1. server' = server /\ link' = link /\ wire' = wire
      BY <2>2 DEF Refused, ReadFails, ReadEnd, backend
    <3> QED BY <3>1, NotOver
  <2> QED BY <1>3, <2>1, <2>2 DEF Client
<1>4. CASE TypeIntro \/ Compose \/ Send
  <2>1. server' = server /\ link' = link /\ wire' = wire
    BY <1>4 DEF TypeIntro, Compose, Send, backend
  <2> QED BY <2>1, NotOver
<1>5. CASE Unmount \/ \E t \in Turn : Break(t)
  <2>1. server' = server
    BY <1>5 DEF Unmount, Break, backend
  <2>2. link'[u] = "closed" => link[u] = "closed"
    BY <1>1, <1>5 DEF Unmount, Break
  <2>3. wire'[u] = wire[u] \/ wire'[u] = <<>>
    BY <1>1, <1>5 DEF Unmount, Break
  <2> QED BY <2>1, <2>2, <2>3, NotOver
<1>6. CASE Recycle
  <2>1. /\ wire' = wire
        /\ server'[u] = IF server[u].pc \in Running
                        THEN [server[u] EXCEPT !.pc = "cut"] ELSE server[u]
        /\ link'[u] = IF server[u].pc \in Running THEN "gone" ELSE link[u]
    BY <1>6 DEF Recycle
  <2>2. server[u] \in RunState
    BY <1>1
  <2>3. CASE server[u].pc \in Running
    <3>1. server'[u].pc = "cut" /\ link'[u] = "gone"
      BY <2>1, <2>2, <2>3 DEF RunState
    <3> QED BY <3>1, StillGoing
  <2>4. CASE server[u].pc \notin Running
    BY <2>1, <2>4, NotOver
  <2> QED BY <2>3, <2>4
<1> QED BY <1>2, <1>3, <1>4, <1>5, <1>6 DEF Next

\* A stream that the server closes has exactly one terminal frame, its last,
\* which tells how the run ended; no stream is closed or ended in another way.
THEOREM StreamsEndOnce == Spec => OneEndFrame
<1> DEFINE Once == \A t \in Turn : EndedOnce(t)
<1>1. ServerInv /\ [Next]_vars => ServerInv'
  BY ServerStep
<1>2. ASSUME ServerInv, ServerInv', [Next]_vars PROVE [Once]_vars
  BY <1>2, EndsInTheEnd
<1>3. [Once]_vars => [\A t \in Turn :
        LET over == server[t].pc \in Running /\ server'[t].pc \in {"answered", "failed"}
        IN IF over /\ link[t] = "up"
           THEN /\ link'[t] = "closed"
                /\ Ends(wire'[t]) = {Len(wire'[t])}
                /\ wire'[t][Len(wire'[t])] = IF server'[t].pc = "failed" THEN "error" ELSE "end"
           ELSE /\ link'[t] = "closed" => link[t] = "closed"
                /\ Ends(wire'[t]) # {} => Ends(wire[t]) # {} /\ Len(wire'[t]) <= Len(wire[t])]_vars
  BY DEF EndedOnce, Over, ClosedByItsEnd, NoNewEnd
<1> HIDE DEF Once
<1>4. ServerInv /\ ServerInv' /\ [Next]_vars => [Once]_vars
  BY <1>2
<1> QED BY ServerAlways, <1>3, <1>4, PTL DEF Spec, OneEndFrame

\* Only a turn that was cut off leaves a thread with a tool call unanswered.
THEOREM ToolErrorsStayInside == Spec => []ToolErrorsContained
<1>1. ServerInv => ToolErrorsContained
  BY DEF ServerInv, Watched, ToolErrorsContained, Running
<1> QED BY ServerAlways, <1>1, PTL

\* A turn read to its end is marked errored exactly if the server failed it,
\* and otherwise shows every piece of text that was streamed.
THEOREM OutcomesAreShown == Spec => []OutcomeShown
<1>1. PanelInv /\ ServerInv /\ TurnsOK /\ Bubbles /\ [Next]_vars => TurnsOK' /\ Bubbles'
  BY OutcomeStep
<1>2. Bubbles => OutcomeShown
  BY DEF Bubbles
<1> QED BY PanelAlways, ServerAlways, OutcomeInit, <1>1, <1>2, PTL DEF Spec

-----------------------------------------------------------------------------
(***************************************************************************)
(* The chat panel implements Conversation, for any number of turns: a send *)
(* is an Ask, its end a Settle, a failed send a Withdraw, the unmount of a *)
(* panel with a send in its loop a Settle, and every other step a stutter. *)
(*                                                                         *)
(* PanelInv is what makes the mapping work.  The bubbles are pairs, so an  *)
(* exchange is a pair; their turns grow and only the last send can be in a *)
(* loop, so a step of its reader changes the last exchange and no other.   *)
(***************************************************************************)

Exchange == [turn : Turn, status : Shown!Status]
Unfolded ==
  /\ Half \in Nat /\ Last = 2 * Half /\ Last = Len(messages)
  /\ Exchanges \in Seq(Exchange) /\ Len(Exchanges) = Half
  /\ \A i \in 1..Half :
       /\ 2 * i \in 1..Last /\ 2 * i - 1 \in 1..Last
       /\ messages[2 * i] \in Message /\ messages[2 * i - 1] \in Message
       /\ Exchanges[i] = [turn |-> messages[2 * i - 1].turn, status |-> StatusOf(messages[2 * i])]

LEMMA Unfold == PanelInv => Unfolded
<1> SUFFICES ASSUME PanelInv PROVE Unfolded
  OBVIOUS
<1>1. Last \in Nat /\ Last = Len(messages) /\ messages \in Seq(Message)
  BY LenProperties DEF PanelInv, PanelTypes, Last
<1>2. Half \in Nat /\ Last = 2 * Half
  BY <1>1, Halves DEF Half, PanelInv, Paired
<1>3. \A i \in 1..Half : 2 * i \in 1..Last /\ 2 * i - 1 \in 1..Last
  BY <1>2
<1>4. \A i \in 1..Half : messages[2 * i] \in Message /\ messages[2 * i - 1] \in Message
  BY <1>1, <1>3, ElementOfSeq
<1>5. \A m \in Message : StatusOf(m) \in Shown!Status
  BY DEF StatusOf, Shown!Status
<1>6. Exchanges = [i \in 1..Half |-> [turn |-> messages[2 * i - 1].turn,
                                     status |-> StatusOf(messages[2 * i])]]
  BY DEF Exchanges, Half, Last
<1>7. Exchanges \in [1..Half -> Exchange]
  BY <1>4, <1>5, <1>6 DEF Exchange, Message
<1>8. Exchanges \in Seq(Exchange)
  BY <1>2, <1>7, SeqDef
<1>9. Len(Exchanges) = Half
  BY <1>2, <1>7, <1>8, LenProperties
<1> QED BY <1>1, <1>2, <1>3, <1>4, <1>6, <1>8, <1>9 DEF Unfolded

LEMMA UnfoldNext == PanelInv' => Unfolded'
<1> QED BY Unfold, PTL

-----------------------------------------------------------------------------
(* What of a pair of bubbles decides its exchange *)

SameLoop(t) ==
  /\ reader'[t].pc \in Loops <=> reader[t].pc \in Loops
  /\ reader'[t].pc = "aborted" <=> reader[t].pc = "aborted"
SamePair(i) ==
  /\ messages'[2 * i - 1].turn = messages[2 * i - 1].turn
  /\ messages'[2 * i].turn = messages[2 * i].turn
  /\ messages'[2 * i].errored = messages[2 * i].errored

LEMMA ExchangeKept ==
  ASSUME Unfolded, Unfolded', NEW i \in 1..Half, i \in 1..Half',
         SamePair(i), SameLoop(messages[2 * i].turn)
  PROVE  Exchanges'[i] = Exchanges[i]
<1>1. Exchanges[i] = [turn |-> messages[2 * i - 1].turn, status |-> StatusOf(messages[2 * i])]
  BY DEF Unfolded
<1>2. Exchanges'[i] = [turn |-> messages'[2 * i - 1].turn, status |-> StatusOf(messages[2 * i])']
  BY DEF Unfolded
<1>3. StatusOf(messages[2 * i])' = StatusOf(messages[2 * i])
  BY DEF StatusOf, SamePair, SameLoop
<1> QED BY <1>1, <1>2, <1>3 DEF SamePair

LEMMA AllKept ==
  ASSUME Unfolded, Unfolded', Half' = Half,
         \A i \in 1..Half : SamePair(i) /\ SameLoop(messages[2 * i].turn)
  PROVE  Exchanges' = Exchanges
<1>1. \A i \in 1..Half : Exchanges'[i] = Exchanges[i]
  BY ExchangeKept
<1>2. /\ Exchanges \in Seq(Exchange) /\ Exchanges' \in Seq(Exchange)
      /\ Len(Exchanges') = Len(Exchanges)
  BY DEF Unfolded, Exchange
<1> QED BY <1>1, <1>2, SeqEqual DEF Unfolded

\* The send in its loop is the last exchange's, and no other's.
LEMMA LiveIsLast ==
  ASSUME PanelInv, NEW t \in Turn, reader[t].pc \in Loops
  PROVE  /\ Half >= 1 /\ t = asked /\ mounted /\ Last >= 2
         /\ messages[2 * Half].turn = t
         /\ \A i \in 1..Half : i # Half => messages[2 * i].turn # t
         /\ Shown!Waiting
<1>1. Unfolded /\ Half \in Nat /\ Last = 2 * Half
  BY Unfold DEF Unfolded
<1>2. t = asked /\ mounted /\ Last >= 2 /\ messages[Last].turn = t
  BY DEF PanelInv, LastIsLive
<1>3. Half >= 1 /\ messages[2 * Half].turn = t
  BY <1>1, <1>2
<1>4. \A i \in 1..Half : messages[2 * i].turn \in Int
  <2>1. \A i \in 1..Half : messages[2 * i] \in Message
    BY <1>1 DEF Unfolded
  <2> QED BY <2>1 DEF Message, Turn
<1>5. \A i \in 1..Half : i # Half => messages[2 * i].turn # t
  <2> SUFFICES ASSUME NEW i \in 1..Half, i # Half PROVE messages[2 * i].turn # t
    OBVIOUS
  <2>1. i < Half /\ Half \in 1..Half
    BY <1>1
  <2>2. messages[2 * i].turn < messages[2 * Half].turn
    BY <2>1 DEF PanelInv, Paired
  <2> QED BY <1>3, <1>4, <2>1, <2>2
<1>6. Exchanges[Half].status = "open" /\ Len(Exchanges) = Half
  <2>1. StatusOf(messages[2 * Half]) = "open"
    BY <1>3 DEF StatusOf, Loops
  <2>2. Half \in 1..Half
    BY <1>1, <1>3
  <2>3. Exchanges[Half].status = StatusOf(messages[2 * Half]) /\ Len(Exchanges) = Half
    BY <1>1, <2>2 DEF Unfolded
  <2> QED BY <2>1, <2>3
<1>7. Exchanges # <<>>
  BY <1>3, <1>6
<1> QED BY <1>2, <1>3, <1>5, <1>6, <1>7 DEF Shown!Waiting, Shown!Last

-----------------------------------------------------------------------------
(* The steps *)

LEMMA InitMaps == Init => Shown!Init
<1> SUFFICES ASSUME Init PROVE Shown!Init
  OBVIOUS
<1>1. PanelInv /\ Unfolded
  BY PanelInit, Unfold
<1>2. messages = <<>> /\ asked = 0 /\ Half = 0
  BY Halves DEF Init, Half, Last
<1>3. Exchanges = <<>>
  BY <1>1, <1>2, EmptySeq DEF Unfolded
<1> QED BY <1>2, <1>3 DEF Shown!Init

\* A step that leaves the bubbles and the loops alone.
LEMMA Stutters ==
  ASSUME PanelInv, PanelInv', UNCHANGED <<asked, messages>>,
         \A t \in Turn : SameLoop(t)
  PROVE  UNCHANGED <<asked, Exchanges>>
<1>1. Unfolded /\ Unfolded' /\ Half' = Half
  BY Unfold, UnfoldNext DEF Half, Last
<1>2. \A i \in 1..Half : messages[2 * i].turn \in Turn
  <2>1. \A i \in 1..Half : messages[2 * i] \in Message
    BY <1>1 DEF Unfolded
  <2> QED BY <2>1 DEF Message
<1>3. \A i \in 1..Half : SamePair(i)
  BY DEF SamePair
<1> QED BY <1>1, <1>2, <1>3, AllKept

LEMMA FrameMaps ==
  ASSUME PanelInv, PanelInv', NEW t \in Turn, ReadFrame(t)
  PROVE  UNCHANGED <<asked, Exchanges>>
<1> DEFINE f == Head(wire[t])
<1>1. reader \in [Turn -> Reader] /\ asked' = asked
  BY DEF PanelInv, PanelTypes, ReadFrame
<1>2. reader[t].pc \in Loops
  BY DEF ReadFrame, Loops
<1>3. Last >= 2 /\ Last \in 1..Len(messages) /\ messages \in Seq(Message)
  BY <1>2, LenProperties DEF PanelInv, PanelTypes, LastIsLive, Last
<1>4. \A u \in Turn : reader'[u].pc = reader[u].pc
  <2>1. CASE f = "token"
    <3>1. reader' = [reader EXCEPT ![t].text = @ + 1]
      BY <2>1 DEF ReadFrame, Terminal
    <3> QED BY <1>1, <3>1 DEF Reader
  <2>2. CASE f = "tool" \/ f = "card"
    BY <2>2 DEF ReadFrame, Terminal
  <2>3. CASE f \in Terminal
    <3>1. reader' = [reader EXCEPT ![t].endedWithError = (f = "error")]
      BY <2>3 DEF ReadFrame, Terminal, NoteEnd
    <3> QED BY <1>1, <3>1 DEF Reader
  <2> QED BY <2>1, <2>2, <2>3 DEF ReadFrame
<1>5. /\ \A i \in 1..Last : /\ messages'[i].turn = messages[i].turn
                            /\ messages'[i].errored = messages[i].errored
      /\ Last' = Last
  <2>1. messages[Last] \in Message
    BY <1>3, ElementOfSeq
  <2>2. ASSUME NEW m \in Message, messages' = [messages EXCEPT ![Last] = m],
               m.turn = messages[Last].turn, m.errored = messages[Last].errored
        PROVE  /\ \A i \in 1..Last : /\ messages'[i].turn = messages[i].turn
                                     /\ messages'[i].errored = messages[i].errored
               /\ Last' = Last
    <3>1. messages # <<>>
      BY <1>3, EmptySeq
    <3>2. /\ Len(messages') = Len(messages) /\ messages'[Last] = m
          /\ \A i \in 1..Len(messages) : i # Len(messages) => messages'[i] = messages[i]
      BY <1>3, <2>2, <3>1, BubbleRevised DEF Last
    <3> QED BY <2>2, <3>2 DEF Last
  <2>3. CASE f = "token"
    <3> DEFINE m == WithText(messages[Last], t, reader[t].text + 1)
    <3>1. messages' = [messages EXCEPT ![Last] = m]
      <4>1. messages' = [messages EXCEPT ![Last].from = t, ![Last].text = reader[t].text + 1]
        BY <1>3, <2>3 DEF ReadFrame, Terminal
      <4> QED BY <4>1, <1>3 DEF WithText
    <3>2. m \in Message /\ m.turn = messages[Last].turn
      <4>1. reader[t].text + 1 \in Nat
        BY <1>1 DEF Reader
      <4> QED BY <2>1, <4>1, BubbleFilled
    <3>3. m.errored = messages[Last].errored
      BY <2>1 DEF WithText, Message
    <3> HIDE DEF m
    <3> QED BY <2>2, <3>1, <3>2, <3>3
  <2>4. CASE f = "card"
    <3> DEFINE m == [messages[Last] EXCEPT !.views = messages[Last].views + 1]
    <3>1. messages' = [messages EXCEPT ![Last] = m]
      <4>1. messages' = [messages EXCEPT ![Last].views = @ + 1]
        BY <1>3, <2>4 DEF ReadFrame, Terminal
      <4> QED BY <4>1, <1>3
    <3>2. m \in Message /\ m.turn = messages[Last].turn
      <4>1. messages[Last].views + 1 \in Nat
        BY <2>1 DEF Message
      <4> QED BY <2>1, <4>1, BubbleGetsCard
    <3>3. m.errored = messages[Last].errored
      BY <2>1 DEF Message
    <3> HIDE DEF m
    <3> QED BY <2>2, <3>1, <3>2, <3>3
  <2>5. CASE f = "tool" \/ f \in Terminal
    BY <2>5 DEF ReadFrame, Terminal, Last
  <2> QED BY <2>3, <2>4, <2>5 DEF ReadFrame
<1>6. Unfolded /\ Unfolded' /\ Half' = Half
  BY <1>5, Unfold, UnfoldNext DEF Half
<1>7. \A i \in 1..Half : SamePair(i)
  BY <1>5, <1>6 DEF Unfolded, SamePair
<1>8. \A i \in 1..Half : SameLoop(messages[2 * i].turn)
  <2>1. \A i \in 1..Half : messages[2 * i] \in Message
    BY <1>6 DEF Unfolded
  <2>2. \A i \in 1..Half : messages[2 * i].turn \in Turn
    BY <2>1 DEF Message
  <2> QED BY <1>4, <2>2 DEF SameLoop
<1> QED BY <1>1, <1>6, <1>7, <1>8, AllKept

LEMMA SendMaps == ASSUME PanelInv, PanelInv', Send PROVE Shown!Ask
<1> DEFINE user == Blank(asked', "user")
           assistant == Blank(asked', "assistant")
           new == [turn |-> asked + 1, status |-> "open"]
<1>1. /\ mounted /\ ~inFlight /\ asked' = asked + 1 /\ asked \in Nat /\ asked' \in Turn
      /\ reader \in [Turn -> Reader]
      /\ reader' = [reader EXCEPT ![asked + 1].pc = "connecting"]
  BY ChatAssumption DEF Send, SendOnce, PanelInv, PanelTypes, Turn
<1>2. Unfolded /\ Unfolded' /\ messages \in Seq(Message) /\ Half \in Nat /\ Last = 2 * Half
  BY Unfold, UnfoldNext DEF Unfolded, PanelInv, PanelTypes
<1>3. /\ messages' = messages \o <<user, assistant>>
      /\ user \in Message /\ assistant \in Message
      /\ user.turn = asked' /\ assistant.turn = asked'
  BY <1>1 DEF Send, Message, Blank
<1> HIDE DEF user, assistant
<1>4. /\ Last' = Last + 2
      /\ \A i \in 1..Last : messages'[i] = messages[i]
      /\ messages'[Last + 1] = user /\ messages'[Last + 2] = assistant
  <2>1. messages \in Seq(Message)
    BY <1>2
  <2> QED BY <1>3, <2>1, PairAppended DEF Last
<1>5. Half' = Half + 1
  BY <1>2, <1>4, Halves DEF Half
<1>6. \A t \in Turn : reader[t].pc \notin Loops
  BY <1>1 DEF PanelInv, LastIsLive
<1>7. \A i \in 1..Half : /\ messages[2 * i].turn \in Turn
                         /\ messages[2 * i].turn # asked'
  <2>1. \A i \in 1..Half : messages[2 * i] \in Message
    BY <1>2 DEF Unfolded
  <2>2. \A i \in 1..Half : messages[2 * i].turn \in Turn
    BY <2>1 DEF Message
  <2>3. \A i \in 1..Half : messages[2 * i].turn <= asked
    BY DEF PanelInv, Paired
  <2> QED BY <1>1, <2>2, <2>3 DEF Turn
<1>8. ~Shown!Waiting
  <2> SUFFICES ASSUME Exchanges # <<>> PROVE Exchanges[Len(Exchanges)].status # "open"
    BY DEF Shown!Waiting, Shown!Last
  <2>1. Len(Exchanges) = Half /\ Half \in 1..Half
    BY <1>2, EmptySeq DEF Unfolded
  <2>2. Exchanges[Half].status = StatusOf(messages[2 * Half])
    BY <1>2, <2>1 DEF Unfolded
  <2>3. reader[messages[2 * Half].turn].pc \notin Loops
    BY <1>6, <1>7, <2>1
  <2>4. StatusOf(messages[2 * Half]) # "open"
    BY <2>3 DEF StatusOf
  <2> QED BY <2>1, <2>2, <2>4
<1>9. \A i \in 1..Half : Exchanges'[i] = Exchanges[i]
  <2> SUFFICES ASSUME NEW i \in 1..Half PROVE Exchanges'[i] = Exchanges[i]
    OBVIOUS
  <2>1. SamePair(i)
    BY <1>2, <1>4 DEF Unfolded, SamePair
  <2>2. reader'[messages[2 * i].turn] = reader[messages[2 * i].turn]
    BY <1>1, <1>7
  <2>3. SameLoop(messages[2 * i].turn)
    BY <2>2 DEF SameLoop
  <2>4. i \in 1..Half'
    BY <1>2, <1>5
  <2> QED BY <1>2, <2>1, <2>3, <2>4, ExchangeKept
<1>10. Exchanges'[Half'] = new
  <2>1. Half' \in 1..Half' /\ 2 * Half' = Last + 2 /\ 2 * Half' - 1 = Last + 1
    BY <1>2, <1>5
  <2>2. Exchanges'[Half'] = [turn |-> messages'[2 * Half' - 1].turn,
                             status |-> StatusOf(messages[2 * Half])']
    BY <1>2, <2>1 DEF Unfolded
  <2>3. messages'[2 * Half'].turn = asked' /\ messages'[2 * Half' - 1].turn = asked'
    BY <1>3, <1>4, <2>1
  <2>4. reader'[asked'].pc = "connecting"
    BY <1>1 DEF Reader
  <2>5. StatusOf(messages[2 * Half])' = "open"
    BY <2>3, <2>4 DEF StatusOf, Loops
  <2> QED BY <1>1, <2>2, <2>3, <2>5
<1>11. /\ new \in Exchange /\ Exchanges \in Seq(Exchange) /\ Len(Exchanges) = Half
       /\ Exchanges' \in Seq(Exchange) /\ Len(Exchanges') = Half + 1
  BY <1>1, <1>2, <1>5 DEF Unfolded, Exchange, Shown!Status
<1> HIDE DEF new
<1>12. Exchanges' = Append(Exchanges, new)
  <2>1. /\ Append(Exchanges, new) \in Seq(Exchange)
        /\ Len(Append(Exchanges, new)) = Half + 1
        /\ \A i \in 1..Half : Append(Exchanges, new)[i] = Exchanges[i]
        /\ Append(Exchanges, new)[Half + 1] = new
    BY <1>11, AppendProperties
  <2>2. \A i \in 1..(Half + 1) : Exchanges'[i] = Append(Exchanges, new)[i]
    <3>1. \A i \in 1..(Half + 1) : i \in 1..Half \/ i = Half + 1
      BY <1>2
    <3> QED BY <1>5, <1>9, <1>10, <2>1, <3>1
  <2> QED BY <1>11, <2>1, <2>2, SeqEqual
<1> QED BY <1>1, <1>8, <1>12 DEF Shown!Ask, new

\* A failed send takes its own pair back.
LEMMA FailMaps ==
  ASSUME PanelInv, PanelInv', NEW t \in Turn, Refused(t) \/ ReadFails(t)
  PROVE  Shown!Withdraw
<1>1. /\ reader[t].pc \in Loops /\ messages' = Rollback /\ asked' = asked
      /\ reader' = [reader EXCEPT ![t].pc = "failed"] /\ reader \in [Turn -> Reader]
  BY DEF Refused, ReadFails, SendFails, SendOver, Loops, PanelInv, PanelTypes
<1>2. /\ Half >= 1 /\ Last >= 2 /\ Shown!Waiting
      /\ \A i \in 1..Half : i # Half => messages[2 * i].turn # t
  BY <1>1, LiveIsLast
<1>3. /\ Unfolded /\ Unfolded' /\ Half \in Nat /\ Last = 2 * Half
  BY Unfold, UnfoldNext DEF Unfolded
<1>4. Half' = Half - 1 /\ \A i \in 1..(Last - 2) : messages'[i] = messages[i]
  BY <1>1, <1>2, PanelRolledBack
<1>5. \A i \in 1..(Half - 1) : Exchanges'[i] = Exchanges[i]
  <2> SUFFICES ASSUME NEW i \in 1..(Half - 1) PROVE Exchanges'[i] = Exchanges[i]
    OBVIOUS
  <2>1. /\ i \in 1..Half /\ i \in 1..Half' /\ i # Half
        /\ 2 * i \in 1..(Last - 2) /\ 2 * i - 1 \in 1..(Last - 2)
    BY <1>3, <1>4
  <2>2. SamePair(i)
    BY <1>4, <2>1 DEF SamePair
  <2>3. reader'[messages[2 * i].turn] = reader[messages[2 * i].turn]
    BY <1>1, <1>2, <2>1
  <2>4. SameLoop(messages[2 * i].turn)
    BY <2>3 DEF SameLoop
  <2> QED BY <1>3, <2>1, <2>2, <2>4, ExchangeKept
<1> DEFINE n == Half - 1
<1>6. /\ Exchanges \in Seq(Exchange) /\ Len(Exchanges) = n + 1 /\ n \in Nat
      /\ Exchanges' \in Seq(Exchange) /\ Len(Exchanges') = n
      /\ \A i \in 1..n : Exchanges[i] \in Exchange
  <2>1. /\ Exchanges \in Seq(Exchange) /\ Len(Exchanges) = n + 1 /\ n \in Nat
        /\ Exchanges' \in Seq(Exchange) /\ Len(Exchanges') = n
    BY <1>2, <1>3, <1>4 DEF Unfolded, Exchange
  <2> HIDE DEF n
  <2> QED BY <2>1, ElementOfSeq
<1>7. n = Len(Exchanges) - 1 /\ \A i \in 1..n : Exchanges'[i] = Exchanges[i]
  BY <1>2, <1>3, <1>5 DEF Unfolded
<1> HIDE DEF n
<1>8. Exchanges' = SubSeq(Exchanges, 1, n)
  <2>1. /\ SubSeq(Exchanges, 1, n) \in Seq(Exchange)
        /\ Len(SubSeq(Exchanges, 1, n)) = IF 1 <= n THEN n - 1 + 1 ELSE 0
        /\ \A i \in 1..(n - 1 + 1) : SubSeq(Exchanges, 1, n)[i] = Exchanges[1 + i - 1]
    BY <1>6, SubSeqProperties
  <2>2. n - 1 + 1 = n /\ (\A i \in 1..n : 1 + i - 1 = i) /\ (1 <= n \/ n = 0)
    BY <1>6
  <2>3. /\ Len(SubSeq(Exchanges, 1, n)) = n
        /\ \A i \in 1..n : SubSeq(Exchanges, 1, n)[i] = Exchanges[i]
    BY <2>1, <2>2
  <2> QED BY <1>6, <1>7, <2>1, <2>3, SeqEqual
<1> QED BY <1>1, <1>2, <1>7, <1>8 DEF Shown!Withdraw

\* A send in its loop leaves it, and its pair stays.
LEMMA Settles ==
  ASSUME PanelInv, PanelInv', NEW t \in Turn,
         reader[t].pc \in Loops, reader'[t].pc \notin Loops,
         asked' = asked, Half' = Half,
         \A i \in 1..Half : i # Half => SamePair(i),
         messages'[2 * Half - 1].turn = messages[2 * Half - 1].turn,
         messages'[2 * Half].turn = messages[2 * Half].turn,
         \A u \in Turn : u # t => SameLoop(u)
  PROVE  Shown!Settle
<1> DEFINE st == StatusOf(messages[2 * Half])'
           new == [Exchanges[Half] EXCEPT !.status = st]
<1>1. /\ Half \in 1..Half /\ Shown!Waiting /\ messages[2 * Half].turn = t
      /\ \A i \in 1..Half : i # Half => messages[2 * i].turn # t
  <2>1. Half \in Nat
    BY Unfold DEF Unfolded
  <2> QED BY <2>1, LiveIsLast
<1>2. Unfolded /\ Unfolded'
  BY Unfold, UnfoldNext
<1>3. st \in Shown!Status \ {"open"}
  <2>1. reader'[messages'[2 * Half'].turn].pc \notin Loops
    BY <1>1
  <2> QED BY <2>1 DEF StatusOf, Shown!Status
<1>4. \A i \in 1..Half : i # Half => Exchanges'[i] = Exchanges[i]
  <2> SUFFICES ASSUME NEW i \in 1..Half, i # Half PROVE Exchanges'[i] = Exchanges[i]
    OBVIOUS
  <2>1. messages[2 * i].turn \in Turn /\ messages[2 * i].turn # t
    <3>1. messages[2 * i] \in Message
      BY <1>2 DEF Unfolded
    <3> QED BY <1>1, <3>1 DEF Message
  <2>2. SameLoop(messages[2 * i].turn) /\ SamePair(i)
    BY <2>1
  <2> QED BY <1>2, <2>2, ExchangeKept
<1>5. /\ Exchanges[Half] = [turn |-> messages[2 * Half - 1].turn,
                            status |-> StatusOf(messages[2 * Half])]
      /\ Exchanges'[Half] = [turn |-> messages'[2 * Half - 1].turn, status |-> st]
  BY <1>1, <1>2 DEF Unfolded
<1> HIDE DEF st
<1>6. Exchanges'[Half] = new
  BY <1>5
<1>7. /\ Exchanges \in Seq(Exchange) /\ Len(Exchanges) = Half /\ Exchanges[Half] \in Exchange
      /\ Exchanges' \in Seq(Exchange) /\ Len(Exchanges') = Half
  BY <1>1, <1>2, ElementOfSeq DEF Unfolded, Exchange
<1>8. new \in Exchange
  BY <1>3, <1>7 DEF Exchange
<1>9. [Exchanges EXCEPT ![Len(Exchanges)].status = st] = [Exchanges EXCEPT ![Half] = new]
  BY <1>7
<1> HIDE DEF new
<1>10. Exchanges' = [Exchanges EXCEPT ![Half] = new]
  <2>1. /\ [Exchanges EXCEPT ![Half] = new] \in Seq(Exchange)
        /\ Len([Exchanges EXCEPT ![Half] = new]) = Half
        /\ \A j \in 1..Half : [Exchanges EXCEPT ![Half] = new][j] =
                                IF j = Half THEN new ELSE Exchanges[j]
    BY <1>1, <1>7, <1>8, ExceptSeq
  <2>2. \A j \in 1..Half : Exchanges'[j] = [Exchanges EXCEPT ![Half] = new][j]
    BY <1>4, <1>6, <2>1
  <2> QED BY <1>7, <2>1, <2>2, SeqEqual
<1> QED BY <1>1, <1>3, <1>9, <1>10 DEF Shown!Settle

\* The send ends: its bubble may be marked, and is settled either way.
LEMMA EndMaps ==
  ASSUME PanelInv, PanelInv', NEW t \in Turn, ReadEnd(t)
  PROVE  Shown!Settle
<1>1. /\ reader[t].pc \in Loops /\ asked' = asked
      /\ reader' = [reader EXCEPT ![t].pc = "done"] /\ reader \in [Turn -> Reader]
  BY DEF ReadEnd, SendOver, Loops, PanelInv, PanelTypes
<1>2. reader'[t].pc \notin Loops /\ \A u \in Turn : u # t => SameLoop(u)
  BY <1>1 DEF Reader, Loops, SameLoop
<1>3. Last >= 2 /\ messages \in Seq(Message) /\ Last \in 1..Len(messages)
  BY <1>1, LiveIsLast, LenProperties DEF Last, PanelInv, PanelTypes
<1>4. /\ Last' = Last /\ messages'[Last].turn = messages[Last].turn
      /\ \A i \in 1..Last : i # Last => messages'[i] = messages[i]
  <2>1. CASE reader[t].endedWithError
    <3> DEFINE m == [messages[Last] EXCEPT !.errored = TRUE]
    <3>1. messages' = [messages EXCEPT ![Last] = m]
      <4>1. messages' = [messages EXCEPT ![Last].errored = TRUE]
        BY <1>3, <2>1 DEF ReadEnd
      <4> QED BY <4>1
    <3>2. m \in Message /\ m.turn = messages[Last].turn /\ messages # <<>>
      <4>1. messages[Last] \in Message
        BY <1>3, ElementOfSeq
      <4>2. m \in Message /\ m.turn = messages[Last].turn
        BY <4>1 DEF Message
      <4> QED BY <1>3, <4>2, EmptySeq
    <3> HIDE DEF m
    <3> QED BY <1>3, <3>1, <3>2, BubbleRevised DEF Last
  <2>2. CASE ~reader[t].endedWithError
    BY <2>2 DEF ReadEnd, Last
  <2> QED BY <2>1, <2>2
<1>5. Unfolded /\ Half' = Half /\ Half \in Nat /\ Last = 2 * Half /\ Half >= 1
  BY <1>1, <1>4, LiveIsLast, Unfold DEF Half, Unfolded
<1>6. messages'[2 * Half].turn = messages[2 * Half].turn
  BY <1>4, <1>5
<1>7. messages'[2 * Half - 1].turn = messages[2 * Half - 1].turn
  <2>1. 2 * Half - 1 \in 1..Last /\ 2 * Half - 1 # Last
    BY <1>5
  <2> QED BY <1>4, <2>1
<1>8. \A i \in 1..Half : i # Half => SamePair(i)
  <2> SUFFICES ASSUME NEW i \in 1..Half, i # Half PROVE SamePair(i)
    OBVIOUS
  <2>1. 2 * i \in 1..Last /\ 2 * i - 1 \in 1..Last /\ 2 * i # Last /\ 2 * i - 1 # Last
    BY <1>5
  <2> QED BY <1>4, <2>1 DEF SamePair
<1> QED BY <1>1, <1>2, <1>5, <1>6, <1>7, <1>8, Settles

\* Leaving the page abandons the send in its loop, if there is one.
LEMMA UnmountMaps ==
  ASSUME PanelInv, PanelInv', Unmount
  PROVE  Shown!Settle \/ UNCHANGED <<asked, Exchanges>>
<1>1. /\ asked' = asked /\ messages' = messages /\ Half' = Half
      /\ reader' = [t \in Turn |-> IF t \in Aborting THEN [reader[t] EXCEPT !.pc = "aborted"]
                                   ELSE reader[t]]
      /\ reader \in [Turn -> Reader]
  BY DEF Unmount, Half, Last, PanelInv, PanelTypes
<1>2. \A i : SamePair(i)
  BY <1>1 DEF SamePair
<1>3. \A t \in Turn : t \notin Aborting => SameLoop(t)
  BY <1>1 DEF SameLoop
<1>4. CASE Aborting = {}
  BY <1>1, <1>3, <1>4, Stutters
<1>5. CASE Aborting # {}
  <2>1. asked \in Turn /\ reader[asked].pc \in Loops /\ Aborting = {asked}
    BY <1>5 DEF Aborting
  <2>2. reader'[asked].pc \notin Loops
    BY <1>1, <2>1 DEF Reader, Loops
  <2>3. \A u \in Turn : u # asked => SameLoop(u)
    BY <1>3, <2>1
  <2>4. Shown!Settle
    BY <1>1, <1>2, <2>1, <2>2, <2>3, Settles
  <2> QED BY <2>4
<1> QED BY <1>4, <1>5

LEMMA StepMaps ==
  ASSUME PanelInv, PanelInv', [Next]_vars
  PROVE  [Shown!Next]_<<asked, Exchanges>>
<1>1. CASE Send
  BY <1>1, SendMaps DEF Shown!Next
<1>2. CASE Unmount
  BY <1>2, UnmountMaps DEF Shown!Next
<1>3. ASSUME NEW t \in Turn, Client(t) PROVE [Shown!Next]_<<asked, Exchanges>>
  <2>1. CASE Refused(t) \/ ReadFails(t)
    BY <2>1, FailMaps DEF Shown!Next
  <2>2. CASE ReadFrame(t)
    BY <2>2, FrameMaps
  <2>3. CASE ReadEnd(t)
    BY <2>3, EndMaps DEF Shown!Next
  <2> QED BY <1>3, <2>1, <2>2, <2>3 DEF Client
<1>4. ASSUME NEW t \in Turn, Accept(t) PROVE UNCHANGED <<asked, Exchanges>>
  <2>1. /\ reader[t].pc = "connecting" /\ reader' = [reader EXCEPT ![t].pc = "reading"]
        /\ UNCHANGED <<asked, messages>> /\ reader \in [Turn -> Reader]
    BY <1>4 DEF Accept, PanelInv, PanelTypes
  <2>2. \A u \in Turn : SameLoop(u)
    BY <2>1 DEF SameLoop, Loops, Reader
  <2> QED BY <2>1, <2>2, Stutters
<1>5. ASSUME UNCHANGED <<asked, messages, reader>> PROVE UNCHANGED <<asked, Exchanges>>
  <2>1. \A u \in Turn : SameLoop(u)
    BY <1>5 DEF SameLoop
  <2> QED BY <1>5, <2>1, Stutters
<1>6. ASSUME NEW t \in Turn,
             \/ StreamToken(t) \/ CallTool(t) \/ RunTool(t) \/ Reply(t) \/ Finish(t)
             \/ ModelFails(t) \/ Cut(t) \/ Break(t)
      PROVE  UNCHANGED <<asked, messages, reader>>
  BY <1>6 DEF StreamToken, CallTool, RunTool, Reply, Finish, ModelFails, Cut, Break, panel
<1>7. CASE TypeIntro \/ Compose \/ Recycle \/ UNCHANGED vars
  <2>1. UNCHANGED <<asked, messages, reader>>
    BY <1>7 DEF TypeIntro, Compose, Recycle, vars, panel
  <2> QED BY <1>5, <2>1
<1>8. ASSUME NEW t \in Turn, Server(t) \/ Break(t) PROVE UNCHANGED <<asked, Exchanges>>
  BY <1>4, <1>5, <1>6, <1>8 DEF Server
<1> QED BY <1>1, <1>2, <1>3, <1>7, <1>8, <1>5 DEF Next

-----------------------------------------------------------------------------
(* Theorem *)

\* Whatever is streamed, refused, broken off or left, the transcript is a list
\* of question and answer pairs, settled once and in order, and a send that
\* fails takes back its own pair and no other.
THEOREM PanelImplementsConversation == Spec => ImplementsConversation
<1>1. PanelInv /\ PanelInv' /\ [Next]_vars => [Shown!Next]_<<asked, Exchanges>>
  BY StepMaps
<1> QED BY PanelAlways, InitMaps, <1>1, PTL DEF Spec, Shown!Spec, ImplementsConversation

===============================================================================
