------------------------------ MODULE SseParser ------------------------------
(***************************************************************************)
(* web/lib/sse-parser.ts: frames out of the bytes of /chat/stream, which   *)
(* the network delivers in chunks cut anywhere, inside a line terminator   *)
(* or a character included.                                                *)
(*                                                                         *)
(* The server writes messages, each one line and a blank line, as          *)
(* sse-starlette does.  The text of a line is a few symbols: the field     *)
(* name with its space, the two halves of a JSON object and what is        *)
(* between, which stands for type and content.  The accent is a character  *)
(* of two bytes, since serialise does not escape it; the others are of one.*)
(*                                                                         *)
(* push is synchronous: from the first byte of a chunk to its return it is *)
(* one step per byte that the decoder takes and one per turn of its loop,  *)
(* and the properties speak of the states in which it is not running.      *)
(***************************************************************************)
EXTENDS Integers, Sequences, FiniteSets

CONSTANTS
  MaxMessages,   \* bound: messages of one stream
  Terminators    \* line terminators a server or a proxy may use

CRLF == <<"CR", "LF">>
ASSUME SseAssumption ==
  /\ MaxMessages \in Nat
  /\ Terminators \subseteq {CRLF, <<"CR">>, <<"LF">>}

VARIABLES
  eol,       \* the line terminator of the stream
  stream,    \* the characters the server has written
  log,       \* its messages, each with where in the stream it ends
  received,  \* the characters of it that have been pushed
  half,      \* and the first byte of the next one
  held,      \* the decoder holds an unfinished character
  buffer,
  frames,    \* what push has returned so far
  pc         \* where push is: "idle", "decode" or "drain"

server == <<eol, stream, log>>
parser == <<received, half, held, buffer, frames, pc>>
vars == <<server, parser>>

-----------------------------------------------------------------------------
\* The server's side: frames of three contents, a keep-alive comment, and a
\* frame of a type this client does not know.
Message == {"token", "accent", "end", "ping", "future"}
Known == {"token", "accent", "end"}
Accent == "e'"
Content(m) == IF m = "accent" THEN Accent ELSE m

Line(m) == IF m = "ping" THEN <<":", "ping">> ELSE <<"data:", "{", Content(m), "}">>

Write(m) ==
  /\ Len(log) < MaxMessages
  /\ stream' = stream \o Line(m) \o eol \o eol
  /\ log' = Append(log, [message |-> m, end |-> Len(stream')])
  /\ UNCHANGED <<eol, parser>>

-----------------------------------------------------------------------------
EVENT_BOUNDARY == {CRLF \o CRLF, <<"CR", "CR">>, <<"LF", "LF">>}

\* Where a boundary is in the text; no two of them start at one place.
Matches(text) ==
  {m \in (1..Len(text)) \X EVENT_BOUNDARY :
     /\ m[1] + Len(m[2]) - 1 <= Len(text)
     /\ \A k \in DOMAIN m[2] : text[m[1] + k - 1] = m[2][k]}
FirstMatch(text) ==
  CHOOSE m \in Matches(text) : \A n \in Matches(text) : m[1] <= n[1]

\* As if only the first character of the boundary were cut off.
AfterFirst(m) == m[1] + 1
After(m) == m[1] + Len(m[2])

\* The payload of parseEvent: the places of the event that are on a data line,
\* behind the name of the field, the lines being split at LINE_TERMINATOR.
LINE_TERMINATOR == {"CR", "LF"}
StartsLine(event, q) == q = 1 \/ event[q - 1] \in LINE_TERMINATOR
Payload(event) ==
  {p \in DOMAIN event : \E q \in 1..(p - 1) :
     /\ event[q] = "data:" /\ StartsLine(event, q)
     /\ \A r \in q..p : event[r] \notin LINE_TERMINATOR}

\* A payload becomes a frame if it is a JSON object of a known frame type.
FRAME_TYPES == {"token", Accent, "end"}
FramesOf(event) ==
  {t \in FRAME_TYPES : \E i, j, k \in Payload(event) :
     /\ i < j /\ j < k /\ Payload(event) = {i, j, k}
     /\ event[i] = "{" /\ event[j] = t /\ event[k] = "}"}
ParseEvent(event) ==
  IF FramesOf(event) = {} THEN <<>> ELSE <<CHOOSE t \in FramesOf(event) : TRUE>>

-----------------------------------------------------------------------------
Init ==
  /\ eol \in Terminators
  /\ stream = <<>> /\ log = <<>>
  /\ received = 0 /\ half = FALSE
  /\ held = FALSE /\ buffer = <<>> /\ frames = <<>>
  /\ pc = "idle"

\* TextDecoder (external) with stream: true keeps an unfinished character for
\* the next chunk.  As if each chunk were decoded on its own.
Forgotten(unfinished) == FALSE
Kept(unfinished) == unfinished

\* push(chunk): the decoder takes the next byte of the chunk, which may be the
\* last; a second byte without its first would come out as a question mark.
Decode(last) ==
  /\ pc \in {"idle", "decode"}
  /\ received < Len(stream)
  /\ LET next == stream[received + 1]
         complete == next = Accent => half
     IN /\ half' = ~complete
        /\ held' = IF last THEN Kept(~complete) ELSE ~complete
        /\ IF complete
           THEN /\ received' = received + 1
                /\ buffer' = Append(buffer, IF next = Accent /\ ~held THEN "?" ELSE next)
           ELSE UNCHANGED <<received, buffer>>
  /\ pc' = IF last THEN "drain" ELSE "decode"
  /\ UNCHANGED <<server, frames>>

\* The loop of push: cut off event after event, and return when there is none.
Cut ==
  /\ pc = "drain" /\ Matches(buffer) # {}
  /\ LET m == FirstMatch(buffer)
     IN /\ frames' = frames \o ParseEvent(SubSeq(buffer, 1, m[1] - 1))
        /\ buffer' = SubSeq(buffer, After(m), Len(buffer))
  /\ UNCHANGED <<server, received, half, held, pc>>

Return ==
  /\ pc = "drain" /\ Matches(buffer) = {}
  /\ pc' = "idle"
  /\ UNCHANGED <<server, received, half, held, buffer, frames>>

Next ==
  \/ \E m \in Message : Write(m)
  \/ \E last \in BOOLEAN : Decode(last)
  \/ Cut \/ Return

Spec == Init /\ [][Next]_vars

-----------------------------------------------------------------------------
(* Properties *)

\* The messages that have arrived to their last byte, and those of them that
\* this client knows.
Arrived == {i \in DOMAIN log : log[i].end <= received}
Due == {i \in Arrived : log[i].message \in Known}

\* However the stream is cut into chunks, push has returned each known frame
\* that has arrived, once, in order and intact, as soon as its last byte is
\* here, and nothing for comments, unknown types and half a message.
EachFrameOnce ==
  pc = "idle" =>
    /\ Len(frames) = Cardinality(Due)
    /\ \A i \in Due : frames[Cardinality({j \in Due : j <= i})] = Content(log[i].message)

\* The parser keeps no more than the unfinished message: its memory does not
\* grow with the stream, and between two messages it is empty.
KeepsUnfinishedOnly ==
  pc = "idle" =>
    /\ \A i \in Arrived : Len(buffer) <= received - log[i].end
    /\ held => half
=============================================================================
