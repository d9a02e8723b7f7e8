--------------------------- MODULE SseParserProofs ---------------------------
(***************************************************************************)
(* However the stream is cut into chunks, sse-parser.ts returns each known *)
(* frame that has arrived once, in order and intact, and keeps nothing but *)
(* the unfinished message: for streams of any length.                      *)
(*                                                                         *)
(* The invariant places the buffer in the stream: it is what has arrived   *)
(* behind the last message that was cut off, and what was returned are the *)
(* known frames up to that message.  A part of a message has no boundary   *)
(* in it, and the first boundary of a text that begins with a whole        *)
(* message is the one that ends it (NoMatchInPart, MatchOfWhole).          *)
(***************************************************************************)
EXTENDS SseParser, SequenceTheorems, FiniteSetTheorems, TLAPS

-----------------------------------------------------------------------------
(* What the server writes *)

Symbol == {"data:", "{", "}", ":", "ping", "token", Accent, "end", "future", "CR", "LF"}
Written(m) == Line(m) \o eol \o eol

LEMMA Pairs ==
  /\ \A a, b : <<a>> \o <<b>> = <<a, b>>
  /\ \A a, b : <<a, b>> \o <<a, b>> = <<a, b, a, b>>
<1>1. ASSUME NEW a, NEW b PROVE <<a>> \o <<b>> = <<a, b>>
  <2> DEFINE S == {a, b}
             s == <<a>> \o <<b>>
             u == <<a, b>>
  <2>1. <<a>> \in Seq(S) /\ <<b>> \in Seq(S) /\ Len(<<a>>) = 1 /\ Len(<<b>>) = 1
    OBVIOUS
  <2>2. s \in Seq(S) /\ Len(s) = 2 /\ s[1] = a /\ s[2] = b
    BY <2>1, ConcatProperties
  <2>3. u \in Seq(S) /\ Len(u) = 2 /\ u[1] = a /\ u[2] = b
    OBVIOUS
  <2> HIDE DEF s, u, S
  <2>4. \A i \in 1..Len(s) : s[i] = u[i]
    BY <2>2, <2>3
  <2>5. s = u
    BY <2>2, <2>3, <2>4, SeqEqual
  <2> QED BY <2>5 DEF s, u
<1>2. ASSUME NEW a, NEW b PROVE <<a, b>> \o <<a, b>> = <<a, b, a, b>>
  <2> DEFINE S == {a, b}
             s == <<a, b>> \o <<a, b>>
             u == <<a, b, a, b>>
  <2>1. <<a, b>> \in Seq(S) /\ Len(<<a, b>>) = 2
    OBVIOUS
  <2>2. s \in Seq(S) /\ Len(s) = 4 /\ s[1] = a /\ s[2] = b /\ s[3] = a /\ s[4] = b
    BY <2>1, ConcatProperties
  <2>3. u \in Seq(S) /\ Len(u) = 4 /\ u[1] = a /\ u[2] = b /\ u[3] = a /\ u[4] = b
    OBVIOUS
  <2> HIDE DEF s, u, S
  <2>4. \A i \in 1..Len(s) : s[i] = u[i]
    BY <2>2, <2>3
  <2>5. s = u
    BY <2>2, <2>3, <2>4, SeqEqual
  <2> QED BY <2>5 DEF s, u
<1> QED BY <1>1, <1>2

LEMMA LineProperties ==
  ASSUME NEW m \in Message
  PROVE  /\ Line(m) \in Seq(Symbol) /\ DOMAIN Line(m) = 1..Len(Line(m))
         /\ Len(Line(m)) = IF m = "ping" THEN 2 ELSE 4
         /\ \A k \in 1..Len(Line(m)) : Line(m)[k] \notin LINE_TERMINATOR
<1>1. (Content(m) \in Symbol /\ Content(m) \notin LINE_TERMINATOR) \/ m = "ping"
  BY DEF Message, Content, Symbol, LINE_TERMINATOR, Accent
<1>2. CASE m = "ping"
  BY <1>2 DEF Line, Symbol, LINE_TERMINATOR
<1>3. CASE m # "ping"
  <2> DEFINE c == Content(m)
  <2>1. Line(m) = <<"data:", "{", c, "}">>
    BY <1>3 DEF Line
  <2>2. c \in Symbol /\ c \notin LINE_TERMINATOR
    BY <1>1, <1>3
  <2> HIDE DEF c
  <2>3. /\ "data:" \in Symbol /\ "{" \in Symbol /\ "}" \in Symbol
        /\ "data:" \notin LINE_TERMINATOR /\ "{" \notin LINE_TERMINATOR /\ "}" \notin LINE_TERMINATOR
    BY DEF Symbol, LINE_TERMINATOR
  <2> DEFINE x == "data:"
             y == "{"
             z == "}"
             s == <<x, y, c, z>>
  <2> HIDE DEF x, y, z
  <2>4. /\ s \in Seq(Symbol) /\ Len(s) = 4 /\ DOMAIN s = 1..4
        /\ \A k \in 1..4 : s[k] \in {x, y, c, z}
    <3>1. x \in Symbol /\ y \in Symbol /\ z \in Symbol
      BY <2>3 DEF x, y, z
    <3>2. s \in Seq(Symbol)
      BY <2>2, <3>1
    <3> QED BY <3>2
  <2>5. {x, y, c, z} \cap LINE_TERMINATOR = {}
    BY <2>2, <2>3 DEF x, y, z
  <2>6. Line(m) = s
    BY <2>1 DEF x, y, z
  <2> HIDE DEF s
  <2> QED BY <1>3, <2>4, <2>5, <2>6
<1> QED BY <1>2, <1>3

\* The three blank lines, character by character.
LEMMA Boundaries ==
  /\ <<"CR">> \o <<"CR">> = <<"CR", "CR">> /\ <<"LF">> \o <<"LF">> = <<"LF", "LF">>
  /\ CRLF \o CRLF = <<"CR", "LF", "CR", "LF">>
BY Pairs, Zenon DEF CRLF

LEMMA EolProperties ==
  ASSUME eol \in Terminators
  PROVE  eol \in Seq(Symbol) /\ eol \o eol \in EVENT_BOUNDARY
<1>1. eol \in {CRLF, <<"CR">>, <<"LF">>}
  BY SseAssumption
<1>2. "CR" \in Symbol /\ "LF" \in Symbol
  BY DEF Symbol
<1>3. \A a, b \in Symbol : <<a>> \in Seq(Symbol) /\ <<a, b>> \in Seq(Symbol)
  OBVIOUS
<1>4. eol \in Seq(Symbol)
  BY <1>1, <1>2, <1>3, Zenon DEF CRLF
<1>5. eol \o eol \in EVENT_BOUNDARY
  BY <1>1, Boundaries DEF EVENT_BOUNDARY
<1> QED BY <1>4, <1>5

LEMMA WrittenProperties ==
  ASSUME NEW m \in Message, eol \in Terminators
  PROVE  LET L == Len(Line(m))
             w == Written(m)
         IN /\ w \in Seq(Symbol) /\ DOMAIN w = 1..Len(w)
            /\ Len(w) = L + Len(eol \o eol)
            /\ eol \o eol \in EVENT_BOUNDARY
            /\ \A k \in 1..L : w[k] = Line(m)[k]
            /\ \A k \in 1..Len(eol \o eol) : w[L + k] = (eol \o eol)[k]
<1> DEFINE L == Len(Line(m))
           e == eol \o eol
           w == Written(m)
<1>1. eol \in Seq(Symbol) /\ e \in EVENT_BOUNDARY
  BY EolProperties
<1>2. e \in Seq(Symbol) /\ Line(m) \in Seq(Symbol) /\ L \in Nat
  BY <1>1, LineProperties, ConcatProperties, LenProperties
<1>3. w = Line(m) \o e
  BY <1>1, <1>2, ConcatAssociative DEF Written
<1> HIDE DEF e, w
<1>4. /\ w \in Seq(Symbol) /\ DOMAIN w = 1..Len(w) /\ Len(w) = L + Len(e)
      /\ \A k \in 1..L : w[k] = Line(m)[k]
      /\ \A k \in 1..Len(e) : w[L + k] = e[k]
  <2>1. /\ Line(m) \o e \in Seq(Symbol) /\ Len(Line(m) \o e) = L + Len(e)
        /\ \A i \in 1..(L + Len(e)) :
             (Line(m) \o e)[i] = IF i <= L THEN Line(m)[i] ELSE e[i - L]
    BY <1>2, ConcatProperties
  <2>2. Len(e) \in Nat /\ DOMAIN (Line(m) \o e) = 1..Len(Line(m) \o e)
    BY <1>2, <2>1, LenProperties
  <2> QED BY <1>2, <1>3, <2>1, <2>2
<1> QED BY <1>1, <1>4 DEF e, w

-----------------------------------------------------------------------------
(* Boundaries in what was written *)

LEMMA Shapes ==
  /\ \A b \in EVENT_BOUNDARY :
       /\ DOMAIN b = 1..Len(b)
       /\ \/ Len(b) = 4 /\ b[1] = "CR" /\ b[2] = "LF" /\ b[3] = "CR" /\ b[4] = "LF"
          \/ Len(b) = 2 /\ b[1] = b[2] /\ b[1] \in {"CR", "LF"}
  /\ \A b, c \in EVENT_BOUNDARY : b[1] = c[1] /\ b[2] = c[2] => b = c
<1>1. EVENT_BOUNDARY = {<<"CR", "LF", "CR", "LF">>, <<"CR", "CR">>, <<"LF", "LF">>}
  BY Boundaries DEF EVENT_BOUNDARY
<1> QED BY <1>1

\* A boundary in a text that agrees with a message is behind its line, and
\* there only if the message is all there.
LEMMA MatchProperties ==
  ASSUME NEW m \in Message, eol \in Terminators, NEW text, Len(text) \in Nat,
         \A k \in 1..Len(text) : k <= Len(Written(m)) => text[k] = Written(m)[k],
         NEW x \in Matches(text)
  PROVE  /\ x = <<x[1], x[2]>> /\ x[1] \in Nat /\ x[1] > Len(Line(m))
         /\ Len(Written(m)) <= Len(text)
         /\ x[1] = Len(Line(m)) + 1 => x[2] = eol \o eol
<1> DEFINE L == Len(Line(m))
           w == Written(m)
           e == eol \o eol
           n == Len(text)
           i == x[1]
           b == x[2]
<1>1. /\ x = <<i, b>> /\ i \in 1..n /\ b \in EVENT_BOUNDARY /\ i + Len(b) - 1 <= n
      /\ \A k \in DOMAIN b : text[i + k - 1] = b[k]
  BY DEF Matches
<1>2. /\ e \in EVENT_BOUNDARY /\ Len(w) = L + Len(e) /\ L \in Nat
      /\ \A k \in 1..L : w[k] \notin {"CR", "LF"}
      /\ \A k \in 1..Len(e) : w[L + k] = e[k]
  <2>1. \A k \in 1..L : Line(m)[k] \notin {"CR", "LF"}
    BY LineProperties DEF LINE_TERMINATOR
  <2>2. L \in Nat
    BY LineProperties, LenProperties
  <2> QED BY <2>1, <2>2, WrittenProperties
<1> HIDE DEF L, w, e, n, i, b
<1>3. \A c \in {b, e} :
        /\ DOMAIN c = 1..Len(c)
        /\ \/ Len(c) = 4 /\ c[1] = "CR" /\ c[2] = "LF" /\ c[3] = "CR" /\ c[4] = "LF"
           \/ Len(c) = 2 /\ c[1] = c[2] /\ c[1] \in {"CR", "LF"}
  BY <1>1, <1>2, Shapes
<1>4. n \in Nat /\ \A k \in 1..n : k <= Len(w) => text[k] = w[k]
  BY DEF n, w
<1>5. text[i] = b[1] /\ text[i + 1] = b[2] /\ b[1] \in {"CR", "LF"} /\ i + 1 <= n
  <2>1. Len(b) >= 2 /\ 1 \in DOMAIN b /\ 2 \in DOMAIN b /\ Len(b) \in Nat
    BY <1>3
  <2>2. i + 1 - 1 = i /\ i + 2 - 1 = i + 1
    BY <1>1, <1>4
  <2>3. text[i + 1 - 1] = b[1] /\ text[i + 2 - 1] = b[2]
    BY <1>1, <2>1
  <2>4. i + 1 <= n
    BY <1>1, <1>4, <2>1
  <2>5. b[1] \in {"CR", "LF"}
    BY <1>3
  <2> QED BY <2>2, <2>3, <2>4, <2>5
<1>6. i > L
  <2> SUFFICES ASSUME i <= L PROVE FALSE
    BY <1>1, <1>2, <1>4
  <2>1. i \in 1..L /\ i <= Len(w)
    BY <1>1, <1>2, <1>3
  <2> QED BY <1>1, <1>2, <1>4, <1>5, <2>1
<1>7. Len(w) <= n
  <2> SUFFICES ASSUME n < Len(w) PROVE FALSE
    BY <1>2, <1>3, <1>4
  <2>1. Len(b) < Len(e)
    BY <1>1, <1>2, <1>3, <1>4, <1>6
  <2>2. Len(b) = 2 /\ Len(e) = 4 /\ e[1] = "CR" /\ e[2] = "LF" /\ e[3] = "CR" /\ e[4] = "LF"
        /\ b[1] = b[2]
    BY <1>3, <2>1
  <2>3. i = L + 1 \/ i = L + 2
    BY <1>1, <1>2, <1>4, <1>6, <2>2
  <2>4. text[L + 2] = "LF"
    BY <1>1, <1>2, <1>4, <1>5, <2>2, <2>3
  <2>5. i = L + 1 => text[L + 1] = "CR"
    BY <1>1, <1>2, <1>4, <1>5, <2>2
  <2>6. i = L + 2 => text[L + 3] = "CR"
    BY <1>1, <1>2, <1>4, <1>5, <2>2
  <2> QED BY <1>2, <1>5, <2>2, <2>3, <2>4, <2>5, <2>6
<1>8. ASSUME i = L + 1 PROVE b = e
  <2>1. text[L + 1] = e[1] /\ text[L + 2] = e[2]
    BY <1>2, <1>3, <1>4, <1>7
  <2>2. i + 1 = L + 2
    BY <1>2, <1>8
  <2> QED BY <1>1, <1>2, <1>5, <1>8, <2>1, <2>2, Shapes
<1>9. i \in Nat
  BY <1>1, <1>4
<1> QED BY <1>1, <1>6, <1>7, <1>8, <1>9 DEF L, w, e, n, i, b

\* A part of a message has no boundary in it.
LEMMA NoMatchInPart ==
  ASSUME NEW m \in Message, eol \in Terminators, NEW text, Len(text) \in Nat,
         \A k \in 1..Len(text) : k <= Len(Written(m)) => text[k] = Written(m)[k],
         Len(text) < Len(Written(m))
  PROVE  Matches(text) = {}
<1> SUFFICES ASSUME NEW x \in Matches(text) PROVE FALSE
  OBVIOUS
<1>1. Len(Written(m)) <= Len(text)
  BY MatchProperties
<1>2. Len(Written(m)) \in Nat
  BY WrittenProperties, LenProperties
<1> QED BY <1>1, <1>2

\* The first boundary behind a whole message is the one that ends it.
LEMMA MatchOfWhole ==
  ASSUME NEW m \in Message, eol \in Terminators, NEW text, Len(text) \in Nat,
         \A k \in 1..Len(text) : k <= Len(Written(m)) => text[k] = Written(m)[k],
         Len(Written(m)) <= Len(text)
  PROVE  Matches(text) # {} /\ FirstMatch(text) = <<Len(Line(m)) + 1, eol \o eol>>
<1> DEFINE L == Len(Line(m))
           w == Written(m)
           e == eol \o eol
           x == <<L + 1, e>>
<1>1. /\ e \in EVENT_BOUNDARY /\ Len(w) = L + Len(e) /\ L \in Nat /\ Len(e) >= 2
      /\ DOMAIN e = 1..Len(e) /\ Len(e) \in Nat
      /\ \A k \in 1..Len(e) : w[L + k] = e[k]
  <2>1. /\ e \in EVENT_BOUNDARY /\ Len(w) = L + Len(e) /\ L \in Nat
        /\ \A k \in 1..Len(e) : w[L + k] = e[k]
    BY WrittenProperties, LineProperties, LenProperties
  <2>2. Len(e) \in {2, 4} /\ DOMAIN e = 1..Len(e)
    <3> HIDE DEF e
    <3> QED BY <2>1, Shapes
  <2> QED BY <2>1, <2>2
<1>2. /\ Len(text) \in Nat /\ Len(w) <= Len(text)
      /\ \A k \in 1..Len(text) : k <= Len(w) => text[k] = w[k]
  OBVIOUS
<1>3. \A y \in Matches(text) :
        y = <<y[1], y[2]>> /\ y[1] \in Nat /\ y[1] > L /\ (y[1] = L + 1 => y[2] = e)
  BY MatchProperties
<1> HIDE DEF L, w, e
<1>4. x \in Matches(text)
  <2>1. L + 1 \in 1..Len(text) /\ (L + 1) + Len(e) - 1 <= Len(text)
    BY <1>1, <1>2
  <2>2. \A k \in DOMAIN e : text[(L + 1) + k - 1] = e[k]
    BY <1>1, <1>2
  <2> QED BY <1>1, <2>1, <2>2 DEF Matches
<1>5. \A y \in Matches(text) : L + 1 <= y[1]
  BY <1>1, <1>3
<1>6. FirstMatch(text) = x
  <2> DEFINE Q(y) == \A z \in Matches(text) : y[1] <= z[1]
  <2>1. Q(x)
    BY <1>5
  <2>2. ASSUME NEW y \in Matches(text), Q(y) PROVE y = x
    <3>1. y[1] = L + 1
      BY <1>1, <1>3, <1>4, <1>5, <2>2
    <3> QED BY <1>3, <3>1
  <2> QED BY <1>4, <2>1, <2>2 DEF FirstMatch
<1> QED BY <1>4, <1>6 DEF L, e

-----------------------------------------------------------------------------
(* The event of one line *)

\* A known frame comes out, of a comment or an unknown frame nothing.
LEMMA ParseOfLine ==
  ASSUME NEW m \in Message
  PROVE  ParseEvent(Line(m)) = IF m \in Known THEN <<Content(m)>> ELSE <<>>
<1> DEFINE l == Line(m)
<1>1. DOMAIN l = 1..Len(l) /\ \A k \in 1..Len(l) : l[k] \notin LINE_TERMINATOR
  BY LineProperties
<1>2. CASE m = "ping"
  <2>1. DOMAIN l = 1..2 /\ l[1] # "data:" /\ l[2] # "data:"
    BY <1>2 DEF Line
  <2> HIDE DEF l
  <2>2. Payload(l) = {}
    BY <2>1 DEF Payload
  <2>3. FramesOf(l) = {}
    BY <2>2 DEF FramesOf
  <2>4. m \notin Known
    BY <1>2 DEF Known
  <2> QED BY <2>3, <2>4 DEF ParseEvent, l
<1>3. CASE m # "ping"
  <2> DEFINE c == Content(m)
  <2>1. DOMAIN l = 1..4 /\ Len(l) = 4 /\ l[1] = "data:" /\ l[2] = "{" /\ l[3] = c /\ l[4] = "}"
    BY <1>3 DEF Line
  <2>2. c \in FRAME_TYPES <=> m \in Known
    BY <1>3 DEF Content, FRAME_TYPES, Known, Message, Accent
  <2> HIDE DEF l, c
  <2>3. Payload(l) = {2, 3, 4}
    <3>0. DOMAIN l = 1..4 /\ Len(l) = 4 /\ l[1] = "data:"
      BY <2>1
    <3>1. ASSUME NEW p \in 2..4 PROVE p \in Payload(l)
      <4>1. 1 \in 1..(p - 1) /\ l[1] = "data:" /\ StartsLine(l, 1)
        BY <3>0 DEF StartsLine
      <4>2. \A r \in 1..p : l[r] \notin LINE_TERMINATOR
        BY <1>1, <3>0
      <4>3. p \in DOMAIN l
        BY <3>0
      <4> QED BY <4>1, <4>2, <4>3 DEF Payload
    <3>2. 1 \notin Payload(l)
      BY DEF Payload
    <3>3. Payload(l) \subseteq 1..4
      BY <2>1 DEF Payload
    <3>4. 2..4 = {2, 3, 4} /\ 1..4 = {1} \cup 2..4
      OBVIOUS
    <3> QED BY <3>1, <3>2, <3>3, <3>4
  <2>4. FramesOf(l) = {c} \cap FRAME_TYPES
    <3>1. ASSUME NEW i \in {2, 3, 4}, NEW j \in {2, 3, 4}, NEW k \in {2, 3, 4}, i < j, j < k
          PROVE  i = 2 /\ j = 3 /\ k = 4
      BY <3>1
    <3>2. 2 < 3 /\ 3 < 4
      OBVIOUS
    <3> QED BY <2>1, <2>3, <3>1, <3>2 DEF FramesOf
  <2>5. CASE m \in Known
    <3>1. FramesOf(l) = {c}
      BY <2>2, <2>4, <2>5
    <3> QED BY <2>5, <3>1 DEF ParseEvent, l, c
  <2>6. CASE m \notin Known
    <3>1. FramesOf(l) = {}
      BY <2>2, <2>4, <2>6
    <3> QED BY <2>6, <3>1 DEF ParseEvent, l
  <2> QED BY <2>5, <2>6
<1> QED BY <1>2, <1>3

-----------------------------------------------------------------------------
(* The inductive invariant *)

\* Where the i-th message starts: behind the one before it.
Start(i) == IF i = 1 THEN 0 ELSE log[i - 1].end

\* The stream is the messages of the log, one after the other.
Holds(i) ==
  LET w == Written(log[i].message)
  IN /\ log[i].end = Start(i) + Len(w)
     /\ \A k \in 1..Len(w) : stream[Start(i) + k] = w[k]
ServerInv ==
  /\ eol \in Terminators
  /\ stream \in Seq(Symbol)
  /\ log \in Seq([message : Message, end : Nat])
  /\ Len(stream) = Start(Len(log) + 1)
  /\ \A i \in DOMAIN log : Holds(i)
  /\ \A i, j \in DOMAIN log : i < j => log[i].end < log[j].end

\* The first c messages have been cut off: the buffer is what has arrived
\* behind them, and their known frames have been returned.
KnownUpTo(c) == {i \in 1..c : log[i].message \in Known}
Place(S, i) == Cardinality({j \in S : j <= i})
ReturnedUpTo(c) ==
  /\ Len(frames) = Cardinality(KnownUpTo(c))
  /\ \A i \in KnownUpTo(c) : frames[Place(KnownUpTo(c), i)] = Content(log[i].message)
HoldsBehind(c) ==
  /\ received = Start(c + 1) + Len(buffer)
  /\ \A k \in 1..Len(buffer) : buffer[k] = stream[Start(c + 1) + k]
ParserInv ==
  /\ pc \in {"idle", "decode", "drain"}
  /\ received \in 0..Len(stream) /\ half \in BOOLEAN /\ held = half
  /\ buffer \in Seq(Symbol) /\ frames \in Seq(FRAME_TYPES)
  /\ \E c \in 0..Len(log) :
       /\ HoldsBehind(c) /\ ReturnedUpTo(c)
       /\ pc = "idle" => \A i \in Arrived : i <= c

IInv == ServerInv /\ ParserInv

LEMMA ServerFacts ==
  ASSUME ServerInv
  PROVE  /\ Len(log) \in Nat /\ DOMAIN log = 1..Len(log) /\ Len(stream) \in Nat
         /\ \A i \in DOMAIN log :
              /\ log[i].message \in Message /\ log[i].end \in Nat /\ log[i].end <= Len(stream)
              /\ Start(i + 1) = log[i].end
         /\ \A c \in 0..Len(log) : Start(c + 1) \in Nat /\ Start(c + 1) <= Len(stream)
<1>1. Len(log) \in Nat /\ DOMAIN log = 1..Len(log) /\ Len(stream) \in Nat
  BY LenProperties DEF ServerInv
<1>2. ASSUME NEW i \in DOMAIN log
      PROVE  log[i].message \in Message /\ log[i].end \in Nat /\ Start(i + 1) = log[i].end
  <2>1. log[i] \in [message : Message, end : Nat]
    BY <1>1, ElementOfSeq DEF ServerInv
  <2>2. i + 1 # 1 /\ (i + 1) - 1 = i
    BY <1>1
  <2> QED BY <2>1, <2>2 DEF Start
<1>3. ASSUME NEW i \in DOMAIN log PROVE log[i].end <= Len(stream)
  <2>1. Len(log) \in DOMAIN log /\ Len(stream) = log[Len(log)].end
    BY <1>1, <1>2 DEF ServerInv
  <2>2. i = Len(log) \/ i < Len(log)
    BY <1>1
  <2> QED BY <1>2, <2>1, <2>2 DEF ServerInv
<1>4. ASSUME NEW c \in 0..Len(log) PROVE Start(c + 1) \in Nat /\ Start(c + 1) <= Len(stream)
  <2>1. CASE c = 0
    BY <1>1, <2>1 DEF Start
  <2>2. CASE c # 0
    <3>1. c \in DOMAIN log
      BY <1>1, <2>2
    <3> QED BY <1>2, <1>3, <3>1
  <2> QED BY <2>1, <2>2
<1> QED BY <1>1, <1>2, <1>3, <1>4

LEMMA KnownFinite ==
  ASSUME NEW c \in Nat
  PROVE  IsFiniteSet(KnownUpTo(c)) /\ Cardinality(KnownUpTo(c)) \in Nat
<1>1. 1 \in Int /\ c \in Int
  OBVIOUS
<1>2. IsFiniteSet(1..c)
  BY <1>1, FS_Interval
<1>3. KnownUpTo(c) \in SUBSET (1..c)
  BY DEF KnownUpTo
<1> QED BY <1>2, <1>3, FS_Subset, FS_CardinalityType

\* The message that follows those cut off is what the buffer begins with.
LEMMA NextMessage ==
  ASSUME IInv, NEW c \in 0..Len(log), HoldsBehind(c)
  PROVE  /\ Len(buffer) \in Nat
         /\ c = Len(log) => buffer = <<>>
         /\ c < Len(log) =>
              LET w == Written(log[c + 1].message)
              IN /\ c + 1 \in DOMAIN log /\ log[c + 1].message \in Message
                 /\ log[c + 1].end = Start(c + 1) + Len(w) /\ Start(c + 1) \in Nat
                 /\ \A k \in 1..Len(buffer) : k <= Len(w) => buffer[k] = w[k]
<1>1. Len(buffer) \in Nat /\ received \in 0..Len(stream) /\ received = Start(c + 1) + Len(buffer)
  BY LenProperties DEF IInv, ParserInv, HoldsBehind
<1>2. ASSUME c = Len(log) PROVE buffer = <<>>
  <2>1. Len(stream) = Start(c + 1) /\ Len(stream) \in Nat
    BY <1>2, ServerFacts DEF IInv, ServerInv
  <2>2. Len(buffer) = 0
    BY <1>1, <2>1
  <2> QED BY <2>2, EmptySeq DEF IInv, ParserInv
<1>3. ASSUME c < Len(log)
      PROVE  LET w == Written(log[c + 1].message)
             IN /\ c + 1 \in DOMAIN log /\ log[c + 1].message \in Message
                /\ log[c + 1].end = Start(c + 1) + Len(w) /\ Start(c + 1) \in Nat
                /\ \A k \in 1..Len(buffer) : k <= Len(w) => buffer[k] = w[k]
  <2> DEFINE w == Written(log[c + 1].message)
  <2>1. c + 1 \in DOMAIN log
    BY <1>3, ServerFacts DEF IInv
  <2>2. log[c + 1].message \in Message /\ Start(c + 1) \in Nat
    BY <2>1, ServerFacts DEF IInv
  <2>3. /\ log[c + 1].end = Start(c + 1) + Len(w)
        /\ \A k \in 1..Len(w) : stream[Start(c + 1) + k] = w[k]
    BY <2>1 DEF IInv, ServerInv, Holds
  <2>4. Len(w) \in Nat
    BY <2>2, WrittenProperties, LenProperties DEF IInv, ServerInv
  <2> HIDE DEF w
  <2>5. \A k \in 1..Len(buffer) : k <= Len(w) => buffer[k] = w[k]
    BY <1>1, <2>3, <2>4 DEF HoldsBehind
  <2> QED BY <2>1, <2>2, <2>3, <2>5 DEF w
<1> QED BY <1>1, <1>2, <1>3

LEMMA WriteStep ==
  ASSUME IInv, NEW m \in Message, Write(m)
  PROVE  IInv'
<1>0. PICK n \in Nat : n = Len(log)
  BY ServerFacts DEF IInv
<1> DEFINE w == Written(m)
           new == [message |-> m, end |-> Len(stream')]
<1>1. /\ n \in Nat /\ DOMAIN log = 1..n /\ Len(stream) \in Nat
      /\ \A i \in DOMAIN log : log[i].end \in Nat /\ log[i].end <= Len(stream)
      /\ \A c \in 0..n : Start(c + 1) \in Nat /\ Start(c + 1) <= Len(stream)
      /\ Len(stream) = Start(n + 1)
  BY <1>0, ServerFacts DEF IInv, ServerInv
<1>2. /\ eol' = eol /\ UNCHANGED parser /\ log' = Append(log, new)
      /\ stream' = stream \o w
  <2>1. stream' = stream \o Line(m) \o eol \o eol
    BY DEF Write
  <2>2. stream \in Seq(Symbol) /\ eol \in Seq(Symbol) /\ Line(m) \in Seq(Symbol)
    BY EolProperties, LineProperties DEF IInv, ServerInv
  <2>3. stream \o Line(m) \in Seq(Symbol) /\ Line(m) \o eol \in Seq(Symbol)
    BY <2>2, ConcatProperties
  <2>4. (stream \o Line(m)) \o eol = stream \o (Line(m) \o eol)
    BY <2>2, ConcatAssociative
  <2>5. (stream \o (Line(m) \o eol)) \o eol = stream \o ((Line(m) \o eol) \o eol)
    BY <2>2, <2>3, ConcatAssociative
  <2> QED BY <2>1, <2>4, <2>5 DEF Write, Written
<1>3. /\ w \in Seq(Symbol) /\ Len(w) \in Nat /\ Len(w) > 0
  <2>1. /\ w \in Seq(Symbol) /\ Len(w) = Len(Line(m)) + Len(eol \o eol)
        /\ eol \o eol \in EVENT_BOUNDARY
    BY WrittenProperties DEF IInv, ServerInv
  <2>2. Len(eol \o eol) \in {2, 4} /\ Len(Line(m)) \in {2, 4}
    BY <2>1, Shapes, LineProperties
  <2> HIDE DEF w
  <2> QED BY <2>1, <2>2, LenProperties
<1>4. /\ stream' \in Seq(Symbol) /\ Len(stream') = Len(stream) + Len(w)
      /\ \A p \in 1..Len(stream) : stream'[p] = stream[p]
      /\ \A k \in 1..Len(w) : stream'[Len(stream) + k] = w[k]
  <2> HIDE DEF w
  <2>1. stream \in Seq(Symbol)
    BY DEF IInv, ServerInv
  <2>2. /\ stream \o w \in Seq(Symbol) /\ Len(stream \o w) = Len(stream) + Len(w)
        /\ \A p \in 1..(Len(stream) + Len(w)) :
             (stream \o w)[p] = IF p <= Len(stream) THEN stream[p] ELSE w[p - Len(stream)]
    BY <1>3, <2>1, ConcatProperties
  <2>3. \A p \in 1..Len(stream) : (stream \o w)[p] = stream[p]
    BY <1>1, <1>3, <2>2
  <2>4. \A k \in 1..Len(w) : (stream \o w)[Len(stream) + k] = w[k]
    BY <1>1, <1>3, <2>2
  <2> QED BY <1>2, <2>2, <2>3, <2>4
<1>5. /\ log' \in Seq([message : Message, end : Nat])
      /\ Len(log') = n + 1 /\ DOMAIN log' = 1..(n + 1)
      /\ \A i \in 1..n : log'[i] = log[i]
      /\ log'[n + 1] = new
  <2>1. new \in [message : Message, end : Nat]
    BY <1>1, <1>3, <1>4
  <2>2. log \in Seq([message : Message, end : Nat])
    BY DEF IInv, ServerInv
  <2> HIDE DEF new
  <2> QED BY <1>1, <1>2, <2>1, <2>2, AppendProperties, LenProperties
<1>6. \A i \in 1..(n + 1) : Start(i)' = Start(i)
  <2> SUFFICES ASSUME NEW i \in 1..(n + 1) PROVE Start(i)' = Start(i)
    OBVIOUS
  <2>1. i # 1 => i - 1 \in 1..n
    BY <1>1
  <2> QED BY <1>5, <2>1 DEF Start
<1>7. ServerInv'
  <2>1. eol' \in Terminators
    BY <1>2 DEF IInv, ServerInv
  <2>2. (Len(stream) = Start(Len(log) + 1))'
    <3>1. Len(log') + 1 = n + 2 /\ n + 2 # 1 /\ (n + 2) - 1 = n + 1
      BY <1>1, <1>5
    <3>2. log'[n + 1].end = Len(stream')
      BY <1>5
    <3> QED BY <3>1, <3>2 DEF Start
  <2>3. ASSUME NEW i \in 1..(n + 1) PROVE Holds(i)'
    <3>1. CASE i \in 1..n
      <4> DEFINE v == Written(log[i].message)
      <4>1. /\ log[i].end = Start(i) + Len(v)
            /\ \A k \in 1..Len(v) : stream[Start(i) + k] = v[k]
        BY <1>1, <3>1 DEF IInv, ServerInv, Holds
      <4>2. Written(log[i].message)' = v
        BY <1>2, <1>5, <3>1 DEF Written
      <4>3. Start(i) \in Nat /\ log[i].end <= Len(stream) /\ Len(v) \in Nat
        <5>1. i - 1 \in 0..n /\ (i - 1) + 1 = i
          BY <1>1, <3>1
        <5>2. Start(i) \in Nat /\ log[i].end <= Len(stream)
          BY <1>1, <3>1, <5>1
        <5>3. log[i].message \in Message /\ eol \in Terminators
          BY <1>1, <3>1, ServerFacts DEF IInv, ServerInv
        <5> QED BY <5>2, <5>3, WrittenProperties, LenProperties
      <4> HIDE DEF v
      <4>4. \A k \in 1..Len(v) : stream'[Start(i) + k] = v[k]
        BY <1>1, <1>4, <4>1, <4>3
      <4>5. log'[i].end = Start(i)' + Len(v) /\ Start(i)' = Start(i)
        BY <1>5, <1>6, <3>1, <4>1
      <4> QED BY <4>2, <4>4, <4>5 DEF Holds
    <3>2. CASE i = n + 1
      <4>1. Written(log[i].message)' = w /\ log'[i].end = Len(stream')
        <5>1. log'[i].message = m /\ log'[i].end = Len(stream')
          BY <1>5, <3>2
        <5> QED BY <1>2, <5>1 DEF Written
      <4>2. Start(i)' = Len(stream)
        BY <1>1, <1>6, <3>2
      <4> HIDE DEF w
      <4> QED BY <1>4, <4>1, <4>2 DEF Holds
    <3> QED BY <1>1, <3>1, <3>2
  <2>4. ASSUME NEW i \in 1..(n + 1), NEW j \in 1..(n + 1), i < j PROVE log'[i].end < log'[j].end
    <3>1. CASE j \in 1..n
      <4>1. i \in 1..n
        BY <1>1, <2>4, <3>1
      <4> QED BY <1>1, <1>5, <2>4, <3>1, <4>1 DEF IInv, ServerInv
    <3>2. CASE j = n + 1
      <4>1. i \in 1..n
        BY <1>1, <2>4, <3>2
      <4>2. log'[j].end = Len(stream) + Len(w) /\ log'[i].end = log[i].end
        BY <1>4, <1>5, <3>2, <4>1
      <4> HIDE DEF w
      <4> QED BY <1>1, <1>3, <4>1, <4>2
    <3> QED BY <1>1, <3>1, <3>2
  <2> HIDE DEF w, new
  <2> QED BY <1>4, <1>5, <2>1, <2>2, <2>3, <2>4 DEF ServerInv
<1>8. ParserInv'
  <2> HIDE DEF w
  <2>1. UNCHANGED <<received, half, held, buffer, frames, pc>>
    BY <1>2 DEF parser
  <2>2. PICK c \in 0..n : /\ HoldsBehind(c) /\ ReturnedUpTo(c)
                          /\ pc = "idle" => \A i \in Arrived : i <= c
    BY <1>0 DEF IInv, ParserInv
  <2>3. HoldsBehind(c)'
    <3>1. Start(c + 1)' = Start(c + 1) /\ Start(c + 1) \in Nat
      BY <1>1, <1>6
    <3>2. received \in 0..Len(stream) /\ Len(buffer) \in Nat
      BY LenProperties DEF IInv, ParserInv
    <3>3. \A k \in 1..Len(buffer) : Start(c + 1) + k \in 1..Len(stream)
      BY <1>1, <2>2, <3>1, <3>2 DEF HoldsBehind
    <3> QED BY <1>4, <2>1, <2>2, <3>1, <3>3 DEF HoldsBehind
  <2>4. ReturnedUpTo(c)'
    <3>1. \A i \in 1..c : log'[i] = log[i]
      BY <1>1, <1>5
    <3>2. KnownUpTo(c)' = KnownUpTo(c)
      BY <3>1 DEF KnownUpTo
    <3>3. \A i \in KnownUpTo(c) : log'[i] = log[i]
      BY <3>1 DEF KnownUpTo
    <3> QED BY <2>1, <2>2, <3>2, <3>3 DEF ReturnedUpTo, Place
  <2>5. Arrived' = Arrived
    <3>1. log'[n + 1].end > received
      BY <1>1, <1>3, <1>4, <1>5 DEF IInv, ParserInv
    <3>2. received \in Nat
      BY <1>1 DEF IInv, ParserInv
    <3>3. \A i \in 1..(n + 1) : (log'[i].end <= received <=> i \in 1..n /\ log[i].end <= received)
      <4>1. \A i \in 1..(n + 1) : i \in 1..n \/ i = n + 1
        BY <1>1
      <4>2. log'[n + 1].end \in Nat /\ n + 1 \notin 1..n
        BY <1>1, <1>3, <1>4, <1>5
      <4>3. \A i \in 1..n : log'[i].end = log[i].end
        BY <1>5
      <4>4. ~(log'[n + 1].end <= received)
        BY <3>1, <3>2, <4>2
      <4> QED BY <4>1, <4>2, <4>3, <4>4
    <3>4. 1..n \subseteq 1..(n + 1)
      BY <1>1
    <3> QED BY <1>1, <1>5, <2>1, <3>3, <3>4 DEF Arrived
  <2>6. received' \in 0..Len(stream')
    <3>1. received \in 0..Len(stream)
      BY DEF IInv, ParserInv
    <3> QED BY <1>1, <1>3, <1>4, <2>1, <3>1
  <2>7. c \in 0..Len(log')
    BY <1>1, <1>5
  <2> QED BY <2>1, <2>2, <2>3, <2>4, <2>5, <2>6, <2>7 DEF IInv, ParserInv
<1> QED BY <1>7, <1>8 DEF IInv

\* The server's side does not notice the parser.
LEMMA ServerUnchanged == ServerInv /\ UNCHANGED server => ServerInv'
<1> SUFFICES ASSUME ServerInv, UNCHANGED server PROVE ServerInv'
  OBVIOUS
<1>1. eol' = eol /\ stream' = stream /\ log' = log
  BY DEF server
<1>2. \A i : Start(i)' = Start(i) /\ Holds(i)' = Holds(i)
  BY <1>1 DEF Start, Holds, Written
<1>3. Start(Len(log) + 1)' = Start(Len(log) + 1)
  BY <1>1 DEF Start
<1> QED BY <1>1, <1>2, <1>3 DEF ServerInv

LEMMA DecodeStep ==
  ASSUME IInv, NEW last \in BOOLEAN, Decode(last)
  PROVE  IInv'
<1> DEFINE next == stream[received + 1]
           complete == next = Accent => half
<1>1. /\ UNCHANGED server /\ UNCHANGED frames
      /\ pc' \in {"decode", "drain"} /\ received < Len(stream)
      /\ half' = ~complete /\ held' = ~complete
      /\ IF complete
         THEN /\ received' = received + 1
              /\ buffer' = Append(buffer, IF next = Accent /\ ~held THEN "?" ELSE next)
         ELSE UNCHANGED <<received, buffer>>
  BY DEF Decode, Kept
<1>2. /\ received \in 0..Len(stream) /\ held = half
      /\ buffer \in Seq(Symbol) /\ frames \in Seq(FRAME_TYPES) /\ half \in BOOLEAN
  BY DEF IInv, ParserInv
<1>3. next \in Symbol /\ Len(stream) \in Nat /\ Len(buffer) \in Nat
  <2>1. stream \in Seq(Symbol) /\ Len(stream) \in Nat
    BY ServerFacts DEF IInv, ServerInv
  <2> QED BY <1>1, <1>2, <2>1, ElementOfSeq, LenProperties
<1>4. complete => buffer' = Append(buffer, next)
  BY <1>1, <1>2
<1>5. eol' = eol /\ stream' = stream /\ log' = log
  BY <1>1 DEF server
<1>6. PICK c \in 0..Len(log) : HoldsBehind(c) /\ ReturnedUpTo(c)
  BY DEF IInv, ParserInv
<1>7. Start(c + 1)' = Start(c + 1) /\ Start(c + 1) \in Nat
  BY <1>5, ServerFacts DEF Start, IInv
<1> HIDE DEF complete
<1>8. /\ buffer' \in Seq(Symbol) /\ received' \in 0..Len(stream)
      /\ half' \in BOOLEAN /\ HoldsBehind(c)'
  <2>1. CASE complete
    <3>1. /\ buffer' \in Seq(Symbol) /\ Len(buffer') = Len(buffer) + 1
          /\ \A k \in 1..Len(buffer) : buffer'[k] = buffer[k]
          /\ buffer'[Len(buffer) + 1] = next
      BY <1>2, <1>3, <1>4, <2>1, AppendProperties
    <3>2. received' = received + 1 /\ received = Start(c + 1) + Len(buffer)
      BY <1>1, <1>6, <2>1 DEF HoldsBehind
    <3>3. received' \in 0..Len(stream) /\ half' \in BOOLEAN
      BY <1>1, <1>2, <1>3, <2>1, <3>2
    <3>4. \A k \in 1..(Len(buffer) + 1) : buffer'[k] = stream[Start(c + 1) + k]
      <4>1. \A k \in 1..(Len(buffer) + 1) : k \in 1..Len(buffer) \/ k = Len(buffer) + 1
        BY <1>3
      <4>2. \A k \in 1..Len(buffer) : buffer'[k] = stream[Start(c + 1) + k]
        BY <1>6, <3>1 DEF HoldsBehind
      <4>3. Start(c + 1) + (Len(buffer) + 1) = received + 1
        BY <1>3, <1>7, <3>2
      <4> QED BY <3>1, <4>1, <4>2, <4>3
    <3>5. received + 1 = Start(c + 1) + (Len(buffer) + 1)
      BY <1>3, <1>7, <3>2
    <3> QED BY <1>5, <1>7, <3>1, <3>2, <3>3, <3>4, <3>5 DEF HoldsBehind
  <2>2. CASE ~complete
    <3>1. received' = received /\ buffer' = buffer /\ half' \in BOOLEAN
      BY <1>1, <2>2
    <3> QED BY <1>2, <1>5, <1>6, <1>7, <3>1 DEF HoldsBehind
  <2> QED BY <2>1, <2>2
<1>9. ReturnedUpTo(c)'
  BY <1>1, <1>5, <1>6 DEF ReturnedUpTo, KnownUpTo, Place
<1>10. ParserInv'
  <2>1. pc' # "idle" /\ pc' \in {"idle", "decode", "drain"}
    BY <1>1
  <2> QED BY <1>1, <1>2, <1>5, <1>6, <1>8, <1>9, <2>1 DEF ParserInv
<1> QED BY <1>1, <1>10, ServerUnchanged DEF IInv

\* A turn of the loop cuts off the next message, and returns its frame if it
\* is a known one.
LEMMA CutStep ==
  ASSUME IInv, Cut
  PROVE  IInv'
<1>1. PICK c \in 0..Len(log) : HoldsBehind(c) /\ ReturnedUpTo(c)
  BY DEF IInv, ParserInv
<1>2. /\ buffer \in Seq(Symbol) /\ Len(buffer) \in Nat /\ frames \in Seq(FRAME_TYPES)
      /\ Matches(buffer) # {} /\ pc = "drain" /\ Len(log) \in Nat
      /\ eol \in Terminators
  BY LenProperties, ServerFacts DEF IInv, ParserInv, ServerInv, Cut
<1>3. c < Len(log)
  <2>1. buffer = <<>> => Matches(buffer) = {}
    BY DEF Matches
  <2> QED BY <1>1, <1>2, <2>1, NextMessage
<1> DEFINE m == log[c + 1].message
           w == Written(m)
           L == Len(Line(m))
           e == eol \o eol
<1>4. /\ c + 1 \in DOMAIN log /\ m \in Message
      /\ log[c + 1].end = Start(c + 1) + Len(w) /\ Start(c + 1) \in Nat
      /\ \A k \in 1..Len(buffer) : k <= Len(w) => buffer[k] = w[k]
  BY <1>1, <1>3, NextMessage
<1>5. /\ w \in Seq(Symbol) /\ Len(w) \in Nat /\ Len(w) = L + Len(e) /\ L \in Nat /\ L > 0
      /\ Len(e) \in Nat /\ \A k \in 1..L : w[k] = Line(m)[k]
  <2>1. /\ w \in Seq(Symbol) /\ Len(w) = L + Len(e) /\ e \in EVENT_BOUNDARY
        /\ \A k \in 1..L : w[k] = Line(m)[k]
    BY <1>2, <1>4, WrittenProperties
  <2>2. L \in {2, 4} /\ Len(e) \in {2, 4}
    <3> HIDE DEF m, e
    <3> QED BY <1>4, <2>1, Shapes, LineProperties
  <2> HIDE DEF w, L, e
  <2> QED BY <2>1, <2>2, LenProperties
<1>6. Len(w) <= Len(buffer)
  <2>1. Len(buffer) < Len(w) => Matches(buffer) = {}
    <3> HIDE DEF m
    <3> QED BY <1>2, <1>4, NoMatchInPart
  <2> HIDE DEF w
  <2> QED BY <1>2, <1>5, <2>1
<1>7. FirstMatch(buffer) = <<L + 1, e>>
  <2> HIDE DEF m
  <2> QED BY <1>2, <1>4, <1>6, MatchOfWhole
<1>8. /\ UNCHANGED server /\ UNCHANGED <<received, half, held, pc>>
      /\ frames' = frames \o ParseEvent(SubSeq(buffer, 1, L))
      /\ buffer' = SubSeq(buffer, Len(w) + 1, Len(buffer))
  <2>1. FirstMatch(buffer)[1] - 1 = L /\ After(FirstMatch(buffer)) = Len(w) + 1
    <3> HIDE DEF L, e, w
    <3> QED BY <1>5, <1>7 DEF After
  <2> HIDE DEF L, e, w
  <2> QED BY <2>1 DEF Cut
<1>9. eol' = eol /\ stream' = stream /\ log' = log
  BY <1>8 DEF server
<1>10. SubSeq(buffer, 1, L) = Line(m)
  <2>1. Line(m) \in Seq(Symbol)
    BY <1>4, LineProperties
  <2> DEFINE s == SubSeq(buffer, 1, L)
  <2>2. s \in Seq(Symbol) /\ Len(s) = L /\ \A k \in 1..L : s[k] = buffer[k]
    <3> HIDE DEF L, w, e
    <3>1. L \in 1..Len(buffer)
      BY <1>2, <1>5, <1>6
    <3>2. /\ s \in Seq(Symbol) /\ Len(s) = L - 1 + 1
          /\ \A k \in 1..(L - 1 + 1) : s[k] = buffer[1 + k - 1]
      BY <1>2, <1>5, <3>1, SubSeqProperties
    <3>3. L - 1 + 1 = L /\ \A k \in 1..L : 1 + k - 1 = k
      BY <1>5
    <3> QED BY <3>2, <3>3
  <2>3. \A k \in 1..L : s[k] = Line(m)[k]
    <3> HIDE DEF L, w, e, s, m
    <3> QED BY <1>2, <1>4, <1>5, <1>6, <2>2
  <2> HIDE DEF s
  <2>4. s = Line(m)
    BY <2>1, <2>2, <2>3, SeqEqual
  <2> QED BY <2>4 DEF s
<1>11. /\ buffer' \in Seq(Symbol) /\ Len(buffer') = Len(buffer) - Len(w)
       /\ \A k \in 1..Len(buffer') : buffer'[k] = buffer[Len(w) + k]
  <2> HIDE DEF w
  <2>1. Len(w) + 1 \in 1..(Len(buffer) + 1)
    BY <1>2, <1>5, <1>6
  <2>2. /\ buffer' \in Seq(Symbol)
        /\ Len(buffer') = IF Len(w) + 1 <= Len(buffer) THEN Len(buffer) - (Len(w) + 1) + 1 ELSE 0
        /\ \A k \in 1..(Len(buffer) - (Len(w) + 1) + 1) : buffer'[k] = buffer[(Len(w) + 1) + k - 1]
    BY <1>2, <1>5, <1>8, <2>1, SubSeqProperties
  <2>3. Len(buffer') = Len(buffer) - Len(w)
    <3>1. \A a, b \in Nat :
            a <= b => (IF a + 1 <= b THEN b - (a + 1) + 1 ELSE 0) = b - a
      OBVIOUS
    <3> QED BY <1>2, <1>5, <1>6, <2>2, <3>1
  <2>4. ASSUME NEW k \in 1..Len(buffer') PROVE buffer'[k] = buffer[Len(w) + k]
    <3>1. k \in 1..(Len(buffer) - (Len(w) + 1) + 1) /\ (Len(w) + 1) + k - 1 = Len(w) + k
      BY <1>2, <1>5, <2>3
    <3> QED BY <2>2, <3>1
  <2> QED BY <2>2, <2>3, <2>4
<1>12. HoldsBehind(c + 1)'
  <2> HIDE DEF w, m
  <2>1. Start((c + 1) + 1)' = Start(c + 1) + Len(w)
    <3>1. Start((c + 1) + 1) = log[c + 1].end
      BY <1>4, ServerFacts DEF IInv
    <3>2. Start((c + 1) + 1)' = Start((c + 1) + 1)
      BY <1>9 DEF Start
    <3> QED BY <1>4, <3>1, <3>2
  <2>2. received' = (Start(c + 1) + Len(w)) + Len(buffer')
    <3>1. received' = received /\ received = Start(c + 1) + Len(buffer)
      BY <1>1, <1>8 DEF HoldsBehind
    <3> QED BY <1>2, <1>4, <1>5, <1>11, <3>1
  <2>3. ASSUME NEW k \in 1..Len(buffer') PROVE buffer'[k] = stream'[(Start(c + 1) + Len(w)) + k]
    <3>1. Len(w) + k \in 1..Len(buffer) /\ Start(c + 1) + (Len(w) + k) = (Start(c + 1) + Len(w)) + k
      BY <1>2, <1>4, <1>5, <1>6, <1>11
    <3>2. buffer[Len(w) + k] = stream[Start(c + 1) + (Len(w) + k)]
      BY <1>1, <3>1 DEF HoldsBehind
    <3> QED BY <1>9, <1>11, <3>1, <3>2
  <2> QED BY <2>1, <2>2, <2>3 DEF HoldsBehind
<1>13. frames' \in Seq(FRAME_TYPES) /\ ReturnedUpTo(c + 1)'
  <2> DEFINE K == KnownUpTo(c)
  <2>1. /\ Len(frames) = Cardinality(K) /\ \A i \in K : frames[Place(K, i)] = Content(log[i].message)
        /\ IsFiniteSet(K) /\ Cardinality(K) \in Nat /\ K \subseteq 1..c /\ c \in Nat
    <3>1. c \in Nat
      BY <1>2
    <3> QED BY <1>1, <3>1, KnownFinite DEF ReturnedUpTo, KnownUpTo
  <2>2. \A i \in 1..(c + 1) : i \in 1..c \/ i = c + 1
    BY <2>1
  <2>3. frames' = frames \o ParseEvent(Line(m))
    BY <1>8, <1>10
  <2>4. CASE m \in Known
    <3> DEFINE f == Content(m)
               K1 == K \cup {c + 1}
    <3>1. f \in FRAME_TYPES
      BY <2>4 DEF Known, Content, FRAME_TYPES, Accent
    <3>2. frames' = frames \o <<f>>
      BY <1>4, <2>3, <2>4, ParseOfLine
    <3>3. KnownUpTo(c + 1)' = K1
      <4>1. KnownUpTo(c + 1)' = {i \in 1..(c + 1) : log[i].message \in Known}
        BY <1>9 DEF KnownUpTo
      <4>2. 1..c \subseteq 1..(c + 1) /\ c + 1 \in 1..(c + 1)
        BY <2>1
      <4> QED BY <2>2, <2>4, <4>1, <4>2 DEF KnownUpTo
    <3> HIDE DEF f, K, m
    <3>4. frames' = Append(frames, f)
      BY <1>2, <3>1, <3>2, AppendIsConcat
    <3>5. /\ frames' \in Seq(FRAME_TYPES) /\ Len(frames') = Len(frames) + 1
          /\ \A i \in 1..Len(frames) : frames'[i] = frames[i]
          /\ frames'[Len(frames) + 1] = f
      BY <1>2, <3>1, <3>4, AppendProperties
    <3>6. c + 1 \notin K
      BY <2>1
    <3>7. Cardinality(K1) = Cardinality(K) + 1
      BY <2>1, <3>6, FS_AddElement
    <3>8. ASSUME NEW i \in K PROVE Place(K1, i) = Place(K, i) /\ Place(K, i) \in 1..Len(frames)
      <4>1. i \in 1..c
        BY <2>1
      <4>2. {j \in K1 : j <= i} = {j \in K : j <= i}
        BY <2>1, <4>1
      <4> DEFINE P == {j \in K : j <= i}
      <4>3. P \in SUBSET K /\ i \in P
        BY <4>1
      <4> HIDE DEF P
      <4>4. IsFiniteSet(P) /\ Cardinality(P) <= Cardinality(K)
        BY <2>1, <4>3, FS_Subset
      <4>5. Cardinality(P) \in Nat /\ Cardinality(P) # 0
        BY <4>3, <4>4, FS_CardinalityType, FS_EmptySet
      <4>6. Place(K, i) = Cardinality(P)
        BY DEF Place, P
      <4>7. Place(K1, i) = Place(K, i)
        BY <4>2 DEF Place
      <4>8. Cardinality(P) \in 1..Len(frames)
        BY <2>1, <4>4, <4>5
      <4> QED BY <4>6, <4>7, <4>8
    <3>9. Place(K1, c + 1) = Len(frames) + 1
      <4>1. \A j \in K1 : j <= c + 1
        BY <2>1
      <4>2. {j \in K1 : j <= c + 1} = K1
        BY <4>1
      <4> QED BY <2>1, <3>7, <4>2 DEF Place
    <3>10. \A i \in K1 : frames'[Place(K1, i)] = Content(log'[i].message)
      BY <1>9, <2>1, <3>5, <3>8, <3>9 DEF f, m
    <3> HIDE DEF K1
    <3> QED BY <2>1, <3>3, <3>5, <3>7, <3>10 DEF ReturnedUpTo, Place
  <2>5. CASE m \notin Known
    <3>1. frames' = frames
      BY <1>2, <1>4, <2>3, <2>5, ParseOfLine, ConcatEmptySeq
    <3>2. KnownUpTo(c + 1)' = K
      <4>1. KnownUpTo(c + 1)' = {i \in 1..(c + 1) : log[i].message \in Known}
        BY <1>9 DEF KnownUpTo
      <4>2. 1..c \subseteq 1..(c + 1)
        BY <2>1
      <4> QED BY <2>2, <2>5, <4>1, <4>2 DEF KnownUpTo
    <3> HIDE DEF K
    <3> QED BY <1>2, <1>9, <2>1, <3>1, <3>2 DEF ReturnedUpTo, Place
  <2> QED BY <2>4, <2>5
<1>14. ParserInv'
  <2>1. c + 1 \in 0..Len(log') /\ received' \in 0..Len(stream')
    BY <1>2, <1>3, <1>8, <1>9 DEF IInv, ParserInv
  <2>2. half' \in BOOLEAN /\ held' = half' /\ pc' = "drain"
    BY <1>2, <1>8 DEF IInv, ParserInv
  <2> QED BY <1>11, <1>12, <1>13, <2>1, <2>2 DEF ParserInv
<1> QED BY <1>8, <1>14, ServerUnchanged DEF IInv

\* The loop ends when no whole message is left.
LEMMA ReturnStep ==
  ASSUME IInv, Return
  PROVE  IInv'
<1>1. PICK c \in 0..Len(log) : HoldsBehind(c) /\ ReturnedUpTo(c)
  BY DEF IInv, ParserInv
<1>2. /\ Matches(buffer) = {} /\ pc' = "idle"
      /\ UNCHANGED <<eol, stream, log>> /\ UNCHANGED <<received, half, held, buffer, frames>>
      /\ Len(log) \in Nat /\ DOMAIN log = 1..Len(log) /\ eol \in Terminators
      /\ \A i \in DOMAIN log : log[i].end \in Nat
  BY ServerFacts DEF Return, server, IInv, ServerInv
<1>3. \A i \in Arrived : i <= c
  <2> SUFFICES ASSUME NEW i \in DOMAIN log, log[i].end <= received, i > c PROVE FALSE
    BY <1>2 DEF Arrived
  <2>1. c < Len(log)
    BY <1>2
  <2> DEFINE m == log[c + 1].message
             w == Written(m)
  <2>2. /\ c + 1 \in DOMAIN log /\ m \in Message /\ Len(buffer) \in Nat
        /\ log[c + 1].end = Start(c + 1) + Len(w) /\ Start(c + 1) \in Nat
        /\ \A k \in 1..Len(buffer) : k <= Len(w) => buffer[k] = w[k]
    BY <1>1, <2>1, NextMessage
  <2>3. log[c + 1].end <= log[i].end
    <3>1. i = c + 1 \/ c + 1 < i
      BY <1>2
    <3>2. c + 1 < i => log[c + 1].end < log[i].end
      BY <2>2 DEF IInv, ServerInv
    <3> QED BY <1>2, <2>2, <3>1, <3>2
  <2>4. Len(w) \in Nat
    <3> HIDE DEF m
    <3> QED BY <1>2, <2>2, WrittenProperties, LenProperties
  <2>5. Len(w) <= Len(buffer)
    <3>1. received = Start(c + 1) + Len(buffer)
      BY <1>1 DEF HoldsBehind
    <3> HIDE DEF w
    <3> QED BY <1>2, <2>2, <2>3, <2>4, <3>1
  <2>6. Matches(buffer) # {}
    <3> HIDE DEF m
    <3> QED BY <1>2, <2>2, <2>5, MatchOfWhole
  <2> QED BY <1>2, <2>6
<1>4. HoldsBehind(c)' /\ ReturnedUpTo(c)' /\ Arrived' = Arrived
  BY <1>1, <1>2 DEF HoldsBehind, Start, ReturnedUpTo, KnownUpTo, Place, Arrived
<1>5. ParserInv'
  BY <1>2, <1>3, <1>4 DEF IInv, ParserInv
<1>6. ServerInv'
  BY <1>2, ServerUnchanged DEF IInv, server
<1> QED BY <1>5, <1>6 DEF IInv

LEMMA InitHolds == Init => IInv
<1> SUFFICES ASSUME Init PROVE IInv
  OBVIOUS
<1>1. stream = <<>> /\ log = <<>> /\ buffer = <<>> /\ frames = <<>> /\ received = 0
  BY DEF Init
<1>2. Start(1) = 0 /\ Start(Len(log) + 1) = 0 /\ Len(log) = 0 /\ Len(stream) = 0
  BY <1>1 DEF Start
<1>3. ServerInv
  BY <1>1, <1>2 DEF ServerInv, Init
<1>4. HoldsBehind(0) /\ ReturnedUpTo(0)
  <2>1. KnownUpTo(0) = {}
    BY DEF KnownUpTo
  <2> QED BY <1>1, <1>2, <2>1, FS_EmptySet DEF HoldsBehind, ReturnedUpTo
<1>5. ParserInv
  <2>1. Arrived = {} /\ 0 \in 0..Len(log) /\ received \in 0..Len(stream)
    BY <1>1, <1>2 DEF Arrived
  <2>2. /\ pc \in {"idle", "decode", "drain"} /\ half \in BOOLEAN /\ held = half
    BY DEF Init
  <2>3. \A S : <<>> \in Seq(S)
    OBVIOUS
  <2> QED BY <1>1, <1>4, <2>1, <2>2, <2>3 DEF ParserInv
<1> QED BY <1>3, <1>5 DEF IInv

\* Type correctness of the parser, and where its buffer is in the stream.
THEOREM Invariance == Spec => []IInv
<1>1. IInv /\ [Next]_vars => IInv'
  <2> SUFFICES ASSUME IInv, [Next]_vars PROVE IInv'
    OBVIOUS
  <2>1. CASE \E m \in Message : Write(m)
    BY <2>1, WriteStep
  <2>2. CASE \E last \in BOOLEAN : Decode(last)
    BY <2>2, DecodeStep
  <2>3. CASE Cut
    BY <2>3, CutStep
  <2>4. CASE Return
    BY <2>4, ReturnStep
  <2>5. CASE UNCHANGED vars
    <3>1. UNCHANGED server /\ UNCHANGED <<log, stream, received, half, held, buffer, frames, pc>>
      BY <2>5 DEF vars, parser, server
    <3>2. ServerInv'
      BY <3>1, ServerUnchanged DEF IInv
    <3>3. ParserInv'
      BY <3>1 DEF IInv, ParserInv, HoldsBehind, Start, ReturnedUpTo, KnownUpTo, Place, Arrived
    <3> QED BY <3>2, <3>3 DEF IInv
  <2> QED BY <2>1, <2>2, <2>3, <2>4, <2>5 DEF Next
<1> QED BY <1>1, InitHolds, PTL DEF Spec

-----------------------------------------------------------------------------
(* The properties *)

\* While push is not running, the messages cut off are those that arrived.
LEMMA CutOffAreArrived ==
  ASSUME IInv, pc = "idle"
  PROVE  \E c \in 0..Len(log) : HoldsBehind(c) /\ ReturnedUpTo(c) /\ Arrived = 1..c
<1>1. PICK c \in 0..Len(log) : /\ HoldsBehind(c) /\ ReturnedUpTo(c)
                               /\ \A i \in Arrived : i <= c
  BY DEF IInv, ParserInv
<1>2. /\ Len(log) \in Nat /\ DOMAIN log = 1..Len(log)
      /\ \A i \in DOMAIN log : log[i].end \in Nat /\ Start(i + 1) = log[i].end
  BY ServerFacts DEF IInv
<1>3. ASSUME NEW i \in 1..c PROVE log[i].end <= received
  <2>1. c \in DOMAIN log /\ i \in DOMAIN log
    BY <1>2
  <2>2. received = log[c].end + Len(buffer) /\ Len(buffer) \in Nat
    BY <1>1, <1>2, <2>1, LenProperties DEF HoldsBehind, IInv, ParserInv
  <2>3. i < c => log[i].end < log[c].end
    BY <2>1 DEF IInv, ServerInv
  <2>4. i = c \/ i < c
    BY <1>2
  <2> QED BY <1>2, <2>1, <2>2, <2>3, <2>4
<1>4. Arrived = 1..c
  <2>1. 1..c \subseteq Arrived
    BY <1>2, <1>3 DEF Arrived
  <2>2. Arrived \subseteq 1..c
    BY <1>1, <1>2 DEF Arrived
  <2> QED BY <2>1, <2>2
<1> QED BY <1>1, <1>4

\* However the bytes of a stream are cut into chunks, each known frame that
\* has arrived has been returned by push, once, in order and intact, and
\* nothing else has: for any number of messages.
THEOREM FramesOnce == Spec => []EachFrameOnce
<1>1. ASSUME IInv PROVE EachFrameOnce
  <2> SUFFICES ASSUME pc = "idle"
               PROVE  /\ Len(frames) = Cardinality(Due)
                      /\ \A i \in Due :
                           frames[Cardinality({j \in Due : j <= i})] = Content(log[i].message)
    BY DEF EachFrameOnce
  <2>1. PICK c \in 0..Len(log) : ReturnedUpTo(c) /\ Arrived = 1..c
    BY <1>1, CutOffAreArrived
  <2>2. Due = KnownUpTo(c)
    BY <2>1 DEF Due, KnownUpTo
  <2> QED BY <2>1, <2>2 DEF ReturnedUpTo, Place
<1> QED BY <1>1, Invariance, PTL

\* Between two calls push keeps no more than the unfinished message.
THEOREM UnfinishedOnly == Spec => []KeepsUnfinishedOnly
<1>1. ASSUME IInv PROVE KeepsUnfinishedOnly
  <2> SUFFICES ASSUME pc = "idle"
               PROVE  /\ \A i \in Arrived : Len(buffer) <= received - log[i].end
                      /\ held => half
    BY DEF KeepsUnfinishedOnly
  <2>1. PICK c \in 0..Len(log) : HoldsBehind(c) /\ Arrived = 1..c
    BY <1>1, CutOffAreArrived
  <2>2. /\ Len(log) \in Nat /\ DOMAIN log = 1..Len(log)
        /\ \A i \in DOMAIN log : log[i].end \in Nat /\ Start(i + 1) = log[i].end
    BY <1>1, ServerFacts DEF IInv
  <2>3. ASSUME NEW i \in Arrived PROVE Len(buffer) <= received - log[i].end
    <3>1. i \in 1..c /\ c \in DOMAIN log /\ i \in DOMAIN log
      BY <2>1, <2>2
    <3>2. received = log[c].end + Len(buffer) /\ Len(buffer) \in Nat
      BY <1>1, <2>1, <2>2, <3>1, LenProperties DEF HoldsBehind, IInv, ParserInv
    <3>3. i < c => log[i].end < log[c].end
      BY <1>1, <3>1 DEF IInv, ServerInv
    <3>4. i = c \/ i < c
      BY <2>2, <3>1
    <3> QED BY <2>2, <3>1, <3>2, <3>3, <3>4
  <2>4. held => half
    BY <1>1 DEF IInv, ParserInv
  <2> QED BY <2>3, <2>4
<1> QED BY <1>1, Invariance, PTL
=============================================================================
