------------------------------ MODULE ChatStream ------------------------------
(***************************************************************************)
(* One chat panel, the streams it opens and the agent turns behind them:   *)
(*   web/components/dashboard/chat-panel.tsx   send and its reader         *)
(*   web/lib/api/chat-stream.ts                the fetch and its body      *)
(*   src/api/main.py                           post_chat_stream            *)
(*   src/api/agent/streaming.py                agent chunks to frames      *)
(*   src/api/agent/graph.py, tools.py          the loop model <-> tools    *)
(*                                                                         *)
(* All turns of a panel carry the same thread_id, so they share one        *)
(* conversation memory (LangGraph's InMemorySaver, external): a turn loads *)
(* the thread when it starts and saves its own copy after every step.  A   *)
(* connection may break and an instance may be recycled at any time; the   *)
(* server notices a broken connection late, or never.                      *)
(*                                                                         *)
(* A frame's text is not modelled, only which turn it belongs to and how   *)
(* many pieces have arrived; so is a message of the thread.                *)
(***************************************************************************)
EXTENDS Integers, Sequences, FiniteSets

CONSTANTS
  MaxTurns,    \* bound: messages the user sends
  MaxRounds,   \* tool rounds the recursion limit leaves room for
  MaxTokens,   \* bound: text pieces the model streams per turn
  IntroLength, \* characters of INTRO_GREETING
  Recycles     \* whether the function instance may be recycled

ASSUME ChatAssumption ==
  /\ {MaxTurns, MaxRounds, MaxTokens, IntroLength} \subseteq Nat
  /\ Recycles \in BOOLEAN

VARIABLES
  mounted,     \* the panel is on the page
  draft,       \* the text area holds more than white space (value)
  typed,       \* ChatIntro's count
  asked,       \* messages sent so far; also the turn abortRef belongs to
  inFlight,    \* inFlightRef
  busy,        \* busy, toolStatus, serviceError and messages: the panel's state
  toolStatus,
  serviceError,
  messages,
  reader,      \* each send: where its for-await loop is, and its locals
  link,        \* each turn's connection
  wire,        \* frames sent but not yet read
  server,      \* each turn's event_stream and agent run
  thread       \* the thread in the checkpointer

composer == <<draft, typed>>
panel == <<composer, mounted, asked, inFlight, busy, toolStatus, serviceError, messages, reader>>
backend == <<server, thread>>
vars == <<panel, link, wire, backend>>

Turn == 1..MaxTurns
Frame == {"token", "tool", "card", "end", "error"}
Terminal == {"end", "error"}                  \* frame_end() and frame_end("error")
Loops == {"connecting", "reading"}
Running == {"model", "tools", "ending"}
Entry == [turn : Turn, kind : {"human", "call", "result", "reply"}]
Message == [role : {"user", "assistant"}, turn : Turn,
            from : Turn \cup {0}, text : Nat, views : Nat, errored : BOOLEAN]

TypeOK ==
  /\ {mounted, draft, inFlight, busy, toolStatus, serviceError} \subseteq BOOLEAN
  /\ typed \in 0..IntroLength
  /\ asked \in 0..MaxTurns
  /\ messages \in Seq(Message)
  /\ reader \in [Turn -> [pc : Loops \cup {"none", "done", "failed", "aborted"},
                          text : Nat, endedWithError : BOOLEAN]]
  /\ link \in [Turn -> {"none", "up", "closed", "gone"}]
  /\ wire \in [Turn -> Seq(Frame)]
  /\ server \in [Turn -> [pc : Running \cup {"idle", "answered", "failed", "cut"},
                          rounds : 0..MaxRounds, tokens : Nat, memory : Seq(Entry)]]
  /\ thread \in Seq(Entry)

Init ==
  /\ mounted = TRUE /\ draft = FALSE /\ typed = 0 /\ asked = 0 /\ inFlight = FALSE
  /\ busy = FALSE /\ toolStatus = FALSE /\ serviceError = FALSE
  /\ messages = <<>>
  /\ reader = [t \in Turn |-> [pc |-> "none", text |-> 0, endedWithError |-> FALSE]]
  /\ link = [t \in Turn |-> "none"]
  /\ wire = [t \in Turn |-> <<>>]
  /\ server = [t \in Turn |-> [pc |-> "idle", rounds |-> 0, tokens |-> 0, memory |-> <<>>]]
  /\ thread = <<>>

-----------------------------------------------------------------------------
(* ChatIntro and the composer *)

\* As if the effect depended on the text alone: one timer, set at the mount.
IntroRunsOnce == typed = 0
IntroRuns == typed < IntroLength

\* The greeting of an empty transcript grows by a character per timer, or is
\* there at once if the user prefers reduced motion.
TypeIntro ==
  /\ mounted /\ messages = <<>> /\ IntroRuns
  /\ typed' \in {typed + 1, IntroLength}
  /\ UNCHANGED <<mounted, draft, asked, inFlight, busy, toolStatus, serviceError, messages,
                 reader, link, wire, backend>>

\* The text area changes, or a quick prompt fills it; busy disables both.
Compose ==
  /\ mounted /\ ~busy
  /\ draft' = ~draft
  /\ UNCHANGED <<mounted, typed, asked, inFlight, busy, toolStatus, serviceError, messages,
                 reader, link, wire, backend>>

-----------------------------------------------------------------------------
(* ChatPanel.send *)

\* As if two submits could get through before the panel renders again, the
\* second with the text of the first.
SendTwice ==
  /\ mounted /\ (draft \/ inFlight) /\ asked < MaxTurns
  /\ asked' = asked + 1

SendOnce ==
  /\ mounted /\ draft /\ ~inFlight /\ asked < MaxTurns
  /\ asked' = asked + 1

Blank(t, who) == [role |-> who, turn |-> t, from |-> 0, text |-> 0, views |-> 0,
                  errored |-> FALSE]

\* Open a bubble pair and fetch.
Send ==
  /\ SendOnce
  /\ draft' = FALSE /\ typed' = 0
  /\ inFlight' = TRUE /\ busy' = TRUE /\ toolStatus' = FALSE /\ serviceError' = FALSE
  /\ messages' = messages \o <<Blank(asked', "user"), Blank(asked', "assistant")>>
  /\ reader' = [reader EXCEPT ![asked + 1].pc = "connecting"]
  /\ UNCHANGED <<mounted, link, wire, backend>>

\* The last message, whichever turn it is of, is the one a send updates.
Last == Len(messages)

\* As if a send that fails did not clear busy, or one that succeeds kept
\* inFlightRef.
SendOverBusy(t, pc) ==
  /\ reader' = [reader EXCEPT ![t].pc = pc]
  /\ inFlight' = FALSE
  /\ busy' = (pc = "failed") /\ toolStatus' = FALSE
SendOverIfDone(t, pc) ==
  /\ reader' = [reader EXCEPT ![t].pc = pc]
  /\ inFlight' = (pc # "done")
  /\ busy' = FALSE /\ toolStatus' = FALSE

\* finally: give up inFlightRef, and clear the status of a panel still there.
SendOver(t, pc) ==
  /\ reader' = [reader EXCEPT ![t].pc = pc]
  /\ inFlight' = FALSE
  /\ busy' = FALSE /\ toolStatus' = FALSE

\* As if only the assistant's bubble were taken back; and the pair, as it is.
RollbackOne == SubSeq(messages, 1, Last - 1)
Rollback == SubSeq(messages, 1, Last - 2)

\* catch: take the pair back and say why.
SendFails(t) ==
  /\ messages' = Rollback
  /\ serviceError' = TRUE
  /\ SendOver(t, "failed")
  /\ UNCHANGED <<composer, mounted, asked>>

\* No stream: a non-2xx answer (no agent, invalid message) or no network.
Refused(t) ==
  /\ reader[t].pc = "connecting"
  /\ SendFails(t)
  /\ UNCHANGED <<link, wire, backend>>

\* The body breaks off.
ReadFails(t) ==
  /\ reader[t].pc = "reading" /\ link[t] = "gone"
  /\ SendFails(t)
  /\ UNCHANGED <<link, wire, backend>>

\* As if the frame's content were not looked at; and as it is.
IgnoreEnd(t, f) == reader' = reader
NoteEnd(t, f) == reader' = [reader EXCEPT ![t].endedWithError = (f = "error")]

\* One turn of the for-await loop.
ReadFrame(t) ==
  LET f == Head(wire[t]) IN
  /\ reader[t].pc = "reading" /\ link[t] # "gone" /\ wire[t] # <<>>
  /\ wire' = [wire EXCEPT ![t] = Tail(@)]
  /\ \/ /\ f = "token"
        /\ reader' = [reader EXCEPT ![t].text = @ + 1]
        /\ toolStatus' = FALSE
        /\ messages' = IF Last = 0 THEN messages
             ELSE [messages EXCEPT ![Last].from = t, ![Last].text = reader[t].text + 1]
     \/ /\ f = "tool"
        /\ toolStatus' = TRUE
        /\ UNCHANGED <<reader, messages>>
     \/ /\ f = "card"
        /\ toolStatus' = FALSE
        /\ messages' = IF Last = 0 THEN messages
             ELSE [messages EXCEPT ![Last].views = @ + 1]
        /\ UNCHANGED reader
     \/ /\ f \in Terminal
        /\ NoteEnd(t, f)
        /\ UNCHANGED <<toolStatus, messages>>
  /\ UNCHANGED <<composer, mounted, asked, inFlight, busy, serviceError, link, backend>>

\* The body is at its end: mark the bubble if the server said so.
ReadEnd(t) ==
  /\ reader[t].pc = "reading" /\ link[t] = "closed" /\ wire[t] = <<>>
  /\ messages' = IF reader[t].endedWithError /\ Last > 0
                 THEN [messages EXCEPT ![Last].errored = TRUE]
                 ELSE messages
  /\ SendOver(t, "done")
  /\ UNCHANGED <<composer, mounted, asked, serviceError, link, wire, backend>>

\* The send whose controller abortRef holds.
Aborting == {t \in Turn : t = asked /\ reader[t].pc \in Loops}

\* The panel leaves the page and aborts the fetch in flight, if any.
Unmount ==
  /\ mounted
  /\ mounted' = FALSE
  /\ reader' = [t \in Turn |-> IF t \in Aborting THEN [reader[t] EXCEPT !.pc = "aborted"]
                               ELSE reader[t]]
  /\ link' = [t \in Turn |-> IF t \in Aborting THEN "gone" ELSE link[t]]
  /\ inFlight' = (inFlight /\ Aborting = {})
  /\ UNCHANGED <<composer, asked, busy, toolStatus, serviceError, messages, wire, backend>>

-----------------------------------------------------------------------------
(* The network *)

\* The connection breaks; what was on its way is lost.
Break(t) ==
  /\ reader[t].pc = "reading" /\ link[t] \in {"up", "closed"}
  /\ link' = [link EXCEPT ![t] = "gone"]
  /\ wire' = [wire EXCEPT ![t] = <<>>]
  /\ UNCHANGED <<panel, backend>>

Emit(t, frames) ==
  wire' = [wire EXCEPT ![t] = IF link[t] = "up" THEN @ \o frames ELSE @]

Close(t) == link' = [link EXCEPT ![t] = IF @ = "up" THEN "closed" ELSE @]

-----------------------------------------------------------------------------
(* post_chat_stream and the agent *)

\* Every tool call in a thread must be followed by its result before the
\* model is asked again; create_react_agent raises otherwise.
Dangling(m) == \E i \in DOMAIN m : m[i].kind = "call" /\
                 (i = Len(m) \/ m[i + 1].kind # "result")

\* The run of turn t moves to pc with entry appended to its copy of the
\* thread, which becomes the thread's latest checkpoint.
Checkpoint(t, base, kind, pc) ==
  LET m == Append(base, [turn |-> t, kind |-> kind])
  IN  /\ server' = [server EXCEPT ![t].pc = pc, ![t].memory = m]
      /\ thread' = m

\* The request arrives and the stream opens.
Accept(t) ==
  /\ reader[t].pc = "connecting" /\ server[t].pc = "idle"
  /\ reader' = [reader EXCEPT ![t].pc = "reading"]
  /\ link' = [link EXCEPT ![t] = "up"]
  /\ Checkpoint(t, thread, "human", "model")
  /\ UNCHANGED <<composer, mounted, asked, inFlight, busy, toolStatus, serviceError, messages,
                 wire>>

\* The model may be asked: project() turns what it streams into tokens.
Thinking(t) == server[t].pc = "model" /\ ~Dangling(server[t].memory)

StreamToken(t) ==
  /\ Thinking(t) /\ server[t].tokens < MaxTokens
  /\ server' = [server EXCEPT ![t].tokens = @ + 1]
  /\ Emit(t, <<"token">>)
  /\ UNCHANGED <<panel, link, thread>>

CallTool(t) ==
  /\ Thinking(t) /\ server[t].rounds < MaxRounds
  /\ Checkpoint(t, server[t].memory, "call", "tools")
  /\ UNCHANGED <<panel, link, wire>>

\* As if a tool let an upstream error escape into the stream.
RunToolRaises(t) ==
  /\ server[t].pc = "tools"
  /\ server' = [server EXCEPT ![t].pc = "failed"]
  /\ Emit(t, <<"error">>)
  /\ Close(t)
  /\ UNCHANGED <<panel, thread>>

Tools == {"query_tube_status", "query_recent_disruptions", "plan_journey_tool",
          "get_arrivals_tool"}
CardTools == {"plan_journey_tool", "get_arrivals_tool"}     \* _CARD_TOOLS

\* project: the tool is named, and a card tool that could answer adds its card.
ToolFrames(tool, answers) ==
  <<"tool">> \o (IF answers /\ tool \in CardTools THEN <<"card">> ELSE <<>>)

\* A tool catches whatever goes wrong and answers in prose.
RunTool(t) ==
  LET m == Append(server[t].memory, [turn |-> t, kind |-> "result"]) IN
  /\ server[t].pc = "tools"
  /\ server' = [server EXCEPT ![t].pc = "model", ![t].memory = m, ![t].rounds = @ + 1]
  /\ thread' = m
  /\ \E tool \in Tools, answers \in BOOLEAN : Emit(t, ToolFrames(tool, answers))
  /\ UNCHANGED <<panel, link>>

Reply(t) ==
  /\ Thinking(t)
  /\ Checkpoint(t, server[t].memory, "reply", "ending")
  /\ UNCHANGED <<panel, link, wire>>

\* As if the stream were closed after the last chunk, without frame_end().
FinishSilently(t) ==
  /\ server[t].pc = "ending"
  /\ server' = [server EXCEPT ![t].pc = "answered"]
  /\ Close(t)
  /\ UNCHANGED <<panel, wire, thread>>

\* The agent's chunks are all out: frame_end().
Finish(t) ==
  /\ server[t].pc = "ending"
  /\ server' = [server EXCEPT ![t].pc = "answered"]
  /\ Emit(t, <<"end">>)
  /\ Close(t)
  /\ UNCHANGED <<panel, thread>>

\* What a failed stream ends with: a rejection by Anthropic is explained.
FailureFrames == {<<"token", "error">>, <<"error">>}

\* The model call fails: Anthropic rejects it (a readable token first), any
\* other exception, or a thread the agent refuses.
ModelFails(t) ==
  /\ server[t].pc = "model"
  /\ server' = [server EXCEPT ![t].pc = "failed"]
  /\ \E frames \in FailureFrames :
        /\ Thinking(t) \/ frames = <<"error">>
        /\ Emit(t, frames)
  /\ Close(t)
  /\ UNCHANGED <<panel, thread>>

\* is_disconnected() or a CancelledError: the run stops where it is.
Cut(t) ==
  /\ server[t].pc \in Running /\ link[t] = "gone"
  /\ server' = [server EXCEPT ![t].pc = "cut"]
  /\ UNCHANGED <<panel, link, wire, thread>>

\* The instance goes away with its memory and its streams; the next request
\* is served by another one.
Recycle ==
  /\ Recycles /\ thread # <<>>
  /\ thread' = <<>>
  /\ server' = [t \in Turn |-> IF server[t].pc \in Running
                               THEN [server[t] EXCEPT !.pc = "cut"] ELSE server[t]]
  /\ link' = [t \in Turn |-> IF server[t].pc \in Running THEN "gone" ELSE link[t]]
  /\ UNCHANGED <<panel, wire>>

-----------------------------------------------------------------------------
Client(t) == Refused(t) \/ ReadFails(t) \/ ReadFrame(t) \/ ReadEnd(t)
Server(t) ==
  \/ Accept(t) \/ StreamToken(t) \/ CallTool(t) \/ RunTool(t) \/ Reply(t)
  \/ Finish(t) \/ ModelFails(t) \/ Cut(t)

Next ==
  \/ TypeIntro \/ Compose \/ Send \/ Unmount \/ Recycle
  \/ \E t \in Turn : Client(t) \/ Server(t) \/ Break(t)

Spec == Init /\ [][Next]_vars

\* The browser runs its microtasks, the server its coroutines; a model call
\* ends because the client times out after 60 s, a tool because its TfL calls
\* do; the browser fires timers.  Nothing forces a connection to break or a
\* user to act.
Fairness == WF_vars(TypeIntro) /\ \A t \in Turn : WF_vars(Client(t)) /\ WF_vars(Server(t))
FairSpec == Spec /\ Fairness

-----------------------------------------------------------------------------
\* What is rendered: the bubble of a send is a skeleton until something comes
\* to fill it, cards before prose, and below it the tool at work.
Skeleton ==
  LET last == messages[Last]
  IN busy /\ Last > 0 /\ last.role = "assistant" /\ last.text = 0 /\ last.views = 0
Filled == Last > 0 /\ (messages[Last].text > 0 \/ messages[Last].views > 0)
ShowsWork == Skeleton \/ Filled \/ toolStatus

-----------------------------------------------------------------------------
(* Properties *)

\* A bubble only ever shows text of its own turn, although every send writes
\* to "the last message": a second submit before the panel renders, or a turn
\* still streaming, must not write into a neighbour's bubble.
OwnText ==
  \A i \in DOMAIN messages :
    messages[i].text > 0 => messages[i].role = "assistant" /\ messages[i].from = messages[i].turn

\* The controls tell the truth: they are disabled exactly while a send would
\* be refused, so no click on the send button is silently lost; while they
\* are, the last bubble is that of a send still going on and shows it; and no
\* sign of a tool at work outlives its send.
BusyIsLive ==
  mounted =>
    /\ busy = inFlight
    /\ busy => /\ ShowsWork
               /\ Last > 0 /\ messages[Last].turn = asked
               /\ reader[asked].pc \in Loops
    /\ toolStatus => busy

\* What the user is left with is what happened: a turn read to its end is
\* marked errored exactly if the server failed it, and otherwise shows every
\* piece of text the agent streamed.
OutcomeShown ==
  \A i \in DOMAIN messages :
    LET t == messages[i].turn IN
    messages[i].role = "assistant" /\ reader[t].pc = "done" =>
      IF messages[i].errored THEN server[t].pc = "failed"
      ELSE server[t].pc = "answered" /\ messages[i].text = server[t].tokens

\* Where terminal frames are.
Ends(frames) == {i \in DOMAIN frames : frames[i] \in Terminal}

\* A run that comes to its own end closes its stream behind exactly one
\* terminal frame, "error" if it failed, with nothing after it.  In no other
\* step is a stream closed or a terminal frame sent: a run that is cut off
\* (main.py:211) says nothing, and its connection does not end but breaks.
OneEndFrame ==
  [][ \A t \in Turn :
        LET over == server[t].pc \in Running /\ server'[t].pc \in {"answered", "failed"}
        IN IF over /\ link[t] = "up"
           THEN /\ link'[t] = "closed"
                /\ Ends(wire'[t]) = {Len(wire'[t])}
                /\ wire'[t][Len(wire'[t])] = IF server'[t].pc = "failed" THEN "error" ELSE "end"
           ELSE /\ link'[t] = "closed" => link[t] = "closed"
                /\ Ends(wire'[t]) # {} => Ends(wire[t]) # {} /\ Len(wire'[t]) <= Len(wire[t]) ]_vars

\* Upstream errors never spoil a thread: once no turn is running, a tool call
\* without its result is there only because a turn was cut off.
ToolErrorsContained ==
  (\A t \in Turn : server[t].pc \notin Running) /\ Dangling(thread)
    => \E t \in Turn : server[t].pc = "cut"

\* "Holds chat memory per thread_id for the life of one function instance"
\* (docs/glossary.md): an answer the user has read to its end stays in it.
MemoryKeepsAnswers ==
  \A t \in Turn : reader[t].pc = "done" /\ server[t].pc = "answered" =>
    \E i \in DOMAIN thread : thread[i] = [turn |-> t, kind |-> "reply"]

\* The panel as its user sees it; ChatPanel's bubbles in pairs.
StatusOf(m) ==
  CASE reader[m.turn].pc \in Loops -> "open"
    [] reader[m.turn].pc = "aborted" -> "abandoned"
    [] OTHER -> IF m.errored THEN "interrupted" ELSE "answered"
Exchanges ==
  [i \in 1..(Len(messages) \div 2) |->
     [turn |-> messages[2 * i - 1].turn, status |-> StatusOf(messages[2 * i])]]
Shown == INSTANCE Conversation WITH sent <- asked, exchanges <- Exchanges

\* Sends, rollbacks, error marks and the unmount keep the transcript a list
\* of question and answer pairs, settled once and in order; a failed send
\* takes back its own pair and no other.
ImplementsConversation == Shown!Spec

\* The panel always becomes usable again: whatever the network and the server
\* do to a send, it ends.
PanelRecovers == inFlight ~> ~inFlight

\* The greeting is typed to its end whenever the transcript is empty, after a
\* first message that was taken back as on arrival, unless the user sends
\* something or leaves first.
IntroCompletes ==
  (mounted /\ messages = <<>>) ~> (typed = IntroLength \/ messages # <<>> \/ ~mounted)
=============================================================================
