# A TLA+ verification of tfl-monitor

This directory models the parts of tfl-monitor whose correctness depends on
order, concurrency and failure, checks them with TLC on small instances, and
proves the most important results with TLAPS for every value of the constants.
File names below are relative to the repository.

## 1. The system

tfl-monitor shows the live state of London's transport lines and answers
questions about it in a chat. There is no database and no broker: a Python
function (FastAPI) reads through to the TfL API on request, and a Next.js page
polls it.

| Component | State it keeps | Operations | Talks to |
|---|---|---|---|
| Station resolvers, `src/api/stations.py` | NaPTAN cache, bounded name cache, one `asyncio.Semaphore` | `resolve_naptans` (batch, with a deadline), `resolve_name` (search, then hub look-up) | TfL client; called by the routes and the agent's tools |
| TfL client, `src/ingestion/tfl_client/` | HTTP client; per request: attempt, last outcome | `_request`, `with_retry`, endpoint wrappers, normalisers | TfL |
| Live data, `src/api/live.py` | none | live status, recent disruptions | TfL client, resolvers |
| Routes, `src/api/main.py` | `app.state.tfl_client`, `app.state.agent` | two GET routes, chat stream, health, start-up and shutdown | live data, agent; CDN in front |
| Agent, `src/api/agent/` | conversation memory per thread (LangGraph `InMemorySaver`) | model / tool loop, projection of its chunks to SSE frames | Anthropic, TfL client, resolvers |
| Polling hook, `web/lib/hooks/use-auto-refresh.ts` | timer, current `AbortController`, data, error | run, start, stop, visibility change, clean-up | routes, through `apiFetch` |
| Chat panel, `web/components/dashboard/chat-panel.tsx` with `web/lib/api/chat-stream.ts` and `web/lib/sse-parser.ts` | draft, greeting, transcript, busy, tool status, alert, in-flight and abort refs | type, send, frame handling, rollback, unmount | chat route |
| Dashboard page and adapters, `web/app/page.tsx`, `web/lib/dashboard/adapt.ts`, `line-grid.tsx`, `line-detail.tsx`, `top-nav.tsx` | selected line, layout, whether the card is open | select, close, resize; derive lines, card, news, counts | two polling hooks |
| Fixtures, `web/lib/mocks/`, used by `web/lib/api/` under `USE_MOCKS` | none | stand in for both feeds | dashboard |
| Notice, `web/components/work-in-progress.tsx` | mounted, dismissed; a mark in localStorage that all tabs share | read the mark, close | the browser's storage |

What makes it hard: every coroutine of one function instance shares the
semaphore and both caches and may be interrupted, or cancelled, at each `await`;
TfL fails transiently, and a wrong conclusion is cached for the life of the
process; the page's requests overlap and are superseded, aborted and answered
out of order; a chat turn has four actors (panel, connection, server run,
checkpointer), of which any may stop while the others go on.

What makes each part correct:

* *resolvers*: no permit or wake-up is ever lost, nothing keeps running for a
  request that is over, caches hold only what TfL definitively said and stay
  bounded, a batch always comes back with an answer for every id, hub searches
  cannot deadlock;
* *client*: the right number of attempts, the pauses TfL asks for, an error that
  tells what happened last, no definitive verdict from a transient failure;
* *polling*: the screen never goes back in time, an alert is never older than
  the data under it, a hidden or unmounted view does not poll;
* *chat*: a bubble holds its own turn's text and its true outcome, a failed send
  takes back its own pair only, a stream that the server closes has exactly one terminal
  frame, its last, and one that is cut has none, a send always ends, a failing tool never spoils
  the thread, the controls are disabled exactly while a send is live and visible, and the greeting
  is typed to its end;
* *stream parsing*: wherever the network cuts the bytes, each frame comes out once and in order;
* *shared cache*: what one caller seeds is readable by another, an error is never replayed,
  viewers do not multiply function runs;
* *live data and page*: a disruption keeps its identity from poll to poll, a click selects its
  line and the choice survives refreshes, a card is about the line it is under, no text is lost or told twice, and
  the page ends up showing what TfL says; the fixtures come through the adapters as they are;
* *notice*: once closed it stays closed, here and in pages loaded later, whatever the storage allows.

## 2. The modules

### StationResolver, StationDirectory

`StationResolver` models `stations.py`: a step is what runs between two awaits.

| Code | Model |
|---|---|
| `_TFL_SEMAPHORE` (value, waiters) | `permits`, `waiters`; `call[c]` is how far call c has got |
| `_NAPTAN_CACHE`, `_NAME_CACHE` | `naptanCache`, `nameCache` (a sequence, for the dict's insertion order) |
| `resolve_naptans` up to `asyncio.wait` | `BatchStart` |
| `_resolve_one` | `LookupBegin`, `LookupAnswer` |
| `asyncio.wait` returning, and the `finally` that cancels | `BatchWake`: at any point, since the deadline may pass at any point |
| the `gather`, then the loop over `done` | `BatchFinish` |
| cancellation of the caller | `BatchCancel`, `BatchAbort`, `SearchCancel`, `SearchAbort`, `Unwind` |
| `resolve_name`, `_deref_hub` | `SearchStart`, `SearchFail`, `SearchAnswer`, `DerefFail`, `DerefAnswer`, `Store` |

The semaphore is asyncio's (external): `Enter`, `Leave` and `Unwind` follow its
fast path, FIFO hand-over and cancelled waiters. A station's name is represented
by its NaPTAN and TfL answers truthfully or fails; `TflRequest` justifies that.
`StationDirectory` is what a caller of `resolve_naptans` may rely on: an atomic
table of facts that only ever learns the truth. `StationResolver` is shown to
implement it, by a run and by a proof.

### TflRequest

One request: `with_retry` and `TflClient._request`, to the verdict `_is_not_found`
draws. `CallRaises`, `CallRetryable` and `CallAnswers` are the three outcomes of
an attempt, `Wake` the end of a sleep. `log` and `elapsed` only observe: `log`
records each call with its times, in half seconds.

### AutoRefresh

`use-auto-refresh.ts`. Runs are numbered; `fetch[r]` is what run r's fetch has come
to, `dead` the runs whose signal is aborted or whose effect was cleaned up, and
`data` / `error` hold the number of the run they came from. Settling and reading a
response are separate steps, because a response may already have arrived when a
newer run aborts it.

### ChatStream, Conversation

The composer and the greeting (`Compose`, `TypeIntro`), `send` and its reader (`Send`, `ReadFrame`, `ReadEnd`, `ReadFails`, `Refused`),
`Unmount`, the connection (`link`, `wire`, `Break`), the server run (`Accept` to
`Cut`) and the thread's memory (`thread`). LangGraph, the checkpointer and the
platform are external, modelled from how the code uses them: a run loads the
thread when it starts and saves its own copy after each step; the agent refuses a
thread in which a tool call has no result; an instance may be recycled with all it
holds. The text of a frame is not modelled, only its turn and number.
`Conversation` is the transcript as a user understands it: exchanges that are
asked, then settled once or withdrawn. `ChatStream` implements it: `Exchanges` pairs the bubbles
up and `StatusOf` reads a pair's status off its reader and its mark. `Skeleton`, `Filled` and
`ShowsWork` are what the panel renders of a send.

### SseParser

`sse-parser.ts` and the reading loop around it. A stream is a sequence of messages under
one line terminator (`Write`). Text is a few symbols; one character takes two bytes, because
`serialise` does not escape. `push` is a sequence of steps, so that it can be reasoned about
without recursion: `Decode(last)` is the decoder (external) taking a byte that may be the last
of the chunk, `Cut` a turn of the loop, `Return` its end. As every byte may be the last of its
chunk, each way to cut the stream is a behaviour. `push` is synchronous: the properties speak of
the states where it is not running (`pc = "idle"`). `FirstMatch` and `After` are what the regular
expression finds, `ParseEvent` the function of that name.

### EdgeCache

`lifespan` (`Startup`, `Shutdown`), a GET route (`Unconfigured`, `Fetched`, `FetchFailed`,
`Finished`; both routes have this shape) and, external, the CDN that the route's headers
instruct: `Poll` is a hit, a stale hit that runs the function behind, or a miss on which
callers with the same variant wait together. One tick is 30 s. `Headers` is what a response
says of caching and of `Vary`, and `Echo` what CORSMiddleware adds. `since` only observes.

### LiveFeed, Dashboard

`LiveFeed` holds the pure functions: `live.py` and `normalise.py` on one side, `adapt.ts` on
the other. A text is a sequence of paragraphs with lengths, which is what the summary, the
truncation test and the news depend on; the id of a disruption, a digest, is taken as the five
fields that are digested, the category among them as TfL sent it, while the row shows the one
`DisruptionCategory` knows. `Reports` pairs each row with what TfL reported. A sorted or
filtered list is defined by what it is: the elements of a set in an order (`InOrder`), or the
entries of a list at some positions (`Entries`). `Dashboard` is
`page.tsx` over them: `StatusArrives` and `DisruptionsArrive` are polls that succeed (how they
overlap is `AutoRefresh`, how old they are `EdgeCache`), `RunEffect` the effect that repairs
the selection, which React may run some time after the render, `Click`, `CloseDetail` and
`Resize` the user. `LineDetail`, `AffectedRoutesChips` and `SummarizeCounts` are what the card and
the top bar make of the rows. A build with `USE_MOCKS` shows the fixtures instead of the feeds;
their tables are translated entry by entry, as is their way into the API's shape.

### WorkInProgress

`work-in-progress.tsx` in any number of tabs: `ReadStorage` is its first effect, `Dismiss` its
button, `Reload` a new page in the tab, `AccessChanges` a storage that is closed, read-only or
open. `closedHere` and `latecomers` only observe.

## 3. What the runs check

| Run | Instance | Shows |
|---|---|---|
| `resolver_batches` | 2 batches, 1 hub search, 2 stations (one unknown), 2 permits, TfL may never answer | permits and wake-ups are never lost, nothing outlives its request, caches are never poisoned, answers are complete, `StationDirectory` is implemented, every batch comes back |
| `resolver_searches` | 2 searches over 5 queries (two sharing a key, one hub, one without match, one blank), 1 batch, 1 permit, cache of 2 | the name cache stays bounded and evicts in order; no search waits for good |
| `request_safety` | 3 attempts, calls of 0.5 and 30 s, Retry-After missing, 0, negative, 1 s and 300 s | attempts, pauses, error and verdict |
| `request_limit` | as above | *violation*: see section 6 |
| `refresh_polling` | 4 fetches | ordering, alerts, one live fetch, and that each fetch the user stays for is shown unless a later one supersedes it |
| `chat_turns` | 2 turns, 1 tool round, 1 token per turn, a greeting of 2 characters | bubbles, controls, outcomes, end frames, thread, `Conversation`, that a send ends and the greeting is typed |
| `chat_memory` | as above, the instance is never recycled | *violation*: see section 6 |
| `sse_chunks` | up to 3 messages of 5 kinds, 3 terminators, every cut (42 304 states) | each frame once, in order and at once; no memory beyond the unfinished message |
| `edge_shared` | 2 allowed origins, a probe without one | responses are readable, fresh and, if errors, first hand; one successful run per window and variant |
| `dashboard_page` | 7 states of the network and the fixtures, limit 3 | selection and clicks, cards, news, ids, fixtures, and that the page and its counts settle on what TfL says |
| `dashboard_echo` | as above | *violation*: see section 6 |
| `notice_tabs` | 3 tabs | a closed notice stays closed |

**Bounds.** Two requesters and one outsider are enough for every two-party race on
the semaphore (hand-over against cancellation, queueing behind a newcomer), and one
or two permits make each of them contend. A cache of two with three keys makes an
eviction happen with a neighbour left in place. Three attempts are the code's own
default and show a first, a middle and a last one. Four runs of the hook allow two
generations of overlap on each side of a hide or a remount. Two turns are needed for
anything one turn can do to another; `MaxTokens` and `MaxRounds` bound what the model
streams and calls, and `MaxRuns` and `MaxTurns` how long a user stays. Three messages put a frame
between two others, whatever is cut. Two allowed origins and one that is not are the kinds of
callers that can share a response, and one tick is the unit both of the header's windows use.
The seven networks of `MCDashboard` have an unregistered line, a line without statuses, one
incident listed twice with different stops, one text under two unknown categories and with two
closures, reasons that differ from line to line, more reports than the limit, paddings and lengths
on both sides of the summary's cut, and nothing at all. A greeting of two characters can be
stopped before, within and after its typing. Of three tabs, one can close the notice while another
shows it and a third loads. The proofs of section 4 have none of these bounds. The type invariants
of `TflRequest`, `AutoRefresh`, `EdgeCache`, `ChatStream`, `SseParser` and `WorkInProgress` are
not part of the runs: they are proved.

**Fairness.** *LoopFairness*: the event loop runs ready coroutines and fires due timers;
batches return on that alone (there is no clock: the deadline may pass
at any moment, so what is checked is that they do return, not when). *TflFairness*: a TfL call ends, as the HTTP client has
timeouts and a fixed number of attempts; searches, which have no deadline, need it.
In `AutoRefresh`, fetches settle and continuations run; since a tick aborts the fetch before it,
a superseded fetch is excused, and against an API slower than the interval nothing need be
shown. In `Dashboard`, both feeds go on to be polled with success now and then, and React runs
its effects. In `ChatStream`, the browser and the server make
progress and the greeting's timer fires; nothing forces a connection to break, a user to act or
an instance to be recycled.

**Mutants.** For each property of a passing run `PROJECT.json` names a variant of one
definition, written just before it in its module and introduced by "As if", that a
plausible bug would turn it into and that the property catches.

## 4. What is proved

*`StationResolverProofs`* (`Spec => []...`, for any finite number of callers, stations,
queries and permits): `TypeCorrect`, `PermitsNeverLost`, `WakeupsNeverLost`,
`NoOrphans`, `CachesNeverPoisoned`. None of these is inductive alone. `TypeInv` adds
that only a search on a hub dereferences; `SafetyInv` adds the semaphore's own
invariant -- the queue holds each waiting or withdrawn call once and no other, and a
permit is free only when no live waiter is queued -- and that every call that has begun
belongs to a request that is still open. The step cases are split by what release() does: hand
the permit over, or put it back. `CacheInv` needs only the types and the pending
verdicts of calls.

In the last section of the same module, `NameCacheStaysBounded` and `OldestGoesFirst` follow from
what one write does (`KeptEntries`, `StoreKeeps`): only the first entry may go, a key that is there
keeps its place, a new one goes to the end. `ResolverImplementsDirectory` is the refinement:
starting is an Ask, finishing an Answer, aborting a GiveUp, everything else a stutter. It needs the
two invariants above and `Misses`: while a batch is served, its tasks are exactly the ids it has no
answer for.

*`TflRequestProofs`*: `RequestTypeCorrect`, `VerdictsAreTrue`, `RetriesAreExact`,
`ErrorsNameLastOutcome`, `WaitsAreKept`, for any number of attempts, durations and
headers. The strengthening counts calls against the loop variable, says that a
request goes on only after transient outcomes, and where an error's cause can come
from.

*`AutoRefreshProofs`*: `RefreshTypeCorrect`, `AtMostOneLiveFetch`,
`AlertNeverOutdated`, `NewestWins`, for any number of runs. The strengthening: runs
are numbered without gaps, and an unread run is not on screen, so the one live run
is newer than everything shown; and the timer runs exactly while a mounted view is
visible (`PollsWhileVisible`), so that showing the tab never starts a second one.

*`EdgeCacheProofs`*: `EdgeTypeCorrect`, `PagesMayRead`, `NothingOlder`, `NoErrorReplayed`,
`WindowsHold`, for any sets of origins. The strengthening describes what the CDN may be keeping:
an entry varies by Origin and lets its own variant's origin read it (`KeptOwn`), is a success
(`KeptGood`), is younger than both windows together (`KeptYoung`), and is there and fresh until
the window of the last success is over (`KeptWindow`). Without `KeptOwn` a probe's response could
be given to a page.

*`ChatStreamProofs`*: `ChatTypeCorrect`, `BubblesShowTheirOwn`, `ControlsTellTheTruth`,
`StreamsEndOnce`, `ToolErrorsStayInside`, `OutcomesAreShown`, for any number of turns, tool rounds
and pieces of text. Client and server need one invariant each, and an outcome needs a third. `PanelInv`: only the last send can be in its
loop, inFlightRef says whether it is, the last bubble is then its own, and bubbles are pairs whose
turns grow. This is why writing to "the last message" is safe. `ServerInv`: a run still going has
sent no terminal frame, only the last entry of its copy of the thread can be an open tool call,
and an open call in the thread is watched over by a run at its tools or cut. `TurnsOK` and `Bubbles`
relate the two: as long as a connection holds, text read plus text on the wire (`Tokens`, a
cardinality, additive by `TokensConcat`) is the text streamed, and a failed run's error is the last
frame or noted; and the live send's bubble shows what was read. So an empty, closed wire leaves the
whole text or the mark.

The last section is `PanelImplementsConversation`. From `PanelInv`, a live send's exchange is
the last one and no other (`LiveIsLast`); so a send maps to an Ask, its end to a Settle, a failure
to a Withdraw, leaving the page to a Settle or a stutter, and each other step to a stutter, as it
changes neither a pair's turn nor its mark nor whether its reader is in its loop (`AllKept`).

*`WorkInProgressProofs`*: `NoticeTypeCorrect` and `ClosedNoticesStayClosed`, for any number of tabs;
the strengthening says what a tab that loads late will find in the storage.

*`SseParserProofs`*: `Invariance`, `FramesOnce` and `UnfinishedOnly`, for streams of any number of
messages, under each terminator and cut anywhere. The properties say nothing of the middle of a
`push`, so they are not inductive. `IInv` places the buffer in the stream: it is what lies between
the end of some message and what has been decoded, and the frames returned are those of the messages
before it. The weight of the proof is that cutting a buffer at the first boundary is cutting the
stream at the end of a message: no boundary starts within a message that is still coming in
(`NoMatchInPart`, also where the last terminator of one message meets the next), the first one in a
buffer that holds a whole message ends it (`MatchOfWhole`), and what is before it parses to the
frame that was written or to none (`ParseOfLine`).

*`DashboardProofs`*: `OneLineSelectedHolds`, `ChoiceIsKept`, `OwnReportHolds`, `NewsTellsAll`,
`IdsDoFollowIncidents`, `FixturesAreShown` and `SettledPagesShowTfl`, for any set of networks and any
limit. The lists on the page come out of `InOrder`, and everything rests on one lemma about it,
`InOrderLists`: to rank the elements of a finite set by the number of those before them lists each
once and in order. From it follow that a filter keeps what it is for (`EntriesProperties`) and that
the sort of the rows is a permutation (`SummariesOf`). The selection needs one invariant,
`PageInvariant`: the feeds hold answers or fixtures, and with no effect to come the selection is a
line of the page. `ChoiceIsKept` is about steps: whatever the effect replaces was not on the page,
so a click is lost only to an effect that was still to run, on such a selection (section 6).
`OwnReportHolds` rests on the selected line being the row with its code (`SelectedIsRow`) and
`IdsDoFollowIncidents` on each row being the payload of its report (`RecentDisruptionsRows`), whose
stops are the ones reported, each once (`StopsKept`). That no two lines of the page share a code (`OneLinePerCode`) rests on TfL
reporting each line once, an assumption of the module, and on the registry being injective.
`SettledPagesShowTfl` is the safe half of `ShowsTfl`: once both feeds have answered for TfL's state,
no step makes the page show anything else while that state lasts. Its core is that the minimum taken
by `_primary_status` is the worst status (`PrimaryIsWorst`) and that rows and lines correspond one to
one (`LinesOfAnswer`). Fairness is left with nothing but that both feeds do answer.

The assumptions are the named `ASSUME`s of the modules (finite sets of callers, at
least one permit and one attempt, sentinels outside the value sets, TfL reporting each line once),
which TLC evaluates in the runs.

Every safety invariant, action property and refinement that a passing run checks is stated by a
theorem. Model-checked only: the liveness properties `BatchReturns`, `SearchReturns`, `RunIsShown`,
`PanelRecovers`, `IntroCompletes` and `ShowsTfl`, as fairness and ENABLED are out of the prover's
reach.

## 5. Not modelled

* The journey and arrivals cards, the bus banner, the rows of the news pane, icons, footer and
  layout render their props: no state, and no condition that relates two pieces of data.
* Colours, labels, time labels, validity windows and descriptions of categories; the generated types
  (`lib/types.ts`), which are only types.
* Prompts, logging, tracing, `/health` and the debug proxy: no state the rest depends on.
* In `WorkInProgress`, the effect that keeps the notice under the navigation bar; in `ChatPanel`,
  the scrolling of the transcript.
* Within modelled parts: the contents of names, chat cards and messages, the journey
  tool's departure time, the grouping of arrivals, and the client's endpoint wrappers, which only
  build a path and its parameters.

The news pane's window of twelve hours excludes nothing, as each response dates its rows itself.

## 6. Findings

* `request_limit`: ARCHITECTURE.md says the function's 300 seconds cover a full
  multi-tool turn. `with_retry` obeys Retry-After without a cap and nothing above it
  sets a deadline, except for `resolve_naptans`, so one request may take longer.
* `chat_memory`: docs/glossary.md says memory is held for the life of an instance. If a
  connection breaks unnoticed, the panel lets the user ask again on the same thread
  while the first run continues from its older copy; finishing last, it makes that
  copy the latest, and the answer the user read in between is gone.
* `dashboard_echo`: `adapt.ts` says the news pane never echoes itself. It strips the first
  paragraph of a description that equals the summary, or that the summary truncates; but the
  summary is the first 160 characters, so a shorter first paragraph followed by a second one
  is neither, and is shown in the title and again in the body.

Observations no line of the repository contradicts:

* A turn cut off between a tool call and its result leaves the thread unusable for
  every later turn. `ToolErrorsContained` shows this is the *only* way it happens.
* A writer at the name cache's limit evicts the oldest entry even if its own key is
  already present.
* Two queries that differ in case share a cache key, though the comment at
  `stations.py:193` expects TfL to tell them apart for ids; `CachesSound` says only that an
  entry is right for *some* query of its key.
* The documents count one function run per 30-second window. That is one per variant of
  Origin (`OneRunPerWindow`), and of *successful* runs: failures carry no Cache-Control, so
  while TfL is down each poll that misses is a run with its retries.
* A click can be lost. While the selection is not on the page, on the first data or when its line
  was withdrawn, and the effect that repairs it has yet to run, a click is handled first and the
  effect's update then replaces it: the preferred line is selected, not the one clicked
  (`page.tsx:55-67` against `95-102`). `ChoiceKept` names this case, and shows it is the only one.
* A failed send discards the text that was typed: the composer was emptied when it started.
* "Also affected" never shows a chip with this API, which reports each line in a row of its own
  (`OwnReport`); the page passes neither the card's `state` nor a hook's `error` on, so a feed that
  fails looks like one that is loading or old.
* `lines.ts:121` says the fixtures are in the adapter's order; Elizabeth stands between the tube
  lines there and behind them on the page. `FixturesShown` compares them as sets.
* `live.py` prefers a status above 10 (a closed line) to Good Service; `severityToBucket`
  shows it as good.

## 7. Plan

Done: the resolvers with their abstract directory, the TfL request, the polling hook, the chat
with composer, stream and abstract conversation, the SSE parser, the shared cache, the dashboard
with its fixtures and rendering, and the notice, in the order of how much harm a mistake would do;
the proofs of every safety property and of both refinements.

1. The agent's tools and the client's endpoint wrappers (`tools.py`, `client.py`): journey
   parameters, the grouping of arrivals, and which errors become which text.
2. The safe halves of the other liveness properties, as `SettledPagesShowTfl` is of `ShowsTfl`: that
   whatever a request, a send or the greeting waits for is there or on its way.

## 8. Running

    tlc -config StationResolver_batches.cfg MCStationResolver
    tlc -config TflRequest_safety.cfg MCTflRequest
    tlc -config AutoRefresh_polling.cfg AutoRefresh
    tlc -config ChatStream_turns.cfg ChatStream
    tlc -config SseParser_chunks.cfg MCSseParser
    tlc -config EdgeCache_shared.cfg EdgeCache
    tlc -config Dashboard_page.cfg MCDashboard
    tlc -config WorkInProgress_tabs.cfg WorkInProgress
    tlapm StationResolverProofs.tla      (and each other module named ...Proofs)

Each run finishes within two minutes; the proofs take a few minutes from nothing.
