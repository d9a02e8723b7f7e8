------------------------------ MODULE Dashboard ------------------------------
(***************************************************************************)
(* web/app/page.tsx over its two polled feeds: which lines, which card and *)
(* which news the page shows while TfL's state moves on, the feeds answer  *)
(* independently of each other and the user clicks.                        *)
(*                                                                         *)
(* A poll is one step here; how polls overlap is AutoRefresh, how old an   *)
(* answer may be is EdgeCache.  The effect that repairs the selection runs *)
(* some time after the render that made it necessary, and in any case      *)
(* before the next one: with the selection and the lines it was created    *)
(* with (React, external).  A click may come first; its state updates then *)
(* precede those of the effect.                                            *)
(***************************************************************************)
EXTENDS LiveFeed

CONSTANTS
  Networks,   \* the states TfL may report
  Limit,      \* the default limit of /disruptions/recent
  Null

\* TfL reports each line once.
ASSUME DashboardAssumption ==
  /\ Networks \subseteq Seq(LineResponse) /\ Limit \in 1..200
  /\ \A n \in Networks : \A i, j \in DOMAIN n : n[i].id = n[j].id => i = j

VARIABLES
  USE_MOCKS,      \* the build shows fixtures; read once at module load
  network,        \* TfL's state
  statusData,     \* status.data
  disruptionData, \* disruptions.data
  selectedCode,
  effect,         \* the selection effect is still to run
  isStacked,
  expanded,
  chosen          \* the code the user clicked last; observes only

feeds == <<statusData, disruptionData>>
layout == <<isStacked, expanded>>
vars == <<USE_MOCKS, network, feeds, selectedCode, effect, layout, chosen>>

\* The answers of the two routes, and the rows the page derives from one.
StatusAnswer == [n \in Networks |-> LiveStatus(n)]
DisruptionsAnswer == [n \in Networks |-> RecentDisruptions(n, Limit)]
Reported == [n \in Networks |-> Reports(n)]
Summaries == [rows \in {StatusAnswer[n] : n \in Networks} \cup {MockStatus} |->
                LineStatusesToSummaries(rows)]

LineSummaries == IF statusData = Null THEN <<>> ELSE Summaries[statusData]
Codes(summaries) == {summaries[i].code : i \in DOMAIN summaries}

Init ==
  /\ USE_MOCKS \in BOOLEAN
  /\ network \in Networks
  /\ statusData = Null /\ disruptionData = Null
  /\ selectedCode = Null /\ chosen = Null
  /\ effect = FALSE
  /\ isStacked = FALSE    \* until useMediaQuery's effect has run
  /\ expanded = TRUE

-----------------------------------------------------------------------------
\* As if any selection were kept, or the preferred line always taken.
KeepsAny(summaries) == selectedCode # Null
KeepsNone(summaries) == FALSE
Keeps(summaries) == selectedCode \in Codes(summaries)

\* What the selection effect leaves selected: a selection that is on the page,
\* or else the first severe line, or else the first line.
Preferred(summaries) ==
  LET severe == Entries(summaries, {i \in DOMAIN summaries : summaries[i].status = "severe"})
  IN IF severe # <<>> THEN Head(severe).code ELSE Head(summaries).code
AfterEffect(summaries) ==
  IF summaries = <<>> \/ Keeps(summaries) THEN selectedCode ELSE Preferred(summaries)

\* A render runs the pending effect of the one before it first.
Flush == selectedCode' = IF effect THEN AfterEffect(LineSummaries) ELSE selectedCode

RunEffect ==
  /\ effect
  /\ Flush
  /\ effect' = FALSE
  /\ UNCHANGED <<USE_MOCKS, network, feeds, layout, chosen>>

\* Either feed's poll succeeds; a failed one leaves its data alone.
StatusArrives ==
  /\ statusData' = IF USE_MOCKS THEN MockStatus ELSE StatusAnswer[network]
  /\ Flush
  /\ effect' = TRUE
  /\ UNCHANGED <<USE_MOCKS, network, disruptionData, layout, chosen>>

DisruptionsArrive ==
  /\ disruptionData' = IF USE_MOCKS THEN MockDisruptions ELSE DisruptionsAnswer[network]
  /\ Flush
  /\ effect' = FALSE
  /\ UNCHANGED <<USE_MOCKS, network, statusData, layout, chosen>>

\* LineGrid: a row per line, activated by a click or a key; in the stacked
\* layout the active one carries the card, which can be closed.
Rows == Codes(LineSummaries)
InlineCard == isStacked /\ expanded /\ selectedCode \in Rows

\* handleSelect; a new selection is on the page, so the effect after it, which
\* a click runs at once, leaves it alone.  An effect that was pending before the
\* click runs behind it and has the last word.
Click(code) ==
  /\ code \in Rows
  /\ chosen' = code
  /\ LET repaired == IF effect THEN AfterEffect(LineSummaries) ELSE selectedCode
     IN selectedCode' = IF repaired # selectedCode THEN repaired ELSE code
  /\ expanded' = (code = selectedCode => ~expanded)
  /\ effect' = FALSE
  /\ UNCHANGED <<USE_MOCKS, network, feeds, isStacked>>

\* onCloseDetail, on the inline card of the stacked layout.
CloseDetail ==
  /\ InlineCard
  /\ expanded' = FALSE
  /\ Flush /\ effect' = FALSE
  /\ UNCHANGED <<USE_MOCKS, network, feeds, isStacked, chosen>>

\* useMediaQuery: the viewport crosses the breakpoint.
Resize ==
  /\ isStacked' = ~isStacked
  /\ Flush /\ effect' = FALSE
  /\ UNCHANGED <<USE_MOCKS, network, feeds, expanded, chosen>>

TflChanges ==
  /\ network' \in Networks
  /\ UNCHANGED <<USE_MOCKS, feeds, selectedCode, effect, layout, chosen>>

Next ==
  \/ RunEffect \/ StatusArrives \/ DisruptionsArrive
  \/ \E code \in Rows : Click(code)
  \/ CloseDetail \/ Resize \/ TflChanges

Spec == Init /\ [][Next]_vars

\* The two hooks poll for as long as the page is visible, and their polls
\* succeed again and again; React runs its effects.
Fairness == WF_vars(StatusArrives) /\ WF_vars(DisruptionsArrive) /\ WF_vars(RunEffect)
FairSpec == Spec /\ Fairness

-----------------------------------------------------------------------------
\* What is rendered: the selected row and its card, and the news.
SelectedLine ==
  Entries(LineSummaries, {i \in DOMAIN LineSummaries : LineSummaries[i].code = selectedCode})

CardOf(summary) ==
  LET match == IF disruptionData = Null THEN <<>>
               ELSE DisruptionForLine(disruptionData, summary)
  IN IF match # <<>> THEN <<DisruptionToSnapshot(match[1])>> ELSE FallbackSnapshot(summary)

Counts == SummarizeCounts(LineSummaries)
NewsItems == IF disruptionData = Null THEN <<>> ELSE DisruptionsToNews(disruptionData)

-----------------------------------------------------------------------------
(* Properties *)

\* Whatever comes and goes in the feed, once the page has settled exactly one
\* line of it is selected, if it has lines at all.
OneLineSelected ==
  ~effect /\ LineSummaries # <<>> => Len(SelectedLine) = 1

\* A click selects its line, and the user's choice then goes only for another
\* one, or because the line was not on the page when the effect looked.  The one
\* click that is lost to the preferred line is one made while the selection is
\* not on the page and the effect that repairs it has yet to run (page.tsx:55-67
\* against 95-102).
Clicked == \E code \in Rows : Click(code)
Overridden == effect /\ selectedCode \notin Rows
ChoiceKept ==
  [][ /\ Clicked => selectedCode' = chosen' \/ Overridden
      /\ selectedCode = chosen /\ chosen' = chosen
           => selectedCode' = chosen \/ chosen \notin Rows ]_vars

\* Selecting a line, in the registry or not, shows the report on that very
\* line if the disruptions have one, else what the status feed says of it;
\* each station of it once (its id is the key of the list item) and, as the
\* API reports each line on its own, no line as affected besides.
OwnReport ==
  \A line \in ToSet(SelectedLine) : \A row \in ToSet(statusData) :
    line.code = Code(row.id) =>
      LET detail == LineDetail(line.code, CardOf(line))
          reports == IF disruptionData = Null THEN {}
                     ELSE {d \in ToSet(disruptionData) : d.routes = <<row.id>>}
      IN /\ IF reports # {}
            THEN \E d \in reports :
                   /\ detail.text = <<ChooseHeadlineAndBody(d.summary, d.text)>>
                   /\ detail.stations = d.stops
            ELSE detail.text = IF row.reason = "" THEN <<>> ELSE <<Reason(row.reason)>>
         /\ IsInjective(detail.stations)
         /\ detail.chips = <<>>

\* The id of a disruption stands for what TfL reported, from one poll to the
\* next: it survives TfL listing the same stops in another order, or twice, and
\* tells two reports apart that differ in line, category, text, closure or
\* stops, even where the rows of the API do not (an unknown category).
Incident(report) ==
  LET d == report.disruption
  IN [route |-> report.line.id, category |-> d.category, text |-> d.text,
      closure |-> d.closure, stops |-> ToSet(d.stops) \ {""}]
IdsFollowIncidents ==
  [][ ~USE_MOCKS =>
        \A m, n \in Networks :
          disruptionData = DisruptionsAnswer[m] /\ disruptionData' = DisruptionsAnswer[n] =>
            \A i \in DOMAIN disruptionData, j \in DOMAIN disruptionData' :
              disruptionData[i].id = disruptionData'[j].id
                <=> Incident(Reported[m][i]) = Incident(Reported[n][j]) ]_vars

\* Every text TfL published, up to the limit, is in the news once and in full:
\* none is lost to truncation, to dropping a repeated paragraph or to dropping
\* a repeated item.
Covers(item, text) ==
  \A i \in DOMAIN text : text[i] \in ToSet(item.headline) \cup ToSet(item.body)
NewsTellsAllOnce ==
  /\ \A i, j \in DOMAIN NewsItems : NewsItems[i] = NewsItems[j] => i = j
  /\ disruptionData # Null =>
       \A d \in ToSet(disruptionData) : \E i \in DOMAIN NewsItems : Covers(NewsItems[i], d.text)

\* "never echoes itself" (adapt.ts): the body of an item does not begin with
\* the paragraph that its title begins with.
NewsNeverEchoes ==
  \A i \in DOMAIN NewsItems :
    LET item == NewsItems[i]
    IN item.headline # <<>> /\ item.body # <<>>
         => Head(item.headline).says # Head(item.body).says

\* When TfL's state stays what it is, the page ends up showing it: every
\* line once, under the worst of its statuses that is not Good Service and
\* counted there in the top bar, and the same disruptions.
Worst(line) ==
  LET severities == {line.statuses[i].severity : i \in DOMAIN line.statuses} \ {10}
  IN IF severities = {} THEN 10 ELSE CHOOSE s \in severities : \A t \in severities : s <= t
Shows(n) ==
  LET served == {i \in DOMAIN n : n[i].mode \in ValidModes /\ n[i].statuses # <<>>}
  IN /\ Len(LineSummaries) = Cardinality(served)
     /\ \A i \in served : \E k \in DOMAIN LineSummaries :
          LineSummaries[k].code = Code(n[i].id) /\ LineSummaries[k].severity = Worst(n[i])
     /\ \A bucket \in StatusBucket :
          Counts[bucket] = Cardinality({i \in served : SeverityToBucket(Worst(n[i])) = bucket})
     /\ disruptionData = DisruptionsAnswer[n]
ShowsTfl ==
  \A n \in Networks : <>[](network = n) => <>[](network = n /\ (USE_MOCKS \/ Shows(n)))

\* The fixtures survive the way through the API's shape and back, over four
\* tables in three files: the page shows each under its own code, in its own
\* bucket, with its own reason, and the disruption on the one severe line.
FixturesShown ==
  USE_MOCKS /\ statusData # Null =>
    LET Fixture(l) == [code |-> [unknown |-> FALSE, text |-> l.code], status |-> l.status,
                       reason |-> l.reason]
        Row(l) == [code |-> l.code, status |-> l.status, reason |-> l.reason]
        reported == {l \in ToSet(LineSummaries) : disruptionData # Null
                                        /\ DisruptionForLine(disruptionData, l) # <<>>}
    IN /\ Len(LineSummaries) = Len(MOCK_LINES)
       /\ {Row(l) : l \in ToSet(LineSummaries)} = {Fixture(l) : l \in ToSet(MOCK_LINES)}
       /\ disruptionData # Null =>
            reported = {l \in ToSet(LineSummaries) : l.status = "severe"}
=============================================================================
