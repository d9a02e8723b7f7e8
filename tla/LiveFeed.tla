------------------------------ MODULE LiveFeed ------------------------------
(***************************************************************************)
(* From TfL's answer to what the page is made of, without state:           *)
(*   src/api/live.py, src/ingestion/tfl_client/normalise.py                *)
(*                                       the two responses of the API      *)
(*   web/lib/dashboard/adapt.ts          rows, cards and news of the page  *)
(*   web/lib/mocks/, web/lib/api/        the fixtures that stand in for    *)
(*                                       the two responses under USE_MOCKS *)
(*                                                                         *)
(* Times, colours, wording and the names of stops are left out.  Every row *)
(* of a response is dated when it is made, so the twelve hours of the news *)
(* pane exclude none of them.                                              *)
(***************************************************************************)
EXTENDS Integers, Sequences, FiniteSets, SequencesExt

-----------------------------------------------------------------------------
\* The elements of a finite set in the strict order R, a set of pairs: the k-th
\* is the one with k - 1 before it.
InOrder(S, R) ==
  [k \in 1..Cardinality(S) |->
     CHOOSE x \in S : Cardinality({y \in S : <<y, x>> \in R}) = k - 1]

\* The entries of seq at the positions in I, in the order of seq.
Entries(seq, I) ==
  LET at == InOrder(I, {p \in I \X I : p[1] < p[2]}) IN [k \in DOMAIN at |-> seq[at[k]]]

-----------------------------------------------------------------------------
(* contracts/schemas/tfl_api.py: TfL answers with a sequence of lines.  A   *)
(* text is a sequence of paragraphs after pad characters of white space, a  *)
(* name its place in the alphabet, and a reason "" if none is given.        *)

Text == Seq([says : STRING, length : Nat])
LineStatusDisruption ==
  [category : STRING, pad : Nat, text : Text, closure : STRING, stops : Seq(STRING)]
LineStatusItem ==
  {s \in [severity : 0..20, reason : STRING, disruption : Seq(LineStatusDisruption)] :
     Len(s.disruption) <= 1}
LineResponse == [id : STRING, mode : STRING, name : Nat, statuses : Seq(LineStatusItem)]

-----------------------------------------------------------------------------
(* live.py, normalise.py *)

ValidModes == {"tube", "elizabeth-line", "overground", "dlr", "bus",
               "national-rail", "river-bus", "cable-car", "tram"}
GOOD_SERVICE == 10

\* The key by which _primary_status takes the minimum, and its order.
\* As if Good Service were not set apart.
KeyOfSeverity(status) == <<0, status.severity>>
Key(status) == <<IF status.severity = GOOD_SERVICE THEN 1 ELSE 0, status.severity>>
Below(k, l) == k[1] < l[1] \/ (k[1] = l[1] /\ k[2] < l[2])

PrimaryStatus(statuses) ==
  statuses[CHOOSE i \in DOMAIN statuses : \A j \in DOMAIN statuses :
             /\ ~Below(Key(statuses[j]), Key(statuses[i]))
             /\ j < i => Below(Key(statuses[i]), Key(statuses[j]))]

\* fetch_live_status
LiveStatus(lines) ==
  LET served == Entries(lines, {i \in DOMAIN lines :
                          lines[i].mode \in ValidModes /\ lines[i].statuses # <<>>})
      Row(l) == LET status == PrimaryStatus(l.statuses)
                IN [id |-> l.id, name |-> l.name, mode |-> l.mode,
                    severity |-> status.severity, reason |-> status.reason]
  IN [i \in DOMAIN served |-> Row(served[i])]

\* The entries of seq, the first time each.
Once(seq) ==
  Entries(seq, {i \in DOMAIN seq : \A j \in DOMAIN seq : seq[j] = seq[i] => i <= j})

\* _extract_ids: the stops that have an id.
ExtractIds(stops) == Once(Entries(stops, {i \in DOMAIN stops : stops[i] # ""}))

\* A category that the contract does not know is reported as Undefined.
DisruptionCategory == {"RealTime", "PlannedWork", "Information", "Incident", "Undefined"}
Category(raw) == IF raw \in DisruptionCategory THEN raw ELSE "Undefined"

\* The digest is taken as what it digests, with the category as TfL sent it.
\* As if the stops were not sorted.
StopsAsListed(ids) == ids
StopsSorted(ids) == ToSet(ids)
SyntheticId(line, disruption) ==
  [category |-> disruption.category, text |-> disruption.text,
   closure |-> disruption.closure, route |-> line.id,
   stops |-> StopsSorted(ExtractIds(disruption.stops))]

SUMMARY_MAX_LENGTH == 160
Smaller(a, b) == IF a < b THEN a ELSE b
\* Two characters of blank line between paragraphs.
LengthOf(text) == FoldLeft(LAMBDA n, p : n + p.length, 0, text)
                  + 2 * (IF text = <<>> THEN 0 ELSE Len(text) - 1)
Offset(text, i) == IF i = 1 THEN 0 ELSE LengthOf(SubSeq(text, 1, i - 1)) + 2

\* description[:160], and what trimming leaves of it.
Summary(disruption) ==
  LET room == SUMMARY_MAX_LENGTH - disruption.pad
      text == disruption.text
      cut == SelectSeq([i \in DOMAIN text |-> [says |-> text[i].says,
                          length |-> Smaller(text[i].length, room - Offset(text, i))]],
                       LAMBDA p : p.length > 0)
  IN cut

\* disruption_payloads, in walk order: line, then status.
Payload(line, disruption) ==
  [id |-> SyntheticId(line, disruption), category |-> Category(disruption.category),
   summary |-> Summary(disruption), text |-> disruption.text,
   closure |-> disruption.closure, routes |-> <<line.id>>,
   stops |-> ExtractIds(disruption.stops)]
Disrupted(lines) ==
  UNION {{i} \X {j \in DOMAIN lines[i].statuses : lines[i].statuses[j].disruption # <<>>} :
           i \in DOMAIN lines}
WalkOrder == {p \in (Nat \X Nat) \X (Nat \X Nat) :
                p[1][1] < p[2][1] \/ (p[1][1] = p[2][1] /\ p[1][2] < p[2][2])}
Reports(lines) ==
  LET walk == InOrder(Disrupted(lines), WalkOrder)
  IN [k \in DOMAIN walk |->
        LET line == lines[walk[k][1]]
        IN [line |-> line, disruption |-> line.statuses[walk[k][2]].disruption[1]]]
Payloads(lines) ==
  LET reports == Reports(lines)
  IN [k \in DOMAIN reports |-> Payload(reports[k].line, reports[k].disruption)]

Cut(payloads, limit) == SubSeq(payloads, 1, Smaller(limit, Len(payloads)))

\* fetch_recent_disruptions
RecentDisruptions(lines, limit) == Cut(Payloads(lines), limit)

-----------------------------------------------------------------------------
(* adapt.ts *)

LineMetaById ==
  [id \in {"bakerloo", "central", "circle", "district", "elizabeth", "hammersmith-city",
           "jubilee", "metropolitan", "northern", "piccadilly", "victoria", "waterloo-city",
           "dlr", "london-overground", "liberty", "lioness", "mildmay", "suffragette",
           "weaver", "windrush"} |->
     CASE id = "bakerloo" -> "BAK" [] id = "central" -> "CEN" [] id = "circle" -> "CIR"
       [] id = "district" -> "DIS" [] id = "elizabeth" -> "ELZ"
       [] id = "hammersmith-city" -> "HAM" [] id = "jubilee" -> "JUB"
       [] id = "metropolitan" -> "MET" [] id = "northern" -> "NTH"
       [] id = "piccadilly" -> "PIC" [] id = "victoria" -> "VIC"
       [] id = "waterloo-city" -> "WAT" [] id = "dlr" -> "DLR"
       [] id = "london-overground" -> "OVG" [] id = "liberty" -> "LIB"
       [] id = "lioness" -> "LIO" [] id = "mildmay" -> "MIL" [] id = "suffragette" -> "SUF"
       [] id = "weaver" -> "WEA" [] id = "windrush" -> "WIN"]

\* A code is a registered one, or UNK: and the id.
Code(id) ==
  IF id \in DOMAIN LineMetaById THEN [unknown |-> FALSE, text |-> LineMetaById[id]]
  ELSE [unknown |-> TRUE, text |-> id]

\* lineIdForCode; nothing is returned as <<>>, an id as <<id>>.
Registered(code) ==
  {id \in DOMAIN LineMetaById : ~code.unknown /\ LineMetaById[id] = code.text}
\* As if only registered codes were resolved.
LineIdRegistered(code) ==
  IF Registered(code) = {} THEN <<>> ELSE <<CHOOSE id \in Registered(code) : TRUE>>
LineIdForCode(code) ==
  IF code.unknown THEN <<code.text>> ELSE LineIdRegistered(code)

MODE_PRECEDENCE == <<"tube", "elizabeth-line", "dlr", "overground">>
ModeRank(mode) ==
  IF Contains(MODE_PRECEDENCE, mode)
  THEN CHOOSE i \in DOMAIN MODE_PRECEDENCE : MODE_PRECEDENCE[i] = mode
  ELSE Len(MODE_PRECEDENCE) + 1
\* The sort of lineStatusesToSummaries.
RowBefore(a, b) ==
  \/ ModeRank(a.mode) < ModeRank(b.mode)
  \/ ModeRank(a.mode) = ModeRank(b.mode) /\ a.name < b.name

SeverityToBucket(severity) ==
  CASE severity >= 10 -> "good"
    [] severity \in 7..9 -> "minor"
    [] severity \in 4..6 -> "severe"
    [] OTHER -> "suspended"

StatusBucket == {"good", "minor", "severe", "suspended"}

\* The sort is stable.
SortOrder(rows) ==
  {p \in (DOMAIN rows) \X (DOMAIN rows) :
     \/ RowBefore(rows[p[1]], rows[p[2]])
     \/ ~RowBefore(rows[p[2]], rows[p[1]]) /\ p[1] < p[2]}
ToSummary(row) ==
  [code |-> Code(row.id), severity |-> row.severity,
   status |-> SeverityToBucket(row.severity), reason |-> row.reason]
LineStatusesToSummaries(rows) ==
  LET ordered == InOrder(DOMAIN rows, SortOrder(rows))
  IN [k \in DOMAIN ordered |-> ToSummary(rows[ordered[k]])]

\* What the top bar counts.
SummarizeCounts(summaries) ==
  [bucket \in StatusBucket |-> Cardinality({i \in DOMAIN summaries : summaries[i].status = bucket})]

TRUNCATION_TOLERANCE == 5
TRUNCATION_MIN_SUMMARY_LEN == 100
\* commonPrefixLength of a summary and a paragraph.
CommonPrefixLength(summary, head) ==
  IF summary # <<>> /\ summary[1].says = head.says
  THEN Smaller(summary[1].length, head.length) ELSE 0

\* The summary is the first paragraph, or looks like a truncation of it.
IsEcho(summary, head) ==
  \/ summary = <<head>>
  \/ /\ head.length > LengthOf(summary)
     /\ LengthOf(summary) >= TRUNCATION_MIN_SUMMARY_LEN
     /\ CommonPrefixLength(summary, head) >= LengthOf(summary) - TRUNCATION_TOLERANCE

ChooseHeadlineAndBody(summary, text) ==
  IF text # <<>> /\ IsEcho(summary, Head(text))
  THEN [headline |-> <<Head(text)>>, body |-> Tail(text)]
  ELSE [headline |-> summary, body |-> text]

\* disruptionForLine: <<>> or the first row that names the line.
DisruptionForLine(rows, summary) ==
  LET id == LineIdForCode(summary.code)
      about == Entries(rows, {i \in DOMAIN rows :
                               id # <<>> /\ Contains(rows[i].routes, id[1])})
  IN IF about = <<>> THEN <<>> ELSE <<Head(about)>>

\* disruptionToSnapshot and lineSummaryToFallbackSnapshot.
DisruptionToSnapshot(d) ==
  [card |-> ChooseHeadlineAndBody(d.summary, d.text), routes |-> d.routes, stops |-> d.stops]
Reason(text) == [headline |-> <<>>, body |-> <<[says |-> text, length |-> 0]>>]
FallbackSnapshot(summary) ==
  IF summary.reason = "" THEN <<>>
  ELSE <<[card |-> Reason(summary.reason), routes |-> <<>>, stops |-> <<>>]>>

\* AffectedRoutesChips and LineDetail, which the page only gives what is there:
\* the other lines' codes, the stations, and the text of what is reported.
AffectedRoutesChips(code, routes) ==
  LET codes == [i \in DOMAIN Once(routes) |-> Code(Once(routes)[i])]
  IN Entries(codes, {i \in DOMAIN codes : codes[i] # code})
LineDetail(code, snapshot) ==
  [code |-> code,
   text |-> [i \in DOMAIN snapshot |-> snapshot[i].card],
   chips |-> IF snapshot = <<>> THEN <<>> ELSE AffectedRoutesChips(code, snapshot[1].routes),
   stations |-> IF snapshot = <<>> THEN <<>> ELSE snapshot[1].stops]

\* disruptionsToNews: items with the same title and body once.  As if the key
\* were the id of the disruption.
SameRow(d, e) == d.id = e.id
SameNews(d, e) ==
  ChooseHeadlineAndBody(d.summary, d.text) = ChooseHeadlineAndBody(e.summary, e.text)
DisruptionsToNews(rows) ==
  LET items == [i \in DOMAIN rows |-> ChooseHeadlineAndBody(rows[i].summary, rows[i].text)]
  IN Entries(items, {i \in DOMAIN rows :
                       \A j \in DOMAIN rows : SameNews(rows[j], rows[i]) => i <= j})

-----------------------------------------------------------------------------
(* mocks/lines.ts, mocks/disruptions.ts; status-live.ts, disruptions-recent.ts *)

\* A fixture's name is its place in the table, whose lines of one mode are in
\* the order of their names.
MockCodes ==
  <<"BAK", "CEN", "CIR", "DIS", "ELZ", "HAM", "JUB", "MET", "NTH", "PIC", "VIC", "WAT",
    "DLR", "LIB", "LIO", "MIL", "SUF", "WEA", "WIN">>
MOCK_LINES ==
  LET Status(code) == CASE code \in {"CEN", "NTH"} -> "minor"
                        [] code = "ELZ" -> "severe"
                        [] code = "WAT" -> "suspended"
                        [] OTHER -> "good"
      Why(code) == CASE code = "ELZ" -> "a faulty train at Hayes"
                     [] code = "WAT" -> "a signal failure at Bank"
                     [] OTHER -> ""
  IN [i \in DOMAIN MockCodes |->
        [code |-> MockCodes[i], name |-> i, status |-> Status(MockCodes[i]),
         reason |-> Why(MockCodes[i])]]

\* As if a minor delay were given a severity of the next bucket.
BucketToSeverityLow == [good |-> 10, minor |-> 6, severe |-> 6, suspended |-> 1]
BUCKET_TO_SEVERITY == [good |-> 10, minor |-> 9, severe |-> 6, suspended |-> 1]

CodeToMode(code) ==
  CASE code = "ELZ" -> "elizabeth-line"
    [] code = "DLR" -> "dlr"
    [] code \in {"LIB", "LIO", "MIL", "SUF", "WEA", "WIN", "OVG"} -> "overground"
    [] OTHER -> "tube"

CODE_TO_LINE_ID ==
  [BAK |-> "bakerloo", CEN |-> "central", CIR |-> "circle", DIS |-> "district",
   ELZ |-> "elizabeth", HAM |-> "hammersmith-city", JUB |-> "jubilee",
   MET |-> "metropolitan", NTH |-> "northern", PIC |-> "piccadilly", VIC |-> "victoria",
   WAT |-> "waterloo-city", DLR |-> "dlr", LIB |-> "liberty", LIO |-> "lioness",
   MIL |-> "mildmay", SUF |-> "suffragette", WEA |-> "weaver", WIN |-> "windrush",
   OVG |-> "london-overground"]

LineSummaryToLineStatus(line) ==
  [id |-> CODE_TO_LINE_ID[line.code], name |-> line.name, mode |-> CodeToMode(line.code),
   severity |-> BUCKET_TO_SEVERITY[line.status], reason |-> line.reason]
MockStatus == [i \in DOMAIN MOCK_LINES |-> LineSummaryToLineStatus(MOCK_LINES[i])]

\* toMockDisruption of MOCK_DISRUPTION: no paragraph repeats the headline.
MockDisruptions ==
  <<[id |-> "MOCK-ELZ-001", category |-> "RealTime",
     summary |-> <<[says |-> "severe delays westbound", length |-> 61]>>,
     text |-> <<[says |-> "a faulty train", length |-> 180],
                [says |-> "tickets are accepted", length |-> 125]>>,
     closure |-> "", routes |-> <<"elizabeth">>,
     stops |-> <<"PAD", "EAL", "WEA", "HAN", "STL", "HAY">>]>>
=============================================================================
