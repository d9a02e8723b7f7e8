---------------------------- MODULE MCDashboard ----------------------------
(* The states TfL may report, for the runs of Dashboard. *)
EXTENDS Dashboard

Paragraph(says, length) == [says |-> says, length |-> length]
Works == <<Paragraph("works", 90)>>
Signals == <<Paragraph("signals", 200)>>
Strike == <<Paragraph("strike", 110), Paragraph("tickets", 60)>>

Report(category, text, closure, stops) ==
  <<[category |-> category, pad |-> 0, text |-> text, closure |-> closure, stops |-> stops]>>
Disruption(text, stops) == Report("RealTime", text, "", stops)
Padded(disruption) == <<[disruption[1] EXCEPT !.pad = 1]>>
Good == [severity |-> 10, reason |-> "", disruption |-> <<>>]
Status(severity, reason, disruption) ==
  [severity |-> severity, reason |-> reason, disruption |-> disruption]
Line(id, mode, name, statuses) == [id |-> id, mode |-> mode, name |-> name, statuses |-> statuses]

District(statuses) == Line("district", "tube", 1, statuses)
Victoria(statuses) == Line("victoria", "tube", 2, statuses)
Metro(statuses) == Line("metro", "overground", 1, statuses)   \* not in the registry

\* Good service; one incident twice on one line, with other stops; the same
\* reported in another order, on top of a new line's strike; the end of
\* service, with a line withdrawn and a line without statuses; a strike on
\* several lines, beyond the limit; one text under two unknown categories and
\* with two closures; nothing at all.
MCNetworks ==
  { <<Victoria(<<Good>>), District(<<Good>>)>>,
    <<Victoria(<<Good>>),
      District(<<Status(9, "slow", Disruption(Signals, <<"a", "b", "a">>)),
                 Status(6, "late", Disruption(Signals, <<"b", "">>))>>)>>,
    <<Metro(<<Status(6, "works", Padded(Disruption(Works, <<"c">>)))>>),
      District(<<Status(6, "late", Disruption(Signals, <<"b">>)), Good,
                 Status(9, "slow", Padded(Disruption(Signals, <<"b", "a">>)))>>)>>,
    <<Victoria(<<Good, Status(20, "closed", <<>>)>>), District(<<>>)>>,
    <<Metro(<<Status(5, "no drivers", Disruption(Works, <<>>))>>),
      Victoria(<<Status(5, "half the trains", Disruption(Works, <<>>))>>),
      District(<<Status(3, "no trains", Disruption(Strike, <<"a">>)),
                 Status(5, "works", Disruption(Works, <<"b">>))>>)>>,
    <<District(<<Status(6, "late", Report("Closure", Signals, "", <<"b">>)),
                 Status(9, "slow", Report("Crowding", Signals, "", <<"b">>)),
                 Status(9, "slow", Report("RealTime", Signals, "part closed", <<"b">>))>>)>>,
    <<>> }
=============================================================================
