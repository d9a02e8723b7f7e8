-------------------------- MODULE MCStationResolver --------------------------
(***************************************************************************)
(* Constant values for the StationResolver runs: two queries with names of *)
(* their own (one of them a hub with a rail child), a third that shares a  *)
(* key with the first, one that matches nothing, and a blank one.          *)
(***************************************************************************)
EXTENDS StationResolver

CONSTANTS plain, Plain, hub, nomatch, blank,   \* queries
          idPlain, idHub, idChild     \* stop ids

MCQueries  == {plain, Plain, hub, nomatch, blank}
FewQueries == {hub, blank}
MCStopIds  == {idPlain, idHub, idChild}
MCHubs     == {idHub}
MCCacheKey == [q \in Queries |-> IF q = Plain THEN plain ELSE q]
MCTopMatch == [q \in Queries |->
                 CASE q \in {plain, Plain} -> idPlain
                   [] q = hub -> idHub
                   [] OTHER -> None]
MCRailChild == [h \in MCHubs |-> idChild]
=============================================================================
