---------------------------- MODULE MCSseParser ----------------------------
(* The line terminators for the run SseParser_chunks. *)
EXTENDS SseParser

MCTerminators == {CRLF, <<"CR">>, <<"LF">>}
=============================================================================
