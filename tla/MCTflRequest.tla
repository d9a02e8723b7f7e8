---------------------------- MODULE MCTflRequest ----------------------------
(***************************************************************************)
(* Constant values for the TflRequest runs: Retry-After headers that are   *)
(* unusable, zero, negative, about as long as the back-off (one second)    *)
(* and much longer (five minutes).                                         *)
(***************************************************************************)
EXTENDS TflRequest

MCRetryAfters == {Malformed, 0, -2, 2, 600}
=============================================================================
