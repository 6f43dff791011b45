-------------------------- MODULE MCHttpRequesting --------------------------
(* Values for the constants of HttpRequesting. *)
EXTENDS HttpRequestingProps

CONSTANTS r1, r2, r3

Two   == {r1, r2}
Three == {r1, r2, r3}
None  == {}
First == {r1}
=============================================================================
