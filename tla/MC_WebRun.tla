----------------------------- MODULE MC_WebRun -----------------------------
(* Instance of WebRun for TLC: two chunks of one evidence item, and one    *)
(* row fewer than the sources there are.                                   *)
EXTENDS WebRun

CONSTANTS w1, w2, c1, c2, i1

MCItemOf == (c1 :> i1) @@ (c2 :> i1)
=============================================================================
