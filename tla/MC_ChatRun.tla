---------------------------- MODULE MC_ChatRun ----------------------------
(* Instance of ChatRun for TLC.                                            *)
EXTENDS ChatRun

\* Evidence items are interchangeable, and one attempt more than the least
\* shows a retry with a handler still running: what the bounds leave out is
\* more of the same.
MCCallTokens == {1, 3}
=============================================================================
