----------------------------- MODULE MCQuietWindow -----------------------------
(* A small instance of QuietWindow for TLC.                                 *)
EXTENDS QuietWindow

CONSTANTS r1, r2

TwoReplies == {r1, r2}
=============================================================================
