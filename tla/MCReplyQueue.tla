----------------------------- MODULE MCReplyQueue -----------------------------
(* Small instances of ReplyQueue for TLC.                                   *)
EXTENDS ReplyQueue

CONSTANTS r1, r2, r3

TwoReplies == {r1, r2}
ThreeReplies == {r1, r2, r3}
=============================================================================
