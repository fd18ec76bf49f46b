------------------------------ MODULE MCOutbound ------------------------------
(* Small instances of Outbound for TLC.                                     *)
EXTENDS Outbound, TLC

CONSTANTS r1, r2

OneReply == {r1}
TwoReplies == {r1, r2}
Symmetric == Permutations(TwoReplies)
=============================================================================
