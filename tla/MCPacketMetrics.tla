---------------------------- MODULE MCPacketMetrics ----------------------------
(***************************************************************************)
(* Bounds for PacketMetrics: two brokers; two packet types that share a    *)
(* bucket; a day of two intervals, a retention of one, and a ladder so     *)
(* short that a wide range runs past its end.                              *)
(***************************************************************************)
EXTENDS PacketMetrics, TLC

CONSTANTS req, raw

MCBucketOf(c) == "other"
MCSymmetry == Permutations(Codes)
MCLadder == {2}
=============================================================================
