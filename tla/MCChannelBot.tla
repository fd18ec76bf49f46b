----------------------------- MODULE MCChannelBot -----------------------------
(***************************************************************************)
(* Bounds for ChannelBot: a cache of two packets and a tracker of two      *)
(* checks, so that three messages overflow both; two texts, one of them    *)
(* the reply to two messages.                                              *)
(***************************************************************************)
EXTENDS ChannelBot

CONSTANTS m1, m2, m3, pong, report

MCTextOf(m) == IF m = m3 THEN report ELSE pong
=============================================================================
