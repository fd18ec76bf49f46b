---------------------------- MODULE MCChannelSetup ----------------------------
(* Small instances of ChannelSetup for TLC: more channels than slots, so    *)
(* that the table of the device can be full or hold a foreign channel.      *)
EXTENDS ChannelSetup

CONSTANTS b1, b2, echo, stats, other

TwoBots == {b1, b2}
ThreeChannels == {echo, stats, other}
=============================================================================
