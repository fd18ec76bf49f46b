---------------------------- MODULE MCRadioManager ----------------------------
(* Small instances of RadioManager for TLC.                                 *)
EXTENDS RadioManager, TLC

CONSTANTS u1, u2

OneClient == {u1}
TwoClients == {u1, u2}
=============================================================================
