---------------------------- MODULE MCNodeRegistry ----------------------------
(***************************************************************************)
(* Bounds for NodeRegistry: two keys that differ in the last of three      *)
(* digits, and queries that match none, one or both of them, are too short *)
(* or too long, or are not hex digits.  A search finds everything, or a    *)
(* name or a key.                                                          *)
(***************************************************************************)
EXTENDS NodeRegistry

MCKeys == {<<1, 1, 1>>, <<1, 1, 2>>}
MCSearches == {[names |-> {"a", "b"}, prefix |-> <<>>],
               [names |-> {"b"}, prefix |-> <<1, 1, 1>>]}
MCPages == {[limit |-> 1, offset |-> 1], [limit |-> 2, offset |-> 0]}
NotADigit == 16

MCQueries == {<<>>, <<1>>, <<1, 1>>, <<1, 2>>, <<1, 1, 2>>, <<1, 1, 2, 1>>, <<1, NotADigit>>}
=============================================================================
