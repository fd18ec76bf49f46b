------------------------------ MODULE QuietWindow ------------------------------
(***************************************************************************)
(* ReplyQueue with one more history variable: when the last send ended.    *)
(* The coordinator notes activity when a send starts and not when it ends, *)
(* which is what this module is about.                                     *)
(***************************************************************************)
EXTENDS ReplyQueue

VARIABLE lastEndAt   \* history: when the last send settled

quietVars == <<vars, lastEndAt>>

QuietInit == Init /\ lastEndAt = 0

QuietNext ==
  /\ Next
  /\ lastEndAt' = IF dispatching # NoReply /\ dispatching' = NoReply THEN now ELSE lastEndAt

QuietSpec == QuietInit /\ [][QuietNext]_quietVars

\* What the README promises: after a reply was sent, the next one needs a
\* quiet window of its own.
FreshQuietWindow ==
  [][dispatching = NoReply /\ dispatching' # NoReply /\ lastEndAt > 0
       => now - lastEndAt >= QuietMs]_quietVars
=============================================================================
