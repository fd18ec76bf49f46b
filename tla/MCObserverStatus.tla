--------------------------- MODULE MCObserverStatus ---------------------------
(* Bounds for ObserverStatus.  NumTasks - MaxFaults >= MaxTokens, as for    *)
(* TokenBroker.                                                             *)
EXTENDS ObserverStatus

ASSUME EnoughTasks == NumTasks - MaxFaults >= MaxTokens
=============================================================================
