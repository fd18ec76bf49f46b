----------------------------- MODULE CommandQueue -----------------------------
(***************************************************************************)
(* The promise chain every device command goes through.  run(task) hangs   *)
(* the task on the tail of the chain; the tail of the chain settles when   *)
(* the task does, well or badly.  `chain` lists the tasks in the order of  *)
(* the calls, so the promise a task waits for is that of its predecessor.  *)
(***************************************************************************)
EXTENDS Integers, Sequences

CONSTANT Commands

VARIABLES
  cmd,     \* per command: "idle", "waiting", "running", "ok" or "err"
  chain    \* the commands in the order of the run() calls

queueVars == <<cmd, chain>>

Settled == {"ok", "err"}

QueueTypeOK ==
  /\ cmd \in [Commands -> {"idle", "waiting", "running"} \cup Settled]
  /\ chain \in Seq(Commands)

QueueInit ==
  /\ cmd = [x \in Commands |-> "idle"]
  /\ chain = <<>>

-----------------------------------------------------------------------------
(* Operators for the callers: a handler settles a command and may call      *)
(* run() for its next one before it awaits again.                           *)

Run(x) ==
  /\ cmd' = [cmd EXCEPT ![x] = "waiting"]
  /\ chain' = Append(chain, x)

Settle(x, outcome) ==
  /\ cmd' = [cmd EXCEPT ![x] = outcome]
  /\ UNCHANGED chain

SettleAndRun(x, outcome, y) ==
  /\ cmd' = [cmd EXCEPT ![x] = outcome, ![y] = "waiting"]
  /\ chain' = Append(chain, y)

Ready(i) == i > 1 => cmd[chain[i - 1]] \in Settled

\* The task function is called.
Begin(i) ==
  /\ cmd[chain[i]] = "waiting" /\ Ready(i)
  /\ cmd' = [cmd EXCEPT ![chain[i]] = "running"]
  /\ UNCHANGED chain

BeginNext == \E i \in DOMAIN chain : Begin(i)

-----------------------------------------------------------------------------
(* The queue on its own, with callers that call once per command.           *)

Call == \E x \in Commands : cmd[x] = "idle" /\ Run(x)

Answer == \E x \in Commands, outcome \in Settled : cmd[x] = "running" /\ Settle(x, outcome)

QueueNext == Call \/ BeginNext \/ Answer

QueueSpec == QueueInit /\ [][QueueNext]_queueVars
-----------------------------------------------------------------------------
(* Properties.                                                              *)

\* Strict order: nothing has begun that was submitted after a command that is
\* not settled yet.  meshcore.js matches an answer to "the next event of that
\* type", so two commands in flight could take each other's answers.
Serial ==
  \A i, j \in DOMAIN chain :
    i < j /\ cmd[chain[i]] \notin Settled => cmd[chain[j]] = "waiting"

\* The inductive form: a command is on the chain once at most, and only when
\* it has been submitted; everything before one that has begun is settled.
ChainInv ==
  /\ QueueTypeOK
  /\ \A i \in DOMAIN chain : cmd[chain[i]] # "idle"
  /\ \A i, j \in DOMAIN chain : i # j => chain[i] # chain[j]
  /\ Serial
=============================================================================
