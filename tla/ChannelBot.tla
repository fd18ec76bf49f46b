------------------------------ MODULE ChannelBot ------------------------------
(***************************************************************************)
(* One channel bot once its channel is set up: which triggers it accepts,  *)
(* which replies it counts as repeated by the mesh.  The packet cache and  *)
(* the repeat checks live in memory, the queue of accepted replies is in   *)
(* the store and survives a restart (ReplyQueue models it; here it is the  *)
(* bag `queued`).                                                          *)
(*                                                                         *)
(* A message is one GRP_TXT of the mesh.  It is heard again and again, by  *)
(* other paths and with other hop counts, with the same hash.              *)
(***************************************************************************)
EXTENDS PacketDeduplicator, RepeatCheckTracker, FiniteSets, FiniteSetsExt

CONSTANTS
  Messages,       \* triggers on the mesh
  Texts,          \* reply texts
  TextOf(_),      \* the reply to a message; two messages may get the same
  MaxHops, MinHops,
  MaxTime, MaxAccepts, MaxRestarts   \* bounds

ASSUME BotAssumption == MinHops \in 0 .. MaxHops /\ \A m \in Messages : TextOf(m) \in Texts

VARIABLES
  now,
  stopped,        \* have the listeners and the sweeper been taken off?
  seen,           \* the deduplicator's Map
  queued,         \* per message: accepted replies that are not sent yet
  pending,        \* the tracker's Map
  totalPending,   \* #totalPending
  repliesSent, repeatsConfirmed, repeatsUnconfirmed,
  evicted,        \* replies evicted for capacity (they are only logged)
  restarts,
  accepted,       \* history, per message: how often it was accepted
  heardAt,        \* history, per message: when it last reached the cache, or -1
  since           \* history, per message: other messages that did so later

cacheVars == <<seen, heardAt, since>>
checkVars == <<pending, totalPending, repeatsConfirmed, repeatsUnconfirmed, evicted>>
botVars == <<now, stopped, queued, repliesSent, restarts, accepted>>
vars == <<cacheVars, checkVars, botVars>>

TypeOK ==
  /\ now \in 0 .. MaxTime /\ stopped \in BOOLEAN
  /\ \A i \in DOMAIN seen : seen[i] \in [id : Messages, at : 0 .. MaxTime]
  /\ Len(seen) <= DedupMaxEntries
  /\ \A i \in DOMAIN pending : pending[i].text \in Texts /\ pending[i].entries # <<>>
  /\ totalPending \in 0 .. RepeatMaxEntries
  /\ queued \in [Messages -> Nat]

Init ==
  /\ now = 0 /\ stopped = FALSE
  /\ seen = <<>> /\ heardAt = [m \in Messages |-> -1] /\ since = [m \in Messages |-> {}]
  /\ queued = [m \in Messages |-> 0] /\ accepted = [m \in Messages |-> 0]
  /\ pending = <<>> /\ totalPending = 0
  /\ repliesSent = 0 /\ repeatsConfirmed = 0 /\ repeatsUnconfirmed = 0
  /\ evicted = 0 /\ restarts = 0

-----------------------------------------------------------------------------
\* Every operation of the tracker begins by expiring; what it dropped is
\* counted as unconfirmed.
Expired == Size(pending) - Size(EvictExpired(pending, now))

\* Mutation of Expires: the counter of pending checks is forgotten.
ExpiresUncounted ==
  /\ pending' = EvictExpired(pending, now)
  /\ repeatsUnconfirmed' = repeatsUnconfirmed + Expired
  /\ UNCHANGED <<totalPending, repeatsConfirmed, evicted>>

Expires ==
  /\ pending' = EvictExpired(pending, now)
  /\ totalPending' = totalPending - Expired
  /\ repeatsUnconfirmed' = repeatsUnconfirmed + Expired
  /\ UNCHANGED <<repeatsConfirmed, evicted>>

\* The cache sees the message, and the history follows.
Caches(m) ==
  /\ seen' = Remember(seen, m, now)
  /\ heardAt' = [heardAt EXCEPT ![m] = now]
  /\ since' = [x \in Messages |-> IF x = m THEN {} ELSE since[x] \cup {m}]

\* Mutation of Remembers: the cache is asked before the hop count.
RemembersAnyway(hops) == TRUE

Remembers(hops) == hops >= MinHops

\* The deduplicator is asked last, right before the reply is queued.
Accepts(m, hops) == hops >= MinHops /\ ~IsDuplicate(EvictAged(seen, now), m, now)

AcceptedSoFar == MapThenSumSet(LAMBDA m : accepted[m], Messages)

\* A trigger that decrypts and matches.  Its text is no reply text, so the
\* repeat check only expires.  An enqueue() that cannot insert its row throws,
\* and the message stays in the cache without a reply.
HearTrigger(m, hops) ==
  /\ ~stopped
  /\ Accepts(m, hops) => AcceptedSoFar < MaxAccepts
  /\ Expires
  /\ IF Remembers(hops) THEN Caches(m) ELSE UNCHANGED cacheVars
  /\ LET reply == IF Accepts(m, hops) THEN 1 ELSE 0
     IN /\ \E stored \in 0 .. reply : queued' = [queued EXCEPT ![m] = @ + stored]
        /\ accepted' = [accepted EXCEPT ![m] = @ + reply]
  /\ UNCHANGED <<now, stopped, repliesSent, restarts>>

\* A message of the channel whose text is that of a reply of ours.
HearRepeat(t) ==
  /\ ~stopped
  /\ LET young == EvictExpired(pending, now)
         found == IF Rows(young, t) = {} THEN 0 ELSE 1
     IN /\ pending' = IF found = 1 THEN Shift(young, t) ELSE young
        /\ repeatsConfirmed' = repeatsConfirmed + found
        /\ totalPending' = totalPending - Expired - found
  /\ repeatsUnconfirmed' = repeatsUnconfirmed + Expired
  /\ UNCHANGED <<evicted, cacheVars, botVars>>

\* The queue dispatches, the command succeeds, and the check is registered.
\* Time the repeat check may take lies in modelled time.
SendReply(m) ==
  /\ queued[m] > 0 /\ now + RepeatTimeoutMs <= MaxTime
  /\ queued' = [queued EXCEPT ![m] = @ - 1]
  /\ repliesSent' = repliesSent + 1
  /\ LET pushed == Push(EvictExpired(pending, now), TextOf(m), now)
         surplus == Size(pushed) - Size(EvictOverflow(pushed))
     IN /\ pending' = EvictOverflow(pushed)
        /\ totalPending' = totalPending - Expired + 1 - surplus
        /\ evicted' = evicted + surplus
  /\ repeatsUnconfirmed' = repeatsUnconfirmed + Expired
  /\ UNCHANGED <<repeatsConfirmed, cacheVars, now, stopped, restarts, accepted>>

\* It fails or expires: nothing to watch for.
DropReply(m) ==
  /\ queued[m] > 0
  /\ queued' = [queued EXCEPT ![m] = @ - 1]
  /\ UNCHANGED <<cacheVars, checkVars, now, stopped, repliesSent, restarts, accepted>>

\* Mutation of Sweeps: only a bot that hears something sweeps.
SweepsNever == FALSE

Sweeps == ~stopped

Sweep ==
  /\ Sweeps
  /\ Expires
  /\ UNCHANGED <<cacheVars, botVars>>

Stop ==
  /\ ~stopped
  /\ stopped' = TRUE
  /\ UNCHANGED <<cacheVars, checkVars, now, queued, repliesSent, restarts, accepted>>

\* A new process begins with an empty memory.
Restart ==
  /\ restarts < MaxRestarts
  /\ restarts' = restarts + 1
  /\ stopped' = FALSE
  /\ seen' = <<>> /\ heardAt' = [m \in Messages |-> -1] /\ since' = [m \in Messages |-> {}]
  /\ pending' = <<>> /\ totalPending' = 0
  /\ repliesSent' = 0 /\ repeatsConfirmed' = 0 /\ repeatsUnconfirmed' = 0 /\ evicted' = 0
  /\ UNCHANGED <<now, queued, accepted>>

Tick ==
  /\ now < MaxTime
  /\ now' = now + 1
  /\ UNCHANGED <<cacheVars, checkVars, stopped, queued, repliesSent, restarts, accepted>>

Next ==
  \/ \E m \in Messages, hops \in 0 .. MaxHops : HearTrigger(m, hops)
  \/ \E t \in Texts : HearRepeat(t)
  \/ \E m \in Messages : SendReply(m) \/ DropReply(m)
  \/ Sweep \/ Stop \/ Restart \/ Tick

Spec == Init /\ [][Next]_vars

\* The sweep timer fires once a second, and time passes.
FairSpec == Spec /\ WF_vars(Sweep) /\ WF_vars(Tick)
-----------------------------------------------------------------------------
(* Properties.                                                              *)

\* The cache against its definition: a message is a duplicate exactly if it
\* was here less than the TTL ago and fewer than the limit of other messages
\* came by since.  Neither the early stop of the age scan nor the eviction by
\* insertion order forgets more or less than that.
CacheIsExact ==
  \A m \in Messages :
    IsDuplicate(seen, m, now) <=>
      /\ heardAt[m] >= 0 /\ now - heardAt[m] < DedupTtlMs
      /\ Cardinality(since[m]) < DedupMaxEntries

\* A delivery with too few hops does not use up the message: what the cache
\* would turn away has been accepted before, so one that clears the minimum
\* later is still accepted.
OnlyAcceptedIsRemembered ==
  \A i \in DOMAIN seen : accepted[seen[i].id] >= 1

\* Every reply sent by this process is waiting for its repeat, confirmed,
\* unconfirmed or evicted, and counted once.
AccountsBalance ==
  /\ totalPending = Size(pending)
  /\ repliesSent = totalPending + repeatsConfirmed + repeatsUnconfirmed + evicted

\* Whatever changes the tracker leaves no overdue entry behind, although the
\* scan of each text stops at its first entry that may still wait.  (With a
\* timeout of zero, which the schema allows, a reply is overdue when it is sent.)
NothingOverdueStays ==
  [][checkVars' # checkVars =>
       \A i \in DOMAIN pending' : \A j \in DOMAIN pending'[i].entries :
         LET entry == pending'[i].entries[j]
         IN entry.expiresAt > now \/ (RepeatTimeoutMs = 0 /\ entry.sentAt = now)]_vars

\* On a quiet channel, too, every sent reply is accounted for in the end.
EveryCheckEnds == Size(pending) > 0 ~> Size(pending) = 0 \/ stopped

\* What the README promises: one reply per message, tracked by the bot's own
\* deduplicator.
OneReplyPerMessage == \A m \in Messages : accepted[m] <= 1

\* The comment on RepeatCheckTracker: eviction in the style of
\* PacketDeduplicator, which takes the oldest entry, the key at the front of
\* the Map (`oldestText`).
Checks(map) ==
  UNION {{<<map[i].text, entry>> : entry \in ToSet(map[i].entries)} : i \in DOMAIN map}

EvictsTheOldest ==
  [][evicted' > evicted =>
       \A gone \in Checks(EvictExpired(pending, now)) \ Checks(pending'), kept \in Checks(pending') :
         gone[2].sentAt <= kept[2].sentAt]_vars
=============================================================================
