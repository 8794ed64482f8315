------------------------------ MODULE ScnCache ------------------------------
(***************************************************************************)
(* The SCN batching stage (cmd/hmi-nfd/api.go): every SCN that HSM POSTs   *)
(* runs scnHandler() in a goroutine of its own, which merges it into the   *)
(* one-entry cache jdCache under jdcMutex or flushes the cache to the      *)
(* channel scnQ; checkSCNCache() flushes it on a timer; handleSCNs() takes *)
(* the batches off scnQ.  A goroutine that sends on a full scnQ blocks     *)
(* while it holds jdcMutex.                                                *)
(*                                                                         *)
(* An SCN keeps its component list; State, Flag, Role and SoftwareStatus,  *)
(* which the code only compares for equality, are one value, attr; SubRole *)
(* and Enabled stay apart because the code treats them differently.  The   *)
(* timestamp, logging and JSON decoding are left out.                      *)
(***************************************************************************)
EXTENDS Naturals, Sequences

CONSTANTS
    Handlers,   \* the SCN POST requests, one goroutine each
    Timer,      \* the checkSCNCache() goroutine
    Free,       \* nobody holds jdcMutex
    Component,  \* component names
    Attr,       \* State/Flag/Role/SoftwareStatus of an SCN
    NoAttr,     \* all four empty
    SubRole,    \* sub-roles, one of them the empty one
    NoSubRole,
    Scns,       \* the SCNs that HSM may send
    MaxCaches,  \* values of Scn_max_cache (a PATCH of /params may change it)
    QCap        \* capacity of scnQ (10000 in the code)

Enabled == {"nil", "false", "true"}    \* Scn.Enabled is a *bool

Scn == [attr : Attr \cup {NoAttr}, subRole : SubRole,
        enabled : Enabled, components : Seq(Component)]

ASSUME ScnAssumption ==
    /\ Scns \subseteq Scn
    /\ NoSubRole \in SubRole
    /\ MaxCaches \subseteq Nat
    /\ QCap \in Nat \ {0}
    /\ Timer \notin Handlers
    /\ Free \notin Handlers \cup {Timer}

VARIABLES
    jdCache,    \* the cached SCN
    jdCount,    \* SCNs merged into it
    scnQ,       \* channel of batches to fan out
    jdcMutex,   \* holder of jdcMutex, or Free
    pc,         \* where each goroutine is
    jdata,      \* the SCN each handler decoded
    maxCache,   \* app_params.Scn_max_cache
    handed,     \* history: the batches handleSCNs() has taken
    delivered,  \* history: what they say of each of their components
    received,   \* history: one item per component merged or cached
    starts      \* history: for each batch sent, how many items precede it

vars == <<jdCache, jdCount, scnQ, jdcMutex, pc, jdata, maxCache,
          handed, delivered, received, starts>>

EmptyScn == [attr |-> NoAttr, subRole |-> NoSubRole, enabled |-> "nil",
             components |-> <<>>]

Init ==
    /\ jdCache = EmptyScn
    /\ jdCount = 0
    /\ scnQ = <<>>
    /\ jdcMutex = Free
    /\ pc = [p \in Handlers \cup {Timer} |->
                IF p = Timer THEN "sleep" ELSE "new"]
    /\ jdata = [h \in Handlers |-> EmptyScn]
    /\ maxCache \in MaxCaches
    /\ handed = <<>>
    /\ delivered = <<>>
    /\ received = <<>>
    /\ starts = <<>>

-----------------------------------------------------------------------------
\* What an SCN says of its i-th component, and of all of them.
Item(s, i) == [comp |-> s.components[i], attr |-> s.attr,
               subRole |-> s.subRole, enabled |-> s.enabled]
Items(s) == [i \in 1..Len(s.components) |-> Item(s, i)]

\* Mutant of jdcDeepCopy: the sub-role is forgotten.
DeepCopyNoSubRole(s) ==
    [s EXCEPT !.enabled = IF s.enabled = "nil" THEN jdCache.enabled
                                               ELSE s.enabled,
              !.subRole = jdCache.subRole]

\* jdcDeepCopy(): a nil Enabled leaves the cached one as it was.
jdcDeepCopy(s) ==
    [s EXCEPT !.enabled = IF s.enabled = "nil" THEN jdCache.enabled
                                               ELSE s.enabled]

\* Mutant of scnCacheEqual: only Enabled is compared.
EqualEnabledOnly(s) == (s.enabled = "true") <=> (jdCache.enabled = "true")

\* scnCacheEqual(): SubRole is not compared; no Enabled counts as false.
scnCacheEqual(s) ==
    /\ s.attr = jdCache.attr
    /\ (s.enabled = "true") <=> (jdCache.enabled = "true")

\* Mutant of Send: a channel without a limit.
SendUnbounded(b, before) ==
    /\ scnQ' = Append(scnQ, b)
    /\ starts' = Append(starts, before)

\* scnQ <- b blocks while the channel is full.  `before' counts the items
\* received before those of batch b.
Send(b, before) ==
    /\ Len(scnQ) < QCap
    /\ scnQ' = Append(scnQ, b)
    /\ starts' = Append(starts, before)

Unlock(p, next) ==
    /\ jdcMutex' = Free
    /\ pc' = [pc EXCEPT ![p] = next]

-----------------------------------------------------------------------------
(* scnHandler() *)

\* Not a POST, or not JSON: refused before the cache is looked at.
Refuse(h) ==
    /\ pc[h] = "new"
    /\ pc' = [pc EXCEPT ![h] = "done"]
    /\ UNCHANGED <<jdCache, jdCount, scnQ, jdcMutex, jdata, maxCache,
                   handed, delivered, received, starts>>

Decode(h) ==
    /\ pc[h] = "new"
    /\ \E s \in Scns : jdata' = [jdata EXCEPT ![h] = s]
    /\ pc' = [pc EXCEPT ![h] = "lock"]
    /\ UNCHANGED <<jdCache, jdCount, scnQ, jdcMutex, maxCache,
                   handed, delivered, received, starts>>

\* jdcMutex.Lock() of a handler or of the timer
Lock(p) ==
    /\ pc[p] = "lock"
    /\ jdcMutex = Free
    /\ jdcMutex' = p
    /\ pc' = [pc EXCEPT ![p] = "locked"]
    /\ UNCHANGED <<jdCache, jdCount, scnQ, jdata, maxCache,
                   handed, delivered, received, starts>>

CacheEmpty == Len(jdCache.components) = 0 \/ jdCount = 0

\* Mutant of CacheFirst: the early return forgets Unlock().
CacheFirstLocked(h) ==
    /\ pc[h] = "locked"
    /\ CacheEmpty
    /\ jdCache' = jdcDeepCopy(jdata[h])
    /\ jdCount' = jdCount + 1
    /\ received' = received \o Items(jdata[h])
    /\ pc' = [pc EXCEPT ![h] = "done"]
    /\ UNCHANGED <<scnQ, jdcMutex, jdata, maxCache, handed, delivered, starts>>

\* The first SCN on an empty cache.  The batch size is not looked at.
CacheFirst(h) ==
    /\ pc[h] = "locked"
    /\ CacheEmpty
    /\ jdCache' = jdcDeepCopy(jdata[h])
    /\ jdCount' = jdCount + 1
    /\ received' = received \o Items(jdata[h])
    /\ Unlock(h, "done")
    /\ UNCHANGED <<scnQ, jdata, maxCache, handed, delivered, starts>>

\* Mutant of Merged: the new components go in front.
MergedInFront(s) == [jdCache EXCEPT !.components = s.components \o @]

Merged(s) == [jdCache EXCEPT !.components = @ \o s.components]

\* Mutant of Coalesce: off by one, jdCount > Scn_max_cache.
CoalesceLate(h) ==
    /\ pc[h] = "locked"
    /\ ~CacheEmpty
    /\ scnCacheEqual(jdata[h])
    /\ jdCount + 1 <= maxCache
    /\ jdCache' = Merged(jdata[h])
    /\ jdCount' = jdCount + 1
    /\ received' = received \o Items(jdata[h])
    /\ Unlock(h, "done")
    /\ UNCHANGED <<scnQ, jdata, maxCache, handed, delivered, starts>>

\* An SCN like the cached one, with room left in the batch ...
Coalesce(h) ==
    /\ pc[h] = "locked"
    /\ ~CacheEmpty
    /\ scnCacheEqual(jdata[h])
    /\ jdCount + 1 < maxCache
    /\ jdCache' = Merged(jdata[h])
    /\ jdCount' = jdCount + 1
    /\ received' = received \o Items(jdata[h])
    /\ Unlock(h, "done")
    /\ UNCHANGED <<scnQ, jdata, maxCache, handed, delivered, starts>>

\* ... and one that fills it.
CoalesceAndFlush(h) ==
    /\ pc[h] = "locked"
    /\ ~CacheEmpty
    /\ scnCacheEqual(jdata[h])
    /\ jdCount + 1 >= maxCache
    /\ Send(Merged(jdata[h]), Len(received) - Len(jdCache.components))
    /\ jdCache' = EmptyScn
    /\ jdCount' = 0
    /\ received' = received \o Items(jdata[h])
    /\ Unlock(h, "done")
    /\ UNCHANGED <<jdata, maxCache, handed, delivered>>

\* A different SCN: flush the cache and start a batch with this one.
ReplaceCache(h) ==
    /\ pc[h] = "locked"
    /\ ~CacheEmpty
    /\ ~scnCacheEqual(jdata[h])
    /\ Send(jdCache, Len(received) - Len(jdCache.components))
    /\ jdCache' = jdcDeepCopy(jdata[h])
    /\ jdCount' = 1
    /\ received' = received \o Items(jdata[h])
    /\ Unlock(h, "done")
    /\ UNCHANGED <<jdata, maxCache, handed, delivered>>

-----------------------------------------------------------------------------
(* checkSCNCache(): wakes after Scn_cache_delay seconds, for ever. *)

TimerWake ==
    /\ pc[Timer] = "sleep"
    /\ pc' = [pc EXCEPT ![Timer] = "lock"]
    /\ UNCHANGED <<jdCache, jdCount, scnQ, jdcMutex, jdata, maxCache,
                   handed, delivered, received, starts>>

TimerFlush ==
    /\ pc[Timer] = "locked"
    /\ Len(jdCache.components) > 0
    /\ Send(jdCache, Len(received) - Len(jdCache.components))
    /\ jdCache' = EmptyScn
    /\ jdCount' = 0
    /\ Unlock(Timer, "sleep")
    /\ UNCHANGED <<jdata, maxCache, handed, delivered, received>>

TimerNothing ==
    /\ pc[Timer] = "locked"
    /\ Len(jdCache.components) = 0
    /\ Unlock(Timer, "sleep")
    /\ UNCHANGED <<jdCache, jdCount, scnQ, jdata, maxCache,
                   handed, delivered, received, starts>>

-----------------------------------------------------------------------------
\* A component and the State, Flag, Role and SoftwareStatus it is said to have.
Relayed == [comp : Component, attr : Attr \cup {NoAttr}]
Keep(it) == [comp |-> it.comp, attr |-> it.attr]
Relays(s) == [i \in 1..Len(s.components) |-> Keep(Item(s, i))]

\* handleSCNs() takes the next batch and processes it (telemetry, doScn).
TakeBatch ==
    /\ scnQ # <<>>
    /\ handed' = Append(handed, Head(scnQ))
    /\ delivered' = delivered \o Relays(Head(scnQ))
    /\ scnQ' = Tail(scnQ)
    /\ UNCHANGED <<jdCache, jdCount, jdcMutex, pc, jdata, maxCache,
                   received, starts>>

\* A PATCH of /params changes Scn_max_cache; no lock is taken.
PatchMaxCache ==
    /\ \E m \in MaxCaches : m # maxCache /\ maxCache' = m
    /\ UNCHANGED <<jdCache, jdCount, scnQ, jdcMutex, pc, jdata,
                   handed, delivered, received, starts>>

HandlerStep(h) == \/ Refuse(h) \/ Decode(h) \/ Lock(h) \/ CacheFirst(h)
                  \/ Coalesce(h) \/ CoalesceAndFlush(h) \/ ReplaceCache(h)

TimerStep == TimerWake \/ Lock(Timer) \/ TimerFlush \/ TimerNothing

Next == \/ \E h \in Handlers : HandlerStep(h)
        \/ TimerStep
        \/ TakeBatch
        \/ PatchMaxCache

SafetySpec == Init /\ [][Next]_vars

\* The Go scheduler runs every goroutine that can run, sync.Mutex hands the
\* lock to a waiter that has starved for 1 ms, and a blocked channel send
\* proceeds once there is room.  Nothing obliges HSM to send an SCN.
Fairness ==
    /\ \A h \in Handlers :
          /\ SF_vars(Lock(h))
          /\ WF_vars(CacheFirst(h) \/ Coalesce(h) \/ CoalesceAndFlush(h)
                     \/ ReplaceCache(h))
    /\ WF_vars(TimerWake)
    /\ SF_vars(Lock(Timer))
    /\ WF_vars(TimerFlush \/ TimerNothing)
    /\ WF_vars(TakeBatch)

Spec == SafetySpec /\ Fairness

-----------------------------------------------------------------------------
(* Properties *)

ItemType == [comp : Component, attr : Attr \cup {NoAttr},
             subRole : SubRole, enabled : Enabled]

\* Every batch ever put on scnQ, in order.
Sent == handed \o scnQ

\* How many items had been received when the cached batch was started.
CacheStart == Len(received) - Len(jdCache.components)

\* The types of scnHandler's globals; the channel never exceeds its capacity.
TypeOK ==
    /\ jdCache \in Scn
    /\ jdCount \in Nat
    /\ scnQ \in Seq(Scn) /\ Len(scnQ) <= QCap
    /\ jdcMutex \in Handlers \cup {Timer, Free}
    /\ pc \in [Handlers \cup {Timer} ->
                {"new", "sleep", "lock", "locked", "done"}]
    /\ jdata \in [Handlers -> Scn]
    /\ maxCache \in MaxCaches
    /\ handed \in Seq(Scn)
    /\ delivered \in Seq(Relayed)
    /\ received \in Seq(ItemType)
    /\ starts \in Seq(Nat)

\* Item r of the history is reported by component i of batch b under the
\* State, Flag, Role and SoftwareStatus it arrived with.
Reports(b, i, r) == /\ received[r].comp = b.components[i]
                    /\ received[r].attr = b.attr

\* The batches tile the history: the first starts at 0, each next one where
\* the one before it ends, and the cache where the last one ends.
BatchesTile ==
    /\ Len(starts) = Len(Sent)
    /\ CacheStart \in Nat
    /\ IF Sent = <<>> THEN CacheStart = 0 ELSE starts[1] = 0
    /\ \A k \in 1..Len(Sent) :
          starts[k] + Len(Sent[k].components)
            = IF k < Len(Sent) THEN starts[k + 1] ELSE CacheStart

\* Whatever handlers, timer and scnQ do in whatever order, every component of
\* every SCN that scnHandler() answered is in exactly one batch or in the
\* cache, in the order of arrival, with the state attributes it came with:
\* batching loses, repeats, reorders and relabels nothing.
ExactlyOnceInOrder ==
    /\ BatchesTile
    /\ \A k \in 1..Len(Sent) : \A i \in 1..Len(Sent[k].components) :
          Reports(Sent[k], i, starts[k] + i)
    /\ \A i \in 1..Len(jdCache.components) :
          Reports(jdCache, i, CacheStart + i)

\* scnCacheEqual() merges SCNs of different sub-roles.  The sub-role a batch
\* goes out under, which selects its subscribers, is that of the SCN that
\* began it: never that of a batch flushed before, nor of an SCN without
\* components that passed through the cache.
SubRoleOfFirst ==
    \A k \in 1..Len(Sent) : Sent[k].components # <<>> =>
        Sent[k].subRole = received[starts[k] + 1].subRole

\* The largest Scn_max_cache there is, but 2 at least: scnHandler() does not
\* look at the limit before a second SCN is merged.
Largest(S) == CHOOSE n \in S : \A m \in S : m <= n
BatchLimit == Largest(MaxCaches \cup {2})
LongestScn == Largest({Len(s.components) : s \in Scns})

\* Scn_max_cache bounds what waits: the SCN that fills the batch also flushes
\* it, so the cache always holds the components of fewer SCNs than the limit
\* and no batch those of more, even when SCNs without components inflate
\* jdCount or a PATCH lowers the limit below it.
BatchBound ==
    /\ Len(jdCache.components) <= (BatchLimit - 1) * LongestScn
    /\ \A k \in 1..Len(Sent) :
          Len(Sent[k].components) <= BatchLimit * LongestScn

\* What the batching stage promises, with the history as what it accepted.
Relay == INSTANCE OrderedRelay WITH
    Element <- Relayed,
    accepted <- [i \in 1..Len(received) |-> Keep(received[i])]

\* The batching stage implements the ordered relay: scnHandler() accepts the
\* components of an SCN, handleSCNs() delivers those of a batch, and every
\* other step (lock, timer, flush to scnQ) is invisible.
ImplementsRelay == Relay!RelaySafety

\* No component waits in the cache or on scnQ for ever: the timer and the
\* handlers flush it and handleSCNs() takes it, however long a full scnQ
\* blocks the one that holds jdcMutex.
EventuallyHanded ==
    \A h \in Handlers :
        (pc[h] = "lock") ~> (pc[h] = "done" /\ scnQ = <<>>
                              /\ jdCache.components = <<>>)

\* A component is reported as disabled only if its own SCN said so.
\* isStateUnavailable() prunes the subscriptions of a disabled component.
DisabledOnlyIfReported ==
    \A k \in 1..Len(Sent) : \A i \in 1..Len(Sent[k].components) :
        Sent[k].enabled = "false" => received[starts[k] + i].enabled = "false"
=============================================================================
