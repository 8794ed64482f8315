--------------------------- MODULE HsmSubscriber ----------------------------
(***************************************************************************)
(* hmnfd's own subscriptions at the Hardware State Manager (fanout.go).    *)
(* The subscription handlers, and main() for the mandatory SCNs, send each *)
(* request on hsmsub_chan; one goroutine, subscribeToHsmScn(), takes it,   *)
(* POSTs it to HSM when needHSMSubs() finds something new in it, re-queues *)
(* it on the same channel when the POST fails, and saves what it believes  *)
(* to be subscribed under HSM_SUBS_KEY.  The channel and the tracker die   *)
(* with the process; HSM and ETCD survive.                                 *)
(*                                                                         *)
(* A request names a set of attributes (its states, software statuses,     *)
(* roles and sub-roles, tagged with their kind) and may carry Enabled.     *)
(***************************************************************************)
EXTENDS Naturals, Sequences

CONSTANTS
    Attr,        \* hardware states, software statuses, roles, sub-roles
    Mandatory,   \* the request of subscribeMandatoryScn()
    Requests,    \* what the POST handlers may put on the channel
    ChanCap,     \* capacity of hsmsub_chan (50000 in the code)
    NosmValues,  \* values --nosm or a PATCH of /params may give Nosm
    MaxPosts,    \* bound: requests sent by handlers
    MaxFaults,   \* bound: failed HSM POSTs and ETCD stores
    MaxRestarts  \* bound: process restarts

Request == [attrs : SUBSET Attr, enabled : {"nil", "false", "true"}]

\* What the tracker, HSM and HSM_SUBS_KEY record.
Info == [attrs : SUBSET Attr, enabled : BOOLEAN]

ASSUME HsmAssumption ==
    /\ Mandatory \in Request /\ Requests \subseteq Request
    /\ Mandatory.enabled = "true"
    /\ ChanCap \in Nat \ {0}
    /\ NosmValues \subseteq BOOLEAN
    /\ {MaxPosts, MaxFaults, MaxRestarts} \subseteq Nat

VARIABLES
    hsmsub_chan,  \* the channel
    pc,           \* where subscribeToHsmScn() is
    sub,          \* the request it works on
    tracker,      \* its tracker; the maps are shared with tracker_tmp
    tmpEnabled,   \* tracker_tmp.enabled, the one field that is copied
    nosm,         \* app_params.Nosm # 0
    hsm,          \* what HSM sends hmnfd SCNs for
    subsKey,      \* value of HSM_SUBS_KEY
    acked,        \* history: what HSM acknowledged to this process
    posts, faults, restarts

vars == <<hsmsub_chan, pc, sub, tracker, tmpEnabled, nosm, hsm, subsKey,
          acked, posts, faults, restarts>>

Nothing == [attrs |-> {}, enabled |-> FALSE]

Add(info, r) == [attrs   |-> info.attrs \cup r.attrs,
                 enabled |-> info.enabled \/ r.enabled = "true"]

Covers(info, r) == /\ r.attrs \subseteq info.attrs
                   /\ r.enabled = "true" => info.enabled

\* main() has queued the mandatory request before the HTTP server accepts
\* anything.
Init ==
    /\ hsmsub_chan = <<Mandatory>>
    /\ pc = "receive"
    /\ sub = Mandatory
    /\ tracker = Nothing
    /\ tmpEnabled = FALSE
    /\ acked = Nothing
    /\ nosm \in NosmValues
    /\ hsm = Nothing
    /\ subsKey = Nothing
    /\ posts = 0 /\ faults = 0 /\ restarts = 0

-----------------------------------------------------------------------------
\* A POST handler's hsmsub_chan <- jdata; it blocks while the channel is full.
Notify ==
    /\ posts < MaxPosts
    /\ Len(hsmsub_chan) < ChanCap
    /\ \E r \in Requests : hsmsub_chan' = Append(hsmsub_chan, r)
    /\ posts' = posts + 1
    /\ UNCHANGED <<pc, sub, tracker, tmpEnabled, nosm, hsm, subsKey, acked,
                   faults, restarts>>

\* Mutants of needHSMSubs: the tracker is not asked; a request is new only
\* when none of its attributes is known.
NeedAlways(r) == TRUE
NeedIfAllNew(r) == r.attrs \cap tracker.attrs = {}

\* needHSMSubs(): some attribute, or Enabled, is new to the tracker.
needHSMSubs(r) == ~Covers(tracker, r)

\* A request is taken off the channel.  ttmp := tracker copies the struct but
\* not its maps, so the new attributes are in the tracker from here on; only
\* the enabled flag waits in tracker_tmp.  A request with nothing new is
\* dropped.
Receive ==
    /\ pc = "receive"
    /\ hsmsub_chan # <<>>
    /\ LET r == Head(hsmsub_chan) IN
          /\ sub' = r
          /\ tracker' = [tracker EXCEPT !.attrs = @ \cup r.attrs]
          /\ tmpEnabled' = (tracker.enabled \/ r.enabled = "true")
          /\ pc' = IF ~needHSMSubs(r) THEN "receive"
                   ELSE IF nosm THEN "commit" ELSE "send"
    /\ hsmsub_chan' = Tail(hsmsub_chan)
    /\ UNCHANGED <<nosm, hsm, subsKey, acked, posts, faults, restarts>>

\* sendHsmScnSubscription(): HSM takes the subscription and says so.  Nosm is
\* read again: with it set nothing is sent and the call still succeeds.
SendOk ==
    /\ pc = "send"
    /\ hsm' = IF nosm THEN hsm ELSE Add(hsm, sub)
    /\ acked' = IF nosm THEN acked ELSE Add(acked, sub)
    /\ pc' = "commit"
    /\ UNCHANGED <<hsmsub_chan, sub, tracker, tmpEnabled, nosm, subsKey,
                   posts, faults, restarts>>

\* Mutant of SendFail: the request is not queued again.
SendFailDrops ==
    /\ pc = "send"
    /\ ~nosm
    /\ faults < MaxFaults
    /\ faults' = faults + 1
    /\ hsm' \in {hsm, Add(hsm, sub)}
    /\ pc' = "receive"
    /\ UNCHANGED <<hsmsub_chan, sub, tracker, tmpEnabled, nosm, subsKey,
                   acked, posts, restarts>>

\* The POST fails or times out; HSM may have acted on it all the same.
SendFail ==
    /\ pc = "send"
    /\ ~nosm
    /\ faults < MaxFaults
    /\ faults' = faults + 1
    /\ hsm' \in {hsm, Add(hsm, sub)}
    /\ pc' = "requeue"
    /\ UNCHANGED <<hsmsub_chan, sub, tracker, tmpEnabled, nosm, subsKey,
                   acked, posts, restarts>>

\* Mutant of Requeue: the request is put back twice.
RequeueTwice ==
    /\ pc = "requeue"
    /\ Len(hsmsub_chan) < ChanCap
    /\ hsmsub_chan' = hsmsub_chan \o <<sub, sub>>
    /\ pc' = "receive"
    /\ UNCHANGED <<sub, tracker, tmpEnabled, nosm, hsm, subsKey, acked,
                   posts, faults, restarts>>

\* After a second, the request goes back on the channel, whose only reader is
\* this goroutine.
Requeue ==
    /\ pc = "requeue"
    /\ Len(hsmsub_chan) < ChanCap
    /\ hsmsub_chan' = Append(hsmsub_chan, sub)
    /\ pc' = "receive"
    /\ UNCHANGED <<sub, tracker, tmpEnabled, nosm, hsm, subsKey, acked,
                   posts, faults, restarts>>

\* Mutant of Commit: tracker_tmp is thrown away.
CommitForgotten ==
    /\ pc = "commit"
    /\ pc' = "store1"
    /\ UNCHANGED <<hsmsub_chan, sub, tracker, tmpEnabled, nosm, hsm, subsKey,
                   acked, posts, faults, restarts>>

\* tracker = tracker_tmp
Commit ==
    /\ pc = "commit"
    /\ tracker' = [tracker EXCEPT !.enabled = tmpEnabled]
    /\ pc' = "store1"
    /\ UNCHANGED <<hsmsub_chan, sub, tmpEnabled, nosm, hsm, subsKey, acked,
                   posts, faults, restarts>>

\* The tracker is stored twice, whether or not the first store succeeds; a
\* store that fails may have taken effect.
StoreSubs(this, next) ==
    /\ pc = this
    /\ pc' = next
    /\ \/ /\ subsKey' = tracker
          /\ UNCHANGED faults
       \/ /\ faults < MaxFaults
          /\ faults' = faults + 1
          /\ subsKey' \in {subsKey, tracker}
    /\ UNCHANGED <<hsmsub_chan, sub, tracker, tmpEnabled, nosm, hsm, acked,
                   posts, restarts>>

Store1 == StoreSubs("store1", "store2")

\* Mutant of Store2: the store is repeated for ever.
Store2Again == StoreSubs("store2", "store1")

Store2 == StoreSubs("store2", "receive")

\* A PATCH of /params changes Nosm.
PatchNosm ==
    /\ \E b \in NosmValues : b # nosm /\ nosm' = b
    /\ UNCHANGED <<hsmsub_chan, pc, sub, tracker, tmpEnabled, hsm, subsKey,
                   acked, posts, faults, restarts>>

\* The process dies at any point and is started again.
Restart ==
    /\ restarts < MaxRestarts
    /\ restarts' = restarts + 1
    /\ hsmsub_chan' = <<Mandatory>>
    /\ pc' = "receive"
    /\ sub' = Mandatory
    /\ tracker' = Nothing
    /\ tmpEnabled' = FALSE
    /\ acked' = Nothing
    /\ UNCHANGED <<nosm, hsm, subsKey, posts, faults>>

Loop == Receive \/ SendOk \/ SendFail \/ Requeue \/ Commit \/ Store1 \/ Store2

Next == Notify \/ Loop \/ PatchNosm \/ Restart

SafetySpec == Init /\ [][Next]_vars

\* The goroutine runs whenever it can, and HSM answers in the end.
Fairness == WF_vars(Loop)

Spec == SafetySpec /\ Fairness

-----------------------------------------------------------------------------
(* Properties *)

\* The types of the channel, of subscribeToHsmScn's locals, of HSM's and
\* ETCD's records, and the bounds; the channel stays within its capacity.
TypeOK ==
    /\ hsmsub_chan \in Seq(Request) /\ Len(hsmsub_chan) <= ChanCap
    /\ pc \in {"receive", "send", "requeue", "commit", "store1", "store2"}
    /\ sub \in Request
    /\ tracker \in Info
    /\ tmpEnabled \in BOOLEAN
    /\ nosm \in NosmValues
    /\ hsm \in Info /\ subsKey \in Info /\ acked \in Info
    /\ posts \in 0..MaxPosts
    /\ faults \in 0..MaxFaults
    /\ restarts \in 0..MaxRestarts

\* subscribeToHsmScn() never POSTs to HSM a request that holds nothing beyond
\* what HSM has already acknowledged to this process, whatever was retried,
\* failed half-way or PATCHed in between ("insure we don't send > 1
\* subscription to HSM for any given thing").
NoRedundantPost == pc = "send" => ~Covers(acked, sub)

\* HSM really has everything it acknowledged, and the tracker (or, until it
\* is committed, tracker_tmp) knows of all of it.
AckedTracked ==
    /\ acked.attrs \subseteq hsm.attrs \cap tracker.attrs
    /\ acked.enabled => /\ hsm.enabled
                        /\ tracker.enabled \/ (pc = "commit" /\ tmpEnabled)

\* With Nosm off, what a handler put on the channel before it answered 200 is
\* subscribed at HSM in the end, however its attributes overlap with those of
\* earlier requests, unless a call failed or the process was restarted.
EveryPostCovered ==
    [](~nosm) =>
        \A r \in Requests :
            (\E i \in 1..Len(hsmsub_chan) : hsmsub_chan[i] = r)
                ~> (Covers(hsm, r) \/ faults > 0 \/ restarts > 0)

\* The goroutine waits for room on the channel that only it reads: it will not
\* receive again before the process is restarted.
Stuck == pc = "requeue" /\ Len(hsmsub_chan) = ChanCap

\* "retrying.": with Nosm off, the request for the SCNs that pruning depends on
\* is tried until HSM has it, whatever calls fail and restarts come on the
\* way, unless the goroutine gets stuck or another request that carries
\* Enabled is committed first (for which the retry is then dropped: see
\* MandatorySubscribed).
MandatoryRetried ==
    [](~nosm) => <>(Covers(hsm, Mandatory) \/ Stuck \/ tracker.enabled)

\* "Subscribe to SCNs from HSM that are mandatory for operation": with Nosm
\* off, main()'s request is subscribed in the end, since a POST that fails is
\* tried again.  It does not hold of the code.
MandatorySubscribed == [](~nosm) => <>Covers(hsm, Mandatory)
=============================================================================
