------------------------------ MODULE SubStore ------------------------------
(***************************************************************************)
(* What the parts of hmnfd share: the subscription records in ETCD, which  *)
(* all instances of the service read and write, and, per instance, the     *)
(* map of subscribers to prune with its mutex.                             *)
(*                                                                         *)
(* A record's key holds the subscriber's xname, the attributes it wants to *)
(* hear about and the software agent, if any; its value the URL and the    *)
(* component list.  The text format of the key is left out: a key is the   *)
(* record of its parts.  Every ETCD call may fail; one that fails with a   *)
(* timeout may have taken effect.                                          *)
(***************************************************************************)
EXTENDS Naturals

CONSTANTS
    Instance,   \* running hmnfd processes
    XName,      \* subscriber component names
    Agent,      \* subscriber agents ("service")
    NoAgent,    \* the empty agent of a plain xname subscription
    Attr,       \* states, software statuses, roles, sub-roles
    Enbl,       \* the enbl.enbl part of a key
    Url,        \* subscribers' URLs
    NoUrl,      \* the empty URL (a v2 PATCH may store it)
    Nodes,      \* component lists a subscriber may ask for
    None,       \* no record under this key
    MaxFaults   \* bound: ETCD calls that fail

AnyAgent == Agent \cup {NoAgent}
Key == [xname : XName, agent : AnyAgent, attrs : SUBSET (Attr \cup {Enbl})]
SubData == [url : Url, nodes : Nodes]

\* An entry of the prune map: "agent@xname", or "xname" for no agent.
Name == XName \X AnyAgent

ASSUME StoreAssumption ==
    /\ NoAgent \notin Agent
    /\ None \notin SubData
    /\ NoUrl \in Url
    /\ MaxFaults \in Nat

VARIABLES
    kv,          \* the subscription records in ETCD
    prunemap,    \* per instance: names to prune
    pruning,     \* per instance: the pruner holds prunemap_mutex
    downed,      \* history: xnames the fan-out side marked as gone
    faults       \* ETCD calls that failed so far

storeVars == <<kv, prunemap, pruning, downed, faults>>

StoreInit ==
    /\ kv = [k \in Key |-> None]
    /\ prunemap = [i \in Instance |-> {}]
    /\ pruning = [i \in Instance |-> FALSE]
    /\ downed = {}
    /\ faults = 0

\* The keys of GetRange(SUBSCRIBER_KEYRANGE_START, ..._END), in one call.
Stored == {k \in Key : kv[k] # None}

Fault == faults < MaxFaults /\ faults' = faults + 1

ReadFails == Fault /\ UNCHANGED kv

StoreOk(k, v) == kv' = [kv EXCEPT ![k] = v] /\ UNCHANGED faults

StoreFails(k, v) == Fault /\ kv' \in {kv, [kv EXCEPT ![k] = v]}

\* Deleting a key that is not there is no error.
DeleteOk(k) == kv' = [kv EXCEPT ![k] = None] /\ UNCHANGED faults

DeleteFails(k) == Fault /\ kv' \in {kv, [kv EXCEPT ![k] = None]}

NameOf(k) == <<k.xname, k.agent>>

\* Mutant of Pruned: the agent of an entry is not looked at.
PrunedByXName(map, k) == \E n \in map : n[1] = k.xname

\* subPrune(): an entry "xname" takes every subscription of that component
\* with it, an entry "agent@xname" those of that agent.
Pruned(map, k) == <<k.xname, NoAgent>> \in map \/ NameOf(k) \in map

\* prunemap[name] = true under prunemap_mutex.  Only the pruner keeps that
\* lock for longer than one step, so that is whom the others wait for.
Mark(i, names) ==
    /\ ~pruning[i]
    /\ prunemap' = [prunemap EXCEPT ![i] = @ \cup names]
=============================================================================
