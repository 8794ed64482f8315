------------------------------ MODULE MCHmnfd -------------------------------
(***************************************************************************)
(* Instances of Hmnfd for TLC: two subscribers, x1 and x2, which are also  *)
(* the components the SCNs are about.                                      *)
(***************************************************************************)
EXTENDS Hmnfd

CONSTANTS x1, x2, cfs, on, off, u1, nourl

MCOp(kind, x, a, as, nodes) ==
    [kind |-> kind, xname |-> x, agent |-> a, attrs |-> as,
     enabled |-> "nil", url |-> u1, nodes |-> nodes, inRange |-> TRUE]

AllComps == <<WcAll>>
NodesOnly == <<WcAllNodes>>
OnlyX1 == <<x1>>
NoComps == <<>>
MCNodes == {AllComps, NodesOnly, OnlyX1, NoComps}

Down1 == [attrs |-> {off}, enabled |-> "nil", comps |-> {x1}]
Up2 == [attrs |-> {on}, enabled |-> "nil", comps |-> {x1, x2}]
Disabled2 == [attrs |-> {on}, enabled |-> "false", comps |-> {x2}]
DownUp == {Down1, Up2, Disabled2}
JustUp == {Up2}

\* Subscribers with different lists; one plain xname, one agent.
FanOps == {MCOp("post", x1, NoAgent, {on, off}, AllComps),
           MCOp("post", x2, cfs, {off}, OnlyX1),
           MCOp("patchV2", x2, cfs, {on}, NoComps)}

\* One xname, plain and with an agent.  The body of a v2 PATCH is not
\* checked: no URL here, no components in FanOps.
LiveOps == {MCOp("post", x2, NoAgent, {on}, NodesOnly),
            MCOp("post", x2, cfs, {on}, AllComps),
            [MCOp("patchV2", x2, cfs, {on}, AllComps) EXCEPT !.url = nourl],
            MCOp("deleteAgent", x2, cfs, {}, AllComps)}

AgentOps == {MCOp("post", x2, cfs, {on}, AllComps),
             MCOp("deleteAgent", x2, cfs, {}, AllComps)}

\* Each attribute's text occurs in itself only.
ExactOccurs == {<<on, on>>, <<off, off>>}

Two == {2}
OneOrTwo == {1, 2}

\* The mandatory request of main() is left to HsmCoverage.
NoQueue == <<>>
=============================================================================
