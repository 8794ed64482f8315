----------------------------- MODULE MCDeadWood -----------------------------
(***************************************************************************)
(* Instances of DeadWood for TLC, with the requests of MCSubscriptions.    *)
(***************************************************************************)
EXTENDS DeadWood, MCSubscriptions

\* x2 may be off for a while; it has a plain record and one of an agent.  The
\* two PATCHes write each a record of their own in place of the plain one; the
\* v1 DELETE has no URL and finds what the v2 PATCH wrote.
WoodOps ==
    {MCOp("post", x1, NoAgent, {on}, u1),
     MCOp("post", x2, NoAgent, {on}, u1),
     [MCOp("post", x2, cfs, {on}, u1) EXCEPT !.enabled = "false"],
     [MCOp("patchV1", x2, NoAgent, {on}, u1) EXCEPT !.enabled = "true"],
     MCOp("patchV2", x2, NoAgent, {}, nourl),
     MCOp("deleteXName", x2, NoAgent, {}, u1),
     MCOp("deleteV1", x2, NoAgent, {}, nourl)}

Start(n, q, o, c) ==
    [nosm |-> n, budget |-> [requests |-> q, outages |-> o, crashes |-> c]]

\* Two requests beside pruneDeadWood(), an outage and a restart; or, with
\* pruneDeadWood() off, three of them.
WoodStarts == {Start(FALSE, 2, 1, 1), Start(TRUE, 2, 1, 1), Start(TRUE, 3, 0, 0)}
=============================================================================
