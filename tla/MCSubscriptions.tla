-------------------------- MODULE MCSubscriptions ---------------------------
(***************************************************************************)
(* Requests for TLC, and the instances of Subscriptions whose runs show a  *)
(* violation.                                                              *)
(***************************************************************************)
EXTENDS Subscriptions

CONSTANTS x1, x2, cfs, on, off, u1, u2, nourl, anyNodes

MCOp(kind, x, a, as, url) ==
    [kind |-> kind, xname |-> x, agent |-> a, attrs |-> as,
     enabled |-> "nil", url |-> url, nodes |-> anyNodes, inRange |-> TRUE]

RepostOps == {MCOp("post", x1, cfs, {on}, u1),
              MCOp("deleteAgent", x1, cfs, {}, u1)}

PlainDeleteOps == {MCOp("post", x1, NoAgent, {on}, u1),
                   MCOp("post", x1, cfs, {on}, u2),
                   MCOp("deleteV1", x1, NoAgent, {}, u1)}

\* The mandatory request of main() is left to HsmCoverage.
NoQueue == <<>>
=============================================================================
