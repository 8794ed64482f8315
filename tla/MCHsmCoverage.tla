---------------------------- MODULE MCHsmCoverage ---------------------------
(***************************************************************************)
(* An instance of HsmCoverage for TLC: two requests to one xname, plain or *)
(* of one agent, over two attributes, of which off is mandatory.           *)
(***************************************************************************)
EXTENDS HsmCoverage

CONSTANTS off, worker, x1, cfs, u1, anyNodes

Asked(as, e) == [attrs |-> as, enabled |-> e]

MandatoryReq == Asked({off}, "true")

MCOp(kind, a, as, e) ==
    [kind |-> kind, xname |-> x1, agent |-> a, attrs |-> as, enabled |-> e,
     url |-> u1, nodes |-> anyNodes, inRange |-> TRUE]

\* POSTs that overlap in their attributes, with Enabled absent and true, a
\* PATCH that asks for an attribute nobody may have POSTed, and a DELETE.
MixedOps == {MCOp("post", NoAgent, {off, worker}, "nil"),
             MCOp("post", cfs, {worker}, "true"),
             MCOp("patchV2", cfs, {worker}, "nil"),
             MCOp("deleteV1", NoAgent, {}, "nil")}

PostRequests == {Asked(o.attrs, o.enabled) :
                     o \in {p \in MixedOps : p.kind = "post"}}
=============================================================================
