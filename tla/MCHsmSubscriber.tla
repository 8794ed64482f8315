-------------------------- MODULE MCHsmSubscriber ---------------------------
(***************************************************************************)
(* Instances of HsmSubscriber for TLC: three attributes, of which off is   *)
(* mandatory (main() subscribes to it at start-up).                        *)
(***************************************************************************)
EXTENDS HsmSubscriber

CONSTANTS off, worker, storage

Req(as, e) == [attrs |-> as, enabled |-> e]

MandatoryReq == Req({off}, "true")

\* Requests that overlap in their attributes, with Enabled absent and false ...
PlainRequests == {Req({off, worker}, "nil"), Req({worker, storage}, "false")}

\* ... and one that asks for Enabled as well.
EnabledRequests == PlainRequests \cup {Req({storage}, "true")}

SmOn == {FALSE}
=============================================================================
