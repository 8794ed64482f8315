----------------------------- MODULE MCService ------------------------------
(***************************************************************************)
(* An instance of Service for TLC, with the two parameters the telemetry   *)
(* code reads; host 1 is the one that cannot be parsed.                    *)
(***************************************************************************)
EXTENDS Service, TLC

Both == [f \in Field |-> 0]
MCStart == {Both, [Both EXCEPT ![Use_telemetry] = 1]}

Set(f, v, fixed) == [set |-> f :> v, fixed |-> fixed]

MCBodies == {Set(Use_telemetry, 1, FALSE), Set(Use_telemetry, 0, FALSE),
             Set(Telemetry_host, 1, FALSE), Set(Use_telemetry, Unset, FALSE),
             Set(Use_telemetry, 0, TRUE)}

\* Competing PATCHes; SCNs while telemetry is switched; probes while it is.
MCBudgets == {[patches |-> 2, scns |-> 0, probes |-> 0],
              [patches |-> 1, scns |-> 3, probes |-> 0],
              [patches |-> 1, scns |-> 0, probes |-> 1]}
=============================================================================
