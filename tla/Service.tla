------------------------------ MODULE Service -------------------------------
(***************************************************************************)
(* The process around the SCN path: start-up and shutdown (hmnfd.go main() *)
(* and openKV()), the PATCH of /params, the telemetry bus, and the probes  *)
(* of /readiness, /health and /liveness (health.go), which read            *)
(* msgbusHandle twice without tbMutex.                                     *)
(***************************************************************************)
EXTENDS Telemetry

CONSTANTS
    Probe,     \* probes
    Budgets    \* bound: how many PATCHes, SCN batches and probes may come

ProbeKind == {"readiness", "health", "liveness"}

ASSUME ServiceAssumption ==
    Budgets \subseteq [patches : Nat, scns : Nat, probes : Nat]

VARIABLES
    phase,     \* of main(): "open", "key", "serve", "closing", "exit"
    budget,    \* what may still come
    prpc,      \* where each probe is
    kind,      \* which one it is
    ready,     \* its local
    answer,    \* its answer; "none" also when the handler panicked
    kvBad,     \* history: its call of ETCD failed
    moved      \* history: telebusConnect() changed msgbusHandle meanwhile

probeVars == <<prpc, kind, ready, answer, kvBad>>
svcVars == <<paramVars, telVars, phase, budget, probeVars, moved>>

SvcInit ==
    /\ ParamInit
    /\ TelInit
    /\ phase = "open"
    /\ budget \in Budgets
    /\ prpc = [p \in Probe |-> "new"]
    /\ kind = [p \in Probe |-> "liveness"]
    /\ ready = [p \in Probe |-> TRUE]
    /\ answer = [p \in Probe |-> "none"]
    /\ kvBad = [p \in Probe |-> FALSE]
    /\ moved = [p \in Probe |-> FALSE]

-----------------------------------------------------------------------------
(* main() *)

\* openKV(): hmetcd.Open() and then the Store of HMNFD_HEALTH_KEY are tried
\* until they succeed; the goroutines and the HTTP server come after that.
openKV ==
    /\ \/ phase = "open" /\ phase' = "key"
       \/ phase = "key" /\ phase' = "serve"
    /\ UNCHANGED <<paramVars, telVars, budget, probeVars, moved>>

\* SIGTERM or SIGINT: Shutdown() closes the listeners, and waits for the
\* requests in flight.
Signal ==
    /\ phase = "serve"
    /\ phase' = "closing"
    /\ UNCHANGED <<paramVars, telVars, budget, probeVars, moved>>

\* os.Exit(0): what is in flight gets no answer.
Die ==
    /\ phase' = "exit"
    /\ ppc' = [r \in PatchReq |-> IF ppc[r] \in {"new", "done"} THEN ppc[r]
                                                                ELSE "dead"]
    /\ prpc' = [p \in Probe |-> IF prpc[p] \in {"new", "done"} THEN prpc[p]
                                                               ELSE "dead"]
    /\ UNCHANGED <<app_params, paramKey, body, tpd, left, reply, before,
                   kvFaults, telVars, budget, kind, ready, answer, kvBad, moved>>

\* ListenAndServe() has returned when the listeners closed, and main() exits
\* without waiting for Shutdown().
Exit == phase = "closing" /\ Die

\* ListenAndServe() fails: the port is taken, or accepting connections fails.
ListenFails == phase = "serve" /\ Die

Up == phase \in {"serve", "closing"}

-----------------------------------------------------------------------------
(* readinessHandler(), healthHandler(), livenessHandler() *)

ProbeAnswer(p, a) == /\ prpc' = [prpc EXCEPT ![p] = "done"]
                     /\ answer' = [answer EXCEPT ![p] = a]

\* The liveness probe is answered at once.
ProbeArrive(p) ==
    /\ phase = "serve" /\ budget.probes > 0
    /\ prpc[p] = "new"
    /\ budget' = [budget EXCEPT !.probes = @ - 1]
    /\ \E k \in ProbeKind :
          /\ kind' = [kind EXCEPT ![p] = k]
          /\ \/ k = "liveness" /\ ProbeAnswer(p, "204")
             \/ /\ k # "liveness"
                /\ prpc' = [prpc EXCEPT ![p] = "bus"]
                /\ UNCHANGED answer
    /\ moved' = [moved EXCEPT ![p] = msgbusHandle = "closed"]
    /\ UNCHANGED <<paramVars, telVars, phase, ready, kvBad>>

\* Mutant of ProbeBus: no connection counts as a failure.
ProbeBusRequired(p) ==
    /\ Up /\ prpc[p] = "bus"
    /\ prpc' = [prpc EXCEPT ![p] = IF msgbusHandle = "nil" THEN "kv" ELSE "status"]
    /\ ready' = [ready EXCEPT ![p] = msgbusHandle # "nil"]
    /\ UNCHANGED <<paramVars, telVars, phase, budget, kind, answer, kvBad, moved>>

\* msgbusHandle != nil
ProbeBus(p) ==
    /\ Up /\ prpc[p] = "bus"
    /\ prpc' = [prpc EXCEPT ![p] = IF msgbusHandle = "nil" THEN "kv" ELSE "status"]
    /\ UNCHANGED <<paramVars, telVars, phase, budget, kind, ready, answer, kvBad,
                   moved>>

\* msgbusHandle.Status() reads the variable again: if it is nil by now, the
\* handler panics and the server closes the connection without an answer.
ProbeStatus(p) ==
    /\ Up /\ prpc[p] = "status"
    /\ \/ /\ msgbusHandle = "nil"
          /\ ProbeAnswer(p, "none")
          /\ UNCHANGED ready
       \/ /\ msgbusHandle # "nil"
          /\ ready' = [ready EXCEPT ![p] =
                kind[p] = "readiness" => msgbusHandle # "closed"]
          /\ prpc' = [prpc EXCEPT ![p] = "kv"]
          /\ UNCHANGED answer
    /\ UNCHANGED <<paramVars, telVars, phase, budget, kind, kvBad, moved>>

\* Readiness: Get(HMNFD_HEALTH_KEY), which openKV() stored, and the answer.
ProbeKv(p) ==
    /\ Up /\ prpc[p] = "kv" /\ kind[p] = "readiness"
    /\ \E ok \in BOOLEAN :
          /\ kvBad' = [kvBad EXCEPT ![p] = ~ok]
          /\ ProbeAnswer(p, IF ready[p] /\ ok THEN "204" ELSE "503")
    /\ UNCHANGED <<paramVars, telVars, phase, budget, kind, ready, moved>>

\* Health: what ETCD, the prune map and the pool answer is reported, good or
\* bad.
ProbeReport(p) ==
    /\ Up /\ prpc[p] = "kv" /\ kind[p] = "health"
    /\ ProbeAnswer(p, "200")
    /\ UNCHANGED <<paramVars, telVars, phase, budget, kind, ready, kvBad, moved>>

-----------------------------------------------------------------------------
\* The PATCHes are interchangeable until they arrive: the next unused one does.
Unused == {r \in PatchReq : ppc[r] = "new"}

NewPatch ==
    /\ phase = "serve" /\ budget.patches > 0
    /\ Unused # {}
    /\ PatchArrive(CHOOSE r \in Unused : TRUE)
    /\ budget' = [budget EXCEPT !.patches = @ - 1]
    /\ UNCHANGED <<telVars, phase, probeVars, moved>>

DoPatch(r) == /\ Up /\ paramsPatch(r)
              /\ UNCHANGED <<telVars, phase, budget, probeVars, moved>>

NewScn == /\ Up /\ budget.scns > 0
          /\ Offer
          /\ budget' = [budget EXCEPT !.scns = @ - 1]
          /\ UNCHANGED <<paramVars, phase, probeVars, moved>>

DoSend == /\ Up /\ telemetryBusSend
          /\ UNCHANGED <<paramVars, phase, budget, probeVars, moved>>

\* Probes under way when the handle changes.
NoteMoved == moved' = [p \in Probe |->
                moved[p] \/ (prpc[p] \in {"bus", "status"}
                              /\ msgbusHandle' # msgbusHandle)]

DoConnect(A) == /\ Up /\ A
                /\ NoteMoved
                /\ UNCHANGED <<paramVars, phase, budget, probeVars>>

SvcNext == \/ openKV \/ Signal \/ Exit \/ ListenFails
           \/ NewPatch \/ \E r \in PatchReq : DoPatch(r)
           \/ NewScn \/ DoSend
           \/ DoConnect(telebusConnect)
           \/ \E p \in Probe : ProbeArrive(p) \/ ProbeBus(p) \/ ProbeStatus(p)
                                \/ ProbeKv(p) \/ ProbeReport(p)

\* Goroutines that can run do run, tbMutex is obtained in the end by whoever
\* waits for it, ETCD opens in the end, and the telemetry bus can be reached
\* in the end.  Nobody need send a request, an SCN or a signal.
SvcFairness == /\ WF_svcVars(openKV) /\ WF_svcVars(Exit)
               /\ \A r \in PatchReq : WF_svcVars(DoPatch(r))
               /\ SF_svcVars(DoSend)
               /\ SF_svcVars(DoConnect(telebusConnect))
               /\ SF_svcVars(DoConnect(ConnOk))

SvcSpec == SvcInit /\ [][SvcNext]_svcVars /\ SvcFairness

-----------------------------------------------------------------------------
(* Properties *)

\* The types of the process's variables; kq_chan stays within its capacity.
SvcTypeOK ==
    /\ app_params \in [Field -> Value]
    /\ paramKey \in [Field -> Value] \cup {NoParams}
    /\ ppc \in [PatchReq -> {"new", "copy", "parse", "write", "marshal",
                             "store", "done", "dead"}]
    /\ body \in [PatchReq -> Bodies]
    /\ tpd \in [PatchReq -> [Field -> Value]]
    /\ left \in [PatchReq -> SUBSET Field]
    /\ reply \in [PatchReq -> {"none", "ok", "refused", "error"}]
    /\ before \in [PatchReq -> SUBSET PatchReq]
    /\ kvFaults \in 0..MaxKvFaults
    /\ kq_chan \in Seq(1..offered) /\ Len(kq_chan) <= KqCap
    /\ msgbusHandle \in {"nil", "open", "closed"}
    /\ tbMutex \in {"free", "send", "conn"}
    /\ cpc \in {"check", "lockOff", "lockOn", "connect", "forget"}
    /\ spc \in {"take", "try", "lock", "write"}
    /\ kmsg \in 0..offered /\ tries \in 0..MaxTries
    /\ offered \in Nat /\ bus \in Seq(1..offered)
    /\ phase \in {"open", "key", "serve", "closing", "exit"}
    /\ prpc \in [Probe -> {"new", "bus", "status", "kv", "done", "dead"}]
    /\ kind \in [Probe -> ProbeKind]
    /\ answer \in [Probe -> {"none", "200", "204", "503"}]
    /\ {ready, kvBad, moved} \subseteq [Probe -> BOOLEAN]
    /\ budget \in [patches : Nat, scns : Nat, probes : Nat]

\* The process is reported as not ready, or not at all, only when ETCD failed
\* or telebusConnect() was changing the handle during the probe: no history of
\* PATCHes and failed connections leaves a process that fails its probes, for
\* which Kubernetes would kill it.
NotReadyHasCause ==
    \A p \in Probe :
        prpc[p] = "done" /\ answer[p] \in {"503", "none"} => kvBad[p] \/ moved[p]

\* telebusConnect() follows the parameters: when PATCHes have stopped changing
\* them, the bus is connected, or disconnected, for good.  With a telemetry
\* host that cannot be parsed it stays as it was.
ConnectionFollows ==
    /\ <>[](Up /\ UseTelemetry /\ HostIsGood) => <>[](msgbusHandle = "open")
    /\ <>[](Up /\ ~UseTelemetry) => <>[](msgbusHandle = "nil")

\* telemetryBusSend() gets rid of every SCN, with the bus connected, being
\* connected, switched off or on, until the process ends.
TelemetryDrains ==
    (kq_chan # <<>>) ~> (kq_chan = <<>> /\ spc = "take") \/ phase = "exit"
=============================================================================
