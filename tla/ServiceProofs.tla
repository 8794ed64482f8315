--------------------------- MODULE ServiceProofs ----------------------------
(***************************************************************************)
(* Proofs about Service: the telemetry bus, the probes and the PATCHes of  *)
(* /params, for any number of SCNs, probes, PATCHes and parameters.        *)
(***************************************************************************)
EXTENDS Service, SequenceTheorems, TLAPS

\* What a step of the process may do to the telemetry bus.
LEMMA TelSteps ==
  ASSUME [SvcNext]_svcVars
  PROVE  UNCHANGED telVars \/ Offer \/ telemetryBusSend \/ telebusConnect
<1> USE DEF telVars, sendVars, connVars
<1>1. CASE openKV \/ Signal \/ Exit \/ ListenFails \/ NewPatch
  BY <1>1 DEF openKV, Signal, Exit, ListenFails, Die, NewPatch
<1>2. CASE NewScn \/ DoSend \/ DoConnect(telebusConnect)
  BY <1>2 DEF NewScn, DoSend, DoConnect
<1>3. ASSUME NEW r \in PatchReq, DoPatch(r)
      PROVE  UNCHANGED telVars
  BY <1>3 DEF DoPatch
<1>4. ASSUME NEW p \in Probe, ProbeArrive(p) \/ ProbeBus(p) \/ ProbeStatus(p)
                              \/ ProbeKv(p) \/ ProbeReport(p)
      PROVE  UNCHANGED telVars
  BY <1>4 DEF ProbeArrive, ProbeBus, ProbeStatus, ProbeKv, ProbeReport
<1>5. CASE UNCHANGED svcVars
  BY <1>5 DEF svcVars
<1> QED
  BY <1>1, <1>2, <1>3, <1>4, <1>5 DEF SvcNext

-----------------------------------------------------------------------------
(* The connection *)

\* Who holds tbMutex, and when the handle may be a closed connection.
ConnInv ==
    /\ (tbMutex = "conn") <=> (cpc \in {"connect", "forget"})
    /\ (tbMutex = "send") <=> (spc = "write")
    /\ msgbusHandle = "closed" => cpc = "forget"

LEMMA ConnStep ==
  ASSUME ConnInv, [SvcNext]_svcVars
  PROVE  ConnInv'
<1> USE DEF ConnInv
<1>1. CASE UNCHANGED telVars
  BY <1>1 DEF telVars, sendVars, connVars
<1>2. CASE Offer
  BY <1>2 DEF Offer, connVars
<1>3. CASE telemetryBusSend
  BY <1>3 DEF telemetryBusSend, SendTake, SendTry, SendLock, SendWrite,
              SendEnd, connVars
<1>4. CASE telebusConnect
  BY <1>4 DEF telebusConnect, ConnCheck, Disconnect, ConnLock, ConnOk,
              ConnFails, Forget, sendVars
<1> QED
  BY <1>1, <1>2, <1>3, <1>4, TelSteps

\* msgbusHandle is a closed connection only while telebusConnect() holds
\* tbMutex.
THEOREM NoClosedLeftBehind == SvcSpec => []ClosedIsTransient
<1>1. SvcInit => ConnInv
  BY DEF SvcInit, TelInit, ConnInv
<1>2. ConnInv /\ [SvcNext]_svcVars => ConnInv'
  BY ConnStep
<1>3. ConnInv => ClosedIsTransient
  BY DEF ConnInv, ClosedIsTransient
<1> QED
  BY <1>1, <1>2, <1>3, PTL DEF SvcSpec

-----------------------------------------------------------------------------
(* The probes *)

\* A probe that has met, or is about to meet, a handle that makes it fail has
\* been overtaken by telebusConnect().
ProbeInv(p) ==
    /\ prpc[p] \in {"new", "bus", "status"} => ready[p]
    /\ prpc[p] \in {"bus", "status"} /\ msgbusHandle = "closed" => moved[p]
    /\ prpc[p] = "status" /\ msgbusHandle = "nil" => moved[p]
    /\ prpc[p] = "kv" /\ ~ready[p] => moved[p]
    /\ prpc[p] = "done" /\ answer[p] \in {"503", "none"} => kvBad[p] \/ moved[p]

ProbeTypes ==
    /\ prpc \in [Probe -> {"new", "bus", "status", "kv", "done", "dead"}]
    /\ kind \in [Probe -> ProbeKind]
    /\ ready \in [Probe -> BOOLEAN]
    /\ answer \in [Probe -> {"none", "200", "204", "503"}]
    /\ kvBad \in [Probe -> BOOLEAN]
    /\ moved \in [Probe -> BOOLEAN]

ProbesInv == ProbeTypes /\ \A p \in Probe : ProbeInv(p)

LEMMA ProbesStep ==
  ASSUME ProbesInv, [SvcNext]_svcVars
  PROVE  ProbesInv'
<1> USE DEF ProbesInv, ProbeTypes, ProbeInv
<1>1. CASE openKV \/ Signal \/ NewPatch \/ NewScn \/ DoSend
           \/ (\E r \in PatchReq : DoPatch(r)) \/ UNCHANGED svcVars
  <2>1. UNCHANGED <<prpc, kind, ready, answer, kvBad, moved, msgbusHandle>>
    <3>1. CASE openKV \/ Signal \/ NewPatch \/ UNCHANGED svcVars
      BY <3>1 DEF openKV, Signal, NewPatch, svcVars, probeVars, telVars, connVars
    <3>2. CASE NewScn
      BY <3>2 DEF NewScn, Offer, probeVars, connVars
    <3>3. CASE DoSend
      BY <3>3 DEF DoSend, telemetryBusSend, SendTake, SendTry, SendLock,
                  SendWrite, probeVars, connVars
    <3>4. ASSUME NEW r \in PatchReq, DoPatch(r)
          PROVE  UNCHANGED <<prpc, kind, ready, answer, kvBad, moved, msgbusHandle>>
      BY <3>4 DEF DoPatch, probeVars, telVars, connVars
    <3> QED
      BY <1>1, <3>1, <3>2, <3>3, <3>4
  <2> QED
    BY <2>1
<1>2. CASE Exit \/ ListenFails
  BY <1>2 DEF Exit, ListenFails, Die, telVars, connVars
<1>3. CASE DoConnect(telebusConnect)
  <2>1. /\ UNCHANGED <<prpc, kind, ready, answer, kvBad>>
        /\ moved' = [p \in Probe |->
              moved[p] \/ (prpc[p] \in {"bus", "status"}
                            /\ msgbusHandle' # msgbusHandle)]
    BY <1>3 DEF DoConnect, NoteMoved, probeVars
  <2> QED
    BY <2>1
<1>4. ASSUME NEW p \in Probe, ProbeArrive(p)
      PROVE  ProbesInv'
  <2>1. /\ UNCHANGED <<ready, kvBad, msgbusHandle>> /\ prpc[p] = "new"
        /\ moved' = [moved EXCEPT ![p] = msgbusHandle = "closed"]
    BY <1>4 DEF ProbeArrive, telVars, connVars
  <2>2. PICK k \in ProbeKind :
          /\ kind' = [kind EXCEPT ![p] = k]
          /\ \/ /\ prpc' = [prpc EXCEPT ![p] = "done"]
                /\ answer' = [answer EXCEPT ![p] = "204"]
             \/ /\ prpc' = [prpc EXCEPT ![p] = "bus"]
                /\ answer' = answer
    BY <1>4 DEF ProbeArrive, ProbeAnswer
  <2>3. ProbeTypes'
    BY <2>1, <2>2
  <2>4. ASSUME NEW q \in Probe, q # p PROVE ProbeInv(q)'
    BY <2>1, <2>2, <2>4
  <2>5. ProbeInv(p)'
    BY <2>1, <2>2
  <2> QED
    BY <2>3, <2>4, <2>5
<1>5. ASSUME NEW p \in Probe, ProbeBus(p)
      PROVE  ProbesInv'
  BY <1>5 DEF ProbeBus, telVars, connVars
<1>6. ASSUME NEW p \in Probe, ProbeStatus(p)
      PROVE  ProbesInv'
  <2>1. /\ UNCHANGED <<kind, kvBad, moved, msgbusHandle>> /\ prpc[p] = "status"
    BY <1>6 DEF ProbeStatus, telVars, connVars
  <2>2. CASE msgbusHandle = "nil"
    BY <1>6, <2>1, <2>2 DEF ProbeStatus, ProbeAnswer
  <2>3. CASE msgbusHandle # "nil"
    <3>1. /\ ready' = [ready EXCEPT ![p] =
                kind[p] = "readiness" => msgbusHandle # "closed"]
          /\ prpc' = [prpc EXCEPT ![p] = "kv"] /\ answer' = answer
      BY <1>6, <2>3 DEF ProbeStatus
    <3> QED
      BY <2>1, <3>1
  <2> QED
    BY <2>2, <2>3
<1>7. ASSUME NEW p \in Probe, ProbeKv(p)
      PROVE  ProbesInv'
  <2>1. /\ UNCHANGED <<kind, ready, moved, msgbusHandle>> /\ prpc[p] = "kv"
        /\ prpc' = [prpc EXCEPT ![p] = "done"]
    BY <1>7 DEF ProbeKv, ProbeAnswer, telVars, connVars
  <2>2. PICK ok \in BOOLEAN :
          /\ kvBad' = [kvBad EXCEPT ![p] = ~ok]
          /\ answer' = [answer EXCEPT ![p] =
                           IF ready[p] /\ ok THEN "204" ELSE "503"]
    BY <1>7 DEF ProbeKv, ProbeAnswer
  <2> QED
    BY <2>1, <2>2
<1>8. ASSUME NEW p \in Probe, ProbeReport(p)
      PROVE  ProbesInv'
  BY <1>8 DEF ProbeReport, ProbeAnswer, telVars, connVars
<1> QED
  BY <1>1, <1>2, <1>3, <1>4, <1>5, <1>6, <1>7, <1>8 DEF SvcNext

\* A probe fails, or gets no answer, only when ETCD failed or the handle was
\* changed during the probe.
THEOREM ProbesFailForCause == SvcSpec => []NotReadyHasCause
<1>1. SvcInit => ProbesInv
  BY DEF SvcInit, ProbesInv, ProbeTypes, ProbeInv, ProbeKind
<1>2. ProbesInv /\ [SvcNext]_svcVars => ProbesInv'
  BY ProbesStep
<1>3. ProbesInv => NotReadyHasCause
  BY DEF ProbesInv, ProbeInv, NotReadyHasCause
<1> QED
  BY <1>1, <1>2, <1>3, PTL DEF SvcSpec

-----------------------------------------------------------------------------
(* The order on the bus *)

\* What is waiting: numbered in the order of the offers, the SCN in hand before
\* those on the channel.
WaitInv ==
    /\ offered \in Nat /\ kmsg \in Nat /\ kmsg <= offered
    /\ kq_chan \in Seq(Nat) /\ bus \in Seq(Nat)
    /\ (kmsg = 0) <=> (spc = "take")
    /\ \A n \in 1..Len(kq_chan) : kmsg < kq_chan[n] /\ kq_chan[n] <= offered
    /\ \A m, n \in 1..Len(kq_chan) : m < n => kq_chan[m] < kq_chan[n]

OrderInv == WaitInv /\ BusInOrder

LEMMA OrderOffer ==
  ASSUME OrderInv, Offer
  PROVE  OrderInv'
<1> USE DEF OrderInv, WaitInv, BusInOrder
<1>1. /\ offered' = offered + 1
      /\ kq_chan' = kq_chan \/ kq_chan' = Append(kq_chan, offered + 1)
      /\ UNCHANGED <<kmsg, spc, bus>>
  BY DEF Offer
<1>2. CASE kq_chan' = kq_chan
  BY <1>1, <1>2
<1>3. CASE kq_chan' = Append(kq_chan, offered + 1)
  <2>1. /\ kq_chan' \in Seq(Nat) /\ Len(kq_chan) \in Nat
        /\ Len(kq_chan') = Len(kq_chan) + 1
        /\ \A n \in 1..Len(kq_chan) : kq_chan'[n] = kq_chan[n]
        /\ kq_chan'[Len(kq_chan) + 1] = offered + 1
    BY <1>3, AppendProperties
  <2>2. \A n \in 1..Len(kq_chan') : n \in 1..Len(kq_chan) \/ n = Len(kq_chan) + 1
    BY <2>1
  <2>3. \A n \in 1..Len(kq_chan) : kq_chan[n] \in Nat
    OBVIOUS
  <2>4. \A n \in 1..Len(bus) : bus[n] \in Nat
    OBVIOUS
  <2>5. \A n \in 1..Len(kq_chan') : kmsg' < kq_chan'[n] /\ kq_chan'[n] <= offered'
    <3> TAKE n \in 1..Len(kq_chan')
    <3>1. CASE n \in 1..Len(kq_chan)
      <4>1. kq_chan'[n] = kq_chan[n] /\ kq_chan[n] \in Nat
              /\ kmsg < kq_chan[n] /\ kq_chan[n] <= offered
        BY <3>1, <2>1, <2>3
      <4> QED
        BY <4>1, <1>1
    <3>2. CASE n = Len(kq_chan) + 1
      BY <3>2, <2>1, <1>1
    <3> QED
      BY <3>1, <3>2, <2>2
  <2>6. \A m, n \in 1..Len(kq_chan') : m < n => kq_chan'[m] < kq_chan'[n]
    <3> TAKE m, n \in 1..Len(kq_chan')
    <3> HAVE m < n
    <3>1. m \in 1..Len(kq_chan) /\ kq_chan'[m] = kq_chan[m]
            /\ kq_chan[m] \in Nat /\ kq_chan[m] <= offered
      BY <2>1, <2>3
    <3>2. CASE n \in 1..Len(kq_chan)
      <4>1. kq_chan'[n] = kq_chan[n] /\ kq_chan[m] < kq_chan[n]
        BY <3>1, <3>2, <2>1
      <4> QED
        BY <4>1, <3>1
    <3>3. CASE n = Len(kq_chan) + 1
      BY <3>1, <3>3, <2>1
    <3> QED
      BY <3>2, <3>3, <2>2
  <2>7. \A n \in 1..Len(bus) : /\ bus[n] <= offered'
                               /\ \A k \in 1..Len(kq_chan') : bus[n] < kq_chan'[k]
    <3> TAKE n \in 1..Len(bus)
    <3>1. bus[n] \in Nat /\ bus[n] <= offered
      BY <2>4
    <3>2. bus[n] <= offered'
      BY <3>1, <1>1
    <3>3. ASSUME NEW k \in 1..Len(kq_chan')
          PROVE  bus[n] < kq_chan'[k]
      <4>1. CASE k \in 1..Len(kq_chan)
        <5>1. kq_chan'[k] = kq_chan[k] /\ bus[n] < kq_chan[k]
          BY <4>1, <2>1
        <5> QED
          BY <5>1
      <4>2. CASE k = Len(kq_chan) + 1
        BY <4>2, <3>1, <2>1
      <4> QED
        BY <4>1, <4>2, <2>2
    <3> QED
      BY <3>2, <3>3
  <2> QED
    BY <1>1, <2>1, <2>5, <2>6, <2>7
<1> QED
  BY <1>1, <1>2, <1>3

LEMMA OrderTake ==
  ASSUME OrderInv, SendTake
  PROVE  OrderInv'
<1> USE DEF OrderInv, WaitInv, BusInOrder
<1>1. /\ spc = "take" /\ spc' = "try" /\ kq_chan # <<>>
      /\ kmsg' = Head(kq_chan) /\ kq_chan' = Tail(kq_chan)
      /\ UNCHANGED <<offered, bus>>
  BY DEF SendTake
<1>2. /\ Len(kq_chan) \in Nat /\ Len(kq_chan) >= 1
      /\ kmsg' = kq_chan[1] /\ kq_chan' \in Seq(Nat)
      /\ Len(kq_chan') = Len(kq_chan) - 1
      /\ \A n \in 1..Len(kq_chan') : kq_chan'[n] = kq_chan[n + 1]
  BY <1>1, HeadTailProperties
<1>3. 1 \in 1..Len(kq_chan)
        /\ \A n \in 1..Len(kq_chan') : n + 1 \in 1..Len(kq_chan) /\ 1 < n + 1
  BY <1>2
<1>4. kmsg' \in Nat /\ kmsg' # 0 /\ kmsg' <= offered
  BY <1>2, <1>3
<1>5. \A n \in 1..Len(kq_chan') : kmsg' < kq_chan'[n] /\ kq_chan'[n] <= offered
  BY <1>2, <1>3
<1>6. \A m, n \in 1..Len(kq_chan') : m < n => kq_chan'[m] < kq_chan'[n]
  <2> TAKE m, n \in 1..Len(kq_chan')
  <2> HAVE m < n
  <2>1. m + 1 < n + 1
    OBVIOUS
  <2> QED
    BY <2>1, <1>2, <1>3
<1>7. \A n \in 1..Len(bus) : /\ bus[n] < kmsg'
                             /\ \A k \in 1..Len(kq_chan') : bus[n] < kq_chan'[k]
  BY <1>2, <1>3
<1> QED
  BY <1>1, <1>2, <1>4, <1>5, <1>6, <1>7

LEMMA OrderWrite ==
  ASSUME OrderInv, SendWrite
  PROVE  OrderInv'
<1> USE DEF OrderInv, WaitInv, BusInOrder
<1>1. /\ spc = "write" /\ kmsg # 0
      /\ UNCHANGED <<kq_chan, offered>>
      /\ \/ bus' = bus /\ kmsg' = kmsg /\ spc' = "try"
         \/ bus' = bus /\ kmsg' = 0 /\ spc' = "take"
         \/ bus' = Append(bus, kmsg) /\ kmsg' = 0 /\ spc' = "take"
  BY DEF SendWrite, SendEnd
<1>2. \A n \in 1..Len(kq_chan) : kq_chan[n] \in Nat /\ 0 < kq_chan[n]
  OBVIOUS
<1>3. CASE bus' = bus
  BY <1>1, <1>2, <1>3
<1>4. CASE bus' = Append(bus, kmsg) /\ kmsg' = 0 /\ spc' = "take"
  <2>1. /\ bus' \in Seq(Nat) /\ Len(bus) \in Nat /\ Len(bus') = Len(bus) + 1
        /\ \A n \in 1..Len(bus) : bus'[n] = bus[n] /\ bus[n] \in Nat
        /\ bus'[Len(bus) + 1] = kmsg
    BY <1>4, AppendProperties
  <2>2. \A n \in 1..Len(bus') : n \in 1..Len(bus) \/ n = Len(bus) + 1
    BY <2>1
  <2>3. \A m, n \in 1..Len(bus') : m < n => bus'[m] < bus'[n]
    <3> TAKE m, n \in 1..Len(bus')
    <3> HAVE m < n
    <3>1. m \in 1..Len(bus) /\ bus'[m] = bus[m] /\ bus[m] < kmsg
      BY <1>1, <2>1
    <3>2. CASE n \in 1..Len(bus)
      <4>1. bus'[n] = bus[n] /\ bus[m] < bus[n]
        BY <3>1, <3>2, <2>1
      <4> QED
        BY <4>1, <3>1
    <3>3. CASE n = Len(bus) + 1
      BY <3>1, <3>3, <2>1
    <3> QED
      BY <3>2, <3>3, <2>2
  <2>4. \A n \in 1..Len(bus') :
           bus'[n] <= offered /\ \A k \in 1..Len(kq_chan) : bus'[n] < kq_chan[k]
    BY <1>1, <1>2, <2>1, <2>2
  <2> QED
    BY <1>1, <1>2, <1>4, <2>1, <2>3, <2>4
<1> QED
  BY <1>1, <1>3, <1>4

LEMMA OrderStep ==
  ASSUME OrderInv, [SvcNext]_svcVars
  PROVE  OrderInv'
<1>1. CASE UNCHANGED telVars \/ telebusConnect \/ SendLock
  <2>1. UNCHANGED <<kq_chan, kmsg, offered, bus>>
          /\ (spc' = "take" <=> spc = "take")
    BY <1>1 DEF telVars, sendVars, telebusConnect, ConnCheck, Disconnect,
                ConnLock, ConnOk, ConnFails, Forget, SendLock
  <2> QED
    BY <2>1 DEF OrderInv, WaitInv, BusInOrder
<1>2. CASE SendTry
  <2>1. UNCHANGED <<kq_chan, offered, bus>>
    BY <1>2 DEF SendTry
  <2>2. \/ kmsg' = kmsg /\ spc # "take" /\ spc' # "take"
        \/ kmsg' = 0 /\ spc' = "take"
    BY <1>2 DEF SendTry, SendEnd
  <2>3. \A n \in 1..Len(kq_chan) : kmsg' < kq_chan[n]
    BY <2>2 DEF OrderInv, WaitInv
  <2> QED
    BY <2>1, <2>2, <2>3 DEF OrderInv, WaitInv, BusInOrder
<1> QED
  BY <1>1, <1>2, OrderOffer, OrderTake, OrderWrite, TelSteps DEF telemetryBusSend

\* Retries and reconnections never repeat or reorder an SCN on the bus.
THEOREM BusOrdered == SvcSpec => []BusInOrder
<1>1. SvcInit => OrderInv
  BY DEF SvcInit, TelInit, OrderInv, WaitInv, BusInOrder
<1>2. OrderInv /\ [SvcNext]_svcVars => OrderInv'
  BY OrderStep
<1>3. OrderInv => BusInOrder
  BY DEF OrderInv
<1> QED
  BY <1>1, <1>2, <1>3, PTL DEF SvcSpec

-----------------------------------------------------------------------------
(* The parameters *)

ParamTypes ==
    /\ app_params \in [Field -> Value]
    /\ paramKey \in [Field -> Value] \cup {NoParams}
    /\ ppc \in [PatchReq -> {"new", "copy", "parse", "write", "marshal",
                             "store", "done", "dead"}]
    /\ body \in [PatchReq -> Bodies]
    /\ tpd \in [PatchReq -> [Field -> Value]]
    /\ left \in [PatchReq -> SUBSET Field]
    /\ reply \in [PatchReq -> {"none", "ok", "refused", "error"}]
    /\ before \in [PatchReq -> SUBSET PatchReq]

\* Only PATCHes that pass the checks come to write, and nobody returns from
\* being done.
PatchInv(r) ==
    /\ \A q \in before[r] : ppc[q] = "done"
    /\ ppc[r] \in {"write", "marshal", "store"} => ~body[r].fixed
    /\ ppc[r] = "parse" => left[r] = Field
    /\ reply[r] = "ok" => ppc[r] = "done"

Alone(r) == \A q \in PatchReq : ~Competes(q, r)

\* How far the values of a PATCH have come that nobody competes with.
Applied(r) ==
    \A f \in Given(body[r]) : LET v == body[r].set[f] IN
        /\ ppc[r] = "write" => /\ tpd[r][f] = v
                               /\ f \notin left[r] => app_params[f] = v
        /\ ppc[r] = "marshal" => /\ app_params[f] = v
                                 /\ f \notin left[r] => tpd[r][f] = v
        /\ ppc[r] = "store" => app_params[f] = v /\ tpd[r][f] = v
        /\ reply[r] = "ok" => app_params[f] = v /\ paramKey[f] = v

ParamsInv == /\ ParamTypes
             /\ \A r \in PatchReq : PatchInv(r) /\ (Alone(r) => Applied(r))

\* The process ends: PATCHes under way are cut off.
Cut == /\ ppc' = [r \in PatchReq |-> IF ppc[r] \in {"new", "done"} THEN ppc[r]
                                                                  ELSE "dead"]
       /\ UNCHANGED <<app_params, paramKey, body, tpd, left, reply, before>>

\* What a step of the process may do to the parameters.
LEMMA ParamSteps ==
  ASSUME [SvcNext]_svcVars
  PROVE  \/ UNCHANGED paramVars \/ Cut
         \/ \E r \in PatchReq : PatchArrive(r) \/ paramsPatch(r)
<1>1. CASE openKV \/ Signal \/ NewScn \/ DoSend \/ DoConnect(telebusConnect)
  BY <1>1 DEF openKV, Signal, NewScn, DoSend, DoConnect
<1>2. CASE Exit \/ ListenFails
  BY <1>2 DEF Exit, ListenFails, Die, Cut
<1>3. CASE NewPatch
  <2>1. (CHOOSE r \in Unused : TRUE) \in PatchReq
    BY <1>3 DEF NewPatch, Unused
  <2> QED
    BY <1>3, <2>1 DEF NewPatch
<1>4. ASSUME NEW r \in PatchReq, DoPatch(r)
      PROVE  paramsPatch(r)
  BY <1>4 DEF DoPatch
<1>5. ASSUME NEW p \in Probe, ProbeArrive(p) \/ ProbeBus(p) \/ ProbeStatus(p)
                              \/ ProbeKv(p) \/ ProbeReport(p)
      PROVE  UNCHANGED paramVars
  BY <1>5 DEF ProbeArrive, ProbeBus, ProbeStatus, ProbeKv, ProbeReport
<1>6. CASE UNCHANGED svcVars
  BY <1>6 DEF svcVars
<1> QED
  BY <1>1, <1>2, <1>3, <1>4, <1>5, <1>6 DEF SvcNext

\* Whoever writes competes with everybody who is not over.
LEMMA WriterCompetes ==
  ASSUME ParamsInv, NEW q \in PatchReq, NEW r \in PatchReq, q # r,
         ppc[q] \in {"write", "marshal", "store"}
  PROVE  Competes(q, r)
<1>1. q \notin before[r]
  BY DEF ParamsInv, PatchInv
<1> QED
  BY <1>1 DEF ParamsInv, PatchInv, Competes

\* A PATCH has company for good once it has any.
LEMMA StaysAlone ==
  ASSUME NEW r \in PatchReq, body' = body, before' = before,
         \A q \in PatchReq : ppc[q] # "new" => ppc'[q] # "new"
  PROVE  Alone(r)' => Alone(r)
  BY DEF Alone, Competes

LEMMA OthersUntouched ==
  ASSUME NEW r \in PatchReq, Alone(r) => Applied(r), Alone(r)' => Alone(r),
         UNCHANGED <<app_params, paramKey, body[r], ppc[r], tpd[r], left[r],
                     reply[r]>>
  PROVE  Alone(r)' => Applied(r)'
  BY DEF Applied

LEMMA ParamArriveStep ==
  ASSUME ParamsInv, NEW q \in PatchReq, PatchArrive(q)
  PROVE  ParamsInv'
<1>1. PICK b \in Bodies : body' = [body EXCEPT ![q] = b]
  BY DEF PatchArrive
<1>2. /\ ppc[q] = "new" /\ ppc' = [ppc EXCEPT ![q] = "copy"]
      /\ left' = [left EXCEPT ![q] = Field]
      /\ before' = [before EXCEPT ![q] = {p \in PatchReq : ppc[p] = "done"}]
      /\ UNCHANGED <<app_params, paramKey, tpd, reply>>
  BY DEF PatchArrive
<1>3. ParamTypes'
  BY <1>1, <1>2 DEF ParamsInv, ParamTypes
<1>4. ASSUME NEW r \in PatchReq PROVE PatchInv(r)'
  <2>1. CASE r = q
    <3>1. /\ before'[r] = {p \in PatchReq : ppc[p] = "done"}
          /\ ppc'[r] = "copy" /\ reply'[r] = reply[r] /\ reply[r] # "ok"
      BY <1>2, <2>1 DEF ParamsInv, ParamTypes, PatchInv
    <3>2. \A p \in PatchReq : ppc[p] = "done" => ppc'[p] = "done"
      BY <1>2 DEF ParamsInv, ParamTypes
    <3> QED
      BY <3>1, <3>2 DEF PatchInv
  <2>2. CASE r # q
    <3>1. UNCHANGED <<before[r], ppc[r], body[r], left[r], reply[r]>>
      BY <1>1, <1>2, <2>2 DEF ParamsInv, ParamTypes
    <3>2. \A p \in before[r] : ppc[p] = "done" /\ ppc'[p] = "done"
      BY <1>2 DEF ParamsInv, ParamTypes, PatchInv
    <3> QED
      BY <3>1, <3>2 DEF ParamsInv, PatchInv
  <2> QED
    BY <2>1, <2>2
<1>5. ppc'[q] = "copy" /\ reply'[q] # "ok"
  BY <1>2 DEF ParamsInv, ParamTypes, PatchInv
<1>6. Applied(q)'
  BY <1>5 DEF Applied
<1>7. ASSUME NEW r \in PatchReq, r # q PROVE Alone(r)' => Applied(r)'
  <2>1. UNCHANGED <<app_params, paramKey, body[r], ppc[r], tpd[r], left[r],
                    reply[r], before[r]>>
    BY <1>1, <1>2, <1>7 DEF ParamsInv, ParamTypes
  <2>2. \A p \in PatchReq : p # q => ppc'[p] = ppc[p] /\ body'[p] = body[p]
    BY <1>1, <1>2 DEF ParamsInv, ParamTypes
  <2>3. Alone(r)' => Alone(r)
    BY <2>1, <2>2, <1>2 DEF Alone, Competes
  <2> QED
    BY <2>1, <2>3, OthersUntouched DEF ParamsInv
<1> QED
  BY <1>3, <1>4, <1>6, <1>7 DEF ParamsInv

LEMMA ParamCutStep ==
  ASSUME ParamsInv, Cut
  PROVE  ParamsInv'
<1>1. ParamTypes'
  BY DEF ParamsInv, ParamTypes, Cut
<1>2. ASSUME NEW r \in PatchReq PROVE PatchInv(r)'
  BY DEF ParamsInv, ParamTypes, PatchInv, Cut
<1>3. ASSUME NEW r \in PatchReq PROVE Alone(r)' => Applied(r)'
  <2>1. Alone(r)' => Alone(r)
    BY StaysAlone DEF Cut
  <2>2. \/ ppc'[r] = ppc[r]
        \/ ppc'[r] = "dead" /\ ppc[r] # "done"
    BY DEF Cut
  <2>3. CASE ppc'[r] = ppc[r]
    BY <2>1, <2>3, OthersUntouched DEF ParamsInv, Cut
  <2>4. CASE ppc'[r] = "dead" /\ ppc[r] # "done"
    <3>1. reply'[r] # "ok"
      BY <2>4 DEF ParamsInv, PatchInv, Cut
    <3> QED
      BY <2>4, <3>1 DEF Applied
  <2> QED
    BY <2>2, <2>3, <2>4
<1> QED
  BY <1>1, <1>2, <1>3 DEF ParamsInv

\* What a body gives are values of parameters.
LEMMA BodyFields ==
  ASSUME ParamsInv, NEW q \in PatchReq
  PROVE  /\ Given(body[q]) \subseteq Field
         /\ \A f \in Given(body[q]) : body[q].set[f] \in Value
<1>0. body[q] \in Body
  BY ParamAssumption DEF ParamsInv, ParamTypes
<1>1. PICK F \in SUBSET Field : body[q].set \in [F -> Value \cup {Unset}]
  <2>1. body[q].set \in UNION {[F -> Value \cup {Unset}] : F \in SUBSET Field}
    BY <1>0 DEF Body
  <2> QED
    BY <2>1
<1>2. DOMAIN body[q].set = F /\ \A f \in F : body[q].set[f] \in Value \cup {Unset}
  BY <1>1
<1> QED
  BY <1>2 DEF Given

\* The steps of a PATCH that change nothing but its own variables.
LEMMA ParamPrepareStep ==
  ASSUME ParamsInv, NEW q \in PatchReq,
         PatchCopy(q) \/ PatchUnmarshalFails(q) \/ PatchParse(q)
  PROVE  ParamsInv'
<1>1. /\ UNCHANGED <<app_params, paramKey, body, before>>
      /\ ppc[q] \in {"copy", "parse"}
  BY DEF PatchCopy, PatchUnmarshalFails, PatchParse
<1>2. ParamTypes' /\ ppc'[q] # "new" /\ reply'[q] # "ok"
        /\ \A r \in PatchReq : r # q =>
              UNCHANGED <<ppc[r], tpd[r], left[r], reply[r]>>
  <2>1. CASE PatchCopy(q)
    <3>1. PICK f \in left[q] : /\ tpd' = [tpd EXCEPT ![q][f] = app_params[f]]
                               /\ Visit(q, f, "parse")
      BY <2>1 DEF PatchCopy
    <3>2. f \in Field
      BY <3>1 DEF ParamsInv, ParamTypes
    <3>3. tpd' \in [PatchReq -> [Field -> Value]]
            /\ \A r \in PatchReq : r # q => tpd'[r] = tpd[r]
      BY <3>1, <3>2 DEF ParamsInv, ParamTypes
    <3> QED
      BY <2>1, <3>1, <3>3, <1>1
         DEF PatchCopy, Visit, ParamsInv, ParamTypes, PatchInv
  <2>2. CASE PatchUnmarshalFails(q)
    BY <2>2 DEF PatchUnmarshalFails, PatchAnswer, ParamsInv, ParamTypes, PatchInv
  <2>3. CASE PatchParse(q)
    <3>2. \A f \in Given(body[q]) : body[q].set[f] \in Value
      BY BodyFields
    <3>3. CASE body[q].fixed
      <4>1. PatchAnswer(q, "refused") /\ UNCHANGED <<tpd, left>>
        BY <2>3, <3>3 DEF PatchParse
      <4> QED
        BY <4>1, <1>1 DEF PatchAnswer, ParamsInv, ParamTypes, PatchInv
    <3>4. CASE ~body[q].fixed
      <4> DEFINE t == Merged(tpd[q], body[q])
      <4>1. /\ tpd' = [tpd EXCEPT ![q] = t]
            /\ ppc' = [ppc EXCEPT ![q] = "write"]
            /\ UNCHANGED <<left, reply>>
        BY <2>3, <3>4 DEF PatchParse, ParamsInv, ParamTypes
      <4>2. t \in [Field -> Value]
        BY <3>2 DEF Merged, ParamsInv, ParamTypes
      <4> HIDE DEF t
      <4> QED
        BY <4>1, <4>2, <1>1 DEF ParamsInv, ParamTypes, PatchInv
    <3> QED
      BY <3>3, <3>4
  <2> QED
    BY <2>1, <2>2, <2>3
<1>3. ASSUME NEW r \in PatchReq PROVE Alone(r)' => Alone(r)
  BY <1>1, <1>2, StaysAlone
<1>4. ASSUME NEW r \in PatchReq, r # q
      PROVE  PatchInv(r)' /\ (Alone(r)' => Applied(r)')
  <2>1. PatchInv(r)'
    BY <1>1, <1>2, <1>4 DEF ParamsInv, PatchInv, ParamTypes
  <2> QED
    BY <2>1, <1>1, <1>2, <1>3, <1>4, OthersUntouched DEF ParamsInv
<1>5. PatchInv(q)'
  <2>1. \A p \in before[q] : p # q /\ ppc'[p] = "done"
    BY <1>1, <1>2 DEF ParamsInv, PatchInv, ParamTypes
  <2>2. CASE PatchCopy(q)
    BY <2>1, <2>2, <1>1, <1>2 DEF PatchCopy, Visit, ParamsInv, ParamTypes, PatchInv
  <2>3. CASE PatchUnmarshalFails(q) \/ PatchParse(q)
    BY <2>1, <2>3, <1>1, <1>2
       DEF PatchUnmarshalFails, PatchParse, PatchAnswer, ParamsInv, ParamTypes,
           PatchInv
  <2> QED
    BY <2>2, <2>3
<1>6. Applied(q)'
  <2>1. CASE ppc'[q] = "write"
    <3>1. PatchParse(q) /\ ppc[q] = "parse" /\ left'[q] = Field
      BY <2>1, <1>1 DEF PatchCopy, Visit, PatchUnmarshalFails, PatchParse,
                        PatchAnswer, ParamsInv, ParamTypes, PatchInv
    <3>2. Given(body[q]) \subseteq Field
      BY BodyFields
    <3>3. \A f \in Given(body[q]) : tpd'[q][f] = body[q].set[f]
      <4>1. tpd' = [tpd EXCEPT ![q] = Merged(tpd[q], body[q])]
        BY <2>1, <3>1 DEF PatchParse, PatchAnswer, ParamsInv, ParamTypes
      <4>2. tpd'[q] = Merged(tpd[q], body[q])
        BY <4>1 DEF ParamsInv, ParamTypes
      <4> QED
        BY <3>2, <4>2 DEF Merged
    <3> QED
      BY <2>1, <1>1, <1>2, <3>1, <3>2, <3>3 DEF Applied
  <2>2. CASE ppc'[q] # "write"
    <3>1. ppc'[q] \notin {"marshal", "store"}
      BY <1>1 DEF PatchCopy, Visit, PatchUnmarshalFails, PatchParse,
                  PatchAnswer, ParamsInv, ParamTypes
    <3> QED
      BY <2>2, <3>1, <1>2 DEF Applied
  <2> QED
    BY <2>1, <2>2
<1> QED
  BY <1>2, <1>4, <1>5, <1>6 DEF ParamsInv

\* Whoever writes disturbs nobody but itself: everybody else has company.
LEMMA ParamWriterStep ==
  ASSUME ParamsInv, NEW q \in PatchReq, ppc[q] \in {"write", "marshal", "store"},
         UNCHANGED <<body, before>>, ParamTypes', ppc'[q] # "new",
         \A r \in PatchReq : r # q => UNCHANGED <<ppc[r], left[r], reply[r]>>,
         PatchInv(q)', Alone(q) => Applied(q)'
  PROVE  ParamsInv'
<1>1. ASSUME NEW r \in PatchReq PROVE Alone(r)' => Alone(r)
  BY StaysAlone
<1>2. ASSUME NEW r \in PatchReq, r # q PROVE PatchInv(r)' /\ ~Alone(r)'
  <2>1. Competes(q, r)
    BY <1>2, WriterCompetes
  <2>2. ~Alone(r)
    BY <2>1 DEF Alone
  <2>3. \A p \in before[r] : p # q /\ ppc'[p] = "done"
    BY DEF ParamsInv, ParamTypes, PatchInv
  <2> QED
    BY <1>1, <1>2, <2>2, <2>3 DEF ParamsInv, PatchInv
<1>3. Alone(q)' => Applied(q)'
  BY <1>1
<1> QED
  BY <1>2, <1>3 DEF ParamsInv

LEMMA ParamWriteStep ==
  ASSUME ParamsInv, NEW q \in PatchReq, PatchWrite(q)
  PROVE  ParamsInv'
<1>1. PICK g \in left[q] :
         /\ app_params' = [app_params EXCEPT ![g] = tpd[q][g]]
         /\ Visit(q, g, "marshal")
  BY DEF PatchWrite
<1>2. /\ ppc[q] = "write" /\ UNCHANGED <<paramKey, body, tpd, reply, before>>
      /\ ~body[q].fixed /\ reply[q] # "ok" /\ g \in Field
  BY DEF PatchWrite, ParamsInv, PatchInv, ParamTypes
<1>3. /\ left'[q] = IF left[q] = {g} THEN Field ELSE left[q] \ {g}
      /\ ppc'[q] = IF left[q] = {g} THEN "marshal" ELSE "write"
      /\ \A r \in PatchReq : r # q => UNCHANGED <<ppc[r], left[r], reply[r]>>
      /\ left' \in [PatchReq -> SUBSET Field]
      /\ ppc' \in [PatchReq -> {"new", "copy", "parse", "write", "marshal",
                                "store", "done", "dead"}]
  BY <1>1, <1>2 DEF Visit, ParamsInv, ParamTypes
<1>4. app_params' \in [Field -> Value]
  BY <1>1, <1>2 DEF ParamsInv, ParamTypes
<1>5. ParamTypes'
  BY <1>2, <1>3, <1>4 DEF ParamsInv, ParamTypes
<1>6. PatchInv(q)'
  <2>1. \A p \in before[q] : p # q /\ ppc'[p] = "done"
    BY <1>2, <1>3 DEF ParamsInv, ParamTypes, PatchInv
  <2> QED
    BY <2>1, <1>2, <1>3 DEF PatchInv
<1>7. ASSUME Alone(q) PROVE Applied(q)'
  <2>1. ASSUME NEW f \in Given(body[q])
        PROVE  /\ tpd[q][f] = body[q].set[f]
               /\ f \notin left[q] \/ f = g => app_params'[f] = body[q].set[f]
    <3>1. f \in Field
      BY BodyFields
    <3>2. /\ tpd[q][f] = body[q].set[f]
          /\ f \notin left[q] => app_params[f] = body[q].set[f]
      BY <1>2, <1>7 DEF ParamsInv, Applied
    <3> QED
      BY <3>1, <3>2, <1>1, <1>2 DEF ParamsInv, ParamTypes
  <2>2. CASE left[q] = {g}
    BY <2>1, <2>2, <1>2, <1>3, BodyFields DEF Applied
  <2>3. CASE left[q] # {g}
    BY <2>1, <2>3, <1>2, <1>3 DEF Applied
  <2> QED
    BY <2>2, <2>3
<1>8. ppc'[q] # "new" /\ UNCHANGED <<body, before>>
  BY <1>2, <1>3
<1> QED
  BY <1>2, <1>3, <1>5, <1>6, <1>7, <1>8, ParamWriterStep

LEMMA ParamMarshalStep ==
  ASSUME ParamsInv, NEW q \in PatchReq, PatchMarshal(q)
  PROVE  ParamsInv'
<1>1. PICK g \in left[q] :
         /\ tpd' = [tpd EXCEPT ![q][g] = app_params[g]]
         /\ Visit(q, g, "store")
  BY DEF PatchMarshal
<1>2. /\ ppc[q] = "marshal"
      /\ UNCHANGED <<app_params, paramKey, body, reply, before>>
      /\ ~body[q].fixed /\ reply[q] # "ok" /\ g \in Field
  BY DEF PatchMarshal, ParamsInv, PatchInv, ParamTypes
<1>3. /\ left'[q] = IF left[q] = {g} THEN Field ELSE left[q] \ {g}
      /\ ppc'[q] = IF left[q] = {g} THEN "store" ELSE "marshal"
      /\ \A r \in PatchReq : r # q => UNCHANGED <<ppc[r], left[r], reply[r]>>
      /\ left' \in [PatchReq -> SUBSET Field]
      /\ ppc' \in [PatchReq -> {"new", "copy", "parse", "write", "marshal",
                                "store", "done", "dead"}]
  BY <1>1, <1>2 DEF Visit, ParamsInv, ParamTypes
<1>4. tpd' \in [PatchReq -> [Field -> Value]]
  BY <1>1, <1>2 DEF ParamsInv, ParamTypes
<1>5. ParamTypes'
  BY <1>2, <1>3, <1>4 DEF ParamsInv, ParamTypes
<1>6. PatchInv(q)'
  <2>1. \A p \in before[q] : p # q /\ ppc'[p] = "done"
    BY <1>2, <1>3 DEF ParamsInv, ParamTypes, PatchInv
  <2> QED
    BY <2>1, <1>2, <1>3 DEF PatchInv
<1>7. ASSUME Alone(q) PROVE Applied(q)'
  <2>1. ASSUME NEW f \in Given(body[q])
        PROVE  /\ app_params[f] = body[q].set[f]
               /\ f \notin left[q] \/ f = g => tpd'[q][f] = body[q].set[f]
    <3>1. f \in Field
      BY BodyFields
    <3>2. /\ app_params[f] = body[q].set[f]
          /\ f \notin left[q] => tpd[q][f] = body[q].set[f]
      BY <1>2, <1>7 DEF ParamsInv, Applied
    <3> QED
      BY <3>1, <3>2, <1>1, <1>2 DEF ParamsInv, ParamTypes
  <2>2. CASE left[q] = {g}
    BY <2>1, <2>2, <1>2, <1>3, BodyFields DEF Applied
  <2>3. CASE left[q] # {g}
    BY <2>1, <2>3, <1>2, <1>3 DEF Applied
  <2> QED
    BY <2>2, <2>3
<1>8. ppc'[q] # "new" /\ UNCHANGED <<body, before>>
  BY <1>2, <1>3
<1> QED
  BY <1>2, <1>3, <1>5, <1>6, <1>7, <1>8, ParamWriterStep

LEMMA ParamStoreStep ==
  ASSUME ParamsInv, NEW q \in PatchReq, PatchStore(q)
  PROVE  ParamsInv'
<1>1. PICK a \in {"ok", "error"} :
         /\ PatchAnswer(q, a)
         /\ paramKey' \in {paramKey, tpd[q]}
         /\ a = "ok" => paramKey' = tpd[q]
  BY DEF PatchStore
<1>2. /\ ppc[q] = "store" /\ UNCHANGED <<app_params, body, tpd, left, before>>
      /\ ~body[q].fixed
  BY DEF PatchStore, ParamsInv, PatchInv, ParamTypes
<1>3. /\ ppc'[q] = "done" /\ reply'[q] = a
      /\ \A r \in PatchReq : r # q => UNCHANGED <<ppc[r], left[r], reply[r]>>
  BY <1>1, <1>2 DEF PatchAnswer, ParamsInv, ParamTypes
<1>4. ParamTypes'
  BY <1>1, <1>2 DEF PatchAnswer, ParamsInv, ParamTypes
<1>5. PatchInv(q)'
  <2>1. \A p \in before[q] : p # q /\ ppc'[p] = "done"
    BY <1>2, <1>3 DEF ParamsInv, ParamTypes, PatchInv
  <2> QED
    BY <2>1, <1>2, <1>3 DEF PatchInv
<1>6. ASSUME Alone(q) PROVE Applied(q)'
  <2>1. \A f \in Given(body[q]) : /\ app_params[f] = body[q].set[f]
                                      /\ tpd[q][f] = body[q].set[f]
    BY <1>2, <1>6 DEF ParamsInv, Applied
  <2> QED
    BY <2>1, <1>1, <1>2, <1>3 DEF Applied
<1>7. ppc'[q] # "new" /\ UNCHANGED <<body, before>>
  BY <1>2, <1>3
<1> QED
  BY <1>2, <1>3, <1>4, <1>5, <1>6, <1>7, ParamWriterStep

LEMMA ParamStep ==
  ASSUME ParamsInv, [SvcNext]_svcVars
  PROVE  ParamsInv'
<1>1. CASE UNCHANGED paramVars
  BY <1>1 DEF paramVars, patchVars, ParamsInv, ParamTypes, PatchInv, Alone,
              Competes, Applied
<1>2. CASE Cut
  BY <1>2, ParamCutStep
<1>3. ASSUME NEW q \in PatchReq, PatchArrive(q) PROVE ParamsInv'
  BY <1>3, ParamArriveStep
<1>4. ASSUME NEW q \in PatchReq, paramsPatch(q) PROVE ParamsInv'
  BY <1>4, ParamPrepareStep, ParamWriteStep, ParamMarshalStep, ParamStoreStep
     DEF paramsPatch
<1> QED
  BY <1>1, <1>2, <1>3, <1>4, ParamSteps

LEMMA ParamStart ==
  ASSUME SvcInit
  PROVE  ParamsInv
<1>1. ParamTypes
  <2>1. (CHOOSE b \in Bodies : TRUE) \in Bodies
    BY ParamAssumption
  <2> QED
    BY <2>1, ParamAssumption DEF SvcInit, ParamInit, ParamTypes
<1>2. ASSUME NEW r \in PatchReq PROVE PatchInv(r) /\ Applied(r)
  BY <1>2 DEF SvcInit, ParamInit, PatchInv, Applied
<1> QED
  BY <1>1, <1>2 DEF ParamsInv

\* The values of an answered PATCH of /params are in force and stored until
\* another PATCH that passes the checks overlaps with it or follows it, for
\* every number of PATCHes, parameters and values.
THEOREM PatchesInForce == SvcSpec => []AckedInForce
<1>1. SvcInit => ParamsInv
  BY ParamStart
<1>2. ParamsInv /\ [SvcNext]_svcVars => ParamsInv'
  BY ParamStep
<1>3. ParamsInv => AckedInForce
  BY DEF ParamsInv, Alone, Applied, AckedInForce
<1> QED
  BY <1>1, <1>2, <1>3, PTL DEF SvcSpec

-----------------------------------------------------------------------------
(* The types *)

\* telemetryBusSend() starts a round only while tries are left, so that the
\* one a failed write adds never exceeds max_tries; the number of an SCN in
\* hand is never 0, so that only numbers of offers reach the bus.
TelTypes ==
    /\ Len(kq_chan) <= KqCap
    /\ msgbusHandle \in {"nil", "open", "closed"}
    /\ tbMutex \in {"free", "send", "conn"}
    /\ cpc \in {"check", "lockOff", "lockOn", "connect", "forget"}
    /\ spc \in {"take", "try", "lock", "write"}
    /\ tries \in 0..MaxTries
    /\ spc \in {"lock", "write"} => tries < MaxTries
    /\ \A n \in 1..Len(bus) : 1 <= bus[n]

MainTypes ==
    /\ phase \in {"open", "key", "serve", "closing", "exit"}
    /\ budget \in [patches : Nat, scns : Nat, probes : Nat]
    /\ kvFaults \in 0..MaxKvFaults

LEMMA TelTypesStep ==
  ASSUME OrderInv, TelTypes, [SvcNext]_svcVars
  PROVE  TelTypes'
<1> USE TelAssumption DEF TelTypes
<1>0. /\ kq_chan \in Seq(Nat) /\ bus \in Seq(Nat) /\ offered \in Nat
      /\ kmsg \in Nat /\ ((kmsg = 0) <=> (spc = "take"))
  BY DEF OrderInv, WaitInv
<1>1. CASE UNCHANGED telVars
  BY <1>1 DEF telVars, sendVars, connVars
<1>2. CASE Offer
  <2>1. Len(kq_chan') <= KqCap
    <3>1. CASE kq_chan' = kq_chan
      BY <3>1
    <3>2. CASE Len(kq_chan) < KqCap /\ kq_chan' = Append(kq_chan, offered + 1)
      BY <1>0, <3>2, AppendProperties
    <3> QED
      BY <1>2, <3>1, <3>2 DEF Offer
  <2> QED
    BY <1>2, <2>1 DEF Offer, connVars
<1>3. CASE SendTake
  <2>1. kq_chan # <<>> /\ kq_chan' = Tail(kq_chan)
    BY <1>3 DEF SendTake
  <2>2. Len(kq_chan') <= KqCap
    BY <1>0, <2>1, HeadTailProperties
  <2> QED
    BY <1>3, <2>2 DEF SendTake, connVars
<1>4. CASE SendTry
  BY <1>4 DEF SendTry, SendEnd, connVars
<1>5. CASE SendLock
  BY <1>5 DEF SendLock, connVars
<1>6. CASE SendWrite
  <2>1. \A n \in 1..Len(bus') : 1 <= bus'[n]
    <3>1. CASE bus' = bus
      BY <3>1
    <3>2. CASE bus' = Append(bus, kmsg)
      <4>1. kmsg \in Nat /\ kmsg # 0
        BY <1>0, <1>6 DEF SendWrite
      <4>2. /\ Len(bus) \in Nat /\ Len(bus') = Len(bus) + 1
            /\ \A n \in 1..Len(bus) : bus'[n] = bus[n]
            /\ bus'[Len(bus) + 1] = kmsg
        BY <1>0, <3>2, AppendProperties
      <4> QED
        BY <4>1, <4>2
    <3> QED
      BY <1>6, <3>1, <3>2 DEF SendWrite
  <2> QED
    BY <1>6, <2>1 DEF SendWrite, SendEnd, connVars
<1>7. CASE telebusConnect
  BY <1>7 DEF telebusConnect, ConnCheck, Disconnect, ConnLock, ConnOk,
              ConnFails, Forget, sendVars
<1> QED
  BY <1>1, <1>2, <1>3, <1>4, <1>5, <1>6, <1>7, TelSteps DEF telemetryBusSend

\* A budget is only spent while something of it is left.
LEMMA MainTypesStep ==
  ASSUME MainTypes, [SvcNext]_svcVars
  PROVE  MainTypes'
<1> USE ParamAssumption DEF MainTypes
<1>1. CASE openKV \/ Signal
  BY <1>1 DEF openKV, Signal, paramVars
<1>2. CASE Exit \/ ListenFails
  BY <1>2 DEF Exit, ListenFails, Die
<1>3. CASE NewPatch
  <2>1. phase' = phase /\ kvFaults' = kvFaults
    BY <1>3 DEF NewPatch, PatchArrive
  <2>2. budget' \in [patches : Nat, scns : Nat, probes : Nat]
    BY <1>3 DEF NewPatch
  <2> QED
    BY <2>1, <2>2
<1>4. CASE NewScn
  BY <1>4 DEF NewScn, paramVars
<1>5. CASE DoSend \/ DoConnect(telebusConnect)
  BY <1>5 DEF DoSend, DoConnect, paramVars
<1>6. ASSUME NEW r \in PatchReq, DoPatch(r)
      PROVE  MainTypes'
  <2>1. phase' = phase /\ budget' = budget
    BY <1>6 DEF DoPatch
  <2>2. kvFaults' \in 0..MaxKvFaults
    BY <1>6 DEF DoPatch, paramsPatch, PatchCopy, PatchUnmarshalFails,
                PatchParse, PatchWrite, PatchMarshal, PatchStore
  <2> QED
    BY <2>1, <2>2
<1>7. ASSUME NEW p \in Probe, ProbeArrive(p)
      PROVE  MainTypes'
  BY <1>7 DEF ProbeArrive, paramVars
<1>8. ASSUME NEW p \in Probe, ProbeBus(p) \/ ProbeStatus(p) \/ ProbeKv(p)
                              \/ ProbeReport(p)
      PROVE  MainTypes'
  BY <1>8 DEF ProbeBus, ProbeStatus, ProbeKv, ProbeReport, paramVars
<1>9. CASE UNCHANGED svcVars
  BY <1>9 DEF svcVars, paramVars
<1> QED
  BY <1>1, <1>2, <1>3, <1>4, <1>5, <1>6, <1>7, <1>8, <1>9 DEF SvcNext

SvcTypes == ParamsInv /\ OrderInv /\ ProbesInv /\ TelTypes /\ MainTypes

LEMMA SvcTypesImply == SvcTypes => SvcTypeOK
<1> SUFFICES ASSUME SvcTypes PROVE SvcTypeOK
  OBVIOUS
<1>1. /\ kq_chan \in Seq(Nat) /\ bus \in Seq(Nat) /\ offered \in Nat
      /\ kmsg \in 0..offered
      /\ \A n \in 1..Len(kq_chan) : kmsg < kq_chan[n] /\ kq_chan[n] <= offered
      /\ \A n \in 1..Len(bus) : 1 <= bus[n] /\ bus[n] <= offered
  BY DEF SvcTypes, OrderInv, WaitInv, BusInOrder, TelTypes
<1>2. kq_chan \in Seq(1..offered)
  <2>1. \A n \in 1..Len(kq_chan) : kq_chan[n] \in 1..offered
    <3> TAKE n \in 1..Len(kq_chan)
    <3>1. kq_chan[n] \in Nat
      BY <1>1
    <3> QED
      BY <1>1, <3>1
  <2>2. Len(kq_chan) \in Nat /\ kq_chan \in [1..Len(kq_chan) -> 1..offered]
    BY <1>1, <2>1, LenProperties
  <2> QED
    BY <2>2, SeqDef
<1>3. bus \in Seq(1..offered)
  <2>1. \A n \in 1..Len(bus) : bus[n] \in 1..offered
    <3> TAKE n \in 1..Len(bus)
    <3>1. bus[n] \in Nat
      BY <1>1
    <3> QED
      BY <1>1, <3>1
  <2>2. Len(bus) \in Nat /\ bus \in [1..Len(bus) -> 1..offered]
    BY <1>1, <2>1, LenProperties
  <2> QED
    BY <2>2, SeqDef
<1>4. {ready, kvBad, moved} \subseteq [Probe -> BOOLEAN]
  BY DEF SvcTypes, ProbesInv, ProbeTypes
<1> QED
  BY <1>1, <1>2, <1>3, <1>4
  DEF SvcTypes, SvcTypeOK, ParamsInv, ParamTypes, ProbesInv, ProbeTypes,
      TelTypes, MainTypes

\* Every variable of the process keeps its type, kq_chan its capacity, and
\* telemetryBusSend() never tries more than max_tries times.
THEOREM ServiceTypesCorrect == SvcSpec => []SvcTypeOK
<1>1. SvcInit => SvcTypes
  <2> SUFFICES ASSUME SvcInit PROVE SvcTypes
    OBVIOUS
  <2>1. ProbesInv
    BY DEF SvcInit, ProbesInv, ProbeTypes, ProbeInv, ProbeKind
  <2>2. OrderInv
    BY DEF SvcInit, TelInit, OrderInv, WaitInv, BusInOrder
  <2>3. TelTypes
    BY TelAssumption DEF SvcInit, TelInit, TelTypes
  <2>4. MainTypes
    BY ParamAssumption, ServiceAssumption DEF SvcInit, ParamInit, MainTypes
  <2> QED
    BY <2>1, <2>2, <2>3, <2>4, ParamStart DEF SvcTypes
<1>2. SvcTypes /\ [SvcNext]_svcVars => SvcTypes'
  BY ParamStep, OrderStep, ProbesStep, TelTypesStep, MainTypesStep DEF SvcTypes
<1> QED
  BY <1>1, <1>2, SvcTypesImply, PTL DEF SvcSpec
=============================================================================
