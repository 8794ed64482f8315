----------------------------- MODULE Telemetry ------------------------------
(***************************************************************************)
(* The telemetry bus.  handleSCNs() offers each SCN batch to the channel   *)
(* kq_chan (sendToTelemetryBus()); one goroutine, telemetryBusSend(), takes*)
(* it from there and writes it to the bus; another, telebusConnect(),      *)
(* connects and disconnects as the parameter Use_telemetry says.  The two  *)
(* share msgbusHandle under tbMutex.  All of them read Use_telemetry again *)
(* and again while PATCHes change it.                                      *)
(*                                                                         *)
(* The handle is nil, or a connection that is open or closed (hms-msgbus). *)
(* Connect() returns a closed one when it fails.  MessageWrite() hands the *)
(* message to the Kafka library, and fails on a closed connection only.    *)
(***************************************************************************)
EXTENDS Params, Sequences

CONSTANTS
    Use_telemetry,  \* the parameter, one of Field
    Off,            \* its value 0
    Telemetry_host, \* another parameter
    BadHosts,       \* its values that getTelemetryHost() cannot parse
    KqCap,          \* capacity of kq_chan (10000 in the code)
    MaxTries        \* max_tries (5 in the code)

ASSUME TelAssumption ==
    /\ {Use_telemetry, Telemetry_host} \subseteq Field
    /\ Off \in Value /\ BadHosts \subseteq Value
    /\ {KqCap, MaxTries} \subseteq Nat \ {0}

VARIABLES
    kq_chan,       \* SCNs to write, each by its number
    msgbusHandle,  \* "nil", "open" or "closed"
    tbMutex,       \* its holder, or "free"
    cpc,           \* where telebusConnect() is
    spc,           \* where telemetryBusSend() is
    kmsg,          \* the SCN it holds
    tries,         \* its retry counter
    offered,       \* how many SCNs handleSCNs() has offered
    bus            \* history: the SCNs written to the bus

sendVars == <<kq_chan, spc, kmsg, tries, offered, bus>>
connVars == <<msgbusHandle, cpc>>
telVars == <<sendVars, connVars, tbMutex>>

TelInit ==
    /\ kq_chan = <<>>
    /\ msgbusHandle = "nil"
    /\ tbMutex = "free"
    /\ cpc = "check"
    /\ spc = "take" /\ kmsg = 0 /\ tries = 0
    /\ offered = 0
    /\ bus = <<>>

UseTelemetry == app_params[Use_telemetry] # Off
HostIsGood == app_params[Telemetry_host] \notin BadHosts

-----------------------------------------------------------------------------
\* Mutant of Offer: a channel without a limit.
OfferUnbounded ==
    /\ offered' = offered + 1
    /\ kq_chan' = IF UseTelemetry THEN Append(kq_chan, offered + 1) ELSE kq_chan
    /\ UNCHANGED <<connVars, tbMutex, spc, kmsg, tries, bus>>

\* sendToTelemetryBus() never blocks: with telemetry off, or the channel
\* full, the SCN is not sent.
Offer ==
    /\ offered' = offered + 1
    /\ kq_chan' = IF UseTelemetry /\ Len(kq_chan) < KqCap
                  THEN Append(kq_chan, offered + 1) ELSE kq_chan
    /\ UNCHANGED <<connVars, tbMutex, spc, kmsg, tries, bus>>

-----------------------------------------------------------------------------
(* telemetryBusSend() *)

SendTake ==
    /\ spc = "take"
    /\ kq_chan # <<>>
    /\ kmsg' = Head(kq_chan)
    /\ kq_chan' = Tail(kq_chan)
    /\ tries' = 0
    /\ spc' = "try"
    /\ UNCHANGED <<connVars, tbMutex, offered, bus>>

\* The SCN is over, written or not.
SendEnd == spc' = "take" /\ kmsg' = 0 /\ tries' = 0

\* Mutant of SendTry: tries made with telemetry off do not count.
SendTryForEver ==
    /\ spc = "try"
    /\ \/ /\ tries < MaxTries /\ UseTelemetry
          /\ spc' = "lock"
          /\ UNCHANGED <<kmsg, tries>>
       \/ /\ tries >= MaxTries
          /\ SendEnd
    /\ UNCHANGED <<connVars, tbMutex, kq_chan, offered, bus>>

\* One round of the loop: with telemetry off it only sleeps and counts; after
\* max_tries rounds the SCN is dropped.
SendTry ==
    /\ spc = "try"
    /\ \/ /\ tries < MaxTries /\ UseTelemetry
          /\ spc' = "lock"
          /\ UNCHANGED <<kmsg, tries>>
       \/ /\ tries < MaxTries /\ ~UseTelemetry
          /\ tries' = tries + 1
          /\ UNCHANGED <<spc, kmsg>>
       \/ /\ tries >= MaxTries
          /\ SendEnd
    /\ UNCHANGED <<connVars, tbMutex, kq_chan, offered, bus>>

SendLock ==
    /\ spc = "lock"
    /\ tbMutex = "free"
    /\ tbMutex' = "send"
    /\ spc' = "write"
    /\ UNCHANGED <<connVars, kq_chan, kmsg, tries, offered, bus>>

\* Mutant of SendWrite: the loop goes on after a write that succeeded.
SendWriteAgain ==
    /\ spc = "write"
    /\ bus' = IF msgbusHandle = "open" THEN Append(bus, kmsg) ELSE bus
    /\ spc' = "try" /\ tries' = tries + 1
    /\ tbMutex' = "free"
    /\ UNCHANGED <<connVars, kq_chan, kmsg, offered>>

\* Without a connection the SCN is dropped and counts as sent; a write on a
\* closed one fails and is tried again.
SendWrite ==
    /\ spc = "write"
    /\ bus' = IF msgbusHandle = "open" THEN Append(bus, kmsg) ELSE bus
    /\ IF msgbusHandle = "closed"
       THEN spc' = "try" /\ tries' = tries + 1 /\ UNCHANGED kmsg
       ELSE SendEnd
    /\ tbMutex' = "free"
    /\ UNCHANGED <<connVars, kq_chan, offered>>

telemetryBusSend == SendTake \/ SendTry \/ SendLock \/ SendWrite

-----------------------------------------------------------------------------
(* telebusConnect(): every 5 seconds, for ever.  With nothing to do, or a    *)
(* telemetry host that cannot be parsed, it sleeps again.                    *)

\* Mutant of ConnCheck: an open connection is kept.
ConnCheckKeep ==
    /\ cpc = "check"
    /\ UseTelemetry /\ msgbusHandle = "nil" /\ HostIsGood /\ cpc' = "lockOn"
    /\ UNCHANGED <<msgbusHandle, tbMutex, sendVars>>

ConnCheck ==
    /\ cpc = "check"
    /\ \/ ~UseTelemetry /\ msgbusHandle # "nil" /\ cpc' = "lockOff"
       \/ UseTelemetry /\ msgbusHandle = "nil" /\ HostIsGood /\ cpc' = "lockOn"
    /\ UNCHANGED <<msgbusHandle, tbMutex, sendVars>>

\* tbMutex.Lock(); Disconnect() closes the connection.
Disconnect ==
    /\ cpc = "lockOff"
    /\ tbMutex = "free"
    /\ tbMutex' = "conn"
    /\ msgbusHandle' = "closed"
    /\ cpc' = "forget"
    /\ UNCHANGED sendVars

\* tbMutex.Lock(), and Connect() is under way.
ConnLock ==
    /\ cpc = "lockOn"
    /\ tbMutex = "free"
    /\ tbMutex' = "conn"
    /\ cpc' = "connect"
    /\ UNCHANGED <<msgbusHandle, sendVars>>

ConnOk ==
    /\ cpc = "connect"
    /\ msgbusHandle' = "open"
    /\ tbMutex' = "free"
    /\ cpc' = "check"
    /\ UNCHANGED sendVars

\* Connect() fails: its closed connection is assigned first.
ConnFails ==
    /\ cpc = "connect"
    /\ msgbusHandle' = "closed"
    /\ cpc' = "forget"
    /\ UNCHANGED <<tbMutex, sendVars>>

\* Mutant of Forget: the handle keeps the closed connection.
ForgetNot ==
    /\ cpc = "forget"
    /\ tbMutex' = "free"
    /\ cpc' = "check"
    /\ UNCHANGED <<msgbusHandle, sendVars>>

\* msgbusHandle = nil, after Disconnect() or a failed Connect(); Unlock()
Forget ==
    /\ cpc = "forget"
    /\ msgbusHandle' = "nil"
    /\ tbMutex' = "free"
    /\ cpc' = "check"
    /\ UNCHANGED sendVars

telebusConnect == ConnCheck \/ Disconnect \/ ConnLock \/ ConnOk \/ ConnFails
                  \/ Forget

-----------------------------------------------------------------------------
(* Properties *)

\* What is on the bus was offered, in that order, none twice, and is not still
\* waiting: retries and reconnections lose SCNs but never repeat or reorder
\* them.
BusInOrder ==
    /\ \A m, n \in 1..Len(bus) : m < n => bus[m] < bus[n]
    /\ \A n \in 1..Len(bus) :
          /\ bus[n] <= offered
          /\ \A k \in 1..Len(kq_chan) : bus[n] < kq_chan[k]
          /\ kmsg # 0 => bus[n] < kmsg

\* A closed connection is never left behind: msgbusHandle is closed only while
\* telebusConnect() holds tbMutex, so telemetryBusSend(), which retries on it,
\* never meets one, and a readiness probe that does, met it by chance.
ClosedIsTransient == msgbusHandle = "closed" => tbMutex = "conn"
=============================================================================
