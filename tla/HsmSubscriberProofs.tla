------------------------ MODULE HsmSubscriberProofs -------------------------
(***************************************************************************)
(* Proofs about HsmSubscriber, for any attributes, requests, channel size  *)
(* and number of failures and restarts: the type invariant, and that the   *)
(* subscriber goroutine never repeats to HSM what HSM acknowledged.        *)
(***************************************************************************)
EXTENDS HsmSubscriber, TLAPS

\* The record operators stay within their types.
LEMMA NothingType == Nothing \in Info
  BY DEF Nothing, Info

LEMMA AddType ==
  ASSUME NEW info \in Info, NEW r \in Request
  PROVE  Add(info, r) \in Info
  BY DEF Add, Info, Request

\* The channel main() leaves behind: the mandatory request alone.
LEMMA StartChan ==
  <<Mandatory>> \in Seq(Request) /\ Len(<<Mandatory>>) <= ChanCap
<1>1. <<Mandatory>> \in Seq(Request)
  BY HsmAssumption
<1>2. Len(<<Mandatory>>) = 1
  OBVIOUS
<1> QED
  BY <1>1, <1>2, HsmAssumption

\* The type invariant of subscribeToHsmScn() is preserved by every step.
LEMMA TypeStep == TypeOK /\ [Next]_vars => TypeOK'
<1> SUFFICES ASSUME TypeOK, [Next]_vars PROVE TypeOK'
  OBVIOUS
<1> USE HsmAssumption, NothingType, AddType
<1>1. CASE Notify
  BY <1>1 DEF Notify, TypeOK
<1>2. CASE Receive
  <2> DEFINE r == Head(hsmsub_chan)
  <2>1. r \in Request
    BY <1>2 DEF Receive, TypeOK
  <2>2. tracker' \in Info
    BY <1>2, <2>1 DEF Receive, TypeOK, Info, Request
  <2>3. tmpEnabled' \in BOOLEAN
    BY <1>2, <2>1 DEF Receive, TypeOK, Info, Request
  <2>4. hsmsub_chan' \in Seq(Request) /\ Len(hsmsub_chan') <= ChanCap
    BY <1>2 DEF Receive, TypeOK
  <2> QED
    BY <1>2, <2>1, <2>2, <2>3, <2>4 DEF Receive, TypeOK
<1>3. CASE SendOk
  BY <1>3 DEF SendOk, TypeOK
<1>4. CASE SendFail
  BY <1>4 DEF SendFail, TypeOK
<1>5. CASE Requeue
  BY <1>5 DEF Requeue, TypeOK
<1>6. CASE Commit
  <2>1. tracker' \in Info
    BY <1>6 DEF Commit, TypeOK, Info
  <2> QED
    BY <1>6, <2>1 DEF Commit, TypeOK
<1>7. CASE Store1 \/ Store2
  BY <1>7 DEF Store1, Store2, StoreSubs, TypeOK
<1>8. CASE PatchNosm
  BY <1>8 DEF PatchNosm, TypeOK
<1>9. CASE Restart
  <2>1. hsmsub_chan' \in Seq(Request) /\ Len(hsmsub_chan') <= ChanCap
    BY <1>9, StartChan DEF Restart
  <2>2. restarts' \in 0..MaxRestarts
    BY <1>9 DEF Restart, TypeOK
  <2> QED
    BY <1>9, <2>1, <2>2 DEF Restart, TypeOK
<1>10. CASE UNCHANGED vars
  BY <1>10 DEF vars, TypeOK
<1> QED
  BY <1>1, <1>2, <1>3, <1>4, <1>5, <1>6, <1>7, <1>8, <1>9, <1>10
  DEF Next, Loop

LEMMA TypeInit == Init => TypeOK
<1> SUFFICES ASSUME Init PROVE TypeOK
  OBVIOUS
<1>1. 0 \in 0..MaxPosts /\ 0 \in 0..MaxFaults /\ 0 \in 0..MaxRestarts
  BY HsmAssumption
<1> QED
  BY <1>1, HsmAssumption, NothingType, StartChan DEF Init, TypeOK

\* The type invariant holds throughout.
THEOREM TypeCorrect == SafetySpec => []TypeOK
  BY TypeInit, TypeStep, PTL DEF SafetySpec

-----------------------------------------------------------------------------
\* While a request is being sent or committed, its attributes are already in
\* the tracker (the shared maps) and tracker_tmp.enabled covers both the
\* tracker's flag and the request's.
SubTracked ==
    pc \in {"send", "commit"} =>
        /\ sub.attrs \subseteq tracker.attrs
        /\ sub.enabled = "true" \/ tracker.enabled => tmpEnabled

IInv == TypeOK /\ SubTracked /\ AckedTracked /\ NoRedundantPost

\* Every step of the goroutine, of a handler, of a PATCH and of a restart
\* preserves the strengthened invariant.
LEMMA IInvStep == IInv /\ [Next]_vars => IInv'
<1> SUFFICES ASSUME IInv, [Next]_vars PROVE IInv'
  OBVIOUS
<1>0. TypeOK'
  BY TypeStep DEF IInv
<1> USE DEF IInv, SubTracked, AckedTracked, NoRedundantPost, Covers
<1>1. CASE Notify
  BY <1>0, <1>1 DEF Notify
<1>2. CASE Receive
  <2> DEFINE r == Head(hsmsub_chan)
  <2>1. r \in Request /\ tracker \in Info /\ acked \in Info
    BY <1>2 DEF Receive, TypeOK
  <2>2. /\ sub' = r
        /\ tracker'.attrs = tracker.attrs \cup r.attrs
        /\ tracker'.enabled = tracker.enabled
        /\ tmpEnabled' = (tracker.enabled \/ r.enabled = "true")
        /\ pc' \in {"send", "commit"} => ~Covers(tracker, r)
        /\ acked' = acked /\ hsm' = hsm /\ pc = "receive"
    BY <1>2, <2>1 DEF Receive, needHSMSubs, Info
  <2>3. SubTracked'
    BY <2>1, <2>2
  <2>4. AckedTracked'
    BY <2>1, <2>2
  <2>5. NoRedundantPost'
    BY <2>1, <2>2
  <2> QED
    BY <1>0, <2>3, <2>4, <2>5
<1>3. CASE SendOk
  <2>1. CASE nosm
    BY <1>0, <1>3, <2>1 DEF SendOk
  <2>2. CASE ~nosm
    <3>1. /\ acked'.attrs = acked.attrs \cup sub.attrs
          /\ acked'.enabled = (acked.enabled \/ sub.enabled = "true")
          /\ hsm'.attrs = hsm.attrs \cup sub.attrs
          /\ hsm'.enabled = (hsm.enabled \/ sub.enabled = "true")
      BY <1>3, <2>2 DEF SendOk, Add
    <3>2. /\ pc = "send" /\ pc' = "commit" /\ sub' = sub
          /\ tracker' = tracker /\ tmpEnabled' = tmpEnabled
      BY <1>3 DEF SendOk
    <3> QED
      BY <1>0, <3>1, <3>2
  <2> QED
    BY <2>1, <2>2
<1>4. CASE SendFail
  <2>1. /\ hsm.attrs \subseteq hsm'.attrs
        /\ hsm.enabled => hsm'.enabled
    BY <1>4 DEF SendFail, Add, TypeOK, Info
  <2> QED
    BY <1>0, <1>4, <2>1 DEF SendFail
<1>5. CASE Requeue
  BY <1>0, <1>5 DEF Requeue
<1>6. CASE Commit
  <2>1. tracker'.attrs = tracker.attrs /\ tracker'.enabled = tmpEnabled
    BY <1>6 DEF Commit, TypeOK, Info
  <2> QED
    BY <1>0, <1>6, <2>1 DEF Commit
<1>7. CASE Store1 \/ Store2
  BY <1>0, <1>7 DEF Store1, Store2, StoreSubs
<1>8. CASE PatchNosm
  BY <1>0, <1>8 DEF PatchNosm
<1>9. CASE Restart
  BY <1>0, <1>9 DEF Restart, Nothing
<1>10. CASE UNCHANGED vars
  BY <1>0, <1>10 DEF vars
<1> QED
  BY <1>1, <1>2, <1>3, <1>4, <1>5, <1>6, <1>7, <1>8, <1>9, <1>10
  DEF Next, Loop

LEMMA IInvInit == Init => IInv
  BY TypeInit DEF Init, IInv, SubTracked, AckedTracked, NoRedundantPost, Nothing

\* Whatever fails, is retried, PATCHed or restarted: the goroutine never POSTs
\* a request all of which HSM has acknowledged to this process.
THEOREM NeverRedundant == SafetySpec => []NoRedundantPost
<1>1. IInv => NoRedundantPost
  BY DEF IInv
<1> QED
  BY <1>1, IInvInit, IInvStep, PTL DEF SafetySpec

\* HSM has everything it acknowledged, and the tracker knows of all of it.
THEOREM AcknowledgedIsTracked == SafetySpec => []AckedTracked
<1>1. IInv => AckedTracked
  BY DEF IInv
<1> QED
  BY <1>1, IInvInit, IInvStep, PTL DEF SafetySpec
=============================================================================
