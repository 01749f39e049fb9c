----------------------- MODULE ConfirmationSlotProofs -----------------------
(* Proofs about the comparison benchmark of ConfirmationSlot. *)
EXTENDS ConfirmationSlot, TLAPS

USE RoundsAssumption, RttsAssumption, RttsBounded, TimeoutAssumption,
    MaxSlotAssumption, UseStatsAssumption

(***************************************************************************)
(* The inductive invariant.  SinkSound needs, per leg, that the slot read *)
(* before the send is never above the cluster's slot, that a transaction  *)
(* the cluster holds was accepted and landed above that read, that a leg  *)
(* fetches only a confirmed transaction, and that a leg's non-default     *)
(* result carries sent < landed.                                          *)
(***************************************************************************)
LegInv(l) ==
    /\ slotSent[l] <= slot
    /\ status[l] # "none" => accepted[l] /\ slotSent[l] < landed[l]
    /\ accepted[l] => pc[l] \in {"poll", "fetch", "finished", "panicked"}
    /\ pc[l] = "fetch" => status[l] = "confirmed"
    /\ res[l] = Default \/ res[l].sent < res[l].landed

IInv ==
    /\ TypeOK
    /\ \A l \in Legs : LegInv(l)
    /\ phase \in {"probe", "legs", "stats"} => round <= Rounds
    /\ SinkSound

(* The round trips MaxDelay chooses exist: the longest and the shortest. *)
LEMMA RttsExtremes ==
    /\ (CHOOSE r \in Rtts : \A q \in Rtts : q <= r) \in Rtts
    /\ \A q \in Rtts : q <= (CHOOSE r \in Rtts : \A q2 \in Rtts : q2 <= r)
    /\ (CHOOSE r \in Rtts : \A q \in Rtts : r <= q) \in Rtts
    /\ \A q \in Rtts : (CHOOSE r \in Rtts : \A q2 \in Rtts : r <= q2) <= q
<1>1. PICK top \in Rtts, bot \in Rtts : \A q \in Rtts : bot <= q /\ q <= top
  BY RttsBounded
<1>2. \E r \in Rtts : \A q \in Rtts : q <= r
  BY <1>1
<1>3. \E r \in Rtts : \A q \in Rtts : r <= q
  BY <1>1
<1>4. QED
  BY <1>2, <1>3

(* MaxDelay bounds every delay the probe can compute. *)
LEMMA DelaysBound ==
    ASSUME NEW a \in Rtts, NEW b \in Rtts
    PROVE  Delays(a, b) \in [Legs -> 0..MaxDelay]
<1> DEFINE top == CHOOSE r \in Rtts : \A q \in Rtts : q <= r
           bot == CHOOSE r \in Rtts : \A q \in Rtts : r <= q
<1>1. top \in Nat /\ bot \in Nat /\ bot <= a /\ a <= top /\ bot <= b /\ b <= top
  BY RttsExtremes
<1>2. Dist(a, b) \div 2 \in 0..((top - bot) \div 2)
  BY <1>1 DEF Dist
<1>3. MaxDelay = (top - bot) \div 2
  BY DEF MaxDelay
<1>4. QED
  BY <1>2, <1>3 DEF Delays, PerLeg, Legs

(* MaxDelay is a number of ticks. *)
LEMMA MaxDelayNat == MaxDelay \in Nat
<1> DEFINE top == CHOOSE r \in Rtts : \A q \in Rtts : q <= r
           bot == CHOOSE r \in Rtts : \A q \in Rtts : r <= q
<1>1. top \in Nat /\ bot \in Nat /\ bot <= top
  BY RttsExtremes
<1>2. QED
  BY <1>1 DEF MaxDelay

(* Every initial state satisfies the invariant. *)
LEMMA InitIInv == Init => IInv
<1> SUFFICES ASSUME Init PROVE IInv
  OBVIOUS
<1>2. TypeOK
  BY MaxDelayNat DEF Init, TypeOK, Legs, MaxTime, Default, Results
<1>3. QED
  BY <1>2 DEF Init, IInv, LegInv, SinkSound, Default
(* The invariant survives the end of a leg's sleep. *)
LEMMA LegWakeStep ==
    ASSUME IInv, NEW l \in Legs, LegWake(l)
    PROVE  IInv'
<1>1. TypeOK'
  BY DEF IInv, TypeOK, LegWake, Finished, LegUnchanged, clusterVars, Results, Default
<1>2. \A q \in Legs : LegInv(q)'
  <2> SUFFICES ASSUME NEW q \in Legs PROVE LegInv(q)'
    OBVIOUS
  <2>1. CASE q = l
    BY <2>1 DEF IInv, TypeOK, LegInv, LegWake, Finished, LegUnchanged, clusterVars, Default
  <2>2. CASE q # l
    BY <2>2 DEF IInv, TypeOK, LegInv, LegWake, Finished, LegUnchanged, clusterVars
  <2>3. QED
    BY <2>1, <2>2
<1>3. QED
  BY <1>1, <1>2 DEF IInv, LegWake, Finished, LegUnchanged, clusterVars, SinkSound

(* The invariant survives the slot read before the send. *)
LEMMA LegSlotStep ==
    ASSUME IInv, NEW l \in Legs, LegSlot(l)
    PROVE  IInv'
<1>1. CASE slotSent' = [slotSent EXCEPT ![l] = slot] /\ pc' = [pc EXCEPT ![l] = "send"] /\ UNCHANGED res
  <2>1. TypeOK'
    BY <1>1 DEF IInv, TypeOK, LegSlot, Finished, LegUnchanged, clusterVars, Results, Default
  <2>2. \A q \in Legs : LegInv(q)'
    <3> SUFFICES ASSUME NEW q \in Legs PROVE LegInv(q)'
      OBVIOUS
    <3>1. CASE q = l
      BY <1>1, <3>1 DEF IInv, TypeOK, LegInv, LegSlot, Finished, LegUnchanged, clusterVars, Default
    <3>2. CASE q # l
      BY <1>1, <3>2 DEF IInv, TypeOK, LegInv, LegSlot, Finished, LegUnchanged, clusterVars
    <3>3. QED
      BY <3>1, <3>2
  <2>3. QED
    BY <1>1, <2>1, <2>2 DEF IInv, LegSlot, Finished, LegUnchanged, clusterVars, SinkSound
<1>2. CASE Finished(l, Default) /\ UNCHANGED slotSent
  <2>1. TypeOK'
    BY <1>2 DEF IInv, TypeOK, LegSlot, Finished, LegUnchanged, clusterVars, Results, Default
  <2>2. \A q \in Legs : LegInv(q)'
    <3> SUFFICES ASSUME NEW q \in Legs PROVE LegInv(q)'
      OBVIOUS
    <3>1. CASE q = l
      BY <1>2, <3>1 DEF IInv, TypeOK, LegInv, LegSlot, Finished, LegUnchanged, clusterVars, Default
    <3>2. CASE q # l
      BY <1>2, <3>2 DEF IInv, TypeOK, LegInv, LegSlot, Finished, LegUnchanged, clusterVars
    <3>3. QED
      BY <3>1, <3>2
  <2>3. QED
    BY <1>2, <2>1, <2>2 DEF IInv, LegSlot, Finished, LegUnchanged, clusterVars, SinkSound
<1>3. QED
  BY <1>1, <1>2 DEF LegSlot

(* The invariant survives the send and the start of the confirm loop. *)
LEMMA LegSendStep ==
    ASSUME IInv, NEW l \in Legs, LegSend(l)
    PROVE  IInv'
<1>1. CASE accepted' = [accepted EXCEPT ![l] = TRUE] /\ start' = [start EXCEPT ![l] = now] /\ pc' = [pc EXCEPT ![l] = "poll"] /\ UNCHANGED res
  <2>1. TypeOK'
    BY <1>1 DEF IInv, TypeOK, LegSend, Finished, LegUnchanged, clusterVars, Results, Default
  <2>2. \A q \in Legs : LegInv(q)'
    <3> SUFFICES ASSUME NEW q \in Legs PROVE LegInv(q)'
      OBVIOUS
    <3>1. CASE q = l
      BY <1>1, <3>1 DEF IInv, TypeOK, LegInv, LegSend, Finished, LegUnchanged, clusterVars, Default
    <3>2. CASE q # l
      BY <1>1, <3>2 DEF IInv, TypeOK, LegInv, LegSend, Finished, LegUnchanged, clusterVars
    <3>3. QED
      BY <3>1, <3>2
  <2>3. QED
    BY <1>1, <2>1, <2>2 DEF IInv, LegSend, Finished, LegUnchanged, clusterVars, SinkSound
<1>2. CASE Finished(l, Default) /\ UNCHANGED <<accepted, start>>
  <2>1. TypeOK'
    BY <1>2 DEF IInv, TypeOK, LegSend, Finished, LegUnchanged, clusterVars, Results, Default
  <2>2. \A q \in Legs : LegInv(q)'
    <3> SUFFICES ASSUME NEW q \in Legs PROVE LegInv(q)'
      OBVIOUS
    <3>1. CASE q = l
      BY <1>2, <3>1 DEF IInv, TypeOK, LegInv, LegSend, Finished, LegUnchanged, clusterVars, Default
    <3>2. CASE q # l
      BY <1>2, <3>2 DEF IInv, TypeOK, LegInv, LegSend, Finished, LegUnchanged, clusterVars
    <3>3. QED
      BY <3>1, <3>2
  <2>3. QED
    BY <1>2, <2>1, <2>2 DEF IInv, LegSend, Finished, LegUnchanged, clusterVars, SinkSound
<1>3. QED
  BY <1>1, <1>2 DEF LegSend

(* The invariant survives one pass of the confirm loop. *)
LEMMA LegPollStep ==
    ASSUME IInv, NEW l \in Legs, LegPoll(l)
    PROVE  IInv'
<1>1. CASE Finished(l, Default)
  <2>1. TypeOK'
    BY <1>1 DEF IInv, TypeOK, LegPoll, Finished, LegUnchanged, clusterVars, Results, Default
  <2>2. \A q \in Legs : LegInv(q)'
    <3> SUFFICES ASSUME NEW q \in Legs PROVE LegInv(q)'
      OBVIOUS
    <3>1. CASE q = l
      BY <1>1, <3>1 DEF IInv, TypeOK, LegInv, LegPoll, Finished, LegUnchanged, clusterVars, Default
    <3>2. CASE q # l
      BY <1>1, <3>2 DEF IInv, TypeOK, LegInv, LegPoll, Finished, LegUnchanged, clusterVars
    <3>3. QED
      BY <3>1, <3>2
  <2>3. QED
    BY <1>1, <2>1, <2>2 DEF IInv, LegPoll, Finished, LegUnchanged, clusterVars, SinkSound
<1>2. CASE status[l] = "confirmed" /\ pc' = [pc EXCEPT ![l] = "fetch"] /\ UNCHANGED res
  <2>1. TypeOK'
    BY <1>2 DEF IInv, TypeOK, LegPoll, Finished, LegUnchanged, clusterVars, Results, Default
  <2>2. \A q \in Legs : LegInv(q)'
    <3> SUFFICES ASSUME NEW q \in Legs PROVE LegInv(q)'
      OBVIOUS
    <3>1. CASE q = l
      BY <1>2, <3>1 DEF IInv, TypeOK, LegInv, LegPoll, Finished, LegUnchanged, clusterVars, Default
    <3>2. CASE q # l
      BY <1>2, <3>2 DEF IInv, TypeOK, LegInv, LegPoll, Finished, LegUnchanged, clusterVars
    <3>3. QED
      BY <3>1, <3>2
  <2>3. QED
    BY <1>2, <2>1, <2>2 DEF IInv, LegPoll, Finished, LegUnchanged, clusterVars, SinkSound
<1>3. QED
  BY <1>1, <1>2 DEF LegPoll

(* The invariant survives the panic of a failed confirmation poll. *)
LEMMA LegPanicStep ==
    ASSUME IInv, NEW l \in Legs, LegPanic(l)
    PROVE  IInv'
<1>1. TypeOK'
  <2>1. pc' \in [Legs -> {"idle", "sleep", "slot", "send", "poll", "fetch", "finished", "panicked"}]
    BY DEF IInv, TypeOK, LegPanic
  <2>2. QED
    BY <2>1 DEF IInv, TypeOK, LegPanic, LegUnchanged, clusterVars
<1>2. \A q \in Legs : LegInv(q)'
  <2> SUFFICES ASSUME NEW q \in Legs PROVE LegInv(q)'
    OBVIOUS
  <2>1. CASE q = l
    BY <2>1 DEF IInv, TypeOK, LegInv, LegPanic, Finished, LegUnchanged, clusterVars, Default
  <2>2. CASE q # l
    BY <2>2 DEF IInv, TypeOK, LegInv, LegPanic, Finished, LegUnchanged, clusterVars
  <2>3. QED
    BY <2>1, <2>2
<1>3. QED
  BY <1>1, <1>2 DEF IInv, LegPanic, Finished, LegUnchanged, clusterVars, SinkSound

(* The invariant survives the fetch of the landed slot. *)
LEMMA LegFetchStep ==
    ASSUME IInv, NEW l \in Legs, LegFetch(l)
    PROVE  IInv'
<1>1. CASE Finished(l, [ok |-> TRUE, sent |-> slotSent[l], landed |-> landed[l]])
  <2>1. TypeOK'
    BY <1>1 DEF IInv, TypeOK, LegFetch, Finished, LegUnchanged, clusterVars, Results, Default
  <2>2. \A q \in Legs : LegInv(q)'
    <3> SUFFICES ASSUME NEW q \in Legs PROVE LegInv(q)'
      OBVIOUS
    <3>1. CASE q = l
      BY <1>1, <3>1 DEF IInv, TypeOK, LegInv, LegFetch, Finished, LegUnchanged, clusterVars, Default
    <3>2. CASE q # l
      BY <1>1, <3>2 DEF IInv, TypeOK, LegInv, LegFetch, Finished, LegUnchanged, clusterVars
    <3>3. QED
      BY <3>1, <3>2
  <2>3. QED
    BY <1>1, <2>1, <2>2 DEF IInv, LegFetch, Finished, LegUnchanged, clusterVars, SinkSound
<1>2. CASE Finished(l, Default)
  <2>1. TypeOK'
    BY <1>2 DEF IInv, TypeOK, LegFetch, Finished, LegUnchanged, clusterVars, Results, Default
  <2>2. \A q \in Legs : LegInv(q)'
    <3> SUFFICES ASSUME NEW q \in Legs PROVE LegInv(q)'
      OBVIOUS
    <3>1. CASE q = l
      BY <1>2, <3>1 DEF IInv, TypeOK, LegInv, LegFetch, Finished, LegUnchanged, clusterVars, Default
    <3>2. CASE q # l
      BY <1>2, <3>2 DEF IInv, TypeOK, LegInv, LegFetch, Finished, LegUnchanged, clusterVars
    <3>3. QED
      BY <3>1, <3>2
  <2>3. QED
    BY <1>2, <2>1, <2>2 DEF IInv, LegFetch, Finished, LegUnchanged, clusterVars, SinkSound
<1>3. QED
  BY <1>1, <1>2 DEF LegFetch

(* A round probe either fails or spawns two fresh legs. *)
LEMMA ProbeStep ==
    ASSUME IInv, Probe
    PROVE  IInv'
<1>1. CASE phase' = "failed" /\ UNCHANGED <<rtt, delay, now, legVars, status, landed>>
  BY <1>1 DEF IInv, TypeOK, LegInv, SinkSound, Probe, legVars
<1>2. CASE \E a, b \in Rtts :
             /\ rtt' = PerLeg(a, b)
             /\ delay' = Delays(a, b)
             /\ phase' = "legs"
             /\ now' = 0
             /\ pc' = [l \in Legs |-> "sleep"]
             /\ res' = [l \in Legs |-> Default]
             /\ accepted' = [l \in Legs |-> FALSE]
             /\ status' = [l \in Legs |-> "none"]
             /\ landed' = [l \in Legs |-> 0]
             /\ UNCHANGED <<slotSent, start>>
  <2>1. PICK a \in Rtts, b \in Rtts :
             /\ rtt' = PerLeg(a, b)
             /\ delay' = Delays(a, b)
             /\ phase' = "legs"
             /\ now' = 0
             /\ pc' = [l \in Legs |-> "sleep"]
             /\ res' = [l \in Legs |-> Default]
             /\ accepted' = [l \in Legs |-> FALSE]
             /\ status' = [l \in Legs |-> "none"]
             /\ landed' = [l \in Legs |-> 0]
             /\ UNCHANGED <<slotSent, start>>
    BY <1>2
  <2>2. delay' \in [Legs -> 0..MaxDelay]
    BY <2>1, DelaysBound
  <2>3. TypeOK'
    BY <2>1, <2>2, MaxDelayNat, RttsAssumption
       DEF IInv, TypeOK, Probe, PerLeg, MaxTime, Results, Default
  <2>4. \A q \in Legs : LegInv(q)'
    BY <2>1, <2>2 DEF IInv, TypeOK, LegInv, Probe, Default
  <2>5. QED
    BY <2>3, <2>4 DEF IInv, Probe, SinkSound
<1>3. QED
  BY <1>1, <1>2 DEF Probe

(* Joining the legs only moves the round to its stats or aborts it. *)
LEMMA JoinStep ==
    ASSUME IInv, Join
    PROVE  IInv'
BY DEF IInv, TypeOK, LegInv, SinkSound, Join, legVars, clusterVars

(* What the stats of a round forward is a well-formed real comparison. *)
LEMMA ForwardedSound ==
    ASSUME IInv, phase = "stats", NEW l \in Legs
    PROVE  \A r \in Forwarded(l) :
              /\ r \in [round : 1..Rounds, leg : Legs, sent : 0..MaxSlot + 1, landed : 0..MaxSlot + 1]
              /\ r.sent < r.landed
<1> SUFFICES ASSUME UseStats, res[l] # Default
             PROVE  /\ Report(l) \in [round : 1..Rounds, leg : Legs, sent : 0..MaxSlot + 1, landed : 0..MaxSlot + 1]
                    /\ Report(l).sent < Report(l).landed
  BY DEF Forwarded
<1>1. res[l] \in Results /\ round \in 1..Rounds
  BY DEF IInv, TypeOK
<1>2. res[l].sent < res[l].landed
  BY DEF IInv, LegInv
<1>3. QED
  BY <1>1, <1>2 DEF Report, Results

(* Submitting the stats keeps the sink sound and the round in range. *)
LEMMA StatsStep ==
    ASSUME IInv, Stats
    PROVE  IInv'
<1>1. /\ \A r \in Forwarded("A") \cup Forwarded("B") :
           /\ r \in [round : 1..Rounds, leg : Legs, sent : 0..MaxSlot + 1, landed : 0..MaxSlot + 1]
           /\ r.sent < r.landed
  BY ForwardedSound DEF Stats, Legs
<1>2. UNCHANGED <<rtt, delay, now, legVars, clusterVars>>
  BY DEF Stats
<1>3. \A q \in Legs : LegInv(q)'
  BY <1>2 DEF IInv, LegInv, legVars, clusterVars
<1>4. round' \in 1..(Rounds + 1) /\ (phase' \in {"probe", "legs", "stats"} => round' <= Rounds)
  BY DEF IInv, TypeOK, Stats
<1>5. sink' \subseteq sink \cup Forwarded("A") \cup Forwarded("B")
  BY DEF Stats
<1>6. phase' \in {"probe", "legs", "stats", "done", "failed", "aborted"}
  BY DEF Stats
<1>7. QED
  BY <1>1, <1>2, <1>3, <1>4, <1>5, <1>6 DEF IInv, TypeOK, SinkSound, legVars, clusterVars

(* A tick of time changes no leg, no slot and no record. *)
LEMMA TimeTickStep ==
    ASSUME IInv, TimeTick
    PROVE  IInv'
<1>1. TypeOK'
  <2>1. now' \in 0..MaxTime
    BY MaxDelayNat DEF IInv, TypeOK, TimeTick, MaxTime
  <2>2. QED
    BY <2>1 DEF IInv, TypeOK, TimeTick, legVars, clusterVars
<1>2. \A q \in Legs : LegInv(q)'
  BY DEF IInv, TypeOK, LegInv, TimeTick, Waiting, legVars, clusterVars
<1>3. QED
  BY <1>1, <1>2 DEF IInv, SinkSound, TimeTick, legVars, clusterVars

(* The cluster's confirmed slot only grows. *)
LEMMA SlotTickStep ==
    ASSUME IInv, SlotTick
    PROVE  IInv'
BY DEF IInv, TypeOK, LegInv, SinkSound, SlotTick, legVars

(* A transaction lands above the slot its leg read before sending it. *)
LEMMA LandStep ==
    ASSUME IInv, NEW l \in Legs, Land(l)
    PROVE  IInv'
<1>1. TypeOK'
  BY DEF IInv, TypeOK, Land, legVars
<1>2. \A q \in Legs : LegInv(q)'
  BY DEF IInv, TypeOK, LegInv, Land, legVars
<1>3. QED
  BY <1>1, <1>2 DEF IInv, SinkSound, Land, legVars

(* A landed transaction gets confirmed. *)
LEMMA ConfirmStep ==
    ASSUME IInv, NEW l \in Legs, Confirm(l)
    PROVE  IInv'
<1>1. TypeOK'
  BY DEF IInv, TypeOK, Confirm, legVars
<1>2. \A q \in Legs : LegInv(q)'
  BY DEF IInv, TypeOK, LegInv, Confirm, legVars
<1>3. QED
  BY <1>1, <1>2 DEF IInv, SinkSound, Confirm, legVars

(* Every step of the benchmark preserves the invariant. *)
LEMMA IInvStep == IInv /\ [Next]_vars => IInv'
<1> SUFFICES ASSUME IInv, [Next]_vars PROVE IInv'
  OBVIOUS
<1>1. CASE Probe
  BY <1>1, ProbeStep
<1>2. CASE Join
  BY <1>2, JoinStep
<1>3. CASE Stats
  BY <1>3, StatsStep
<1>4. ASSUME NEW l \in Legs, Leg(l) PROVE IInv'
  BY <1>4, LegWakeStep, LegSlotStep, LegSendStep, LegPollStep, LegFetchStep DEF Leg
<1>5. ASSUME NEW l \in Legs, LegPanic(l) \/ Land(l) \/ Confirm(l) PROVE IInv'
  BY <1>5, LegPanicStep, LandStep, ConfirmStep
<1>6. CASE TimeTick
  BY <1>6, TimeTickStep
<1>7. CASE SlotTick
  BY <1>7, SlotTickStep
<1>8. CASE Ended \/ UNCHANGED vars
  BY <1>8 DEF Ended, vars, IInv, TypeOK, LegInv, SinkSound, legVars, clusterVars
<1>9. QED
  BY <1>1, <1>2, <1>3, <1>4, <1>5, <1>6, <1>7, <1>8 DEF Next

(* The invariant holds in every reachable state. *)
THEOREM Invariance == Spec => []IInv
<1>1. Init => IInv
  BY InitIInv
<1>2. QED
  BY <1>1, IInvStep, PTL DEF Spec

(* Type correctness of the benchmark: every leg variable, the clock, the *)
(* slots and the submitted records stay in their ranges.               *)
THEOREM TypeCorrect == Spec => []TypeOK
BY Invariance, PTL DEF IInv

(* Only real comparisons reach the stats sink: every record            *)
(* submit_ping_thing_stats sends has its transaction landing strictly  *)
(* after the slot the leg read before sending it.                      *)
THEOREM SinkSoundHolds == Spec => []SinkSound
BY Invariance, PTL DEF IInv

=============================================================================
