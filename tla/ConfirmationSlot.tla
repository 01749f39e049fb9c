-------------------------- MODULE ConfirmationSlot --------------------------
(***************************************************************************)
(* The confirmation_slot benchmark of                                      *)
(* src/bench/src/benches/confirmation_slot.rs.  Each round measures the    *)
(* getHealth round trip to two endpoints A and B, holds back the nearer    *)
(* one by half the difference, and spawns one leg per endpoint: sleep,     *)
(* read the slot, send, poll confirm_transaction until confirmed or the    *)
(* deadline, fetch the landed slot.  The round joins both legs and         *)
(* forwards the non-default results to the stats sink.                     *)
(* Time is counted from the spawn of the legs.  It advances while every    *)
(* running leg is suspended: in its sleep, in an RPC call (the slot read,  *)
(* the send, a confirm call, the fetch) or in the confirm loop before its  *)
(* deadline, and only while some leg waits on a timer.  A stretch in which *)
(* no leg sleeps or polls is not measured by anything the code reads, so   *)
(* it is left out of now.                                                  *)
(***************************************************************************)
EXTENDS Naturals, FiniteSets

CONSTANTS
    Rounds,     \* num_rounds
    Rtts,       \* the round-trip times getHealth may measure
    TimeoutMs,  \* max_timeout_ms of the confirm loop
    MaxSlot,    \* bound on the cluster's confirmed slot
    UseStats    \* ping_thing_token.is_some()

ASSUME RoundsAssumption == Rounds \in Nat \ {0}
\* Round trips are even so that half of a difference is a whole tick.
ASSUME RttsAssumption == Rtts \subseteq Nat /\ Rtts # {} /\ \A r \in Rtts : r % 2 = 0
\* The measured round trips have a shortest and a longest, as any finite set does.
ASSUME RttsBounded == \E top, bot \in Rtts : \A q \in Rtts : bot <= q /\ q <= top
ASSUME TimeoutAssumption == TimeoutMs \in Nat \ {0}
ASSUME MaxSlotAssumption == MaxSlot \in Nat
ASSUME UseStatsAssumption == UseStats \in BOOLEAN

Legs == {"A", "B"}
(* The function mapping A to a and B to b. *)
PerLeg(a, b) == [l \in Legs |-> IF l = "A" THEN a ELSE b]

Dist(a, b) == IF a > b THEN a - b ELSE b - a
MaxDelay == LET top == CHOOSE r \in Rtts : \A q \in Rtts : q <= r
                bot == CHOOSE r \in Rtts : \A q \in Rtts : r <= q
            IN  (top - bot) \div 2
(* Time is needed by a sleep (at most MaxDelay) and by a confirm loop     *)
(* (TimeoutMs).  A leg's RPC calls span only the other leg's sleep or loop, *)
(* so the second send happens by MaxDelay + TimeoutMs and its deadline by  *)
(* MaxDelay + 2 * TimeoutMs: the bound never holds the clock back.         *)
MaxTime == MaxDelay + 2 * TimeoutMs

(* ConfirmationSlotResult; Default is ConfirmationSlotResult::default(). *)
Results == [ok : BOOLEAN, sent : 0..MaxSlot + 1, landed : 0..MaxSlot + 1]
Default == [ok |-> FALSE, sent |-> 0, landed |-> 0]

VARIABLES
    round,      \* the iteration of for _ in 0..num_rounds (1-based)
    phase,      \* "probe" | "legs" | "stats" | "done" | "failed" | "aborted"
    rtt,        \* time_a, time_b
    delay,      \* a_delay, b_delay
    now,        \* time since the legs were spawned
    pc,         \* pc[l]: where leg l is
    slotSent,   \* slot_sent of each leg
    start,      \* start_time of each leg's confirm loop
    res,        \* the leg's ConfirmationSlotResult
    slot,       \* the cluster's confirmed slot
    status,     \* status[l]: the current round's transaction of leg l
    landed,     \* landed[l]: the slot it landed in
    accepted,   \* accepted[l]: the endpoint accepted the send
    sink        \* the records submitted to the stats sink

clusterVars == <<slot, status, landed>>
legVars == <<pc, slotSent, start, res, accepted>>
vars == <<round, phase, rtt, delay, now, legVars, clusterVars, sink>>

Init ==
    /\ round = 1
    /\ phase = "probe"
    /\ rtt = [l \in Legs |-> 0]
    /\ delay = [l \in Legs |-> 0]
    /\ now = 0
    /\ pc = [l \in Legs |-> "idle"]
    /\ slotSent = [l \in Legs |-> 0]
    /\ start = [l \in Legs |-> 0]
    /\ res = [l \in Legs |-> Default]
    /\ slot = 0
    /\ status = [l \in Legs |-> "none"]
    /\ landed = [l \in Legs |-> 0]
    /\ accepted = [l \in Legs |-> FALSE]
    /\ sink = {}

-----------------------------------------------------------------------------
(* The delays of lines 62-67: the nearer endpoint waits half the difference. *)
Delays(a, b) ==
    LET half == Dist(a, b) \div 2
    IN  IF a > b THEN PerLeg(0, half) ELSE PerLeg(half, 0)

(* Measure both round trips, build both transactions, spawn both legs.  A  *)
(* failed getHealth or getLatestBlockhash ends the benchmark through ?.    *)
Probe ==
    /\ phase = "probe"
    /\ \/ /\ phase' = "failed"
          /\ UNCHANGED <<rtt, delay, now, legVars, status, landed>>
       \/ \E a, b \in Rtts :
            /\ rtt' = PerLeg(a, b)
            /\ delay' = Delays(a, b)
            /\ phase' = "legs"
            /\ now' = 0
            /\ pc' = [l \in Legs |-> "sleep"]
            /\ res' = [l \in Legs |-> Default]
            /\ accepted' = [l \in Legs |-> FALSE]
            /\ status' = [l \in Legs |-> "none"]
            /\ landed' = [l \in Legs |-> 0]
            /\ UNCHANGED <<slotSent, start>>
    /\ UNCHANGED <<round, slot, sink>>

-----------------------------------------------------------------------------
(***************************************************************************)
(* One leg: the spawned task of lines 71-89 running send_transaction.      *)
(* Every error returned by ? inside send_transaction becomes the Default   *)
(* result through unwrap_or_else.                                          *)
(***************************************************************************)
LegUnchanged == UNCHANGED <<round, phase, rtt, delay, now, clusterVars, sink>>

Finished(l, r) ==
    /\ pc' = [pc EXCEPT ![l] = "finished"]
    /\ res' = [res EXCEPT ![l] = r]

(* The sleep of the leg's delay ends. *)
LegWake(l) ==
    /\ pc[l] = "sleep"
    /\ now >= delay[l]
    /\ pc' = [pc EXCEPT ![l] = "slot"]
    /\ UNCHANGED <<slotSent, start, res, accepted>>
    /\ LegUnchanged

(* slot_sent = get_slot_with_commitment(confirmed). *)
LegSlot(l) ==
    /\ pc[l] = "slot"
    /\ \/ /\ slotSent' = [slotSent EXCEPT ![l] = slot]
          /\ pc' = [pc EXCEPT ![l] = "send"]
          /\ UNCHANGED res
       \/ Finished(l, Default) /\ UNCHANGED slotSent
    /\ UNCHANGED <<start, accepted>>
    /\ LegUnchanged

(* send_transaction_with_config, then start_time = Instant::now(). *)
LegSend(l) ==
    /\ pc[l] = "send"
    /\ \/ /\ accepted' = [accepted EXCEPT ![l] = TRUE]
          /\ start' = [start EXCEPT ![l] = now]
          /\ pc' = [pc EXCEPT ![l] = "poll"]
          /\ UNCHANGED res
       \/ Finished(l, Default) /\ UNCHANGED <<accepted, start>>
    /\ UNCHANGED slotSent
    /\ LegUnchanged

(* Seeded bug: the confirm loop without its deadline check. *)
LegPollNoDeadline(l) ==
    /\ pc[l] = "poll"
    /\ status[l] = "confirmed"
    /\ pc' = [pc EXCEPT ![l] = "fetch"]
    /\ UNCHANGED <<slotSent, start, res, accepted>>
    /\ LegUnchanged

(* One pass of the confirm loop: past the deadline the leg returns the     *)
(* Default result; else a confirmed answer leaves the loop.  A false       *)
(* answer loops again without a state change.                              *)
LegPoll(l) ==
    /\ pc[l] = "poll"
    /\ IF now >= start[l] + TimeoutMs
         THEN Finished(l, Default)
         ELSE /\ status[l] = "confirmed"
              /\ pc' = [pc EXCEPT ![l] = "fetch"]
              /\ UNCHANGED res
    /\ UNCHANGED <<slotSent, start, accepted>>
    /\ LegUnchanged

(* Before the deadline, confirm_transaction_with_commitment fails: the     *)
(* .unwrap() panics the leg's task.                                        *)
LegPanic(l) ==
    /\ pc[l] = "poll"
    /\ now < start[l] + TimeoutMs
    /\ pc' = [pc EXCEPT ![l] = "panicked"]
    /\ UNCHANGED <<slotSent, start, res, accepted>>
    /\ LegUnchanged

(* get_transaction_with_config returns the landed slot, or an error. *)
LegFetch(l) ==
    /\ pc[l] = "fetch"
    /\ \/ Finished(l, [ok |-> TRUE, sent |-> slotSent[l], landed |-> landed[l]])
       \/ Finished(l, Default)
    /\ UNCHANGED <<slotSent, start, accepted>>
    /\ LegUnchanged

-----------------------------------------------------------------------------
(* tokio::join! and a? / b?: a panicked leg is a JoinError that ends the   *)
(* benchmark.                                                              *)
Join ==
    /\ phase = "legs"
    /\ \A l \in Legs : pc[l] \in {"finished", "panicked"}
    /\ phase' = IF \E l \in Legs : pc[l] = "panicked" THEN "aborted" ELSE "stats"
    /\ UNCHANGED <<round, rtt, delay, now, legVars, clusterVars, sink>>

(* The record submit_ping_thing_stats sends for a leg. *)
Report(l) == [round |-> round, leg |-> l, sent |-> res[l].sent, landed |-> res[l].landed]

(* Seeded bug: submit_ping_thing_stats without its Default filter. *)
ForwardedUnfiltered(l) == IF UseStats THEN {Report(l)} ELSE {}

(* The legs whose result is not the Default are forwarded, A then B. *)
Forwarded(l) == IF UseStats /\ res[l] # Default THEN {Report(l)} ELSE {}

(* Seeded bug: the round loop never reaches num_rounds. *)
StatsNoRoundLimit ==
    /\ phase = "stats"
    /\ sink' = sink \cup Forwarded("A") \cup Forwarded("B")
    /\ round' = round + 1
    /\ phase' = "probe"
    /\ UNCHANGED <<rtt, delay, now, legVars, clusterVars>>

(* Submit the stats (a failed submission ends the benchmark through ?),    *)
(* then go to the next round.                                              *)
Stats ==
    /\ phase = "stats"
    /\ \/ /\ sink' = sink \cup Forwarded("A") \cup Forwarded("B")
          /\ round' = round + 1
          /\ phase' = IF round + 1 > Rounds THEN "done" ELSE "probe"
       \/ /\ Forwarded("A") # {}
          /\ phase' = "failed"
          /\ UNCHANGED <<sink, round>>
       \/ /\ Forwarded("B") # {}
          /\ sink' = sink \cup Forwarded("A")
          /\ phase' = "failed"
          /\ UNCHANGED round
    /\ UNCHANGED <<rtt, delay, now, legVars, clusterVars>>

-----------------------------------------------------------------------------
(***************************************************************************)
(* Time and the cluster.                                                   *)
(***************************************************************************)
Waiting(l) ==
    \/ pc[l] \in {"finished", "panicked", "slot", "send", "fetch"}
    \/ pc[l] = "sleep" /\ now < delay[l]
    \/ pc[l] = "poll" /\ now < start[l] + TimeoutMs

TimeTick ==
    /\ phase = "legs"
    /\ now < MaxTime
    /\ \A l \in Legs : Waiting(l)
    /\ \E l \in Legs : pc[l] \in {"sleep", "poll"}
    /\ now' = now + 1
    /\ UNCHANGED <<round, phase, rtt, delay, legVars, clusterVars, sink>>

SlotTick ==
    /\ slot < MaxSlot
    /\ slot' = slot + 1
    /\ UNCHANGED <<round, phase, rtt, delay, now, legVars, status, landed, sink>>

(* An accepted transaction lands in a block above the confirmed slot. *)
Land(l) ==
    /\ phase = "legs"
    /\ accepted[l]
    /\ status[l] = "none"
    /\ status' = [status EXCEPT ![l] = "processed"]
    /\ landed' = [landed EXCEPT ![l] = slot + 1]
    /\ UNCHANGED <<round, phase, rtt, delay, now, legVars, slot, sink>>

Confirm(l) ==
    /\ status[l] = "processed"
    /\ status' = [status EXCEPT ![l] = "confirmed"]
    /\ UNCHANGED <<round, phase, rtt, delay, now, legVars, slot, landed, sink>>

Ended ==
    /\ phase \in {"done", "failed", "aborted"}
    /\ UNCHANGED vars

-----------------------------------------------------------------------------
Leg(l) == LegWake(l) \/ LegSlot(l) \/ LegSend(l) \/ LegPoll(l) \/ LegFetch(l)

Next ==
    \/ Probe \/ Join \/ Stats
    \/ \E l \in Legs : Leg(l) \/ LegPanic(l) \/ Land(l) \/ Confirm(l)
    \/ TimeTick \/ SlotTick
    \/ Ended

Spec == Init /\ [][Next]_vars

(* The runtime runs every ready task and wakes every timer; the cluster    *)
(* eventually confirms a landed transaction.  No RPC failure is forced.    *)
FairSpec ==
    /\ Spec
    /\ WF_vars(Probe \/ Join \/ Stats)
    /\ \A l \in Legs : WF_vars(Leg(l)) /\ WF_vars(Confirm(l))
    /\ WF_vars(TimeTick)

-----------------------------------------------------------------------------
TypeOK ==
    /\ round \in 1..(Rounds + 1)
    /\ phase \in {"probe", "legs", "stats", "done", "failed", "aborted"}
    /\ rtt \in [Legs -> Rtts \cup {0}]
    /\ delay \in [Legs -> 0..MaxDelay]
    /\ now \in 0..MaxTime
    /\ pc \in [Legs -> {"idle", "sleep", "slot", "send", "poll", "fetch", "finished", "panicked"}]
    /\ slotSent \in [Legs -> 0..MaxSlot]
    /\ start \in [Legs -> 0..MaxTime]
    /\ res \in [Legs -> Results]
    /\ slot \in 0..MaxSlot
    /\ status \in [Legs -> {"none", "processed", "confirmed"}]
    /\ landed \in [Legs -> 0..(MaxSlot + 1)]
    /\ accepted \in [Legs -> BOOLEAN]
    /\ sink \subseteq [round : 1..Rounds, leg : Legs, sent : 0..MaxSlot + 1, landed : 0..MaxSlot + 1]

(* Only real comparisons reach the stats sink: every submitted record is a *)
(* transaction that landed strictly after the slot read before its send.   *)
SinkSound == \A r \in sink : r.sent < r.landed

(* Every round ends: the confirm loop is cut by its deadline. *)
Termination == <>(phase \in {"done", "failed", "aborted"})

(* Spec section 7: a leg that fails, including a failed confirmation poll, *)
(* reports the default record; it does not fail the comparison.            *)
LegFailuresContained == phase # "aborted"
=============================================================================
