------------------------- MODULE BulkConfirmProofs -------------------------
(* Proofs about the batch send-and-poll task of BulkConfirm. *)
EXTENDS BulkConfirm, FiniteSetTheorems, TLAPS

USE NAssumption, SigAssumption, MaxIterAssumption, MaxAlignAssumption,
    MaxSlotAssumption, MaxDropsAssumption

(* Every record the task writes is a ConfirmationResponseFromRpc value. *)
LEMMA RecordsTyped ==
    /\ Absent \in Records
    /\ Timeout \in Records
    /\ SendError \in Records
    /\ \A l \in Levels : Success(l) \in Records
BY DEF Records, Absent, Timeout, SendError, Success, Levels

(* Every step of the task and of the endpoint preserves the type. *)
LEMMA TypeStep == TypeOK /\ [Next]_vars => TypeOK'
<1> SUFFICES ASSUME TypeOK, [Next]_vars PROVE TypeOK'
  OBVIOUS
<1>1. CASE AlignTimeout
  BY <1>1 DEF AlignTimeout, TypeOK, ledgerVars, Phases
<1>2. CASE AlignObserve
  BY <1>2 DEF AlignObserve, TypeOK, ledgerVars, Phases
<1>3. CASE AlignRpcError
  BY <1>3 DEF AlignRpcError, TypeOK, ledgerVars, Phases
<1>4. CASE Send
  BY <1>4, SigAssumption DEF Send, TypeOK, ledgerVars, Phases, Txs
<1>6. CASE StatusError
  BY <1>6 DEF StatusError, TypeOK, ledgerVars, Phases
<1>7. CASE RoundInterrupted
  <2>1. PICK moved \in SUBSET ConfirmedNow : Resolve(moved)
    BY <1>7 DEF RoundInterrupted
  <2>2. rmap' \in [Sigs -> Records]
    BY <2>1, RecordsTyped DEF Resolve, TypeOK
  <2>3. QED
    BY <1>7, <2>1, <2>2 DEF RoundInterrupted, Resolve, TypeOK, ledgerVars
<1>8. CASE RoundComplete
  <2> DEFINE rm   == [s \in Sigs |-> IF s \in ConfirmedNow THEN Success(ledger[s]) ELSE rmap[s]]
             rest == pending \ ConfirmedNow
             final == [s \in Sigs |-> IF s \in rest THEN Timeout ELSE rm[s]]
  <2>1. rm \in [Sigs -> Records] /\ final \in [Sigs -> Records]
    BY RecordsTyped DEF TypeOK
  <2>2. [t \in Txs |-> IF outcome[t] = "ok" THEN final[Sig[t]] ELSE SendError]
          \in [Txs -> Records]
    BY <2>1, RecordsTyped, SigAssumption DEF Txs
  <2>3. CASE rest = {} \/ iteration = MaxIter
    BY <1>8, <2>1, <2>2, <2>3 DEF RoundComplete, Finish, TypeOK, Phases, ledgerVars
  <2>4. CASE ~(rest = {} \/ iteration = MaxIter)
    <3>1. /\ pending' = rest /\ rmap' = rm /\ iteration' = iteration + 1
          /\ UNCHANGED <<phase, result, ledgerVars, lastSlot, ai, sendSlot, outcome>>
      BY <1>8, <2>4 DEF RoundComplete
    <3>2. iteration' \in 1..MaxIter
      BY <2>4, <3>1 DEF TypeOK
    <3>3. QED
      BY <2>1, <3>1, <3>2 DEF TypeOK, ledgerVars
  <2>5. QED
    BY <2>3, <2>4
<1>9. CASE Returned
  BY <1>9 DEF Returned, TypeOK, vars, ledgerVars, taskVars
<1>10. CASE Tick
  <2>1. PICK next \in {slot + 1, slot + 2} \cap 0..MaxSlot : slot' = next
    BY <1>10 DEF Tick
  <2>2. QED
    BY <1>10, <2>1 DEF Tick, TypeOK, taskVars
<1>11. CASE \E s \in Sigs : Land(s) \/ Confirm(s) \/ Finalize(s) \/ DropFork(s)
  <2>1. PICK s \in Sigs : Land(s) \/ Confirm(s) \/ Finalize(s) \/ DropFork(s)
    BY <1>11
  <2>2. ledger' \in [Sigs -> Levels] /\ drops' \in [Sigs -> 0..MaxDrops]
    <3>1. CASE Land(s) \/ Confirm(s) \/ Finalize(s)
      BY <3>1 DEF Land, Confirm, Finalize, TypeOK, Levels
    <3>2. CASE DropFork(s)
      BY <3>2 DEF DropFork, TypeOK, Levels
    <3>3. QED
      BY <2>1, <3>1, <3>2
  <2>3. UNCHANGED <<slot, taskVars>>
    BY <2>1 DEF Land, Confirm, Finalize, DropFork
  <2>4. QED
    BY <2>2, <2>3 DEF TypeOK, taskVars
<1>12. CASE UNCHANGED vars
  BY <1>12 DEF vars, ledgerVars, taskVars, TypeOK
<1>13. QED
  BY <1>1, <1>2, <1>3, <1>4, <1>6, <1>7, <1>8, <1>9, <1>10, <1>11, <1>12
     DEF Next, Task, Step, Ledger

(* The state of the task and of the endpoint always has its type. *)
THEOREM TypeCorrect == Spec => []TypeOK
<1>1. Init => TypeOK
  BY RecordsTyped DEF Init, TypeOK, Txs, Levels, Phases
<1>2. QED
  BY <1>1, TypeStep, PTL DEF Spec
-----------------------------------------------------------------------------
(***************************************************************************)
(* The inductive invariant.  Before the send nothing is tracked; from the  *)
(* send on, every accepted signature is in exactly one of pending_status_  *)
(* set and result_status_map (the move is an ownership transfer), which is *)
(* what keeps the assert_eq! and the final expect() from firing.           *)
(***************************************************************************)
Unsent == [t \in Txs |-> "unsent"]
NoRecords == [s \in Sigs |-> Absent]

AllSigs == {Sig[t] : t \in Txs}

BeforeSend ==
    phase \in {"align", "send"} =>
        outcome = Unsent /\ pending = {} /\ rmap = NoRecords

Tracked ==
    phase \in {"poll", "done"} =>
        /\ SentOk = Txs
        /\ pending \cap Resolved = {}
        /\ pending \cup Resolved = AllSigs

DoneEmpty == phase = "done" => pending = {}

IInv ==
    /\ TypeOK
    /\ BeforeSend
    /\ Tracked
    /\ DoneEmpty
    /\ SuccessIsConfirmed

(* The batch's signatures are N distinct values. *)
LEMMA AllSigsCard == IsFiniteSet(AllSigs) /\ Cardinality(AllSigs) = N
<1>1. Sig \in Bijection(1..N, AllSigs)
  BY SigAssumption, SigUnique DEF Bijection, Injection, Surjection, IsInjective, AllSigs, Txs
<1>2. IsFiniteSet(1..N)
  BY FS_Interval
<1>3. QED
  BY <1>1, <1>2, FS_Bijection, FS_CountingElements, NAssumption DEF ExistsBijection

(* Two disjoint sets that make up the batch's signatures split its size. *)
LEMMA PartitionCard ==
    ASSUME NEW P, NEW R, P \cap R = {}, P \cup R = AllSigs
    PROVE  Cardinality(P) + Cardinality(R) = N
<1>1. IsFiniteSet(P) /\ IsFiniteSet(R)
  BY AllSigsCard, FS_Subset
<1>2. Cardinality(P \cap R) = 0
  BY FS_EmptySet
<1>3. QED
  BY <1>1, <1>2, AllSigsCard, FS_Union, FS_CardinalityType

(* While the task polls, the assert_eq! of the loop holds. *)
LEMMA ConservationFromTracked ==
    ASSUME TypeOK, Tracked
    PROVE  NoConsistencyFault
<1> SUFFICES ASSUME phase = "poll"
             PROVE  Cardinality(pending) + Cardinality(Resolved) = Cardinality(SentOk)
  BY DEF NoConsistencyFault
<1>1. Cardinality(pending) + Cardinality(Resolved) = N
  BY PartitionCard DEF Tracked
<1>2. Cardinality(SentOk) = N
  BY FS_Interval, NAssumption DEF Tracked, Txs
<1>3. QED
  BY <1>1, <1>2

(* A Success record is written only for a confirmed status, at that level. *)
LEMMA ResolveKeepsSuccess ==
    ASSUME TypeOK, SuccessIsConfirmed, NEW moved \in SUBSET ConfirmedNow,
           rmap' = [s \in Sigs |-> IF s \in moved THEN Success(ledger[s]) ELSE rmap[s]],
           ledger' = ledger
    PROVE  SuccessIsConfirmed'
BY DEF SuccessIsConfirmed, ConfirmedNow, Success, TypeOK, Confirmed, Rank, Levels

(* Moving signatures from pending to the map keeps the partition. *)
LEMMA ResolveKeepsTracked ==
    ASSUME TypeOK, Tracked, phase \in {"poll", "done"}, NEW moved \in SUBSET pending,
           pending' = pending \ moved,
           rmap' = [s \in Sigs |-> IF s \in moved THEN Success(ledger[s]) ELSE rmap[s]],
           outcome' = outcome, phase' \in {"poll", "done"}
    PROVE  Tracked'
BY DEF Tracked, Resolved, SentOk, Success, Absent, TypeOK

-----------------------------------------------------------------------------
(* Every step preserves the inductive invariant. *)
LEMMA IInvStep == IInv /\ [Next]_vars => IInv'
<1> SUFFICES ASSUME IInv, [Next]_vars PROVE IInv'
  OBVIOUS
<1> USE DEF IInv
<1>0. TypeOK'
  BY TypeStep
<1>1. CASE AlignTimeout \/ AlignRpcError \/ StatusError
  BY <1>0, <1>1 DEF AlignTimeout, AlignRpcError, StatusError, BeforeSend, Tracked,
                    DoneEmpty, SuccessIsConfirmed, ledgerVars
<1>2. CASE AlignObserve
  BY <1>0, <1>2 DEF AlignObserve, BeforeSend, Tracked, DoneEmpty,
                    SuccessIsConfirmed, ledgerVars
<1>3. CASE Send
  <2>1. PICK out \in [Txs -> {"ok", "err"}] :
            /\ outcome' = out
            /\ \/ phase' = "failed_rpc" /\ UNCHANGED pending
               \/ (\E t \in Txs : out[t] = "err") /\ phase' = "failed_send" /\ UNCHANGED pending
               \/ (\A t \in Txs : out[t] = "ok") /\ phase' = "poll" /\ pending' = AllSigs
    BY <1>3 DEF Send, AllSigs
  <2>2. UNCHANGED <<ledger, rmap>> /\ phase = "send"
    BY <1>3 DEF Send, ledgerVars
  <2>3. rmap = NoRecords
    BY <2>2 DEF BeforeSend
  <2>4. SuccessIsConfirmed'
    BY <2>2, <2>3 DEF SuccessIsConfirmed, NoRecords, Absent
  <2>5. Tracked'
    <3>1. CASE phase' = "poll"
      <4>1. SentOk' = Txs /\ pending' = AllSigs
        BY <2>1, <3>1 DEF SentOk
      <4>2. Resolved' = {}
        BY <2>2, <2>3 DEF Resolved, NoRecords
      <4>3. QED
        BY <4>1, <4>2 DEF Tracked
    <3>2. CASE phase' # "poll"
      BY <2>1, <3>2 DEF Tracked
    <3>3. QED
      BY <3>1, <3>2
  <2>6. QED
    BY <1>0, <2>1, <2>4, <2>5 DEF BeforeSend, DoneEmpty
<1>5. CASE RoundInterrupted
  <2>1. PICK moved \in SUBSET ConfirmedNow : Resolve(moved)
    BY <1>5 DEF RoundInterrupted
  <2>2. UNCHANGED <<ledger, phase, outcome>> /\ phase = "poll"
    BY <1>5 DEF RoundInterrupted, ledgerVars
  <2>3. SuccessIsConfirmed'
    BY <2>1, <2>2, ResolveKeepsSuccess DEF Resolve
  <2>4. Tracked'
    BY <2>1, <2>2, ResolveKeepsTracked DEF Resolve, ConfirmedNow
  <2>5. QED
    BY <1>0, <2>2, <2>3, <2>4 DEF BeforeSend, DoneEmpty
<1>6. CASE RoundComplete
  <2> DEFINE rm   == [s \in Sigs |-> IF s \in ConfirmedNow THEN Success(ledger[s]) ELSE rmap[s]]
             rest == pending \ ConfirmedNow
             final == [s \in Sigs |-> IF s \in rest THEN Timeout ELSE rm[s]]
  <2>1. UNCHANGED <<ledger, outcome>> /\ phase = "poll" /\ Processed = {}
    BY <1>6 DEF RoundComplete, ledgerVars
  <2>2. ConfirmedNow \in SUBSET pending
    BY DEF ConfirmedNow
  <2>3. CASE ~(rest = {} \/ iteration = MaxIter)
    <3>1. pending' = rest /\ rmap' = rm /\ phase' = "poll"
      BY <1>6, <2>3 DEF RoundComplete
    <3>2. SuccessIsConfirmed'
      BY <2>1, <3>1, ResolveKeepsSuccess
    <3>3. Tracked'
      BY <2>1, <2>2, <3>1, ResolveKeepsTracked
    <3>4. QED
      BY <1>0, <3>1, <3>2, <3>3 DEF BeforeSend, DoneEmpty
  <2>4. CASE rest = {} \/ iteration = MaxIter
    <3>1. pending' = {} /\ rmap' = final
      BY <1>6, <2>4 DEF RoundComplete, Finish
    <3>2. \A s \in Sigs : final[s] # Absent <=> s \in AllSigs
      BY <2>1, <2>2 DEF Tracked, Resolved, Success, Timeout, Absent, TypeOK
    <3>4. phase' = "done"
      BY <1>6, <2>4 DEF RoundComplete, Finish
    <3>5. SuccessIsConfirmed'
      <4>2. \A s \in Sigs : rm[s].kind = "success" =>
                rm[s].level \in Confirmed /\ Rank(rm[s].level) <= Rank(ledger[s])
        BY DEF SuccessIsConfirmed, ConfirmedNow, Success, TypeOK, Confirmed, Rank, Levels
      <4>3. QED
        BY <2>1, <3>1, <4>2 DEF SuccessIsConfirmed, Timeout
    <3>6. Tracked'
      <4>1. Resolved' = AllSigs
        BY <3>1, <3>2, SigAssumption DEF Resolved, AllSigs, Txs
      <4>2. QED
        BY <2>1, <3>1, <3>4, <4>1 DEF Tracked, SentOk
    <3>7. QED
      BY <1>0, <3>1, <3>4, <3>5, <3>6 DEF BeforeSend, DoneEmpty
  <2>5. QED
    BY <2>3, <2>4
<1>7. CASE Returned
  BY <1>0, <1>7 DEF Returned, vars, ledgerVars, taskVars, BeforeSend, Tracked, DoneEmpty,
              NoConsistencyFault, SuccessIsConfirmed, Resolved, SentOk
<1>8. CASE Tick
  BY <1>0, <1>8 DEF Tick, taskVars, BeforeSend, Tracked, DoneEmpty,
                    SuccessIsConfirmed, Resolved, SentOk
<1>9. CASE \E s \in Sigs : Land(s) \/ Confirm(s) \/ Finalize(s) \/ DropFork(s)
  <2>1. PICK x \in Sigs : Land(x) \/ Confirm(x) \/ Finalize(x) \/ DropFork(x)
    BY <1>9
  <2>2. UNCHANGED taskVars
    BY <2>1 DEF Land, Confirm, Finalize, DropFork
  <2>3. \A s \in Sigs : Rank(ledger[s]) <= Rank(ledger'[s]) \/ ledger[s] = "processed"
    BY <2>1 DEF Land, Confirm, Finalize, DropFork, Rank, TypeOK, Levels
  <2>4. SuccessIsConfirmed'
    <3> SUFFICES ASSUME NEW s \in Sigs, rmap'[s].kind = "success"
                 PROVE  rmap'[s].level \in Confirmed /\ Rank(rmap'[s].level) <= Rank(ledger'[s])
      BY DEF SuccessIsConfirmed
    <3>1. rmap'[s] = rmap[s]
      BY <2>2 DEF taskVars
    <3>2. rmap[s].level \in Confirmed /\ Rank(rmap[s].level) <= Rank(ledger[s])
      BY <3>1 DEF SuccessIsConfirmed
    <3>3. ledger[s] # "processed"
      BY <3>2 DEF Rank, Confirmed, TypeOK, Levels, Records
    <3>4. Rank(ledger[s]) <= Rank(ledger'[s])
      BY <2>3, <3>3
    <3>5. rmap[s].level \in Levels /\ ledger[s] \in Levels /\ ledger'[s] \in Levels
      BY <1>0 DEF TypeOK, Records
    <3>6. \A l \in Levels : Rank(l) \in Nat
      BY DEF Rank, Levels
    <3>7. QED
      BY <3>1, <3>2, <3>4, <3>5, <3>6
  <2>5. QED
    BY <1>0, <2>2, <2>4 DEF taskVars, BeforeSend, Tracked, DoneEmpty,
                            Resolved, SentOk
<1>10. CASE UNCHANGED vars
  BY <1>0, <1>10 DEF vars, ledgerVars, taskVars, BeforeSend, Tracked, DoneEmpty,
               NoConsistencyFault, SuccessIsConfirmed, Resolved, SentOk
<1>11. QED
  BY <1>1, <1>2, <1>3, <1>5, <1>6, <1>7, <1>8, <1>9, <1>10
     DEF Next, Task, Step, Ledger

(* The tracking logic never hits its ConsistencyFault and never reports a  *)
(* Success the ledger has not confirmed, for every batch size, signature   *)
(* set and round budget.                                                   *)
THEOREM Safety == Spec => [](NoConsistencyFault /\ SuccessIsConfirmed)
<1>1. Init => IInv
  BY RecordsTyped DEF Init, IInv, TypeOK, Txs, Levels, Phases, BeforeSend, Unsent,
                      NoRecords, Tracked, DoneEmpty, SuccessIsConfirmed,
                      Absent
<1>2. IInv => NoConsistencyFault /\ SuccessIsConfirmed
  BY ConservationFromTracked DEF IInv
<1>3. QED
  BY <1>1, <1>2, IInvStep, PTL DEF Spec
-----------------------------------------------------------------------------
(***************************************************************************)
(* Refinement.  The batch task and its endpoint implement ConfirmTracker   *)
(* under the mapping of BulkConfirm: each step of the task is a Submit, a  *)
(* Resolve, a Close or a Fail of the tracker, or leaves its variables      *)
(* alone; each step of the endpoint's ledger is a ledger step of the       *)
(* tracker or, for a tick of the slot, leaves it alone.  The facts used are *)
(* those of the inductive invariant: nothing is tracked before the send,   *)
(* and a result_status_map entry is never a pending standing.              *)
(***************************************************************************)

(* The invariant holds in every reachable state. *)
LEMMA IInvariant == Spec => []IInv
<1>1. Init => IInv
  BY RecordsTyped DEF Init, IInv, TypeOK, Txs, Levels, Phases, BeforeSend, Unsent,
                      NoRecords, Tracked, DoneEmpty, SuccessIsConfirmed,
                      Absent
<1>2. QED
  BY <1>1, IInvStep, PTL DEF Spec

(* A signature's standing is pending exactly while it is in              *)
(* pending_status_set.                                                     *)
LEMMA TrackPending ==
    ASSUME TypeOK, NEW s \in Sigs
    PROVE  Track[s] = Tracker!Tracked <=> s \in pending
<1>1. CASE s \in pending
  BY <1>1 DEF Track, Tracker!Tracked
<1>2. CASE s \notin pending
  <2>1. Track[s] = rmap[s] /\ rmap[s] \in Records
    BY <1>2 DEF Track, TypeOK
  <2>2. rmap[s].kind # "pending"
    BY <2>1 DEF Records
  <2>3. QED
    BY <1>2, <2>1, <2>2 DEF Tracker!Tracked
<1>3. QED
  BY <1>1, <1>2

(* A move of one status by the endpoint is a move of the tracker's ledger. *)
LEMMA LedgerRefines ==
    ASSUME TypeOK, NEW x \in Sigs, Land(x) \/ Confirm(x) \/ Finalize(x) \/ DropFork(x)
    PROVE  Tracker!LedgerStep
<1>1. UNCHANGED taskVars
  BY DEF Land, Confirm, Finalize, DropFork
<1>2. UNCHANGED <<SentSigs, Track, Verdict>>
  BY <1>1 DEF taskVars, SentSigs, SentOk, Track, Verdict
<1>3. \E to \in Tracker!Levels : Tracker!Moves(x, ledger[x], to) /\ ledger' = [ledger EXCEPT ![x] = to]
  <2>1. CASE Land(x)
    <3>1. x \in SentSigs
      BY <2>1 DEF Land, SentSigs
    <3>2. QED
      BY <2>1, <3>1 DEF Land, Tracker!Moves, Tracker!Levels
  <2>2. CASE Confirm(x) \/ Finalize(x) \/ DropFork(x)
    BY <2>2 DEF Confirm, Finalize, DropFork, Tracker!Moves, Tracker!Levels
  <2>3. QED
    BY <2>1, <2>2
<1>4. QED
  BY <1>2, <1>3 DEF Tracker!LedgerStep

(* The send is the tracker's Submit. *)
LEMMA SendRefines ==
    ASSUME IInv, Send
    PROVE  Tracker!Submit
<1>1. phase = "send" /\ outcome = Unsent /\ pending = {} /\ rmap = NoRecords
  BY DEF Send, IInv, BeforeSend
<1>2. Verdict = "running" /\ SentSigs = {}
  BY <1>1 DEF Verdict, SentSigs, SentOk, Unsent
<1>3. \A s \in Sigs : Track[s] = Tracker!Untracked
  BY <1>1 DEF Track, NoRecords, Absent, Tracker!Untracked
<1>4. PICK out \in [Txs -> {"ok", "err"}] :
          /\ outcome' = out
          /\ \/ phase' = "failed_rpc" /\ UNCHANGED pending
             \/ (\E t \in Txs : out[t] = "err") /\ phase' = "failed_send" /\ UNCHANGED pending
             \/ (\A t \in Txs : out[t] = "ok") /\ phase' = "poll" /\ pending' = AllSigs
  BY DEF Send, AllSigs
<1>5. UNCHANGED <<ledger, rmap>>
  BY DEF Send, ledgerVars
<1>6. SentSigs' \in SUBSET {Sig[t] : t \in Txs}
  BY DEF SentSigs, SentOk
<1>7. CASE phase' # "poll"
  <2>1. Verdict' = "failed" /\ UNCHANGED pending
    BY <1>4, <1>7 DEF Verdict
  <2>2. Track' = Track
    BY <1>5, <2>1 DEF Track
  <2>3. QED
    BY <1>2, <1>3, <1>5, <1>6, <2>1, <2>2 DEF Tracker!Submit
<1>8. CASE phase' = "poll"
  <2>1. (\A t \in Txs : out[t] = "ok") /\ pending' = AllSigs
    BY <1>4, <1>8
  <2>2. SentSigs' = {Sig[t] : t \in Txs}
    BY <1>4, <2>1 DEF SentSigs, SentOk
  <2>3. Track' = [s \in Sigs |-> IF s \in {Sig[t] : t \in Txs} THEN Tracker!Tracked ELSE Track[s]]
    BY <1>1, <1>5, <2>1 DEF Track, AllSigs, Tracker!Tracked
  <2>4. Verdict' = Verdict
    BY <1>2, <1>8 DEF Verdict
  <2>5. QED
    BY <1>2, <1>3, <1>5, <2>2, <2>3, <2>4 DEF Tracker!Submit
<1>9. QED
  BY <1>7, <1>8

(* Moving signatures to the map while the loop goes on is a Resolve. *)
LEMMA MoveRefines ==
    ASSUME TypeOK, phase = "poll", phase' = "poll", NEW moved \in SUBSET ConfirmedNow,
           pending' = pending \ moved,
           rmap' = [s \in Sigs |-> IF s \in moved THEN Success(ledger[s]) ELSE rmap[s]],
           UNCHANGED <<ledger, outcome>>
    PROVE  Tracker!Resolve
<1>1. moved \in SUBSET Tracker!ResolvableNow
  <2> SUFFICES ASSUME NEW s \in moved PROVE s \in Tracker!ResolvableNow
    OBVIOUS
  <2>1. s \in pending /\ s \in Sigs /\ ledger[s] \in Confirmed
    BY DEF ConfirmedNow, TypeOK
  <2>2. Track[s] = Tracker!Tracked
    BY <2>1, TrackPending
  <2>3. QED
    BY <2>1, <2>2 DEF Tracker!ResolvableNow, Confirmed, Tracker!Confirmed
<1>2. Track' = Tracker!Resolved(moved)
  BY DEF Track, Tracker!Resolved, Success, ConfirmedNow
<1>3. Verdict = "running" /\ Verdict' = Verdict /\ SentSigs' = SentSigs
  BY DEF Verdict, SentSigs, SentOk
<1>4. QED
  BY <1>1, <1>2, <1>3 DEF Tracker!Resolve

(* The end of the loop is a Close. *)
LEMMA FinishRefines ==
    ASSUME TypeOK, phase = "poll", RoundComplete,
           pending \ ConfirmedNow = {} \/ iteration = MaxIter
    PROVE  Tracker!Close
<1> DEFINE rm   == [s \in Sigs |-> IF s \in ConfirmedNow THEN Success(ledger[s]) ELSE rmap[s]]
           rest == pending \ ConfirmedNow
           final == [s \in Sigs |-> IF s \in rest THEN Timeout ELSE rm[s]]
<1>1. pending' = {} /\ rmap' = final /\ phase' = "done" /\ UNCHANGED <<ledger, outcome>>
  BY DEF RoundComplete, Finish, ledgerVars
<1>2. ConfirmedNow \in SUBSET Tracker!ResolvableNow
  <2> SUFFICES ASSUME NEW s \in ConfirmedNow PROVE s \in Tracker!ResolvableNow
    OBVIOUS
  <2>1. s \in pending /\ s \in Sigs /\ ledger[s] \in Confirmed
    BY DEF ConfirmedNow, TypeOK
  <2>2. Track[s] = Tracker!Tracked
    BY <2>1, TrackPending
  <2>3. QED
    BY <2>1, <2>2 DEF Tracker!ResolvableNow, Confirmed, Tracker!Confirmed
<1>3. Track' = [s \in Sigs |-> IF Track[s] = Tracker!Tracked /\ s \notin ConfirmedNow
                                 THEN Tracker!Expired ELSE Tracker!Resolved(ConfirmedNow)[s]]
  <2> SUFFICES ASSUME NEW s \in Sigs
               PROVE  Track'[s] = IF Track[s] = Tracker!Tracked /\ s \notin ConfirmedNow
                                    THEN Tracker!Expired ELSE Tracker!Resolved(ConfirmedNow)[s]
    BY DEF Track
  <2>1. Track'[s] = final[s]
    BY <1>1 DEF Track
  <2>2. Track[s] = Tracker!Tracked <=> s \in pending
    BY TrackPending
  <2>3. QED
    BY <2>1, <2>2 DEF Tracker!Expired, Timeout, Tracker!Resolved, Track, Success, ConfirmedNow
<1>4. Verdict = "running" /\ Verdict' = "done" /\ SentSigs' = SentSigs
  BY <1>1 DEF Verdict, SentSigs, SentOk
<1>5. QED
  BY <1>1, <1>2, <1>3, <1>4 DEF Tracker!Close

(* Every step of the task and the endpoint is a tracker step or stutter. *)
LEMMA RefineStep == IInv /\ [Next]_vars => [Tracker!Next]_Tracker!vars
<1> SUFFICES ASSUME IInv, [Next]_vars PROVE [Tracker!Next]_Tracker!vars
  OBVIOUS
<1>0. TypeOK
  BY DEF IInv
<1>1. CASE AlignTimeout \/ AlignRpcError \/ StatusError
  <2>1. phase \in {"align", "poll"} /\ phase' \in {"failed_align", "failed_rpc", "failed_status"}
    BY <1>1 DEF AlignTimeout, AlignRpcError, StatusError
  <2>2. UNCHANGED <<ledger, outcome, pending, rmap>>
    BY <1>1 DEF AlignTimeout, AlignRpcError, StatusError, ledgerVars
  <2>3. Verdict = "running" /\ Verdict' = "failed"
    BY <2>1 DEF Verdict
  <2>4. Tracker!Fail
    BY <2>2, <2>3 DEF Tracker!Fail, SentSigs, SentOk, Track
  <2>5. QED
    BY <2>4 DEF Tracker!Next
<1>2. CASE AlignObserve
  <2>1. phase = "align" /\ phase' \in {"align", "send"}
    BY <1>2 DEF AlignObserve
  <2>2. UNCHANGED <<ledger, outcome, pending, rmap>>
    BY <1>2 DEF AlignObserve, ledgerVars
  <2>3. QED
    BY <2>1, <2>2 DEF Tracker!vars, Verdict, SentSigs, SentOk, Track
<1>3. CASE Send
  BY <1>3, SendRefines DEF Tracker!Next
<1>4. CASE RoundInterrupted
  <2>1. PICK moved \in SUBSET ConfirmedNow : Resolve(moved)
    BY <1>4 DEF RoundInterrupted
  <2>2. phase = "poll" /\ phase' = "poll" /\ UNCHANGED <<ledger, outcome>>
    BY <1>4 DEF RoundInterrupted, ledgerVars
  <2>3. Tracker!Resolve
    BY <1>0, <2>1, <2>2, MoveRefines DEF Resolve
  <2>4. QED
    BY <2>3 DEF Tracker!Next
<1>5. CASE RoundComplete
  <2>1. phase = "poll"
    BY <1>5 DEF RoundComplete
  <2>2. CASE pending \ ConfirmedNow = {} \/ iteration = MaxIter
    BY <1>0, <1>5, <2>1, <2>2, FinishRefines DEF Tracker!Next
  <2>3. CASE ~(pending \ ConfirmedNow = {} \/ iteration = MaxIter)
    <3>1. /\ pending' = pending \ ConfirmedNow
          /\ rmap' = [s \in Sigs |-> IF s \in ConfirmedNow THEN Success(ledger[s]) ELSE rmap[s]]
          /\ phase' = "poll" /\ UNCHANGED <<ledger, outcome>>
      BY <1>5, <2>3 DEF RoundComplete, ledgerVars
    <3>2. Tracker!Resolve
      BY <1>0, <2>1, <3>1, MoveRefines
    <3>3. QED
      BY <3>2 DEF Tracker!Next
  <2>4. QED
    BY <2>2, <2>3
<1>6. CASE Returned \/ Tick \/ UNCHANGED vars
  <2>1. UNCHANGED <<ledger, outcome, pending, rmap, phase>>
    BY <1>6 DEF Returned, Tick, vars, ledgerVars, taskVars
  <2>2. QED
    BY <2>1 DEF Tracker!vars, Verdict, SentSigs, SentOk, Track
<1>7. CASE \E s \in Sigs : Land(s) \/ Confirm(s) \/ Finalize(s) \/ DropFork(s)
  BY <1>0, <1>7, LedgerRefines DEF Tracker!Next
<1>8. QED
  BY <1>1, <1>2, <1>3, <1>4, <1>5, <1>6, <1>7 DEF Next, Task, Step, Ledger

(* send_and_confirm_bulk_transactions, run against any endpoint, behaves  *)
(* as ConfirmTracker says, for every batch size, signature set and round   *)
(* budget: the batch is submitted once, every Success carries the          *)
(* confirmed level the endpoint showed and is never revised, Timeouts are  *)
(* given only when the call returns, and nothing changes after it has      *)
(* returned or failed.                                                     *)
THEOREM Refinement == Spec => TrackerSpec
<1>1. Init => Tracker!Init
  <2> SUFFICES ASSUME Init PROVE Tracker!Init
    OBVIOUS
  <2>1. SentSigs = {}
    BY DEF Init, SentSigs, SentOk
  <2>2. Track = [s \in Sigs |-> Tracker!Untracked]
    BY DEF Init, Track, Absent, Tracker!Untracked
  <2>3. QED
    BY <2>1, <2>2 DEF Init, Tracker!Init, Verdict
<1>2. QED
  BY <1>1, IInvariant, RefineStep, PTL DEF Spec, TrackerSpec, Tracker!Spec
-----------------------------------------------------------------------------
(***************************************************************************)
(* Totality.  Two more facts carry it: a result_status_map entry is       *)
(* absent or a Success, except for the Timeouts the final fold writes,    *)
(* which it writes only when the loop stopped at the round cap; and once  *)
(* the call has returned, each result is its own signature's entry.       *)
(***************************************************************************)
RecordKinds ==
    \A s \in Sigs : \/ rmap[s] = Absent
                    \/ rmap[s].kind = "success"
                    \/ rmap[s] = Timeout /\ phase = "done" /\ iteration = MaxIter

DoneResults == phase = "done" => \A t \in Txs : result[t] = rmap[Sig[t]]

TInv == IInv /\ RecordKinds /\ DoneResults

(* A step that leaves the map, the counter and the results alone, and    *)
(* neither enters nor leaves "done", keeps both facts.                    *)
LEMMA QuietTaskStep ==
    ASSUME TInv, IInv', UNCHANGED <<rmap, iteration, result>>,
           phase' = phase \/ (phase # "done" /\ phase' # "done")
    PROVE  TInv'
BY DEF TInv, RecordKinds, DoneResults

(* A round that resolves the signatures of moved and keeps polling. *)
LEMMA KeepPollingStep ==
    ASSUME TInv, IInv', phase = "poll", phase' = "poll", UNCHANGED result,
           NEW moved, rmap' = [s \in Sigs |-> IF s \in moved THEN Success(ledger[s]) ELSE rmap[s]]
    PROVE  TInv'
<1>1. \A s \in Sigs : rmap[s] = Absent \/ rmap[s].kind = "success"
  BY DEF TInv, RecordKinds
<1>2. RecordKinds'
  BY <1>1 DEF RecordKinds, Success
<1>3. QED
  BY <1>2 DEF TInv, DoneResults

LEMMA TInvStep == TInv /\ [Next]_vars => TInv'
<1> SUFFICES ASSUME TInv, [Next]_vars PROVE TInv'
  OBVIOUS
<1>0. IInv'
  BY IInvStep DEF TInv
<1>1. CASE AlignTimeout \/ AlignRpcError \/ StatusError \/ AlignObserve \/ Send
  <2>1. UNCHANGED <<rmap, iteration, result>> /\ phase # "done" /\ phase' # "done"
    BY <1>1 DEF AlignTimeout, AlignRpcError, StatusError, AlignObserve, Send
  <2>2. QED
    BY <1>0, <2>1, QuietTaskStep
<1>2. CASE Returned \/ UNCHANGED vars \/ Ledger
  <2>1. UNCHANGED <<rmap, iteration, result, phase>>
    BY <1>2 DEF Returned, vars, Ledger, Tick, Land, Confirm, Finalize, DropFork, taskVars
  <2>2. QED
    BY <1>0, <2>1, QuietTaskStep
<1>3. CASE RoundInterrupted
  <2>1. PICK moved \in SUBSET ConfirmedNow : Resolve(moved)
    BY <1>3 DEF RoundInterrupted
  <2>2. QED
    BY <1>0, <1>3, <2>1, KeepPollingStep DEF RoundInterrupted, Resolve
<1>4. CASE RoundComplete
  <2> DEFINE rm   == [s \in Sigs |-> IF s \in ConfirmedNow THEN Success(ledger[s]) ELSE rmap[s]]
             rest == pending \ ConfirmedNow
             final == [s \in Sigs |-> IF s \in rest THEN Timeout ELSE rm[s]]
  <2>1. phase = "poll"
    BY <1>4 DEF RoundComplete
  <2>2. CASE ~(rest = {} \/ iteration = MaxIter)
    <3>1. rmap' = rm /\ phase' = "poll" /\ UNCHANGED result
      BY <1>4, <2>2 DEF RoundComplete
    <3>2. QED
      BY <1>0, <2>1, <3>1, KeepPollingStep
  <2>3. CASE rest = {} \/ iteration = MaxIter
    <3>1. /\ rmap' = final /\ phase' = "done" /\ iteration' = iteration
          /\ result' = [t \in Txs |-> IF outcome[t] = "ok" THEN final[Sig[t]] ELSE SendError]
      BY <1>4, <2>3 DEF RoundComplete, Finish
    <3>2. \A t \in Txs : outcome[t] = "ok"
      BY <2>1 DEF TInv, IInv, Tracked, SentOk
    <3>3. DoneResults'
      BY <3>1, <3>2, SigAssumption DEF DoneResults, Txs
    <3>4. \A s \in Sigs : rmap[s] = Absent \/ rmap[s].kind = "success"
      BY <2>1 DEF TInv, RecordKinds
    <3>5. RecordKinds'
      <4> SUFFICES ASSUME NEW s \in Sigs
                   PROVE  \/ final[s] = Absent
                          \/ final[s].kind = "success"
                          \/ final[s] = Timeout /\ iteration = MaxIter
        BY <3>1 DEF RecordKinds
      <4>1. CASE s \in rest
        BY <2>3, <4>1
      <4>2. CASE s \notin rest
        BY <3>4, <4>2 DEF Success
      <4>3. QED
        BY <4>1, <4>2
    <3>6. QED
      BY <1>0, <3>3, <3>5 DEF TInv
  <2>4. QED
    BY <2>2, <2>3
<1>5. QED
  BY <1>1, <1>2, <1>3, <1>4 DEF Next, Task, Step

(* The final zip of send_and_confirm_bulk_transactions (lines 184-215),   *)
(* for every batch size, signature set and round budget: when the call    *)
(* returns its list, nothing is left pending, each transaction's entry is *)
(* its own signature's record (the expect() never fires), every entry is  *)
(* a Success or a Timeout, and a Timeout only after MaxIter rounds.       *)
THEOREM TotalityHolds == Spec => []Totality
<1>1. Init => TInv
  BY RecordsTyped DEF Init, TInv, IInv, TypeOK, Txs, Levels, Phases, BeforeSend, Unsent,
                      NoRecords, Tracked, DoneEmpty, SuccessIsConfirmed, Absent,
                      RecordKinds, DoneResults
<1>2. TInv => Totality
  <2> SUFFICES ASSUME TInv, phase = "done", NEW t \in Txs
               PROVE  /\ result[t] = rmap[Sig[t]]
                      /\ result[t].kind \in {"success", "timeout"}
                      /\ result[t].kind = "timeout" => iteration = MaxIter
    BY DEF Totality, TInv, IInv, DoneEmpty
  <2>1. result[t] = rmap[Sig[t]]
    BY DEF TInv, DoneResults
  <2>2. Sig[t] \in Sigs /\ Sig[t] \in Resolved
    BY SigAssumption DEF TInv, IInv, Tracked, DoneEmpty, AllSigs, Txs
  <2>3. rmap[Sig[t]] # Absent
    BY <2>2 DEF Resolved
  <2>4. QED
    BY <2>1, <2>2, <2>3 DEF TInv, RecordKinds, Timeout
<1>3. QED
  BY <1>1, <1>2, TInvStep, PTL DEF Spec

(* The Success half of Safety on its own: a Success record is confirmed  *)
(* and the ledger never falls below it (lines 142-152).                   *)
THEOREM SuccessConfirmed == Spec => []SuccessIsConfirmed
BY Safety, PTL
=============================================================================
