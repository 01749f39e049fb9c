---------------------------- MODULE BulkConfirm ----------------------------
(***************************************************************************)
(* send_and_confirm_bulk_transactions and poll_next_slot_start of          *)
(* src/bench/src/benches/rpc_interface.rs: one task aligns on a slot       *)
(* start, sends a batch of transactions, and polls getSignatureStatuses    *)
(* until every signature is confirmed or the round budget is spent.  The   *)
(* endpoint's ledger is the environment: it advances its slot and moves    *)
(* each landed signature through processed, confirmed and finalized, and   *)
(* may drop a processed one with its fork.  Wall-clock time (the sleeps    *)
(* between rounds, the elapsed durations in the records) is abstracted     *)
(* away: every await is a point where the ledger may take steps.           *)
(***************************************************************************)
EXTENDS Naturals, FiniteSets

CONSTANTS
    N,          \* txs.len(): number of transactions in the batch
    Sigs,       \* the signatures
    Sig,        \* Sig[t]: signature of txs[t]
    MaxIter,    \* round cap of the polling loop (100 in the code)
    MaxAlign,   \* iteration cap of poll_next_slot_start (500 in the code)
    MaxSlot,    \* bound on the endpoint's slot counter
    MaxDrops    \* bound on how often one transaction's fork is abandoned

ASSUME NAssumption == N \in Nat \ {0}
ASSUME SigAssumption == Sig \in [1..N -> Sigs]
\* Signatures are content-derived, so distinct transactions have distinct ones.
ASSUME SigUnique == \A t, u \in 1..N : Sig[t] = Sig[u] => t = u
ASSUME MaxIterAssumption == MaxIter \in Nat \ {0}
ASSUME MaxAlignAssumption == MaxAlign \in Nat \ {0}
ASSUME MaxSlotAssumption == MaxSlot \in Nat
ASSUME MaxDropsAssumption == MaxDrops \in Nat

VARIABLES
    slot,       \* the endpoint's current slot at confirmed commitment
    ledger,     \* ledger[s]: the status the endpoint reports for s
    drops,      \* drops[s]: how often s's block was abandoned
    phase,      \* where the task is in send_and_confirm_bulk_transactions
    lastSlot,   \* poll_next_slot_start's last_slot (<<>> is None)
    ai,         \* poll_next_slot_start's loop counter i
    sendSlot,   \* send_slot returned by poll_next_slot_start
    outcome,    \* batch_sigs_or_fails: outcome[t] of sending txs[t]
    pending,    \* pending_status_set
    rmap,       \* result_status_map (rmap[s] = Absent: no entry)
    iteration,  \* the polling loop's iteration
    result      \* result_as_vec, returned when phase = "done"

ledgerVars == <<slot, ledger, drops>>
taskVars == <<phase, lastSlot, ai, sendSlot, outcome, pending, rmap, iteration, result>>
vars == <<ledgerVars, taskVars>>

Txs == 1..N

(* Statuses of getSignatureStatuses; "none" is a None entry. *)
Levels == {"none", "processed", "confirmed", "finalized"}

(* Seeded bug: a processed status is taken as confirmed. *)
ConfirmedWithProcessed == {"processed", "confirmed", "finalized"}

(* tx_status.satisfies_commitment(CommitmentConfig::confirmed()) *)
Confirmed == {"confirmed", "finalized"}

Rank(l) == CASE l = "none" -> 0 [] l = "processed" -> 1
             [] l = "confirmed" -> 2 [] l = "finalized" -> 3

(* ConfirmationResponseFromRpc; the durations and slots it carries are     *)
(* abstracted away, the confirmation status is kept.                       *)
Records == [kind : {"absent", "success", "timeout", "send_error"}, level : Levels]
Absent == [kind |-> "absent", level |-> "none"]
Success(l) == [kind |-> "success", level |-> l]
Timeout == [kind |-> "timeout", level |-> "none"]
SendError == [kind |-> "send_error", level |-> "none"]

Phases == {"align", "send", "poll", "done",
           "failed_align", "failed_rpc", "failed_send", "failed_status"}
Terminal == Phases \ {"align", "send", "poll"}

SentOk == {t \in Txs : outcome[t] = "ok"}
SentSigs == {Sig[t] : t \in SentOk}
Resolved == {s \in Sigs : rmap[s] # Absent}

-----------------------------------------------------------------------------
Init ==
    /\ slot \in 0..MaxSlot
    /\ ledger = [s \in Sigs |-> "none"]
    /\ drops = [s \in Sigs |-> 0]
    /\ phase = "align"
    /\ lastSlot = <<>>
    /\ ai = 1
    /\ sendSlot = 0
    /\ outcome = [t \in Txs |-> "unsent"]
    /\ pending = {}
    /\ rmap = [s \in Sigs |-> Absent]
    /\ iteration = 1
    /\ result = [t \in Txs |-> Absent]

(***************************************************************************)
(* The endpoint.  Only a transaction the endpoint accepted can land.       *)
(***************************************************************************)
Tick ==
    /\ \E next \in {slot + 1, slot + 2} \cap 0..MaxSlot : slot' = next
    /\ UNCHANGED <<ledger, drops, taskVars>>

Land(s) ==
    /\ ledger[s] = "none"
    /\ \E t \in SentOk : Sig[t] = s
    /\ ledger' = [ledger EXCEPT ![s] = "processed"]
    /\ UNCHANGED <<slot, drops, taskVars>>

Confirm(s) ==
    /\ ledger[s] = "processed"
    /\ ledger' = [ledger EXCEPT ![s] = "confirmed"]
    /\ UNCHANGED <<slot, drops, taskVars>>

Finalize(s) ==
    /\ ledger[s] = "confirmed"
    /\ ledger' = [ledger EXCEPT ![s] = "finalized"]
    /\ UNCHANGED <<slot, drops, taskVars>>

DropFork(s) ==
    /\ ledger[s] = "processed"
    /\ drops[s] < MaxDrops
    /\ ledger' = [ledger EXCEPT ![s] = "none"]
    /\ drops' = [drops EXCEPT ![s] = @ + 1]
    /\ UNCHANGED <<slot, taskVars>>

(* A processed block is eventually either confirmed or abandoned. *)
LeaveProcessed(s) == Confirm(s) \/ DropFork(s)

Ledger == Tick \/ \E s \in Sigs : Land(s) \/ Confirm(s) \/ Finalize(s) \/ DropFork(s)

-----------------------------------------------------------------------------
(***************************************************************************)
(* poll_next_slot_start: poll the slot until two consecutive observations  *)
(* differ by exactly one, or bail after MaxAlign iterations.               *)
(***************************************************************************)
AlignTimeout ==
    /\ phase = "align"
    /\ ai > MaxAlign
    /\ phase' = "failed_align"
    /\ UNCHANGED <<ledgerVars, lastSlot, ai, sendSlot, outcome, pending, rmap, iteration, result>>

(* get_slot_with_commitment returned slot; break on a clean +1 step. *)
AlignObserve ==
    /\ phase = "align"
    /\ ai <= MaxAlign
    /\ IF lastSlot # <<>> /\ lastSlot[1] + 1 = slot
         THEN /\ sendSlot' = slot
              /\ phase' = "send"
              /\ UNCHANGED <<lastSlot, ai>>
         ELSE /\ lastSlot' = <<slot>>
              /\ ai' = ai + 1
              /\ UNCHANGED <<sendSlot, phase>>
    /\ UNCHANGED <<ledgerVars, outcome, pending, rmap, iteration, result>>

(* get_slot_with_commitment failed: the error is returned by ?. *)
AlignRpcError ==
    /\ phase = "align"
    /\ ai <= MaxAlign
    /\ phase' = "failed_rpc"
    /\ UNCHANGED <<ledgerVars, lastSlot, ai, sendSlot, outcome, pending, rmap, iteration, result>>

(***************************************************************************)
(* Send the batch with join_all, read the slot, bail if any send failed,   *)
(* and fill pending_status_set with the accepted signatures.               *)
(***************************************************************************)
Send ==
    /\ phase = "send"
    /\ \E out \in [Txs -> {"ok", "err"}] :
         /\ outcome' = out
         /\ \/ phase' = "failed_rpc"                  \* after_send_slot failed
               /\ UNCHANGED pending
            \/ /\ \E t \in Txs : out[t] = "err"
               /\ phase' = "failed_send"
               /\ UNCHANGED pending
            \/ /\ \A t \in Txs : out[t] = "ok"
               /\ phase' = "poll"
               /\ pending' = {Sig[t] : t \in Txs}
    /\ UNCHANGED <<ledgerVars, lastSlot, ai, sendSlot, rmap, iteration, result>>

(***************************************************************************)
(* The polling loop.  Each round asks for the statuses of the whole        *)
(* pending set in one call.  The assert_eq! at the top of each round is    *)
(* the invariant NoConsistencyFault below.                                 *)
(***************************************************************************)

(* Seeded bug: the entry is copied to the map but stays pending. *)
ResolveCopy(moved) ==
    /\ pending' = pending
    /\ rmap' = [s \in Sigs |-> IF s \in moved THEN Success(ledger[s]) ELSE rmap[s]]

(* Seeded bug: the record carries the requested commitment, not the       *)
(* status the endpoint reported.                                           *)
ResolveFixedLevel(moved) ==
    /\ pending' = pending \ moved
    /\ rmap' = [s \in Sigs |-> IF s \in moved THEN Success("confirmed") ELSE rmap[s]]

(* Move the signatures in moved to result_status_map as Success records. *)
Resolve(moved) ==
    /\ pending' = pending \ moved
    /\ rmap' = [s \in Sigs |-> IF s \in moved THEN Success(ledger[s]) ELSE rmap[s]]

(* get_signature_statuses failed: the error is returned by ?. *)
StatusError ==
    /\ phase = "poll"
    /\ phase' = "failed_status"
    /\ UNCHANGED <<ledgerVars, lastSlot, ai, sendSlot, outcome, pending, rmap, iteration, result>>

Processed == {s \in pending : ledger[s] # "none" /\ ledger[s] \notin Confirmed}
ConfirmedNow == {s \in pending : ledger[s] \in Confirmed}

(* A status below confirmed hits "continue 'pooling_loop": the rest of the *)
(* batch is skipped and the loop restarts without the termination checks, *)
(* without iteration += 1 and without the sleep.  The batch is iterated in *)
(* HashSet order, so any subset of the confirmed signatures can come       *)
(* before the first processed one and be resolved.                         *)
RoundInterrupted ==
    /\ phase = "poll"
    /\ Processed # {}
    /\ \E moved \in SUBSET ConfirmedNow : Resolve(moved)
    /\ UNCHANGED <<ledgerVars, phase, lastSlot, ai, sendSlot, outcome, iteration, result>>

(* Seeded bug: the result list is zipped before the timeouts are folded in. *)
FinishBeforeFold(rm, rest) ==
    LET final == [s \in Sigs |-> IF s \in rest THEN Timeout ELSE rm[s]]
    IN  /\ pending' = {}
        /\ rmap' = final
        /\ phase' = "done"
        /\ result' = [t \in Txs |-> IF outcome[t] = "ok" THEN rm[Sig[t]] ELSE SendError]

(* After the loop: every signature still pending becomes a Timeout, then   *)
(* the outcomes are zipped with the transactions in their original order.  *)
(* The expect() on a sent signature missing from the map is the invariant  *)
(* Totality below: such an entry would show up as Absent in the result.    *)
Finish(rm, rest) ==
    LET final == [s \in Sigs |-> IF s \in rest THEN Timeout ELSE rm[s]]
    IN  /\ pending' = {}
        /\ rmap' = final
        /\ phase' = "done"
        /\ result' = [t \in Txs |-> IF outcome[t] = "ok" THEN final[Sig[t]] ELSE SendError]

(* Seeded bugs: the loop without its round cap, and without iteration += 1. *)
RoundCompleteNoCap ==
    /\ phase = "poll"
    /\ Processed = {}
    /\ LET rm   == [s \in Sigs |-> IF s \in ConfirmedNow THEN Success(ledger[s]) ELSE rmap[s]]
           rest == pending \ ConfirmedNow
       IN  IF rest = {}
             THEN Finish(rm, rest) /\ UNCHANGED iteration
             ELSE /\ pending' = rest
                  /\ rmap' = rm
                  /\ iteration' = iteration + 1
                  /\ UNCHANGED <<phase, result>>
    /\ UNCHANGED <<ledgerVars, lastSlot, ai, sendSlot, outcome>>

RoundCompleteNoIncrement ==
    /\ phase = "poll"
    /\ Processed = {}
    /\ LET rm   == [s \in Sigs |-> IF s \in ConfirmedNow THEN Success(ledger[s]) ELSE rmap[s]]
           rest == pending \ ConfirmedNow
       IN  IF rest = {} \/ iteration = MaxIter
             THEN Finish(rm, rest) /\ UNCHANGED iteration
             ELSE /\ pending' = rest
                  /\ rmap' = rm
                  /\ UNCHANGED <<phase, result, iteration>>
    /\ UNCHANGED <<ledgerVars, lastSlot, ai, sendSlot, outcome>>

(* Every status is None or confirmed: resolve the confirmed ones, then     *)
(* stop when none is left or the round cap is reached, else go on.         *)
RoundComplete ==
    /\ phase = "poll"
    /\ Processed = {}
    /\ LET rm   == [s \in Sigs |-> IF s \in ConfirmedNow THEN Success(ledger[s]) ELSE rmap[s]]
           rest == pending \ ConfirmedNow
       IN  IF rest = {} \/ iteration = MaxIter
             THEN Finish(rm, rest) /\ UNCHANGED iteration
             ELSE /\ pending' = rest
                  /\ rmap' = rm
                  /\ iteration' = iteration + 1
                  /\ UNCHANGED <<phase, result>>
    /\ UNCHANGED <<ledgerVars, lastSlot, ai, sendSlot, outcome>>

(* The function has returned; the endpoint may go on. *)
Returned ==
    /\ phase \in Terminal
    /\ UNCHANGED vars

-----------------------------------------------------------------------------
(* The task's own steps, without the RPC errors it may meet. *)
Step == AlignTimeout \/ AlignObserve \/ Send \/ RoundInterrupted \/ RoundComplete

Task == Step \/ AlignRpcError \/ StatusError

Next == Task \/ Ledger \/ Returned

Spec == Init /\ [][Next]_vars

(* The task runs until it returns; no RPC error is forced to happen. *)
TaskFairSpec == Spec /\ WF_vars(Step)

(* In addition, the cluster eventually confirms or abandons every block. *)
FairSpec == TaskFairSpec /\ \A s \in Sigs : WF_vars(LeaveProcessed(s))

-----------------------------------------------------------------------------
TypeOK ==
    /\ slot \in 0..MaxSlot
    /\ ledger \in [Sigs -> Levels]
    /\ drops \in [Sigs -> 0..MaxDrops]
    /\ phase \in Phases
    /\ lastSlot \in {<<>>} \cup {<<x>> : x \in 0..MaxSlot}
    /\ ai \in 1..(MaxAlign + 1)
    /\ sendSlot \in 0..MaxSlot
    /\ outcome \in [Txs -> {"unsent", "ok", "err"}]
    /\ pending \subseteq Sigs
    /\ rmap \in [Sigs -> Records]
    /\ iteration \in 1..MaxIter
    /\ result \in [Txs -> Records]

(* The ConsistencyFault of the spec never happens: the assert_eq! at the   *)
(* top of every round, |pending_status_set| + |result_status_map| =        *)
(* num_sent_ok, holds whatever the endpoint reports between rounds.        *)
NoConsistencyFault ==
    phase = "poll" =>
        Cardinality(pending) + Cardinality(Resolved) = Cardinality(SentOk)

(* A Success record is only written for a status that satisfied the       *)
(* confirmed commitment, and the ledger never falls below the level the    *)
(* record reports: a resolved transaction is never rolled back.            *)
SuccessIsConfirmed ==
    \A s \in Sigs : rmap[s].kind = "success" =>
        /\ rmap[s].level \in Confirmed
        /\ Rank(rmap[s].level) <= Rank(ledger[s])

(* When the batch call returns its list, every transaction has exactly one *)
(* terminal classification, taken from its own signature's entry (so the   *)
(* expect() of the final zip never panics), and a Timeout is only reported *)
(* once the whole round budget was spent.                                  *)
Totality ==
    phase = "done" =>
        /\ pending = {}
        /\ \A t \in Txs : /\ result[t] = rmap[Sig[t]]
                          /\ result[t].kind \in {"success", "timeout"}
                          /\ result[t].kind = "timeout" => iteration = MaxIter

(* The batch call returns: the polling loop stops after at most MaxIter    *)
(* rounds, provided the cluster does not keep a transaction at processed   *)
(* forever (FairSpec); without that, bulk_stall shows the loop spinning.   *)
Termination == <>(phase \in Terminal)

(* Spec section 7: a failed status query during polling is retried in the  *)
(* next round; only send failures, slot-detection timeouts and consistency *)
(* faults fail the batch.  Here: get_signature_statuses never ends the task. *)
StatusErrorsRetried == phase # "failed_status"
-----------------------------------------------------------------------------
(***************************************************************************)
(* Refinement: the batch task implements ConfirmTracker.  A signature's   *)
(* standing is pending while it is in pending_status_set, else its entry  *)
(* of result_status_map; the verdict is read off the phase; the accepted  *)
(* signatures are those whose send succeeded.                              *)
(***************************************************************************)
Track == [s \in Sigs |-> IF s \in pending THEN [kind |-> "pending", level |-> "none"]
                                          ELSE rmap[s]]

Verdict == CASE phase \in {"align", "send", "poll"} -> "running"
             [] phase = "done"                       -> "done"
             [] OTHER                                -> "failed"

Tracker == INSTANCE ConfirmTracker
               WITH Batch <- {Sig[t] : t \in Txs}, accepted <- SentSigs,
                    track <- Track, verdict <- Verdict

(* Every step of send_and_confirm_bulk_transactions and of the endpoint is *)
(* a step of the tracker or leaves it unchanged: the batch is submitted    *)
(* once, a Success carries the confirmed level the endpoint showed when it *)
(* was recorded and is never changed, Timeouts are only given when the     *)
(* call returns, and nothing changes after it has returned or failed.      *)
TrackerSpec == Tracker!Spec
=============================================================================
