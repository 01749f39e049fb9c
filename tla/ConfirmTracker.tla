--------------------------- MODULE ConfirmTracker ---------------------------
(***************************************************************************)
(* What a batch send-and-confirm promises, per signature and without       *)
(* rounds, slots or polling: the batch is submitted once; while it runs, a *)
(* tracked signature is resolved as a Success only when the ledger shows   *)
(* it confirmed, at the level the ledger shows; the call ends either by    *)
(* failing or by turning every signature still tracked into a Timeout.     *)
(* The ledger moves each accepted signature forward through processed,     *)
(* confirmed and finalized, and may drop a processed one.  BulkConfirm     *)
(* implements this specification.                                         *)
(***************************************************************************)
EXTENDS Naturals

CONSTANTS
    Sigs,       \* the signatures the ledger knows
    Batch       \* the signatures of the batch

Levels == {"none", "processed", "confirmed", "finalized"}
Confirmed == {"confirmed", "finalized"}

(* A signature's standing: absent (not tracked or not resolved), pending,  *)
(* success at a level, or timeout.                                         *)
Standings == [kind : {"absent", "pending", "success", "timeout"}, level : Levels]
Untracked == [kind |-> "absent", level |-> "none"]
Tracked == [kind |-> "pending", level |-> "none"]
Expired == [kind |-> "timeout", level |-> "none"]

VARIABLES
    ledger,     \* ledger[s]: the status the cluster holds for s
    accepted,   \* the signatures the endpoint accepted
    track,      \* track[s]: the standing of s
    verdict     \* "running" | "done" | "failed"

vars == <<ledger, accepted, track, verdict>>

Init ==
    /\ ledger = [s \in Sigs |-> "none"]
    /\ accepted = {}
    /\ track = [s \in Sigs |-> Untracked]
    /\ verdict = "running"

(* The one legal move of a status, by a ledger that only knows accepted   *)
(* signatures.                                                             *)
Moves(s, from, to) ==
    \/ from = "none" /\ to = "processed" /\ s \in accepted
    \/ from = "processed" /\ to \in {"confirmed", "none"}
    \/ from = "confirmed" /\ to = "finalized"

LedgerStep ==
    /\ \E s \in Sigs, to \in Levels :
          /\ Moves(s, ledger[s], to)
          /\ ledger' = [ledger EXCEPT ![s] = to]
    /\ UNCHANGED <<accepted, track, verdict>>

(* The batch is handed to the endpoint once; unless all of it is accepted *)
(* and nothing else fails, the call fails, else every signature is tracked. *)
Submit ==
    /\ verdict = "running"
    /\ accepted = {} /\ \A s \in Sigs : track[s] = Untracked
    /\ \E A \in SUBSET Batch :
          /\ accepted' = A
          /\ \/ verdict' = "failed" /\ UNCHANGED track
             \/ /\ A = Batch
                /\ track' = [s \in Sigs |-> IF s \in Batch THEN Tracked ELSE track[s]]
                /\ UNCHANGED verdict
    /\ UNCHANGED ledger

(* The signatures of S are resolved at the level the ledger shows them. *)
Resolved(S) ==
    [s \in Sigs |-> IF s \in S THEN [kind |-> "success", level |-> ledger[s]] ELSE track[s]]

ResolvableNow == {s \in Sigs : track[s] = Tracked /\ ledger[s] \in Confirmed}

Resolve ==
    /\ verdict = "running"
    /\ \E S \in SUBSET ResolvableNow : track' = Resolved(S)
    /\ UNCHANGED <<ledger, accepted, verdict>>

(* The call returns: some last confirmed signatures are resolved, the rest *)
(* still tracked time out.                                                 *)
Close ==
    /\ verdict = "running"
    /\ \E S \in SUBSET ResolvableNow :
          track' = [s \in Sigs |-> IF track[s] = Tracked /\ s \notin S
                                     THEN Expired ELSE Resolved(S)[s]]
    /\ verdict' = "done"
    /\ UNCHANGED <<ledger, accepted>>

Fail ==
    /\ verdict = "running"
    /\ verdict' = "failed"
    /\ UNCHANGED <<ledger, accepted, track>>

Next == LedgerStep \/ Submit \/ Resolve \/ Close \/ Fail

Spec == Init /\ [][Next]_vars
=============================================================================
