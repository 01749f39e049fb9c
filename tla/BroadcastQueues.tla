-------------------------- MODULE BroadcastQueues --------------------------
(***************************************************************************)
(* What the fan-out of grpc_stream_utils.rs promises its receivers,        *)
(* without the shared ring buffer: every subscribed receiver has a queue   *)
(* of its own.  Each message the task takes from the source is appended    *)
(* to the queue of every subscribed receiver, or dropped when there is     *)
(* none.  A receiver reads its queue in order; when more than Cap messages *)
(* wait in it, its next read reports all but the newest Cap as lost        *)
(* (Lagged).  A drained queue reads Closed once the task has ended, and    *)
(* the task ends only on a closed, drained source or an abort.             *)
(* StreamPlugger implements this specification.                           *)
(***************************************************************************)
EXTENDS Naturals, Sequences

CONSTANTS Receivers, FirstRx, NMsg, Cap, UpCap, Kinds

VARIABLES
    kind, produced, closed, taken, task,
    sub,        \* sub[r]: "idle" | "active" | "closed" | "gone"
    queue,      \* queue[r]: the messages r has yet to read, oldest first
    since, got, lost, dropped

vars == <<kind, produced, closed, taken, task, sub, queue, since, got, lost, dropped>>

Subscribed == {r \in Receivers : sub[r] = "active"}

(* The set of the entries of a sequence. *)
Entries(q) == {q[k] : k \in 1..Len(q)}

Init ==
    /\ kind \in Kinds
    /\ produced = 0 /\ closed = FALSE /\ taken = 0 /\ task = "running"
    /\ sub = [r \in Receivers |->
                 IF kind = "channelize" /\ r = FirstRx THEN "active" ELSE "idle"]
    /\ queue = [r \in Receivers |-> <<>>]
    /\ since = [r \in Receivers |-> 0]
    /\ got = [r \in Receivers |-> {}]
    /\ lost = [r \in Receivers |-> {}]
    /\ dropped = {}

Produce ==
    /\ ~closed /\ produced < NMsg /\ produced - taken < UpCap
    /\ produced' = produced + 1
    /\ UNCHANGED <<kind, closed, taken, task, sub, queue, since, got, lost, dropped>>

CloseSource ==
    /\ ~closed
    /\ closed' = TRUE
    /\ UNCHANGED <<kind, produced, taken, task, sub, queue, since, got, lost, dropped>>

(* The next message goes to every subscribed receiver, or nowhere. *)
Forward ==
    /\ task = "running" /\ taken < produced
    /\ taken' = taken + 1
    /\ IF Subscribed # {}
         THEN /\ queue' = [r \in Receivers |->
                              IF r \in Subscribed THEN Append(queue[r], taken + 1)
                                                  ELSE queue[r]]
              /\ UNCHANGED dropped
         ELSE dropped' = dropped \cup {taken + 1} /\ UNCHANGED queue
    /\ UNCHANGED <<kind, produced, closed, task, sub, since, got, lost>>

Stop ==
    /\ task = "running" /\ closed /\ taken = produced
    /\ task' = "stopped"
    /\ UNCHANGED <<kind, produced, closed, taken, sub, queue, since, got, lost, dropped>>

Abort ==
    /\ kind = "channelize" /\ task = "running"
    /\ task' = "aborted"
    /\ UNCHANGED <<kind, produced, closed, taken, sub, queue, since, got, lost, dropped>>

Subscribe(r) ==
    /\ task = "running" /\ sub[r] = "idle"
    /\ sub' = [sub EXCEPT ![r] = "active"]
    /\ queue' = [queue EXCEPT ![r] = <<>>]
    /\ since' = [since EXCEPT ![r] = taken]
    /\ UNCHANGED <<kind, produced, closed, taken, task, got, lost, dropped>>

(* A read: Lagged, losing all but the newest Cap, or the oldest message. *)
Recv(r) ==
    /\ sub[r] = "active" /\ queue[r] # <<>>
    /\ LET q == queue[r]
           n == Len(q)
       IN  IF n > Cap
             THEN /\ lost' = [lost EXCEPT ![r] = @ \cup Entries(SubSeq(q, 1, n - Cap))]
                  /\ queue' = [queue EXCEPT ![r] = SubSeq(q, n - Cap + 1, n)]
                  /\ UNCHANGED got
             ELSE /\ got' = [got EXCEPT ![r] = @ \cup {Head(q)}]
                  /\ queue' = [queue EXCEPT ![r] = Tail(q)]
                  /\ UNCHANGED lost
    /\ UNCHANGED <<kind, produced, closed, taken, task, sub, since, dropped>>

RecvClosed(r) ==
    /\ sub[r] = "active" /\ queue[r] = <<>> /\ task # "running"
    /\ sub' = [sub EXCEPT ![r] = "closed"]
    /\ UNCHANGED <<kind, produced, closed, taken, task, queue, since, got, lost, dropped>>

DropRx(r) ==
    /\ sub[r] = "active"
    /\ sub' = [sub EXCEPT ![r] = "gone"]
    /\ queue' = [queue EXCEPT ![r] = <<>>]
    /\ UNCHANGED <<kind, produced, closed, taken, task, since, got, lost, dropped>>

Next ==
    \/ Produce \/ CloseSource \/ Forward \/ Stop \/ Abort
    \/ \E r \in Receivers : Subscribe(r) \/ Recv(r) \/ RecvClosed(r) \/ DropRx(r)

Spec == Init /\ [][Next]_vars
=============================================================================
