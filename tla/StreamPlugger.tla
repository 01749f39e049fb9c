--------------------------- MODULE StreamPlugger ---------------------------
(***************************************************************************)
(* The fan-out tasks of cluster-endpoints/src/grpc_stream_utils.rs:        *)
(* spawn_plugger_mpcs_to_broadcast and channelize_stream.  One task moves  *)
(* messages from a source (an mpsc receiver or a gRPC stream) into a       *)
(* tokio broadcast channel of capacity Cap; receivers subscribe, read at   *)
(* their own pace, lag, drop out, and see the channel close when the task  *)
(* ends.                                                                   *)
(*                                                                         *)
(* The broadcast channel is the library's documented behaviour, kept as    *)
(* environment: send fails when no receiver is alive; a new receiver      *)
(* starts at the tail; a receiver more than Cap positions behind gets      *)
(* Lagged and jumps to the oldest retained message; after the sender is    *)
(* dropped a drained receiver gets Closed.  The channel is the history    *)
(* log of every message sent, each receiver a cursor into it.              *)
(***************************************************************************)
EXTENDS Naturals, Sequences, FiniteSets

CONSTANTS
    Receivers,  \* receiver handles
    FirstRx,    \* output_rx, the receiver channelize_stream returns
    NMsg,       \* messages the source yields at most
    Cap,        \* broadcast_channel_capacity
    UpCap,      \* buffer of the upstream mpsc channel
    Kinds       \* the tasks to check: "plugger" (spawn_plugger_mpcs_to_broadcast)
                \* and/or "channelize" (channelize_stream)

ASSUME ReceiversAssumption == Receivers # {} /\ FirstRx \in Receivers
ASSUME NMsgAssumption == NMsg \in Nat
ASSUME CapAssumption == Cap \in Nat \ {0}
ASSUME UpCapAssumption == UpCap \in Nat \ {0}
ASSUME KindsAssumption == Kinds # {} /\ Kinds \subseteq {"plugger", "channelize"}

VARIABLES
    kind,       \* which of the two tasks runs
    produced,   \* messages 1..produced were put into the source
    closed,     \* the source's sender is dropped / the stream has ended
    taken,      \* messages 1..taken were taken from the source by the task
    task,       \* "running" | "stopped" | "aborted"
    log,        \* every message sent into the broadcast channel, in order
    rx,         \* rx[r]: state and read position of receiver r
    since,      \* since[r]: taken when r subscribed
    got,        \* got[r]: the messages r received
    lost,       \* lost[r]: the messages r skipped with a Lagged error
    dropped     \* the messages the task discarded on SendError

vars == <<kind, produced, closed, taken, task, log, rx, since, got, lost, dropped>>

RxStates == {"idle", "active", "closed", "gone"}

(* Receivers that count for send: subscribed and not dropped. *)
Alive == {r \in Receivers : rx[r].state = "active"}

(* The oldest position the channel still holds. *)
Oldest == IF Len(log) > Cap THEN Len(log) - Cap + 1 ELSE 1

(* channel(capacity) returns output_rx at the start of the channel. *)
Init ==
    /\ kind \in Kinds
    /\ produced = 0
    /\ closed = FALSE
    /\ taken = 0
    /\ task = "running"
    /\ log = <<>>
    /\ rx = [r \in Receivers |->
                IF kind = "channelize" /\ r = FirstRx THEN [state |-> "active", next |-> 1]
                                             ELSE [state |-> "idle", next |-> 1]]
    /\ since = [r \in Receivers |-> 0]
    /\ got = [r \in Receivers |-> {}]
    /\ lost = [r \in Receivers |-> {}]
    /\ dropped = {}

-----------------------------------------------------------------------------
(* The producer side of the source. *)
Produce ==
    /\ ~closed
    /\ produced < NMsg
    /\ produced - taken < UpCap
    /\ produced' = produced + 1
    /\ UNCHANGED <<kind, closed, taken, task, log, rx, since, got, lost, dropped>>

CloseSource ==
    /\ ~closed
    /\ closed' = TRUE
    /\ UNCHANGED <<kind, produced, taken, task, log, rx, since, got, lost, dropped>>

-----------------------------------------------------------------------------
(* sender_tx.send(msg): into the channel behind every live receiver, or, *)
(* on SendError because no receiver is alive, skipped.                    *)
Broadcast(m) ==
    IF Alive # {}
      THEN log' = Append(log, m) /\ UNCHANGED dropped
      ELSE dropped' = dropped \cup {m} /\ UNCHANGED log

(* Seeded bug: the task does not wait for a message on the source. *)
ForwardNoWait ==
    /\ task = "running"
    /\ taken' = taken + 1
    /\ IF Alive # {}
         THEN log' = Append(log, taken + 1) /\ UNCHANGED dropped
         ELSE dropped' = dropped \cup {taken + 1} /\ UNCHANGED log
    /\ UNCHANGED <<kind, produced, closed, task, rx, since, got, lost>>

(* Seeded bug: the send is held back while the channel is full, so a slow *)
(* receiver pushes back on the source.                                     *)
ForwardWaitsForRoom ==
    /\ task = "running"
    /\ taken < produced
    /\ \A r \in Alive : Len(log) - rx[r].next + 1 < Cap
    /\ taken' = taken + 1
    /\ IF Alive # {}
         THEN log' = Append(log, taken + 1) /\ UNCHANGED dropped
         ELSE dropped' = dropped \cup {taken + 1} /\ UNCHANGED log
    /\ UNCHANGED <<kind, produced, closed, task, rx, since, got, lost>>

(* Seeded bug: the message is skipped when the channel is full. *)
ForwardSkipWhenFull ==
    /\ task = "running"
    /\ taken < produced
    /\ taken' = taken + 1
    /\ IF Alive # {} /\ \A r \in Alive : Len(log) - rx[r].next + 1 < Cap
         THEN log' = Append(log, taken + 1) /\ UNCHANGED dropped
         ELSE dropped' = dropped \cup {taken + 1} /\ UNCHANGED log
    /\ UNCHANGED <<kind, produced, closed, task, rx, since, got, lost>>

(* recv() / next() yields Some(msg): send it; on SendError (no receiver)  *)
(* skip it and continue 'main_loop.  The len() check only logs.           *)
Forward ==
    /\ task = "running"
    /\ taken < produced
    /\ taken' = taken + 1
    /\ Broadcast(taken + 1)
    /\ UNCHANGED <<kind, produced, closed, task, rx, since, got, lost>>

(* recv() / next() yields None: return, dropping the sender. *)
Stop ==
    /\ task = "running"
    /\ closed
    /\ taken = produced
    /\ task' = "stopped"
    /\ UNCHANGED <<kind, produced, closed, taken, log, rx, since, got, lost, dropped>>

(* The AbortHandle of channelize_stream cancels the task at its await. *)
Abort ==
    /\ kind = "channelize"
    /\ task = "running"
    /\ task' = "aborted"
    /\ UNCHANGED <<kind, produced, closed, taken, log, rx, since, got, lost, dropped>>

-----------------------------------------------------------------------------
(* A new receiver (subscribe / resubscribe) starts at the tail. *)
Subscribe(r) ==
    /\ task = "running"
    /\ rx[r].state = "idle"
    /\ rx' = [rx EXCEPT ![r] = [state |-> "active", next |-> Len(log) + 1]]
    /\ since' = [since EXCEPT ![r] = taken]
    /\ UNCHANGED <<kind, produced, closed, taken, task, log, got, lost, dropped>>

(* recv(): Lagged when overtaken, else the message at the cursor. *)
Recv(r) ==
    /\ rx[r].state = "active"
    /\ rx[r].next <= Len(log)
    /\ IF rx[r].next < Oldest
         THEN /\ lost' = [lost EXCEPT ![r] = @ \cup {log[k] : k \in rx[r].next..(Oldest - 1)}]
              /\ rx' = [rx EXCEPT ![r] = [state |-> "active", next |-> Oldest]]
              /\ UNCHANGED got
         ELSE /\ got' = [got EXCEPT ![r] = @ \cup {log[rx[r].next]}]
              /\ rx' = [rx EXCEPT ![r] = [state |-> "active", next |-> rx[r].next + 1]]
              /\ UNCHANGED lost
    /\ UNCHANGED <<kind, produced, closed, taken, task, log, since, dropped>>

(* recv() on a drained channel whose sender is gone: Closed. *)
RecvClosed(r) ==
    /\ rx[r].state = "active"
    /\ rx[r].next > Len(log)
    /\ task # "running"
    /\ rx' = [rx EXCEPT ![r] = [state |-> "closed", next |-> rx[r].next]]
    /\ UNCHANGED <<kind, produced, closed, taken, task, log, since, got, lost, dropped>>

DropRx(r) ==
    /\ rx[r].state = "active"
    /\ rx' = [rx EXCEPT ![r] = [state |-> "gone", next |-> rx[r].next]]
    /\ UNCHANGED <<kind, produced, closed, taken, task, log, since, got, lost, dropped>>

Quiet ==
    /\ task # "running"
    /\ \A r \in Receivers : rx[r].state # "active"
    /\ UNCHANGED vars

-----------------------------------------------------------------------------
Next ==
    \/ Produce \/ CloseSource
    \/ Forward \/ Stop \/ Abort
    \/ \E r \in Receivers : Subscribe(r) \/ Recv(r) \/ RecvClosed(r) \/ DropRx(r)
    \/ Quiet

Spec == Init /\ [][Next]_vars

(* The runtime runs the task whenever it can proceed; receivers and the   *)
(* producer get no fairness: a consumer may stall or never come.          *)
FairSpec == Spec /\ WF_vars(Forward) /\ WF_vars(Stop)

-----------------------------------------------------------------------------
Msgs == 1..NMsg

TypeOK ==
    /\ kind \in Kinds
    /\ produced \in 0..NMsg /\ taken \in 0..produced
    /\ closed \in BOOLEAN
    /\ task \in {"running", "stopped", "aborted"}
    /\ log \in Seq(Msgs)
    /\ rx \in [Receivers -> [state : RxStates, next : 1..(NMsg + 1)]]
    /\ since \in [Receivers -> 0..NMsg]
    /\ got \in [Receivers -> SUBSET Msgs] /\ lost \in [Receivers -> SUBSET Msgs]
    /\ dropped \subseteq Msgs

(* No receiver loses a message silently: every message the task took from *)
(* the source while r was subscribed is received by r, reported to r in a *)
(* Lagged error, or still ahead of r's cursor in the channel.             *)
NoSilentLoss ==
    \A r \in Receivers :
        rx[r].state \in {"active", "closed"} =>
            \A m \in (since[r] + 1)..taken :
                \/ m \in got[r] \cup lost[r]
                \/ \E k \in rx[r].next..Len(log) : log[k] = m

(* The comment at line 12: backpressure is not propagated upstream.  Every *)
(* message put into the source is eventually taken, and a closed source   *)
(* ends the task, however slowly the receivers read.                      *)
UpstreamDrained ==
    /\ \A k \in Msgs : (produced >= k) ~> (taken >= k \/ task = "aborted")
    /\ closed ~> (task # "running")

-----------------------------------------------------------------------------
(***************************************************************************)
(* Refinement: the shared log with one cursor per receiver implements a    *)
(* queue per receiver.  A subscribed receiver's queue is the log from its  *)
(* cursor on, whether or not the channel still retains it; any other       *)
(* receiver has nothing queued.                                            *)
(***************************************************************************)
QueueOf(r) == IF rx[r].state = "active" THEN SubSeq(log, rx[r].next, Len(log)) ELSE <<>>

Queues == INSTANCE BroadcastQueues
              WITH sub <- [r \in Receivers |-> rx[r].state],
                   queue <- [r \in Receivers |-> QueueOf(r)]

(* Every step of the task, the source and the receivers is a step of the   *)
(* per-receiver queues or leaves them unchanged: a message is delivered to *)
(* every subscribed receiver or dropped when there is none, a read takes   *)
(* the oldest queued message, and a Lagged error reports exactly the       *)
(* messages beyond the newest Cap that the receiver had not read.          *)
QueuesSpec == Queues!Spec
=============================================================================
