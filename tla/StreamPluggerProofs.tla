------------------------- MODULE StreamPluggerProofs -------------------------
(* Proofs about the fan-out task of StreamPlugger. *)
EXTENDS StreamPlugger, TLAPS

USE ReceiversAssumption, NMsgAssumption, CapAssumption, UpCapAssumption, KindsAssumption

(***************************************************************************)
(* The inductive invariant.  NoSilentLoss alone is not inductive: a        *)
(* Forward step appends the new message behind every live cursor only if   *)
(* no cursor is past the end of the log, and a receiver that has seen      *)
(* Closed would miss a message sent afterwards, so the invariant also says *)
(* that the log never holds more than the messages taken, that live        *)
(* cursors are at most one past the log and that Closed is seen only once  *)
(* the task has ended.                                                     *)
(***************************************************************************)
Listening(r) == rx[r].state \in {"active", "closed"}

CursorsInLog ==
    \A r \in Receivers : Listening(r) => rx[r].next <= Len(log) + 1 /\ since[r] <= taken

ClosedAfterEnd ==
    \A r \in Receivers : rx[r].state = "closed" => task # "running"

IInv ==
    /\ TypeOK
    /\ Len(log) <= taken
    /\ CursorsInLog
    /\ ClosedAfterEnd
    /\ NoSilentLoss

(* Oldest is a position of the log whenever a cursor lies before it. *)
LEMMA OldestBounds ==
    ASSUME log \in Seq(Msgs)
    PROVE  /\ Oldest \in 1..(Len(log) + 1)
           /\ Oldest > 1 => Oldest <= Len(log)
BY DEF Oldest

-----------------------------------------------------------------------------
(* Every initial state satisfies the inductive invariant. *)
LEMMA InitIInv == Init => IInv
<1> SUFFICES ASSUME Init PROVE IInv
  OBVIOUS
<1>1. rx \in [Receivers -> [state : RxStates, next : 1..(NMsg + 1)]]
  BY DEF Init, RxStates
<1>2. \A r \in Receivers : since[r] = 0 /\ got[r] = {} /\ lost[r] = {}
  BY DEF Init
<1>3. TypeOK
  <2>1. log \in Seq(Msgs)
    BY DEF Init
  <2>2. since \in [Receivers -> 0..NMsg] /\ got \in [Receivers -> SUBSET Msgs]
        /\ lost \in [Receivers -> SUBSET Msgs]
    BY DEF Init
  <2>3. kind \in Kinds /\ produced \in 0..NMsg /\ taken \in 0..produced
    BY DEF Init
  <2>4. closed \in BOOLEAN /\ task \in {"running", "stopped", "aborted"} /\ dropped \subseteq Msgs
    BY DEF Init
  <2>5. QED
    BY <1>1, <2>1, <2>2, <2>3, <2>4 DEF TypeOK
<1>4. QED
  BY <1>2, <1>3 DEF Init, IInv, CursorsInLog, ClosedAfterEnd, NoSilentLoss, Listening

(* Steps that change neither the log, the cursors nor taken keep every     *)
(* conjunct but the type.                                                  *)
LEMMA QuietSteps ==
    ASSUME IInv, Produce \/ CloseSource \/ Stop \/ Abort \/ Quiet \/ UNCHANGED vars
    PROVE  IInv'
<1>1. UNCHANGED <<kind, taken, log, rx, since, got, lost, dropped>>
  BY DEF Produce, CloseSource, Stop, Abort, Quiet, vars
<1>2. TypeOK'
  <2>1. CASE Produce
    BY <2>1 DEF IInv, TypeOK, Produce
  <2>2. CASE CloseSource
    BY <2>2 DEF IInv, TypeOK, CloseSource
  <2>3. CASE Stop \/ Abort
    BY <2>3 DEF IInv, TypeOK, Stop, Abort
  <2>4. CASE Quiet \/ UNCHANGED vars
    BY <2>4 DEF IInv, TypeOK, Quiet, vars
  <2>5. QED
    BY <2>1, <2>2, <2>3, <2>4
<1>3. ClosedAfterEnd'
  <2>1. CASE Stop \/ Abort
    BY <2>1 DEF Stop, Abort, ClosedAfterEnd
  <2>2. CASE ~(Stop \/ Abort)
    BY <2>2, <1>1 DEF Produce, CloseSource, Quiet, vars, ClosedAfterEnd, IInv
  <2>3. QED
    BY <2>1, <2>2
<1>4. QED
  BY <1>1, <1>2, <1>3 DEF IInv, CursorsInLog, NoSilentLoss, Listening

(* The task forwards one message: into the log behind every live cursor,  *)
(* or into dropped when no receiver is alive.                              *)
LEMMA ForwardStep ==
    ASSUME IInv, Forward
    PROVE  IInv'
<1> USE DEF IInv
<1>1. /\ task = "running" /\ taken < produced /\ taken' = taken + 1
      /\ UNCHANGED <<kind, produced, closed, task, rx, since, got, lost>>
  BY DEF Forward
<1>2. taken + 1 \in Msgs
  BY <1>1 DEF TypeOK, Msgs
<1>3. \/ Alive # {} /\ log' = Append(log, taken + 1) /\ dropped' = dropped
      \/ Alive = {} /\ log' = log /\ dropped' = dropped \cup {taken + 1}
  BY DEF Forward, Broadcast
<1>4. log' \in Seq(Msgs) /\ Len(log) <= Len(log') /\ Len(log') <= taken'
  <2>1. log \in Seq(Msgs) /\ Len(log) <= taken /\ taken \in Nat
    BY DEF TypeOK
  <2>2. CASE log' = Append(log, taken + 1)
    BY <1>1, <1>2, <2>1, <2>2
  <2>3. CASE log' = log
    BY <1>1, <2>1, <2>3
  <2>4. QED
    BY <1>3, <2>2, <2>3
<1>5. \A k \in 1..Len(log) : log'[k] = log[k]
  <2>1. log \in Seq(Msgs)
    BY DEF TypeOK
  <2>2. QED
    BY <1>3, <2>1
<1>6. TypeOK'
  BY <1>1, <1>2, <1>3, <1>4 DEF TypeOK
<1>7. CursorsInLog'
  <2> SUFFICES ASSUME NEW r \in Receivers, Listening(r)'
               PROVE  rx'[r].next <= Len(log') + 1 /\ since'[r] <= taken'
    BY DEF CursorsInLog
  <2>1. Listening(r) /\ rx[r].next \in Nat /\ since[r] \in Nat
    BY <1>1 DEF Listening, TypeOK
  <2>2. rx[r].next <= Len(log) + 1 /\ since[r] <= taken
    BY <2>1 DEF CursorsInLog
  <2>3. rx'[r] = rx[r] /\ since'[r] = since[r] /\ Len(log) \in Nat
    BY <1>1 DEF TypeOK
  <2>4. rx'[r].next <= Len(log') + 1
    BY <1>4, <2>1, <2>2, <2>3
  <2>5. since'[r] <= taken'
    BY <1>1, <2>1, <2>2, <2>3 DEF TypeOK
  <2>6. QED
    BY <2>4, <2>5
<1>8. ClosedAfterEnd'
  BY <1>1 DEF ClosedAfterEnd
<1>9. NoSilentLoss'
  <2> SUFFICES ASSUME NEW r \in Receivers, Listening(r), NEW m \in (since[r] + 1)..taken'
               PROVE  \/ m \in got'[r] \cup lost'[r]
                      \/ \E k \in rx'[r].next..Len(log') : log'[k] = m
    BY <1>1 DEF NoSilentLoss, Listening
  <2>1. rx[r].state = "active"
    BY <1>1 DEF ClosedAfterEnd, Listening
  <2>2. CASE m <= taken
    <3>1. \/ m \in got[r] \cup lost[r]
          \/ \E k \in rx[r].next..Len(log) : log[k] = m
      BY <2>2 DEF NoSilentLoss, Listening
    <3>2. CASE m \in got[r] \cup lost[r]
      BY <1>1, <3>2
    <3>3. CASE \E k \in rx[r].next..Len(log) : log[k] = m
      <4>1. PICK k \in rx[r].next..Len(log) : log[k] = m
        BY <3>3
      <4>2. k \in 1..Len(log) /\ k \in rx'[r].next..Len(log')
        BY <1>1, <1>4, <4>1 DEF TypeOK
      <4>3. QED
        BY <1>5, <4>1, <4>2
    <3>4. QED
      BY <3>1, <3>2, <3>3
  <2>3. CASE m = taken + 1
    <3>1. r \in Alive
      BY <2>1 DEF Alive
    <3>2. log' = Append(log, taken + 1)
      BY <1>3, <3>1
    <3>3. rx[r].next <= Len(log) + 1 /\ rx[r].next \in Nat
      BY DEF CursorsInLog, Listening, TypeOK
    <3>4. log'[Len(log) + 1] = m /\ Len(log') = Len(log) + 1
      BY <2>3, <3>2
    <3>5. QED
      BY <1>1, <3>3, <3>4
  <2>4. QED
    BY <1>1, <2>2, <2>3 DEF TypeOK
<1>10. QED
  BY <1>4, <1>6, <1>7, <1>8, <1>9

(* A receiver that subscribes starts at the tail, owing nothing. *)
LEMMA SubscribeStep ==
    ASSUME IInv, NEW r \in Receivers, Subscribe(r)
    PROVE  IInv'
<1> USE DEF IInv
<1>1. /\ task = "running" /\ rx[r].state = "idle"
      /\ rx' = [rx EXCEPT ![r] = [state |-> "active", next |-> Len(log) + 1]]
      /\ since' = [since EXCEPT ![r] = taken]
      /\ UNCHANGED <<kind, produced, closed, taken, task, log, got, lost, dropped>>
  BY DEF Subscribe
<1>2. Len(log) \in Nat /\ Len(log) <= taken /\ taken \in 0..NMsg
  BY DEF TypeOK
<1>3. TypeOK'
  BY <1>1, <1>2 DEF TypeOK, RxStates
<1>4. \A q \in Receivers \ {r} : rx'[q] = rx[q] /\ since'[q] = since[q]
  BY <1>1
<1>5. CursorsInLog'
  BY <1>1, <1>2, <1>4 DEF CursorsInLog, Listening, TypeOK
<1>6. ClosedAfterEnd'
  BY <1>1, <1>4 DEF ClosedAfterEnd
<1>7. NoSilentLoss'
  <2> SUFFICES ASSUME NEW q \in Receivers, Listening(q)', NEW m \in (since'[q] + 1)..taken'
               PROVE  \/ m \in got'[q] \cup lost'[q]
                      \/ \E k \in rx'[q].next..Len(log') : log'[k] = m
    BY DEF NoSilentLoss, Listening
  <2>1. CASE q = r
    BY <1>1, <1>2, <2>1 DEF TypeOK
  <2>2. CASE q # r
    BY <1>1, <1>4, <2>2 DEF NoSilentLoss, Listening
  <2>3. QED
    BY <2>1, <2>2
<1>8. QED
  BY <1>1, <1>3, <1>5, <1>6, <1>7

(* A receiver that sees Closed or drops out changes only its state. *)
LEMMA LeaveStep ==
    ASSUME IInv, NEW r \in Receivers, RecvClosed(r) \/ DropRx(r)
    PROVE  IInv'
<1> USE DEF IInv
<1>2. /\ rx[r].state = "active" /\ rx[r].next \in 1..(NMsg + 1)
      /\ \/ task # "running" /\ rx' = [rx EXCEPT ![r] = [state |-> "closed", next |-> rx[r].next]]
         \/ rx' = [rx EXCEPT ![r] = [state |-> "gone", next |-> rx[r].next]]
      /\ UNCHANGED <<kind, produced, closed, taken, task, log, since, got, lost, dropped>>
  BY DEF RecvClosed, DropRx, TypeOK
<1>3. \A q \in Receivers : rx'[q].next = rx[q].next
                           /\ (Listening(q)' => Listening(q))
                           /\ (rx'[q].state = "closed" => rx[q].state = "closed" \/ task # "running")
                           /\ rx'[q] \in [state : RxStates, next : 1..(NMsg + 1)]
  <2> SUFFICES ASSUME NEW q \in Receivers
               PROVE  /\ rx'[q].next = rx[q].next
                      /\ (Listening(q)' => Listening(q))
                      /\ (rx'[q].state = "closed" => rx[q].state = "closed" \/ task # "running")
                      /\ rx'[q] \in [state : RxStates, next : 1..(NMsg + 1)]
    OBVIOUS
  <2>1. CASE q = r
    BY <1>2, <2>1 DEF Listening, TypeOK, RxStates
  <2>2. CASE q # r
    BY <1>2, <2>2 DEF Listening, TypeOK
  <2>3. QED
    BY <2>1, <2>2
<1>4. TypeOK'
  <2>1. rx' \in [Receivers -> [state : RxStates, next : 1..(NMsg + 1)]]
    BY <1>2, <1>3 DEF TypeOK
  <2>2. QED
    BY <1>2, <2>1 DEF TypeOK
<1>5. CursorsInLog' /\ ClosedAfterEnd'
  BY <1>2, <1>3 DEF CursorsInLog, ClosedAfterEnd
<1>6. NoSilentLoss'
  <2> SUFFICES ASSUME NEW q \in Receivers, Listening(q)', NEW m \in (since'[q] + 1)..taken'
               PROVE  \/ m \in got'[q] \cup lost'[q]
                      \/ \E k \in rx'[q].next..Len(log') : log'[k] = m
    BY DEF NoSilentLoss, Listening
  <2>1. Listening(q) /\ rx'[q].next = rx[q].next
    BY <1>3
  <2>2. \/ m \in got[q] \cup lost[q]
        \/ \E k \in rx[q].next..Len(log) : log[k] = m
    BY <1>2, <2>1 DEF NoSilentLoss, Listening
  <2>3. QED
    BY <1>2, <2>1, <2>2
<1>7. QED
  BY <1>2, <1>4, <1>5, <1>6

(* A receiver reads: a Lagged error reports, in lost, every message it    *)
(* skips, and a normal read moves one message from the channel into got. *)
LEMMA RecvStep ==
    ASSUME IInv, NEW r \in Receivers, Recv(r)
    PROVE  IInv'
<1> USE DEF IInv
<1> DEFINE n == rx[r].next
<1>1. /\ rx[r].state = "active" /\ n \in 1..Len(log)
      /\ log \in Seq(Msgs) /\ Len(log) <= taken /\ taken \in 0..NMsg
      /\ UNCHANGED <<kind, produced, closed, taken, task, log, since, dropped>>
  BY DEF Recv, TypeOK
<1>2. \A k \in 1..Len(log) : log[k] \in Msgs
  BY <1>1
<1>3. \A q \in Receivers \ {r} : rx'[q] = rx[q] /\ got'[q] = got[q] /\ lost'[q] = lost[q]
  BY DEF Recv, TypeOK
<1>4. CASE n < Oldest
  <2>1. /\ lost' = [lost EXCEPT ![r] = @ \cup {log[k] : k \in n..(Oldest - 1)}]
        /\ rx' = [rx EXCEPT ![r] = [state |-> "active", next |-> Oldest]]
        /\ got' = got
    BY <1>4 DEF Recv
  <2>2. Oldest \in (n + 1)..Len(log)
    BY <1>1, <1>4, OldestBounds
  <2>3. TypeOK'
    BY <1>1, <1>2, <2>1, <2>2 DEF TypeOK, RxStates
  <2>4. CursorsInLog' /\ ClosedAfterEnd'
    BY <1>1, <1>3, <2>1, <2>2 DEF CursorsInLog, ClosedAfterEnd, Listening, TypeOK
  <2>5. NoSilentLoss'
    <3> SUFFICES ASSUME NEW q \in Receivers, Listening(q)', NEW m \in (since'[q] + 1)..taken'
                 PROVE  \/ m \in got'[q] \cup lost'[q]
                        \/ \E k \in rx'[q].next..Len(log') : log'[k] = m
      BY DEF NoSilentLoss, Listening
    <3>1. CASE q # r
      BY <1>1, <1>3, <3>1 DEF NoSilentLoss, Listening
    <3>2. CASE q = r
      <4>1. \/ m \in got[r] \cup lost[r]
            \/ \E k \in n..Len(log) : log[k] = m
        BY <1>1, <3>2 DEF NoSilentLoss, Listening
      <4>2. lost[r] \subseteq lost'[r] /\ \A k \in n..(Oldest - 1) : log[k] \in lost'[r]
        BY <2>1 DEF TypeOK
      <4>3. CASE \E k \in n..Len(log) : log[k] = m
        <5>1. PICK k \in n..Len(log) : log[k] = m
          BY <4>3
        <5>2. CASE k < Oldest
          <6>1. k \in n..(Oldest - 1)
            BY <1>1, <2>2, <5>1, <5>2
          <6>2. QED
            BY <3>2, <4>2, <5>1, <6>1
        <5>3. CASE k >= Oldest
          <6>1. rx'[r].next = Oldest /\ log' = log
            BY <1>1, <2>1 DEF TypeOK
          <6>2. k \in rx'[r].next..Len(log')
            BY <1>1, <5>1, <5>3, <6>1
          <6>3. QED
            BY <3>2, <5>1, <6>1, <6>2
        <5>4. QED
          BY <2>2, <5>1, <5>2, <5>3
      <4>4. QED
        BY <2>1, <3>2, <4>1, <4>2, <4>3
    <3>3. QED
      BY <3>1, <3>2
  <2>6. QED
    BY <1>1, <2>3, <2>4, <2>5
<1>5. CASE ~(n < Oldest)
  <2>1. /\ got' = [got EXCEPT ![r] = @ \cup {log[n]}]
        /\ rx' = [rx EXCEPT ![r] = [state |-> "active", next |-> n + 1]]
        /\ lost' = lost
    BY <1>5 DEF Recv
  <2>2. log[n] \in Msgs /\ n + 1 \in 1..(Len(log) + 1)
    BY <1>1, <1>2
  <2>3. TypeOK'
    BY <1>1, <2>1, <2>2 DEF TypeOK, RxStates
  <2>4. CursorsInLog' /\ ClosedAfterEnd'
    BY <1>1, <1>3, <2>1, <2>2 DEF CursorsInLog, ClosedAfterEnd, Listening, TypeOK
  <2>5. NoSilentLoss'
    <3> SUFFICES ASSUME NEW q \in Receivers, Listening(q)', NEW m \in (since'[q] + 1)..taken'
                 PROVE  \/ m \in got'[q] \cup lost'[q]
                        \/ \E k \in rx'[q].next..Len(log') : log'[k] = m
      BY DEF NoSilentLoss, Listening
    <3>1. CASE q # r
      BY <1>1, <1>3, <3>1 DEF NoSilentLoss, Listening
    <3>2. CASE q = r
      <4>1. \/ m \in got[r] \cup lost[r]
            \/ \E k \in n..Len(log) : log[k] = m
        BY <1>1, <3>2 DEF NoSilentLoss, Listening
      <4>2. got[r] \subseteq got'[r] /\ log[n] \in got'[r]
        BY <2>1 DEF TypeOK
      <4>3. CASE \E k \in n..Len(log) : log[k] = m
        <5>1. PICK k \in n..Len(log) : log[k] = m
          BY <4>3
        <5>2. CASE k = n
          BY <3>2, <4>2, <5>1, <5>2
        <5>3. CASE k # n
          <6>1. rx'[r].next = n + 1 /\ log' = log
            BY <1>1, <2>1 DEF TypeOK
          <6>2. k \in rx'[r].next..Len(log')
            BY <1>1, <5>1, <5>3, <6>1
          <6>3. QED
            BY <3>2, <5>1, <6>1, <6>2
        <5>4. QED
          BY <5>2, <5>3
      <4>4. QED
        BY <2>1, <3>2, <4>1, <4>2, <4>3
    <3>3. QED
      BY <3>1, <3>2
  <2>6. QED
    BY <1>1, <2>3, <2>4, <2>5
<1>6. QED
  BY <1>4, <1>5

-----------------------------------------------------------------------------
(* IInv is inductive: every disjunct of Next, and a stutter, keeps it. *)
LEMMA IInvStep == IInv /\ [Next]_vars => IInv'
<1> SUFFICES ASSUME IInv, [Next]_vars PROVE IInv'
  OBVIOUS
<1>1. CASE Produce \/ CloseSource \/ Stop \/ Abort \/ Quiet \/ UNCHANGED vars
  BY <1>1, QuietSteps
<1>2. CASE Forward
  BY <1>2, ForwardStep
<1>3. CASE \E r \in Receivers : Subscribe(r) \/ Recv(r) \/ RecvClosed(r) \/ DropRx(r)
  BY <1>3, SubscribeStep, RecvStep, LeaveStep
<1>4. QED
  BY <1>1, <1>2, <1>3 DEF Next

(* The guarantee of the fan-out tasks of grpc_stream_utils.rs (the send   *)
(* loop at lines 26-45 and the broadcast channel it feeds): for any       *)
(* number of receivers, messages and channel capacity, no subscribed      *)
(* receiver ever loses a message the task took from the source without    *)
(* being told by a Lagged error.                                          *)
THEOREM NoLoss == Spec => []NoSilentLoss
<1>1. IInv => NoSilentLoss
  BY DEF IInv
<1>2. QED
  BY <1>1, InitIInv, IInvStep, PTL DEF Spec

(* Type correctness of the stream model, for every value of the constants. *)
THEOREM TypeCorrect == Spec => []TypeOK
<1>1. IInv => TypeOK
  BY DEF IInv
<1>2. QED
  BY <1>1, InitIInv, IInvStep, PTL DEF Spec

-----------------------------------------------------------------------------
(***************************************************************************)
(* Refinement of BroadcastQueues.  A receiver's queue is the suffix of the *)
(* log from its cursor; four facts about suffixes carry every step: a send *)
(* appends to every suffix that starts inside or just past the log, a     *)
(* suffix from past the end is empty, a read takes the suffix's head, and  *)
(* a Lagged jump splits the suffix into the lost prefix and the newest     *)
(* entries that the channel retains.                                       *)
(***************************************************************************)

(* Appending to the log appends to each of its suffixes. *)
LEMMA AppendSuffix ==
    ASSUME NEW S, NEW s \in Seq(S), NEW m \in S, NEW n \in 1..(Len(s) + 1)
    PROVE  SubSeq(Append(s, m), n, Len(s) + 1) = Append(SubSeq(s, n, Len(s)), m)
OBVIOUS

(* The suffix from past the end is empty. *)
LEMMA EmptySuffix ==
    ASSUME NEW S, NEW s \in Seq(S), NEW n \in Nat, n > Len(s)
    PROVE  SubSeq(s, n, Len(s)) = <<>>
OBVIOUS

(* A nonempty suffix: its head is the entry at the cursor, its tail the   *)
(* suffix from the next position.                                         *)
LEMMA ReadSuffix ==
    ASSUME NEW S, NEW s \in Seq(S), NEW n \in 1..Len(s)
    PROVE  /\ SubSeq(s, n, Len(s)) # <<>>
           /\ Len(SubSeq(s, n, Len(s))) = Len(s) - n + 1
           /\ Head(SubSeq(s, n, Len(s))) = s[n]
           /\ Tail(SubSeq(s, n, Len(s))) = SubSeq(s, n + 1, Len(s))
OBVIOUS

(* A suffix longer than c splits into the entries before position o and   *)
(* the last c entries of the log, where o = Len(s) - c + 1.                *)
LEMMA LagSuffix ==
    ASSUME NEW S, NEW s \in Seq(S), NEW c \in Nat, NEW n \in 1..Len(s),
           n < Len(s) - c + 1
    PROVE  LET q == SubSeq(s, n, Len(s))
           IN  /\ Len(q) > c
               /\ {SubSeq(q, 1, Len(q) - c)[k] : k \in 1..Len(SubSeq(q, 1, Len(q) - c))}
                    = {s[k] : k \in n..(Len(s) - c)}
               /\ SubSeq(q, Len(q) - c + 1, Len(q)) = SubSeq(s, Len(s) - c + 1, Len(s))
<1> DEFINE q == SubSeq(s, n, Len(s))
           p == SubSeq(q, 1, Len(q) - c)
<1> HIDE DEF q, p
<1>1. q \in Seq(S) /\ Len(q) = Len(s) - n + 1 /\ \A k \in 1..Len(q) : q[k] = s[n + k - 1]
  BY DEF q
<1>2. Len(q) > c
  BY <1>1
<1>3. Len(p) = Len(s) - n + 1 - c /\ \A k \in 1..Len(p) : p[k] = s[n + k - 1]
  <2>1. Len(q) - c \in 0..Len(q)
    BY <1>1, <1>2
  <2>2. Len(p) = Len(q) - c /\ \A k \in 1..Len(p) : p[k] = q[k]
    BY <1>1, <2>1 DEF p
  <2>3. Len(p) = Len(s) - n + 1 - c
    BY <1>1, <2>2
  <2>4. ASSUME NEW k \in 1..Len(p) PROVE p[k] = s[n + k - 1]
    <3>1. k \in 1..Len(q)
      BY <1>1, <2>1, <2>2
    <3>2. QED
      BY <1>1, <2>2, <3>1
  <2>5. QED
    BY <2>3, <2>4
<1>4. {p[k] : k \in 1..Len(p)} = {s[k] : k \in n..(Len(s) - c)}
  <2>1. ASSUME NEW k \in 1..Len(p) PROVE p[k] \in {s[j] : j \in n..(Len(s) - c)}
    <3>1. n + k - 1 \in n..(Len(s) - c)
      BY <1>3
    <3>2. p[k] = s[n + k - 1]
      BY <1>3
    <3>3. QED
      BY <3>1, <3>2, Zenon
  <2>2. ASSUME NEW j \in n..(Len(s) - c) PROVE s[j] \in {p[k] : k \in 1..Len(p)}
    <3>1. j - n + 1 \in 1..Len(p)
      BY <1>3
    <3>2. p[j - n + 1] = s[n + (j - n + 1) - 1]
      BY <3>1, <1>3
    <3>3. n + (j - n + 1) - 1 = j
      OBVIOUS
    <3>4. QED
      BY <3>1, <3>2, <3>3, Zenon
  <2>3. QED
    BY <2>1, <2>2, Zenon
<1>5. SubSeq(q, Len(q) - c + 1, Len(q)) = SubSeq(s, Len(s) - c + 1, Len(s))
  <2> DEFINE a == SubSeq(q, Len(q) - c + 1, Len(q))
             b == SubSeq(s, Len(s) - c + 1, Len(s))
  <2>1. Len(a) = c /\ Len(b) = c /\ a \in Seq(S) /\ b \in Seq(S)
    BY <1>1, <1>2
  <2>2. ASSUME NEW i \in 1..c PROVE a[i] = s[Len(s) - c + i] /\ b[i] = s[Len(s) - c + i]
    <3>1. a[i] = q[Len(q) - c + i] /\ Len(q) - c + i \in 1..Len(q)
      BY <1>1, <1>2
    <3>2. q[Len(q) - c + i] = s[Len(s) - c + i]
      <4>1. n + (Len(q) - c + i) - 1 = Len(s) - c + i
        BY <1>1
      <4>2. QED
        BY <1>1, <3>1, <4>1
    <3>3. b[i] = s[Len(s) - c + i]
      BY <1>2
    <3>4. QED
      BY <3>1, <3>2, <3>3
  <2> HIDE DEF a, b
  <2>3. \A i \in 1..c : a[i] = b[i]
    BY <2>2
  <2>4. a = b
    BY <2>1, <2>3
  <2>5. QED
    BY <2>4 DEF a, b
<1>6. QED
  BY <1>2, <1>4, <1>5, Zenon DEF p, q

(* A function on D that differs from F at r only is F updated at r. *)
LEMMA UpdatedAt ==
    ASSUME NEW D, NEW F, NEW G, NEW r \in D, NEW v,
           F = [x \in D |-> F[x]], G = [x \in D |-> G[x]], G[r] = v, \A x \in D \ {r} : G[x] = F[x]
    PROVE  G = [F EXCEPT ![r] = v]
<1>1. [F EXCEPT ![r] = v] = [x \in D |-> IF x = r THEN v ELSE F[x]]
  BY Zenon
<1>2. G = [x \in D |-> IF x = r THEN v ELSE F[x]]
  OBVIOUS
<1>3. QED
  BY <1>1, <1>2

(* The images of the receivers' states and queues under the mapping. *)
SubMap == [r \in Receivers |-> rx[r].state]
QMap == [r \in Receivers |-> QueueOf(r)]

(* The queue of a subscribed receiver is the log's suffix from its cursor. *)
LEMMA QueueShape ==
    ASSUME IInv, NEW r \in Receivers
    PROVE  /\ log \in Seq(Msgs)
           /\ rx[r].state = "active" => /\ rx[r].next \in 1..(Len(log) + 1)
                                         /\ QueueOf(r) = SubSeq(log, rx[r].next, Len(log))
           /\ rx[r].state # "active" => QueueOf(r) = <<>>
<1>1. log \in Seq(Msgs) /\ rx[r] \in [state : RxStates, next : 1..(NMsg + 1)]
  BY DEF IInv, TypeOK
<1>2. rx[r].state = "active" => rx[r].next <= Len(log) + 1
  BY DEF IInv, CursorsInLog, Listening
<1>3. QED
  BY <1>1, <1>2 DEF QueueOf

(* A send appends the message to the queue of every subscribed receiver,  *)
(* or drops it when there is none.                                         *)
LEMMA ForwardRefines ==
    ASSUME IInv, Forward
    PROVE  Queues!Forward
<1>1. /\ task = "running" /\ taken < produced /\ taken' = taken + 1
      /\ UNCHANGED <<kind, produced, closed, task, rx, since, got, lost>>
  BY DEF Forward
<1>2. Queues!Subscribed = Alive
  BY DEF Queues!Subscribed, Alive
<1>3. taken + 1 \in Msgs
  BY <1>1 DEF IInv, TypeOK, Msgs
<1>4. CASE Alive # {}
  <2>1. log' = Append(log, taken + 1) /\ UNCHANGED dropped
    BY <1>4 DEF Forward, Broadcast
  <2>2. ASSUME NEW r \in Receivers
        PROVE  QueueOf(r)' = IF r \in Alive THEN Append(QueueOf(r), taken + 1) ELSE QueueOf(r)
    <3>1. CASE rx[r].state = "active"
      <4>1. log \in Seq(Msgs) /\ rx[r].next \in 1..(Len(log) + 1)
            /\ QueueOf(r) = SubSeq(log, rx[r].next, Len(log))
        BY <3>1, QueueShape
      <4>2. rx'[r] = rx[r] /\ log' = Append(log, taken + 1)
        BY <1>1, <2>1
      <4>3. QueueOf(r)' = SubSeq(Append(log, taken + 1), rx[r].next, Len(log) + 1)
        <5>1. Len(log') = Len(log) + 1
          BY <4>1, <4>2, <1>3
        <5>2. QED
          BY <3>1, <4>2, <5>1, Zenon DEF QueueOf
      <4>4. SubSeq(Append(log, taken + 1), rx[r].next, Len(log) + 1)
              = Append(SubSeq(log, rx[r].next, Len(log)), taken + 1)
        BY <1>3, <4>1, AppendSuffix, Zenon
      <4>5. QED
        BY <3>1, <4>1, <4>3, <4>4, Zenon DEF Alive
    <3>2. CASE rx[r].state # "active"
      BY <1>1, <3>2, QueueShape DEF QueueOf, Alive
    <3>3. QED
      BY <3>1, <3>2
  <2>3. QED
    BY <1>1, <1>2, <1>4, <2>1, <2>2 DEF Queues!Forward
<1>5. CASE Alive = {}
  <2>1. dropped' = dropped \cup {taken + 1} /\ UNCHANGED log
    BY <1>5 DEF Forward, Broadcast
  <2>2. \A r \in Receivers : QueueOf(r)' = QueueOf(r)
    BY <1>1, <2>1 DEF QueueOf
  <2>3. QED
    BY <1>1, <1>2, <1>5, <2>1, <2>2 DEF Queues!Forward
<1>6. QED
  BY <1>4, <1>5

(* A read of the channel is a read of the receiver's queue: Lagged loses   *)
(* exactly the part of the queue beyond the newest Cap messages.           *)
LEMMA RecvRefines ==
    ASSUME IInv, NEW r \in Receivers, Recv(r)
    PROVE  Queues!Recv(r)
<1> DEFINE n == rx[r].next
           q == SubSeq(log, n, Len(log))
<1>1. /\ rx[r].state = "active" /\ n \in 1..Len(log) /\ log \in Seq(Msgs)
      /\ rx \in [Receivers -> [state : RxStates, next : 1..(NMsg + 1)]]
      /\ UNCHANGED <<kind, produced, closed, taken, task, log, since, dropped>>
  BY DEF Recv, IInv, TypeOK
<1>2. QMap[r] = q /\ SubMap[r] = "active"
  BY <1>1 DEF QueueOf, QMap, SubMap
<1>3. q # <<>> /\ Len(q) = Len(log) - n + 1 /\ Head(q) = log[n] /\ Tail(q) = SubSeq(log, n + 1, Len(log))
  BY <1>1, ReadSuffix, Zenon
<1>4. \A r2 \in Receivers \ {r} : rx'[r2] = rx[r2] /\ QueueOf(r2)' = QueueOf(r2)
  <2>1. \A r2 \in Receivers \ {r} : rx'[r2] = rx[r2]
    BY <1>1 DEF Recv
  <2>2. QED
    BY <1>1, <2>1, Zenon DEF QueueOf
<1>5. Cap \in Nat /\ Len(log) \in Nat
  BY <1>1
<1>9. /\ QMap' = [r2 \in Receivers |-> QueueOf(r2)']
      /\ QMap = [r2 \in Receivers |-> QMap[r2]] /\ QMap' = [r2 \in Receivers |-> QMap'[r2]]
  BY DEF QMap
<1>6. rx'[r].state = "active" /\ SubMap' = SubMap
  <2>1. rx'[r].state = "active"
    BY <1>1 DEF Recv
  <2>2. QED
    BY <1>1, <1>4, <2>1 DEF SubMap
<1>7. CASE n < Oldest
  <2>1. Oldest = Len(log) - Cap + 1 /\ n < Len(log) - Cap + 1
    BY <1>1, <1>5, <1>7 DEF Oldest
  <2>2. /\ Len(q) > Cap
        /\ {SubSeq(q, 1, Len(q) - Cap)[k] : k \in 1..Len(SubSeq(q, 1, Len(q) - Cap))}
             = {log[k] : k \in n..(Len(log) - Cap)}
        /\ SubSeq(q, Len(q) - Cap + 1, Len(q)) = SubSeq(log, Len(log) - Cap + 1, Len(log))
    BY <1>1, <1>5, <2>1, LagSuffix, Zenon
  <2>3. /\ lost' = [lost EXCEPT ![r] = @ \cup {log[k] : k \in n..(Oldest - 1)}]
        /\ rx' = [rx EXCEPT ![r] = [state |-> "active", next |-> Oldest]]
        /\ UNCHANGED got
    BY <1>7 DEF Recv
  <2>4. QueueOf(r)' = SubSeq(log, Oldest, Len(log))
    BY <1>1, <2>3, Zenon DEF QueueOf
  <2>5. QMap' = [QMap EXCEPT ![r] = SubSeq(q, Len(q) - Cap + 1, Len(q))]
    <3>1. \A r2 \in Receivers \ {r} : QMap'[r2] = QMap[r2]
      BY <1>4, <1>9 DEF QMap
    <3>2. QMap'[r] = SubSeq(q, Len(q) - Cap + 1, Len(q))
      <4>1. QMap'[r] = QueueOf(r)'
        BY <1>9
      <4>2. SubSeq(log, Oldest, Len(log)) = SubSeq(log, Len(log) - Cap + 1, Len(log))
        BY <2>1
      <4>3. QED
        BY <2>2, <2>4, <4>1, <4>2, Zenon
    <3>3. QED
      BY <1>9, <3>1, <3>2, UpdatedAt, Zenon
  <2>6. lost' = [lost EXCEPT ![r] = @ \cup Queues!Entries(SubSeq(q, 1, Len(q) - Cap))]
    <3>1. Oldest - 1 = Len(log) - Cap
      BY <2>1, <1>5
    <3>2. {log[k] : k \in n..(Oldest - 1)} = {log[k] : k \in n..(Len(log) - Cap)}
      BY <3>1
    <3>4. {log[k] : k \in n..(Oldest - 1)} = Queues!Entries(SubSeq(q, 1, Len(q) - Cap))
      BY <2>2, <3>2, Zenon DEF Queues!Entries
    <3>3. QED
      BY <2>3, <3>4, Zenon
  <2>7. QED
    BY <1>1, <1>2, <1>3, <1>6, <2>2, <2>3, <2>5, <2>6, Zenon DEF Queues!Recv, QMap, SubMap
<1>8. CASE ~(n < Oldest)
  <2>1. ~(Len(q) > Cap)
    BY <1>1, <1>3, <1>5, <1>8 DEF Oldest
  <2>2. /\ got' = [got EXCEPT ![r] = @ \cup {log[n]}]
        /\ rx' = [rx EXCEPT ![r] = [state |-> "active", next |-> n + 1]]
        /\ UNCHANGED lost
    BY <1>8 DEF Recv
  <2>3. QueueOf(r)' = SubSeq(log, n + 1, Len(log))
    BY <1>1, <2>2, Zenon DEF QueueOf
  <2>4. QMap' = [QMap EXCEPT ![r] = Tail(q)]
    <3>1. \A r2 \in Receivers \ {r} : QMap'[r2] = QMap[r2]
      BY <1>4, <1>9 DEF QMap
    <3>2. QMap'[r] = Tail(q)
      <4>1. QMap'[r] = QueueOf(r)'
        BY <1>9
      <4>2. QED
        BY <1>3, <2>3, <4>1, Zenon
    <3>3. QED
      BY <1>9, <3>1, <3>2, UpdatedAt, Zenon
  <2>5. QED
    BY <1>1, <1>2, <1>3, <1>6, <2>1, <2>2, <2>4, Zenon DEF Queues!Recv, QMap, SubMap
<1>10. QED
  BY <1>7, <1>8

(* A step that leaves the log and every other receiver alone changes the  *)
(* images of the states and queues at r only.                              *)
LEMMA ChangedAt ==
    ASSUME NEW r \in Receivers, NEW v, NEW st,
           log' = log, \A r2 \in Receivers \ {r} : rx'[r2] = rx[r2],
           rx'[r].state = st, QueueOf(r)' = v
    PROVE  QMap' = [QMap EXCEPT ![r] = v] /\ SubMap' = [SubMap EXCEPT ![r] = st]
<1>1. \A r2 \in Receivers \ {r} : QMap'[r2] = QMap[r2] /\ SubMap'[r2] = SubMap[r2]
  BY Zenon DEF QMap, SubMap, QueueOf
<1>2. QMap'[r] = v /\ SubMap'[r] = st
  BY Zenon DEF QMap, SubMap
<1>3. /\ QMap = [r2 \in Receivers |-> QMap[r2]] /\ QMap' = [r2 \in Receivers |-> QMap'[r2]]
      /\ SubMap = [r2 \in Receivers |-> SubMap[r2]] /\ SubMap' = [r2 \in Receivers |-> SubMap'[r2]]
  BY DEF QMap, SubMap
<1>4. QMap' = [QMap EXCEPT ![r] = v]
  BY <1>1, <1>2, <1>3, UpdatedAt, Zenon
<1>5. SubMap' = [SubMap EXCEPT ![r] = st]
  BY <1>1, <1>2, <1>3, UpdatedAt, Zenon
<1>6. QED
  BY <1>4, <1>5

(* A step that leaves the log and the receivers alone leaves the queues.  *)
LEMMA SameQueues ==
    ASSUME log' = log, rx' = rx
    PROVE  QMap' = QMap /\ SubMap' = SubMap
BY Zenon DEF QMap, SubMap, QueueOf

(* A new receiver subscribes with an empty queue. *)
LEMMA SubscribeRefines ==
    ASSUME IInv, NEW r \in Receivers, Subscribe(r)
    PROVE  Queues!Subscribe(r)
<1>1. /\ task = "running" /\ rx[r].state = "idle" /\ log \in Seq(Msgs)
      /\ since' = [since EXCEPT ![r] = taken]
      /\ UNCHANGED <<kind, produced, closed, taken, task, log, got, lost, dropped>>
  BY DEF Subscribe, IInv, TypeOK
<1>2. /\ rx'[r] = [state |-> "active", next |-> Len(log) + 1]
      /\ \A r2 \in Receivers \ {r} : rx'[r2] = rx[r2]
  BY DEF Subscribe, IInv, TypeOK
<1>3. SubSeq(log, Len(log) + 1, Len(log)) = <<>>
  BY <1>1, EmptySuffix
<1>4. QueueOf(r)' = <<>>
  <2>1. rx'[r].state = "active" /\ rx'[r].next = Len(log) + 1
    BY <1>2
  <2>2. QueueOf(r)' = SubSeq(log', rx'[r].next, Len(log'))
    BY <2>1 DEF QueueOf
  <2>3. QED
    BY <1>1, <1>3, <2>1, <2>2
<1>5. QMap' = [QMap EXCEPT ![r] = <<>>] /\ SubMap' = [SubMap EXCEPT ![r] = "active"]
  <2>1. /\ log' = log /\ \A r2 \in Receivers \ {r} : rx'[r2] = rx[r2]
        /\ rx'[r].state = "active" /\ QueueOf(r)' = <<>>
    BY <1>1, <1>2, <1>4
  <2>2. QED
    BY <2>1, ChangedAt, Zenon
<1>6. SubMap[r] = "idle"
  BY <1>1 DEF SubMap
<1>7. QED
  BY <1>1, <1>5, <1>6, Zenon DEF Queues!Subscribe, QMap, SubMap

(* Closed is read only from a drained queue, which it leaves as it is. *)
LEMMA RecvClosedRefines ==
    ASSUME IInv, NEW r \in Receivers, RecvClosed(r)
    PROVE  Queues!RecvClosed(r)
<1>1. /\ rx[r].state = "active" /\ rx[r].next > Len(log) /\ task # "running"
      /\ log \in Seq(Msgs) /\ rx[r].next \in Nat
      /\ UNCHANGED <<kind, produced, closed, taken, task, log, since, got, lost, dropped>>
  BY DEF RecvClosed, IInv, TypeOK
<1>2. /\ rx'[r] = [state |-> "closed", next |-> rx[r].next]
      /\ \A r2 \in Receivers \ {r} : rx'[r2] = rx[r2]
  BY DEF RecvClosed, IInv, TypeOK
<1>3. QueueOf(r) = <<>>
  <2>1. SubSeq(log, rx[r].next, Len(log)) = <<>>
    BY <1>1, EmptySuffix
  <2>2. QED
    BY <1>1, <2>1 DEF QueueOf
<1>4. QueueOf(r)' = <<>>
  <2>1. rx'[r].state = "closed"
    BY <1>2
  <2>2. QED
    BY <2>1 DEF QueueOf
<1>5. QMap' = [QMap EXCEPT ![r] = <<>>] /\ SubMap' = [SubMap EXCEPT ![r] = "closed"]
  <2>1. /\ log' = log /\ \A r2 \in Receivers \ {r} : rx'[r2] = rx[r2]
        /\ rx'[r].state = "closed" /\ QueueOf(r)' = <<>>
    BY <1>1, <1>2, <1>4
  <2>2. QED
    BY <2>1, ChangedAt, Zenon
<1>6. QMap' = QMap
  <2>1. QMap[r] = <<>>
    BY <1>3 DEF QMap
  <2>2. QMap = [r2 \in Receivers |-> QMap[r2]]
    BY DEF QMap
  <2>3. QED
    BY <1>5, <2>1, <2>2, Zenon
<1>7. QMap[r] = <<>> /\ SubMap[r] = "active"
  BY <1>1, <1>3 DEF QMap, SubMap
<1>8. QED
  BY <1>1, <1>5, <1>6, <1>7, Zenon DEF Queues!RecvClosed, QMap, SubMap

(* A dropped receiver leaves with its queue. *)
LEMMA DropRxRefines ==
    ASSUME IInv, NEW r \in Receivers, DropRx(r)
    PROVE  Queues!DropRx(r)
<1>1. /\ rx[r].state = "active"
      /\ UNCHANGED <<kind, produced, closed, taken, task, log, since, got, lost, dropped>>
  BY DEF DropRx
<1>2. /\ rx'[r] = [state |-> "gone", next |-> rx[r].next]
      /\ \A r2 \in Receivers \ {r} : rx'[r2] = rx[r2]
  BY DEF DropRx, IInv, TypeOK
<1>3. QueueOf(r)' = <<>>
  <2>1. rx'[r].state = "gone"
    BY <1>2
  <2>2. QED
    BY <2>1 DEF QueueOf
<1>4. QMap' = [QMap EXCEPT ![r] = <<>>] /\ SubMap' = [SubMap EXCEPT ![r] = "gone"]
  <2>1. /\ log' = log /\ \A r2 \in Receivers \ {r} : rx'[r2] = rx[r2]
        /\ rx'[r].state = "gone" /\ QueueOf(r)' = <<>>
    BY <1>1, <1>2, <1>3
  <2>2. QED
    BY <2>1, ChangedAt, Zenon
<1>5. SubMap[r] = "active"
  BY <1>1 DEF SubMap
<1>6. QED
  BY <1>1, <1>4, <1>5, Zenon DEF Queues!DropRx, QMap, SubMap


(* The initial state maps to an initial state of the per-receiver queues. *)
LEMMA InitRefines == Init => Queues!Init
<1> SUFFICES ASSUME Init PROVE Queues!Init
  OBVIOUS
<1>1. \A r \in Receivers :
        rx[r].state = IF kind = "channelize" /\ r = FirstRx THEN "active" ELSE "idle"
  BY DEF Init
<1>2. \A r \in Receivers : QueueOf(r) = <<>>
  BY DEF Init, QueueOf
<1>3. QED
  BY <1>1, <1>2 DEF Init, Queues!Init

(* A step that leaves the log and the receivers alone is the same step of *)
(* the queues, or a stutter.                                              *)
LEMMA SourceStepRefines ==
    ASSUME log' = log, rx' = rx,
           Produce \/ CloseSource \/ Stop \/ Abort \/ UNCHANGED vars
    PROVE  [Queues!Next]_Queues!vars
<1>1. QMap' = QMap /\ SubMap' = SubMap
  BY SameQueues
<1>2. CASE Produce
  BY <1>1, <1>2 DEF Produce, Queues!Produce, Queues!Next, QMap, SubMap
<1>3. CASE CloseSource
  BY <1>1, <1>3 DEF CloseSource, Queues!CloseSource, Queues!Next, QMap, SubMap
<1>4. CASE Stop
  BY <1>1, <1>4 DEF Stop, Queues!Stop, Queues!Next, QMap, SubMap
<1>5. CASE Abort
  BY <1>1, <1>5 DEF Abort, Queues!Abort, Queues!Next, QMap, SubMap
<1>6. CASE UNCHANGED vars
  BY <1>1, <1>6 DEF vars, Queues!vars, QMap, SubMap
<1>7. QED
  BY <1>2, <1>3, <1>4, <1>5, <1>6

(* Every step of the fan-out is a step of the per-receiver queues, or a   *)
(* stutter of them.                                                        *)
LEMMA RefineStep == IInv /\ [Next]_vars => [Queues!Next]_Queues!vars
<1> SUFFICES ASSUME IInv, [Next]_vars PROVE [Queues!Next]_Queues!vars
  OBVIOUS
<1>1. CASE Produce \/ CloseSource \/ Stop \/ Abort \/ Quiet \/ UNCHANGED vars
  <2>1. log' = log /\ rx' = rx
    BY <1>1 DEF Produce, CloseSource, Stop, Abort, Quiet, vars
  <2>2. Produce \/ CloseSource \/ Stop \/ Abort \/ UNCHANGED vars
    BY <1>1 DEF Quiet
  <2>3. QED
    BY <2>1, <2>2, SourceStepRefines
<1>2. CASE Forward
  BY <1>2, ForwardRefines DEF Queues!Next
<1>3. ASSUME NEW r \in Receivers, Subscribe(r) \/ Recv(r) \/ RecvClosed(r) \/ DropRx(r)
      PROVE  Queues!Next
  <2>1. CASE Subscribe(r)
    BY <2>1, SubscribeRefines DEF Queues!Next
  <2>2. CASE Recv(r)
    BY <2>2, RecvRefines DEF Queues!Next
  <2>3. CASE RecvClosed(r)
    BY <2>3, RecvClosedRefines DEF Queues!Next
  <2>4. CASE DropRx(r)
    BY <2>4, DropRxRefines DEF Queues!Next
  <2>5. QED
    BY <1>3, <2>1, <2>2, <2>3, <2>4
<1>4. QED
  BY <1>1, <1>2, <1>3 DEF Next

(* The shared log with one cursor per receiver implements independent     *)
(* per-receiver queues (BroadcastQueues): every message the fan-out task   *)
(* of grpc_stream_utils.rs forwards is appended to the queue of every      *)
(* subscribed receiver and read in order, and Lagged reports exactly the   *)
(* messages beyond the newest Cap of a receiver's queue, for every value   *)
(* of the constants.                                                       *)
THEOREM QueuesRefinement == Spec => QueuesSpec
<1>1. Spec => []IInv
  BY InitIInv, IInvStep, PTL DEF Spec
<1>2. QED
  BY <1>1, InitRefines, RefineStep, PTL DEF Spec, QueuesSpec, Queues!Spec

=============================================================================
