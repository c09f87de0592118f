-------------------------- MODULE MessageQueueProofs --------------------------
(***************************************************************************)
(* Theorems about MessageQueue, for every number of entries, buffers and   *)
(* messages.                                                               *)
(***************************************************************************)
EXTENDS MessageQueue, ModularArithmetic, FiniteSetTheorems, SequenceTheorems

-----------------------------------------------------------------------------
(* Arithmetic.                                                             *)

\* A counter that wraps stays in its range.
LEMMA WrapRange ==
  ASSUME NEW n \in Int
  PROVE  Wrap(n) \in Counters
BY QueueAssumption DEF Wrap, Counters

\* The next value of a counter, and half the difference of two counters.
LEMMA WrapCounters ==
  ASSUME NEW n \in Counters, NEW k \in Counters
  PROVE  /\ Wrap(n + 1) \in Counters
         /\ Wrap(n - k) \div 2 \in Nat
<1>1. n + 1 \in Int /\ n - k \in Int
  BY DEF Counters
<1>2. Wrap(n + 1) \in Counters /\ Wrap(n - k) \in Counters
  BY <1>1, WrapRange
<1> QED BY <1>2, QueueAssumption DEF Counters

\* The entry a counter designates is an index of the array of entries.
LEMMA EntryRange ==
  ASSUME NEW n \in Counters
  PROVE  Entry(n) \in Slots
<1>1. n \div 2 \in Int
  BY DEF Counters
<1>2. QED
  BY <1>1, QueueAssumption DEF Entry, Slots

-----------------------------------------------------------------------------
(* Type correctness.                                                       *)

\* What a thread's program counter says of its other locals.
ThreadOK ==
  /\ \A p \in Producers :
       /\ pc[p] \in SendPCs
       /\ pc[p] \notin {"idle", "abort"} => sent[p] < MaxSends /\ msg[p] \in Messages
  /\ \A c \in Consumers : pc[c] \in RecvPCs

TypeInv == TypeOK /\ ThreadOK

\* Every step of a sender keeps the types.
LEMMA SendKeepsTypes ==
  ASSUME TypeInv, NEW p \in Producers, Send(p) \/ SendStep(p)
  PROVE  TypeInv'
<1> USE QueueAssumption DEF TypeInv, TypeOK, ThreadOK, Goto, queueVars, localVars, histVars,
        Procs, SendPCs, RecvPCs, EntryStates
<1>1. CASE SendStep(p)
  <2>1. ASSUME QueueTailAck(p) PROVE TypeInv'
    BY <2>1 DEF QueueTailAck
  <2>2. ASSUME QueueTailUpdate(p) PROVE TypeInv'
    BY <2>2, EntryRange DEF QueueTailUpdate
  <2>3. ASSUME CheckEntry(p) PROVE TypeInv'
    BY <2>3 DEF CheckEntry
  <2>4. ASSUME ReserveEntry(p) PROVE TypeInv'
    <3>1. 0 \in Buffers
      BY DEF Buffers
    <3> QED BY <2>4, <3>1 DEF ReserveEntry
  <2>5. ASSUME AllocBuffer(p) PROVE TypeInv'
    <3>1. hand[p] + 1 < NBuffers => hand[p] + 1 \in Buffers
      BY DEF Buffers
    <3>2. CASE ~magic_num[hand[p]]
      <4>1. /\ pc' = [pc EXCEPT ![p] = "fill"]
            /\ magic_num' = [magic_num EXCEPT ![hand[p]] = TRUE]
            /\ UNCHANGED hand
        BY <2>5, <3>2 DEF AllocBuffer
      <4> QED BY <2>5, <4>1 DEF AllocBuffer
    <3>3. CASE magic_num[hand[p]] /\ hand[p] + 1 < NBuffers
      <4>1. hand' = [hand EXCEPT ![p] = hand[p] + 1] /\ UNCHANGED <<pc, magic_num>>
        BY <2>5, <3>3 DEF AllocBuffer
      <4> QED BY <2>5, <3>1, <3>3, <4>1 DEF AllocBuffer
    <3>4. CASE magic_num[hand[p]] /\ hand[p] + 1 = NBuffers
      <4>1. pc' = [pc EXCEPT ![p] = "undo"] /\ UNCHANGED <<hand, magic_num>>
        BY <2>5, <3>4 DEF AllocBuffer
      <4> QED BY <2>5, <4>1 DEF AllocBuffer
    <3> QED BY <2>5, <3>2, <3>3, <3>4 DEF AllocBuffer
  <2>6. ASSUME UndoReserveRead(p) PROVE TypeInv'
    BY <2>6 DEF UndoReserveRead, ReadEntryState
  <2>7. ASSUME UndoReserve(p) PROVE TypeInv'
    BY <2>7 DEF UndoReserve, XchgState
  <2>8. ASSUME FillBuffer(p) PROVE TypeInv'
    BY <2>8 DEF FillBuffer
  <2>9. ASSUME LinkBufferRead(p) PROVE TypeInv'
    BY <2>9 DEF LinkBufferRead
  <2>10. ASSUME LinkBuffer(p) PROVE TypeInv'
    BY <2>10 DEF LinkBuffer
  <2>11. ASSUME MarkAllocated(p) PROVE TypeInv'
    BY <2>11 DEF MarkAllocated
  <2>12. ASSUME PushReadUpdate(p) PROVE TypeInv'
    BY <2>12 DEF PushReadUpdate
  <2>13. ASSUME PushReadAck(p) PROVE TypeInv'
    BY <2>13 DEF PushReadAck
  <2>14. ASSUME PushBegin(p) PROVE TypeInv'
    <3>1. Wrap(update_counter + 1) \in Counters
      BY WrapCounters
    <3> QED BY <2>14, <3>1 DEF PushBegin
  <2>15. ASSUME PushEnd(p) PROVE TypeInv'
    <3>1. Wrap(update_counter + 1) \in Counters
      BY WrapCounters
    <3>2. log' \in Seq(Messages \cup {NoMsg})
      BY <2>15 DEF PushEnd
    <3>3. sent' \in [Producers -> 0 .. MaxSends]
      <4>1. sent[p] \in 0 .. MaxSends /\ sent[p] < MaxSends
        BY <2>15 DEF PushEnd
      <4>2. sent[p] + 1 \in 0 .. MaxSends
        BY <4>1
      <4> QED BY <2>15, <4>2 DEF PushEnd
    <3> QED BY <2>15, <3>1, <3>2, <3>3 DEF PushEnd
  <2> QED BY <1>1, <2>1, <2>2, <2>3, <2>4, <2>5, <2>6, <2>7, <2>8, <2>9, <2>10, <2>11, <2>12,
             <2>13, <2>14, <2>15 DEF SendStep
<1>2. CASE Send(p)
  <2>1. <<p, sent[p] + 1>> \in Messages
    BY <1>2 DEF Send, Messages
  <2> QED BY <1>2, <2>1 DEF Send
<1> QED BY <1>1, <1>2

\* Every step of a receiver keeps the types.
LEMMA RecvKeepsTypes ==
  ASSUME TypeInv, NEW c \in Consumers, Recv(c) \/ RecvStep(c) \/ PktFree(c) \/ AvailableAck(c)
  PROVE  TypeInv'
<1> USE QueueAssumption DEF TypeInv, TypeOK, ThreadOK, Goto, queueVars, localVars, histVars,
        Procs, SendPCs, RecvPCs, EntryStates
<1>1. CASE RecvStep(c)
  <2>1. ASSUME QueueHeadUpdate(c) PROVE TypeInv'
    BY <2>1 DEF QueueHeadUpdate
  <2>2. ASSUME QueueHeadAck(c) PROVE TypeInv'
    BY <2>2, EntryRange DEF QueueHeadAck, GiveUp
  <2>3. ASSUME ReadState(c) PROVE TypeInv'
    BY <2>3 DEF ReadState, ReadEntryState
  <2>4. ASSUME ReadIndex(c) PROVE TypeInv'
    BY <2>4 DEF ReadIndex, GiveUp
  <2>5. ASSUME TakeEntry(c) PROVE TypeInv'
    BY <2>5 DEF TakeEntry
  <2>6. ASSUME CopyBuffer(c) PROVE TypeInv'
    <3>1. 0 \in Buffers
      BY DEF Buffers
    <3>2. qindex[c] \in Slots /\ buff_index[qindex[c]] \in Buffers \cup {NoBuffer}
      OBVIOUS
    <3> QED BY <2>6, <3>1, <3>2 DEF CopyBuffer
  <2>7. ASSUME FreeBuffer(c) PROVE TypeInv'
    BY <2>7 DEF FreeBuffer
  <2>8. ASSUME ClearEntry(c) PROVE TypeInv'
    BY <2>8 DEF ClearEntry
  <2>9. ASSUME ReleaseEntryRead(c) PROVE TypeInv'
    BY <2>9 DEF ReleaseEntryRead, ReadEntryState
  <2>10. ASSUME ReleaseEntry(c) PROVE TypeInv'
    BY <2>10 DEF ReleaseEntry, XchgState
  <2>11. ASSUME PopReadAck(c) PROVE TypeInv'
    BY <2>11 DEF PopReadAck
  <2>12. ASSUME PopReadUpdate(c) PROVE TypeInv'
    BY <2>12 DEF PopReadUpdate
  <2>13. ASSUME PopBegin(c) PROVE TypeInv'
    <3>1. Wrap(ack_counter + 1) \in Counters
      BY WrapCounters
    <3> QED BY <2>13, <3>1 DEF PopBegin
  <2>14. ASSUME PopEnd(c) PROVE TypeInv'
    <3>1. Wrap(ack_counter + 1) \in Counters
      BY WrapCounters
    <3>2. received' \in Seq(Messages \cup {NoMsg})
      BY <2>14 DEF PopEnd
    <3> QED BY <2>14, <3>1, <3>2 DEF PopEnd
  <2>15. ASSUME AvailableUpdate(c) PROVE TypeInv'
    <3>1. Wrap(update_counter - counter[c]) \div 2 \in Nat
      BY WrapCounters
    <3> QED BY <2>15, <3>1 DEF AvailableUpdate
  <2> QED BY <1>1, <2>1, <2>2, <2>3, <2>4, <2>5, <2>6, <2>7, <2>8, <2>9, <2>10, <2>11, <2>12,
             <2>13, <2>14, <2>15 DEF RecvStep
<1>2. CASE Recv(c)
  BY <1>2 DEF Recv
<1>3. CASE PktFree(c)
  BY <1>3 DEF PktFree
<1>4. CASE AvailableAck(c)
  BY <1>4 DEF AvailableAck
<1> QED BY <1>1, <1>2, <1>3, <1>4

\* In every reachable state of every instance the variables have their types:
\* no entry, buffer or counter leaves its range.
THEOREM TypeCorrect == Spec => []TypeOK
<1>1. Init => TypeInv
  BY QueueAssumption DEF Init, TypeInv, TypeOK, ThreadOK, Procs, SendPCs, RecvPCs, EntryStates,
     Counters, Slots, Buffers, NoBuffer
<1>2. TypeInv /\ [Next]_vars => TypeInv'
  <2>1. CASE Next
    BY <2>1, SendKeepsTypes, RecvKeepsTypes DEF Next
  <2>2. CASE UNCHANGED vars
    BY <2>2 DEF vars, queueVars, localVars, histVars, TypeInv, TypeOK, ThreadOK
  <2> QED BY <2>1, <2>2
<1>3. TypeInv => TypeOK
  BY DEF TypeInv
<1> QED BY <1>1, <1>2, <1>3, PTL DEF Spec


-----------------------------------------------------------------------------
(* One sender and one receiver.                                            *)

Sender   == CHOOSE p \in Producers : TRUE
Receiver == CHOOSE c \in Consumers : TRUE

\* What the protocol is for: one thread sends to the endpoint, one receives.
OneEach == Producers = {Sender} /\ Consumers = {Receiver}

\* The ring of entries fits the counters: either their wrap is not reached, or
\* it leaves the entry a counter designates where it was.
RingFits == 2 * MaxSends <= CounterMod \/ CounterMod % (2 * Entries) = 0

\* The entry of message number i (from 0).
Pos(i) == Entry(Wrap(2 * i))

-----------------------------------------------------------------------------
(* Arithmetic of the counters.                                             *)

\* An even number stays even when it wraps, and the odd one after it follows.
LEMMA WrapEven ==
  ASSUME NEW n \in Int
  PROVE  /\ Wrap(2 * n) \in Counters /\ Wrap(2 * n) % 2 = 0
         /\ Wrap(2 * n + 1) = Wrap(2 * n) + 1
<1>1. PICK h \in Nat : CounterMod = 2 * h /\ h > 0
  <2>1. CounterMod \div 2 \in Int /\ CounterMod = (2 * (CounterMod \div 2)) + (CounterMod % 2)
    BY QueueAssumption, DivMod
  <2> QED BY <2>1, QueueAssumption
<1>2. n \div h \in Int /\ n % h \in 0 .. h - 1 /\ n = (h * (n \div h)) + (n % h)
  BY <1>1, DivMod
<1> DEFINE q == n \div h  r == n % h
<1>3. q \in Int /\ r \in 0 .. h - 1 /\ n = h * q + r
  BY <1>2
<1> HIDE DEF q, r
<1>4. 2 * n = CounterMod * q + 2 * r /\ 2 * n + 1 = CounterMod * q + (2 * r + 1)
  <2>1. (2 * h) * q = 2 * (h * q) /\ h * q \in Int
    BY <1>1, <1>3
  <2> QED BY <1>1, <1>3, <2>1
<1>5. 2 * r \in 0 .. CounterMod - 1 /\ 2 * r + 1 \in 0 .. CounterMod - 1
  BY <1>1, <1>3
<1>6. Wrap(2 * n) = 2 * r /\ Wrap(2 * n + 1) = 2 * r + 1
  BY SMTT(30), <1>3, <1>4, <1>5, QueueAssumption, ModIs DEF Wrap
<1>7. (2 * r) % 2 = 0
  BY <1>3
<1> QED BY <1>5, <1>6, <1>7 DEF Counters

\* Counters are incremented, subtracted and compared as the numbers they stand
\* for.
LEMMA WrapArithmetic ==
  ASSUME NEW a \in Int, NEW b \in Int
  PROVE  /\ Wrap(Wrap(a) + 1) = Wrap(a + 1)
         /\ Wrap(Wrap(a) - Wrap(b)) = Wrap(a - b)
         /\ a \in 0 .. CounterMod - 1 => Wrap(a) = a
<1> USE QueueAssumption
<1>1. CounterMod \in Nat /\ CounterMod > 0
  OBVIOUS
<1>2. Wrap(Wrap(a) + 1) = Wrap(a + 1)
  <2>1. \A x \in Int : ((a % CounterMod) + x) % CounterMod = (a + x) % CounterMod
    BY <1>1, ModSum
  <2> QED BY <2>1 DEF Wrap
<1>3. Wrap(Wrap(a) - Wrap(b)) = Wrap(a - b)
  BY <1>1, ModSum DEF Wrap
<1>4. a \in 0 .. CounterMod - 1 => Wrap(a) = a
  BY <1>1, ModSmall DEF Wrap
<1> QED BY <1>2, <1>3, <1>4

\* The two increments of a push or a pop.
LEMMA WrapNext ==
  ASSUME NEW n \in Nat
  PROVE  Wrap(Wrap(2 * n) + 1) = Wrap(2 * n + 1) /\ Wrap(Wrap(2 * n + 1) + 1) = Wrap(2 * (n + 1))
<1>1. \A a \in Int : Wrap(Wrap(a) + 1) = Wrap(a + 1)
  BY WrapArithmetic
<1>2. 2 * n \in Int /\ 2 * n + 1 \in Int /\ (2 * n + 1) + 1 = 2 * (n + 1)
  OBVIOUS
<1>3. Wrap(Wrap(2 * n + 1) + 1) = Wrap((2 * n + 1) + 1)
  BY <1>1, <1>2
<1> QED BY <1>1, <1>2, <1>3

\* The last completed operation, and the entry, that a counter stands for.
LEMMA LastOpIs ==
  ASSUME NEW n \in Int, NEW e \in {0, 1}
  PROVE  /\ LastOp(Wrap(2 * n + e)) = Wrap(2 * n)
         /\ Entry(Wrap(2 * n + e)) = Pos(n)
         /\ LastOp(Wrap(2 * n)) = Wrap(2 * n) /\ Entry(Wrap(2 * n)) = Pos(n)
<1>1. /\ Wrap(2 * n) \in Counters /\ Wrap(2 * n) % 2 = 0
      /\ Wrap(2 * n + 1) = Wrap(2 * n) + 1
  BY WrapEven
<1>2. Wrap(2 * n + e) = Wrap(2 * n) + e
  <2>1. CASE e = 0
    <3>1. 2 * n + e = 2 * n
      BY <2>1
    <3> QED BY <2>1, <3>1, <1>1 DEF Counters
  <2>2. CASE e = 1
    BY <2>2, <1>1
  <2> QED BY <2>1, <2>2
<1> DEFINE w == Wrap(2 * n)
<1>3. w \in Int /\ w % 2 = 0
  BY <1>1 DEF Counters
<1> HIDE DEF w
<1>4. (w + e) \div 2 = w \div 2 /\ 2 * (w \div 2) = w
  BY <1>3
<1>5. LastOp(w) = w /\ LastOp(w + e) = w /\ Entry(w + e) = Entry(w)
  BY <1>4 DEF LastOp, Entry
<1> QED BY <1>5, <1>2, <1>4 DEF LastOp, Entry, Pos, w

\* mcapi_trans_queue_tail and push_queue: what the status says of the numbers.
LEMMA TailStatusIs ==
  ASSUME NEW n \in Int, NEW a \in Int, a <= 2 * n, 2 * n <= a + 2 * Entries
  PROVE  TailStatus(Wrap(2 * n), Wrap(a)) =
           IF 2 * n - a = 2 * Entries THEN "FULL"
           ELSE IF 2 * n - a = 2 * Entries - 1 THEN "FULL_CONSUMER_READING"
           ELSE "SUCCESS"
<1>1. LastOp(Wrap(2 * n)) = Wrap(2 * n)
  BY LastOpIs
<1>2. Wrap(Wrap(2 * n) - Wrap(a)) = Wrap(2 * n - a) /\ 2 * n - a \in 0 .. CounterMod - 1
  BY WrapArithmetic, QueueAssumption
<1>3. Wrap(2 * n - a) = 2 * n - a
  BY <1>2, WrapArithmetic
<1>4. SignedDiff(Wrap(2 * n), Wrap(a)) = 2 * n - a
  BY <1>2, <1>3, QueueAssumption DEF SignedDiff
<1> QED BY <1>1, <1>4, QueueAssumption DEF TailStatus

\* mcapi_trans_queue_head and pop_queue, likewise.
LEMMA HeadStatusIs ==
  ASSUME NEW k \in Int, NEW u \in Int,
         2 * k <= u, u <= 2 * k + 2 * Entries + 1
  PROVE  /\ Wrap(Wrap(u) - Wrap(2 * k)) = u - 2 * k
         /\ HeadStatus(Wrap(u), Wrap(2 * k)) =
              IF u = 2 * k THEN "EMPTY"
              ELSE IF u = 2 * k + 1 THEN "EMPTY_PRODUCER_INSERTING"
              ELSE "SUCCESS"
<1>1. LastOp(Wrap(2 * k)) = Wrap(2 * k)
  BY LastOpIs
<1>2. Wrap(Wrap(u) - Wrap(2 * k)) = Wrap(u - 2 * k) /\ u - 2 * k \in 0 .. CounterMod - 1
  BY WrapArithmetic, QueueAssumption
<1>3. Wrap(u - 2 * k) = u - 2 * k
  BY <1>2, WrapArithmetic
<1> QED BY <1>1, <1>2, <1>3, QueueAssumption DEF HeadStatus

\* Messages that may be in the queue together have different entries.
LEMMA PosDistinct ==
  ASSUME RingFits, NEW i \in Nat, NEW j \in Nat, i < j, j < i + Entries, j < MaxSends
  PROVE  Pos(i) # Pos(j)
<1> USE QueueAssumption
<1>1. \A n \in Nat : n < MaxSends => Pos(n) = n % Entries
  <2>1. CASE 2 * MaxSends <= CounterMod
    <3> SUFFICES ASSUME NEW n \in Nat, n < MaxSends PROVE Pos(n) = n % Entries
      OBVIOUS
    <3>1. Wrap(2 * n) = 2 * n
      BY <2>1, WrapArithmetic
    <3>2. (2 * n) \div 2 = n
      OBVIOUS
    <3> QED BY <3>1, <3>2 DEF Pos, Entry
  <2>2. CASE CounterMod % (2 * Entries) = 0
    <3> SUFFICES ASSUME NEW n \in Nat, n < MaxSends PROVE Pos(n) = n % Entries
      OBVIOUS
    <3>1. PICK k \in Nat : k > 0 /\ CounterMod = (2 * Entries) * k
      <4> DEFINE d == CounterMod \div (2 * Entries)
      <4>1. d \in Int /\ CounterMod = (2 * Entries) * d
        BY <2>2, DivMod
      <4>2. d > 0
        <5> SUFFICES ASSUME d <= 0 PROVE FALSE
          BY <4>1
        <5>1. (2 * Entries) * d <= 0
          <6>1. 0 - d \in Nat /\ 2 * Entries \in Nat
            BY <4>1
          <6>2. \A x, y \in Nat : x * y \in Nat
            OBVIOUS
          <6>3. (2 * Entries) * (0 - d) \in Nat
            BY <6>1, <6>2
          <6>4. (2 * Entries) * (0 - d) = 0 - (2 * Entries) * d
            BY <4>1
          <6> QED BY <4>1, <6>3, <6>4
        <5> QED BY <4>1, <5>1
      <4> QED BY <4>1, <4>2
    <3> DEFINE M == Entries * k  q == n \div M  r == n % M
    <3>2. M \in Nat /\ M > 0 /\ CounterMod = 2 * M
      BY <3>1
    <3>3. q \in Int /\ r \in 0 .. M - 1 /\ n = M * q + r
      BY <3>2, DivMod
    <3>4. r % Entries = n % Entries
      <4>1. n \in Int /\ Entries \in Nat /\ Entries > 0
        OBVIOUS
      <4> QED BY <3>1, <4>1, ModOfMultiple
    <3> HIDE DEF q, r, M
    <3>5. 2 * n = CounterMod * q + 2 * r
      <4>1. (2 * M) * q = 2 * (M * q) /\ M * q \in Int
        BY <3>2, <3>3
      <4> QED BY <3>2, <3>3, <4>1
    <3>6. Wrap(2 * n) = 2 * r
      <4>1. /\ 2 * r \in 0 .. CounterMod - 1 /\ 2 * n \in Int
            /\ CounterMod \in Nat /\ CounterMod > 0
        BY <3>2, <3>3
      <4>2. (2 * n) % CounterMod = 2 * r
        BY <3>3, <3>5, <4>1, ModIs
      <4> QED BY <4>2 DEF Wrap
    <3>7. (2 * r) \div 2 = r
      BY <3>3
    <3> QED BY <3>4, <3>6, <3>7 DEF Pos, Entry
  <2> QED BY <2>1, <2>2 DEF RingFits
<1>2. i % Entries # j % Entries
  <2>1. i \in Int /\ j \in Int /\ Entries \in Nat
    OBVIOUS
  <2> QED BY <2>1, ModWindow
<1> QED BY <1>1, <1>2

-----------------------------------------------------------------------------
(* The inductive invariant.                                                *)

\* The two counters, as numbers that do not wrap: twice the pushes and twice
\* the pops, and one more inside an operation.
UpdateCount == IF pc[Sender] = "push_inc" THEN 2 * Len(log) + 1 ELSE 2 * Len(log)
AckCount    == IF pc[Receiver] = "pop_inc" THEN 2 * Len(received) + 1
                                             ELSE 2 * Len(received)

\* The counters say how many messages were pushed and popped.
CountersInv ==
  /\ Len(log) = sent[Sender]
  /\ Len(received) <= Len(log) /\ Len(log) <= Len(received) + Entries
  /\ update_counter = Wrap(UpdateCount) /\ ack_counter = Wrap(AckCount)

\* places where the sender, or the receiver, works on one entry
AtTail == {"check", "reserve", "alloc", "undo", "undo_cas", "fill", "link", "link_cas",
           "mark", "push_uc", "push_ac", "push_cas", "push_inc"}
AtHead == {"read_state", "read_index", "take", "copy", "free", "clear", "release",
           "release_cas", "pop_ac", "pop_uc", "pop_cas", "pop_inc"}

\* What the sender has read is old, but not too old: an ack counter from the
\* past understates the room.  Past the check there is room, and its entry is
\* the tail.
SenderInv ==
  /\ pc[Sender] = "tail_uc" =>
       \E a \in 0 .. AckCount : counter[Sender] = Wrap(a) /\ 2 * Len(log) <= a + 2 * Entries
  /\ pc[Sender] \in AtTail =>
       Len(log) < Len(received) + Entries /\ qindex[Sender] = Pos(Len(log))
  /\ pc[Sender] \in {"push_ac", "push_cas", "push_inc"} =>
       counter[Sender] = Wrap(2 * Len(log))

\* The same for the receiver; and no call has promised more than there is.
ReceiverInv ==
  /\ pc[Receiver] = "head_ac" =>
       \E u \in 0 .. UpdateCount :
         counter[Receiver] = Wrap(u) /\ 2 * (Len(received) + promise[Receiver]) <= u
  /\ pc[Receiver] \in AtHead =>
       Len(received) < Len(log) /\ qindex[Receiver] = Pos(Len(received))
  /\ pc[Receiver] \in {"pop_uc", "pop_cas", "pop_inc", "avail"} =>
       counter[Receiver] = Wrap(2 * Len(received))
  /\ Len(received) + promise[Receiver] <= Len(log)

CountInv == TypeInv /\ CountersInv /\ SenderInv /\ ReceiverInv

\* entry s holds message m
Holds(s, m) == state[s] = "ALLOCATED" /\ buff_index[s] # NoBuffer /\ buff[buff_index[s]] = m

\* The messages between the two counters are in their entries, but for the one
\* the receiver is taking out.
WaitingInv ==
  \A i \in Len(received) .. Len(log) - 1 :
    Holds(Pos(i), log[i + 1]) \/ (i = Len(received) /\ Removing(Receiver))

\* All other entries are free, but for the one the sender is filling.
FreeInv ==
  \A s \in Slots :
    \/ \E i \in Len(received) .. Len(log) - 1 : s = Pos(i)
    \/ s = Pos(Len(log)) /\ Inserting(Sender)
    \/ state[s] = "FREE" /\ buff_index[s] = NoBuffer

\* The entry the sender is filling.
TailInv ==
  LET s == qindex[Sender]
      at == pc[Sender]
  IN  /\ Inserting(Sender) =>
           state[s] = IF at \in {"push_uc", "push_ac", "push_cas", "push_inc"}
                      THEN "ALLOCATED" ELSE "RESERVED"
      /\ at \in {"alloc", "undo", "undo_cas", "fill", "link", "link_cas"} =>
           buff_index[s] = NoBuffer
      /\ at = "link_cas" => oldindex[Sender] = NoBuffer
      /\ at = "undo_cas" => oldbstate[Sender] = "RESERVED"
      /\ at \in {"link", "link_cas"} => buff[hand[Sender]] = msg[Sender]
      /\ at \in {"mark", "push_uc", "push_ac", "push_cas", "push_inc"} =>
           buff_index[s] = hand[Sender] /\ buff[hand[Sender]] = msg[Sender]

\* The entry the receiver is emptying.
HeadInv ==
  LET s == qindex[Receiver]
      at == pc[Receiver]
      next == log[Len(received) + 1]
  IN  /\ Removing(Receiver) =>
           state[s] = IF at \in {"pop_ac", "pop_uc", "pop_cas", "pop_inc"}
                      THEN "FREE" ELSE "RECEIVED"
      /\ at = "read_index" => oldbstate[Receiver] = "ALLOCATED"
      /\ at = "release_cas" => oldbstate[Receiver] = "RECEIVED"
      /\ at = "copy" => buff_index[s] # NoBuffer /\ buff[buff_index[s]] = next
      /\ at \in {"free", "clear"} => buff_index[s] = hand[Receiver]
      /\ at \in {"release", "release_cas", "pop_ac", "pop_uc", "pop_cas", "pop_inc"} =>
           buff_index[s] = NoBuffer
      /\ (Removing(Receiver) /\ at # "copy") =>
           /\ msg[Receiver] = next
           /\ Packet => buff[hand[Receiver]] = next
      /\ at = "free" => ~Packet

\* entry s keeps buffer b in use
Names(s, b) ==
  /\ buff_index[s] = b
  /\ Packet \/ pc[Receiver] # "clear" \/ qindex[Receiver] # s

\* a thread has a buffer that no entry names
SenderOwns   == pc[Sender] \in {"fill", "link", "link_cas"}
ReceiverOwns == Packet /\ pc[Receiver] \in {"release", "release_cas", "pop_ac", "pop_uc",
                                            "pop_cas", "pop_inc"}

\* A buffer has at most one owner: an entry, a thread or a packet of the
\* application.
OwnerInv ==
  /\ \A s, t \in Slots, b \in Buffers : Names(s, b) /\ Names(t, b) => s = t
  /\ SenderOwns => \A s \in Slots : ~Names(s, hand[Sender])
  /\ ReceiverOwns => \A s \in Slots : ~Names(s, hand[Receiver])
  /\ SenderOwns /\ ReceiverOwns => hand[Sender] # hand[Receiver]
  /\ \A h \in held[Receiver] :
       /\ \A s \in Slots : ~Names(s, h[1])
       /\ SenderOwns => hand[Sender] # h[1]
       /\ ReceiverOwns => hand[Receiver] # h[1]
       /\ \A g \in held[Receiver] : g[1] = h[1] => g = h

\* A buffer is marked if and only if it has an owner.
MarkInv ==
  \A b \in Buffers :
    magic_num[b] <=> \/ \E s \in Slots : Names(s, b)
                     \/ SenderOwns /\ hand[Sender] = b
                     \/ ReceiverOwns /\ hand[Receiver] = b
                     \/ \E h \in held[Receiver] : h[1] = b

\* What was received is the beginning of what was sent.
OrderInv == \A i \in 1 .. Len(received) : received[i] = log[i]

IInv == /\ CountInv /\ WaitingInv /\ FreeInv /\ TailInv /\ HeadInv /\ OwnerInv /\ MarkInv
        /\ HeldPacketIntact /\ OrderInv /\ NoAssertFails

\* The two threads.
LEMMA TwoThreads ==
  ASSUME OneEach
  PROVE  /\ Sender \in Producers /\ Receiver \in Consumers /\ Sender # Receiver
         /\ Sender \in Procs /\ Receiver \in Procs /\ Procs = {Sender, Receiver}
         /\ Producers = {Sender} /\ Consumers = {Receiver}
BY QueueAssumption DEF OneEach, Procs

\* The types that the proofs about the counters use.
LEMMA CountTypes ==
  ASSUME OneEach, CountInv
  PROVE  /\ Len(log) \in Nat /\ Len(received) \in Nat /\ promise[Receiver] \in Nat
         /\ Entries \in Nat /\ Entries > 0
         /\ pc[Sender] \in SendPCs /\ pc[Receiver] \in RecvPCs
         /\ DOMAIN pc = Procs /\ DOMAIN counter = Procs /\ DOMAIN qindex = Procs
         /\ DOMAIN sent = Producers /\ DOMAIN promise = Consumers
BY TwoThreads, QueueAssumption DEF CountInv, TypeInv, TypeOK, ThreadOK

\* How far the counters are apart.
LEMMA CountBounds ==
  ASSUME OneEach, CountInv
  PROVE  /\ Len(received) <= Len(log) /\ Len(log) <= Len(received) + Entries
         /\ Len(received) + promise[Receiver] <= Len(log)
         /\ UpdateCount \in Nat
         /\ 2 * Len(log) <= UpdateCount /\ UpdateCount <= 2 * Len(log) + 1
         /\ AckCount \in Nat
         /\ 2 * Len(received) <= AckCount /\ AckCount <= 2 * Len(received) + 1
         /\ AckCount <= 2 * Len(log) /\ 2 * Len(log) <= AckCount + 2 * Entries
<1>1. Len(log) \in Nat /\ Len(received) \in Nat /\ Entries \in Nat /\ promise[Receiver] \in Nat
  BY CountTypes
<1>2. /\ Len(received) <= Len(log) /\ Len(log) <= Len(received) + Entries
      /\ Len(received) + promise[Receiver] <= Len(log)
      /\ pc[Receiver] = "pop_inc" => Len(received) < Len(log)
  BY DEF CountInv, CountersInv, ReceiverInv, AtHead
<1>3. UpdateCount = 2 * Len(log) \/ UpdateCount = 2 * Len(log) + 1
  BY DEF UpdateCount
<1>4. \/ AckCount = 2 * Len(received)
      \/ AckCount = 2 * Len(received) + 1 /\ Len(received) < Len(log)
  BY <1>2 DEF AckCount
<1>5. 2 * Len(log) <= 2 * Len(received) + 2 * Entries
  BY <1>1, <1>2
<1> QED BY <1>1, <1>2, <1>3, <1>4, <1>5

\* A step of the sender keeps the counters' meaning.
LEMMA SendKeepsCounts ==
  ASSUME OneEach, CountInv, Send(Sender) \/ SendStep(Sender)
  PROVE  (CountersInv /\ SenderInv /\ ReceiverInv)'
<1> DEFINE S == Sender  R == Receiver  n == Len(log)  k == Len(received)
<1>1. /\ S \in Producers /\ R \in Consumers /\ S # R
      /\ S \in Procs /\ R \in Procs
  BY TwoThreads
<1>2. /\ n \in Nat /\ k \in Nat /\ promise[R] \in Nat /\ Entries \in Nat /\ Entries > 0
      /\ pc[S] \in SendPCs /\ pc[R] \in RecvPCs
      /\ DOMAIN pc = Procs /\ DOMAIN counter = Procs /\ DOMAIN qindex = Procs
      /\ DOMAIN sent = Producers /\ DOMAIN promise = Consumers
  BY CountTypes
<1>3. k <= n /\ n <= k + Entries /\ k + promise[R] <= n
  BY CountBounds
<1>4. /\ UpdateCount \in Nat /\ 2 * n <= UpdateCount /\ UpdateCount <= 2 * n + 1
      /\ AckCount \in Nat /\ 2 * k <= AckCount /\ AckCount <= 2 * k + 1 /\ AckCount <= 2 * n
      /\ 2 * n <= AckCount + 2 * Entries
  BY CountBounds
<1>5. /\ Wrap(Wrap(2 * n) + 1) = Wrap(2 * n + 1) /\ Entry(Wrap(2 * n)) = Pos(n)
      /\ Wrap(Wrap(2 * n + 1) + 1) = Wrap(2 * (n + 1))
  BY <1>2, WrapNext, LastOpIs
<1>6. \A a \in 0 .. AckCount : 2 * n <= a + 2 * Entries =>
        (TailStatus(Wrap(2 * n), Wrap(a)) = "SUCCESS" <=> 2 * n < a + 2 * Entries - 1)
  <2> SUFFICES ASSUME NEW a \in 0 .. AckCount, 2 * n <= a + 2 * Entries
               PROVE  TailStatus(Wrap(2 * n), Wrap(a)) = "SUCCESS" <=> 2 * n < a + 2 * Entries - 1
    OBVIOUS
  <2>1. a \in Int /\ n \in Int /\ a <= 2 * n
    BY <1>2, <1>4
  <2> QED BY <1>2, <2>1, TailStatusIs
<1> USE <1>1, <1>2, <1>3, <1>4
<1> USE DEF Goto, queueVars, localVars, histVars, CountInv, CountersInv, SenderInv, ReceiverInv,
            UpdateCount, AckCount, AtTail, AtHead, SendPCs, RecvPCs
<1>7. CASE Send(S)
  BY <1>7 DEF Send
<1>8. CASE QueueTailAck(S)
  <2>1. counter'[S] = Wrap(AckCount) /\ AckCount' = AckCount /\ n' = n
    BY <1>8 DEF QueueTailAck
  <2>2. SenderInv'
    BY SMTT(30), <1>8, <2>1 DEF QueueTailAck
  <2> QED BY <1>8, <2>2 DEF QueueTailAck
<1>9. CASE QueueTailUpdate(S)
  <2>1. PICK a \in 0 .. AckCount : counter[S] = Wrap(a) /\ 2 * n <= a + 2 * Entries
    BY <1>9 DEF QueueTailUpdate
  <2>2. update_counter = Wrap(2 * n)
    BY <1>9 DEF QueueTailUpdate
  <2>3. TailStatus(update_counter, counter[S]) = "SUCCESS" => n < k + Entries
    <3>1. TailStatus(Wrap(2 * n), Wrap(a)) = "SUCCESS" => 2 * n < a + 2 * Entries - 1
      BY <2>1, <1>6
    <3>2. 2 * n < a + 2 * Entries - 1 => n < k + Entries
      OBVIOUS
    <3> QED BY <2>1, <2>2, <3>1, <3>2
  <2> QED BY <1>9, <2>2, <2>3, <1>5 DEF QueueTailUpdate
<1>10. CASE CheckEntry(S)
  BY <1>10 DEF CheckEntry
<1>11. CASE ReserveEntry(S)
  BY <1>11 DEF ReserveEntry
<1>12. CASE AllocBuffer(S)
  BY <1>12 DEF AllocBuffer
<1>13. CASE UndoReserveRead(S)
  BY <1>13 DEF UndoReserveRead, ReadEntryState
<1>14. CASE UndoReserve(S)
  BY <1>14 DEF UndoReserve, XchgState
<1>15. CASE FillBuffer(S)
  BY <1>15 DEF FillBuffer
<1>16. CASE LinkBufferRead(S)
  BY <1>16 DEF LinkBufferRead
<1>17. CASE LinkBuffer(S)
  BY <1>17 DEF LinkBuffer
<1>18. CASE MarkAllocated(S)
  BY <1>18 DEF MarkAllocated
<1>19. CASE PushReadUpdate(S)
  BY <1>19 DEF PushReadUpdate
<1>20. CASE PushReadAck(S)
  BY <1>20 DEF PushReadAck
<1>21. CASE PushBegin(S)
  <2>1. counter[S] = Wrap(2 * n) /\ update_counter = Wrap(2 * n)
    BY <1>21 DEF PushBegin
  <2>2. pc'[S] = "push_inc" /\ update_counter' = Wrap(2 * n + 1)
    BY <1>21, <2>1, <1>5 DEF PushBegin
  <2>3. CountersInv'
    BY <1>21, <2>2 DEF PushBegin
  <2>4. UpdateCount <= UpdateCount' /\ UpdateCount' \in Nat
    BY <1>21, <2>2 DEF PushBegin
  <2>5. SenderInv'
    BY <1>21, <2>1, <2>2 DEF PushBegin
  <2>6. ReceiverInv'
    BY SMTT(30), <1>21, <2>4 DEF PushBegin
  <2> QED BY <2>3, <2>5, <2>6
<1>22. CASE PushEnd(S)
  <2>1. Len(log') = n + 1 /\ sent'[S] = sent[S] + 1
    BY <1>22 DEF PushEnd, TypeInv, TypeOK
  <2>2. n < k + Entries /\ update_counter = Wrap(2 * n + 1)
    BY <1>22 DEF PushEnd
  <2>3. update_counter' = Wrap(2 * Len(log'))
    BY <1>22, <2>1, <2>2, <1>5 DEF PushEnd
  <2>4. CountersInv'
    BY SMTT(30), <1>22, <2>1, <2>2, <2>3 DEF PushEnd
  <2>5. SenderInv' /\ ReceiverInv'
    BY SMTT(30), <1>22, <2>1, <2>2, <2>3 DEF PushEnd
  <2> QED BY <2>4, <2>5
<1> QED BY <1>7, <1>8, <1>9, <1>10, <1>11, <1>12, <1>13, <1>14, <1>15, <1>16, <1>17,
         <1>18, <1>19, <1>20, <1>21, <1>22 DEF SendStep

\* A step of the receiver keeps the counters' meaning.
LEMMA RecvKeepsCounts ==
  ASSUME OneEach, CountInv,
         Recv(Receiver) \/ RecvStep(Receiver) \/ PktFree(Receiver) \/ AvailableAck(Receiver)
  PROVE  (CountersInv /\ SenderInv /\ ReceiverInv)'
<1> DEFINE S == Sender  R == Receiver  n == Len(log)  k == Len(received)
<1>1. /\ S \in Producers /\ R \in Consumers /\ S # R
      /\ S \in Procs /\ R \in Procs
  BY TwoThreads
<1>2. /\ n \in Nat /\ k \in Nat /\ promise[R] \in Nat /\ Entries \in Nat /\ Entries > 0
      /\ pc[S] \in SendPCs /\ pc[R] \in RecvPCs
      /\ DOMAIN pc = Procs /\ DOMAIN counter = Procs /\ DOMAIN qindex = Procs
      /\ DOMAIN sent = Producers /\ DOMAIN promise = Consumers
  BY CountTypes
<1>3. k <= n /\ n <= k + Entries /\ k + promise[R] <= n
  BY CountBounds
<1>4. /\ UpdateCount \in Nat /\ 2 * n <= UpdateCount /\ UpdateCount <= 2 * n + 1
      /\ AckCount \in Nat /\ 2 * k <= AckCount /\ AckCount <= 2 * k + 1 /\ AckCount <= 2 * n
      /\ 2 * n <= AckCount + 2 * Entries
  BY CountBounds
<1>5. /\ Wrap(Wrap(2 * k) + 1) = Wrap(2 * k + 1) /\ Entry(Wrap(2 * k)) = Pos(k)
      /\ Wrap(Wrap(2 * k + 1) + 1) = Wrap(2 * (k + 1))
  BY <1>2, WrapNext, LastOpIs
<1>6. \A u \in 0 .. UpdateCount : 2 * (k + promise[R]) <= u =>
        /\ HeadStatus(Wrap(u), Wrap(2 * k)) = "SUCCESS" <=> u > 2 * k + 1
        /\ HeadStatus(Wrap(u), Wrap(2 * k)) = "EMPTY" <=> u = 2 * k
        /\ Wrap(Wrap(u) - Wrap(2 * k)) = u - 2 * k
  <2> SUFFICES ASSUME NEW u \in 0 .. UpdateCount, 2 * (k + promise[R]) <= u
               PROVE  /\ HeadStatus(Wrap(u), Wrap(2 * k)) = "SUCCESS" <=> u > 2 * k + 1
                      /\ HeadStatus(Wrap(u), Wrap(2 * k)) = "EMPTY" <=> u = 2 * k
                      /\ Wrap(Wrap(u) - Wrap(2 * k)) = u - 2 * k
    OBVIOUS
  <2>1. u \in Int /\ k \in Int /\ 2 * k <= u /\ u <= 2 * k + 2 * Entries + 1
    BY SMTT(30), <1>2, <1>3, <1>4
  <2> QED BY <2>1, HeadStatusIs
<1>7. Wrap(Wrap(UpdateCount) - Wrap(2 * k)) \div 2 = n - k
  <2>1. Wrap(Wrap(UpdateCount) - Wrap(2 * k)) = UpdateCount - 2 * k
    BY SMTT(30), <1>2, <1>3, <1>4, <1>6
  <2>2. UpdateCount = 2 * n \/ UpdateCount = 2 * n + 1
    BY <1>2, <1>4
  <2>3. \A d \in Int : (2 * d) \div 2 = d /\ (2 * d + 1) \div 2 = d
    OBVIOUS
  <2>4. CASE UpdateCount = 2 * n
    <3>1. UpdateCount - 2 * k = 2 * (n - k) /\ n - k \in Int
      BY <1>2, <2>4
    <3> QED BY <2>1, <2>3, <3>1
  <2>5. CASE UpdateCount = 2 * n + 1
    <3>1. UpdateCount - 2 * k = 2 * (n - k) + 1 /\ n - k \in Int
      BY <1>2, <2>5
    <3> QED BY <2>1, <2>3, <3>1
  <2> QED BY <2>2, <2>4, <2>5
<1> USE <1>1, <1>2, <1>3, <1>4
<1> USE DEF Goto, queueVars, localVars, histVars, CountInv, CountersInv, SenderInv, ReceiverInv,
            UpdateCount, AckCount, AtTail, AtHead, SendPCs, RecvPCs
<1>8. CASE Recv(R)
  BY <1>8 DEF Recv
<1>9. CASE QueueHeadUpdate(R)
  <2>1. UpdateCount \in 0 .. UpdateCount /\ 2 * (k + promise[R]) <= UpdateCount
    OBVIOUS
  <2>2. counter'[R] = Wrap(UpdateCount) /\ UpdateCount' = UpdateCount
    BY <1>9 DEF QueueHeadUpdate
  <2>3. ReceiverInv'
    BY <1>9, <2>1, <2>2 DEF QueueHeadUpdate
  <2> QED BY <1>9, <2>3 DEF QueueHeadUpdate
<1>10. CASE QueueHeadAck(R)
  <2>1. PICK u \in 0 .. UpdateCount : counter[R] = Wrap(u) /\ 2 * (k + promise[R]) <= u
    BY <1>10 DEF QueueHeadAck
  <2>2. ack_counter = Wrap(2 * k)
    BY <1>10 DEF QueueHeadAck
  <2>3. HeadStatus(counter[R], ack_counter) = "SUCCESS" => k < n
    <3>1. HeadStatus(Wrap(u), Wrap(2 * k)) = "SUCCESS" => u > 2 * k + 1
      BY <2>1, <1>6
    <3>2. u > 2 * k + 1 => k < n
      OBVIOUS
    <3> QED BY <2>1, <2>2, <3>1, <3>2
  <2> QED BY <1>10, <2>2, <2>3, <1>5 DEF QueueHeadAck, GiveUp
<1>11. CASE ReadState(R)
  BY <1>11 DEF ReadState, ReadEntryState
<1>12. CASE ReadIndex(R)
  BY <1>12 DEF ReadIndex, GiveUp
<1>13. CASE TakeEntry(R)
  BY <1>13 DEF TakeEntry
<1>14. CASE CopyBuffer(R)
  BY <1>14 DEF CopyBuffer
<1>15. CASE FreeBuffer(R)
  BY <1>15 DEF FreeBuffer
<1>16. CASE ClearEntry(R)
  BY <1>16 DEF ClearEntry
<1>17. CASE ReleaseEntryRead(R)
  BY <1>17 DEF ReleaseEntryRead, ReadEntryState
<1>18. CASE ReleaseEntry(R)
  BY <1>18 DEF ReleaseEntry, XchgState
<1>19. CASE PopReadAck(R)
  BY <1>19 DEF PopReadAck
<1>20. CASE PopReadUpdate(R)
  BY <1>20 DEF PopReadUpdate
<1>21. CASE PopBegin(R)
  <2>1. counter[R] = Wrap(2 * k) /\ ack_counter = Wrap(2 * k)
    BY <1>21 DEF PopBegin
  <2>2. CountersInv' /\ ReceiverInv'
    BY <1>21, <2>1, <1>5 DEF PopBegin
  <2>3. AckCount <= AckCount' /\ AckCount' \in Nat
    BY <1>21 DEF PopBegin
  <2>4. SenderInv'
    <3>1. \A a \in 0 .. AckCount : a \in 0 .. AckCount'
      BY SMTT(30), <2>3
    <3> QED BY <1>21, <3>1 DEF PopBegin
  <2> QED BY <2>2, <2>4
<1>22. CASE PopEnd(R)
  <2>1. Len(received') = k + 1
    BY <1>22 DEF PopEnd, TypeInv, TypeOK
  <2>2. k < n /\ ack_counter = Wrap(2 * k + 1)
    BY <1>22 DEF PopEnd
  <2>3. ack_counter' = Wrap(2 * Len(received'))
    BY <1>22, <2>1, <2>2, <1>5 DEF PopEnd
  <2>4. CountersInv'
    <3>1. Len(received') <= n /\ n <= Len(received') + Entries /\ pc'[R] = "idle"
      BY <1>22, <2>1, <2>2 DEF PopEnd
    <3> QED BY <1>22, <2>3, <3>1 DEF PopEnd
  <2>5. k + 1 + promise'[R] <= n
    BY <1>22, <2>2 DEF PopEnd
  <2>6. ReceiverInv'
    BY <1>22, <2>1, <2>2, <2>3, <2>5 DEF PopEnd
  <2>7. AckCount <= AckCount' /\ AckCount' \in Nat
    BY <1>22, <2>1 DEF PopEnd
  <2>8. SenderInv'
    <3>1. \A a \in 0 .. AckCount : a \in 0 .. AckCount'
      BY SMTT(30), <2>7
    <3>2. n < k + Entries => n < Len(received') + Entries
      BY <2>1
    <3> QED BY <1>22, <3>1, <3>2 DEF PopEnd
  <2> QED BY <2>4, <2>6, <2>8
<1>23. CASE AvailableUpdate(R)
  <2>1. counter[R] = Wrap(2 * k) /\ update_counter = Wrap(UpdateCount)
    BY <1>23 DEF AvailableUpdate
  <2>2. promise'[R] = n - k
    BY <1>23, <2>1, <1>7 DEF AvailableUpdate
  <2>3. k + promise'[R] <= n
    BY <2>2
  <2> QED BY <1>23, <2>3 DEF AvailableUpdate
<1>24. CASE PktFree(R)
  BY <1>24 DEF PktFree
<1>25. CASE AvailableAck(R)
  BY <1>25 DEF AvailableAck
<1> QED BY <1>8, <1>9, <1>10, <1>11, <1>12, <1>13, <1>14, <1>15, <1>16, <1>17, <1>18,
         <1>19, <1>20, <1>21, <1>22, <1>23, <1>24, <1>25 DEF RecvStep

\* Every step does.
LEMMA CountStep ==
  ASSUME OneEach, CountInv, [Next]_vars
  PROVE  CountInv'
<1>1. CASE Next
  <2>1. TypeInv'
    BY <1>1, SendKeepsTypes, RecvKeepsTypes DEF Next, CountInv
  <2>2. (CountersInv /\ SenderInv /\ ReceiverInv)'
    BY <1>1, TwoThreads, SendKeepsCounts, RecvKeepsCounts DEF Next
  <2> QED BY <2>1, <2>2 DEF CountInv
<1>2. CASE UNCHANGED vars
  BY <1>2 DEF vars, queueVars, localVars, histVars, TypeInv, TypeOK, ThreadOK,
     CountInv, CountersInv, SenderInv, ReceiverInv, UpdateCount, AckCount
<1> QED BY <1>1, <1>2

-----------------------------------------------------------------------------
(* Where things are: the entries and buffers.                              *)

\* The messages in the queue, the tail and the head have entries of their own.
LEMMA EntriesDistinct ==
  ASSUME OneEach, RingFits, CountInv
  PROVE  /\ \A i \in Nat : Pos(i) \in Slots
         /\ \A i, j \in Len(received) .. Len(log) - 1 : i # j => Pos(i) # Pos(j)
         /\ pc[Sender] \in AtTail =>
              /\ qindex[Sender] = Pos(Len(log))
              /\ \A i \in Len(received) .. Len(log) - 1 : Pos(i) # Pos(Len(log))
         /\ pc[Receiver] \in AtHead =>
              /\ qindex[Receiver] = Pos(Len(received))
              /\ Len(received) \in Len(received) .. Len(log) - 1
<1> DEFINE n == Len(log)  k == Len(received)
<1>1. n \in Nat /\ k \in Nat /\ Entries \in Nat /\ MaxSends \in Nat
  BY CountTypes, QueueAssumption
<1>2. n <= k + Entries /\ n <= MaxSends
  <2>1. sent[Sender] \in 0 .. MaxSends /\ n = sent[Sender]
    BY TwoThreads DEF CountInv, CountersInv, TypeInv, TypeOK
  <2> QED BY <1>1, <2>1, CountBounds
<1>3. pc[Sender] \in AtTail => n < k + Entries /\ n < MaxSends /\ qindex[Sender] = Pos(n)
  <2>1. Sender \in Producers
    BY TwoThreads
  <2> QED BY <1>1, <2>1 DEF CountInv, SenderInv, CountersInv, TypeInv, ThreadOK, AtTail
<1>4. \A i \in Nat : Pos(i) \in Slots
  BY EntryRange, WrapRange DEF Pos
<1>5. \A i, j \in k .. n - 1 : i < j => Pos(i) # Pos(j)
  <2> SUFFICES ASSUME NEW i \in k .. n - 1, NEW j \in k .. n - 1, i < j PROVE Pos(i) # Pos(j)
    OBVIOUS
  <2>1. i \in Nat /\ j \in Nat /\ j < i + Entries /\ j < MaxSends
    BY <1>1, <1>2
  <2> QED BY <2>1, PosDistinct
<1>6. \A i, j \in k .. n - 1 : i # j => Pos(i) # Pos(j)
  BY <1>1, <1>5
<1>7. ASSUME pc[Sender] \in AtTail, NEW i \in k .. n - 1 PROVE Pos(i) # Pos(n)
  <2>1. i \in Nat /\ i < n /\ n < i + Entries
    BY <1>1, <1>3, <1>7
  <2> QED BY <1>1, <1>3, <1>7, <2>1, PosDistinct
<1>8. pc[Receiver] \in AtHead => qindex[Receiver] = Pos(k) /\ k \in k .. n - 1
  BY <1>1 DEF CountInv, ReceiverInv
<1> QED BY <1>3, <1>4, <1>6, <1>7, <1>8

\* The types that the proofs about entries and buffers use.
LEMMA SlotTypes ==
  ASSUME OneEach, CountInv
  PROVE  /\ state \in [Slots -> EntryStates] /\ magic_num \in [Buffers -> BOOLEAN]
         /\ buff_index \in [Slots -> Buffers \cup {NoBuffer}] /\ NoBuffer \notin Buffers
         /\ DOMAIN buff = Buffers /\ DOMAIN held = Consumers
         /\ DOMAIN hand = Procs /\ DOMAIN msg = Procs /\ DOMAIN oldbstate = Procs
         /\ DOMAIN oldindex = Procs /\ DOMAIN qindex = Procs /\ DOMAIN pc = Procs
         /\ \A p \in Procs : qindex[p] \in Slots /\ hand[p] \in Buffers
         /\ \A h \in held[Receiver] : h[1] \in Buffers
         /\ pc[Sender] \in SendPCs /\ pc[Receiver] \in RecvPCs
         /\ 0 \in Buffers
BY TwoThreads, QueueAssumption DEF CountInv, TypeInv, TypeOK, ThreadOK, Buffers, NoBuffer

\* The asserts on the results of push_queue, pop_queue and the release of a
\* buffer.
LEMMA AssertsHold ==
  ASSUME OneEach, RingFits, IInv
  PROVE  /\ pc[Sender] = "push_ac" => TailStatus(counter[Sender], ack_counter) = "SUCCESS"
         /\ pc[Sender] = "push_inc" => Entry(counter[Sender]) = qindex[Sender]
         /\ pc[Receiver] = "pop_uc" =>
              HeadStatus(update_counter, counter[Receiver]) = "SUCCESS"
         /\ pc[Receiver] = "free" => magic_num[hand[Receiver]]
<1> DEFINE n == Len(log)  k == Len(received)
<1>1. n \in Nat /\ k \in Nat /\ Entries \in Nat /\ n \in Int /\ k \in Int
  BY CountTypes DEF IInv
<1>2. /\ AckCount \in Int /\ 2 * k <= AckCount
      /\ AckCount <= 2 * n /\ 2 * n <= AckCount + 2 * Entries
      /\ UpdateCount \in Int /\ 2 * n <= UpdateCount /\ UpdateCount <= 2 * n + 1 /\ n <= k + Entries
  BY CountBounds DEF IInv
<1>3. update_counter = Wrap(UpdateCount) /\ ack_counter = Wrap(AckCount)
  BY DEF IInv, CountInv, CountersInv
<1>4. ASSUME pc[Sender] = "push_ac"
      PROVE  TailStatus(counter[Sender], ack_counter) = "SUCCESS"
  <2>1. n < k + Entries /\ counter[Sender] = Wrap(2 * n)
    BY <1>4 DEF IInv, CountInv, SenderInv, AtTail
  <2>2. 2 * n - AckCount # 2 * Entries /\ 2 * n - AckCount # 2 * Entries - 1
    BY <1>1, <1>2, <2>1
  <2>3. TailStatus(Wrap(2 * n), Wrap(AckCount)) = "SUCCESS"
    BY <1>1, <1>2, <2>2, TailStatusIs
  <2> QED BY <1>3, <2>1, <2>3
<1>5. ASSUME pc[Sender] = "push_inc" PROVE Entry(counter[Sender]) = qindex[Sender]
  <2>1. counter[Sender] = Wrap(2 * n) /\ qindex[Sender] = Pos(n)
    BY <1>5 DEF IInv, CountInv, SenderInv, AtTail
  <2> QED BY <2>1 DEF Pos
<1>6. ASSUME pc[Receiver] = "pop_uc"
      PROVE  HeadStatus(update_counter, counter[Receiver]) = "SUCCESS"
  <2>1. k < n /\ counter[Receiver] = Wrap(2 * k)
    BY <1>6 DEF IInv, CountInv, ReceiverInv, AtHead
  <2>2. /\ 2 * k <= UpdateCount /\ UpdateCount <= 2 * k + 2 * Entries + 1
        /\ UpdateCount # 2 * k /\ UpdateCount # 2 * k + 1
    BY <1>1, <1>2, <2>1
  <2>3. HeadStatus(Wrap(UpdateCount), Wrap(2 * k)) = "SUCCESS"
    BY <1>1, <1>2, <2>2, HeadStatusIs
  <2> QED BY <1>3, <2>1, <2>3
<1>7. ASSUME pc[Receiver] = "free" PROVE magic_num[hand[Receiver]]
  <2>1. qindex[Receiver] \in Slots /\ hand[Receiver] \in Buffers
    BY SlotTypes, TwoThreads DEF IInv
  <2>2. Names(qindex[Receiver], hand[Receiver])
    BY <1>7 DEF IInv, HeadInv, Names
  <2> QED BY <2>1, <2>2 DEF IInv, MarkInv
<1> QED BY <1>4, <1>5, <1>6, <1>7

\* What the invariant says of the threads, entries and buffers, in the form the
\* proofs of its parts use.
Facts ==
  /\ Sender \in Producers /\ Receiver \in Consumers /\ Sender # Receiver
  /\ Sender \in Procs /\ Receiver \in Procs
  /\ Len(log) \in Nat /\ Len(received) \in Nat
  /\ state \in [Slots -> EntryStates] /\ magic_num \in [Buffers -> BOOLEAN]
  /\ buff_index \in [Slots -> Buffers \cup {NoBuffer}] /\ NoBuffer \notin Buffers
  /\ DOMAIN buff = Buffers /\ DOMAIN held = Consumers
  /\ DOMAIN hand = Procs /\ DOMAIN msg = Procs /\ DOMAIN oldbstate = Procs
  /\ DOMAIN oldindex = Procs /\ DOMAIN qindex = Procs /\ DOMAIN pc = Procs
  /\ qindex[Sender] \in Slots /\ hand[Sender] \in Buffers
  /\ qindex[Receiver] \in Slots /\ hand[Receiver] \in Buffers
  /\ \A h \in held[Receiver] : h[1] \in Buffers
  /\ pc[Sender] \in SendPCs /\ pc[Receiver] \in RecvPCs /\ 0 \in Buffers
  /\ \A i \in Nat : Pos(i) \in Slots
  /\ \A i, j \in Len(received) .. Len(log) - 1 : i # j => Pos(i) # Pos(j)
  /\ pc[Sender] \in AtTail =>
       /\ qindex[Sender] = Pos(Len(log))
       /\ \A i \in Len(received) .. Len(log) - 1 : Pos(i) # Pos(Len(log))
  /\ pc[Receiver] \in AtHead =>
       qindex[Receiver] = Pos(Len(received)) /\ Len(received) \in Len(received) .. Len(log) - 1
  /\ pc[Sender] = "push_ac" => TailStatus(counter[Sender], ack_counter) = "SUCCESS"
  /\ pc[Sender] = "push_inc" => Entry(counter[Sender]) = qindex[Sender]
  /\ pc[Receiver] = "pop_uc" => HeadStatus(update_counter, counter[Receiver]) = "SUCCESS"
  /\ pc[Receiver] = "free" => magic_num[hand[Receiver]]

\* Those facts follow from the invariant.
LEMMA FactsHold ==
  ASSUME OneEach, RingFits, IInv
  PROVE  Facts
<1>1. CountInv
  BY DEF IInv
<1> QED BY <1>1, TwoThreads, CountTypes, SlotTypes, EntriesDistinct, AssertsHold DEF Facts

\* A step of the sender keeps: the entries of the messages in the queue and the free ones.
LEMMA SendKeepsSlots ==
  ASSUME OneEach, RingFits, IInv,
         Send(Sender) \/ SendStep(Sender)
  PROVE  (WaitingInv /\ FreeInv)'
<1> DEFINE S == Sender  R == Receiver  n == Len(log)  k == Len(received)
<1>1. Facts
  BY FactsHold
<1> USE <1>1
<1> USE DEF Facts, Goto, queueVars, localVars, histVars, AtTail, AtHead, SendPCs, RecvPCs,
            Inserting, Removing
<1> USE DEF IInv, WaitingInv, FreeInv, TailInv, HeadInv, Holds, OwnerInv, Names,
            SenderOwns
<1>2. CASE Send(S)
  BY <1>2 DEF Send
<1>3. CASE QueueTailAck(S)
  BY <1>3 DEF QueueTailAck
<1>4. CASE QueueTailUpdate(S)
  BY <1>4 DEF QueueTailUpdate
<1>5. CASE CheckEntry(S)
  BY <1>5 DEF CheckEntry
<1>6. CASE ReserveEntry(S)
  BY <1>6 DEF ReserveEntry
<1>7. CASE AllocBuffer(S)
  BY <1>7 DEF AllocBuffer
<1>8. CASE UndoReserveRead(S)
  BY <1>8 DEF UndoReserveRead, ReadEntryState
<1>9. CASE UndoReserve(S)
  BY <1>9 DEF UndoReserve, XchgState
<1>10. CASE FillBuffer(S)
  BY <1>10 DEF FillBuffer
<1>11. CASE LinkBufferRead(S)
  BY <1>11 DEF LinkBufferRead
<1>12. CASE LinkBuffer(S)
  BY <1>12 DEF LinkBuffer
<1>13. CASE MarkAllocated(S)
  BY <1>13 DEF MarkAllocated
<1>14. CASE PushReadUpdate(S)
  BY <1>14 DEF PushReadUpdate
<1>15. CASE PushReadAck(S)
  BY <1>15 DEF PushReadAck
<1>16. CASE PushBegin(S)
  BY <1>16 DEF PushBegin
<1>17. CASE PushEnd(S)
  <2>1. /\ Len(log') = n + 1 /\ log'[n + 1] = msg[S]
        /\ \A i \in 1 .. n : log'[i] = log[i]
    <3>1. log \in Seq(Messages \cup {NoMsg})
      BY DEF CountInv, TypeInv, TypeOK
    <3> QED BY <1>17, <3>1 DEF PushEnd
  <2>2. /\ Holds(Pos(n), msg[S])
        /\ state' = state /\ buff_index' = buff_index /\ buff' = buff
    BY <1>17 DEF PushEnd
  <2>3. Removing(R)' = Removing(R) /\ received' = received
    BY <1>17 DEF PushEnd
  <2>4. WaitingInv'
    <3> SUFFICES ASSUME NEW i \in k .. n
                 PROVE  Holds(Pos(i), log'[i + 1]) \/ (i = k /\ Removing(R))
      BY <2>1, <2>2, <2>3
    <3>1. CASE i = n
      BY <2>1, <2>2, <3>1
    <3>2. CASE i # n
      <4>1. i \in k .. n - 1 /\ i \in Nat /\ i + 1 \in 1 .. n
        BY <3>2
      <4>2. Holds(Pos(i), log[i + 1]) \/ (i = k /\ Removing(R))
        BY <4>1
      <4> QED BY <2>1, <2>2, <2>3, <4>1, <4>2
    <3> QED BY <3>1, <3>2
  <2>5. FreeInv'
    <3> SUFFICES ASSUME NEW s \in Slots, \A i \in k .. n : s # Pos(i)
                 PROVE  state'[s] = "FREE" /\ buff_index'[s] = NoBuffer
      BY <2>1, <2>3
    <3>1. s # Pos(n) /\ \A i \in k .. n - 1 : s # Pos(i)
      <4>1. n \in k .. n /\ \A i \in k .. n - 1 : i \in k .. n
        BY CountBounds
      <4> QED BY <4>1
    <3> QED BY <1>17, <3>1 DEF PushEnd
  <2> QED BY <2>4, <2>5
<1> QED BY <1>2, <1>3, <1>4, <1>5, <1>6, <1>7, <1>8, <1>9, <1>10, <1>11, <1>12, <1>13,
         <1>14, <1>15, <1>16, <1>17 DEF SendStep

\* A step of the receiver keeps: the entries of the messages in the queue and the free ones.
LEMMA RecvKeepsSlots ==
  ASSUME OneEach, RingFits, IInv,
         Recv(Receiver) \/ RecvStep(Receiver) \/ PktFree(Receiver) \/ AvailableAck(Receiver)
  PROVE  (WaitingInv /\ FreeInv)'
<1> DEFINE S == Sender  R == Receiver  n == Len(log)  k == Len(received)
<1>1. Facts
  BY FactsHold
<1> USE <1>1
<1> USE DEF Facts, Goto, queueVars, localVars, histVars, AtTail, AtHead, SendPCs, RecvPCs,
            Inserting, Removing
<1> USE DEF IInv, WaitingInv, FreeInv, TailInv, HeadInv, Holds, OwnerInv, Names,
            SenderOwns
<1>2. CASE Recv(R)
  BY <1>2 DEF Recv
<1>3. CASE QueueHeadUpdate(R)
  BY <1>3 DEF QueueHeadUpdate
<1>4. CASE QueueHeadAck(R)
  BY <1>4 DEF QueueHeadAck, GiveUp
<1>5. CASE ReadState(R)
  BY <1>5 DEF ReadState, ReadEntryState
<1>6. CASE ReadIndex(R)
  BY <1>6 DEF ReadIndex, GiveUp
<1>7. CASE TakeEntry(R)
  BY <1>7 DEF TakeEntry
<1>8. CASE CopyBuffer(R)
  BY <1>8 DEF CopyBuffer
<1>9. CASE FreeBuffer(R)
  BY <1>9 DEF FreeBuffer
<1>10. CASE ClearEntry(R)
  BY <1>10 DEF ClearEntry
<1>11. CASE ReleaseEntryRead(R)
  BY <1>11 DEF ReleaseEntryRead, ReadEntryState
<1>12. CASE ReleaseEntry(R)
  BY <1>12 DEF ReleaseEntry, XchgState
<1>13. CASE PopReadAck(R)
  BY <1>13 DEF PopReadAck
<1>14. CASE PopReadUpdate(R)
  BY <1>14 DEF PopReadUpdate
<1>15. CASE PopBegin(R)
  BY <1>15 DEF PopBegin
<1>16. CASE PopEnd(R)
  BY <1>16 DEF PopEnd
<1>17. CASE AvailableUpdate(R)
  BY <1>17 DEF AvailableUpdate
<1>18. CASE PktFree(R)
  BY <1>18 DEF PktFree
<1>19. CASE AvailableAck(R)
  BY <1>19 DEF AvailableAck
<1> QED BY <1>2, <1>3, <1>4, <1>5, <1>6, <1>7, <1>8, <1>9, <1>10, <1>11, <1>12, <1>13,
         <1>14, <1>15, <1>16, <1>17, <1>18, <1>19 DEF RecvStep

\* A step of the sender keeps: the entry being filled.
LEMMA SendKeepsTail ==
  ASSUME OneEach, RingFits, IInv,
         Send(Sender) \/ SendStep(Sender)
  PROVE  (TailInv)'
<1> DEFINE S == Sender  R == Receiver  n == Len(log)  k == Len(received)
<1>1. Facts
  BY FactsHold
<1> USE <1>1
<1> USE DEF Facts, Goto, queueVars, localVars, histVars, AtTail, AtHead, SendPCs, RecvPCs,
            Inserting, Removing
<1> USE DEF IInv, FreeInv, TailInv, HeadInv, OwnerInv, Names, SenderOwns, ReceiverOwns
<1>2. CASE Send(S)
  BY <1>2 DEF Send
<1>3. CASE QueueTailAck(S)
  BY <1>3 DEF QueueTailAck
<1>4. CASE QueueTailUpdate(S)
  BY <1>4 DEF QueueTailUpdate
<1>5. CASE CheckEntry(S)
  BY <1>5 DEF CheckEntry
<1>6. CASE ReserveEntry(S)
  BY <1>6 DEF ReserveEntry
<1>7. CASE AllocBuffer(S)
  BY <1>7 DEF AllocBuffer
<1>8. CASE UndoReserveRead(S)
  BY <1>8 DEF UndoReserveRead, ReadEntryState
<1>9. CASE UndoReserve(S)
  BY <1>9 DEF UndoReserve, XchgState
<1>10. CASE FillBuffer(S)
  BY <1>10 DEF FillBuffer
<1>11. CASE LinkBufferRead(S)
  BY <1>11 DEF LinkBufferRead
<1>12. CASE LinkBuffer(S)
  BY <1>12 DEF LinkBuffer
<1>13. CASE MarkAllocated(S)
  BY <1>13 DEF MarkAllocated
<1>14. CASE PushReadUpdate(S)
  BY <1>14 DEF PushReadUpdate
<1>15. CASE PushReadAck(S)
  BY <1>15 DEF PushReadAck
<1>16. CASE PushBegin(S)
  BY <1>16 DEF PushBegin
<1>17. CASE PushEnd(S)
  BY <1>17 DEF PushEnd
<1> QED BY <1>2, <1>3, <1>4, <1>5, <1>6, <1>7, <1>8, <1>9, <1>10, <1>11, <1>12, <1>13,
         <1>14, <1>15, <1>16, <1>17 DEF SendStep

\* A step of the receiver keeps: the entry being filled.
LEMMA RecvKeepsTail ==
  ASSUME OneEach, RingFits, IInv,
         Recv(Receiver) \/ RecvStep(Receiver) \/ PktFree(Receiver) \/ AvailableAck(Receiver)
  PROVE  (TailInv)'
<1> DEFINE S == Sender  R == Receiver  n == Len(log)  k == Len(received)
<1>1. Facts
  BY FactsHold
<1> USE <1>1
<1> USE DEF Facts, Goto, queueVars, localVars, histVars, AtTail, AtHead, SendPCs, RecvPCs,
            Inserting, Removing
<1> USE DEF IInv, FreeInv, TailInv, HeadInv, OwnerInv, Names, SenderOwns, ReceiverOwns
<1>2. CASE Recv(R)
  BY <1>2 DEF Recv
<1>3. CASE QueueHeadUpdate(R)
  BY <1>3 DEF QueueHeadUpdate
<1>4. CASE QueueHeadAck(R)
  BY <1>4 DEF QueueHeadAck, GiveUp
<1>5. CASE ReadState(R)
  BY <1>5 DEF ReadState, ReadEntryState
<1>6. CASE ReadIndex(R)
  BY <1>6 DEF ReadIndex, GiveUp
<1>7. CASE TakeEntry(R)
  BY <1>7 DEF TakeEntry
<1>8. CASE CopyBuffer(R)
  BY <1>8 DEF CopyBuffer
<1>9. CASE FreeBuffer(R)
  BY <1>9 DEF FreeBuffer
<1>10. CASE ClearEntry(R)
  BY <1>10 DEF ClearEntry
<1>11. CASE ReleaseEntryRead(R)
  BY <1>11 DEF ReleaseEntryRead, ReadEntryState
<1>12. CASE ReleaseEntry(R)
  BY <1>12 DEF ReleaseEntry, XchgState
<1>13. CASE PopReadAck(R)
  BY <1>13 DEF PopReadAck
<1>14. CASE PopReadUpdate(R)
  BY <1>14 DEF PopReadUpdate
<1>15. CASE PopBegin(R)
  BY <1>15 DEF PopBegin
<1>16. CASE PopEnd(R)
  BY <1>16 DEF PopEnd
<1>17. CASE AvailableUpdate(R)
  BY <1>17 DEF AvailableUpdate
<1>18. CASE PktFree(R)
  BY <1>18 DEF PktFree
<1>19. CASE AvailableAck(R)
  BY <1>19 DEF AvailableAck
<1> QED BY <1>2, <1>3, <1>4, <1>5, <1>6, <1>7, <1>8, <1>9, <1>10, <1>11, <1>12, <1>13,
         <1>14, <1>15, <1>16, <1>17, <1>18, <1>19 DEF RecvStep

\* A step of the sender keeps: the entry being emptied.
LEMMA SendKeepsHead ==
  ASSUME OneEach, RingFits, IInv,
         Send(Sender) \/ SendStep(Sender)
  PROVE  (HeadInv)'
<1> DEFINE S == Sender  R == Receiver  n == Len(log)  k == Len(received)
<1>1. Facts
  BY FactsHold
<1> USE <1>1
<1> USE DEF Facts, Goto, queueVars, localVars, histVars, AtTail, AtHead, SendPCs, RecvPCs,
            Inserting, Removing
<1> USE DEF IInv, WaitingInv, TailInv, HeadInv, Holds, OwnerInv, Names, SenderOwns,
            ReceiverOwns
<1>2. CASE Send(S)
  BY <1>2 DEF Send
<1>3. CASE QueueTailAck(S)
  BY <1>3 DEF QueueTailAck
<1>4. CASE QueueTailUpdate(S)
  BY <1>4 DEF QueueTailUpdate
<1>5. CASE CheckEntry(S)
  BY <1>5 DEF CheckEntry
<1>6. CASE ReserveEntry(S)
  BY <1>6 DEF ReserveEntry
<1>7. CASE AllocBuffer(S)
  BY <1>7 DEF AllocBuffer
<1>8. CASE UndoReserveRead(S)
  BY <1>8 DEF UndoReserveRead, ReadEntryState
<1>9. CASE UndoReserve(S)
  BY <1>9 DEF UndoReserve, XchgState
<1>10. CASE FillBuffer(S)
  BY <1>10 DEF FillBuffer
<1>11. CASE LinkBufferRead(S)
  BY <1>11 DEF LinkBufferRead
<1>12. CASE LinkBuffer(S)
  BY <1>12 DEF LinkBuffer
<1>13. CASE MarkAllocated(S)
  BY <1>13 DEF MarkAllocated
<1>14. CASE PushReadUpdate(S)
  BY <1>14 DEF PushReadUpdate
<1>15. CASE PushReadAck(S)
  BY <1>15 DEF PushReadAck
<1>16. CASE PushBegin(S)
  BY <1>16 DEF PushBegin
<1>17. CASE PushEnd(S)
  BY <1>17 DEF PushEnd
<1> QED BY <1>2, <1>3, <1>4, <1>5, <1>6, <1>7, <1>8, <1>9, <1>10, <1>11, <1>12, <1>13,
         <1>14, <1>15, <1>16, <1>17 DEF SendStep

\* A step of the receiver keeps: the entry being emptied.
LEMMA RecvKeepsHead ==
  ASSUME OneEach, RingFits, IInv,
         Recv(Receiver) \/ RecvStep(Receiver) \/ PktFree(Receiver) \/ AvailableAck(Receiver)
  PROVE  (HeadInv)'
<1> DEFINE S == Sender  R == Receiver  n == Len(log)  k == Len(received)
<1>1. Facts
  BY FactsHold
<1> USE <1>1
<1> USE DEF Facts, Goto, queueVars, localVars, histVars, AtTail, AtHead, SendPCs, RecvPCs,
            Inserting, Removing
<1> USE DEF IInv, WaitingInv, TailInv, HeadInv, Holds, OwnerInv, Names, SenderOwns,
            ReceiverOwns
<1>2. CASE Recv(R)
  BY <1>2 DEF Recv
<1>3. CASE QueueHeadUpdate(R)
  BY <1>3 DEF QueueHeadUpdate
<1>4. CASE QueueHeadAck(R)
  BY <1>4 DEF QueueHeadAck, GiveUp
<1>5. CASE ReadState(R)
  BY <1>5 DEF ReadState, ReadEntryState
<1>6. CASE ReadIndex(R)
  BY <1>6 DEF ReadIndex, GiveUp
<1>7. CASE TakeEntry(R)
  BY <1>7 DEF TakeEntry
<1>8. CASE CopyBuffer(R)
  BY <1>8 DEF CopyBuffer
<1>9. CASE FreeBuffer(R)
  BY <1>9 DEF FreeBuffer
<1>10. CASE ClearEntry(R)
  BY <1>10 DEF ClearEntry
<1>11. CASE ReleaseEntryRead(R)
  BY <1>11 DEF ReleaseEntryRead, ReadEntryState
<1>12. CASE ReleaseEntry(R)
  BY <1>12 DEF ReleaseEntry, XchgState
<1>13. CASE PopReadAck(R)
  BY <1>13 DEF PopReadAck
<1>14. CASE PopReadUpdate(R)
  BY <1>14 DEF PopReadUpdate
<1>15. CASE PopBegin(R)
  BY <1>15 DEF PopBegin
<1>16. CASE PopEnd(R)
  BY <1>16 DEF PopEnd
<1>17. CASE AvailableUpdate(R)
  BY <1>17 DEF AvailableUpdate
<1>18. CASE PktFree(R)
  BY <1>18 DEF PktFree
<1>19. CASE AvailableAck(R)
  BY <1>19 DEF AvailableAck
<1> QED BY <1>2, <1>3, <1>4, <1>5, <1>6, <1>7, <1>8, <1>9, <1>10, <1>11, <1>12, <1>13,
         <1>14, <1>15, <1>16, <1>17, <1>18, <1>19 DEF RecvStep

\* A step of the sender keeps: a buffer has at most one owner.
LEMMA SendKeepsOwner ==
  ASSUME OneEach, RingFits, IInv,
         Send(Sender) \/ SendStep(Sender)
  PROVE  (OwnerInv)'
<1> DEFINE S == Sender  R == Receiver  n == Len(log)  k == Len(received)
<1>1. Facts
  BY FactsHold
<1> USE <1>1
<1> USE DEF Facts, Goto, queueVars, localVars, histVars, AtTail, AtHead, SendPCs, RecvPCs,
            Inserting, Removing
<1> USE DEF IInv, TailInv, HeadInv, OwnerInv, MarkInv, Names, SenderOwns, ReceiverOwns
<1>2. CASE Send(S)
  BY <1>2 DEF Send
<1>3. CASE QueueTailAck(S)
  BY <1>3 DEF QueueTailAck
<1>4. CASE QueueTailUpdate(S)
  BY <1>4 DEF QueueTailUpdate
<1>5. CASE CheckEntry(S)
  BY <1>5 DEF CheckEntry
<1>6. CASE ReserveEntry(S)
  BY <1>6 DEF ReserveEntry
<1>7. CASE AllocBuffer(S)
  BY <1>7 DEF AllocBuffer
<1>8. CASE UndoReserveRead(S)
  BY <1>8 DEF UndoReserveRead, ReadEntryState
<1>9. CASE UndoReserve(S)
  BY <1>9 DEF UndoReserve, XchgState
<1>10. CASE FillBuffer(S)
  BY <1>10 DEF FillBuffer
<1>11. CASE LinkBufferRead(S)
  BY <1>11 DEF LinkBufferRead
<1>12. CASE LinkBuffer(S)
  BY <1>12 DEF LinkBuffer
<1>13. CASE MarkAllocated(S)
  BY <1>13 DEF MarkAllocated
<1>14. CASE PushReadUpdate(S)
  BY <1>14 DEF PushReadUpdate
<1>15. CASE PushReadAck(S)
  BY <1>15 DEF PushReadAck
<1>16. CASE PushBegin(S)
  BY <1>16 DEF PushBegin
<1>17. CASE PushEnd(S)
  BY <1>17 DEF PushEnd
<1> QED BY <1>2, <1>3, <1>4, <1>5, <1>6, <1>7, <1>8, <1>9, <1>10, <1>11, <1>12, <1>13,
         <1>14, <1>15, <1>16, <1>17 DEF SendStep

\* A step of the receiver keeps: a buffer has at most one owner.
LEMMA RecvKeepsOwner ==
  ASSUME OneEach, RingFits, IInv,
         Recv(Receiver) \/ RecvStep(Receiver) \/ PktFree(Receiver) \/ AvailableAck(Receiver)
  PROVE  (OwnerInv)'
<1> DEFINE S == Sender  R == Receiver  n == Len(log)  k == Len(received)
<1>1. Facts
  BY FactsHold
<1> USE <1>1
<1> USE DEF Facts, Goto, queueVars, localVars, histVars, AtTail, AtHead, SendPCs, RecvPCs,
            Inserting, Removing
<1> USE DEF IInv, TailInv, HeadInv, OwnerInv, MarkInv, Names, SenderOwns, ReceiverOwns
<1>2. CASE Recv(R)
  BY <1>2 DEF Recv
<1>3. CASE QueueHeadUpdate(R)
  BY <1>3 DEF QueueHeadUpdate
<1>4. CASE QueueHeadAck(R)
  BY <1>4 DEF QueueHeadAck, GiveUp
<1>5. CASE ReadState(R)
  BY <1>5 DEF ReadState, ReadEntryState
<1>6. CASE ReadIndex(R)
  BY <1>6 DEF ReadIndex, GiveUp
<1>7. CASE TakeEntry(R)
  BY <1>7 DEF TakeEntry
<1>8. CASE CopyBuffer(R)
  BY <1>8 DEF CopyBuffer
<1>9. CASE FreeBuffer(R)
  BY <1>9 DEF FreeBuffer
<1>10. CASE ClearEntry(R)
  BY <1>10 DEF ClearEntry
<1>11. CASE ReleaseEntryRead(R)
  BY <1>11 DEF ReleaseEntryRead, ReadEntryState
<1>12. CASE ReleaseEntry(R)
  BY <1>12 DEF ReleaseEntry, XchgState
<1>13. CASE PopReadAck(R)
  BY <1>13 DEF PopReadAck
<1>14. CASE PopReadUpdate(R)
  BY <1>14 DEF PopReadUpdate
<1>15. CASE PopBegin(R)
  BY <1>15 DEF PopBegin
<1>16. CASE PopEnd(R)
  <2>1. /\ \A s, b : Names(s, b)' <=> Names(s, b)
        /\ SenderOwns' = SenderOwns /\ ~ReceiverOwns' /\ hand' = hand
    BY <1>16 DEF PopEnd
  <2>2. CASE Packet
    <3> DEFINE g == <<hand[R], msg[R]>>
    <3>1. held'[R] = held[R] \cup {g} /\ ReceiverOwns
      BY <1>16, <2>2 DEF PopEnd
    <3>2. g[1] = hand[R]
      OBVIOUS
    <3>3. OwnerInv /\ MarkInv
      OBVIOUS
    <3> HIDE DEF g, Names, SenderOwns, ReceiverOwns, IInv, TailInv, HeadInv
    <3> QED BY <2>1, <3>1, <3>2, <3>3
  <2>3. CASE ~Packet
    BY <1>16, <2>1, <2>3 DEF PopEnd
  <2> QED BY <2>2, <2>3
<1>17. CASE AvailableUpdate(R)
  BY <1>17 DEF AvailableUpdate
<1>18. CASE PktFree(R)
  BY <1>18 DEF PktFree
<1>19. CASE AvailableAck(R)
  BY <1>19 DEF AvailableAck
<1> QED BY <1>2, <1>3, <1>4, <1>5, <1>6, <1>7, <1>8, <1>9, <1>10, <1>11, <1>12, <1>13,
         <1>14, <1>15, <1>16, <1>17, <1>18, <1>19 DEF RecvStep

\* A step of the sender keeps: a buffer is marked while it has an owner.
LEMMA SendKeepsMark ==
  ASSUME OneEach, RingFits, IInv,
         Send(Sender) \/ SendStep(Sender)
  PROVE  (MarkInv)'
<1> DEFINE S == Sender  R == Receiver  n == Len(log)  k == Len(received)
<1>1. Facts
  BY FactsHold
<1> USE <1>1
<1> USE DEF Facts, Goto, queueVars, localVars, histVars, AtTail, AtHead, SendPCs, RecvPCs,
            Inserting, Removing
<1> USE DEF IInv, TailInv, HeadInv, OwnerInv, MarkInv, Names, SenderOwns, ReceiverOwns
<1>2. CASE Send(S)
  BY <1>2 DEF Send
<1>3. CASE QueueTailAck(S)
  BY <1>3 DEF QueueTailAck
<1>4. CASE QueueTailUpdate(S)
  BY <1>4 DEF QueueTailUpdate
<1>5. CASE CheckEntry(S)
  BY <1>5 DEF CheckEntry
<1>6. CASE ReserveEntry(S)
  BY <1>6 DEF ReserveEntry
<1>7. CASE AllocBuffer(S)
  BY <1>7 DEF AllocBuffer
<1>8. CASE UndoReserveRead(S)
  BY <1>8 DEF UndoReserveRead, ReadEntryState
<1>9. CASE UndoReserve(S)
  BY <1>9 DEF UndoReserve, XchgState
<1>10. CASE FillBuffer(S)
  BY <1>10 DEF FillBuffer
<1>11. CASE LinkBufferRead(S)
  BY <1>11 DEF LinkBufferRead
<1>12. CASE LinkBuffer(S)
  BY <1>12 DEF LinkBuffer
<1>13. CASE MarkAllocated(S)
  BY <1>13 DEF MarkAllocated
<1>14. CASE PushReadUpdate(S)
  BY <1>14 DEF PushReadUpdate
<1>15. CASE PushReadAck(S)
  BY <1>15 DEF PushReadAck
<1>16. CASE PushBegin(S)
  BY <1>16 DEF PushBegin
<1>17. CASE PushEnd(S)
  BY <1>17 DEF PushEnd
<1> QED BY <1>2, <1>3, <1>4, <1>5, <1>6, <1>7, <1>8, <1>9, <1>10, <1>11, <1>12, <1>13,
         <1>14, <1>15, <1>16, <1>17 DEF SendStep

\* A step of the receiver keeps: a buffer is marked while it has an owner.
LEMMA RecvKeepsMark ==
  ASSUME OneEach, RingFits, IInv,
         Recv(Receiver) \/ RecvStep(Receiver) \/ PktFree(Receiver) \/ AvailableAck(Receiver)
  PROVE  (MarkInv)'
<1> DEFINE S == Sender  R == Receiver  n == Len(log)  k == Len(received)
<1>1. Facts
  BY FactsHold
<1> USE <1>1
<1> USE DEF Facts, Goto, queueVars, localVars, histVars, AtTail, AtHead, SendPCs, RecvPCs,
            Inserting, Removing
<1> USE DEF IInv, TailInv, HeadInv, OwnerInv, MarkInv, Names, SenderOwns, ReceiverOwns
<1>2. CASE Recv(R)
  BY <1>2 DEF Recv
<1>3. CASE QueueHeadUpdate(R)
  BY <1>3 DEF QueueHeadUpdate
<1>4. CASE QueueHeadAck(R)
  BY <1>4 DEF QueueHeadAck, GiveUp
<1>5. CASE ReadState(R)
  BY <1>5 DEF ReadState, ReadEntryState
<1>6. CASE ReadIndex(R)
  BY <1>6 DEF ReadIndex, GiveUp
<1>7. CASE TakeEntry(R)
  BY <1>7 DEF TakeEntry
<1>8. CASE CopyBuffer(R)
  BY <1>8 DEF CopyBuffer
<1>9. CASE FreeBuffer(R)
  BY <1>9 DEF FreeBuffer
<1>10. CASE ClearEntry(R)
  BY <1>10 DEF ClearEntry
<1>11. CASE ReleaseEntryRead(R)
  BY <1>11 DEF ReleaseEntryRead, ReadEntryState
<1>12. CASE ReleaseEntry(R)
  BY <1>12 DEF ReleaseEntry, XchgState
<1>13. CASE PopReadAck(R)
  BY <1>13 DEF PopReadAck
<1>14. CASE PopReadUpdate(R)
  BY <1>14 DEF PopReadUpdate
<1>15. CASE PopBegin(R)
  BY <1>15 DEF PopBegin
<1>16. CASE PopEnd(R)
  <2>1. /\ \A s, b : Names(s, b)' <=> Names(s, b)
        /\ SenderOwns' = SenderOwns /\ ~ReceiverOwns' /\ hand' = hand /\ magic_num' = magic_num
    BY <1>16 DEF PopEnd
  <2>2. CASE Packet
    <3> DEFINE g == <<hand[R], msg[R]>>
    <3>1. held'[R] = held[R] \cup {g} /\ ReceiverOwns
      BY <1>16, <2>2 DEF PopEnd
    <3>2. g[1] = hand[R]
      OBVIOUS
    <3>3. OwnerInv /\ MarkInv
      OBVIOUS
    <3> HIDE DEF g, Names, SenderOwns, ReceiverOwns, IInv, TailInv, HeadInv
    <3> QED BY <2>1, <3>1, <3>2, <3>3
  <2>3. CASE ~Packet
    BY <1>16, <2>1, <2>3 DEF PopEnd
  <2> QED BY <2>2, <2>3
<1>17. CASE AvailableUpdate(R)
  BY <1>17 DEF AvailableUpdate
<1>18. CASE PktFree(R)
  BY <1>18 DEF PktFree
<1>19. CASE AvailableAck(R)
  BY <1>19 DEF AvailableAck
<1> QED BY <1>2, <1>3, <1>4, <1>5, <1>6, <1>7, <1>8, <1>9, <1>10, <1>11, <1>12, <1>13,
         <1>14, <1>15, <1>16, <1>17, <1>18, <1>19 DEF RecvStep

\* A step of the sender keeps: held packets, order, asserts.
LEMMA SendKeepsRest ==
  ASSUME OneEach, RingFits, IInv,
         Send(Sender) \/ SendStep(Sender)
  PROVE  (HeldPacketIntact /\ OrderInv /\ NoAssertFails)'
<1> DEFINE S == Sender  R == Receiver  n == Len(log)  k == Len(received)
<1>1. Facts
  BY FactsHold
<1> USE <1>1
<1> USE DEF Facts, Goto, queueVars, localVars, histVars, AtTail, AtHead, SendPCs, RecvPCs,
            Inserting, Removing
<1> USE DEF IInv, WaitingInv, FreeInv, TailInv, HeadInv, OwnerInv, MarkInv, Holds,
            Names, SenderOwns, ReceiverOwns, HeldPacketIntact, OrderInv, NoAssertFails,
            Procs
<1>2. CASE Send(S)
  BY <1>2 DEF Send
<1>3. CASE QueueTailAck(S)
  BY <1>3 DEF QueueTailAck
<1>4. CASE QueueTailUpdate(S)
  BY <1>4 DEF QueueTailUpdate
<1>5. CASE CheckEntry(S)
  BY <1>5 DEF CheckEntry
<1>6. CASE ReserveEntry(S)
  BY <1>6 DEF ReserveEntry
<1>7. CASE AllocBuffer(S)
  BY <1>7 DEF AllocBuffer
<1>8. CASE UndoReserveRead(S)
  BY <1>8 DEF UndoReserveRead, ReadEntryState
<1>9. CASE UndoReserve(S)
  BY <1>9 DEF UndoReserve, XchgState
<1>10. CASE FillBuffer(S)
  <2>1. SenderOwns /\ \A h \in held[R] : h[1] # hand[S]
    BY <1>10 DEF FillBuffer
  <2>2. \A h \in held[R] : buff'[h[1]] = buff[h[1]]
    BY <1>10, <2>1 DEF FillBuffer
  <2>3. HeldPacketIntact'
    BY <1>10, <2>2, TwoThreads DEF FillBuffer
  <2> QED BY <1>10, <2>3 DEF FillBuffer
<1>11. CASE LinkBufferRead(S)
  BY <1>11 DEF LinkBufferRead
<1>12. CASE LinkBuffer(S)
  BY <1>12 DEF LinkBuffer
<1>13. CASE MarkAllocated(S)
  BY <1>13 DEF MarkAllocated
<1>14. CASE PushReadUpdate(S)
  BY <1>14 DEF PushReadUpdate
<1>15. CASE PushReadAck(S)
  BY <1>15 DEF PushReadAck
<1>16. CASE PushBegin(S)
  BY <1>16 DEF PushBegin
<1>17. CASE PushEnd(S)
  <2>1. \A i \in 1 .. n : log'[i] = log[i]
    <3>1. log \in Seq(Messages \cup {NoMsg})
      BY DEF CountInv, TypeInv, TypeOK
    <3> QED BY <1>17, <3>1 DEF PushEnd
  <2>2. k <= n /\ received' = received
    BY <1>17, CountBounds DEF PushEnd
  <2>3. OrderInv'
    BY <2>1, <2>2
  <2>4. HeldPacketIntact'
    BY <1>17 DEF PushEnd
  <2>5. NoAssertFails'
    BY <1>17 DEF PushEnd
  <2> QED BY <2>3, <2>4, <2>5
<1> QED BY <1>2, <1>3, <1>4, <1>5, <1>6, <1>7, <1>8, <1>9, <1>10, <1>11, <1>12, <1>13,
         <1>14, <1>15, <1>16, <1>17 DEF SendStep

\* A step of the receiver keeps: held packets, order, asserts.
LEMMA RecvKeepsRest ==
  ASSUME OneEach, RingFits, IInv,
         Recv(Receiver) \/ RecvStep(Receiver) \/ PktFree(Receiver) \/ AvailableAck(Receiver)
  PROVE  (HeldPacketIntact /\ OrderInv /\ NoAssertFails)'
<1> DEFINE S == Sender  R == Receiver  n == Len(log)  k == Len(received)
<1>1. Facts
  BY FactsHold
<1> USE <1>1
<1> USE DEF Facts, Goto, queueVars, localVars, histVars, AtTail, AtHead, SendPCs, RecvPCs,
            Inserting, Removing
<1> USE DEF IInv, WaitingInv, FreeInv, TailInv, HeadInv, OwnerInv, MarkInv, Holds,
            Names, SenderOwns, ReceiverOwns, HeldPacketIntact, OrderInv, NoAssertFails,
            Procs
<1>2. CASE Recv(R)
  BY <1>2 DEF Recv
<1>3. CASE QueueHeadUpdate(R)
  BY <1>3 DEF QueueHeadUpdate
<1>4. CASE QueueHeadAck(R)
  BY <1>4 DEF QueueHeadAck, GiveUp
<1>5. CASE ReadState(R)
  BY <1>5 DEF ReadState, ReadEntryState
<1>6. CASE ReadIndex(R)
  BY <1>6 DEF ReadIndex, GiveUp
<1>7. CASE TakeEntry(R)
  BY <1>7 DEF TakeEntry
<1>8. CASE CopyBuffer(R)
  BY <1>8 DEF CopyBuffer
<1>9. CASE FreeBuffer(R)
  BY <1>9 DEF FreeBuffer
<1>10. CASE ClearEntry(R)
  BY <1>10 DEF ClearEntry
<1>11. CASE ReleaseEntryRead(R)
  BY <1>11 DEF ReleaseEntryRead, ReadEntryState
<1>12. CASE ReleaseEntry(R)
  BY <1>12 DEF ReleaseEntry, XchgState
<1>13. CASE PopReadAck(R)
  BY <1>13 DEF PopReadAck
<1>14. CASE PopReadUpdate(R)
  BY <1>14 DEF PopReadUpdate
<1>15. CASE PopBegin(R)
  BY <1>15 DEF PopBegin
<1>16. CASE PopEnd(R)
  BY <1>16 DEF PopEnd
<1>17. CASE AvailableUpdate(R)
  BY <1>17 DEF AvailableUpdate
<1>18. CASE PktFree(R)
  BY <1>18 DEF PktFree
<1>19. CASE AvailableAck(R)
  BY <1>19 DEF AvailableAck
<1> QED BY <1>2, <1>3, <1>4, <1>5, <1>6, <1>7, <1>8, <1>9, <1>10, <1>11, <1>12, <1>13,
         <1>14, <1>15, <1>16, <1>17, <1>18, <1>19 DEF RecvStep

\* Every step keeps the invariant.
LEMMA IInvStep ==
  ASSUME OneEach, RingFits, IInv, [Next]_vars
  PROVE  IInv'
<1>1. CountInv'
  BY CountStep DEF IInv
<1>2. CASE \E p \in Producers : Send(p) \/ SendStep(p)
  <2>1. Send(Sender) \/ SendStep(Sender)
    BY <1>2, TwoThreads
  <2> QED BY <1>1, <2>1, SendKeepsSlots, SendKeepsTail, SendKeepsHead, SendKeepsOwner,
             SendKeepsMark, SendKeepsRest DEF IInv
<1>3. CASE \E c \in Consumers : Recv(c) \/ RecvStep(c) \/ PktFree(c) \/ AvailableAck(c)
  <2>1. Recv(Receiver) \/ RecvStep(Receiver) \/ PktFree(Receiver) \/ AvailableAck(Receiver)
    BY <1>3, TwoThreads
  <2> QED BY <1>1, <2>1, RecvKeepsSlots, RecvKeepsTail, RecvKeepsHead, RecvKeepsOwner,
             RecvKeepsMark, RecvKeepsRest DEF IInv
<1>4. CASE UNCHANGED vars
  BY <1>1, <1>4 DEF vars, queueVars, localVars, histVars, IInv, WaitingInv, FreeInv, TailInv,
     HeadInv,
     OwnerInv, MarkInv, HeldPacketIntact, OrderInv, NoAssertFails, Holds, Names, SenderOwns,
     ReceiverOwns, Inserting, Removing
<1> QED BY <1>2, <1>3, <1>4 DEF Next

\* The invariant holds at the start.
LEMMA IInvInit ==
  ASSUME OneEach, Init
  PROVE  IInv
<1>1. TypeInv
  BY QueueAssumption DEF Init, TypeInv, TypeOK, ThreadOK, Procs, SendPCs, RecvPCs, EntryStates,
     Counters, Slots, Buffers, NoBuffer
<1>2. /\ Sender \in Producers /\ Receiver \in Consumers /\ Sender \in Procs /\ Receiver \in Procs
      /\ Entries \in Nat
  BY TwoThreads, QueueAssumption
<1>3. Len(log) = 0 /\ Len(received) = 0
  BY DEF Init
<1>4. Wrap(0) = 0
  BY QueueAssumption, ModSmall DEF Wrap
<1>5. CountInv
  BY <1>1, <1>2, <1>3, <1>4 DEF Init, CountInv, CountersInv, SenderInv, ReceiverInv,
     UpdateCount,
     AckCount, AtTail, AtHead
<1>6. WaitingInv /\ FreeInv /\ TailInv /\ HeadInv
  BY <1>2, <1>3 DEF Init, WaitingInv, FreeInv, TailInv, HeadInv, Inserting, Removing
<1>7. OwnerInv /\ MarkInv /\ HeldPacketIntact /\ OrderInv /\ NoAssertFails
  BY <1>2, <1>3 DEF Init, OwnerInv, MarkInv, HeldPacketIntact, OrderInv, NoAssertFails, Names,
     SenderOwns, ReceiverOwns, NoBuffer, Buffers
<1> QED BY <1>5, <1>6, <1>7 DEF IInv

\* With one sender and one receiver, the invariant holds in every reachable
\* state.
THEOREM QueueInvariant == OneEach /\ RingFits => (Spec => []IInv)
<1> SUFFICES ASSUME OneEach, RingFits PROVE Spec => []IInv
  OBVIOUS
<1>1. Init => IInv
  BY IInvInit
<1>2. IInv /\ [Next]_vars => IInv'
  BY IInvStep
<1> QED BY <1>1, <1>2, PTL DEF Spec

\* No assert() of the send and receive routines fails.
THEOREM QueueAssertsHold == OneEach /\ RingFits => (Spec => []NoAssertFails)
<1>1. IInv => NoAssertFails
  BY DEF IInv
<1> QED BY <1>1, QueueInvariant, PTL

\* Sender and receiver never work on the same entry.
THEOREM EntriesExclude == OneEach /\ RingFits => (Spec => []EntryExclusive)
<1> SUFFICES ASSUME OneEach, RingFits PROVE Spec => []EntryExclusive
  OBVIOUS
<1>1. IInv => EntryExclusive
  <2> SUFFICES ASSUME IInv PROVE EntryExclusive
    OBVIOUS
  <2>1. /\ pc[Sender] \in SendPCs /\ pc[Receiver] \in RecvPCs /\ Procs = {Sender, Receiver}
    BY TwoThreads, CountTypes DEF IInv
  <2>2. pc[Sender] \in AtTail /\ pc[Receiver] \in AtHead => qindex[Sender] # qindex[Receiver]
    BY EntriesDistinct DEF IInv
  <2> QED BY <2>1, <2>2 DEF EntryExclusive, Inserting, Removing, SendPCs, RecvPCs, AtTail,
             AtHead
<1> QED BY <1>1, QueueInvariant, PTL

\* A packet the application holds keeps its payload.
THEOREM PacketsIntact == OneEach /\ RingFits => (Spec => []HeldPacketIntact)
<1>1. IInv => HeldPacketIntact
  BY DEF IInv
<1> QED BY <1>1, QueueInvariant, PTL

\* Every buffer that is marked has exactly one owner, and no other has any.
THEOREM BuffersOwned == OneEach /\ RingFits => (Spec => []BufferOwnership)
<1> SUFFICES ASSUME OneEach, RingFits PROVE Spec => []BufferOwnership
  OBVIOUS
<1>1. IInv => BufferOwnership
  <2> SUFFICES ASSUME IInv, NEW b \in Buffers
               PROVE  LET entries == {s \in Slots : Links(s, b)}
                          threads == {p \in Procs : OwnsBuffer(p) /\ hand[p] = b}
                          apps    == {c \in Consumers : \E h \in held[c] : h[1] = b}
                      IN  Cardinality(entries) + Cardinality(threads) + Cardinality(apps)
                            = IF magic_num[b] THEN 1 ELSE 0
    BY DEF BufferOwnership
  <2> DEFINE entries == {s \in Slots : Links(s, b)}
             threads == {p \in Procs : OwnsBuffer(p) /\ hand[p] = b}
             apps    == {c \in Consumers : \E h \in held[c] : h[1] = b}
             app     == \E h \in held[Receiver] : h[1] = b
  <2>1. /\ Procs = {Sender, Receiver} /\ Consumers = {Receiver} /\ Sender # Receiver
        /\ pc[Sender] \in SendPCs /\ pc[Receiver] \in RecvPCs
    BY TwoThreads, CountTypes DEF IInv
  <2>2. entries = {s \in Slots : Names(s, b)}
    BY <2>1 DEF Links, Names
  <2>3. /\ OwnsBuffer(Sender) => SenderOwns
        /\ SenderOwns => OwnsBuffer(Sender)
        /\ OwnsBuffer(Receiver) => ReceiverOwns
        /\ ReceiverOwns => OwnsBuffer(Receiver)
    BY <2>1 DEF OwnsBuffer, SenderOwns, ReceiverOwns, SendPCs, RecvPCs
  <2>4. threads = {p \in {Sender, Receiver} : \/ p = Sender /\ SenderOwns /\ hand[Sender] = b
                                              \/ p = Receiver /\ ReceiverOwns /\ hand[Receiver] = b}
    BY <2>1, <2>3
  <2>5. apps = {c \in {Receiver} : app}
    BY <2>1
  <2>6. /\ Cardinality({}) = 0 /\ Cardinality({Sender}) = 1 /\ Cardinality({Receiver}) = 1
        /\ \A s \in Slots : Cardinality({s}) = 1
    BY FS_EmptySet, FS_Singleton
  <2>7. OwnerInv /\ MarkInv /\ magic_num[b] \in BOOLEAN
    BY SlotTypes DEF IInv
  <2> SUFFICES Cardinality(entries) + Cardinality(threads) + Cardinality(apps)
                 = IF magic_num[b] THEN 1 ELSE 0
    OBVIOUS
  <2> HIDE DEF entries, threads, apps
  <2>8. CASE \E s \in Slots : Names(s, b)
    <3>1. PICK s \in Slots : Names(s, b)
      BY <2>8
    <3>2. entries = {s} /\ threads = {} /\ apps = {} /\ magic_num[b]
      BY <2>2, <2>4, <2>5, <2>7, <3>1 DEF OwnerInv, MarkInv
    <3>3. Cardinality(entries) = 1 /\ Cardinality(threads) = 0 /\ Cardinality(apps) = 0
      BY <2>6, <3>2
    <3> QED BY <3>2, <3>3
  <2>9. CASE SenderOwns /\ hand[Sender] = b
    <3>1. entries = {} /\ threads = {Sender} /\ apps = {} /\ magic_num[b]
      BY <2>1, <2>2, <2>4, <2>5, <2>7, <2>9 DEF OwnerInv, MarkInv
    <3>2. Cardinality(entries) = 0 /\ Cardinality(threads) = 1 /\ Cardinality(apps) = 0
      BY <2>6, <3>1
    <3> QED BY <3>1, <3>2
  <2>10. CASE ReceiverOwns /\ hand[Receiver] = b
    <3>1. entries = {} /\ threads = {Receiver} /\ apps = {} /\ magic_num[b]
      BY <2>1, <2>2, <2>4, <2>5, <2>7, <2>10 DEF OwnerInv, MarkInv
    <3>2. Cardinality(entries) = 0 /\ Cardinality(threads) = 1 /\ Cardinality(apps) = 0
      BY <2>6, <3>1
    <3> QED BY <3>1, <3>2
  <2>11. CASE app
    <3>1. entries = {} /\ threads = {} /\ apps = {Receiver} /\ magic_num[b]
      BY <2>1, <2>2, <2>4, <2>5, <2>7, <2>11 DEF OwnerInv, MarkInv
    <3>2. Cardinality(entries) = 0 /\ Cardinality(threads) = 0 /\ Cardinality(apps) = 1
      BY <2>6, <3>1
    <3> QED BY <3>1, <3>2
  <2>12. CASE ~magic_num[b]
    <3>1. entries = {} /\ threads = {} /\ apps = {}
      BY <2>1, <2>2, <2>4, <2>5, <2>7, <2>12 DEF MarkInv
    <3> QED BY <2>6, <2>12, <3>1
  <2> QED BY <2>7, <2>8, <2>9, <2>10, <2>11, <2>12 DEF MarkInv
<1> QED BY <1>1, QueueInvariant, PTL

-----------------------------------------------------------------------------
(* What a receiver was told, and the abstract queue.                       *)

\* After mcapi_trans_msg_available has returned n, the next n non-blocking
\* receives do not come back empty.
THEOREM AvailableKept == OneEach /\ RingFits => (Spec => AvailableIsKept)
<1> SUFFICES ASSUME OneEach, RingFits PROVE Spec => AvailableIsKept
  OBVIOUS
<1>1. IInv /\ [Next]_vars =>
        [\A c \in Consumers :
           (pc[c] \in {"head_ac", "read_index"} /\ pc'[c] = "idle") => promise[c] = 0]_vars
  <2> SUFFICES ASSUME IInv, Next,
                      pc[Receiver] \in {"head_ac", "read_index"}, pc'[Receiver] = "idle"
               PROVE  promise[Receiver] = 0
    BY TwoThreads
  <2> DEFINE R == Receiver  k == Len(received)
  <2>1. Facts
    BY FactsHold
  <2>2. QueueHeadAck(R) \/ ReadIndex(R)
    <3>1. CASE \E p \in Producers : Send(p) \/ SendStep(p)
      <4>1. pc'[R] = pc[R]
        BY <3>1, <2>1, TwoThreads DEF Facts, Goto, Send, SendStep, QueueTailAck,
           QueueTailUpdate,
           CheckEntry, ReserveEntry, AllocBuffer, UndoReserveRead, UndoReserve, FillBuffer,
           LinkBufferRead, LinkBuffer, MarkAllocated, PushReadUpdate, PushReadAck, PushBegin,
           PushEnd, ReadEntryState, XchgState
      <4> QED BY <4>1
    <3>2. CASE Recv(R) \/ RecvStep(R) \/ PktFree(R) \/ AvailableAck(R)
      BY <3>2, <2>1 DEF Facts, Goto, Recv, RecvStep, PktFree, AvailableAck, QueueHeadUpdate,
         ReadState, TakeEntry, CopyBuffer, FreeBuffer, ClearEntry, ReleaseEntryRead,
         ReleaseEntry, PopReadAck, PopReadUpdate, PopBegin, PopEnd, AvailableUpdate,
         ReadEntryState, XchgState
    <3> QED BY <3>1, <3>2, TwoThreads DEF Next
  <2>3. CASE ReadIndex(R)
    <3>1. oldbstate[R] = "ALLOCATED" /\ buff_index[qindex[R]] # NoBuffer
      BY <2>1, <2>3 DEF ReadIndex, Goto, Facts, AtHead, IInv, HeadInv, WaitingInv, Holds,
         Removing
    <3> QED BY <2>1, <2>3, <3>1 DEF ReadIndex, Goto, Facts
  <2>4. CASE QueueHeadAck(R)
    <3>1. HeadStatus(counter[R], ack_counter) = "EMPTY"
      BY <2>1, <2>4 DEF QueueHeadAck, Goto, Facts
    <3>2. PICK u \in 0 .. UpdateCount : counter[R] = Wrap(u) /\ 2 * (k + promise[R]) <= u
      BY <2>4 DEF QueueHeadAck, Goto, IInv, CountInv, ReceiverInv
    <3>3. ack_counter = Wrap(2 * k)
      BY <2>4 DEF QueueHeadAck, Goto, IInv, CountInv, CountersInv, AckCount
    <3>4. k \in Nat /\ promise[R] \in Nat /\ Len(log) \in Nat /\ Entries \in Nat
      BY CountTypes DEF IInv
    <3>5. UpdateCount \in Nat /\ UpdateCount <= 2 * Len(log) + 1 /\ Len(log) <= k + Entries
      BY CountBounds DEF IInv
    <3>6. u \in Int /\ k \in Int /\ 2 * k <= u /\ u <= 2 * k + 2 * Entries + 1
      BY <3>2, <3>4, <3>5
    <3>7. u = 2 * k
      BY <3>1, <3>2, <3>3, <3>6, HeadStatusIs
    <3> QED BY <3>2, <3>4, <3>7
  <2> QED BY <2>2, <2>3, <2>4
<1> QED BY <1>1, QueueInvariant, PTL DEF Spec, AvailableIsKept

\* A message pushed goes to the end of the messages in the queue.
LEMMA QueueAppend ==
  ASSUME NEW T, NEW s \in Seq(T), NEW e \in T, NEW k \in Nat, k <= Len(s)
  PROVE  SubSeq(Append(s, e), k + 1, Len(s) + 1) = Append(SubSeq(s, k + 1, Len(s)), e)
<1> DEFINE n == Len(s)  a == Append(s, e)  l == SubSeq(a, k + 1, n + 1)
           q == SubSeq(s, k + 1, n)  r == Append(q, e)
<1>1. n \in Nat /\ \A i \in 1 .. n : s[i] \in T
  BY LenProperties, ElementOfSeq
<1>2. /\ Len(a) = n + 1 /\ a[n + 1] = e
      /\ \A i \in 1 .. n : a[i] = s[i]
  BY AppendProperties
<1> HIDE DEF a
<1>3. \A i \in k + 1 .. n + 1 : a[i] \in T
  BY <1>1, <1>2
<1>4. /\ l \in Seq(T) /\ Len(l) = n - k + 1
      /\ \A i \in 1 .. n - k + 1 : l[i] = a[k + i]
  <2>1. k + 1 \in Int /\ n + 1 \in Int /\ k + 1 <= n + 1 /\ (n + 1) - (k + 1) + 1 = n - k + 1
    BY <1>1
  <2>2. /\ l \in Seq(T) /\ Len(l) = n - k + 1
        /\ \A i \in 1 .. n - k + 1 : l[i] = a[(k + 1) + i - 1]
    BY <1>3, <2>1, SubSeqProperties
  <2>3. \A i \in 1 .. n - k + 1 : (k + 1) + i - 1 = k + i
    BY <1>1
  <2> QED BY <2>2, <2>3
<1>5. /\ q \in Seq(T) /\ Len(q) = n - k
      /\ \A i \in 1 .. n - k : q[i] = s[k + i]
  <2>1. k + 1 \in Int /\ n \in Int /\ n - (k + 1) + 1 = n - k
    BY <1>1
  <2>2. \A i \in k + 1 .. n : s[i] \in T
    BY <1>1
  <2>3. /\ q \in Seq(T) /\ Len(q) = IF k + 1 <= n THEN n - k ELSE 0
        /\ \A i \in 1 .. n - k : q[i] = s[(k + 1) + i - 1]
    BY <2>1, <2>2, SubSeqProperties
  <2>4. \A i \in 1 .. n - k : (k + 1) + i - 1 = k + i
    BY <1>1
  <2> QED BY <1>1, <2>3, <2>4
<1> HIDE DEF q, l
<1>6. /\ r \in Seq(T) /\ Len(r) = n - k + 1 /\ r[n - k + 1] = e
      /\ \A i \in 1 .. n - k : r[i] = q[i]
  BY <1>5, AppendProperties
<1> HIDE DEF r
<1>7. \A i \in 1 .. Len(l) : l[i] = r[i]
  <2> SUFFICES ASSUME NEW i \in 1 .. n - k + 1 PROVE l[i] = r[i]
    BY <1>4
  <2>1. CASE i = n - k + 1
    BY <1>1, <1>2, <1>4, <1>6, <2>1
  <2>2. CASE i # n - k + 1
    <3>1. i \in 1 .. n - k /\ k + i \in 1 .. n
      BY <1>1, <2>2
    <3> QED BY <1>2, <1>4, <1>5, <1>6, <3>1
  <2> QED BY <2>1, <2>2
<1>8. l = r
  BY <1>4, <1>6, <1>7, SeqEqual
<1> QED BY <1>8 DEF l, r, q, a

\* The queue implements the bounded first-in first-out queue: the messages
\* between the two counters are its content, a push completes when the update
\* counter is even again and a pop when the ack counter is.
THEOREM QueueIsFifo == OneEach /\ RingFits => (Spec => ImplementsFifo)
<1> SUFFICES ASSUME OneEach, RingFits PROVE Spec => ImplementsFifo
  OBVIOUS
<1>1. Init => Fifo!Init
  <2>1. SubSeq(<<>>, 1, 0) = <<>>
    BY SubSeqEmpty
  <2> QED BY <2>1 DEF Init, Fifo!Init
<1>2. IInv /\ [Next]_vars => [Fifo!Next]_(Fifo!fifoVars)
  <2> SUFFICES ASSUME IInv, [Next]_vars PROVE [Fifo!Next]_(Fifo!fifoVars)
    OBVIOUS
  <2> DEFINE S == Sender  R == Receiver  n == Len(log)  k == Len(received)
             T == Messages \cup {NoMsg}  queue == SubSeq(log, k + 1, n)
  <2>1. Facts
    BY FactsHold
  <2>2. log \in Seq(T) /\ received \in Seq(T) /\ n \in Nat /\ k \in Nat /\ k <= n
    BY CountTypes, CountBounds DEF IInv, CountInv, TypeInv, TypeOK
  <2>3. CASE PushEnd(S)
    <3>1. /\ log' = Append(log, msg[S]) /\ received' = received /\ pc[S] = "push_inc"
      BY <2>3 DEF PushEnd, Goto
    <3>2. msg[S] \in Messages /\ n < k + Entries /\ Entries \in Nat
      BY <2>1, <3>1, QueueAssumption DEF Facts, IInv, CountInv, TypeInv, ThreadOK, SenderInv,
         AtTail
    <3>3. Len(log') = n + 1
      BY <2>2, <3>1, <3>2, AppendProperties
    <3>4. SubSeq(log', Len(received') + 1, Len(log')) = Append(queue, msg[S])
      <4>1. msg[S] \in T
        BY <3>2
      <4>2. SubSeq(Append(log, msg[S]), k + 1, n + 1) = Append(queue, msg[S])
        BY <2>2, <4>1, QueueAppend
      <4> QED BY <3>1, <3>3, <4>2
    <3>5. Len(queue) < Entries
      <4>1. \A i \in k + 1 .. n : log[i] \in T
        BY <2>2, ElementOfSeq
      <4>2. Len(queue) = IF k + 1 <= n THEN n - (k + 1) + 1 ELSE 0
        BY <2>2, <4>1, SubSeqProperties
      <4> QED BY <2>2, <3>2, <4>2
    <3> QED BY <3>1, <3>2, <3>4, <3>5 DEF Fifo!Next, Fifo!Put
  <2>4. CASE PopEnd(R)
    <3>1. /\ received' = Append(received, msg[R]) /\ log' = log /\ pc[R] = "pop_inc"
      BY <2>4 DEF PopEnd, Goto
    <3>2. k < n /\ msg[R] = log[k + 1]
      BY <2>1, <3>1 DEF Facts, IInv, CountInv, ReceiverInv, AtHead, HeadInv, Removing
    <3>3. k + 1 \in 1 .. n /\ n \in k + 1 .. n /\ log[k + 1] \in T
      BY <2>2, <3>2, ElementOfSeq
    <3>4. Len(received') = k + 1
      BY <2>2, <3>1, <3>2, <3>3, AppendProperties
    <3>5. Head(queue) = log[k + 1] /\ Tail(queue) = SubSeq(log, (k + 1) + 1, n)
      BY <2>2, <3>3, HeadTailOfSubSeq
    <3>6. queue # <<>>
      <4>1. \A i \in k + 1 .. n : log[i] \in T
        BY <2>2, ElementOfSeq
      <4>2. Len(queue) = IF k + 1 <= n THEN n - (k + 1) + 1 ELSE 0
        BY <2>2, <4>1, SubSeqProperties
      <4>3. Len(queue) # 0
        BY <2>2, <3>2, <4>2
      <4> QED BY <4>3, EmptySeq
    <3> QED BY <3>1, <3>2, <3>4, <3>5, <3>6 DEF Fifo!Next, Fifo!Get
  <2>5. CASE ~PushEnd(S) /\ ~PopEnd(R)
    <3>1. CASE \E p \in Producers : Send(p) \/ SendStep(p)
      <4>1. Send(S) \/ (SendStep(S) /\ ~PushEnd(S))
        BY <2>5, <3>1, TwoThreads
      <4>2. UNCHANGED <<log, received>>
        BY <4>1 DEF histVars, Send, SendStep, QueueTailAck, QueueTailUpdate,
           CheckEntry, ReserveEntry, AllocBuffer, UndoReserveRead, UndoReserve, FillBuffer,
           LinkBufferRead, LinkBuffer, MarkAllocated, PushReadUpdate, PushReadAck, PushBegin,
           ReadEntryState, XchgState
      <4> QED BY <4>2 DEF Fifo!fifoVars
    <3>2. CASE \E c \in Consumers : Recv(c) \/ RecvStep(c) \/ PktFree(c) \/ AvailableAck(c)
      <4>1. Recv(R) \/ (RecvStep(R) /\ ~PopEnd(R)) \/ PktFree(R) \/ AvailableAck(R)
        BY <2>5, <3>2, TwoThreads
      <4>2. UNCHANGED <<log, received>>
        BY <4>1 DEF histVars, Recv, RecvStep, PktFree, AvailableAck, QueueHeadUpdate,
           QueueHeadAck,
           ReadState, ReadIndex, TakeEntry, CopyBuffer, FreeBuffer, ClearEntry,
           ReleaseEntryRead,
           ReleaseEntry, PopReadAck, PopReadUpdate, PopBegin, AvailableUpdate,
           ReadEntryState, XchgState
      <4> QED BY <4>2 DEF Fifo!fifoVars
    <3>3. CASE UNCHANGED vars
      BY <3>3 DEF vars, histVars, Fifo!fifoVars
    <3> QED BY <3>1, <3>2, <3>3 DEF Next
  <2> QED BY <2>3, <2>4, <2>5
<1> QED BY <1>1, <1>2, QueueInvariant, PTL DEF Spec, ImplementsFifo, Fifo!Spec
=============================================================================
