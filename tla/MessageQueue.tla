---------------------------- MODULE MessageQueue ----------------------------
(***************************************************************************)
(* The lock-free receive queue of an MCAPI endpoint (event messages, the   *)
(* "NBB" protocol of the repository's README): the counters of             *)
(* transport_sm_queue_abb.c and the send, receive and buffer routines of   *)
(* transport_sm_abb.c that run on them.                                    *)
(*                                                                         *)
(* One action is one access to shared memory, so the steps of a sender and *)
(* of a receiver interleave as they do between two cores.  The two halves  *)
(* of mrapi_atomic_xchg, a plain read and a compare-and-swap whose result  *)
(* is ignored (sysvr4_atomic.c), are two steps.  A failed assert() stops   *)
(* the thread that meets it: its pc becomes "abort".                       *)
(***************************************************************************)
EXTENDS Integers, Sequences, FiniteSets

CONSTANTS
  Producers,    \* threads that call mcapi_trans_send on this endpoint
  Consumers,    \* threads that call mcapi_trans_recv on this endpoint
  Entries,      \* MCAPI_MAX_QUEUE_ENTRIES
  NBuffers,     \* MCAPI_MAX_BUFFERS
  CounterMod,   \* the counters are unsigned integers modulo CounterMod
  Packet,       \* TRUE for MCAPI_PKT_CHAN: the receiver is handed the buffer
  MaxSends      \* bound: messages each producer gets into the queue

ASSUME QueueAssumption ==
  /\ Producers # {} /\ Consumers # {}
  /\ Producers \cap Consumers = {}
  /\ Entries \in Nat \ {0}
  /\ NBuffers \in Nat \ {0}
  /\ CounterMod \in Nat /\ CounterMod % 2 = 0 /\ CounterMod > 4 * Entries
  /\ Packet \in BOOLEAN
  /\ MaxSends \in Nat \ {0}

Procs    == Producers \cup Consumers
Slots    == 0 .. Entries - 1
Buffers  == 0 .. NBuffers - 1
NoBuffer == -1                        \* buff_index = 0: the valid bit is clear
Counters == 0 .. CounterMod - 1
Messages == Producers \X (1 .. MaxSends)
NoMsg    == <<>>

VARIABLES
  update_counter,  \* twice the pushes; odd while a push is in progress
  ack_counter,     \* twice the pops; odd while a pop is in progress
  state,           \* elements[s].state
  buff_index,      \* elements[s].buff_index
  magic_num,       \* buffers[b].magic_num = MAGIC_NUM
  buff,            \* buffers[b].buff (or .scalar): the payload
  pc, counter, qindex, hand, oldbstate, oldindex, msg, blocking,  \* locals of each thread
  held,            \* packets a consumer's application has not freed yet
  sent,            \* history: pushes of each producer
  log,             \* history: messages in the order of the pushes
  received,        \* history: messages in the order of the pops
  promise          \* history: messages the last "available" call still owes

queueVars == <<update_counter, ack_counter, state, buff_index, magic_num, buff>>
localVars == <<pc, counter, qindex, hand, oldbstate, oldindex, msg, blocking>>
histVars  == <<sent, log, received, promise>>
vars      == <<queueVars, localVars, held, histVars>>

-----------------------------------------------------------------------------
(* Arithmetic of the counters.                                             *)

Wrap(n) == n % CounterMod

\* (mutant: the subtraction is not modular)
SignedDiffPlain(a, b) == a - b

\* unsigned difference read back as a signed integer
SignedDiff(a, b) ==
  LET d == Wrap(a - b) IN IF 2 * d >= CounterMod THEN d - CounterMod ELSE d

LastOp(n) == 2 * (n \div 2)           \* "last completed operation"
Entry(n)  == (n \div 2) % Entries

\* (mutant: a pop in progress is not waited for)
TailStatusNoWait(uc, ac) ==
  IF SignedDiff(LastOp(uc), ac) >= 2 * Entries THEN "FULL" ELSE "SUCCESS"

\* status of a push that saw update counter uc and ack counter ac
TailStatus(uc, ac) ==
  LET diff == SignedDiff(LastOp(uc), ac)
  IN  IF diff >= 2 * Entries         THEN "FULL"
      ELSE IF diff = 2 * Entries - 1 THEN "FULL_CONSUMER_READING"
      ELSE "SUCCESS"

\* (mutant: one message in the queue is taken for none)
HeadStatusOffByOne(uc, ac) ==
  LET diff == Wrap(uc - LastOp(ac)) IN IF diff <= 2 THEN "EMPTY" ELSE "SUCCESS"

\* status of a pop that saw update counter uc and ack counter ac
HeadStatus(uc, ac) ==
  LET diff == Wrap(uc - LastOp(ac))
  IN  IF diff = 0      THEN "EMPTY"
      ELSE IF diff = 1 THEN "EMPTY_PRODUCER_INSERTING"
      ELSE "SUCCESS"

-----------------------------------------------------------------------------
(* Steps of a thread.                                                      *)

Goto(p, from, to) == pc[p] = from /\ pc' = [pc EXCEPT ![p] = to]

\* a plain read of the entry's state; also the first half of an exchange
ReadEntryState(p, from, to) ==
  /\ Goto(p, from, to)
  /\ oldbstate' = [oldbstate EXCEPT ![p] = state[qindex[p]]]
  /\ UNCHANGED <<queueVars, counter, qindex, hand, oldindex, msg, blocking, held, histVars>>

\* second half of mrapi_atomic_xchg on the entry's state: a compare-and-swap
\* against the value read before, which changes nothing if it has moved
XchgState(p, from, to, new) ==
  /\ Goto(p, from, to)
  /\ state' = IF state[qindex[p]] = oldbstate[p]
              THEN [state EXCEPT ![qindex[p]] = new] ELSE state
  /\ UNCHANGED <<update_counter, ack_counter, buff_index, magic_num, buff, counter,
                 qindex, hand, oldbstate, oldindex, msg, blocking, held, histVars>>

-----------------------------------------------------------------------------
(* mcapi_trans_send                                                        *)

\* the application sends its next message
Send(p) ==
  /\ sent[p] < MaxSends
  /\ Goto(p, "idle", "tail_ac")
  /\ msg' = [msg EXCEPT ![p] = <<p, sent[p] + 1>>]
  /\ UNCHANGED <<queueVars, counter, qindex, hand, oldbstate, oldindex, blocking, held, histVars>>

\* mcapi_trans_queue_tail: the ack counter is read first ...
QueueTailAck(p) ==
  /\ Goto(p, "tail_ac", "tail_uc")
  /\ counter' = [counter EXCEPT ![p] = ack_counter]
  /\ UNCHANGED <<queueVars, qindex, hand, oldbstate, oldindex, msg, blocking, held, histVars>>

\* ... then the update counter.  A full queue fails the send; a pop in
\* progress makes it try again.
QueueTailUpdate(p) ==
  LET status == TailStatus(update_counter, counter[p])
  IN  /\ Goto(p, "tail_uc", CASE status = "SUCCESS" -> "check"
                              [] status = "FULL"    -> "idle"
                              [] OTHER              -> "tail_ac")
      /\ qindex' = [qindex EXCEPT ![p] = Entry(update_counter)]
      /\ UNCHANGED <<queueVars, counter, hand, oldbstate, oldindex, msg, blocking, held, histVars>>

\* assert(0 == buf->buff_index)
CheckEntry(p) ==
  /\ Goto(p, "check", IF buff_index[qindex[p]] = NoBuffer THEN "reserve"
                                                          ELSE "abort")
  /\ UNCHANGED <<queueVars, counter, qindex, hand, oldbstate, oldindex, msg, blocking, held, histVars>>

\* compare-and-swap BUFFER_FREE -> BUFFER_RESERVED; on failure look again
ReserveEntry(p) ==
  LET free == state[qindex[p]] = "FREE"
  IN  /\ Goto(p, "reserve", IF free THEN "alloc" ELSE "tail_ac")
      /\ state' = IF free THEN [state EXCEPT ![qindex[p]] = "RESERVED"] ELSE state
      /\ hand' = [hand EXCEPT ![p] = 0]
      /\ UNCHANGED <<update_counter, ack_counter, buff_index, magic_num, buff,
                     counter, qindex, oldbstate, oldindex, msg, blocking, held, histVars>>

\* mcapi_trans_alloc_buffer: compare-and-swap magic_num 0 -> MAGIC_NUM on one
\* buffer after the other
AllocBuffer(p) ==
  LET b == hand[p]
  IN  /\ pc[p] = "alloc"
      /\ \/ /\ ~magic_num[b]
            /\ pc' = [pc EXCEPT ![p] = "fill"]
            /\ magic_num' = [magic_num EXCEPT ![b] = TRUE]
            /\ UNCHANGED hand
         \/ /\ magic_num[b] /\ b + 1 < NBuffers
            /\ hand' = [hand EXCEPT ![p] = b + 1]
            /\ UNCHANGED <<pc, magic_num>>
         \/ /\ magic_num[b] /\ b + 1 = NBuffers
            /\ pc' = [pc EXCEPT ![p] = "undo"]
            /\ UNCHANGED <<hand, magic_num>>
      /\ UNCHANGED <<update_counter, ack_counter, state, buff_index, buff,
                     counter, qindex, oldbstate, oldindex, msg, blocking, held, histVars>>

\* no buffer: exchange the entry's state back to BUFFER_FREE, send fails
UndoReserveRead(p) == ReadEntryState(p, "undo", "undo_cas")

\* (mutant: the send gives up its entry without exchanging the state back)
UndoReserveNot(p) ==
  /\ Goto(p, "undo_cas", "idle")
  /\ UNCHANGED <<queueVars, counter, qindex, hand, oldbstate, oldindex, msg, blocking, held, histVars>>

UndoReserve(p) == XchgState(p, "undo_cas", "idle", "FREE")

\* (mutant: the payload is not copied)
FillBufferStale(p) ==
  /\ Goto(p, "fill", "link")
  /\ UNCHANGED <<queueVars, counter, qindex, hand, oldbstate, oldindex, msg, blocking, held, histVars>>

\* copy the payload and its size into the buffer
FillBuffer(p) ==
  /\ Goto(p, "fill", "link")
  /\ buff' = [buff EXCEPT ![hand[p]] = msg[p]]
  /\ UNCHANGED <<update_counter, ack_counter, state, buff_index, magic_num,
                 counter, qindex, hand, oldbstate, oldindex, msg, blocking, held, histVars>>

\* exchange the entry's buff_index
LinkBufferRead(p) ==
  /\ Goto(p, "link", "link_cas")
  /\ oldindex' = [oldindex EXCEPT ![p] = buff_index[qindex[p]]]
  /\ UNCHANGED <<queueVars, counter, qindex, hand, oldbstate, msg, blocking, held, histVars>>

LinkBuffer(p) ==
  /\ Goto(p, "link_cas", "mark")
  /\ buff_index' = IF buff_index[qindex[p]] = oldindex[p]
                   THEN [buff_index EXCEPT ![qindex[p]] = hand[p]] ELSE buff_index
  /\ UNCHANGED <<update_counter, ack_counter, state, magic_num, buff,
                 counter, qindex, hand, oldbstate, oldindex, msg, blocking, held, histVars>>

\* compare-and-swap BUFFER_RESERVED -> BUFFER_ALLOCATED, asserted
MarkAllocated(p) ==
  LET reserved == state[qindex[p]] = "RESERVED"
  IN  /\ Goto(p, "mark", IF reserved THEN "push_uc" ELSE "abort")
      /\ state' = IF reserved THEN [state EXCEPT ![qindex[p]] = "ALLOCATED"] ELSE state
      /\ UNCHANGED <<update_counter, ack_counter, buff_index, magic_num, buff,
                     counter, qindex, hand, oldbstate, oldindex, msg, blocking, held, histVars>>

\* mcapi_trans_push_queue: wait while a push is in progress
PushReadUpdate(p) ==
  /\ update_counter % 2 = 0
  /\ Goto(p, "push_uc", "push_ac")
  /\ counter' = [counter EXCEPT ![p] = update_counter]
  /\ UNCHANGED <<queueVars, qindex, hand, oldbstate, oldindex, msg, blocking, held, histVars>>

\* a full queue returns -1, which the assert in mcapi_trans_send refuses
PushReadAck(p) ==
  /\ Goto(p, "push_ac", IF TailStatus(counter[p], ack_counter) = "SUCCESS"
                        THEN "push_cas" ELSE "abort")
  /\ UNCHANGED <<queueVars, counter, qindex, hand, oldbstate, oldindex, msg, blocking, held, histVars>>

\* "Producer is about to insert an item"
PushBegin(p) ==
  LET same == update_counter = counter[p]
  IN  /\ Goto(p, "push_cas", IF same THEN "push_inc" ELSE "push_uc")
      /\ update_counter' = IF same THEN Wrap(update_counter + 1) ELSE update_counter
      /\ UNCHANGED <<ack_counter, state, buff_index, magic_num, buff,
                     counter, qindex, hand, oldbstate, oldindex, msg, blocking, held, histVars>>

\* (mutant: the second increment is missing)
PushEndHalf(p) ==
  /\ Goto(p, "push_inc", "idle")
  /\ sent' = [sent EXCEPT ![p] = @ + 1]
  /\ log' = Append(log, msg[p])
  /\ UNCHANGED <<queueVars, counter, qindex, hand, oldbstate, oldindex, msg, blocking,
                 held, received, promise>>

\* "Producer is finished inserting item"; the index that push_queue returns
\* must be the entry that was filled
PushEnd(p) ==
  /\ Goto(p, "push_inc", IF Entry(counter[p]) = qindex[p] THEN "idle" ELSE "abort")
  /\ update_counter' = Wrap(update_counter + 1)
  /\ sent' = [sent EXCEPT ![p] = @ + 1]
  /\ log' = Append(log, msg[p])
  /\ UNCHANGED <<ack_counter, state, buff_index, magic_num, buff,
                 counter, qindex, hand, oldbstate, oldindex, msg, blocking, held, received, promise>>

-----------------------------------------------------------------------------
(* mcapi_trans_recv                                                        *)

Recv(c) ==
  /\ Goto(c, "idle", "head_uc")
  /\ \E b \in BOOLEAN : blocking' = [blocking EXCEPT ![c] = b]
  /\ UNCHANGED <<queueVars, counter, qindex, hand, oldbstate, oldindex, msg, held, histVars>>

\* nothing to receive: a blocking receive looks again, the other returns FALSE
GiveUp(c) == IF blocking[c] THEN "head_uc" ELSE "idle"

\* mcapi_trans_queue_head: the update counter is read first ...
QueueHeadUpdate(c) ==
  /\ Goto(c, "head_uc", "head_ac")
  /\ counter' = [counter EXCEPT ![c] = update_counter]
  /\ UNCHANGED <<queueVars, qindex, hand, oldbstate, oldindex, msg, blocking, held, histVars>>

\* ... then the ack counter
QueueHeadAck(c) ==
  LET status == HeadStatus(counter[c], ack_counter)
  IN  /\ Goto(c, "head_ac", CASE status = "SUCCESS" -> "read_state"
                              [] status = "EMPTY"   -> GiveUp(c)
                              [] OTHER              -> "head_uc")
      /\ qindex' = [qindex EXCEPT ![c] = Entry(ack_counter)]
      /\ UNCHANGED <<queueVars, counter, hand, oldbstate, oldindex, msg, blocking, held, histVars>>

ReadState(c) == ReadEntryState(c, "read_state", "read_index")

ReadIndex(c) ==
  /\ Goto(c, "read_index", IF oldbstate[c] = "ALLOCATED" /\ buff_index[qindex[c]] # NoBuffer
                           THEN "take" ELSE GiveUp(c))
  /\ UNCHANGED <<queueVars, counter, qindex, hand, oldbstate, oldindex, msg, blocking, held, histVars>>

\* compare-and-swap BUFFER_ALLOCATED -> BUFFER_RECEIVED, asserted
TakeEntry(c) ==
  LET allocated == state[qindex[c]] = "ALLOCATED"
  IN  /\ Goto(c, "take", IF allocated THEN "copy" ELSE "abort")
      /\ state' = IF allocated THEN [state EXCEPT ![qindex[c]] = "RECEIVED"] ELSE state
      /\ UNCHANGED <<update_counter, ack_counter, buff_index, magic_num, buff,
                     counter, qindex, hand, oldbstate, oldindex, msg, blocking, held, histVars>>

\* (mutant: the buffer of a packet is freed as if it had been copied)
CopyBufferFree(c) ==
  /\ Goto(c, "copy", "free")
  /\ hand' = [hand EXCEPT ![c] = buff_index[qindex[c]]]
  /\ msg' = [msg EXCEPT ![c] = buff[buff_index[qindex[c]]]]
  /\ UNCHANGED <<queueVars, counter, qindex, oldbstate, oldindex, blocking, held, histVars>>

\* mcapi_trans_recv_: read the payload, or keep the buffer for a packet.  A
\* clear buff_index designates buffer 0.
CopyBuffer(c) ==
  LET i == buff_index[qindex[c]]
      b == IF i = NoBuffer THEN 0 ELSE i
  IN  /\ Goto(c, "copy", IF Packet THEN "clear" ELSE "free")
      /\ hand' = [hand EXCEPT ![c] = b]
      /\ msg' = [msg EXCEPT ![c] = buff[b]]
      /\ UNCHANGED <<queueVars, counter, qindex, oldbstate, oldindex, blocking, held, histVars>>

\* compare-and-swap magic_num MAGIC_NUM -> 0, asserted (not for a packet)
FreeBuffer(c) ==
  /\ Goto(c, "free", IF magic_num[hand[c]] THEN "clear" ELSE "abort")
  /\ magic_num' = [magic_num EXCEPT ![hand[c]] = FALSE]
  /\ UNCHANGED <<update_counter, ack_counter, state, buff_index, buff,
                 counter, qindex, hand, oldbstate, oldindex, msg, blocking, held, histVars>>

\* clear the entry's buff_index ...
ClearEntry(c) ==
  /\ Goto(c, "clear", "release")
  /\ buff_index' = [buff_index EXCEPT ![qindex[c]] = NoBuffer]
  /\ UNCHANGED <<update_counter, ack_counter, state, magic_num, buff,
                 counter, qindex, hand, oldbstate, oldindex, msg, blocking, held, histVars>>

\* ... and exchange its state to BUFFER_FREE
ReleaseEntryRead(c) == ReadEntryState(c, "release", "release_cas")

ReleaseEntry(c) == XchgState(c, "release_cas", "pop_ac", "FREE")

\* mcapi_trans_pop_queue: wait while a pop is in progress
PopReadAck(c) ==
  /\ ack_counter % 2 = 0
  /\ Goto(c, "pop_ac", "pop_uc")
  /\ counter' = [counter EXCEPT ![c] = ack_counter]
  /\ UNCHANGED <<queueVars, qindex, hand, oldbstate, oldindex, msg, blocking, held, histVars>>

\* assert(MCAPI_SUCCESS == mcapi_status) in mcapi_trans_recv
PopReadUpdate(c) ==
  /\ Goto(c, "pop_uc", IF HeadStatus(update_counter, counter[c]) = "SUCCESS"
                       THEN "pop_cas" ELSE "abort")
  /\ UNCHANGED <<queueVars, counter, qindex, hand, oldbstate, oldindex, msg, blocking, held, histVars>>

\* "Consumer is about to remove an item"
PopBegin(c) ==
  LET same == ack_counter = counter[c]
  IN  /\ Goto(c, "pop_cas", IF same THEN "pop_inc" ELSE "pop_ac")
      /\ ack_counter' = IF same THEN Wrap(ack_counter + 1) ELSE ack_counter
      /\ UNCHANGED <<update_counter, state, buff_index, magic_num, buff,
                     counter, qindex, hand, oldbstate, oldindex, msg, blocking, held, histVars>>

\* (mutant: the second increment is missing)
PopEndHalf(c) ==
  /\ Goto(c, "pop_inc", "idle")
  /\ received' = Append(received, msg[c])
  /\ UNCHANGED <<queueVars, counter, qindex, hand, oldbstate, oldindex, msg, blocking,
                 held, sent, log, promise>>

\* "Consumer is finished removing item"; the receive returns TRUE
PopEnd(c) ==
  /\ Goto(c, "pop_inc", "idle")
  /\ ack_counter' = Wrap(ack_counter + 1)
  /\ held' = IF Packet THEN [held EXCEPT ![c] = @ \cup {<<hand[c], msg[c]>>}] ELSE held
  /\ received' = Append(received, msg[c])
  /\ promise' = [promise EXCEPT ![c] = IF @ > 0 THEN @ - 1 ELSE 0]
  /\ UNCHANGED <<update_counter, state, buff_index, magic_num, buff,
                 counter, qindex, hand, oldbstate, oldindex, msg, blocking, sent, log>>

\* mcapi_trans_pktchan_free on a packet the application holds: the marker is
\* MAGIC_NUM (RESERVED_NUM is only used by state messages), so
\* mcapi_trans_free_buffer resets it.
PktFree(c) ==
  /\ pc[c] = "idle"
  /\ \E h \in held[c] :
       /\ magic_num' = [magic_num EXCEPT ![h[1]] = FALSE]
       /\ held' = [held EXCEPT ![c] = @ \ {h}]
  /\ UNCHANGED <<update_counter, ack_counter, state, buff_index, buff, localVars, histVars>>

\* mcapi_trans_queue_elements for mcapi_trans_msg_available and its channel
\* variants: the ack counter, then the update counter
AvailableAck(c) ==
  /\ Goto(c, "idle", "avail")
  /\ counter' = [counter EXCEPT ![c] = ack_counter]
  /\ UNCHANGED <<queueVars, qindex, hand, oldbstate, oldindex, msg, blocking, held, histVars>>

AvailableUpdate(c) ==
  /\ Goto(c, "avail", "idle")
  /\ promise' = [promise EXCEPT ![c] = Wrap(update_counter - counter[c]) \div 2]
  /\ UNCHANGED <<queueVars, counter, qindex, hand, oldbstate, oldindex, msg, blocking, held, sent, log, received>>

-----------------------------------------------------------------------------
Init ==
  /\ update_counter = 0 /\ ack_counter = 0
  /\ state = [s \in Slots |-> "FREE"]
  /\ buff_index = [s \in Slots |-> NoBuffer]
  /\ magic_num = [b \in Buffers |-> FALSE]
  /\ buff = [b \in Buffers |-> NoMsg]
  /\ pc = [p \in Procs |-> "idle"]
  /\ counter = [p \in Procs |-> 0]
  /\ qindex = [p \in Procs |-> 0]
  /\ hand = [p \in Procs |-> 0]
  /\ oldbstate = [p \in Procs |-> "FREE"]
  /\ oldindex = [p \in Procs |-> NoBuffer]
  /\ msg = [p \in Procs |-> NoMsg]
  /\ blocking = [c \in Consumers |-> FALSE]
  /\ held = [c \in Consumers |-> {}]
  /\ sent = [p \in Producers |-> 0]
  /\ log = <<>> /\ received = <<>>
  /\ promise = [c \in Consumers |-> 0]

\* a call of mcapi_trans_send in progress
SendStep(p) ==
  \/ QueueTailAck(p) \/ QueueTailUpdate(p) \/ CheckEntry(p) \/ ReserveEntry(p)
  \/ AllocBuffer(p) \/ UndoReserveRead(p) \/ UndoReserve(p) \/ FillBuffer(p)
  \/ LinkBufferRead(p) \/ LinkBuffer(p) \/ MarkAllocated(p)
  \/ PushReadUpdate(p) \/ PushReadAck(p) \/ PushBegin(p) \/ PushEnd(p)

\* a call of mcapi_trans_recv, or of an "available" routine, in progress
RecvStep(c) ==
  \/ QueueHeadUpdate(c) \/ QueueHeadAck(c) \/ ReadState(c) \/ ReadIndex(c)
  \/ TakeEntry(c) \/ CopyBuffer(c) \/ FreeBuffer(c) \/ ClearEntry(c)
  \/ ReleaseEntryRead(c) \/ ReleaseEntry(c)
  \/ PopReadAck(c) \/ PopReadUpdate(c) \/ PopBegin(c) \/ PopEnd(c) \/ AvailableUpdate(c)

Next ==
  \/ \E p \in Producers : Send(p) \/ SendStep(p)
  \/ \E c \in Consumers : Recv(c) \/ RecvStep(c) \/ PktFree(c) \/ AvailableAck(c)

Spec == Init /\ [][Next]_vars

\* A thread that is inside a call keeps running: the operating system
\* schedules it again after sys_os_yield.  No call is ever required to start.
Fairness ==
  /\ \A p \in Producers : WF_vars(SendStep(p))
  /\ \A c \in Consumers : WF_vars(RecvStep(c))

FairSpec == Spec /\ Fairness
-----------------------------------------------------------------------------
(* Properties.                                                             *)

SendPCs ==
  {"idle", "tail_ac", "tail_uc", "check", "reserve", "alloc", "undo", "undo_cas",
   "fill", "link", "link_cas", "mark", "push_uc", "push_ac", "push_cas",
   "push_inc", "abort"}

RecvPCs ==
  {"idle", "head_uc", "head_ac", "read_state", "read_index", "take", "copy",
   "free", "clear", "release", "release_cas", "pop_ac", "pop_uc", "pop_cas",
   "pop_inc", "avail", "abort"}

EntryStates == {"FREE", "RESERVED", "ALLOCATED", "RECEIVED"}

\* Every variable keeps the range its C type and the array bounds give it: in
\* particular no entry or buffer index leaves its array.
TypeOK ==
  /\ update_counter \in Counters /\ ack_counter \in Counters
  /\ state \in [Slots -> EntryStates]
  /\ buff_index \in [Slots -> Buffers \cup {NoBuffer}]
  /\ magic_num \in [Buffers -> BOOLEAN]
  /\ buff \in [Buffers -> Messages \cup {NoMsg}]
  /\ pc \in [Procs -> SendPCs \cup RecvPCs]
  /\ counter \in [Procs -> Counters]
  /\ qindex \in [Procs -> Slots]
  /\ hand \in [Procs -> Buffers]
  /\ oldbstate \in [Procs -> EntryStates]
  /\ oldindex \in [Procs -> Buffers \cup {NoBuffer}]
  /\ msg \in [Procs -> Messages \cup {NoMsg}]
  /\ blocking \in [Consumers -> BOOLEAN]
  /\ held \in [Consumers -> SUBSET (Buffers \X (Messages \cup {NoMsg}))]
  /\ sent \in [Producers -> 0 .. MaxSends]
  /\ log \in Seq(Messages \cup {NoMsg})
  /\ received \in Seq(Messages \cup {NoMsg})
  /\ promise \in [Consumers -> Nat]

\* No assert() of mcapi_trans_send, mcapi_trans_recv and mcapi_trans_recv_
\* ever fails, whatever the interleaving of the two sides.
NoAssertFails == \A p \in Procs : pc[p] # "abort"

\* "every message must be consumed in order, i.e. no messages can be lost"
\* (README): what mcapi_trans_recv has returned is exactly the beginning of
\* what mcapi_trans_send has pushed.
FifoDelivery ==
  /\ Len(received) <= Len(log)
  /\ \A i \in 1 .. Len(received) : received[i] = log[i]

\* thread p is between reserving its entry and pushing it
Inserting(p) == pc[p] \in {"alloc", "undo", "undo_cas", "fill", "link", "link_cas",
                           "mark", "push_uc", "push_ac", "push_cas", "push_inc"}

\* thread c is between taking its entry and popping it
Removing(c) == pc[c] \in {"copy", "free", "clear", "release", "release_cas",
                          "pop_ac", "pop_uc", "pop_cas", "pop_inc"}

\* "the counters ensure that the producer and the consumer access different
\* slots" (README): a sender writing an entry and a receiver emptying one
\* never work on the same entry, and neither do two senders or two receivers.
EntryExclusive ==
  \A p, c \in Procs :
    (p # c /\ (Inserting(p) \/ Removing(p)) /\ (Inserting(c) \/ Removing(c)))
      => qindex[p] # qindex[c]

\* thread p owns the buffer in its hand, though no entry of the queue names it
OwnsBuffer(p) ==
  \/ pc[p] \in {"fill", "link", "link_cas"}
  \/ Packet /\ pc[p] \in {"release", "release_cas", "pop_ac", "pop_uc", "pop_cas", "pop_inc"}

\* entry s names a buffer that is in use
Links(s, b) ==
  /\ buff_index[s] = b
  /\ ~(~Packet /\ \E c \in Consumers : pc[c] = "clear" /\ qindex[c] = s)

\* A buffer is marked in use exactly as long as one entry of the queue, one
\* thread or one application packet refers to it: mcapi_trans_alloc_buffer
\* never hands out a buffer that is still referred to, and none is lost when
\* a send fails or a message is received.
BufferOwnership ==
  \A b \in Buffers :
    LET entries == {s \in Slots : Links(s, b)}
        threads == {p \in Procs : OwnsBuffer(p) /\ hand[p] = b}
        apps    == {c \in Consumers : \E h \in held[c] : h[1] = b}
    IN  Cardinality(entries) + Cardinality(threads) + Cardinality(apps)
          = IF magic_num[b] THEN 1 ELSE 0

\* A packet handed to the application keeps its payload until the application
\* frees it, however many messages pass through the queue meanwhile.
HeldPacketIntact ==
  \A c \in Consumers : \A h \in held[c] : buff[h[1]] = h[2]

\* mcapi_trans_msg_available is a promise to the receiving thread: after it
\* returned n, the next n non-blocking receives do not return FALSE.
AvailableIsKept ==
  [][\A c \in Consumers :
       (pc[c] \in {"head_ac", "read_index"} /\ pc'[c] = "idle") => promise[c] = 0]_vars

\* The queue implements a bounded first-in first-out queue: a message enters
\* when push_queue completes the update counter and leaves when pop_queue
\* completes the ack counter.
Fifo == INSTANCE BoundedFifo
          WITH Msg      <- Messages,
               Capacity <- Entries,
               queue    <- SubSeq(log, Len(received) + 1, Len(log)),
               out      <- received

ImplementsFifo == Fifo!Spec

\* Every send returns: the wait for a receiver that is popping ends.
SendReturns == \A p \in Producers : (pc[p] # "idle") ~> (pc[p] = "idle")

\* A blocking receive on a queue that holds a message returns with one.
ReceiveReturns ==
  \A c \in Consumers :
    (pc[c] # "idle" /\ blocking[c] /\ Len(log) > Len(received)) ~> (pc[c] = "idle")
=============================================================================
