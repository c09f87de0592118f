---------------------------- MODULE StateMessage ----------------------------
(***************************************************************************)
(* State messages (the non-blocking write protocol, "NBW", of the          *)
(* repository's README): mcapi_trans_send_state, mcapi_trans_recv_state,   *)
(* mcapi_trans_recv_state_ and, for packet channels, the branch of         *)
(* mcapi_trans_pktchan_free that serves them.  Only the newest value       *)
(* matters; the writer overwrites old ones and never waits for a reader.   *)
(*                                                                         *)
(* One action is one access to shared memory.  A payload is two words that *)
(* are written and read one after the other, so a copy can be torn.        *)
(***************************************************************************)
EXTENDS Integers, FiniteSets, Sequences

CONSTANTS
  Writer,       \* the thread that sends on this channel
  Readers,      \* the threads that receive from it
  NSlots,       \* attribute MCAPI_ENDP_ATTR_NUM_SEND_BUFFERS of the endpoint
  NBuffers,     \* MCAPI_MAX_BUFFERS
  CounterMod,   \* update_counter is an unsigned integer modulo CounterMod
  Packet,       \* TRUE for MCAPI_PKT_CHAN: readers are handed the buffer
  MaxBusy,      \* buffers that other endpoints may have in use
  MaxHeld,      \* bound: packets a reader's application holds at a time
  MaxWrites     \* bound: writes

ASSUME StateAssumption ==
  /\ Writer \notin Readers /\ Readers # {}
  /\ NSlots \in Nat \ {0}
  /\ NBuffers \in Nat \ {0}
  /\ CounterMod \in Nat /\ CounterMod % 2 = 0 /\ CounterMod > 2 * NSlots
  /\ Packet \in BOOLEAN
  /\ MaxBusy \in Nat
  /\ MaxHeld \in Nat \ {0}
  /\ MaxWrites \in Nat \ {0}

Procs    == {Writer} \cup Readers
Slots    == 0 .. NSlots - 1
Buffers  == 0 .. NBuffers - 1
NoBuffer == -1                        \* buff_index = 0: the valid bit is clear
NoSlot   == -1                        \* a null parent pointer
Counters == 0 .. CounterMod - 1
Payloads == (0 .. MaxWrites) \X (0 .. MaxWrites)

VARIABLES
  update_counter,  \* twice the writes; odd while a write is in progress
  state,           \* elements[s].state
  buff_index,      \* elements[s].buff_index
  magic_num,       \* buffers[b].magic_num: "0", "RESERVED" or "MAGIC"
  parent,          \* buffers[b].parent: the entry that last used the buffer
  buff,            \* buffers[b].buff: two words
  pc, counter, qindex, hand, oldbstate, oldindex,   \* locals of each thread
  got,             \* the payload a reader has copied
  held,            \* packets the application of a reader has not freed yet
  writes,          \* history: writes begun; write k carries the payload <<k, k>>
  stored,          \* history: the newest write that completed with TRUE
  failed,          \* history: some write found no buffer
  seen             \* history: value of stored when a reader's call began

channelVars == <<update_counter, state, buff_index, magic_num, parent, buff>>
localVars   == <<pc, counter, qindex, hand, oldbstate, oldindex, got>>
histVars    == <<writes, stored, failed, seen>>
vars        == <<channelVars, localVars, held, histVars>>

-----------------------------------------------------------------------------
Wrap(n) == n % CounterMod

\* the entry the write that made the counter c fills
WriteSlot(c) == (c \div 2) % NSlots

\* (mutant: the entry of the write before the last)
ReadSlotOlder(c) == Wrap(c \div 2 - 2) % NSlots

\* the entry of the last completed write, for a reader that saw counter c; an
\* unsigned subtraction, so no write at all designates entry -1 % NSlots
ReadSlot(c) == Wrap(c \div 2 - 1) % NSlots

\* (mutant: the write that overwrites the entry is noticed one write too late)
ConfirmedLate(uc, c) == Wrap(uc - 2 * (c \div 2)) <= 2 * NSlots

\* "confirm successful read": the counter was c when the read began and is now uc
Confirmed(uc, c) == Wrap(uc - 2 * (c \div 2)) <= 2 * NSlots - 2

Goto(p, from, to) == pc[p] = from /\ pc' = [pc EXCEPT ![p] = to]

\* a plain read of the entry's state; also the first half of an exchange
ReadEntryState(p, from, to) ==
  /\ Goto(p, from, to)
  /\ oldbstate' = [oldbstate EXCEPT ![p] = state[qindex[p]]]
  /\ UNCHANGED <<channelVars, counter, qindex, hand, oldindex, got, held, histVars>>

\* second half of mrapi_atomic_xchg on the entry's state: a compare-and-swap
\* against the value read before, which changes nothing if it has moved
XchgState(p, from, to, new) ==
  /\ Goto(p, from, to)
  /\ state' = IF state[qindex[p]] = oldbstate[p]
              THEN [state EXCEPT ![qindex[p]] = new] ELSE state
  /\ UNCHANGED <<update_counter, buff_index, magic_num, parent, buff, counter,
                 qindex, hand, oldbstate, oldindex, got, held, histVars>>

-----------------------------------------------------------------------------
(* mcapi_trans_send_state                                                  *)

W == Writer

RestPCs == {"idle", "done", "empty"}     \* a reader between its calls

\* bound: no receive lasts for as many writes as the counter can tell apart,
\* which are 2^31 for the 32-bit counter of the code
NoLap ==
  \A r \in Readers : pc[r] \notin RestPCs \cup {"f_buffer", "f_parent"} =>
    writes - seen[r] < CounterMod \div 2 - 1

\* "select next index for write; operation is never blocked"
WriteBegin ==
  /\ writes < MaxWrites /\ NoLap
  /\ Goto(W, "idle", "w_state")
  /\ update_counter' = Wrap(update_counter + 1)
  /\ counter' = [counter EXCEPT ![W] = Wrap(update_counter + 1)]
  /\ qindex' = [qindex EXCEPT ![W] = WriteSlot(Wrap(update_counter + 1))]
  /\ writes' = writes + 1
  /\ UNCHANGED <<state, buff_index, magic_num, parent, buff, hand, oldbstate,
                 oldindex, got, held, stored, failed, seen>>

WriteReadState == ReadEntryState(W, "w_state", "w_index")

\* (mutant: the buffer is reused though a reader was handed it)
MayReuseAlways(index, bstate) == index # NoBuffer

\* the buffer of the entry is reused unless a reader was handed it
MayReuse(index, bstate) == index # NoBuffer /\ (~Packet \/ bstate # "RECEIVED")

WriteReadIndex ==
  LET index == buff_index[qindex[W]]
      reuse == MayReuse(index, oldbstate[W])
  IN  /\ Goto(W, "w_index",
              IF reuse THEN "w_reserve"
              ELSE IF index # NoBuffer THEN "w_reserve_replace" ELSE "w_reserve_new")
      /\ oldindex' = [oldindex EXCEPT ![W] = index]
      /\ hand' = [hand EXCEPT ![W] = IF reuse THEN index ELSE 0]
      /\ UNCHANGED <<channelVars, counter, qindex, oldbstate, got, held, histVars>>

\* exchange the state of the entry to BUFFER_RESERVED; its three uses differ
\* in what follows
WriteReserveRead ==
  \/ ReadEntryState(W, "w_reserve", "w_reserve_cas")
  \/ ReadEntryState(W, "w_reserve_replace", "w_replace_cas")
  \/ ReadEntryState(W, "w_reserve_new", "w_new_cas")

WriteReserve ==
  \/ XchgState(W, "w_reserve_cas", "w_fill", "RESERVED")
  \/ XchgState(W, "w_replace_cas", "w_orphan", "RESERVED")
  \/ XchgState(W, "w_new_cas", "w_alloc", "RESERVED")

\* a reader holds the old buffer: mark it so that pktchan_free collects it
WriteOrphan ==
  LET reserved == magic_num[oldindex[W]] = "RESERVED"
  IN  /\ Goto(W, "w_orphan", IF reserved THEN "w_alloc" ELSE "abort")
      /\ magic_num' = IF reserved THEN [magic_num EXCEPT ![oldindex[W]] = "MAGIC"]
                                  ELSE magic_num
      /\ UNCHANGED <<update_counter, state, buff_index, parent, buff, counter, qindex,
                     hand, oldbstate, oldindex, got, held, histVars>>

\* (mutant: wait for a buffer instead of failing)
WriteAllocWait ==
  LET b == hand[W]
      free == magic_num[b] = "0"
  IN  /\ Goto(W, "w_alloc", IF free THEN "w_link" ELSE "w_alloc")
      /\ magic_num' = IF free THEN [magic_num EXCEPT ![b] = "RESERVED"] ELSE magic_num
      /\ hand' = IF free THEN hand ELSE [hand EXCEPT ![W] = (b + 1) % NBuffers]
      /\ UNCHANGED <<update_counter, state, buff_index, parent, buff, counter, qindex,
                     oldbstate, oldindex, got, held, histVars>>

\* mcapi_trans_alloc_buffer with the marker RESERVED_NUM
WriteAlloc ==
  LET b == hand[W]
  IN  /\ pc[W] = "w_alloc"
      /\ \/ /\ magic_num[b] = "0"
            /\ pc' = [pc EXCEPT ![W] = "w_link"]
            /\ magic_num' = [magic_num EXCEPT ![b] = "RESERVED"]
            /\ UNCHANGED hand
         \/ /\ magic_num[b] # "0" /\ b + 1 < NBuffers
            /\ hand' = [hand EXCEPT ![W] = b + 1]
            /\ UNCHANGED <<pc, magic_num>>
         \/ /\ magic_num[b] # "0" /\ b + 1 = NBuffers
            /\ pc' = [pc EXCEPT ![W] = "w_fail"]
            /\ UNCHANGED <<hand, magic_num>>
      /\ UNCHANGED <<update_counter, state, buff_index, parent, buff, counter, qindex,
                     oldbstate, oldindex, got, held, histVars>>

\* no buffer: exchange the state to BUFFER_FREE, then the buffer index to 0.
\* Only the writer stores buff_index, so its exchange is one step.
WriteFailRead == ReadEntryState(W, "w_fail", "w_fail_cas")

WriteFailState == XchgState(W, "w_fail_cas", "w_fail_index", "FREE")

SetIndex(from, to, b) ==
  /\ Goto(W, from, to)
  /\ buff_index' = [buff_index EXCEPT ![qindex[W]] = b]
  /\ UNCHANGED <<update_counter, state, magic_num, parent, buff, counter, qindex,
                 hand, oldbstate, oldindex, got, held, histVars>>

WriteFailIndex == SetIndex("w_fail_index", "w_fail_end", NoBuffer)

WriteLink == SetIndex("w_link", "w_fill", hand[W])

\* parent and first word, then second word
WriteFill1 ==
  /\ Goto(W, "w_fill", "w_fill2")
  /\ parent' = [parent EXCEPT ![hand[W]] = qindex[W]]
  /\ buff' = [buff EXCEPT ![hand[W]] = <<writes, @[2]>>]
  /\ UNCHANGED <<update_counter, state, buff_index, magic_num, counter, qindex,
                 hand, oldbstate, oldindex, got, held, histVars>>

WriteFill2 ==
  /\ Goto(W, "w_fill2", "w_mark")
  /\ buff' = [buff EXCEPT ![hand[W]] = <<@[1], writes>>]
  /\ UNCHANGED <<update_counter, state, buff_index, magic_num, parent, counter, qindex,
                 hand, oldbstate, oldindex, got, held, histVars>>

WriteMarkRead == ReadEntryState(W, "w_mark", "w_mark_cas")

\* unless it is BUFFER_ALLOCATED already, swap the state just read for
\* BUFFER_ALLOCATED, asserted
WriteMark ==
  LET ok == oldbstate[W] = "ALLOCATED" \/ state[qindex[W]] = oldbstate[W]
  IN  /\ Goto(W, "w_mark_cas", IF ok THEN "w_end" ELSE "abort")
      /\ state' = IF ok /\ oldbstate[W] # "ALLOCATED"
                  THEN [state EXCEPT ![qindex[W]] = "ALLOCATED"] ELSE state
      /\ UNCHANGED <<update_counter, buff_index, magic_num, parent, buff, counter, qindex,
                     hand, oldbstate, oldindex, got, held, histVars>>

\* "increment counter to complete write operation", asserted; the write that
\* found no buffer ends the same way
WriteEnd ==
  LET ok == update_counter = counter[W]
  IN  /\ pc[W] \in {"w_end", "w_fail_end"}
      /\ pc' = [pc EXCEPT ![W] = IF ok THEN "idle" ELSE "abort"]
      /\ update_counter' = IF ok THEN Wrap(update_counter + 1) ELSE update_counter
      /\ stored' = IF pc[W] = "w_end" THEN writes ELSE stored
      /\ failed' = (failed \/ pc[W] = "w_fail_end")
      /\ UNCHANGED <<state, buff_index, magic_num, parent, buff, counter, qindex,
                     hand, oldbstate, oldindex, got, held, writes, seen>>

WriteStep ==
  \/ WriteReadState \/ WriteReadIndex \/ WriteReserveRead \/ WriteReserve
  \/ WriteOrphan \/ WriteAlloc \/ WriteFailRead \/ WriteFailState \/ WriteFailIndex
  \/ WriteLink \/ WriteFill1 \/ WriteFill2 \/ WriteMarkRead \/ WriteMark \/ WriteEnd

-----------------------------------------------------------------------------
(* mcapi_trans_recv_state.  Between calls a reader's pc is "idle", or      *)
(* "done" or "empty" after a receive that returned TRUE or FALSE.          *)

Read(r) ==
  /\ pc[r] \in RestPCs
  /\ Len(held[r]) < MaxHeld
  /\ pc' = [pc EXCEPT ![r] = "r_counter"]
  /\ seen' = [seen EXCEPT ![r] = stored]
  /\ UNCHANGED <<channelVars, counter, qindex, hand, oldbstate, oldindex, got, held,
                 writes, stored, failed>>

\* "save buffer index counter for later read success confirmation".  The
\* state of the entry, read next, is not used.
ReadCounter(r) ==
  /\ Goto(r, "r_counter", "r_index")
  /\ counter' = [counter EXCEPT ![r] = update_counter]
  /\ qindex' = [qindex EXCEPT ![r] = ReadSlot(update_counter)]
  /\ UNCHANGED <<channelVars, hand, oldbstate, oldindex, got, held, histVars>>

\* an entry without a buffer: "no message to receive"
ReadIndex(r) ==
  /\ Goto(r, "r_index", IF buff_index[qindex[r]] = NoBuffer THEN "empty"
                        ELSE IF Packet THEN "r_take" ELSE "r_buffer")
  /\ UNCHANGED <<channelVars, counter, qindex, hand, oldbstate, oldindex, got, held, histVars>>

\* (mutant: a write in progress is not looked for)
TakeEntryNoRetry(r) ==
  LET s == state[qindex[r]]
  IN  /\ Goto(r, "r_take", IF s \in {"ALLOCATED", "RECEIVED"} THEN "r_buffer" ELSE "abort")
      /\ state' = IF s = "ALLOCATED" THEN [state EXCEPT ![qindex[r]] = "RECEIVED"] ELSE state
      /\ UNCHANGED <<update_counter, buff_index, magic_num, parent, buff, counter, qindex,
                     hand, oldbstate, oldindex, got, held, histVars>>

\* packets: compare-and-swap BUFFER_ALLOCATED -> BUFFER_RECEIVED to "prevent
\* buffer reuse"; a write in progress makes the reader look again, any other
\* state but BUFFER_RECEIVED fails the assert
TakeEntry(r) ==
  LET s == state[qindex[r]]
  IN  /\ Goto(r, "r_take", CASE s \in {"ALLOCATED", "RECEIVED"} -> "r_buffer"
                             [] s = "RESERVED"                  -> "r_counter"
                             [] OTHER                           -> "abort")
      /\ state' = IF s = "ALLOCATED" THEN [state EXCEPT ![qindex[r]] = "RECEIVED"] ELSE state
      /\ UNCHANGED <<update_counter, buff_index, magic_num, parent, buff, counter, qindex,
                     hand, oldbstate, oldindex, got, held, histVars>>

\* mcapi_trans_recv_state_: the buffer index is read again, and a clear one
\* designates buffer 0; the parent is set, the first word copied (a packet
\* is not copied: its pointer is returned)
ReadWord1(r) ==
  LET i == buff_index[qindex[r]]
      b == IF i = NoBuffer THEN 0 ELSE i
  IN  /\ Goto(r, "r_buffer", IF Packet THEN "r_confirm" ELSE "r_word2")
      /\ hand' = [hand EXCEPT ![r] = b]
      /\ parent' = [parent EXCEPT ![b] = qindex[r]]
      /\ got' = [got EXCEPT ![r] = <<buff[b][1], @[2]>>]
      /\ UNCHANGED <<update_counter, state, buff_index, magic_num, buff, counter, qindex,
                     oldbstate, oldindex, held, histVars>>

ReadWord2(r) ==
  /\ Goto(r, "r_word2", "r_confirm")
  /\ got' = [got EXCEPT ![r] = <<@[1], buff[hand[r]][2]>>]
  /\ UNCHANGED <<channelVars, counter, qindex, hand, oldbstate, oldindex, held, histVars>>

\* (mutant: the retry keeps the counter of the first try)
ConfirmSameCounter(r) ==
  LET ok == Confirmed(update_counter, counter[r])
  IN  /\ Goto(r, "r_confirm", IF ok THEN "done" ELSE "r_index")
      /\ UNCHANGED <<channelVars, counter, qindex, hand, oldbstate, oldindex, got, held, histVars>>

\* "confirm successful read", or start again.  The payload of a packet is
\* what its buffer holds when the receive returns.
Confirm(r) ==
  LET ok      == Confirmed(update_counter, counter[r])
      payload == IF Packet THEN buff[hand[r]] ELSE got[r]
  IN  /\ Goto(r, "r_confirm", IF ok THEN "done" ELSE "r_counter")
      /\ got' = [got EXCEPT ![r] = payload]
      /\ held' = IF ok /\ Packet THEN [held EXCEPT ![r] = Append(@, <<hand[r], payload>>)] ELSE held
      /\ UNCHANGED <<channelVars, counter, qindex, hand, oldbstate, oldindex, histVars>>

-----------------------------------------------------------------------------
(* mcapi_trans_pktchan_free                                                *)

\* the application gives back any packet it holds; the marker tells whether
\* the writer has given the buffer up
PktFree(r) ==
  \E i \in 1 .. Len(held[r]) :
    LET b == held[r][i][1]
    IN  /\ pc[r] \in RestPCs
        /\ pc' = [pc EXCEPT ![r] = IF magic_num[b] = "MAGIC" THEN "f_buffer" ELSE "f_parent"]
        /\ hand' = [hand EXCEPT ![r] = b]
        /\ held' = [held EXCEPT ![r] = SubSeq(@, 1, i - 1) \o SubSeq(@, i + 1, Len(@))]
        /\ UNCHANGED <<channelVars, counter, qindex, oldbstate, oldindex, got, histVars>>

\* mcapi_trans_free_buffer: nobody else changes a buffer marked MAGIC_NUM
FreeBuffer(r) ==
  /\ Goto(r, "f_buffer", "idle")
  /\ magic_num' = [magic_num EXCEPT ![hand[r]] = "0"]
  /\ UNCHANGED <<update_counter, state, buff_index, parent, buff, counter, qindex,
                 hand, oldbstate, oldindex, got, held, histVars>>

\* otherwise compare-and-swap the state of the parent entry BUFFER_RECEIVED
\* -> BUFFER_ALLOCATED
ReleaseParent(r) ==
  LET s == parent[hand[r]]
  IN  /\ Goto(r, "f_parent", "idle")
      /\ state' = IF s # NoSlot /\ state[s] = "RECEIVED"
                  THEN [state EXCEPT ![s] = "ALLOCATED"] ELSE state
      /\ UNCHANGED <<update_counter, buff_index, magic_num, parent, buff, counter, qindex,
                     hand, oldbstate, oldindex, got, held, histVars>>

-----------------------------------------------------------------------------
Init ==
  /\ update_counter = 0
  /\ state = [s \in Slots |-> "FREE"]
  /\ buff_index = [s \in Slots |-> NoBuffer]
  /\ \E busy \in SUBSET Buffers :
       /\ Cardinality(busy) <= MaxBusy
       /\ magic_num = [b \in Buffers |-> IF b \in busy THEN "RESERVED" ELSE "0"]
  /\ parent = [b \in Buffers |-> NoSlot]
  /\ buff = [b \in Buffers |-> <<0, 0>>]
  /\ pc = [p \in Procs |-> "idle"]
  /\ counter = [p \in Procs |-> 0]
  /\ qindex = [p \in Procs |-> 0]
  /\ hand = [p \in Procs |-> 0]
  /\ oldbstate = [p \in Procs |-> "FREE"]
  /\ oldindex = [p \in Procs |-> NoBuffer]
  /\ got = [r \in Readers |-> <<0, 0>>]
  /\ held = [r \in Readers |-> <<>>]
  /\ writes = 0 /\ stored = 0 /\ failed = FALSE
  /\ seen = [r \in Readers |-> 0]

ReadStep(r) ==
  \/ ReadCounter(r) \/ ReadIndex(r) \/ TakeEntry(r) \/ ReadWord1(r) \/ ReadWord2(r)
  \/ Confirm(r) \/ FreeBuffer(r) \/ ReleaseParent(r)

Next ==
  \/ WriteBegin \/ WriteStep
  \/ \E r \in Readers : Read(r) \/ ReadStep(r) \/ PktFree(r)

Spec == Init /\ [][Next]_vars

\* A writer inside a call keeps running; the readers need not.
WriterFairSpec == Spec /\ WF_vars(WriteStep)
-----------------------------------------------------------------------------
(* Properties.                                                             *)

WritePCs ==
  {"idle", "w_state", "w_index", "w_reserve", "w_reserve_replace", "w_reserve_new",
   "w_reserve_cas", "w_replace_cas", "w_new_cas", "w_orphan", "w_alloc", "w_fail",
   "w_fail_cas", "w_fail_index", "w_fail_end", "w_link", "w_fill", "w_fill2",
   "w_mark", "w_mark_cas", "w_end", "abort"}

ReadPCs ==
  RestPCs \cup {"r_counter", "r_index", "r_take", "r_buffer", "r_word2", "r_confirm",
                "f_buffer", "f_parent", "abort"}

EntryStates == {"FREE", "RESERVED", "ALLOCATED", "RECEIVED"}

\* Every variable keeps the range its C type and the array bounds give it.
TypeOK ==
  /\ update_counter \in Counters
  /\ state \in [Slots -> EntryStates]
  /\ buff_index \in [Slots -> Buffers \cup {NoBuffer}]
  /\ magic_num \in [Buffers -> {"0", "RESERVED", "MAGIC"}]
  /\ parent \in [Buffers -> Slots \cup {NoSlot}]
  /\ buff \in [Buffers -> Payloads]
  /\ pc \in [Procs -> WritePCs \cup ReadPCs]
  /\ counter \in [Procs -> Counters]
  /\ qindex \in [Procs -> Slots]
  /\ hand \in [Procs -> Buffers]
  /\ oldbstate \in [Procs -> EntryStates]
  /\ oldindex \in [Procs -> Buffers \cup {NoBuffer}]
  /\ got \in [Readers -> Payloads]
  /\ held \in [Readers -> Seq(Buffers \X Payloads)]
  /\ writes \in 0 .. MaxWrites /\ stored \in 0 .. MaxWrites
  /\ failed \in BOOLEAN
  /\ seen \in [Readers -> 0 .. MaxWrites]

\* No assert() of mcapi_trans_send_state and mcapi_trans_recv_state fails.
NoAssertFails == \A p \in Procs : pc[p] # "abort"

\* "if a read operation completes successfully, it must be guaranteed that it
\* has read an uncorrupted version" (README): a receive that returns TRUE
\* returns the two words of one write, and of one that was made.
ReadUncorrupted ==
  \A r \in Readers : pc[r] = "done" => got[r][1] = got[r][2] /\ got[r][1] > 0

\* State messages deliver the newest value: a receive returns one at least as
\* new as the newest that was complete when the call began, and reports that
\* there is none only if there was none then, or a write ran out of buffers.
ReadFresh ==
  \A r \in Readers :
    /\ pc[r] = "done" => got[r][1] >= seen[r]
    /\ pc[r] = "empty" /\ ~failed => seen[r] = 0

\* A packet handed to the application keeps its payload until the application
\* frees it ("buffer needs to be replaced to prevent overwrite").
HeldPacketIntact ==
  \A r \in Readers : \A i \in 1 .. Len(held[r]) : buff[held[r][i][1]] = held[r][i][2]

\* "the writer cannot be blocked by readers" (README): a write returns even if no reader
\* ever takes another step.
WriteReturns == (pc[W] # "idle") ~> (pc[W] = "idle")

\* A reader starts again only because of a write: with the readers scheduled
\* too, a receive returns when the writer pauses.
ReadReturns ==
  (\A r \in Readers : WF_vars(ReadStep(r)))
    => \A r \in Readers : (pc[r] \notin RestPCs) ~> (pc[r] \in RestPCs)
=============================================================================
