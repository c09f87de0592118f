-------------------------- MODULE StateMessageProofs --------------------------
(***************************************************************************)
(* State messages that readers copy out, for any number of readers,        *)
(* entries and buffers: what a receive returns is one whole write, and the *)
(* newest that was complete when the call began or a later one.  Then      *)
(* packets, whose buffers are handed out: a packet keeps its payload until *)
(* it is freed, and no assert fails as long as the pool lasts.             *)
(***************************************************************************)
EXTENDS StateMessage, ModularArithmetic, FiniteSetTheorems, TLAPS

\* The number of send buffers divides that of the writes which the unsigned
\* counter tells apart, so that entries follow each other when it passes its
\* maximum. The code does not look: without it the entry of "no write at all"
\* is one that an early write fills, see the README.
RingDivides == CounterMod % (2 * NSlots) = 0

-----------------------------------------------------------------------------
(* The invariant.                                                          *)

\* What update_counter would be if it never passed its maximum, how many writes
\* are complete, and the entry of write k.
Now       == IF pc[W] = "idle" THEN 2 * writes ELSE 2 * writes - 1
Done      == IF pc[W] = "idle" THEN writes ELSE writes - 1
SlotOf(k) == (k - 1) % NSlots

OldPCs  == {"w_reserve", "w_reserve_cas"}
NewPCs  == {"w_reserve_new", "w_new_cas", "w_alloc", "w_link"}
FailPCs == {"w_fail", "w_fail_cas", "w_fail_index", "w_fail_end"}
MarkPCs == {"w_mark", "w_mark_cas", "w_end"}
CopyPCs == {"idle", "w_state", "w_index", "w_fill", "w_fill2"} \cup OldPCs \cup NewPCs
           \cup FailPCs \cup MarkPCs
LookPCs == {"r_index", "r_buffer", "r_word2", "r_confirm"}

\* The range of the histories.
Ranges == writes \in Nat /\ stored \in Nat /\ failed \in BOOLEAN

\* The range of every variable; packets, and what only they need, do not occur.
TypeInv ==
  /\ Ranges
  /\ DOMAIN state = Slots /\ DOMAIN buff_index = Slots /\ DOMAIN magic_num = Buffers
  /\ DOMAIN buff = Buffers
  /\ \A s \in Slots : buff_index[s] \in Buffers \cup {NoBuffer}
  /\ DOMAIN pc = Procs /\ DOMAIN counter = Procs /\ DOMAIN qindex = Procs
  /\ DOMAIN hand = Procs /\ DOMAIN oldbstate = Procs /\ DOMAIN got = Readers
  /\ DOMAIN seen = Readers
  /\ pc[W] \in CopyPCs /\ hand[W] \in Buffers
  /\ \A r \in Readers : /\ pc[r] \in RestPCs \cup LookPCs \cup {"r_counter"}
                        /\ seen[r] \in Nat /\ hand[r] \in Buffers
                        /\ held[r] = <<>>

\* The counter is twice the writes that are complete, and one more during a
\* write.
CountInv ==
  /\ update_counter = Now % CounterMod
  /\ pc[W] # "idle" =>
       writes > 0 /\ counter[W] = update_counter /\ qindex[W] = SlotOf(writes)
  /\ stored <= Done

\* An entry has its own buffer, from its first write on unless a write failed.
LinkInv ==
  /\ \A s, u \in Slots : buff_index[s] # NoBuffer /\ buff_index[s] = buff_index[u] => s = u
  /\ \A s \in Slots : buff_index[s] # NoBuffer => magic_num[buff_index[s]] = "RESERVED"
  /\ \A s \in Slots : s >= writes => buff_index[s] = NoBuffer
  /\ ~failed => \A s \in Slots : s < Done => buff_index[s] # NoBuffer

\* The writer works on the buffer of its entry, or on one that it has just
\* reserved for it.
WriteInv ==
  /\ pc[W] \in OldPCs \cup {"w_fill", "w_fill2"} \cup MarkPCs => buff_index[qindex[W]] = hand[W]
  /\ pc[W] \in NewPCs \cup FailPCs => buff_index[qindex[W]] = NoBuffer
  /\ pc[W] = "w_link" => magic_num[hand[W]] = "RESERVED" /\ \A s \in Slots : buff_index[s] # hand[W]
  /\ pc[W] = "w_fill2" => buff[hand[W]][1] = writes
  /\ pc[W] \in MarkPCs => buff[hand[W]] = <<writes, writes>>
  /\ pc[W] = "w_mark_cas" => oldbstate[W] = state[qindex[W]]

\* The buffers of the last NSlots writes hold them, unless a write failed; the
\* oldest is given up when the next write begins.
ContentInv ==
  \A k \in 1 .. Done : writes - NSlots < k =>
    \/ buff_index[SlotOf(k)] = NoBuffer
    \/ buff[buff_index[SlotOf(k)]] = <<k, k>>

\* A reader saw the counter when it was n: it looks for write n \div 2, and finds
\* it as long as the write that takes over its entry has not begun.
ReadAt(r, n) ==
  LET k == n \div 2 IN
  /\ counter[r] = n % CounterMod /\ 2 * writes - n <= CounterMod - 2
  /\ seen[r] <= k /\ qindex[r] = SlotOf(k)
  /\ writes < k + NSlots =>
       /\ pc[r] = "r_buffer" => k > 0 /\ buff_index[qindex[r]] # NoBuffer
       /\ pc[r] = "r_word2" =>
            k > 0 /\ hand[r] = buff_index[qindex[r]] /\ got[r][1] = k
       /\ pc[r] = "r_confirm" => k > 0 /\ got[r] = <<k, k>>

ReadInv ==
  \A r \in Readers :
    /\ seen[r] <= Done
    /\ pc[r] \in LookPCs => \E n \in 0 .. Now : ReadAt(r, n)
    /\ pc[r] = "done" => got[r][1] = got[r][2] /\ got[r][1] > 0 /\ got[r][1] >= seen[r]
    /\ pc[r] = "empty" /\ ~failed => seen[r] = 0

IInv == TypeInv /\ CountInv /\ LinkInv /\ WriteInv /\ ContentInv /\ ReadInv

-----------------------------------------------------------------------------
(* Counters and entries.                                                   *)

\* The counter tells apart a multiple of the writes that fill the ring once.
LEMMA Ring ==
  ASSUME RingDivides
  PROVE  \E q \in Nat : /\ q > 0 /\ NSlots * q \in Nat /\ NSlots * q > 0
                        /\ CounterMod = 2 * (NSlots * q) /\ CounterMod = NSlots * (2 * q)
<1> DEFINE q == CounterMod \div (2 * NSlots)  N2 == 2 * NSlots
<1>1. NSlots \in Nat /\ NSlots > 0 /\ CounterMod \in Nat /\ CounterMod > 2 * NSlots
  BY StateAssumption
<1>2. N2 \in Nat /\ N2 > 0
  BY <1>1
<1>3. q \in Int /\ CounterMod = (N2 * q) + (CounterMod % N2)
  <2> HIDE DEF N2
  <2>1. CounterMod \div N2 \in Int /\ CounterMod = (N2 * (CounterMod \div N2)) + (CounterMod % N2)
    BY <1>1, <1>2, DivMod
  <2> QED BY <2>1 DEF N2
<1>4. CounterMod = N2 * q
  BY <1>1, <1>2, <1>3 DEF RingDivides
<1>5. q > 0
  <2> HIDE DEF q, N2
  <2>1. q <= 0 => N2 * q <= 0
    <3>1. \A x, y \in Nat : x * y \in Nat
      OBVIOUS
    <3>2. q <= 0 => N2 * (-q) \in Nat
      BY <1>2, <1>3, <3>1
    <3>3. N2 * (-q) = -(N2 * q) /\ N2 * q \in Int
      BY <1>2, <1>3
    <3> QED BY <3>2, <3>3
  <2> QED BY <1>1, <1>3, <1>4, <2>1
<1>6. 2 * (NSlots * q) = N2 * q /\ NSlots * (2 * q) = N2 * q /\ NSlots * q \in Int
  <2> HIDE DEF q
  <2> QED BY <1>1, <1>3
<1> HIDE DEF q, N2
<1> QED BY <1>1, <1>3, <1>4, <1>5, <1>6

\* Half of what is left of n when the counter passes its maximum.
LEMMA HalfIs ==
  ASSUME NEW h \in Nat, h > 0, NEW n \in Nat
  PROVE  /\ (n % (2 * h)) \div 2 = (n \div 2) % h
         /\ (2 * (n \div 2)) % (2 * h) = 2 * ((n \div 2) % h)
<1> DEFINE k == n \div 2  b == n % 2  p == k \div h  c == k % h
<1>1. k \in Nat /\ b \in 0 .. 1 /\ n = 2 * k + b
  OBVIOUS
<1>2. p \in Int /\ c \in 0 .. h - 1 /\ k = h * p + c
  <2> HIDE DEF k
  <2> QED BY <1>1, DivMod
<1> HIDE DEF k, b, p, c
<1>3. h * p \in Int /\ (2 * h) * p = 2 * (h * p) /\ 2 * h \in Nat /\ 2 * h > 0
  BY <1>2
<1>4. n = (2 * h) * p + (2 * c + b) /\ 2 * c + b \in 0 .. 2 * h - 1
  BY <1>1, <1>2, <1>3
<1>5. n % (2 * h) = 2 * c + b
  <2> DEFINE M == 2 * h  x == 2 * c + b
  <2>1. M \in Nat /\ M > 0 /\ x \in 0 .. M - 1 /\ n = M * p + x /\ n \in Int
    BY <1>3, <1>4
  <2> HIDE DEF M, x
  <2>2. n % M = x
    BY <1>2, <2>1, ModIs
  <2> QED BY <2>2 DEF M, x
<1>6. 2 * k = (2 * h) * p + 2 * c /\ 2 * c \in 0 .. 2 * h - 1
  BY <1>1, <1>2, <1>3
<1>7. (2 * k) % (2 * h) = 2 * c
  <2> DEFINE M == 2 * h  x == 2 * c  y == 2 * k
  <2>1. M \in Nat /\ M > 0 /\ x \in 0 .. M - 1 /\ y = M * p + x /\ y \in Int
    BY <1>1, <1>3, <1>6
  <2> HIDE DEF M, x, y
  <2>2. y % M = x
    BY <1>2, <2>1, ModIs
  <2> QED BY <2>2 DEF M, x, y
<1>8. (2 * c + b) \div 2 = c
  BY <1>1, <1>2
<1> QED BY <1>5, <1>7, <1>8 DEF k, c

\* The entry of the next write.
LEMMA WriteSlotIs ==
  ASSUME RingDivides, NEW w \in Nat
  PROVE  WriteSlot(Wrap(2 * w + 1)) = SlotOf(w + 1)
<1>1. PICK q \in Nat : /\ q > 0 /\ NSlots * q \in Nat /\ NSlots * q > 0
                       /\ CounterMod = 2 * (NSlots * q) /\ CounterMod = NSlots * (2 * q)
  BY Ring
<1>2. (2 * w + 1) \in Nat /\ (2 * w + 1) \div 2 = w /\ NSlots \in Nat /\ NSlots > 0
  BY StateAssumption
<1>3. ((2 * w + 1) % (2 * (NSlots * q))) \div 2 = ((2 * w + 1) \div 2) % (NSlots * q)
  <2> DEFINE h == NSlots * q  n == 2 * w + 1
  <2>1. h \in Nat /\ h > 0 /\ n \in Nat
    BY <1>1, <1>2
  <2> HIDE DEF h, n
  <2>2. (n % (2 * h)) \div 2 = (n \div 2) % h
    BY <2>1, HalfIs
  <2> QED BY <2>2 DEF h, n
<1>4. (w % (NSlots * q)) % NSlots = w % NSlots
  <2>1. w \in Int
    OBVIOUS
  <2> QED BY <1>1, <1>2, <2>1, ModOfMultiple, SMTT(30)
<1>5. w + 1 - 1 = w
  OBVIOUS
<1> QED BY <1>1, <1>2, <1>3, <1>4, <1>5 DEF WriteSlot, Wrap, SlotOf

\* The entry that a reader looks at.
LEMMA ReadSlotIs ==
  ASSUME RingDivides, NEW n \in Nat
  PROVE  ReadSlot(n % CounterMod) = SlotOf(n \div 2)
<1>1. PICK q \in Nat : /\ q > 0 /\ NSlots * q \in Nat /\ NSlots * q > 0
                       /\ CounterMod = 2 * (NSlots * q) /\ CounterMod = NSlots * (2 * q)
  BY Ring
<1> DEFINE k == n \div 2  h == NSlots * q  c == k % h
<1>2. k \in Nat /\ NSlots \in Nat /\ NSlots > 0
  BY StateAssumption
<1>12. 2 * q \in Nat /\ 2 * q > 0 /\ h \in Nat /\ h > 0 /\ CounterMod = 2 * h
  BY <1>1
<1>13. (n % (2 * h)) \div 2 = (n \div 2) % h
  <2> HIDE DEF h
  <2> QED BY <1>12, HalfIs
<1>3. (n % CounterMod) \div 2 = c
  BY <1>12, <1>13
<1>4. c \in Int
  <2> HIDE DEF h, k
  <2> QED BY <1>12, <1>2
<1>5. c % NSlots = k % NSlots
  <2> HIDE DEF k
  <2>1. k \in Int
    BY <1>2
  <2>2. (k % (NSlots * q)) % NSlots = k % NSlots
    BY <1>1, <1>2, <2>1, ModOfMultiple
  <2> QED BY <2>2
<1> HIDE DEF k, c, h
<1>6. ((c - 1) % CounterMod) % NSlots = (c - 1) % NSlots
  <2>1. c - 1 \in Int
    BY <1>4
  <2>2. ((c - 1) % (NSlots * (2 * q))) % NSlots = (c - 1) % NSlots
    BY <1>2, <1>12, <2>1, ModOfMultiple
  <2> QED BY <1>1, <2>2
<1>7. (c + (-1)) % NSlots = ((c % NSlots) + (-1)) % NSlots
  BY <1>2, <1>4, ModSum
<1>8. (k + (-1)) % NSlots = ((k % NSlots) + (-1)) % NSlots
  BY <1>2, ModSum
<1>9. c - 1 = c + (-1) /\ k - 1 = k + (-1)
  BY <1>2, <1>4
<1> QED BY <1>3, <1>5, <1>6, <1>7, <1>8, <1>9 DEF ReadSlot, Wrap, SlotOf, k

\* A read is confirmed if the write that takes over the entry has not begun,
\* unless the reader is so late that the counter has come round.
LEMMA ConfirmedIs ==
  ASSUME RingDivides, NEW n \in Nat, NEW m \in Nat,
         n <= m, m - 2 * (n \div 2) < CounterMod
  PROVE  Confirmed(m % CounterMod, n % CounterMod) <=> m - 2 * (n \div 2) <= 2 * NSlots - 2
<1>1. PICK q \in Nat : /\ q > 0 /\ NSlots * q \in Nat /\ NSlots * q > 0
                       /\ CounterMod = 2 * (NSlots * q) /\ CounterMod = NSlots * (2 * q)
  BY Ring
<1> DEFINE k == n \div 2
<1>2. k \in Nat /\ 2 * k <= n /\ 2 * k \in Int /\ CounterMod \in Nat /\ CounterMod > 0
  BY StateAssumption, <1>1
<1> DEFINE h == NSlots * q
<1>12. h \in Nat /\ h > 0 /\ CounterMod = 2 * h
  BY <1>1
<1>13. (n % (2 * h)) \div 2 = (n \div 2) % h
       /\ (2 * (n \div 2)) % (2 * h) = 2 * ((n \div 2) % h)
  <2> HIDE DEF h
  <2> QED BY <1>12, HalfIs
<1>3. 2 * ((n % CounterMod) \div 2) = (2 * k) % CounterMod
  <2> HIDE DEF h
  <2> QED BY <1>12, <1>13
<1>4. ((m % CounterMod) - ((2 * k) % CounterMod)) % CounterMod = (m - 2 * k) % CounterMod
  <2> DEFINE kk == 2 * k
  <2>1. kk \in Int /\ m \in Int
    BY <1>2
  <2> HIDE DEF kk, k
  <2>2. ((m % CounterMod) - (kk % CounterMod)) % CounterMod = (m - kk) % CounterMod
    BY <1>2, <2>1, ModSum
  <2> QED BY <2>2 DEF kk
<1>5. m - 2 * k \in 0 .. CounterMod - 1
  BY <1>2
<1>6. (m - 2 * k) % CounterMod = m - 2 * k
  <2> HIDE DEF k
  <2> QED BY <1>2, <1>5, ModSmall
<1>7. Wrap((m % CounterMod) - 2 * ((n % CounterMod) \div 2)) = m - 2 * k
  BY <1>3, <1>4, <1>6 DEF Wrap
<1> QED BY <1>7 DEF Confirmed, k

\* Counting on.
LEMMA CountOn ==
  ASSUME NEW n \in Nat
  PROVE  Wrap((n % CounterMod) + 1) = (n + 1) % CounterMod
<1>1. CounterMod \in Nat /\ CounterMod > 0
  BY StateAssumption
<1> QED BY <1>1, ModSum DEF Wrap

\* Entries: where write k lies, and that the writes which fill the ring once lie
\* apart.
LEMMA SlotFacts ==
  ASSUME NEW k \in Nat
  PROVE  /\ SlotOf(k) \in Slots
         /\ k > 0 => SlotOf(k) < k
         /\ k > 0 /\ k <= NSlots => SlotOf(k) = k - 1
         /\ k = 0 => SlotOf(k) = NSlots - 1
         /\ \A j \in Nat : j < k /\ k < j + NSlots => SlotOf(j) # SlotOf(k)
<1>1. NSlots \in Nat /\ NSlots > 0 /\ k - 1 \in Int
  BY StateAssumption
<1>2. (k - 1) \div NSlots \in Int /\ (k - 1) % NSlots \in 0 .. NSlots - 1
      /\ k - 1 = (NSlots * ((k - 1) \div NSlots)) + ((k - 1) % NSlots)
  BY <1>1, DivMod
<1>3. k > 0 => SlotOf(k) < k
  <2> DEFINE p == (k - 1) \div NSlots  c == (k - 1) % NSlots
  <2>1. p \in Int /\ c \in 0 .. NSlots - 1 /\ k - 1 = NSlots * p + c
    BY <1>2
  <2> HIDE DEF p, c
  <2>2. p < 0 => NSlots * p + NSlots <= NSlots * 0
    BY <1>1, <2>1, ProductStep
  <2>3. p >= 0 => NSlots * p >= 0
    <3>1. \A x, y \in Nat : x * y \in Nat
      OBVIOUS
    <3> QED BY <1>1, <2>1, <3>1
  <2>4. NSlots * p \in Int /\ NSlots * 0 = 0
    BY <1>1, <2>1
  <2>5. k > 0 => c < k
    BY <1>1, <2>1, <2>2, <2>3, <2>4
  <2> QED BY <2>5 DEF SlotOf, c
<1>4. k > 0 /\ k <= NSlots => SlotOf(k) = k - 1
  <2>1. k > 0 /\ k <= NSlots => k - 1 \in 0 .. NSlots - 1
    BY <1>1
  <2> QED BY <1>1, <2>1, ModSmall DEF SlotOf
<1>5. k = 0 => SlotOf(k) = NSlots - 1
  <2>1. -1 = NSlots * (-1) + (NSlots - 1) /\ NSlots - 1 \in 0 .. NSlots - 1
    BY <1>1
  <2>2. (-1) % NSlots = NSlots - 1
    BY <1>1, <2>1, ModIs
  <2>3. k = 0 => k - 1 = -1
    OBVIOUS
  <2> QED BY <2>2, <2>3 DEF SlotOf
<1>6. ASSUME NEW j \in Nat, j < k, k < j + NSlots PROVE SlotOf(j) # SlotOf(k)
  <2>1. j - 1 \in Int /\ j - 1 < k - 1 /\ k - 1 < (j - 1) + NSlots
    BY <1>1, <1>6
  <2> QED BY <1>1, <2>1, ModWindow DEF SlotOf
<1> QED BY <1>2, <1>3, <1>4, <1>5, <1>6 DEF SlotOf, Slots

-----------------------------------------------------------------------------
(* The steps of the writer.                                                *)

\* What the readers keep for themselves.
ReadersKept ==
  \A r \in Readers : /\ pc'[r] = pc[r] /\ counter'[r] = counter[r] /\ qindex'[r] = qindex[r]
                     /\ hand'[r] = hand[r] /\ got'[r] = got[r] /\ seen'[r] = seen[r]

\* A write begins, goes on, or ends.
Begins == /\ pc[W] = "idle" /\ pc'[W] = "w_state" /\ writes' = writes + 1 /\ stored' = stored
          /\ failed' = failed /\ NoLap
          /\ update_counter' = Wrap(update_counter + 1) /\ counter'[W] = update_counter'
          /\ qindex'[W] = WriteSlot(update_counter')
GoesOn == /\ pc[W] # "idle" /\ pc'[W] # "idle" /\ writes' = writes /\ stored' = stored
          /\ failed' = failed
          /\ update_counter' = update_counter /\ counter'[W] = counter[W]
          /\ qindex'[W] = qindex[W]
Ends   == /\ pc[W] \in {"w_end", "w_fail_end"} /\ pc'[W] = "idle" /\ writes' = writes
          /\ pc[W] = "w_end" => stored' = writes /\ failed' = failed
          /\ pc[W] = "w_fail_end" => stored' = stored /\ failed' = TRUE
          /\ update_counter' = Wrap(update_counter + 1)

\* Only the entry of the current write, and its buffer, change.
Spares ==
  \A s \in Slots : s # qindex[W] \/ pc[W] \in {"idle", "w_end", "w_fail_end"} =>
    /\ buff_index'[s] = buff_index[s]
    /\ buff_index[s] # NoBuffer => buff'[buff_index[s]] = buff[buff_index[s]]

\* The writer keeps the ranges, and leaves alone what the readers keep.
LEMMA WriterTypes ==
  ASSUME ~Packet, TypeInv, CountInv, WriteInv, WriteBegin \/ WriteStep
  PROVE  TypeInv' /\ ReadersKept
<1>1. W \in Procs /\ \A q \in Readers : q \in Procs /\ q # W
  BY StateAssumption DEF W, Procs
<1>2. /\ NoBuffer \notin Buffers /\ 0 \in Buffers
      /\ \A b \in Buffers : b + 1 < NBuffers => b + 1 \in Buffers
  BY StateAssumption DEF NoBuffer, Buffers
<1> USE <1>1, <1>2
<1> USE DEF TypeInv, Ranges, ReadersKept, CountInv, WriteInv, Goto, channelVars, histVars,
            MayReuse, CopyPCs, OldPCs, NewPCs, FailPCs, MarkPCs
<1>3. CASE WriteBegin
  BY <1>3 DEF WriteBegin
<1>4. CASE WriteReadState
  BY <1>4 DEF WriteReadState, ReadEntryState
<1>5. CASE WriteReadIndex
  BY <1>5 DEF WriteReadIndex
<1>6. CASE WriteReserveRead
  BY <1>6 DEF WriteReserveRead, ReadEntryState
<1>7. CASE WriteReserve
  BY <1>7 DEF WriteReserve, XchgState
<1>8. CASE WriteOrphan
  BY <1>8 DEF WriteOrphan
<1>9. CASE WriteAlloc
  BY <1>9 DEF WriteAlloc
<1>10. CASE WriteFailRead
  BY <1>10 DEF WriteFailRead, ReadEntryState
<1>11. CASE WriteFailState
  BY <1>11 DEF WriteFailState, XchgState
<1>12. CASE WriteFailIndex
  BY <1>12 DEF WriteFailIndex, SetIndex
<1>13. CASE WriteLink
  BY <1>13 DEF WriteLink, SetIndex
<1>14. CASE WriteFill1
  BY <1>14 DEF WriteFill1
<1>15. CASE WriteFill2
  BY <1>15 DEF WriteFill2
<1>16. CASE WriteMarkRead
  BY <1>16 DEF WriteMarkRead, ReadEntryState
<1>17. CASE WriteMark
  BY <1>17 DEF WriteMark
<1>18. CASE WriteEnd
  BY <1>18 DEF WriteEnd
<1> HIDE DEF TypeInv, Ranges, ReadersKept, CountInv, WriteInv, Goto, channelVars, histVars,
             MayReuse, CopyPCs, OldPCs, NewPCs, FailPCs, MarkPCs
<1> QED BY <1>3, <1>4, <1>5, <1>6, <1>7, <1>8, <1>9, <1>10, <1>11, <1>12, <1>13, <1>14,
           <1>15, <1>16, <1>17, <1>18 DEF WriteStep

\* A write begins, goes on or ends.
LEMMA WriterProgress ==
  ASSUME ~Packet, TypeInv, CountInv, WriteInv, WriteBegin \/ WriteStep
  PROVE  Begins \/ GoesOn \/ Ends
<1>1. W \in Procs /\ \A r \in Readers : r \in Procs /\ r # W
  BY StateAssumption DEF W, Procs
<1>2. /\ NoBuffer \notin Buffers /\ 0 \in Buffers
      /\ \A b \in Buffers : b + 1 < NBuffers => b + 1 \in Buffers
  BY StateAssumption DEF NoBuffer, Buffers
<1> USE <1>1, <1>2
<1> USE DEF TypeInv, Ranges, Begins, GoesOn, Ends, CountInv, WriteInv, Goto, channelVars, histVars,
            MayReuse, CopyPCs, OldPCs, NewPCs, FailPCs, MarkPCs
<1>3. CASE WriteBegin
  BY <1>3 DEF WriteBegin
<1>4. CASE WriteReadState
  BY <1>4 DEF WriteReadState, ReadEntryState
<1>5. CASE WriteReadIndex
  BY <1>5 DEF WriteReadIndex
<1>6. CASE WriteReserveRead
  BY <1>6 DEF WriteReserveRead, ReadEntryState
<1>7. CASE WriteReserve
  BY <1>7 DEF WriteReserve, XchgState
<1>8. CASE WriteOrphan
  BY <1>8 DEF WriteOrphan
<1>9. CASE WriteAlloc
  BY <1>9 DEF WriteAlloc
<1>10. CASE WriteFailRead
  BY <1>10 DEF WriteFailRead, ReadEntryState
<1>11. CASE WriteFailState
  BY <1>11 DEF WriteFailState, XchgState
<1>12. CASE WriteFailIndex
  BY <1>12 DEF WriteFailIndex, SetIndex
<1>13. CASE WriteLink
  BY <1>13 DEF WriteLink, SetIndex
<1>14. CASE WriteFill1
  BY <1>14 DEF WriteFill1
<1>15. CASE WriteFill2
  BY <1>15 DEF WriteFill2
<1>16. CASE WriteMarkRead
  BY <1>16 DEF WriteMarkRead, ReadEntryState
<1>17. CASE WriteMark
  BY <1>17 DEF WriteMark
<1>18. CASE WriteEnd
  BY <1>18 DEF WriteEnd
<1> HIDE DEF TypeInv, Ranges, Begins, GoesOn, Ends, CountInv, WriteInv, Goto, channelVars,
             histVars, MayReuse, CopyPCs, OldPCs, NewPCs, FailPCs, MarkPCs
<1> QED BY <1>3, <1>4, <1>5, <1>6, <1>7, <1>8, <1>9, <1>10, <1>11, <1>12, <1>13, <1>14,
           <1>15, <1>16, <1>17, <1>18 DEF WriteStep

\* The writer changes no entry but that of the current write.
LEMMA WriterSpares ==
  ASSUME ~Packet, TypeInv, LinkInv, WriteInv, pc[W] # "idle" => qindex[W] \in Slots, WriteBegin \/ WriteStep
  PROVE  Spares
<1>1. W \in Procs /\ \A r \in Readers : r \in Procs /\ r # W
  BY StateAssumption DEF W, Procs
<1>2. /\ NoBuffer \notin Buffers /\ 0 \in Buffers
      /\ \A b \in Buffers : b + 1 < NBuffers => b + 1 \in Buffers
  BY StateAssumption DEF NoBuffer, Buffers
<1> USE <1>1, <1>2
<1> USE DEF TypeInv, Ranges, Spares, LinkInv, WriteInv, Goto, channelVars, histVars, CopyPCs,
            OldPCs, NewPCs, FailPCs, MarkPCs
<1>3. CASE WriteBegin
  BY <1>3 DEF WriteBegin
<1>4. CASE WriteReadState
  BY <1>4 DEF WriteReadState, ReadEntryState
<1>5. CASE WriteReadIndex
  BY <1>5 DEF WriteReadIndex
<1>6. CASE WriteReserveRead
  BY <1>6 DEF WriteReserveRead, ReadEntryState
<1>7. CASE WriteReserve
  BY <1>7 DEF WriteReserve, XchgState
<1>8. CASE WriteOrphan
  BY <1>8 DEF WriteOrphan
<1>9. CASE WriteAlloc
  BY <1>9 DEF WriteAlloc
<1>10. CASE WriteFailRead
  BY <1>10 DEF WriteFailRead, ReadEntryState
<1>11. CASE WriteFailState
  BY <1>11 DEF WriteFailState, XchgState
<1>12. CASE WriteFailIndex
  BY <1>12 DEF WriteFailIndex, SetIndex
<1>13. CASE WriteLink
  BY <1>13 DEF WriteLink, SetIndex
<1>14. CASE WriteFill1
  BY <1>14 DEF WriteFill1
<1>15. CASE WriteFill2
  BY <1>15 DEF WriteFill2
<1>16. CASE WriteMarkRead
  BY <1>16 DEF WriteMarkRead, ReadEntryState
<1>17. CASE WriteMark
  BY <1>17 DEF WriteMark
<1>18. CASE WriteEnd
  BY <1>18 DEF WriteEnd
<1> HIDE DEF TypeInv, Ranges, Spares, LinkInv, WriteInv, Goto, channelVars, histVars, CopyPCs,
             OldPCs, NewPCs, FailPCs, MarkPCs
<1> QED BY <1>3, <1>4, <1>5, <1>6, <1>7, <1>8, <1>9, <1>10, <1>11, <1>12, <1>13, <1>14,
           <1>15, <1>16, <1>17, <1>18 DEF WriteStep

\* The counter counts.
LEMMA WriterCounts ==
  ASSUME RingDivides, Ranges, CountInv, Ranges', Begins \/ GoesOn \/ Ends
  PROVE  CountInv'
<1>1. writes \in Nat /\ stored \in Nat /\ CounterMod \in Nat
  BY StateAssumption DEF Ranges
<1>2. CASE Begins
  <2>1. 2 * writes \in Nat /\ Now = 2 * writes /\ Now' = 2 * writes + 1 /\ Done = writes /\ Done' = writes
    BY <1>1, <1>2 DEF Begins, Now, Done
  <2>2. update_counter' = (2 * writes + 1) % CounterMod
    BY <1>2, <2>1, CountOn DEF Begins, CountInv
  <2>3. qindex'[W] = SlotOf(writes + 1)
    BY <1>1, <1>2, <2>2, WriteSlotIs DEF Begins, Wrap
  <2> QED BY <1>1, <1>2, <2>1, <2>2, <2>3 DEF Begins, CountInv, SlotOf
<1>3. CASE GoesOn
  <2>1. Now' = Now /\ Done' = Done
    BY <1>3 DEF GoesOn, Now, Done
  <2> QED BY <1>3, <2>1 DEF GoesOn, CountInv, SlotOf
<1>4. CASE Ends
  <2>1. pc[W] # "idle"
    BY <1>4 DEF Ends
  <2>2. writes > 0
    BY <2>1 DEF CountInv
  <2>3. 2 * writes - 1 \in Nat /\ Now = 2 * writes - 1 /\ Now' = (2 * writes - 1) + 1 /\ Done' = writes
        /\ Done = writes - 1
    BY <1>1, <1>4, <2>1, <2>2 DEF Ends, Now, Done
  <2>4. update_counter' = ((2 * writes - 1) + 1) % CounterMod
    BY <1>4, <2>3, CountOn DEF Ends, CountInv
  <2>5. stored' <= Done'
    BY <1>1, <1>4, <2>3 DEF Ends, CountInv
  <2> QED BY <1>4, <2>3, <2>4, <2>5 DEF Ends, CountInv
<1> QED BY <1>2, <1>3, <1>4

\* Where the current write is made.
LEMMA AtEntry ==
  ASSUME Ranges, CountInv, pc[W] # "idle"
  PROVE  /\ qindex[W] \in Slots /\ qindex[W] < writes
         /\ writes <= NSlots => qindex[W] = writes - 1
         /\ \A k \in 1 .. Done : writes - NSlots < k => SlotOf(k) # qindex[W]
<1>1. writes \in Nat /\ writes > 0 /\ qindex[W] = SlotOf(writes) /\ Done = writes - 1 /\ NSlots \in Nat
  BY StateAssumption DEF Ranges, CountInv, Done
<1>2. ASSUME NEW k \in 1 .. Done, writes - NSlots < k PROVE SlotOf(k) # SlotOf(writes)
  BY <1>1, <1>2, SlotFacts
<1> QED BY <1>1, <1>2, SlotFacts

\* The writer links each buffer to one entry.
LEMMA WriterLinks ==
  ASSUME ~Packet, TypeInv, CountInv, LinkInv, WriteInv, WriteBegin \/ WriteStep
  PROVE  LinkInv'
<1>1. W \in Procs /\ \A r \in Readers : r \in Procs /\ r # W
  BY StateAssumption DEF W, Procs
<1>2. /\ NoBuffer \notin Buffers /\ 0 \in Buffers
      /\ \A b \in Buffers : b + 1 < NBuffers => b + 1 \in Buffers
  BY StateAssumption DEF NoBuffer, Buffers
<1>3. /\ writes \in Nat /\ NSlots \in Nat /\ \A s \in Slots : s \in Nat /\ s < NSlots
      /\ NoBuffer \notin Buffers
  BY StateAssumption DEF TypeInv, Ranges, Slots, NoBuffer, Buffers
<1>4. pc[W] # "idle" => /\ qindex[W] \in Slots /\ qindex[W] < writes /\ writes > 0
                        /\ writes <= NSlots => qindex[W] = writes - 1
  BY AtEntry DEF CountInv, TypeInv
<1> USE <1>1, <1>2, <1>3, <1>4
<1> USE DEF TypeInv, Ranges, LinkInv, WriteInv, Done, Goto, channelVars, histVars, CopyPCs, OldPCs,
            NewPCs, FailPCs, MarkPCs
<1>5. CASE WriteBegin
  BY <1>5 DEF WriteBegin
<1>6. CASE WriteReadState
  BY <1>6 DEF WriteReadState, ReadEntryState
<1>7. CASE WriteReadIndex
  BY <1>7 DEF WriteReadIndex
<1>8. CASE WriteReserveRead
  BY <1>8 DEF WriteReserveRead, ReadEntryState
<1>9. CASE WriteReserve
  BY <1>9 DEF WriteReserve, XchgState
<1>10. CASE WriteOrphan
  BY <1>10 DEF WriteOrphan
<1>11. CASE WriteAlloc
  BY <1>11 DEF WriteAlloc
<1>12. CASE WriteFailRead
  BY <1>12 DEF WriteFailRead, ReadEntryState
<1>13. CASE WriteFailState
  BY <1>13 DEF WriteFailState, XchgState
<1>14. CASE WriteFailIndex
  BY <1>14 DEF WriteFailIndex, SetIndex
<1>15. CASE WriteLink
  BY <1>15 DEF WriteLink, SetIndex
<1>16. CASE WriteFill1
  BY <1>16 DEF WriteFill1
<1>17. CASE WriteFill2
  BY <1>17 DEF WriteFill2
<1>18. CASE WriteMarkRead
  BY <1>18 DEF WriteMarkRead, ReadEntryState
<1>19. CASE WriteMark
  BY <1>19 DEF WriteMark
<1>20. CASE WriteEnd
  <2>1. pc[W] \in {"w_end", "w_fail_end"} /\ pc'[W] = "idle" /\ writes' = writes
        /\ buff_index' = buff_index /\ magic_num' = magic_num
    BY <1>20 DEF WriteEnd, CountInv
  <2>2. Done' = writes /\ Done = writes - 1
    BY <2>1
  <2>3. ASSUME ~failed', NEW s \in Slots, s < writes PROVE buff_index[s] # NoBuffer
    <3>1. ~failed /\ pc[W] = "w_end"
      BY <1>20, <2>1, <2>3 DEF WriteEnd
    <3>2. CASE s < writes - 1
      BY <3>1, <3>2, <2>1
    <3>3. CASE s = writes - 1
      <4>1. s = qindex[W]
        BY <2>1, <3>3
      <4> QED BY <3>1, <4>1
    <3> QED BY <2>3, <3>2, <3>3
  <2>4. \A s \in Slots : s >= writes' => buff_index'[s] = NoBuffer
    BY <2>1
  <2> QED BY <2>1, <2>2, <2>3, <2>4
<1> HIDE DEF TypeInv, Ranges, LinkInv, WriteInv, Done, Goto, channelVars, histVars, CopyPCs,
             OldPCs, NewPCs, FailPCs, MarkPCs
<1> QED BY <1>5, <1>6, <1>7, <1>8, <1>9, <1>10, <1>11, <1>12, <1>13, <1>14, <1>15, <1>16,
           <1>17, <1>18, <1>19, <1>20 DEF WriteStep

\* The writer works on the buffer of its entry.
LEMMA WriterWorks ==
  ASSUME ~Packet, TypeInv, CountInv, LinkInv, WriteInv, WriteBegin \/ WriteStep
  PROVE  WriteInv'
<1>1. W \in Procs /\ \A r \in Readers : r \in Procs /\ r # W
  BY StateAssumption DEF W, Procs
<1>2. /\ NoBuffer \notin Buffers /\ 0 \in Buffers
      /\ \A b \in Buffers : b + 1 < NBuffers => b + 1 \in Buffers
  BY StateAssumption DEF NoBuffer, Buffers
<1>3. /\ writes \in Nat /\ NSlots \in Nat /\ \A s \in Slots : s \in Nat /\ s < NSlots
      /\ NoBuffer \notin Buffers
  BY StateAssumption DEF TypeInv, Ranges, Slots, NoBuffer, Buffers
<1>4. pc[W] # "idle" => /\ qindex[W] \in Slots /\ qindex[W] < writes /\ writes > 0
                        /\ writes <= NSlots => qindex[W] = writes - 1
  BY AtEntry DEF CountInv, TypeInv
<1> USE <1>1, <1>2, <1>3, <1>4
<1> USE DEF TypeInv, Ranges, LinkInv, WriteInv, Goto, channelVars, histVars, MayReuse, CopyPCs,
            OldPCs, NewPCs, FailPCs, MarkPCs
<1>5. CASE WriteBegin
  BY <1>5 DEF WriteBegin
<1>6. CASE WriteReadState
  BY <1>6 DEF WriteReadState, ReadEntryState
<1>7. CASE WriteReadIndex
  BY <1>7 DEF WriteReadIndex
<1>8. CASE WriteReserveRead
  BY <1>8 DEF WriteReserveRead, ReadEntryState
<1>9. CASE WriteReserve
  BY <1>9 DEF WriteReserve, XchgState
<1>10. CASE WriteOrphan
  BY <1>10 DEF WriteOrphan
<1>11. CASE WriteAlloc
  BY <1>11 DEF WriteAlloc
<1>12. CASE WriteFailRead
  BY <1>12 DEF WriteFailRead, ReadEntryState
<1>13. CASE WriteFailState
  BY <1>13 DEF WriteFailState, XchgState
<1>14. CASE WriteFailIndex
  BY <1>14 DEF WriteFailIndex, SetIndex
<1>15. CASE WriteLink
  BY <1>15 DEF WriteLink, SetIndex
<1>16. CASE WriteFill1
  BY <1>16 DEF WriteFill1
<1>17. CASE WriteFill2
  BY <1>17 DEF WriteFill2
<1>18. CASE WriteMarkRead
  BY <1>18 DEF WriteMarkRead, ReadEntryState
<1>19. CASE WriteMark
  BY <1>19 DEF WriteMark
<1>20. CASE WriteEnd
  BY <1>20 DEF WriteEnd
<1> HIDE DEF TypeInv, Ranges, LinkInv, WriteInv, Goto, channelVars, histVars, MayReuse, CopyPCs,
             OldPCs, NewPCs, FailPCs, MarkPCs
<1> QED BY <1>5, <1>6, <1>7, <1>8, <1>9, <1>10, <1>11, <1>12, <1>13, <1>14, <1>15, <1>16,
           <1>17, <1>18, <1>19, <1>20 DEF WriteStep

\* The last writes stay where they are, until the next one begins.
LEMMA WriterContents ==
  ASSUME Ranges, CountInv, ContentInv, Spares, Begins \/ GoesOn \/ Ends,
         Ends => \/ buff_index[qindex[W]] = NoBuffer
                 \/ buff[buff_index[qindex[W]]] = <<writes, writes>>
  PROVE  ContentInv'
<1>1. writes \in Nat /\ NSlots \in Nat
  BY StateAssumption DEF Ranges
<1>2. ASSUME NEW k \in 1 .. Done', writes' - NSlots < k
      PROVE  buff_index'[SlotOf(k)] = NoBuffer \/ buff'[buff_index'[SlotOf(k)]] = <<k, k>>
  <2>1. CASE k \in 1 .. Done /\ (pc[W] = "idle" \/ Ends \/ SlotOf(k) # qindex[W])
    <3>1. writes - NSlots < k
      BY <1>1, <1>2 DEF Begins, GoesOn, Ends
    <3>2. buff_index[SlotOf(k)] = NoBuffer \/ buff[buff_index[SlotOf(k)]] = <<k, k>>
      BY <2>1, <3>1 DEF ContentInv
    <3>3. SlotOf(k) \in Slots
      BY <1>1, <2>1, SlotFacts DEF Done
    <3> QED BY <2>1, <3>2, <3>3 DEF Spares, Ends
  <2>2. CASE Begins
    <3>1. Done' = Done
      BY <1>1, <2>2 DEF Begins, Done
    <3> QED BY <1>2, <2>1, <2>2, <3>1 DEF Begins
  <2>3. CASE GoesOn
    <3>1. Done' = Done /\ writes' = writes /\ pc[W] # "idle"
      BY <2>3 DEF GoesOn, Done
    <3> QED BY <1>2, <2>1, <3>1, AtEntry
  <2>4. CASE Ends
    <3>1. Done' = writes /\ Done = writes - 1 /\ pc[W] # "idle" /\ writes' = writes
      BY <2>4 DEF Ends, Done
    <3>2. CASE k = writes
      <4>1. SlotOf(k) = qindex[W] /\ qindex[W] \in Slots
        BY <3>1, <3>2, AtEntry DEF CountInv
      <4>2. buff_index[qindex[W]] = NoBuffer \/ buff[buff_index[qindex[W]]] = <<writes, writes>>
        BY <2>4
      <4> QED BY <2>4, <3>2, <4>1, <4>2 DEF Spares, Ends
    <3>3. CASE k # writes
      <4>1. k \in 1 .. Done
        BY <1>1, <1>2, <3>1, <3>3
      <4> QED BY <2>1, <2>4, <4>1
    <3> QED BY <3>2, <3>3
  <2> QED BY <2>2, <2>3, <2>4
<1> QED BY <1>2 DEF ContentInv, SlotOf

-----------------------------------------------------------------------------
(* What a reader may rely on while the writer goes on.                     *)

\* Counting in halves.
LEMMA HalfOf ==
  ASSUME NEW n \in Nat
  PROVE  n \div 2 \in Nat /\ 2 * (n \div 2) <= n /\ n <= 2 * (n \div 2) + 1
OBVIOUS

\* The write that a reader looks for is complete.
LEMMA LooksBack ==
  ASSUME Ranges, CountInv, NEW n \in 0 .. Now
  PROVE  n \div 2 \in Nat /\ n \div 2 <= Done /\ Now \in Nat /\ Done \in Nat /\ Done <= writes
<1>1. writes \in Nat /\ (pc[W] # "idle" => writes > 0)
  BY DEF Ranges, CountInv
<1>2. n \in Nat /\ n <= Now /\ Now \in Nat /\ Done \in Nat /\ Done <= writes /\ Now <= 2 * Done + 1
  BY <1>1 DEF Now, Done
<1>3. n \div 2 \in Nat /\ 2 * (n \div 2) <= n
  BY <1>2, HalfOf
<1> DEFINE k == n \div 2
<1> HIDE DEF k
<1>4. k \in Nat /\ 2 * k <= n
  BY <1>3 DEF k
<1>5. k <= Done
  BY <1>2, <1>4
<1> QED BY <1>2, <1>4, <1>5 DEF k

\* The counter only grows.
LEMMA WriterGrows ==
  ASSUME Ranges, CountInv, Begins \/ GoesOn \/ Ends
  PROVE  /\ writes \in Nat /\ writes' \in Nat /\ writes <= writes'
         /\ Now \in Nat /\ Now' \in Nat /\ Now <= Now'
         /\ Done \in Nat /\ Done' \in Nat /\ Done <= Done'
         /\ failed => failed'
<1>1. writes \in Nat /\ failed \in BOOLEAN /\ (pc[W] # "idle" => writes > 0)
  BY DEF Ranges, CountInv
<1>2. CASE Begins
  BY <1>1, <1>2 DEF Begins, Now, Done
<1>3. CASE GoesOn
  BY <1>1, <1>3 DEF GoesOn, Now, Done
<1>4. CASE Ends
  BY <1>1, <1>4 DEF Ends, Now, Done
<1> QED BY <1>2, <1>3, <1>4

\* A reader finds the write that it looks for, until its entry is taken over.
LEMMA WriterKeepsReadAt ==
  ASSUME TypeInv, CountInv, Spares, ReadersKept, Begins \/ GoesOn \/ Ends,
         NEW r \in Readers, pc[r] \in LookPCs, NEW n \in 0 .. Now, ReadAt(r, n)
  PROVE  ReadAt(r, n)'
<1> DEFINE k == n \div 2
<1>1. k \in Nat /\ k <= Done /\ Now \in Nat /\ Done \in Nat /\ Done <= writes /\ n \in Nat
  BY LooksBack DEF TypeInv
<1>2. writes \in Nat /\ writes' \in Nat /\ writes <= writes' /\ NSlots \in Nat
  BY WriterGrows, StateAssumption DEF TypeInv
<1>3. 2 * k <= n
  BY <1>1, HalfOf
<1>4. /\ counter[r] = n % CounterMod /\ 2 * writes - n <= CounterMod - 2
      /\ seen[r] <= k /\ qindex[r] = SlotOf(k)
      /\ writes < k + NSlots =>
           /\ pc[r] = "r_buffer" => k > 0 /\ buff_index[qindex[r]] # NoBuffer
           /\ pc[r] = "r_word2" => k > 0 /\ hand[r] = buff_index[qindex[r]] /\ got[r][1] = k
           /\ pc[r] = "r_confirm" => k > 0 /\ got[r] = <<k, k>>
  BY DEF ReadAt
<1> SUFFICES
      /\ counter'[r] = n % CounterMod /\ 2 * writes' - n <= CounterMod - 2
      /\ seen'[r] <= k /\ qindex'[r] = SlotOf(k)
      /\ writes' < k + NSlots =>
           /\ pc'[r] = "r_buffer" => k > 0 /\ buff_index'[qindex'[r]] # NoBuffer
           /\ pc'[r] = "r_word2" => k > 0 /\ hand'[r] = buff_index'[qindex'[r]] /\ got'[r][1] = k
           /\ pc'[r] = "r_confirm" => k > 0 /\ got'[r] = <<k, k>>
  BY DEF ReadAt, SlotOf
<1> HIDE DEF k
<1>5. 2 * writes' - n <= CounterMod - 2
  <2>1. CASE Begins
    <3>1. writes - seen[r] < CounterMod \div 2 - 1 /\ writes' = writes + 1
      BY <2>1 DEF Begins, NoLap, LookPCs, RestPCs
    <3>2. CounterMod \in Nat /\ 2 * (CounterMod \div 2) = CounterMod /\ CounterMod \div 2 \in Int
      BY StateAssumption
    <3>3. seen[r] \in Nat
      BY DEF TypeInv, Ranges
    <3> DEFINE h == CounterMod \div 2  x == seen[r]
    <3>4. writes - x < h - 1 /\ 2 * h = CounterMod /\ h \in Int /\ x \in Nat /\ x <= k
      BY <1>4, <3>1, <3>2, <3>3
    <3> HIDE DEF h, x
    <3> QED BY <1>1, <1>2, <1>3, <3>1, <3>2, <3>4
  <2>2. CASE GoesOn \/ Ends
    BY <1>4, <2>2 DEF GoesOn, Ends
  <2> QED BY <2>1, <2>2
<1>6. ASSUME writes' < k + NSlots, k > 0
      PROVE  buff_index'[SlotOf(k)] = buff_index[SlotOf(k)]
  <2>1. SlotOf(k) \in Slots
    BY <1>1, SlotFacts
  <2>2. k \in 1 .. Done /\ writes - NSlots < k
    BY <1>1, <1>2, <1>6
  <2>3. CASE Begins \/ Ends
    BY <2>1, <2>3 DEF Begins, Ends, Spares
  <2>4. CASE GoesOn
    BY <2>1, <2>2, <2>4, AtEntry DEF GoesOn, Spares, TypeInv
  <2> QED BY <2>3, <2>4
<1>7. writes' < k + NSlots => writes < k + NSlots
  BY <1>1, <1>2
<1> QED BY <1>4, <1>5, <1>6, <1>7 DEF ReadersKept

\* The writer leaves what the readers rely on.
LEMMA WriterReads ==
  ASSUME TypeInv, CountInv, ReadInv, Spares, ReadersKept, Begins \/ GoesOn \/ Ends
  PROVE  ReadInv'
<1>1. /\ Now \in Nat /\ Now' \in Nat /\ Now <= Now'
      /\ Done \in Nat /\ Done' \in Nat /\ Done <= Done'
      /\ failed => failed'
  BY WriterGrows DEF TypeInv
<1>2. ASSUME NEW r \in Readers
      PROVE  /\ seen'[r] <= Done'
             /\ pc'[r] \in LookPCs => \E n \in 0 .. Now' : ReadAt(r, n)'
             /\ pc'[r] = "done" => got'[r][1] = got'[r][2] /\ got'[r][1] > 0 /\ got'[r][1] >= seen'[r]
             /\ pc'[r] = "empty" /\ ~failed' => seen'[r] = 0
  <2>1. seen'[r] <= Done'
    <3>1. seen[r] \in Nat /\ seen[r] <= Done /\ seen'[r] = seen[r]
      BY DEF TypeInv, Ranges, ReadInv, ReadersKept
    <3> QED BY <1>1, <3>1
  <2>2. ASSUME pc'[r] \in LookPCs PROVE \E n \in 0 .. Now' : ReadAt(r, n)'
    <3>1. pc[r] \in LookPCs
      BY <2>2 DEF ReadersKept
    <3>2. PICK n \in 0 .. Now : ReadAt(r, n)
      BY <3>1 DEF ReadInv
    <3>3. ReadAt(r, n)'
      BY <3>1, <3>2, WriterKeepsReadAt
    <3>4. n \in 0 .. Now'
      BY <1>1
    <3> QED BY <3>3, <3>4
  <2>3. pc'[r] = "done" => got'[r][1] = got'[r][2] /\ got'[r][1] > 0 /\ got'[r][1] >= seen'[r]
    BY DEF ReadInv, ReadersKept
  <2>4. pc'[r] = "empty" /\ ~failed' => seen'[r] = 0
    BY <1>1 DEF ReadInv, ReadersKept
  <2> QED BY <2>1, <2>2, <2>3, <2>4
<1> QED BY <1>2 DEF ReadInv

-----------------------------------------------------------------------------
(* The steps of a reader.                                                  *)

\* A reader that copies changes nothing that is shared but parent, which only
\* packets use, and no local of another thread.
OthersKept(r) ==
  /\ update_counter' = update_counter /\ state' = state /\ buff_index' = buff_index
  /\ magic_num' = magic_num /\ buff' = buff
  /\ writes' = writes /\ stored' = stored /\ failed' = failed
  /\ \A p \in Procs : p # r =>
       /\ pc'[p] = pc[p] /\ counter'[p] = counter[p] /\ qindex'[p] = qindex[p]
       /\ hand'[p] = hand[p] /\ oldbstate'[p] = oldbstate[p]
  /\ \A q \in Readers : q # r => got'[q] = got[q] /\ seen'[q] = seen[q]

\* A reader keeps the ranges, and leaves alone what others use.
LEMMA ReaderTypes ==
  ASSUME ~Packet, TypeInv, NEW r \in Readers, pc[r] \in LookPCs => qindex[r] \in Slots,
         Read(r) \/ ReadStep(r) \/ PktFree(r)
  PROVE  TypeInv' /\ OthersKept(r)
<1>1. W \in Procs /\ \A q \in Readers : q \in Procs /\ q # W
  BY StateAssumption DEF W, Procs
<1>2. /\ NoBuffer \notin Buffers /\ 0 \in Buffers
      /\ \A b \in Buffers : b + 1 < NBuffers => b + 1 \in Buffers
  BY StateAssumption DEF NoBuffer, Buffers
<1>3. \A i : i \notin 1 .. Len(<<>>)
  OBVIOUS
<1> USE <1>1, <1>2, <1>3
<1> USE DEF TypeInv, Ranges, OthersKept, LookPCs, RestPCs, CopyPCs, Goto, channelVars, histVars
<1>7. CASE Read(r)
  BY <1>7 DEF Read
<1>8. CASE ReadCounter(r)
  BY <1>8 DEF ReadCounter
<1>9. CASE ReadIndex(r)
  BY <1>9 DEF ReadIndex
<1>10. CASE TakeEntry(r)
  BY <1>10 DEF TakeEntry
<1>11. CASE ReadWord1(r)
  BY <1>11 DEF ReadWord1
<1>12. CASE ReadWord2(r)
  BY <1>12 DEF ReadWord2
<1>13. CASE Confirm(r)
  BY <1>13 DEF Confirm
<1>14. CASE FreeBuffer(r)
  BY <1>14 DEF FreeBuffer
<1>15. CASE ReleaseParent(r)
  BY <1>15 DEF ReleaseParent
<1>16. CASE PktFree(r)
  BY <1>16 DEF PktFree
<1> HIDE DEF TypeInv, Ranges, OthersKept, LookPCs, RestPCs, CopyPCs, Goto, channelVars, histVars
<1> QED BY <1>7, <1>8, <1>9, <1>10, <1>11, <1>12, <1>13, <1>14, <1>15, <1>16 DEF ReadStep

\* The parts that are not about readers.
LEMMA ReaderSpares ==
  ASSUME TypeInv, CountInv, LinkInv, WriteInv, ContentInv, NEW r \in Readers, OthersKept(r)
  PROVE  /\ CountInv' /\ LinkInv' /\ WriteInv' /\ ContentInv'
         /\ Now' = Now /\ Done' = Done
<1>1. W \in Procs /\ r # W
  BY StateAssumption DEF W, Procs
<1>2. /\ pc'[W] = pc[W] /\ counter'[W] = counter[W] /\ qindex'[W] = qindex[W]
      /\ hand'[W] = hand[W] /\ oldbstate'[W] = oldbstate[W]
  BY <1>1 DEF OthersKept
<1>3. Now' = Now /\ Done' = Done
  BY <1>2 DEF OthersKept, Now, Done
<1>4. CountInv'
  BY <1>2, <1>3 DEF OthersKept, CountInv, SlotOf
<1>5. LinkInv'
  BY <1>2, <1>3 DEF OthersKept, LinkInv
<1>6. WriteInv'
  BY <1>2 DEF OthersKept, WriteInv
<1>7. ContentInv'
  BY <1>3 DEF OthersKept, ContentInv, SlotOf
<1> QED BY <1>3, <1>4, <1>5, <1>6, <1>7

\* The parts about the other readers.
LEMMA ReaderSparesReaders ==
  ASSUME ReadInv, NEW r \in Readers, OthersKept(r), Now' = Now, Done' = Done,
         NEW q \in Readers, q # r
  PROVE  /\ seen'[q] <= Done'
         /\ pc'[q] \in LookPCs => \E n \in 0 .. Now' : ReadAt(q, n)'
         /\ pc'[q] = "done" => got'[q][1] = got'[q][2] /\ got'[q][1] > 0 /\ got'[q][1] >= seen'[q]
         /\ pc'[q] = "empty" /\ ~failed' => seen'[q] = 0
<1>1. q \in Procs
  BY DEF Procs
<1>2. \A n : ReadAt(q, n)' <=> ReadAt(q, n)
  BY <1>1 DEF OthersKept, ReadAt, SlotOf
<1> QED BY <1>1, <1>2 DEF ReadInv, OthersKept

\* What a reader that looks relies on, spelled out.
LEMMA Looking ==
  ASSUME TypeInv, CountInv, ReadInv, NEW r \in Readers, pc[r] \in LookPCs
  PROVE  \E k \in Nat, n \in 0 .. Now :
           /\ k = n \div 2 /\ 2 * k <= n /\ n <= 2 * k + 1 /\ k <= Done /\ ReadAt(r, n)
           /\ counter[r] = n % CounterMod /\ 2 * writes - n <= CounterMod - 2
           /\ seen[r] <= k /\ qindex[r] = SlotOf(k) /\ qindex[r] \in Slots
           /\ writes < k + NSlots =>
                /\ pc[r] = "r_buffer" => k > 0 /\ buff_index[qindex[r]] # NoBuffer
                /\ pc[r] = "r_word2" => k > 0 /\ hand[r] = buff_index[qindex[r]] /\ got[r][1] = k
                /\ pc[r] = "r_confirm" => k > 0 /\ got[r] = <<k, k>>
<1>1. PICK n \in 0 .. Now : ReadAt(r, n)
  BY DEF ReadInv
<1> DEFINE k == n \div 2
<1>2. k \in Nat /\ k <= Done
  BY LooksBack DEF TypeInv
<1>3. n \in Nat /\ 2 * k <= n /\ n <= 2 * k + 1
  <2>1. n \in Nat
    BY LooksBack DEF TypeInv
  <2> QED BY <2>1, HalfOf
<1>4. SlotOf(k) \in Slots
  BY <1>2, SlotFacts
<1> WITNESS k \in Nat, n \in 0 .. Now
<1> QED BY <1>1, <1>2, <1>3, <1>4 DEF ReadAt

\* What a reader relies on, and what it returns, after its own step.
LEMMA ReaderOwn ==
  ASSUME ~Packet, RingDivides, TypeInv, CountInv, LinkInv, WriteInv, ContentInv, ReadInv,
         NEW r \in Readers, OthersKept(r), Read(r) \/ ReadStep(r) \/ PktFree(r)
  PROVE  /\ seen'[r] <= Done'
         /\ pc'[r] \in LookPCs => \E n \in 0 .. Now' : ReadAt(r, n)'
         /\ pc'[r] = "done" => got'[r][1] = got'[r][2] /\ got'[r][1] > 0 /\ got'[r][1] >= seen'[r]
         /\ pc'[r] = "empty" /\ ~failed' => seen'[r] = 0
<1>1. /\ r \in Procs /\ Now' = Now /\ Done' = Done /\ update_counter' = update_counter
      /\ buff_index' = buff_index /\ writes' = writes /\ failed' = failed
  BY ReaderSpares DEF Procs, OthersKept
<1>2. /\ writes \in Nat /\ Now \in Nat /\ Done \in Nat /\ Done <= writes /\ seen[r] <= Done
      /\ NSlots \in Nat /\ (pc[W] # "idle" => writes > 0)
  <2>1. writes \in Nat /\ NSlots \in Nat /\ (pc[W] # "idle" => writes > 0)
    BY StateAssumption DEF TypeInv, Ranges, CountInv
  <2>2. Now \in Nat /\ Done \in Nat /\ Done <= writes
    BY <2>1 DEF Now, Done
  <2>3. seen[r] <= Done
    BY DEF ReadInv
  <2> QED BY <2>1, <2>2, <2>3
<1>3. NoBuffer \notin Buffers
  BY DEF NoBuffer, Buffers
<1>4. seen[r] \in Nat
  BY DEF TypeInv, Ranges
<1>5. CASE Read(r)
  <2>1. seen'[r] = stored /\ pc'[r] = "r_counter"
    BY <1>5, <1>1 DEF Read, TypeInv, Ranges
  <2> QED BY <1>1, <2>1 DEF CountInv, LookPCs
<1>6. CASE ReadCounter(r)
  <2>1. /\ pc'[r] = "r_index" /\ counter'[r] = Now % CounterMod
        /\ qindex'[r] = ReadSlot(Now % CounterMod) /\ seen' = seen
    BY <1>6, <1>1 DEF ReadCounter, TypeInv, Ranges, Goto, CountInv, histVars
  <2>2. qindex'[r] = SlotOf(Now \div 2)
    BY <1>2, <2>1, ReadSlotIs
  <2>3. Now \div 2 = Done /\ 2 * writes - Now <= CounterMod - 2
    <3>1. \A d \in Int : (2 * d) \div 2 = d /\ (2 * d + 1) \div 2 = d
      OBVIOUS
    <3>2. Done \in Int /\ (Now = 2 * Done \/ Now = 2 * Done + 1) /\ 2 * writes - Now <= 1
      BY <1>2 DEF Now, Done
    <3>3. CounterMod \in Nat /\ CounterMod > 2 * NSlots /\ NSlots \in Nat /\ NSlots > 0
      BY StateAssumption
    <3>4. CounterMod \in Nat /\ CounterMod - 2 >= 1
      BY <3>3
    <3> QED BY <1>2, <3>1, <3>2, <3>4
  <2>4. ReadAt(r, Now)'
    <3>1. 2 * writes' - Now <= CounterMod - 2 /\ seen'[r] <= Now \div 2
      BY <1>1, <1>2, <2>1, <2>3
    <3> QED BY <1>1, <2>1, <2>2, <3>1 DEF ReadAt, SlotOf
  <2>5. Now \in 0 .. Now'
    BY <1>1, <1>2
  <2>6. \E n \in 0 .. Now' : ReadAt(r, n)'
    BY <1>1, <2>4, <2>5
  <2> QED BY <1>1, <1>2, <2>1, <2>6
<1>7. CASE ReadIndex(r)
  <2>1. PICK k \in Nat, n \in 0 .. Now :
           /\ k = n \div 2 /\ 2 * k <= n /\ n <= 2 * k + 1 /\ k <= Done /\ ReadAt(r, n)
           /\ counter[r] = n % CounterMod /\ 2 * writes - n <= CounterMod - 2
           /\ seen[r] <= k /\ qindex[r] = SlotOf(k) /\ qindex[r] \in Slots
           /\ writes < k + NSlots =>
                /\ pc[r] = "r_buffer" => k > 0 /\ buff_index[qindex[r]] # NoBuffer
                /\ pc[r] = "r_word2" => k > 0 /\ hand[r] = buff_index[qindex[r]] /\ got[r][1] = k
                /\ pc[r] = "r_confirm" => k > 0 /\ got[r] = <<k, k>>
    BY <1>7, Looking DEF LookPCs, Goto, ReadIndex, ReadWord1, ReadWord2, Confirm
  <2>2. /\ pc'[r] = (IF buff_index[qindex[r]] = NoBuffer THEN "empty" ELSE "r_buffer")
        /\ UNCHANGED <<counter, qindex, got, seen, hand>>
    BY <1>7, <1>1 DEF ReadIndex, TypeInv, Ranges, Goto, histVars
  <2>3. k = 0 => SlotOf(k) = NSlots - 1
    BY SlotFacts
  <2>4. k > 0 => SlotOf(k) < k
    BY SlotFacts
  <2>5. SlotOf(k) \in Nat
    BY <2>1 DEF Slots
  <2>6. ASSUME pc'[r] = "empty", ~failed' PROVE seen'[r] = 0
    <3>1. buff_index[SlotOf(k)] = NoBuffer /\ ~failed /\ SlotOf(k) \in Slots
      BY <1>1, <2>1, <2>2, <2>6
    <3>2. ~ (SlotOf(k) < Done)
      BY <3>1 DEF LinkInv
    <3>3. k = 0
      BY <1>2, <2>1, <2>4, <2>5, <3>2
    <3>4. seen[r] \in Nat /\ seen[r] <= 0
      BY <2>1, <3>3 DEF TypeInv, Ranges
    <3> QED BY <2>2, <3>4
  <2>7. writes' < k + NSlots =>
           /\ pc'[r] = "r_buffer" => k > 0 /\ buff_index'[qindex'[r]] # NoBuffer
           /\ pc'[r] = "r_word2" => k > 0 /\ hand'[r] = buff_index'[qindex'[r]] /\ got'[r][1] = k
           /\ pc'[r] = "r_confirm" => k > 0 /\ got'[r] = <<k, k>>
    <3>1. SUFFICES ASSUME writes < k + NSlots, buff_index[qindex[r]] # NoBuffer
                   PROVE  k > 0
      BY <1>1, <2>2
    <3>2. ~ (SlotOf(k) >= writes)
      BY <2>1, <3>1 DEF LinkInv
    <3> QED BY <1>2, <2>1, <2>3, <2>5, <3>1, <3>2
  <2>8. /\ counter'[r] = n % CounterMod /\ 2 * writes' - n <= CounterMod - 2
        /\ seen'[r] <= k /\ qindex'[r] = SlotOf(k)
    BY <1>7, <1>1, <2>1, <2>2 DEF OthersKept
  <2>9. ReadAt(r, n)'
    BY <2>1, <2>2, <2>7, <2>8 DEF ReadAt, SlotOf
  <2> QED BY <1>1, <1>2, <2>1, <2>2, <2>6, <2>9
<1>8. CASE TakeEntry(r)
  BY <1>8 DEF TakeEntry, Goto, TypeInv, Ranges, RestPCs, LookPCs
<1>9. CASE ReadWord1(r)
  <2>1. PICK k \in Nat, n \in 0 .. Now :
           /\ k = n \div 2 /\ 2 * k <= n /\ n <= 2 * k + 1 /\ k <= Done /\ ReadAt(r, n)
           /\ counter[r] = n % CounterMod /\ 2 * writes - n <= CounterMod - 2
           /\ seen[r] <= k /\ qindex[r] = SlotOf(k) /\ qindex[r] \in Slots
           /\ writes < k + NSlots =>
                /\ pc[r] = "r_buffer" => k > 0 /\ buff_index[qindex[r]] # NoBuffer
                /\ pc[r] = "r_word2" => k > 0 /\ hand[r] = buff_index[qindex[r]] /\ got[r][1] = k
                /\ pc[r] = "r_confirm" => k > 0 /\ got[r] = <<k, k>>
    BY <1>9, Looking DEF LookPCs, Goto, ReadIndex, ReadWord1, ReadWord2, Confirm
  <2>2. /\ pc[r] = "r_buffer" /\ pc'[r] = "r_word2" /\ UNCHANGED <<counter, qindex, seen>>
        /\ buff_index[qindex[r]] # NoBuffer =>
             hand'[r] = buff_index[qindex[r]] /\ got'[r][1] = buff[buff_index[qindex[r]]][1]
    BY <1>9, <1>1 DEF ReadWord1, TypeInv, Ranges, Goto, histVars
  <2>7. writes' < k + NSlots =>
           /\ pc'[r] = "r_buffer" => k > 0 /\ buff_index'[qindex'[r]] # NoBuffer
           /\ pc'[r] = "r_word2" => k > 0 /\ hand'[r] = buff_index'[qindex'[r]] /\ got'[r][1] = k
           /\ pc'[r] = "r_confirm" => k > 0 /\ got'[r] = <<k, k>>
    <3>1. SUFFICES ASSUME writes < k + NSlots
                   PROVE  k > 0 /\ hand'[r] = buff_index[qindex[r]] /\ got'[r][1] = k
      BY <1>1, <2>2
    <3>2. k \in 1 .. Done /\ writes - NSlots < k
      BY <1>2, <2>1, <2>2, <3>1
    <3>3. buff[buff_index[SlotOf(k)]] = <<k, k>>
      BY <2>1, <2>2, <3>1, <3>2 DEF ContentInv
    <3> QED BY <2>1, <2>2, <3>1, <3>3
  <2>8. /\ counter'[r] = n % CounterMod /\ 2 * writes' - n <= CounterMod - 2
        /\ seen'[r] <= k /\ qindex'[r] = SlotOf(k)
    BY <1>9, <1>1, <2>1, <2>2 DEF OthersKept
  <2>9. ReadAt(r, n)'
    BY <2>1, <2>2, <2>7, <2>8 DEF ReadAt, SlotOf
  <2> QED BY <1>1, <1>2, <2>1, <2>2, <2>9
<1>10. CASE ReadWord2(r)
  <2>1. PICK k \in Nat, n \in 0 .. Now :
           /\ k = n \div 2 /\ 2 * k <= n /\ n <= 2 * k + 1 /\ k <= Done /\ ReadAt(r, n)
           /\ counter[r] = n % CounterMod /\ 2 * writes - n <= CounterMod - 2
           /\ seen[r] <= k /\ qindex[r] = SlotOf(k) /\ qindex[r] \in Slots
           /\ writes < k + NSlots =>
                /\ pc[r] = "r_buffer" => k > 0 /\ buff_index[qindex[r]] # NoBuffer
                /\ pc[r] = "r_word2" => k > 0 /\ hand[r] = buff_index[qindex[r]] /\ got[r][1] = k
                /\ pc[r] = "r_confirm" => k > 0 /\ got[r] = <<k, k>>
    BY <1>10, Looking DEF LookPCs, Goto, ReadIndex, ReadWord1, ReadWord2, Confirm
  <2>2. /\ pc[r] = "r_word2" /\ pc'[r] = "r_confirm" /\ UNCHANGED <<counter, qindex, seen>>
        /\ got'[r] = <<got[r][1], buff[hand[r]][2]>>
    BY <1>10, <1>1 DEF ReadWord2, TypeInv, Ranges, Goto, histVars
  <2>7. writes' < k + NSlots =>
           /\ pc'[r] = "r_buffer" => k > 0 /\ buff_index'[qindex'[r]] # NoBuffer
           /\ pc'[r] = "r_word2" => k > 0 /\ hand'[r] = buff_index'[qindex'[r]] /\ got'[r][1] = k
           /\ pc'[r] = "r_confirm" => k > 0 /\ got'[r] = <<k, k>>
    <3>1. SUFFICES ASSUME writes < k + NSlots
                   PROVE  k > 0 /\ got'[r] = <<k, k>>
      BY <1>1, <2>2
    <3>2. k \in 1 .. Done /\ writes - NSlots < k
      BY <1>2, <2>1, <2>2, <3>1
    <3>3. hand[r] = buff_index[SlotOf(k)] /\ hand[r] # NoBuffer /\ got[r][1] = k
      BY <1>3, <2>1, <2>2, <3>1 DEF TypeInv, Ranges
    <3>4. buff[hand[r]] = <<k, k>>
      BY <3>2, <3>3 DEF ContentInv
    <3> QED BY <2>1, <2>2, <3>1, <3>3, <3>4
  <2>8. /\ counter'[r] = n % CounterMod /\ 2 * writes' - n <= CounterMod - 2
        /\ seen'[r] <= k /\ qindex'[r] = SlotOf(k)
    BY <1>10, <1>1, <2>1, <2>2 DEF OthersKept
  <2>9. ReadAt(r, n)'
    BY <2>1, <2>2, <2>7, <2>8 DEF ReadAt, SlotOf
  <2> QED BY <1>1, <1>2, <2>1, <2>2, <2>9
<1>11. CASE Confirm(r)
  <2>1. PICK k \in Nat, n \in 0 .. Now :
           /\ k = n \div 2 /\ 2 * k <= n /\ n <= 2 * k + 1 /\ k <= Done /\ ReadAt(r, n)
           /\ counter[r] = n % CounterMod /\ 2 * writes - n <= CounterMod - 2
           /\ seen[r] <= k /\ qindex[r] = SlotOf(k) /\ qindex[r] \in Slots
           /\ writes < k + NSlots =>
                /\ pc[r] = "r_buffer" => k > 0 /\ buff_index[qindex[r]] # NoBuffer
                /\ pc[r] = "r_word2" => k > 0 /\ hand[r] = buff_index[qindex[r]] /\ got[r][1] = k
                /\ pc[r] = "r_confirm" => k > 0 /\ got[r] = <<k, k>>
    BY <1>11, Looking DEF LookPCs, Goto, ReadIndex, ReadWord1, ReadWord2, Confirm
  <2>2. /\ pc[r] = "r_confirm" /\ UNCHANGED <<counter, qindex, seen>> /\ got'[r] = got[r]
        /\ pc'[r] = (IF Confirmed(update_counter, counter[r]) THEN "done" ELSE "r_counter")
    BY <1>11, <1>1 DEF Confirm, TypeInv, Ranges, Goto, histVars
  <2>3. /\ n \in Nat /\ CounterMod \in Nat /\ NSlots \in Nat /\ n <= Now /\ Now <= 2 * writes
        /\ 2 * writes <= Now + 1
    BY <1>2, StateAssumption DEF Now
  <2>4. Now - 2 * k < CounterMod
    BY <1>2, <2>1, <2>3
  <2>5. Confirmed(Now % CounterMod, n % CounterMod) <=> Now - 2 * k <= 2 * NSlots - 2
    BY <1>2, <2>1, <2>3, <2>4, ConfirmedIs
  <2>6. ASSUME pc'[r] = "done" PROVE k > 0 /\ got[r] = <<k, k>>
    <3>1. Now - 2 * k <= 2 * NSlots - 2
      BY <2>1, <2>2, <2>5, <2>6 DEF CountInv
    <3>2. writes < k + NSlots
      BY <1>2, <2>3, <3>1
    <3> QED BY <2>1, <2>2, <3>2
  <2>7. pc'[r] \in {"done", "r_counter"}
    BY <2>2
  <2>8. pc'[r] = "done" => got'[r][1] = got'[r][2] /\ got'[r][1] > 0 /\ got'[r][1] >= seen'[r]
    BY <2>1, <2>2, <2>6, <1>4
  <2> QED BY <1>1, <1>2, <2>2, <2>7, <2>8 DEF LookPCs
<1>12. CASE FreeBuffer(r)
  BY <1>12 DEF FreeBuffer, Goto, TypeInv, Ranges, RestPCs, LookPCs
<1>13. CASE ReleaseParent(r)
  BY <1>13 DEF ReleaseParent, Goto, TypeInv, Ranges, RestPCs, LookPCs
<1>14. CASE PktFree(r)
  <2>1. held[r] = <<>> /\ \A i : i \notin 1 .. Len(<<>>)
    BY DEF TypeInv, Ranges
  <2> QED BY <1>14, <2>1 DEF PktFree
<1> QED BY <1>5, <1>6, <1>7, <1>8, <1>9, <1>10, <1>11, <1>12, <1>13, <1>14 DEF ReadStep

-----------------------------------------------------------------------------
(* The invariant and what it says.                                         *)

\* It holds at first.
LEMMA StateInit ==
  ASSUME ~Packet, Init
  PROVE  IInv
<1>1. W \in Procs /\ 0 \in Buffers /\ NSlots \in Nat /\ NSlots > 0 /\ CounterMod \in Nat
      /\ CounterMod > 0
  BY StateAssumption DEF W, Procs, Buffers
<1>2. Now = 0 /\ Done = 0 /\ 0 % CounterMod = 0
  <2>1. 0 % CounterMod = 0
    <3>1. 0 \in 0 .. CounterMod - 1
      BY <1>1
    <3> QED BY <1>1, <3>1, ModSmall
  <2> QED BY <1>1, <2>1 DEF Init, Now, Done
<1>3. PICK busy \in SUBSET Buffers :
        magic_num = [b \in Buffers |-> IF b \in busy THEN "RESERVED" ELSE "0"]
  BY DEF Init
<1>4. TypeInv
  BY <1>1, <1>3 DEF Init, TypeInv, Ranges, CopyPCs, RestPCs, Procs
<1>5. CountInv
  BY <1>1, <1>2 DEF Init, CountInv
<1>6. LinkInv
  BY <1>1, <1>2 DEF Init, LinkInv, Slots
<1>7. WriteInv
  BY <1>1 DEF Init, WriteInv, OldPCs, NewPCs, FailPCs, MarkPCs
<1>8. ContentInv
  BY <1>2 DEF ContentInv
<1>9. ReadInv
  <2>1. \A r \in Readers : seen[r] = 0 /\ pc[r] = "idle"
    BY DEF Init, Procs
  <2> QED BY <1>2, <2>1 DEF ReadInv, LookPCs
<1> QED BY <1>4, <1>5, <1>6, <1>7, <1>8, <1>9 DEF IInv

\* A step of the writer keeps it.
LEMMA WriterStep ==
  ASSUME ~Packet, RingDivides, IInv, WriteBegin \/ WriteStep
  PROVE  IInv'
<1>1. TypeInv /\ CountInv /\ LinkInv /\ WriteInv /\ ContentInv /\ ReadInv
  BY DEF IInv
<1>2. TypeInv' /\ ReadersKept
  BY <1>1, WriterTypes
<1>3. Begins \/ GoesOn \/ Ends
  BY <1>1, WriterProgress
<1>4. pc[W] # "idle" => qindex[W] \in Slots
  BY <1>1, AtEntry DEF TypeInv
<1>5. Spares
  BY <1>1, <1>4, WriterSpares
<1>6. CountInv'
  BY <1>1, <1>2, <1>3, WriterCounts DEF TypeInv
<1>7. LinkInv' /\ WriteInv'
  BY <1>1, WriterLinks, WriterWorks
<1>8. ContentInv'
  <2>1. Ends => \/ buff_index[qindex[W]] = NoBuffer
                \/ buff[buff_index[qindex[W]]] = <<writes, writes>>
    BY <1>1 DEF Ends, WriteInv, FailPCs, MarkPCs
  <2> QED BY <1>1, <1>3, <1>5, <2>1, WriterContents DEF TypeInv
<1>9. ReadInv'
  BY <1>1, <1>2, <1>3, <1>5, WriterReads
<1> QED BY <1>2, <1>6, <1>7, <1>8, <1>9 DEF IInv

\* A step of a reader keeps it.
LEMMA ReaderStep ==
  ASSUME ~Packet, RingDivides, IInv, NEW r \in Readers, Read(r) \/ ReadStep(r) \/ PktFree(r)
  PROVE  IInv'
<1>1. TypeInv /\ CountInv /\ LinkInv /\ WriteInv /\ ContentInv /\ ReadInv
  BY DEF IInv
<1>2. pc[r] \in LookPCs => qindex[r] \in Slots
  BY <1>1, Looking
<1>3. TypeInv' /\ OthersKept(r)
  BY <1>1, <1>2, ReaderTypes
<1>4. CountInv' /\ LinkInv' /\ WriteInv' /\ ContentInv' /\ Now' = Now /\ Done' = Done
  BY <1>1, <1>3, ReaderSpares
<1>5. ASSUME NEW q \in Readers
      PROVE  /\ seen'[q] <= Done'
             /\ pc'[q] \in LookPCs => \E n \in 0 .. Now' : ReadAt(q, n)'
             /\ pc'[q] = "done" => got'[q][1] = got'[q][2] /\ got'[q][1] > 0 /\ got'[q][1] >= seen'[q]
             /\ pc'[q] = "empty" /\ ~failed' => seen'[q] = 0
  <2>1. CASE q = r
    BY <1>1, <1>3, <2>1, ReaderOwn
  <2>2. CASE q # r
    BY <1>1, <1>3, <1>4, <2>2, ReaderSparesReaders
  <2> QED BY <2>1, <2>2
<1>6. ReadInv'
  BY <1>5 DEF ReadInv
<1> QED BY <1>3, <1>4, <1>6 DEF IInv

\* So does every step.
LEMMA StateInductive ==
  ASSUME ~Packet, RingDivides, IInv, [Next]_vars
  PROVE  IInv'
<1>1. CASE UNCHANGED vars
  <2> USE <1>1 DEF vars, channelVars, localVars, histVars
  <2>1. Now' = Now /\ Done' = Done
    BY DEF Now, Done
  <2>2. TypeInv' <=> TypeInv
    BY DEF TypeInv, Ranges
  <2>3. CountInv' <=> CountInv
    BY <2>1 DEF CountInv, SlotOf
  <2>4. LinkInv' <=> LinkInv
    BY <2>1 DEF LinkInv
  <2>5. WriteInv' <=> WriteInv
    BY DEF WriteInv
  <2>6. ContentInv' <=> ContentInv
    BY <2>1 DEF ContentInv, SlotOf
  <2>7. ReadInv' <=> ReadInv
    <3>1. \A r \in Readers : \A n : ReadAt(r, n)' <=> ReadAt(r, n)
      BY DEF ReadAt, SlotOf
    <3> QED BY <2>1, <3>1 DEF ReadInv
  <2> QED BY <2>2, <2>3, <2>4, <2>5, <2>6, <2>7 DEF IInv
<1>2. CASE WriteBegin \/ WriteStep
  BY <1>2, WriterStep
<1>3. CASE \E r \in Readers : Read(r) \/ ReadStep(r) \/ PktFree(r)
  BY <1>3, ReaderStep
<1> QED BY <1>1, <1>2, <1>3 DEF Next

\* The invariant of a state-message channel whose readers copy, for any number
\* of readers, entries and buffers and any counter width that the number of
\* entries divides.
THEOREM StateInvariant == ~Packet /\ RingDivides => (Spec => []IInv)
<1> SUFFICES ASSUME ~Packet, RingDivides PROVE Spec => []IInv
  OBVIOUS
<1>1. Init => IInv
  BY StateInit
<1>2. IInv /\ [Next]_vars => IInv'
  BY StateInductive
<1> QED BY <1>1, <1>2, PTL DEF Spec

\* mcapi_trans_recv_state returns the two words of one write, though the writer
\* overwrites entries at any time and waits for nobody.
THEOREM ReadWhole == ~Packet /\ RingDivides => (Spec => []ReadUncorrupted)
<1> SUFFICES ASSUME ~Packet, RingDivides PROVE Spec => []ReadUncorrupted
  OBVIOUS
<1>1. Spec => []IInv
  BY StateInvariant
<1>2. IInv => ReadUncorrupted
  BY DEF IInv, ReadInv, ReadUncorrupted
<1> QED BY <1>1, <1>2, PTL

\* It returns a write at least as new as the newest that was complete when the
\* call began, and reports that there is none only if there was none then or a
\* write ran out of buffers.
THEOREM ReadNewest == ~Packet /\ RingDivides => (Spec => []ReadFresh)
<1> SUFFICES ASSUME ~Packet, RingDivides PROVE Spec => []ReadFresh
  OBVIOUS
<1>1. Spec => []IInv
  BY StateInvariant
<1>2. IInv => ReadFresh
  BY DEF IInv, ReadInv, ReadFresh
<1> QED BY <1>1, <1>2, PTL

\* No assert of mcapi_trans_send_state and mcapi_trans_recv_state fails when
\* readers copy.
THEOREM StateAssertsHold == ~Packet /\ RingDivides => (Spec => []NoAssertFails)
<1> SUFFICES ASSUME ~Packet, RingDivides PROVE Spec => []NoAssertFails
  OBVIOUS
<1>1. Spec => []IInv
  BY StateInvariant
<1>2. IInv => NoAssertFails
  BY DEF IInv, TypeInv, Ranges, NoAssertFails, Procs, W, CopyPCs, OldPCs, NewPCs, FailPCs, MarkPCs,
         LookPCs, RestPCs
<1> QED BY <1>1, <1>2, PTL

-----------------------------------------------------------------------------
(* Packets that are handed out: the invariant.                             *)

\* One thread receives on the channel, as the attributes of a packet channel
\* have it, and frees each packet before it receives the next.
OneAtATime == (\A r, q \in Readers : r = q) /\ MaxHeld = 1

\* The writer has given up the buffer of its entry.
GonePCs == {"w_alloc", "w_link", "w_fail", "w_fail_cas", "w_fail_index"}
TakePCs == {"r_index", "r_take", "r_buffer", "r_confirm"}

\* The range of every variable.
PktTypeInv ==
  /\ Ranges
  /\ DOMAIN state = Slots /\ DOMAIN buff_index = Slots /\ DOMAIN magic_num = Buffers
  /\ DOMAIN buff = Buffers
  /\ \A s \in Slots : buff_index[s] \in Buffers \cup {NoBuffer}
  /\ DOMAIN pc = Procs /\ DOMAIN counter = Procs /\ DOMAIN qindex = Procs
  /\ DOMAIN hand = Procs /\ DOMAIN oldbstate = Procs /\ DOMAIN oldindex = Procs
  /\ DOMAIN got = Readers /\ DOMAIN held = Readers /\ DOMAIN seen = Readers
  /\ pc[W] \in WritePCs /\ hand[W] \in Buffers /\ oldindex[W] \in Buffers \cup {NoBuffer}
  /\ \A r \in Readers :
       /\ pc[r] \in RestPCs \cup TakePCs \cup {"r_counter", "f_buffer", "f_parent", "abort"}
       /\ seen[r] \in Nat /\ hand[r] \in Buffers

\* An entry has its own buffer, which is in use; but the buffer that the writer
\* has given up stays linked until it has another one.
PktLinkInv ==
  /\ \A s, u \in Slots : buff_index[s] # NoBuffer /\ buff_index[s] = buff_index[u] => s = u
  /\ \A s \in Slots : buff_index[s] # NoBuffer /\ ~(s = qindex[W] /\ pc[W] \in GonePCs) =>
       magic_num[buff_index[s]] = "RESERVED"
  /\ \A s \in Slots : s >= writes => buff_index[s] = NoBuffer

\* The writer works on the buffer of its entry, gives that buffer up, or has
\* another one that no entry uses.
PktWriteInv ==
  LET q == qindex[W] IN
  /\ pc[W] \in OldPCs \cup {"w_fill", "w_fill2"} \cup MarkPCs => buff_index[q] = hand[W]
  /\ pc[W] \in {"w_reserve_new", "w_new_cas", "w_fail_end"} => buff_index[q] = NoBuffer
  /\ pc[W] \in {"w_reserve_replace", "w_replace_cas", "w_orphan"} =>
       buff_index[q] = oldindex[W] /\ oldindex[W] # NoBuffer
  /\ pc[W] = "w_link" =>
       magic_num[hand[W]] = "RESERVED" /\ \A s \in Slots \ {q} : buff_index[s] # hand[W]
  /\ pc[W] = "w_fill2" => buff[hand[W]][1] = writes
  /\ pc[W] \in MarkPCs => buff[hand[W]] = <<writes, writes>>

\* Nobody writes to the buffer b: it has been given up, or its entry is marked
\* and a writer that comes to the entry has seen the mark, or will.
Linked(b, s) ==
  /\ buff_index[s] = b
  /\ ~(pc[W] # "idle" /\ qindex[W] = s) => state[s] = "RECEIVED"
  /\ pc[W] # "idle" /\ qindex[W] = s =>
       /\ pc[W] \in {"w_state", "w_index", "w_reserve_replace", "w_replace_cas", "w_orphan"}
       /\ pc[W] # "w_orphan" => state[s] = "RECEIVED"
       /\ pc[W] \in {"w_index", "w_replace_cas"} => oldbstate[W] = "RECEIVED"

Kept(b) ==
  \/ magic_num[b] = "MAGIC"
  \/ magic_num[b] = "RESERVED" /\ \E s \in Slots : Linked(b, s)

\* A reader saw the counter when it was n: it looks for write n \div 2, and marks
\* its entry as long as the write that takes it over has not begun.
PktReadAt(r, n) ==
  LET k == n \div 2 IN
  /\ counter[r] = n % CounterMod /\ 2 * writes - n <= CounterMod - 2
  /\ seen[r] <= k /\ qindex[r] = SlotOf(k)
  /\ writes < k + NSlots /\ pc[r] # "r_index" =>
       /\ k > 0 /\ buff_index[qindex[r]] # NoBuffer
       /\ pc[r] # "r_take" => state[qindex[r]] = "RECEIVED"
       /\ pc[r] = "r_confirm" => hand[r] = buff_index[qindex[r]]

\* The packet that the reader's application holds is the one it was given.
Holds(r) == \E b \in Buffers : held[r] = << <<b, buff[b]>> >> /\ Kept(b)

PktReaderInv(r) ==
  /\ seen[r] <= Done
  /\ pc[r] \in TakePCs => \E n \in 0 .. Now : PktReadAt(r, n)
  /\ pc[r] = "done" => got[r][1] = got[r][2] /\ got[r][1] > 0 /\ got[r][1] >= seen[r]
  /\ pc[r] = "f_buffer" => magic_num[hand[r]] = "MAGIC"
  /\ held[r] # <<>> => pc[r] \in RestPCs /\ Holds(r)

PktReadInv == \A r \in Readers : PktReaderInv(r)

PktInv == PktTypeInv /\ CountInv /\ PktLinkInv /\ PktWriteInv /\ ContentInv /\ PktReadInv

-----------------------------------------------------------------------------
(* Packets: the steps of the writer.                                       *)

\* What the reader keeps for itself.
PktReadersKept == ReadersKept /\ held' = held

\* Only the entry of the current write, and its buffer, change.
PktSpares ==
  /\ Spares
  /\ \A s \in Slots : s # qindex[W] \/ pc[W] \in {"idle", "w_end", "w_fail_end"} =>
       state'[s] = state[s]

\* The writer keeps the ranges, and leaves alone what the reader keeps.
LEMMA PktWriterTypes ==
  ASSUME Packet, PktTypeInv, CountInv, PktWriteInv,
         WriteBegin \/ WriteStep
  PROVE  PktTypeInv' /\ PktReadersKept
<1>1. W \in Procs /\ \A r \in Readers : r \in Procs /\ r # W
  BY StateAssumption DEF W, Procs
<1>2. /\ NoBuffer \notin Buffers /\ 0 \in Buffers
      /\ \A n \in Buffers : n + 1 < NBuffers => n + 1 \in Buffers
  BY StateAssumption DEF NoBuffer, Buffers
<1>3. pc[W] # "idle" => /\ qindex[W] \in Slots /\ qindex[W] < writes /\ writes > 0
                        /\ writes <= NSlots => qindex[W] = writes - 1
  BY AtEntry DEF CountInv, PktTypeInv
<1> USE <1>1, <1>2, <1>3
<1> USE DEF PktTypeInv, Ranges, PktReadersKept, ReadersKept, CountInv,
            PktWriteInv, Goto, channelVars, histVars, MayReuse, WritePCs,
            OldPCs, GonePCs, MarkPCs
<1>4. CASE WriteBegin
  BY <1>4 DEF WriteBegin
<1>5. CASE WriteReadState
  BY <1>5 DEF WriteReadState, ReadEntryState
<1>6. CASE WriteReadIndex
  BY <1>6 DEF WriteReadIndex
<1>7. CASE WriteReserveRead
  BY <1>7 DEF WriteReserveRead, ReadEntryState
<1>8. CASE WriteReserve
  BY <1>8 DEF WriteReserve, XchgState
<1>9. CASE WriteOrphan
  BY <1>9 DEF WriteOrphan
<1>10. CASE WriteAlloc
  BY <1>10 DEF WriteAlloc
<1>11. CASE WriteFailRead
  BY <1>11 DEF WriteFailRead, ReadEntryState
<1>12. CASE WriteFailState
  BY <1>12 DEF WriteFailState, XchgState
<1>13. CASE WriteFailIndex
  BY <1>13 DEF WriteFailIndex, SetIndex
<1>14. CASE WriteLink
  BY <1>14 DEF WriteLink, SetIndex
<1>15. CASE WriteFill1
  BY <1>15 DEF WriteFill1
<1>16. CASE WriteFill2
  BY <1>16 DEF WriteFill2
<1>17. CASE WriteMarkRead
  BY <1>17 DEF WriteMarkRead, ReadEntryState
<1>18. CASE WriteMark
  BY <1>18 DEF WriteMark
<1>19. CASE WriteEnd
  BY <1>19 DEF WriteEnd
<1> HIDE DEF PktTypeInv, Ranges, PktReadersKept, ReadersKept, CountInv,
             PktWriteInv, Goto, channelVars, histVars, MayReuse, WritePCs,
             OldPCs, GonePCs, MarkPCs
<1> QED BY <1>4, <1>5, <1>6, <1>7, <1>8, <1>9, <1>10, <1>11, <1>12, <1>13,
           <1>14, <1>15, <1>16, <1>17, <1>18, <1>19 DEF WriteStep

\* A write begins, goes on or ends.
LEMMA PktWriterProgress ==
  ASSUME Packet, PktTypeInv, CountInv, PktWriteInv,
         WriteBegin \/ WriteStep
  PROVE  Begins \/ GoesOn \/ Ends
<1>1. W \in Procs /\ \A r \in Readers : r \in Procs /\ r # W
  BY StateAssumption DEF W, Procs
<1>2. /\ NoBuffer \notin Buffers /\ 0 \in Buffers
      /\ \A n \in Buffers : n + 1 < NBuffers => n + 1 \in Buffers
  BY StateAssumption DEF NoBuffer, Buffers
<1> USE <1>1, <1>2
<1> USE DEF PktTypeInv, Ranges, Begins, GoesOn, Ends, CountInv, Goto,
            channelVars, histVars, MayReuse, WritePCs, OldPCs, GonePCs,
            MarkPCs
<1>3. CASE WriteBegin
  BY <1>3 DEF WriteBegin
<1>4. CASE WriteReadState
  BY <1>4 DEF WriteReadState, ReadEntryState
<1>5. CASE WriteReadIndex
  BY <1>5 DEF WriteReadIndex
<1>6. CASE WriteReserveRead
  BY <1>6 DEF WriteReserveRead, ReadEntryState
<1>7. CASE WriteReserve
  BY <1>7 DEF WriteReserve, XchgState
<1>8. CASE WriteOrphan
  BY <1>8 DEF WriteOrphan
<1>9. CASE WriteAlloc
  BY <1>9 DEF WriteAlloc
<1>10. CASE WriteFailRead
  BY <1>10 DEF WriteFailRead, ReadEntryState
<1>11. CASE WriteFailState
  BY <1>11 DEF WriteFailState, XchgState
<1>12. CASE WriteFailIndex
  BY <1>12 DEF WriteFailIndex, SetIndex
<1>13. CASE WriteLink
  BY <1>13 DEF WriteLink, SetIndex
<1>14. CASE WriteFill1
  BY <1>14 DEF WriteFill1
<1>15. CASE WriteFill2
  BY <1>15 DEF WriteFill2
<1>16. CASE WriteMarkRead
  BY <1>16 DEF WriteMarkRead, ReadEntryState
<1>17. CASE WriteMark
  BY <1>17 DEF WriteMark
<1>18. CASE WriteEnd
  BY <1>18 DEF WriteEnd
<1> HIDE DEF PktTypeInv, Ranges, Begins, GoesOn, Ends, CountInv, Goto,
             channelVars, histVars, MayReuse, WritePCs, OldPCs, GonePCs,
             MarkPCs
<1> QED BY <1>3, <1>4, <1>5, <1>6, <1>7, <1>8, <1>9, <1>10, <1>11, <1>12,
           <1>13, <1>14, <1>15, <1>16, <1>17, <1>18 DEF WriteStep

\* The writer changes no entry but that of the current write.
LEMMA PktWriterSpares ==
  ASSUME Packet, PktTypeInv, CountInv, PktLinkInv, PktWriteInv,
         WriteBegin \/ WriteStep
  PROVE  PktSpares
<1>1. W \in Procs /\ \A r \in Readers : r \in Procs /\ r # W
  BY StateAssumption DEF W, Procs
<1>2. /\ NoBuffer \notin Buffers /\ 0 \in Buffers
      /\ \A n \in Buffers : n + 1 < NBuffers => n + 1 \in Buffers
  BY StateAssumption DEF NoBuffer, Buffers
<1>3. pc[W] # "idle" => /\ qindex[W] \in Slots /\ qindex[W] < writes /\ writes > 0
                        /\ writes <= NSlots => qindex[W] = writes - 1
  BY AtEntry DEF CountInv, PktTypeInv
<1> USE <1>1, <1>2, <1>3
<1> USE DEF PktTypeInv, Ranges, PktSpares, Spares, PktLinkInv, PktWriteInv,
            Goto, channelVars, histVars, MayReuse, WritePCs, OldPCs, GonePCs,
            MarkPCs
<1>4. CASE WriteBegin
  BY <1>4 DEF WriteBegin
<1>5. CASE WriteReadState
  BY <1>5 DEF WriteReadState, ReadEntryState
<1>6. CASE WriteReadIndex
  BY <1>6 DEF WriteReadIndex
<1>7. CASE WriteReserveRead
  BY <1>7 DEF WriteReserveRead, ReadEntryState
<1>8. CASE WriteReserve
  BY <1>8 DEF WriteReserve, XchgState
<1>9. CASE WriteOrphan
  BY <1>9 DEF WriteOrphan
<1>10. CASE WriteAlloc
  BY <1>10 DEF WriteAlloc
<1>11. CASE WriteFailRead
  BY <1>11 DEF WriteFailRead, ReadEntryState
<1>12. CASE WriteFailState
  BY <1>12 DEF WriteFailState, XchgState
<1>13. CASE WriteFailIndex
  BY <1>13 DEF WriteFailIndex, SetIndex
<1>14. CASE WriteLink
  BY <1>14 DEF WriteLink, SetIndex
<1>15. CASE WriteFill1
  BY <1>15 DEF WriteFill1
<1>16. CASE WriteFill2
  BY <1>16 DEF WriteFill2
<1>17. CASE WriteMarkRead
  BY <1>17 DEF WriteMarkRead, ReadEntryState
<1>18. CASE WriteMark
  BY <1>18 DEF WriteMark
<1>19. CASE WriteEnd
  BY <1>19 DEF WriteEnd
<1> HIDE DEF PktTypeInv, Ranges, PktSpares, Spares, PktLinkInv, PktWriteInv,
             Goto, channelVars, histVars, MayReuse, WritePCs, OldPCs, GonePCs,
             MarkPCs
<1> QED BY <1>4, <1>5, <1>6, <1>7, <1>8, <1>9, <1>10, <1>11, <1>12, <1>13,
           <1>14, <1>15, <1>16, <1>17, <1>18, <1>19 DEF WriteStep

\* The writer links each buffer to one entry.
LEMMA PktWriterLinks ==
  ASSUME Packet, PktTypeInv, CountInv, PktLinkInv, PktWriteInv,
         WriteBegin \/ WriteStep
  PROVE  PktLinkInv'
<1>1. W \in Procs /\ \A r \in Readers : r \in Procs /\ r # W
  BY StateAssumption DEF W, Procs
<1>2. /\ NoBuffer \notin Buffers /\ 0 \in Buffers
      /\ \A n \in Buffers : n + 1 < NBuffers => n + 1 \in Buffers
  BY StateAssumption DEF NoBuffer, Buffers
<1>3. pc[W] # "idle" => /\ qindex[W] \in Slots /\ qindex[W] < writes /\ writes > 0
                        /\ writes <= NSlots => qindex[W] = writes - 1
  BY AtEntry DEF CountInv, PktTypeInv
<1>4. /\ writes \in Nat /\ NSlots \in Nat /\ \A s \in Slots : s \in Nat /\ s < NSlots
      /\ NoBuffer \notin Buffers
  BY StateAssumption DEF PktTypeInv, Ranges, Slots, NoBuffer, Buffers
<1> USE <1>1, <1>2, <1>3, <1>4
<1> USE DEF PktTypeInv, Ranges, PktLinkInv, PktWriteInv, Goto, channelVars,
            histVars, MayReuse, WritePCs, OldPCs, GonePCs, MarkPCs
<1>5. CASE WriteBegin
  BY <1>5 DEF WriteBegin
<1>6. CASE WriteReadState
  BY <1>6 DEF WriteReadState, ReadEntryState
<1>7. CASE WriteReadIndex
  BY <1>7 DEF WriteReadIndex
<1>8. CASE WriteReserveRead
  BY <1>8 DEF WriteReserveRead, ReadEntryState
<1>9. CASE WriteReserve
  BY <1>9 DEF WriteReserve, XchgState
<1>10. CASE WriteOrphan
  BY <1>10 DEF WriteOrphan
<1>11. CASE WriteAlloc
  BY <1>11 DEF WriteAlloc
<1>12. CASE WriteFailRead
  BY <1>12 DEF WriteFailRead, ReadEntryState
<1>13. CASE WriteFailState
  BY <1>13 DEF WriteFailState, XchgState
<1>14. CASE WriteFailIndex
  BY <1>14 DEF WriteFailIndex, SetIndex
<1>15. CASE WriteLink
  BY <1>15 DEF WriteLink, SetIndex
<1>16. CASE WriteFill1
  BY <1>16 DEF WriteFill1
<1>17. CASE WriteFill2
  BY <1>17 DEF WriteFill2
<1>18. CASE WriteMarkRead
  BY <1>18 DEF WriteMarkRead, ReadEntryState
<1>19. CASE WriteMark
  BY <1>19 DEF WriteMark
<1>20. CASE WriteEnd
  BY <1>20 DEF WriteEnd
<1> HIDE DEF PktTypeInv, Ranges, PktLinkInv, PktWriteInv, Goto, channelVars,
             histVars, MayReuse, WritePCs, OldPCs, GonePCs, MarkPCs
<1> QED BY <1>5, <1>6, <1>7, <1>8, <1>9, <1>10, <1>11, <1>12, <1>13, <1>14,
           <1>15, <1>16, <1>17, <1>18, <1>19, <1>20 DEF WriteStep

\* The writer works on the buffer of its entry, or gives it up.
LEMMA PktWriterWorks ==
  ASSUME Packet, PktTypeInv, CountInv, PktLinkInv, PktWriteInv,
         WriteBegin \/ WriteStep
  PROVE  PktWriteInv'
<1>1. W \in Procs /\ \A r \in Readers : r \in Procs /\ r # W
  BY StateAssumption DEF W, Procs
<1>2. /\ NoBuffer \notin Buffers /\ 0 \in Buffers
      /\ \A n \in Buffers : n + 1 < NBuffers => n + 1 \in Buffers
  BY StateAssumption DEF NoBuffer, Buffers
<1>3. pc[W] # "idle" => /\ qindex[W] \in Slots /\ qindex[W] < writes /\ writes > 0
                        /\ writes <= NSlots => qindex[W] = writes - 1
  BY AtEntry DEF CountInv, PktTypeInv
<1>4. /\ writes \in Nat /\ NSlots \in Nat /\ \A s \in Slots : s \in Nat /\ s < NSlots
      /\ NoBuffer \notin Buffers
  BY StateAssumption DEF PktTypeInv, Ranges, Slots, NoBuffer, Buffers
<1> USE <1>1, <1>2, <1>3, <1>4
<1> USE DEF PktTypeInv, Ranges, PktLinkInv, PktWriteInv, Goto, channelVars,
            histVars, MayReuse, WritePCs, OldPCs, GonePCs, MarkPCs
<1>5. CASE WriteBegin
  BY <1>5 DEF WriteBegin
<1>6. CASE WriteReadState
  BY <1>6 DEF WriteReadState, ReadEntryState
<1>7. CASE WriteReadIndex
  BY <1>7 DEF WriteReadIndex
<1>8. CASE WriteReserveRead
  BY <1>8 DEF WriteReserveRead, ReadEntryState
<1>9. CASE WriteReserve
  BY <1>9 DEF WriteReserve, XchgState
<1>10. CASE WriteOrphan
  BY <1>10 DEF WriteOrphan
<1>11. CASE WriteAlloc
  BY <1>11 DEF WriteAlloc
<1>12. CASE WriteFailRead
  BY <1>12 DEF WriteFailRead, ReadEntryState
<1>13. CASE WriteFailState
  BY <1>13 DEF WriteFailState, XchgState
<1>14. CASE WriteFailIndex
  BY <1>14 DEF WriteFailIndex, SetIndex
<1>15. CASE WriteLink
  BY <1>15 DEF WriteLink, SetIndex
<1>16. CASE WriteFill1
  BY <1>16 DEF WriteFill1
<1>17. CASE WriteFill2
  BY <1>17 DEF WriteFill2
<1>18. CASE WriteMarkRead
  BY <1>18 DEF WriteMarkRead, ReadEntryState
<1>19. CASE WriteMark
  BY <1>19 DEF WriteMark
<1>20. CASE WriteEnd
  BY <1>20 DEF WriteEnd
<1> HIDE DEF PktTypeInv, Ranges, PktLinkInv, PktWriteInv, Goto, channelVars,
             histVars, MayReuse, WritePCs, OldPCs, GonePCs, MarkPCs
<1> QED BY <1>5, <1>6, <1>7, <1>8, <1>9, <1>10, <1>11, <1>12, <1>13, <1>14,
           <1>15, <1>16, <1>17, <1>18, <1>19, <1>20 DEF WriteStep

\* A buffer that nobody writes to stays as it is.
LEMMA PktWriterKeeps ==
  ASSUME Packet, PktTypeInv, CountInv, PktLinkInv, PktWriteInv, NEW b \in Buffers, Kept(b),
         WriteBegin \/ WriteStep
  PROVE  Kept(b)' /\ buff'[b] = buff[b]
<1>1. W \in Procs /\ \A r \in Readers : r \in Procs /\ r # W
  BY StateAssumption DEF W, Procs
<1>2. /\ NoBuffer \notin Buffers /\ 0 \in Buffers
      /\ \A n \in Buffers : n + 1 < NBuffers => n + 1 \in Buffers
  BY StateAssumption DEF NoBuffer, Buffers
<1>3. pc[W] # "idle" => /\ qindex[W] \in Slots /\ qindex[W] < writes /\ writes > 0
                        /\ writes <= NSlots => qindex[W] = writes - 1
  BY AtEntry DEF CountInv, PktTypeInv
<1> USE <1>1, <1>2, <1>3
<1> USE DEF PktTypeInv, Ranges, PktLinkInv, PktWriteInv, Kept, Linked, Goto,
            channelVars, histVars, MayReuse, WritePCs, OldPCs, GonePCs,
            MarkPCs
<1>4. CASE WriteBegin
  BY <1>4 DEF WriteBegin
<1>5. CASE WriteReadState
  BY <1>5 DEF WriteReadState, ReadEntryState
<1>6. CASE WriteReadIndex
  BY <1>6 DEF WriteReadIndex
<1>7. CASE WriteReserveRead
  BY <1>7 DEF WriteReserveRead, ReadEntryState
<1>8. CASE WriteReserve
  BY <1>8 DEF WriteReserve, XchgState
<1>9. CASE WriteOrphan
  BY <1>9 DEF WriteOrphan
<1>10. CASE WriteAlloc
  BY <1>10 DEF WriteAlloc
<1>11. CASE WriteFailRead
  BY <1>11 DEF WriteFailRead, ReadEntryState
<1>12. CASE WriteFailState
  BY <1>12 DEF WriteFailState, XchgState
<1>13. CASE WriteFailIndex
  BY <1>13 DEF WriteFailIndex, SetIndex
<1>14. CASE WriteLink
  BY <1>14 DEF WriteLink, SetIndex
<1>15. CASE WriteFill1
  BY <1>15 DEF WriteFill1
<1>16. CASE WriteFill2
  BY <1>16 DEF WriteFill2
<1>17. CASE WriteMarkRead
  BY <1>17 DEF WriteMarkRead, ReadEntryState
<1>18. CASE WriteMark
  BY <1>18 DEF WriteMark
<1>19. CASE WriteEnd
  BY <1>19 DEF WriteEnd
<1> HIDE DEF PktTypeInv, Ranges, PktLinkInv, PktWriteInv, Kept, Linked, Goto,
             channelVars, histVars, MayReuse, WritePCs, OldPCs, GonePCs,
             MarkPCs
<1> QED BY <1>4, <1>5, <1>6, <1>7, <1>8, <1>9, <1>10, <1>11, <1>12, <1>13,
           <1>14, <1>15, <1>16, <1>17, <1>18, <1>19 DEF WriteStep

\* The writer reserves no buffer that has been given up and not freed.
LEMMA PktWriterGivesUp ==
  ASSUME PktTypeInv, NEW b \in Buffers, magic_num[b] = "MAGIC",
         WriteBegin \/ WriteStep
  PROVE  magic_num'[b] = "MAGIC"
<1>1. W \in Procs /\ \A r \in Readers : r \in Procs /\ r # W
  BY StateAssumption DEF W, Procs
<1>2. /\ NoBuffer \notin Buffers /\ 0 \in Buffers
      /\ \A n \in Buffers : n + 1 < NBuffers => n + 1 \in Buffers
  BY StateAssumption DEF NoBuffer, Buffers
<1> USE <1>1, <1>2
<1> USE DEF PktTypeInv, channelVars, histVars
<1>3. CASE WriteBegin
  BY <1>3 DEF WriteBegin
<1>4. CASE WriteReadState
  BY <1>4 DEF WriteReadState, ReadEntryState
<1>5. CASE WriteReadIndex
  BY <1>5 DEF WriteReadIndex
<1>6. CASE WriteReserveRead
  BY <1>6 DEF WriteReserveRead, ReadEntryState
<1>7. CASE WriteReserve
  BY <1>7 DEF WriteReserve, XchgState
<1>8. CASE WriteOrphan
  BY <1>8 DEF WriteOrphan
<1>9. CASE WriteAlloc
  BY <1>9 DEF WriteAlloc
<1>10. CASE WriteFailRead
  BY <1>10 DEF WriteFailRead, ReadEntryState
<1>11. CASE WriteFailState
  BY <1>11 DEF WriteFailState, XchgState
<1>12. CASE WriteFailIndex
  BY <1>12 DEF WriteFailIndex, SetIndex
<1>13. CASE WriteLink
  BY <1>13 DEF WriteLink, SetIndex
<1>14. CASE WriteFill1
  BY <1>14 DEF WriteFill1
<1>15. CASE WriteFill2
  BY <1>15 DEF WriteFill2
<1>16. CASE WriteMarkRead
  BY <1>16 DEF WriteMarkRead, ReadEntryState
<1>17. CASE WriteMark
  BY <1>17 DEF WriteMark
<1>18. CASE WriteEnd
  BY <1>18 DEF WriteEnd
<1> HIDE DEF PktTypeInv, channelVars, histVars
<1> QED BY <1>3, <1>4, <1>5, <1>6, <1>7, <1>8, <1>9, <1>10, <1>11, <1>12,
           <1>13, <1>14, <1>15, <1>16, <1>17, <1>18 DEF WriteStep

-----------------------------------------------------------------------------
(* Packets: what the reader may rely on while the writer goes on.          *)

\* A reader finds the write that it looks for, and its mark, until the entry is
\* taken over.
LEMMA PktKeepsReadAt ==
  ASSUME PktTypeInv, CountInv, PktSpares, PktReadersKept, Begins \/ GoesOn \/ Ends,
         NEW r \in Readers, pc[r] \in TakePCs, NEW n \in 0 .. Now, PktReadAt(r, n)
  PROVE  PktReadAt(r, n)'
<1> DEFINE k == n \div 2
<1>0. Ranges
  BY DEF PktTypeInv
<1>1. k \in Nat /\ k <= Done /\ Now \in Nat /\ Done \in Nat /\ Done <= writes /\ n \in Nat
  BY <1>0, LooksBack
<1>2. writes \in Nat /\ writes' \in Nat /\ writes <= writes' /\ NSlots \in Nat
  BY <1>0, WriterGrows, StateAssumption
<1>3. 2 * k <= n
  BY <1>1, HalfOf
<1>4. /\ counter[r] = n % CounterMod /\ 2 * writes - n <= CounterMod - 2
      /\ seen[r] <= k /\ qindex[r] = SlotOf(k)
      /\ writes < k + NSlots /\ pc[r] # "r_index" =>
           /\ k > 0 /\ buff_index[qindex[r]] # NoBuffer
           /\ pc[r] # "r_take" => state[qindex[r]] = "RECEIVED"
           /\ pc[r] = "r_confirm" => hand[r] = buff_index[qindex[r]]
  BY DEF PktReadAt
<1> SUFFICES
      /\ counter'[r] = n % CounterMod /\ 2 * writes' - n <= CounterMod - 2
      /\ seen'[r] <= k /\ qindex'[r] = SlotOf(k)
      /\ writes' < k + NSlots /\ pc'[r] # "r_index" =>
           /\ k > 0 /\ buff_index'[qindex'[r]] # NoBuffer
           /\ pc'[r] # "r_take" => state'[qindex'[r]] = "RECEIVED"
           /\ pc'[r] = "r_confirm" => hand'[r] = buff_index'[qindex'[r]]
  BY DEF PktReadAt, SlotOf
<1> HIDE DEF k
<1>5. 2 * writes' - n <= CounterMod - 2
  <2>1. CASE Begins
    <3>1. writes - seen[r] < CounterMod \div 2 - 1 /\ writes' = writes + 1
      BY <2>1 DEF Begins, NoLap, TakePCs, RestPCs
    <3>2. CounterMod \in Nat /\ 2 * (CounterMod \div 2) = CounterMod /\ CounterMod \div 2 \in Int
      BY StateAssumption
    <3>3. seen[r] \in Nat
      BY DEF PktTypeInv
    <3> DEFINE h == CounterMod \div 2  x == seen[r]
    <3>4. writes - x < h - 1 /\ 2 * h = CounterMod /\ h \in Int /\ x \in Nat /\ x <= k
      BY <1>4, <3>1, <3>2, <3>3
    <3> HIDE DEF h, x
    <3> QED BY <1>1, <1>2, <1>3, <3>1, <3>2, <3>4
  <2>2. CASE GoesOn \/ Ends
    BY <1>4, <2>2 DEF GoesOn, Ends
  <2> QED BY <2>1, <2>2
<1>6. ASSUME writes' < k + NSlots, k > 0
      PROVE  buff_index'[SlotOf(k)] = buff_index[SlotOf(k)] /\ state'[SlotOf(k)] = state[SlotOf(k)]
  <2>1. SlotOf(k) \in Slots
    BY <1>1, SlotFacts
  <2>2. k \in 1 .. Done /\ writes - NSlots < k
    BY <1>1, <1>2, <1>6
  <2>3. CASE Begins \/ Ends
    BY <2>1, <2>3 DEF Begins, Ends, PktSpares, Spares
  <2>4. CASE GoesOn
    BY <1>0, <2>1, <2>2, <2>4, AtEntry DEF GoesOn, PktSpares, Spares
  <2> QED BY <2>3, <2>4
<1>7. writes' < k + NSlots => writes < k + NSlots
  BY <1>1, <1>2
<1> QED BY <1>4, <1>5, <1>6, <1>7 DEF PktReadersKept, ReadersKept

\* The writer leaves what the reader relies on, and the packet that it holds.
LEMMA PktWriterReads ==
  ASSUME Packet, PktTypeInv, CountInv, PktLinkInv, PktWriteInv, PktReadInv, PktSpares,
         PktReadersKept, Begins \/ GoesOn \/ Ends, WriteBegin \/ WriteStep
  PROVE  PktReadInv'
<1>1. /\ Now \in Nat /\ Now' \in Nat /\ Now <= Now'
      /\ Done \in Nat /\ Done' \in Nat /\ Done <= Done'
  BY WriterGrows DEF PktTypeInv
<1>2. ASSUME NEW r \in Readers PROVE PktReaderInv(r)'
  <2>1. seen'[r] <= Done'
    <3>1. seen[r] \in Nat /\ seen[r] <= Done /\ seen'[r] = seen[r]
      BY DEF PktTypeInv, PktReadInv, PktReaderInv, PktReadersKept, ReadersKept
    <3> QED BY <1>1, <3>1
  <2>2. ASSUME pc'[r] \in TakePCs PROVE \E n \in 0 .. Now' : PktReadAt(r, n)'
    <3>1. pc[r] \in TakePCs
      BY <2>2 DEF PktReadersKept, ReadersKept
    <3>2. PICK n \in 0 .. Now : PktReadAt(r, n)
      BY <3>1 DEF PktReadInv, PktReaderInv
    <3>3. PktReadAt(r, n)'
      BY <3>1, <3>2, PktKeepsReadAt
    <3>4. n \in 0 .. Now'
      BY <1>1
    <3> QED BY <3>3, <3>4
  <2>3. pc'[r] = "done" => got'[r][1] = got'[r][2] /\ got'[r][1] > 0 /\ got'[r][1] >= seen'[r]
    BY DEF PktReadInv, PktReaderInv, PktReadersKept, ReadersKept
  <2>4. pc'[r] = "f_buffer" => magic_num'[hand'[r]] = "MAGIC"
    <3>1. SUFFICES ASSUME pc[r] = "f_buffer" PROVE magic_num'[hand[r]] = "MAGIC"
      BY DEF PktReadersKept, ReadersKept
    <3>2. magic_num[hand[r]] = "MAGIC" /\ hand[r] \in Buffers
      BY <3>1 DEF PktReadInv, PktReaderInv, PktTypeInv
    <3> DEFINE b == hand[r]
    <3> HIDE DEF b
    <3>3. b \in Buffers /\ magic_num[b] = "MAGIC"
      BY <3>2 DEF b
    <3>4. magic_num'[b] = "MAGIC"
      BY <3>3, PktWriterGivesUp
    <3> QED BY <3>4 DEF b
  <2>5. ASSUME held'[r] # <<>> PROVE pc'[r] \in RestPCs /\ Holds(r)'
    <3>1. held' = held /\ pc'[r] = pc[r] /\ held[r] # <<>>
      BY <2>5 DEF PktReadersKept, ReadersKept
    <3>2. pc[r] \in RestPCs /\ Holds(r)
      BY <3>1 DEF PktReadInv, PktReaderInv
    <3>3. PICK b \in Buffers : held[r] = << <<b, buff[b]>> >> /\ Kept(b)
      BY <3>2 DEF Holds
    <3>4. Kept(b)' /\ buff'[b] = buff[b]
      BY <3>3, PktWriterKeeps
    <3> QED BY <3>1, <3>2, <3>3, <3>4 DEF Holds
  <2> QED BY <2>1, <2>2, <2>3, <2>4, <2>5 DEF PktReaderInv
<1> QED BY <1>2 DEF PktReadInv

-----------------------------------------------------------------------------
(* Packets: the steps of the reader.                                       *)

\* The reader frees only buffers that have been given up, changes the states of
\* entries, and parent, which nothing here relies on.
PktOthersKept(r) ==
  /\ update_counter' = update_counter /\ buff_index' = buff_index /\ buff' = buff
  /\ writes' = writes /\ stored' = stored /\ failed' = failed
  /\ \A b \in Buffers : magic_num[b] = "RESERVED" => magic_num'[b] = "RESERVED"
  /\ pc'[W] = pc[W] /\ counter'[W] = counter[W] /\ qindex'[W] = qindex[W]
  /\ hand'[W] = hand[W] /\ oldindex'[W] = oldindex[W]

\* The one packet of a sequence taken out of it.
LEMMA OneRemoved ==
  ASSUME NEW x
  PROVE  /\ Len(<<x>>) = 1 /\ <<x>>[1] = x /\ <<x>> # <<>>
         /\ SubSeq(<<x>>, 1, 0) \o SubSeq(<<x>>, 2, 1) = <<>>
<1> DEFINE s == <<x>>  u == SubSeq(s, 1, 0)  v == SubSeq(s, 2, 1)
<1>1. s \in Seq({x}) /\ Len(s) = 1 /\ s[1] = x /\ s # <<>>
  OBVIOUS
<1> HIDE DEF s
<1>2. u \in Seq({x}) /\ Len(u) = 0
  BY <1>1
<1>3. v \in Seq({x}) /\ Len(v) = 0
  BY <1>1
<1> HIDE DEF u, v
<1>4. u \o v \in Seq({x}) /\ Len(u \o v) = 0
  BY <1>2, <1>3
<1>5. u \o v = <<>>
  BY <1>4
<1> QED BY <1>1, <1>5 DEF s, u, v

\* What mcapi_trans_pktchan_free does to the packet that is held.
LEMMA PktFreed ==
  ASSUME PktTypeInv, NEW r \in Readers, PktReaderInv(r), PktFree(r)
  PROVE  \E b \in Buffers :
           /\ held[r][1][1] = b /\ Kept(b) /\ pc[r] \in RestPCs
           /\ hand' = [hand EXCEPT ![r] = b]
           /\ pc' = [pc EXCEPT ![r] = IF magic_num[b] = "MAGIC" THEN "f_buffer" ELSE "f_parent"]
           /\ DOMAIN held' = Readers /\ held'[r] = <<>>
           /\ UNCHANGED <<channelVars, counter, qindex, oldbstate, oldindex, got, histVars>>
<1>1. PICK i \in 1 .. Len(held[r]) :
        /\ pc[r] \in RestPCs
        /\ pc' = [pc EXCEPT ![r] = IF magic_num[held[r][i][1]] = "MAGIC" THEN "f_buffer" ELSE "f_parent"]
        /\ hand' = [hand EXCEPT ![r] = held[r][i][1]]
        /\ held' = [held EXCEPT ![r] = SubSeq(@, 1, i - 1) \o SubSeq(@, i + 1, Len(@))]
        /\ UNCHANGED <<channelVars, counter, qindex, oldbstate, oldindex, got, histVars>>
  BY DEF PktFree
<1>2. held[r] # <<>>
  BY <1>1
<1>3. PICK b \in Buffers : held[r] = << <<b, buff[b]>> >> /\ Kept(b)
  BY <1>2 DEF PktReaderInv, Holds
<1> DEFINE x == <<b, buff[b]>>
<1>4. held[r] = <<x>> /\ x[1] = b
  BY <1>3
<1> HIDE DEF x
<1>5. Len(held[r]) = 1 /\ held[r][1] = x
  BY <1>4, OneRemoved
<1>6. i = 1
  BY <1>1, <1>5
<1>7. held' = [held EXCEPT ![r] = SubSeq(<<x>>, 1, 0) \o SubSeq(<<x>>, 2, 1)]
  BY <1>1, <1>4, <1>5, <1>6
<1>8. held' = [held EXCEPT ![r] = <<>>]
  BY <1>7, OneRemoved
<1>9. DOMAIN held' = Readers /\ held'[r] = <<>>
  BY <1>8 DEF PktTypeInv
<1>10. held[r][i][1] = b /\ held[r][1][1] = b
  BY <1>4, <1>5, <1>6
<1> WITNESS b \in Buffers
<1> QED BY <1>1, <1>3, <1>9, <1>10

\* The reader keeps the ranges, and leaves alone what the writer uses.
LEMMA PktReaderTypes ==
  ASSUME Packet, PktTypeInv, NEW r \in Readers, PktReaderInv(r), OneAtATime,
         pc[r] \in TakePCs => qindex[r] \in Slots,
         Read(r) \/ ReadStep(r) \/ PktFree(r)
  PROVE  PktTypeInv' /\ PktOthersKept(r)
<1>1. W \in Procs /\ \A q \in Readers : q \in Procs /\ q # W /\ q = r
  BY StateAssumption DEF W, Procs, OneAtATime
<1>2. NoBuffer \notin Buffers /\ 0 \in Buffers
  BY StateAssumption DEF NoBuffer, Buffers
<1>3. stored \in Nat /\ hand[r] \in Buffers
  BY DEF PktTypeInv, Ranges
<1>4. pc[r] = "f_buffer" => magic_num[hand[r]] = "MAGIC"
  BY DEF PktReaderInv
<1> USE <1>1, <1>2, <1>3
<1> USE DEF PktTypeInv, Ranges, PktOthersKept, TakePCs, RestPCs, Goto, channelVars, histVars
<1>5. CASE Read(r)
  BY <1>5 DEF Read
<1>6. CASE ReadCounter(r)
  BY <1>6 DEF ReadCounter
<1>7. CASE ReadIndex(r)
  BY <1>7 DEF ReadIndex
<1>8. CASE TakeEntry(r)
  BY <1>8 DEF TakeEntry
<1>9. CASE ReadWord1(r)
  BY <1>9 DEF ReadWord1
<1>10. CASE ReadWord2(r)
  BY <1>10 DEF ReadWord2
<1>11. CASE Confirm(r)
  BY <1>11 DEF Confirm
<1>12. CASE FreeBuffer(r)
  BY <1>4, <1>12 DEF FreeBuffer
<1>13. CASE ReleaseParent(r)
  BY <1>13 DEF ReleaseParent
<1>14. CASE PktFree(r)
  BY <1>14, PktFreed
<1> HIDE DEF PktTypeInv, Ranges, PktOthersKept, TakePCs, RestPCs, Goto, channelVars, histVars
<1> QED BY <1>5, <1>6, <1>7, <1>8, <1>9, <1>10, <1>11, <1>12, <1>13, <1>14 DEF ReadStep

\* The parts that are about the writer and the entries.
LEMMA PktReaderSpares ==
  ASSUME PktTypeInv, CountInv, PktLinkInv, PktWriteInv, ContentInv, NEW r \in Readers,
         PktOthersKept(r)
  PROVE  /\ CountInv' /\ PktLinkInv' /\ PktWriteInv' /\ ContentInv'
         /\ Now' = Now /\ Done' = Done
<1>1. Now' = Now /\ Done' = Done
  BY DEF PktOthersKept, Now, Done
<1>2. CountInv'
  BY <1>1 DEF PktOthersKept, CountInv, SlotOf
<1>3. PktLinkInv'
  BY DEF PktOthersKept, PktLinkInv, PktTypeInv
<1>4. PktWriteInv'
  BY DEF PktOthersKept, PktWriteInv, PktTypeInv
<1>5. ContentInv'
  BY <1>1 DEF PktOthersKept, ContentInv, SlotOf
<1> QED BY <1>1, <1>2, <1>3, <1>4, <1>5

\* What a reader that looks relies on, spelled out.
LEMMA PktLooking ==
  ASSUME PktTypeInv, CountInv, NEW r \in Readers, PktReaderInv(r), pc[r] \in TakePCs
  PROVE  \E k \in Nat, n \in 0 .. Now :
           /\ k = n \div 2 /\ 2 * k <= n /\ n <= 2 * k + 1 /\ k <= Done
           /\ counter[r] = n % CounterMod /\ 2 * writes - n <= CounterMod - 2
           /\ seen[r] <= k /\ qindex[r] = SlotOf(k) /\ qindex[r] \in Slots
           /\ writes < k + NSlots /\ pc[r] # "r_index" =>
                /\ k > 0 /\ buff_index[qindex[r]] # NoBuffer
                /\ pc[r] # "r_take" => state[qindex[r]] = "RECEIVED"
                /\ pc[r] = "r_confirm" => hand[r] = buff_index[qindex[r]]
<1>1. PICK n \in 0 .. Now : PktReadAt(r, n)
  BY DEF PktReaderInv
<1> DEFINE k == n \div 2
<1>2. k \in Nat /\ k <= Done
  BY LooksBack DEF PktTypeInv
<1>3. n \in Nat /\ 2 * k <= n /\ n <= 2 * k + 1
  <2>1. n \in Nat
    BY LooksBack DEF PktTypeInv
  <2> QED BY <2>1, HalfOf
<1>4. SlotOf(k) \in Slots
  BY <1>2, SlotFacts
<1> WITNESS k \in Nat, n \in 0 .. Now
<1> QED BY <1>1, <1>2, <1>3, <1>4 DEF PktReadAt

\* The reader reads the counter: it looks for the newest write.
LEMMA PktOwnCounter ==
  ASSUME RingDivides, PktTypeInv, CountInv, NEW r \in Readers, PktReaderInv(r),
         Now' = Now, Done' = Done, ReadCounter(r)
  PROVE  PktReaderInv(r)'
<1>1. /\ writes \in Nat /\ Now \in Nat /\ Done \in Nat /\ Done <= writes /\ seen[r] <= Done
      /\ NSlots \in Nat /\ (pc[W] # "idle" => writes > 0) /\ seen[r] \in Nat
  <2>1. writes \in Nat /\ NSlots \in Nat /\ (pc[W] # "idle" => writes > 0) /\ seen[r] \in Nat
    BY StateAssumption DEF PktTypeInv, Ranges, CountInv
  <2>2. Now \in Nat /\ Done \in Nat /\ Done <= writes
    BY <2>1 DEF Now, Done
  <2> QED BY <2>1, <2>2 DEF PktReaderInv
<1>2. /\ pc[r] = "r_counter" /\ pc'[r] = "r_index" /\ counter'[r] = Now % CounterMod
      /\ qindex'[r] = ReadSlot(Now % CounterMod) /\ seen' = seen /\ held' = held
      /\ writes' = writes /\ buff' = buff
  BY DEF ReadCounter, PktTypeInv, Goto, CountInv, histVars, channelVars, Procs
<1>3. qindex'[r] = SlotOf(Now \div 2)
  BY <1>1, <1>2, ReadSlotIs
<1>4. Now \div 2 = Done /\ 2 * writes - Now <= CounterMod - 2
  <2>1. \A d \in Int : (2 * d) \div 2 = d /\ (2 * d + 1) \div 2 = d
    OBVIOUS
  <2>2. Done \in Int /\ (Now = 2 * Done \/ Now = 2 * Done + 1) /\ 2 * writes - Now <= 1
    BY <1>1 DEF Now, Done
  <2>3. CounterMod \in Nat /\ CounterMod > 2 * NSlots /\ NSlots \in Nat /\ NSlots > 0
    BY StateAssumption
  <2>4. CounterMod \in Nat /\ CounterMod - 2 >= 1
    BY <2>3
  <2> QED BY <1>1, <2>1, <2>2, <2>4
<1>5. PktReadAt(r, Now)'
  <2>1. 2 * writes' - Now <= CounterMod - 2 /\ seen'[r] <= Now \div 2
    BY <1>1, <1>2, <1>4
  <2> QED BY <1>2, <1>3, <2>1 DEF PktReadAt, SlotOf
<1>6. \E n \in 0 .. Now' : PktReadAt(r, n)'
  <2>1. Now \in 0 .. Now'
    BY <1>1
  <2> QED BY <1>5, <2>1
<1>7. held'[r] = <<>>
  BY <1>2 DEF PktReaderInv, RestPCs
<1> QED BY <1>1, <1>2, <1>6, <1>7 DEF PktReaderInv

\* The reader looks at the entry, marks it, and takes its buffer.
LEMMA PktOwnTake ==
  ASSUME Packet, PktTypeInv, CountInv, PktLinkInv, NEW r \in Readers, PktReaderInv(r),
         Now' = Now, Done' = Done, ReadIndex(r) \/ TakeEntry(r) \/ ReadWord1(r)
  PROVE  PktReaderInv(r)'
<1>1. /\ writes \in Nat /\ Now \in Nat /\ Done \in Nat /\ NSlots \in Nat /\ seen[r] <= Done
  <2>1. writes \in Nat /\ NSlots \in Nat /\ (pc[W] # "idle" => writes > 0)
    BY StateAssumption DEF PktTypeInv, Ranges, CountInv
  <2> QED BY <2>1 DEF Now, Done, PktReaderInv
<1>2. pc[r] \in TakePCs \ {"r_confirm"} /\ held[r] = <<>>
  BY DEF ReadIndex, TakeEntry, ReadWord1, Goto, TakePCs, RestPCs, PktReaderInv
<1>3. PICK k \in Nat, n \in 0 .. Now :
           /\ k = n \div 2 /\ 2 * k <= n /\ n <= 2 * k + 1 /\ k <= Done
           /\ counter[r] = n % CounterMod /\ 2 * writes - n <= CounterMod - 2
           /\ seen[r] <= k /\ qindex[r] = SlotOf(k) /\ qindex[r] \in Slots
           /\ writes < k + NSlots /\ pc[r] # "r_index" =>
                /\ k > 0 /\ buff_index[qindex[r]] # NoBuffer
                /\ pc[r] # "r_take" => state[qindex[r]] = "RECEIVED"
                /\ pc[r] = "r_confirm" => hand[r] = buff_index[qindex[r]]
  BY <1>2, PktLooking
<1>4. /\ r \in Procs /\ buff_index' = buff_index /\ writes' = writes /\ seen' = seen
      /\ counter' = counter /\ qindex' = qindex /\ held' = held
  BY DEF ReadIndex, TakeEntry, ReadWord1, Goto, channelVars, histVars, Procs
<1>5. pc'[r] \in TakePCs \/ pc'[r] \in {"empty", "r_counter", "abort"}
  BY <1>4 DEF ReadIndex, TakeEntry, ReadWord1, Goto, PktTypeInv, TakePCs
<1>6. ASSUME pc'[r] \in TakePCs, writes < k + NSlots
      PROVE  /\ k > 0 /\ buff_index[qindex[r]] # NoBuffer
             /\ pc'[r] # "r_take" => state'[qindex[r]] = "RECEIVED"
             /\ pc'[r] = "r_confirm" => hand'[r] = buff_index[qindex[r]]
  <2>1. CASE ReadIndex(r)
    <3>1. pc'[r] = "r_take" /\ buff_index[qindex[r]] # NoBuffer
      BY <1>4, <1>6, <2>1 DEF ReadIndex, Goto, PktTypeInv, TakePCs
    <3>2. ~ (SlotOf(k) >= writes)
      BY <1>3, <3>1 DEF PktLinkInv
    <3>3. k = 0 => SlotOf(k) = NSlots - 1
      BY SlotFacts
    <3>4. SlotOf(k) \in Nat
      BY <1>3 DEF Slots
    <3>5. k > 0
      BY <1>1, <1>3, <1>6, <3>2, <3>3, <3>4
    <3> QED BY <3>1, <3>5
  <2>2. CASE TakeEntry(r)
    <3>1. pc[r] = "r_take" /\ pc'[r] = "r_buffer" /\ state'[qindex[r]] = "RECEIVED"
      BY <1>3, <1>4, <1>6, <2>2 DEF TakeEntry, Goto, PktTypeInv, TakePCs
    <3> QED BY <1>3, <1>6, <3>1
  <2>3. CASE ReadWord1(r)
    <3>1. /\ pc[r] = "r_buffer" /\ pc'[r] = "r_confirm" /\ state' = state
          /\ buff_index[qindex[r]] # NoBuffer => hand'[r] = buff_index[qindex[r]]
      BY <1>4, <2>3 DEF ReadWord1, Goto, PktTypeInv
    <3> QED BY <1>3, <1>6, <3>1
  <2> QED BY <2>1, <2>2, <2>3
<1>7. pc'[r] \in TakePCs => PktReadAt(r, n)'
  BY <1>3, <1>4, <1>6 DEF PktReadAt, SlotOf
<1>8. pc'[r] \in TakePCs => \E m \in 0 .. Now' : PktReadAt(r, m)'
  BY <1>7
<1>9. seen'[r] <= Done' /\ held'[r] = <<>>
  BY <1>1, <1>2, <1>4
<1> QED BY <1>5, <1>8, <1>9 DEF PktReaderInv, TakePCs

\* A read that is confirmed has the buffer of the write that it looked for, and
\* the entry is marked and not the one that the writer is at.
LEMMA PktFound ==
  ASSUME RingDivides, PktTypeInv, CountInv, PktLinkInv, ContentInv, NEW r \in Readers,
         PktReaderInv(r), pc[r] = "r_confirm", Confirmed(update_counter, counter[r])
  PROVE  \E k \in Nat :
           /\ k > 0 /\ seen[r] <= k
           /\ SlotOf(k) \in Slots /\ hand[r] = buff_index[SlotOf(k)] /\ hand[r] # NoBuffer
           /\ state[SlotOf(k)] = "RECEIVED" /\ (pc[W] # "idle" => SlotOf(k) # qindex[W])
           /\ magic_num[hand[r]] = "RESERVED" /\ buff[hand[r]] = <<k, k>>
<1>1. /\ writes \in Nat /\ Now \in Nat /\ Done \in Nat /\ NSlots \in Nat
      /\ Now <= 2 * writes /\ 2 * writes <= Now + 1 /\ Done <= writes
  <2>1. writes \in Nat /\ NSlots \in Nat /\ (pc[W] # "idle" => writes > 0)
    BY StateAssumption DEF PktTypeInv, Ranges, CountInv
  <2> QED BY <2>1 DEF Now, Done
<1>2. pc[r] \in TakePCs
  BY DEF TakePCs
<1>3. PICK k \in Nat, n \in 0 .. Now :
           /\ k = n \div 2 /\ 2 * k <= n /\ n <= 2 * k + 1 /\ k <= Done
           /\ counter[r] = n % CounterMod /\ 2 * writes - n <= CounterMod - 2
           /\ seen[r] <= k /\ qindex[r] = SlotOf(k) /\ qindex[r] \in Slots
           /\ writes < k + NSlots /\ pc[r] # "r_index" =>
                /\ k > 0 /\ buff_index[qindex[r]] # NoBuffer
                /\ pc[r] # "r_take" => state[qindex[r]] = "RECEIVED"
                /\ pc[r] = "r_confirm" => hand[r] = buff_index[qindex[r]]
  BY <1>2, PktLooking
<1>4. writes < k + NSlots
  <2>1. n \in Nat /\ CounterMod \in Nat /\ n <= Now
    BY <1>1, StateAssumption
  <2>2. Now - 2 * k < CounterMod
    BY <1>1, <1>3, <2>1
  <2>3. Confirmed(Now % CounterMod, n % CounterMod) <=> Now - 2 * k <= 2 * NSlots - 2
    BY <1>1, <1>3, <2>1, <2>2, ConfirmedIs
  <2>4. Now - 2 * k <= 2 * NSlots - 2
    BY <1>3, <2>3 DEF CountInv
  <2> QED BY <1>1, <2>4
<1>5. /\ k > 0 /\ seen[r] <= k /\ SlotOf(k) \in Slots /\ hand[r] = buff_index[SlotOf(k)]
      /\ hand[r] # NoBuffer /\ state[SlotOf(k)] = "RECEIVED"
  BY <1>3, <1>4
<1>6. k \in 1 .. Done /\ writes - NSlots < k
  BY <1>1, <1>3, <1>4, <1>5
<1>7. buff[hand[r]] = <<k, k>>
  BY <1>5, <1>6 DEF ContentInv
<1>8. pc[W] # "idle" => SlotOf(k) # qindex[W]
  BY <1>6, AtEntry DEF PktTypeInv
<1>9. magic_num[hand[r]] = "RESERVED"
  <2>1. ~(SlotOf(k) = qindex[W] /\ pc[W] \in GonePCs)
    BY <1>8 DEF GonePCs
  <2> QED BY <1>5, <2>1 DEF PktLinkInv
<1> QED BY <1>5, <1>7, <1>8, <1>9

\* It is that buffer which the reader is handed.
LEMMA PktOwnConfirm ==
  ASSUME Packet, RingDivides, PktTypeInv, CountInv, PktLinkInv, ContentInv,
         NEW r \in Readers, PktReaderInv(r), Done' = Done, Confirm(r)
  PROVE  PktReaderInv(r)'
<1>1. seen[r] <= Done /\ pc[r] = "r_confirm" /\ held[r] = <<>>
  BY DEF Confirm, Goto, RestPCs, PktReaderInv
<1> DEFINE ok == Confirmed(update_counter, counter[r])
<1>2. /\ seen' = seen /\ channelVars' = channelVars
      /\ pc'[r] = (IF ok THEN "done" ELSE "r_counter")
      /\ got'[r] = buff[hand[r]]
      /\ ok => held'[r] = Append(held[r], <<hand[r], buff[hand[r]]>>)
      /\ ~ok => held'[r] = held[r]
      /\ qindex' = qindex /\ oldbstate' = oldbstate
      /\ W # r => pc'[W] = pc[W]
  BY DEF Confirm, Goto, PktTypeInv, channelVars, histVars, Procs, W
<1>3. pc'[r] \notin TakePCs /\ pc'[r] # "f_buffer" /\ (pc'[r] = "done" => ok)
      /\ (ok => pc'[r] \in RestPCs)
  BY <1>2 DEF TakePCs, RestPCs
<1>4. ASSUME ok
      PROVE  Holds(r)' /\ got'[r][1] = got'[r][2] /\ got'[r][1] > 0 /\ got'[r][1] >= seen'[r]
  <2>1. PICK k \in Nat :
           /\ k > 0 /\ seen[r] <= k
           /\ SlotOf(k) \in Slots /\ hand[r] = buff_index[SlotOf(k)] /\ hand[r] # NoBuffer
           /\ state[SlotOf(k)] = "RECEIVED" /\ (pc[W] # "idle" => SlotOf(k) # qindex[W])
           /\ magic_num[hand[r]] = "RESERVED" /\ buff[hand[r]] = <<k, k>>
    BY <1>1, <1>4, PktFound
  <2>2. PICK b \in Buffers : b = hand[r]
    BY DEF PktTypeInv
  <2>3. PICK s \in Slots : s = SlotOf(k)
    BY <2>1
  <2>4. /\ W # r /\ pc'[W] = pc[W] /\ qindex' = qindex /\ oldbstate' = oldbstate
        /\ buff_index' = buff_index /\ state' = state /\ magic_num' = magic_num /\ buff' = buff
    BY <1>2, StateAssumption DEF channelVars, W
  <2>5. buff_index[s] = b /\ state[s] = "RECEIVED" /\ (pc[W] # "idle" => s # qindex[W])
    BY <2>1, <2>2, <2>3
  <2>6. Linked(b, s)'
    BY <2>4, <2>5 DEF Linked
  <2>7. Kept(b)'
    BY <2>1, <2>2, <2>4, <2>6 DEF Kept
  <2>8. held'[r] = << <<b, buff[b]>> >>
    BY <1>1, <1>2, <1>4, <2>2
  <2>9. Holds(r)'
    BY <2>4, <2>7, <2>8 DEF Holds
  <2>10. got'[r] = <<k, k>> /\ k >= seen'[r] /\ seen[r] \in Nat
    BY <1>2, <2>1 DEF PktTypeInv
  <2> QED BY <2>1, <2>9, <2>10
<1>5. held'[r] # <<>> => ok
  BY <1>1, <1>2
<1>6. seen'[r] <= Done'
  BY <1>1, <1>2
<1> HIDE DEF ok
<1> QED BY <1>3, <1>4, <1>5, <1>6 DEF PktReaderInv

\* What the reader relies on, and what it holds, after its own step.
LEMMA PktReaderOwn ==
  ASSUME Packet, OneAtATime, RingDivides, PktTypeInv, CountInv, PktLinkInv, ContentInv,
         NEW r \in Readers, PktReaderInv(r), Now' = Now, Done' = Done,
         Read(r) \/ ReadStep(r) \/ PktFree(r)
  PROVE  PktReaderInv(r)'
<1>1. r \in Procs /\ seen[r] <= Done
  BY DEF Procs, PktReaderInv
<1>2. CASE Read(r)
  <2>1. /\ pc'[r] = "r_counter" /\ seen'[r] = stored /\ held' = held
    BY <1>1, <1>2 DEF Read, PktTypeInv
  <2>2. held[r] = <<>>
    <3>1. Len(held[r]) < 1
      BY <1>2 DEF Read, OneAtATime
    <3>2. ASSUME held[r] # <<>> PROVE FALSE
      <4>1. PICK b \in Buffers : held[r] = << <<b, buff[b]>> >>
        BY <3>2 DEF PktReaderInv, Holds
      <4>2. Len(held[r]) = 1
        BY <4>1, OneRemoved
      <4> QED BY <3>1, <4>2
    <3> QED BY <3>2
  <2>3. seen'[r] <= Done'
    BY <2>1 DEF CountInv
  <2> QED BY <2>1, <2>2, <2>3 DEF PktReaderInv, TakePCs
<1>3. CASE ReadWord2(r)
  BY <1>3 DEF ReadWord2, Goto, PktTypeInv, RestPCs, TakePCs
<1>4. CASE FreeBuffer(r) \/ ReleaseParent(r)
  <2>1. pc[r] \in {"f_buffer", "f_parent"} /\ pc'[r] = "idle" /\ held' = held /\ seen' = seen
    BY <1>1, <1>4 DEF FreeBuffer, ReleaseParent, Goto, PktTypeInv, histVars
  <2>2. held[r] = <<>>
    BY <2>1 DEF PktReaderInv, RestPCs
  <2> QED BY <1>1, <2>1, <2>2 DEF PktReaderInv, TakePCs
<1>5. CASE PktFree(r)
  <2>1. PICK b \in Buffers :
           /\ held[r][1][1] = b /\ Kept(b) /\ pc[r] \in RestPCs
           /\ hand' = [hand EXCEPT ![r] = b]
           /\ pc' = [pc EXCEPT ![r] = IF magic_num[b] = "MAGIC" THEN "f_buffer" ELSE "f_parent"]
           /\ DOMAIN held' = Readers /\ held'[r] = <<>>
           /\ UNCHANGED <<channelVars, counter, qindex, oldbstate, oldindex, got, histVars>>
    BY <1>5, PktFreed
  <2>2. /\ pc'[r] = (IF magic_num[b] = "MAGIC" THEN "f_buffer" ELSE "f_parent")
        /\ hand'[r] = b /\ magic_num' = magic_num /\ seen' = seen
    BY <1>1, <2>1 DEF PktTypeInv, channelVars, histVars
  <2> QED BY <1>1, <2>1, <2>2 DEF PktReaderInv, TakePCs
<1> QED BY <1>2, <1>3, <1>4, <1>5, PktOwnCounter, PktOwnTake, PktOwnConfirm DEF ReadStep

-----------------------------------------------------------------------------
(* Packets: the invariant holds, and what it says.                         *)

\* It holds at first.
LEMMA PktInit ==
  ASSUME Packet, Init
  PROVE  PktInv
<1>1. W \in Procs /\ 0 \in Buffers /\ NSlots \in Nat /\ NSlots > 0 /\ CounterMod \in Nat
      /\ CounterMod > 0
  BY StateAssumption DEF W, Procs, Buffers
<1>2. Now = 0 /\ Done = 0 /\ 0 % CounterMod = 0
  <2>1. 0 % CounterMod = 0
    <3>1. 0 \in 0 .. CounterMod - 1
      BY <1>1
    <3> QED BY <1>1, <3>1, ModSmall
  <2> QED BY <1>1, <2>1 DEF Init, Now, Done
<1>3. PICK busy \in SUBSET Buffers :
        magic_num = [b \in Buffers |-> IF b \in busy THEN "RESERVED" ELSE "0"]
  BY DEF Init
<1>4. PktTypeInv
  BY <1>1, <1>3 DEF Init, PktTypeInv, Ranges, WritePCs, RestPCs, Procs
<1>5. CountInv
  BY <1>1, <1>2 DEF Init, CountInv
<1>6. PktLinkInv
  BY <1>1 DEF Init, PktLinkInv, Slots
<1>7. PktWriteInv
  BY <1>1 DEF Init, PktWriteInv, OldPCs, MarkPCs
<1>8. ContentInv
  BY <1>2 DEF ContentInv
<1>9. PktReadInv
  <2>1. \A r \in Readers : seen[r] = 0 /\ pc[r] = "idle" /\ held[r] = <<>>
    BY DEF Init, Procs
  <2> QED BY <1>2, <2>1 DEF PktReadInv, PktReaderInv, TakePCs
<1> QED BY <1>4, <1>5, <1>6, <1>7, <1>8, <1>9 DEF PktInv

\* A step of the writer keeps it.
LEMMA PktWriterStep ==
  ASSUME Packet, RingDivides, PktInv, WriteBegin \/ WriteStep
  PROVE  PktInv'
<1>1. PktTypeInv /\ CountInv /\ PktLinkInv /\ PktWriteInv /\ ContentInv /\ PktReadInv
  BY DEF PktInv
<1>2. PktTypeInv' /\ PktReadersKept
  BY <1>1, PktWriterTypes
<1>3. Begins \/ GoesOn \/ Ends
  BY <1>1, PktWriterProgress
<1>4. PktSpares
  BY <1>1, PktWriterSpares
<1>5. Ranges /\ Ranges'
  BY <1>1, <1>2 DEF PktTypeInv
<1>6. CountInv'
  BY <1>1, <1>3, <1>5, WriterCounts
<1>7. PktLinkInv' /\ PktWriteInv'
  BY <1>1, PktWriterLinks, PktWriterWorks
<1>8. ContentInv'
  <2>1. Ends => \/ buff_index[qindex[W]] = NoBuffer
                \/ buff[buff_index[qindex[W]]] = <<writes, writes>>
    BY <1>1 DEF Ends, PktWriteInv, MarkPCs
  <2> QED BY <1>1, <1>3, <1>4, <1>5, <2>1, WriterContents DEF PktSpares
<1>9. PktReadInv'
  BY <1>1, <1>2, <1>3, <1>4, PktWriterReads
<1> QED BY <1>2, <1>6, <1>7, <1>8, <1>9 DEF PktInv

\* A step of the reader keeps it.
LEMMA PktReaderStep ==
  ASSUME Packet, OneAtATime, RingDivides, PktInv, NEW r \in Readers,
         Read(r) \/ ReadStep(r) \/ PktFree(r)
  PROVE  PktInv'
<1>1. PktTypeInv /\ CountInv /\ PktLinkInv /\ PktWriteInv /\ ContentInv /\ PktReaderInv(r)
  BY DEF PktInv, PktReadInv
<1>2. pc[r] \in TakePCs => qindex[r] \in Slots
  BY <1>1, PktLooking
<1>3. PktTypeInv' /\ PktOthersKept(r)
  BY <1>1, <1>2, PktReaderTypes
<1>4. CountInv' /\ PktLinkInv' /\ PktWriteInv' /\ ContentInv' /\ Now' = Now /\ Done' = Done
  BY <1>1, <1>3, PktReaderSpares
<1>5. PktReaderInv(r)'
  BY <1>1, <1>4, PktReaderOwn
<1>6. PktReadInv'
  BY <1>5 DEF PktReadInv, OneAtATime
<1> QED BY <1>3, <1>4, <1>6 DEF PktInv

\* So does every step.
LEMMA PktInductive ==
  ASSUME Packet, OneAtATime, RingDivides, PktInv, [Next]_vars
  PROVE  PktInv'
<1>1. CASE UNCHANGED vars
  <2> USE <1>1 DEF vars, channelVars, localVars, histVars
  <2>1. Now' = Now /\ Done' = Done
    BY DEF Now, Done
  <2>2. PktTypeInv' <=> PktTypeInv
    BY DEF PktTypeInv, Ranges
  <2>3. CountInv' <=> CountInv
    BY <2>1 DEF CountInv, SlotOf
  <2>4. PktLinkInv' <=> PktLinkInv
    BY DEF PktLinkInv
  <2>5. PktWriteInv' <=> PktWriteInv
    BY DEF PktWriteInv
  <2>6. ContentInv' <=> ContentInv
    BY <2>1 DEF ContentInv, SlotOf
  <2>7. PktReadInv' <=> PktReadInv
    <3>1. \A r \in Readers : \A n : PktReadAt(r, n)' <=> PktReadAt(r, n)
      BY DEF PktReadAt, SlotOf
    <3>2. \A r \in Readers : Holds(r)' <=> Holds(r)
      BY DEF Holds, Kept, Linked
    <3> QED BY <2>1, <3>1, <3>2 DEF PktReadInv, PktReaderInv
  <2> QED BY <2>2, <2>3, <2>4, <2>5, <2>6, <2>7 DEF PktInv
<1>2. CASE WriteBegin \/ WriteStep
  BY <1>2, PktWriterStep
<1>3. CASE \E r \in Readers : Read(r) \/ ReadStep(r) \/ PktFree(r)
  BY <1>3, PktReaderStep
<1> QED BY <1>1, <1>2, <1>3 DEF Next

\* The invariant of a state-message channel that hands its buffers out, for any
\* number of entries and buffers, any buffers that others use, and any counter
\* width that the number of entries divides.
THEOREM PacketInvariant == Packet /\ OneAtATime /\ RingDivides => (Spec => []PktInv)
<1> SUFFICES ASSUME Packet, OneAtATime, RingDivides PROVE Spec => []PktInv
  OBVIOUS
<1>1. Init => PktInv
  BY PktInit
<1>2. PktInv /\ [Next]_vars => PktInv'
  BY PktInductive
<1> QED BY <1>1, <1>2, PTL DEF Spec

\* The packet that mcapi_trans_recv_state hands to the application keeps its
\* payload until mcapi_trans_pktchan_free: the writer that comes to the entry
\* replaces its buffer.
THEOREM PacketIntact == Packet /\ OneAtATime /\ RingDivides => (Spec => []HeldPacketIntact)
<1> SUFFICES ASSUME Packet, OneAtATime, RingDivides PROVE Spec => []HeldPacketIntact
  OBVIOUS
<1>1. Spec => []PktInv
  BY PacketInvariant
<1>2. PktInv => HeldPacketIntact
  <2> SUFFICES ASSUME PktInv, NEW r \in Readers, NEW i \in 1 .. Len(held[r])
               PROVE  buff[held[r][i][1]] = held[r][i][2]
    BY DEF HeldPacketIntact
  <2>1. held[r] # <<>>
    OBVIOUS
  <2>2. PICK b \in Buffers : held[r] = << <<b, buff[b]>> >>
    BY <2>1 DEF PktInv, PktReadInv, PktReaderInv, Holds
  <2> DEFINE x == <<b, buff[b]>>
  <2>3. held[r] = <<x>> /\ x[1] = b /\ x[2] = buff[b]
    BY <2>2
  <2> HIDE DEF x
  <2>4. held[r][1] = x /\ i = 1
    BY <2>3, OneRemoved
  <2> QED BY <2>3, <2>4
<1> QED BY <1>1, <1>2, PTL

\* A receive that succeeds returns a write at least as new as the newest that was
\* complete when the call began.
PacketNewest == \A r \in Readers : pc[r] = "done" => got[r][1] >= seen[r]

\* What mcapi_trans_recv_state hands out as a packet is one whole write, and the
\* newest that was complete when the call began or a later one.
THEOREM PacketWhole ==
  Packet /\ OneAtATime /\ RingDivides => (Spec => [](ReadUncorrupted /\ PacketNewest))
<1> SUFFICES ASSUME Packet, OneAtATime, RingDivides
             PROVE  Spec => [](ReadUncorrupted /\ PacketNewest)
  OBVIOUS
<1>1. Spec => []PktInv
  BY PacketInvariant
<1>2. PktInv => ReadUncorrupted /\ PacketNewest
  BY DEF PktInv, PktReadInv, PktReaderInv, ReadUncorrupted, PacketNewest
<1> QED BY <1>1, <1>2, PTL

-----------------------------------------------------------------------------
(* Packets: the asserts, as long as the pool lasts.                        *)

\* The writer finds a buffer when it needs one.
PoolLasts == pc[W] # "w_fail"

\* A packet b that the reader holds, or is freeing: the entry that it came from
\* has the mark as long as the writer has not replaced the buffer, and not after.
Releasing(b) ==
  LET s == parent[b] IN
  /\ Kept(b) /\ s \in Slots
  /\ magic_num[b] = "MAGIC" \/ (pc[W] = "w_orphan" /\ qindex[W] = s) => state[s] # "RECEIVED"

\* An entry with a buffer, or about to have one, is not free.
BusyInv ==
  /\ \A s \in Slots : state[s] \in EntryStates
  /\ \A s \in Slots : buff_index[s] # NoBuffer => state[s] # "FREE"
  /\ pc[W] \in {"w_alloc", "w_link"} => state[qindex[W]] # "FREE"
  /\ pc[W] = "w_new_cas" /\ state[qindex[W]] = "FREE" => oldbstate[W] = "FREE"
  /\ pc[W] = "w_mark_cas" => oldbstate[W] \in {"ALLOCATED", state[qindex[W]]}

\* A buffer has the entry that it is linked to as its parent.
ParentInv ==
  /\ DOMAIN parent = Buffers
  /\ \A s \in Slots : buff_index[s] # NoBuffer /\ ~(s = qindex[W] /\ pc[W] = "w_fill") =>
       parent[buff_index[s]] = s
  /\ \A b \in Buffers : magic_num[b] = "MAGIC" => parent[b] \in Slots

\* A reader past its look at the buffer index is at an entry with a buffer, and
\* frees a buffer that nobody writes to.
TakeAt(r) ==
  /\ pc[r] \in {"r_take", "r_buffer"} => buff_index[qindex[r]] # NoBuffer
  /\ pc[r] = "f_parent" => Releasing(hand[r])
  /\ held[r] # <<>> => Releasing(held[r][1][1])
TakeInv == \A r \in Readers : TakeAt(r)

\* The asserts hold, and what that rests on besides PktInv.
AssertInv ==
  /\ pc[W] \notin FailPCs /\ NoAssertFails
  /\ BusyInv /\ ParentInv /\ TakeInv

-----------------------------------------------------------------------------
(* The asserts of packets: the steps of the writer.                        *)

\* The writer gives an entry a buffer only when the entry is reserved.
LEMMA PktWriterBusy ==
  ASSUME Packet, PktTypeInv, CountInv, PktLinkInv, PktWriteInv, BusyInv,
         pc[W] \notin FailPCs, pc'[W] # "w_fail",
         WriteBegin \/ WriteStep
  PROVE  BusyInv' /\ pc'[W] \notin FailPCs
<1>1. W \in Procs /\ \A r \in Readers : r \in Procs /\ r # W
  BY StateAssumption DEF W, Procs
<1>2. /\ NoBuffer \notin Buffers /\ 0 \in Buffers
      /\ \A n \in Buffers : n + 1 < NBuffers => n + 1 \in Buffers
  BY StateAssumption DEF NoBuffer, Buffers
<1>3. pc[W] # "idle" => /\ qindex[W] \in Slots /\ qindex[W] < writes /\ writes > 0
                        /\ writes <= NSlots => qindex[W] = writes - 1
  BY AtEntry DEF CountInv, PktTypeInv
<1> USE <1>1, <1>2, <1>3
<1> USE DEF PktTypeInv, PktLinkInv, PktWriteInv, Goto, channelVars, histVars,
            MayReuse, WritePCs, OldPCs, GonePCs, MarkPCs, BusyInv,
            EntryStates, FailPCs
<1>4. CASE WriteBegin
  BY <1>4 DEF WriteBegin
<1>5. CASE WriteReadState
  BY <1>5 DEF WriteReadState, ReadEntryState
<1>6. CASE WriteReadIndex
  BY <1>6 DEF WriteReadIndex
<1>7. CASE WriteReserveRead
  BY <1>7 DEF WriteReserveRead, ReadEntryState
<1>8. CASE WriteReserve
  BY <1>8 DEF WriteReserve, XchgState
<1>9. CASE WriteOrphan
  BY <1>9 DEF WriteOrphan
<1>10. CASE WriteAlloc
  BY <1>10 DEF WriteAlloc
<1>11. CASE WriteFailRead
  BY <1>11 DEF WriteFailRead, ReadEntryState
<1>12. CASE WriteFailState
  BY <1>12 DEF WriteFailState, XchgState
<1>13. CASE WriteFailIndex
  BY <1>13 DEF WriteFailIndex, SetIndex
<1>14. CASE WriteLink
  BY <1>14 DEF WriteLink, SetIndex
<1>15. CASE WriteFill1
  BY <1>15 DEF WriteFill1
<1>16. CASE WriteFill2
  BY <1>16 DEF WriteFill2
<1>17. CASE WriteMarkRead
  BY <1>17 DEF WriteMarkRead, ReadEntryState
<1>18. CASE WriteMark
  BY <1>18 DEF WriteMark
<1>19. CASE WriteEnd
  BY <1>19 DEF WriteEnd
<1> HIDE DEF PktTypeInv, PktLinkInv, PktWriteInv, Goto, channelVars, histVars,
             MayReuse, WritePCs, OldPCs, GonePCs, MarkPCs, BusyInv,
             EntryStates, FailPCs
<1> QED BY <1>4, <1>5, <1>6, <1>7, <1>8, <1>9, <1>10, <1>11, <1>12, <1>13,
           <1>14, <1>15, <1>16, <1>17, <1>18, <1>19 DEF WriteStep

\* The writer's asserts hold.
LEMMA PktWriterAsserts ==
  ASSUME Packet, PktTypeInv, CountInv, PktLinkInv, PktWriteInv, BusyInv,
         NoAssertFails,
         WriteBegin \/ WriteStep
  PROVE  NoAssertFails'
<1>1. W \in Procs /\ \A r \in Readers : r \in Procs /\ r # W
  BY StateAssumption DEF W, Procs
<1>2. /\ NoBuffer \notin Buffers /\ 0 \in Buffers
      /\ \A n \in Buffers : n + 1 < NBuffers => n + 1 \in Buffers
  BY StateAssumption DEF NoBuffer, Buffers
<1>3. pc[W] # "idle" => /\ qindex[W] \in Slots /\ qindex[W] < writes /\ writes > 0
                        /\ writes <= NSlots => qindex[W] = writes - 1
  BY AtEntry DEF CountInv, PktTypeInv
<1>4. pc[W] # "idle" => counter[W] = update_counter
  BY DEF CountInv
<1> USE <1>1, <1>2, <1>3, <1>4
<1> USE DEF PktTypeInv, PktLinkInv, PktWriteInv, Goto, channelVars, histVars,
            MayReuse, WritePCs, OldPCs, GonePCs, MarkPCs, BusyInv,
            NoAssertFails, Procs
<1>5. CASE WriteBegin
  BY <1>5 DEF WriteBegin
<1>6. CASE WriteReadState
  BY <1>6 DEF WriteReadState, ReadEntryState
<1>7. CASE WriteReadIndex
  BY <1>7 DEF WriteReadIndex
<1>8. CASE WriteReserveRead
  BY <1>8 DEF WriteReserveRead, ReadEntryState
<1>9. CASE WriteReserve
  BY <1>9 DEF WriteReserve, XchgState
<1>10. CASE WriteOrphan
  BY <1>10 DEF WriteOrphan
<1>11. CASE WriteAlloc
  BY <1>11 DEF WriteAlloc
<1>12. CASE WriteFailRead
  BY <1>12 DEF WriteFailRead, ReadEntryState
<1>13. CASE WriteFailState
  BY <1>13 DEF WriteFailState, XchgState
<1>14. CASE WriteFailIndex
  BY <1>14 DEF WriteFailIndex, SetIndex
<1>15. CASE WriteLink
  BY <1>15 DEF WriteLink, SetIndex
<1>16. CASE WriteFill1
  BY <1>16 DEF WriteFill1
<1>17. CASE WriteFill2
  BY <1>17 DEF WriteFill2
<1>18. CASE WriteMarkRead
  BY <1>18 DEF WriteMarkRead, ReadEntryState
<1>19. CASE WriteMark
  BY <1>19 DEF WriteMark
<1>20. CASE WriteEnd
  BY <1>20 DEF WriteEnd
<1> HIDE DEF PktTypeInv, PktLinkInv, PktWriteInv, Goto, channelVars, histVars,
             MayReuse, WritePCs, OldPCs, GonePCs, MarkPCs, BusyInv,
             NoAssertFails, Procs
<1> QED BY <1>5, <1>6, <1>7, <1>8, <1>9, <1>10, <1>11, <1>12, <1>13, <1>14,
           <1>15, <1>16, <1>17, <1>18, <1>19, <1>20 DEF WriteStep

\* The writer sets the parent of the buffer that it fills.
LEMMA PktWriterParents ==
  ASSUME Packet, PktTypeInv, CountInv, PktLinkInv, PktWriteInv, ParentInv,
         pc[W] \notin FailPCs,
         WriteBegin \/ WriteStep
  PROVE  ParentInv'
<1>1. W \in Procs /\ \A r \in Readers : r \in Procs /\ r # W
  BY StateAssumption DEF W, Procs
<1>2. /\ NoBuffer \notin Buffers /\ 0 \in Buffers
      /\ \A n \in Buffers : n + 1 < NBuffers => n + 1 \in Buffers
  BY StateAssumption DEF NoBuffer, Buffers
<1>3. pc[W] # "idle" => /\ qindex[W] \in Slots /\ qindex[W] < writes /\ writes > 0
                        /\ writes <= NSlots => qindex[W] = writes - 1
  BY AtEntry DEF CountInv, PktTypeInv
<1> USE <1>1, <1>2, <1>3
<1> USE DEF PktTypeInv, PktLinkInv, PktWriteInv, Goto, channelVars, histVars,
            MayReuse, WritePCs, OldPCs, GonePCs, MarkPCs, ParentInv
<1>4. CASE WriteBegin
  BY <1>4 DEF WriteBegin
<1>5. CASE WriteReadState
  BY <1>5 DEF WriteReadState, ReadEntryState
<1>6. CASE WriteReadIndex
  BY <1>6 DEF WriteReadIndex
<1>7. CASE WriteReserveRead
  BY <1>7 DEF WriteReserveRead, ReadEntryState
<1>8. CASE WriteReserve
  BY <1>8 DEF WriteReserve, XchgState
<1>9. CASE WriteOrphan
  BY <1>9 DEF WriteOrphan
<1>10. CASE WriteAlloc
  BY <1>10 DEF WriteAlloc
<1>11. CASE WriteFailRead
  BY <1>11 DEF WriteFailRead, ReadEntryState
<1>12. CASE WriteFailState
  BY <1>12 DEF WriteFailState, XchgState
<1>13. CASE WriteFailIndex
  BY <1>13 DEF WriteFailIndex, SetIndex
<1>14. CASE WriteLink
  BY <1>14 DEF WriteLink, SetIndex
<1>15. CASE WriteFill1
  BY <1>15 DEF WriteFill1
<1>16. CASE WriteFill2
  BY <1>16 DEF WriteFill2
<1>17. CASE WriteMarkRead
  BY <1>17 DEF WriteMarkRead, ReadEntryState
<1>18. CASE WriteMark
  BY <1>18 DEF WriteMark
<1>19. CASE WriteEnd
  BY <1>19 DEF WriteEnd
<1> HIDE DEF PktTypeInv, PktLinkInv, PktWriteInv, Goto, channelVars, histVars,
             MayReuse, WritePCs, OldPCs, GonePCs, MarkPCs, ParentInv
<1> QED BY <1>4, <1>5, <1>6, <1>7, <1>8, <1>9, <1>10, <1>11, <1>12, <1>13,
           <1>14, <1>15, <1>16, <1>17, <1>18, <1>19 DEF WriteStep

\* A buffer that nobody writes to keeps its parent, and the entry the mark.
LEMMA PktWriterReleases ==
  ASSUME Packet, PktTypeInv, CountInv, PktLinkInv, PktWriteInv, ParentInv,
         NEW b \in Buffers, Releasing(b), Kept(b)',
         WriteBegin \/ WriteStep
  PROVE  Releasing(b)'
<1>1. W \in Procs /\ \A r \in Readers : r \in Procs /\ r # W
  BY StateAssumption DEF W, Procs
<1>2. /\ NoBuffer \notin Buffers /\ 0 \in Buffers
      /\ \A n \in Buffers : n + 1 < NBuffers => n + 1 \in Buffers
  BY StateAssumption DEF NoBuffer, Buffers
<1>3. pc[W] # "idle" => /\ qindex[W] \in Slots /\ qindex[W] < writes /\ writes > 0
                        /\ writes <= NSlots => qindex[W] = writes - 1
  BY AtEntry DEF CountInv, PktTypeInv
<1> USE <1>1, <1>2, <1>3
<1> USE DEF PktTypeInv, PktLinkInv, PktWriteInv, Goto, channelVars, histVars,
            MayReuse, WritePCs, OldPCs, GonePCs, MarkPCs, ParentInv,
            Releasing, Kept, Linked
<1>4. CASE WriteBegin
  BY <1>4 DEF WriteBegin
<1>5. CASE WriteReadState
  BY <1>5 DEF WriteReadState, ReadEntryState
<1>6. CASE WriteReadIndex
  BY <1>6 DEF WriteReadIndex
<1>7. CASE WriteReserveRead
  BY <1>7 DEF WriteReserveRead, ReadEntryState
<1>8. CASE WriteReserve
  BY <1>8 DEF WriteReserve, XchgState
<1>9. CASE WriteOrphan
  BY <1>9 DEF WriteOrphan
<1>10. CASE WriteAlloc
  BY <1>10 DEF WriteAlloc
<1>11. CASE WriteFailRead
  BY <1>11 DEF WriteFailRead, ReadEntryState
<1>12. CASE WriteFailState
  BY <1>12 DEF WriteFailState, XchgState
<1>13. CASE WriteFailIndex
  BY <1>13 DEF WriteFailIndex, SetIndex
<1>14. CASE WriteLink
  BY <1>14 DEF WriteLink, SetIndex
<1>15. CASE WriteFill1
  BY <1>15 DEF WriteFill1
<1>16. CASE WriteFill2
  BY <1>16 DEF WriteFill2
<1>17. CASE WriteMarkRead
  BY <1>17 DEF WriteMarkRead, ReadEntryState
<1>18. CASE WriteMark
  BY <1>18 DEF WriteMark
<1>19. CASE WriteEnd
  BY <1>19 DEF WriteEnd
<1> HIDE DEF PktTypeInv, PktLinkInv, PktWriteInv, Goto, channelVars, histVars,
             MayReuse, WritePCs, OldPCs, GonePCs, MarkPCs, ParentInv,
             Releasing, Kept, Linked
<1> QED BY <1>4, <1>5, <1>6, <1>7, <1>8, <1>9, <1>10, <1>11, <1>12, <1>13,
           <1>14, <1>15, <1>16, <1>17, <1>18, <1>19 DEF WriteStep

\* The writer takes no entry its buffer away as long as it finds one.
LEMMA PktWriterLeaves ==
  ASSUME PktTypeInv, NEW s \in Slots, buff_index[s] # NoBuffer, pc[W] \notin FailPCs,
         WriteBegin \/ WriteStep
  PROVE  buff_index'[s] # NoBuffer
<1>1. W \in Procs /\ \A r \in Readers : r \in Procs /\ r # W
  BY StateAssumption DEF W, Procs
<1>2. /\ NoBuffer \notin Buffers /\ 0 \in Buffers
      /\ \A n \in Buffers : n + 1 < NBuffers => n + 1 \in Buffers
  BY StateAssumption DEF NoBuffer, Buffers
<1> USE <1>1, <1>2
<1> USE DEF PktTypeInv, Goto, channelVars, histVars, FailPCs
<1>3. CASE WriteBegin
  BY <1>3 DEF WriteBegin
<1>4. CASE WriteReadState
  BY <1>4 DEF WriteReadState, ReadEntryState
<1>5. CASE WriteReadIndex
  BY <1>5 DEF WriteReadIndex
<1>6. CASE WriteReserveRead
  BY <1>6 DEF WriteReserveRead, ReadEntryState
<1>7. CASE WriteReserve
  BY <1>7 DEF WriteReserve, XchgState
<1>8. CASE WriteOrphan
  BY <1>8 DEF WriteOrphan
<1>9. CASE WriteAlloc
  BY <1>9 DEF WriteAlloc
<1>10. CASE WriteFailRead
  BY <1>10 DEF WriteFailRead, ReadEntryState
<1>11. CASE WriteFailState
  BY <1>11 DEF WriteFailState, XchgState
<1>12. CASE WriteFailIndex
  BY <1>12 DEF WriteFailIndex, SetIndex
<1>13. CASE WriteLink
  BY <1>13 DEF WriteLink, SetIndex
<1>14. CASE WriteFill1
  BY <1>14 DEF WriteFill1
<1>15. CASE WriteFill2
  BY <1>15 DEF WriteFill2
<1>16. CASE WriteMarkRead
  BY <1>16 DEF WriteMarkRead, ReadEntryState
<1>17. CASE WriteMark
  BY <1>17 DEF WriteMark
<1>18. CASE WriteEnd
  BY <1>18 DEF WriteEnd
<1> HIDE DEF PktTypeInv, Goto, channelVars, histVars, FailPCs
<1> QED BY <1>3, <1>4, <1>5, <1>6, <1>7, <1>8, <1>9, <1>10, <1>11, <1>12,
           <1>13, <1>14, <1>15, <1>16, <1>17, <1>18 DEF WriteStep

-----------------------------------------------------------------------------
(* The asserts of packets: the steps of the reader.                        *)

\* The reader marks entries that have a buffer, and takes the mark from none that
\* the writer is about to publish.
PktMarks ==
  /\ DOMAIN state' = Slots /\ oldbstate'[W] = oldbstate[W]
  /\ \A s \in Slots :
       \/ state'[s] = state[s]
       \/ state[s] = "ALLOCATED" /\ state'[s] = "RECEIVED"
       \/ /\ state[s] = "RECEIVED" /\ state'[s] = "ALLOCATED"
          /\ ~(pc[W] \in MarkPCs /\ qindex[W] = s)

\* The mark that mcapi_trans_pktchan_free takes away is that of an entry which the
\* writer is not at, or has just come to.
LEMMA PktUnmarks ==
  ASSUME PktTypeInv, ParentInv, NEW b \in Buffers, Releasing(b),
         state[parent[b]] = "RECEIVED"
  PROVE  parent[b] \in Slots /\ ~(pc[W] \in MarkPCs /\ qindex[W] = parent[b])
<1>1. parent[b] \in Slots /\ Kept(b) /\ magic_num[b] # "MAGIC"
  BY DEF Releasing
<1>2. PICK s \in Slots : Linked(b, s)
  BY <1>1 DEF Kept
<1>3. b # NoBuffer
  BY StateAssumption DEF NoBuffer, Buffers
<1>4. ~(s = qindex[W] /\ pc[W] \in MarkPCs \cup {"w_fill"})
  BY <1>2 DEF Linked, MarkPCs
<1>5. parent[b] = s
  BY <1>2, <1>3, <1>4 DEF Linked, ParentInv
<1> QED BY <1>1, <1>4, <1>5

\* What the reader does to the states of the entries.
LEMMA PktReaderMarks ==
  ASSUME Packet, PktTypeInv, ParentInv, TakeInv, NEW r \in Readers, PktReaderInv(r),
         pc[r] \in TakePCs => qindex[r] \in Slots,
         Read(r) \/ ReadStep(r) \/ PktFree(r)
  PROVE  PktMarks
<1>1. r \in Procs /\ W \in Procs /\ W # r /\ hand[r] \in Buffers
  BY StateAssumption DEF W, Procs, PktTypeInv
<1>2. pc[r] = "f_parent" /\ state[parent[hand[r]]] = "RECEIVED" =>
        parent[hand[r]] \in Slots /\ ~(pc[W] \in MarkPCs /\ qindex[W] = parent[hand[r]])
  BY <1>1, PktUnmarks DEF TakeInv, TakeAt
<1> USE <1>1
<1> USE DEF PktTypeInv, PktMarks, TakePCs, Goto, channelVars, histVars
<1>3. CASE Read(r)
  BY <1>3 DEF Read
<1>4. CASE ReadCounter(r)
  BY <1>4 DEF ReadCounter
<1>5. CASE ReadIndex(r)
  BY <1>5 DEF ReadIndex
<1>6. CASE TakeEntry(r)
  BY <1>6 DEF TakeEntry
<1>7. CASE ReadWord1(r)
  BY <1>7 DEF ReadWord1
<1>8. CASE ReadWord2(r)
  BY <1>8 DEF ReadWord2
<1>9. CASE Confirm(r)
  BY <1>9 DEF Confirm
<1>10. CASE FreeBuffer(r)
  BY <1>10 DEF FreeBuffer
<1>11. CASE ReleaseParent(r)
  BY <1>2, <1>11 DEF ReleaseParent
<1>12. CASE PktFree(r)
  BY <1>12, PktFreed
<1> HIDE DEF PktTypeInv, PktMarks, TakePCs, Goto, channelVars, histVars
<1> QED BY <1>3, <1>4, <1>5, <1>6, <1>7, <1>8, <1>9, <1>10, <1>11, <1>12 DEF ReadStep

\* The entries stay as busy as they are.
LEMMA PktReaderBusy ==
  ASSUME PktTypeInv, CountInv, BusyInv, NEW r \in Readers, PktOthersKept(r), PktMarks
  PROVE  BusyInv'
<1>1. pc[W] # "idle" => qindex[W] \in Slots
  BY AtEntry DEF CountInv, PktTypeInv
<1>2. pc'[W] = pc[W] /\ qindex'[W] = qindex[W] /\ buff_index' = buff_index
  BY DEF PktOthersKept
<1>3. /\ \A s \in Slots : state'[s] \in EntryStates
      /\ \A s \in Slots : buff_index'[s] # NoBuffer => state'[s] # "FREE"
      /\ \A s \in Slots : state'[s] = "FREE" <=> state[s] = "FREE"
  BY <1>2 DEF BusyInv, PktMarks, EntryStates
<1>4. pc[W] = "w_mark_cas" => oldbstate'[W] \in {"ALLOCATED", state'[qindex[W]]}
  BY <1>1 DEF BusyInv, PktMarks, MarkPCs
<1>5. pc[W] \in {"w_alloc", "w_link"} => state'[qindex[W]] # "FREE"
  BY <1>1, <1>3 DEF BusyInv
<1>6. pc[W] = "w_new_cas" /\ state'[qindex[W]] = "FREE" => oldbstate'[W] = "FREE"
  BY <1>1, <1>3 DEF BusyInv, PktMarks
<1> QED BY <1>2, <1>3, <1>4, <1>5, <1>6 DEF BusyInv

\* The reader finds the entry allocated, received or reserved.
LEMMA PktReaderAsserts ==
  ASSUME PktTypeInv, BusyInv, TakeInv, NoAssertFails, NEW r \in Readers, PktReaderInv(r),
         pc[r] \in TakePCs => qindex[r] \in Slots,
         Read(r) \/ ReadStep(r) \/ PktFree(r)
  PROVE  NoAssertFails'
<1>1. r \in Procs
  BY DEF Procs
<1>2. pc[r] = "r_take" => state[qindex[r]] \in {"RESERVED", "ALLOCATED", "RECEIVED"}
  BY DEF BusyInv, TakeInv, TakeAt, TakePCs, EntryStates
<1> USE <1>1
<1> USE DEF PktTypeInv, NoAssertFails, Goto
<1>3. CASE Read(r)
  BY <1>3 DEF Read
<1>4. CASE ReadCounter(r)
  BY <1>4 DEF ReadCounter
<1>5. CASE ReadIndex(r)
  BY <1>5 DEF ReadIndex
<1>6. CASE TakeEntry(r)
  BY <1>2, <1>6 DEF TakeEntry
<1>7. CASE ReadWord1(r)
  BY <1>7 DEF ReadWord1
<1>8. CASE ReadWord2(r)
  BY <1>8 DEF ReadWord2
<1>9. CASE Confirm(r)
  BY <1>9 DEF Confirm
<1>10. CASE FreeBuffer(r)
  BY <1>10 DEF FreeBuffer
<1>11. CASE ReleaseParent(r)
  BY <1>11 DEF ReleaseParent
<1>12. CASE PktFree(r)
  BY <1>12, PktFreed
<1> HIDE DEF PktTypeInv, NoAssertFails, Goto
<1> QED BY <1>3, <1>4, <1>5, <1>6, <1>7, <1>8, <1>9, <1>10, <1>11, <1>12 DEF ReadStep

\* The parent that a receive gives a buffer is the entry that it is linked to.
LEMMA PktReaderParents ==
  ASSUME Packet, PktTypeInv, PktLinkInv, ParentInv, TakeInv, NEW r \in Readers,
         PktReaderInv(r), pc[r] \in TakePCs => qindex[r] \in Slots, PktOthersKept(r),
         Read(r) \/ ReadStep(r) \/ PktFree(r)
  PROVE  ParentInv'
<1>1. r \in Procs /\ hand[r] \in Buffers /\ NoBuffer \notin Buffers
  BY StateAssumption DEF Procs, PktTypeInv, Buffers, NoBuffer
<1>2. pc'[W] = pc[W] /\ qindex'[W] = qindex[W] /\ buff_index' = buff_index
  BY DEF PktOthersKept
<1>3. CASE ReadWord1(r)
  <2>1. pc[r] = "r_buffer" /\ magic_num' = magic_num
    BY <1>3 DEF ReadWord1, Goto
  <2>2. qindex[r] \in Slots /\ buff_index[qindex[r]] \in Buffers
    BY <2>1 DEF TakeInv, TakeAt, PktTypeInv, TakePCs
  <2>3. parent' = [parent EXCEPT ![buff_index[qindex[r]]] = qindex[r]]
    BY <1>1, <1>3, <2>2 DEF ReadWord1
  <2> QED BY <1>1, <1>2, <2>1, <2>2, <2>3 DEF ParentInv, PktLinkInv, PktTypeInv
<1>4. CASE ~ReadWord1(r)
  <2>1. parent' = parent /\ \A b \in Buffers : magic_num'[b] = "MAGIC" => magic_num[b] = "MAGIC"
    <3> USE <1>1
    <3> USE DEF PktTypeInv, channelVars, histVars
    <3>1. CASE Read(r)
      BY <3>1 DEF Read
    <3>2. CASE ReadCounter(r)
      BY <3>2 DEF ReadCounter
    <3>3. CASE ReadIndex(r)
      BY <3>3 DEF ReadIndex
    <3>4. CASE TakeEntry(r)
      BY <3>4 DEF TakeEntry
    <3>5. CASE ReadWord2(r)
      BY <3>5 DEF ReadWord2
    <3>6. CASE Confirm(r)
      BY <3>6 DEF Confirm
    <3>7. CASE FreeBuffer(r)
      BY <3>7 DEF FreeBuffer
    <3>8. CASE ReleaseParent(r)
      BY <3>8 DEF ReleaseParent
    <3>9. CASE PktFree(r)
      BY <3>9, PktFreed
    <3> HIDE DEF PktTypeInv, channelVars, histVars
    <3> QED BY <1>4, <3>1, <3>2, <3>3, <3>4, <3>5, <3>6, <3>7, <3>8, <3>9 DEF ReadStep
  <2> QED BY <1>2, <2>1 DEF ParentInv
<1> QED BY <1>3, <1>4

\* The packet that the reader is handed, and frees, is one that nobody writes to.
LEMMA PktReaderTakes ==
  ASSUME Packet, OneAtATime, RingDivides, PktInv, ParentInv, TakeInv, NEW r \in Readers,
         Read(r) \/ ReadStep(r) \/ PktFree(r)
  PROVE  TakeInv'
<1>1. PktTypeInv /\ CountInv /\ PktLinkInv /\ ContentInv /\ PktReaderInv(r)
  BY DEF PktInv, PktReadInv
<1>2. r \in Procs /\ W \in Procs /\ W # r /\ \A q \in Readers : q = r
  BY StateAssumption DEF W, Procs, OneAtATime
<1>3. /\ pc[r] \in {"r_take", "r_buffer"} => buff_index[qindex[r]] # NoBuffer
      /\ held[r] # <<>> => Releasing(held[r][1][1])
      /\ held[r] # <<>> => pc[r] \in RestPCs
  BY <1>1 DEF TakeInv, TakeAt, PktReaderInv
<1> SUFFICES TakeAt(r)'
  BY <1>2 DEF TakeInv
<1>4. ASSUME NEW b \in Buffers, Releasing(b), channelVars' = channelVars, pc'[W] = pc[W],
             qindex'[W] = qindex[W], oldbstate'[W] = oldbstate[W]
      PROVE  Releasing(b)'
  BY <1>4 DEF Releasing, Kept, Linked, channelVars
<1>5. held[r] # <<>> => held[r][1][1] \in Buffers
  <2>1. SUFFICES ASSUME held[r] # <<>> PROVE held[r][1][1] \in Buffers
    OBVIOUS
  <2>2. PICK b \in Buffers : held[r] = << <<b, buff[b]>> >>
    BY <1>1, <2>1 DEF PktReaderInv, Holds
  <2> QED BY <2>2
<1>6. CASE Read(r) \/ ReadCounter(r) \/ ReadIndex(r)
  <2>1. /\ channelVars' = channelVars /\ pc'[W] = pc[W] /\ qindex'[W] = qindex[W]
        /\ oldbstate'[W] = oldbstate[W] /\ held' = held /\ pc'[r] \notin {"f_parent", "r_buffer"}
        /\ pc'[r] = "r_take" => buff_index[qindex[r]] # NoBuffer /\ qindex' = qindex
    BY <1>1, <1>2, <1>6 DEF Read, ReadCounter, ReadIndex, Goto, PktTypeInv
  <2>2. held[r] # <<>> => Releasing(held[r][1][1])'
    BY <1>3, <1>4, <1>5, <2>1
  <2> QED BY <1>3, <2>1, <2>2 DEF TakeAt, Releasing, Kept, Linked, channelVars
<1>7. CASE TakeEntry(r) \/ ReadWord1(r) \/ ReadWord2(r)
  <2>1. /\ buff_index' = buff_index /\ qindex' = qindex /\ held' = held
        /\ pc[r] \in {"r_take", "r_buffer", "r_word2"} /\ pc'[r] \notin {"f_parent", "r_take"}
        /\ pc'[r] = "r_buffer" => pc[r] = "r_take"
    BY <1>1, <1>2, <1>7 DEF TakeEntry, ReadWord1, ReadWord2, Goto, PktTypeInv, channelVars
  <2> QED BY <1>3, <2>1 DEF RestPCs, TakeAt
<1>8. CASE Confirm(r)
  <2> DEFINE ok == Confirmed(update_counter, counter[r])
  <2>1. /\ pc[r] = "r_confirm" /\ pc'[r] = (IF ok THEN "done" ELSE "r_counter")
        /\ channelVars' = channelVars /\ pc'[W] = pc[W] /\ qindex'[W] = qindex[W]
        /\ oldbstate'[W] = oldbstate[W]
        /\ ok => held'[r] = Append(held[r], <<hand[r], buff[hand[r]]>>)
        /\ ~ok => held'[r] = held[r]
    BY <1>1, <1>2, <1>8 DEF Confirm, Goto, PktTypeInv
  <2>2. held[r] = <<>>
    BY <1>3, <2>1 DEF RestPCs
  <2>3. ASSUME ok PROVE Releasing(held[r][1][1])'
    <3>1. PICK k \in Nat :
           /\ k > 0 /\ seen[r] <= k
           /\ SlotOf(k) \in Slots /\ hand[r] = buff_index[SlotOf(k)] /\ hand[r] # NoBuffer
           /\ state[SlotOf(k)] = "RECEIVED" /\ (pc[W] # "idle" => SlotOf(k) # qindex[W])
           /\ magic_num[hand[r]] = "RESERVED" /\ buff[hand[r]] = <<k, k>>
      BY <1>1, <2>1, <2>3, PktFound
    <3>2. PICK b \in Buffers : b = hand[r]
      BY <1>1 DEF PktTypeInv
    <3>3. PICK s \in Slots : s = SlotOf(k)
      BY <3>1
    <3>4. Linked(b, s) /\ magic_num[b] = "RESERVED" /\ (pc[W] # "idle" => s # qindex[W])
      BY <3>1, <3>2, <3>3 DEF Linked
    <3>5. parent[b] = s
      BY <3>1, <3>2, <3>3, <3>4 DEF ParentInv
    <3>6. Releasing(b)
      BY <3>4, <3>5 DEF Releasing, Kept
    <3>7. held'[r][1][1] = b
      BY <2>1, <2>2, <2>3, <3>2
    <3>8. Releasing(b)'
      BY <1>4, <2>1, <3>6
    <3> QED BY <3>7, <3>8 DEF Releasing, Kept, Linked
  <2> HIDE DEF ok
  <2> QED BY <2>1, <2>2, <2>3 DEF TakeAt
<1>9. CASE FreeBuffer(r) \/ ReleaseParent(r)
  <2>1. pc[r] \in {"f_buffer", "f_parent"} /\ pc'[r] = "idle" /\ held' = held
    BY <1>1, <1>2, <1>9 DEF FreeBuffer, ReleaseParent, Goto, PktTypeInv
  <2> QED BY <1>3, <2>1 DEF RestPCs, TakeAt
<1>10. CASE PktFree(r)
  <2>1. PICK b \in Buffers :
           /\ held[r][1][1] = b /\ Kept(b) /\ pc[r] \in RestPCs
           /\ hand' = [hand EXCEPT ![r] = b]
           /\ pc' = [pc EXCEPT ![r] = IF magic_num[b] = "MAGIC" THEN "f_buffer" ELSE "f_parent"]
           /\ DOMAIN held' = Readers /\ held'[r] = <<>>
           /\ UNCHANGED <<channelVars, counter, qindex, oldbstate, oldindex, got, histVars>>
    BY <1>1, <1>10, PktFreed
  <2>2. held[r] # <<>>
    BY <1>10 DEF PktFree
  <2>3. Releasing(b)
    BY <1>3, <2>1, <2>2 DEF Releasing, Kept, Linked
  <2>4. /\ channelVars' = channelVars /\ pc'[W] = pc[W] /\ qindex'[W] = qindex[W]
        /\ oldbstate'[W] = oldbstate[W] /\ hand'[r] = b /\ pc'[r] \in {"f_buffer", "f_parent"}
        /\ held'[r] = <<>>
    BY <1>1, <1>2, <2>1 DEF PktTypeInv
  <2>5. Releasing(b)'
    BY <1>4, <2>3, <2>4
  <2>6. Releasing(hand[r])'
    BY <2>4, <2>5 DEF Releasing, Kept, Linked
  <2> QED BY <2>4, <2>6 DEF TakeAt
<1> QED BY <1>6, <1>7, <1>8, <1>9, <1>10 DEF ReadStep

-----------------------------------------------------------------------------
(* The asserts of packets hold as long as the pool lasts.                  *)

\* What readers rely on stays as it is when the writer goes on.
LEMMA PktWriterTakes ==
  ASSUME Packet, PktInv, AssertInv, WriteBegin \/ WriteStep
  PROVE  TakeInv'
<1>1. PktTypeInv /\ CountInv /\ PktLinkInv /\ PktWriteInv /\ PktReadInv /\ ParentInv /\ TakeInv
      /\ pc[W] \notin FailPCs
  BY DEF PktInv, AssertInv
<1>2. PktReadersKept
  BY <1>1, PktWriterTypes
<1>3. ASSUME NEW b \in Buffers, Releasing(b) PROVE Releasing(b)'
  BY <1>1, <1>3, PktWriterKeeps, PktWriterReleases DEF Releasing
<1> SUFFICES ASSUME NEW r \in Readers PROVE TakeAt(r)'
  BY DEF TakeInv
<1>4. PktReaderInv(r) /\ TakeAt(r)
  BY <1>1 DEF PktReadInv, TakeInv
<1>5. /\ pc'[r] = pc[r] /\ qindex'[r] = qindex[r] /\ hand'[r] = hand[r]
      /\ held'[r] = held[r] /\ hand[r] \in Buffers
  BY <1>1, <1>2 DEF PktReadersKept, ReadersKept, PktTypeInv
<1>6. pc[r] \in {"r_take", "r_buffer"} => buff_index'[qindex[r]] # NoBuffer
  <2>1. pc[r] \in {"r_take", "r_buffer"} => qindex[r] \in Slots
    BY <1>1, <1>4, PktLooking DEF TakePCs
  <2> QED BY <1>1, <1>4, <2>1, PktWriterLeaves DEF TakeAt
<1>7. ASSUME pc[r] = "f_parent" PROVE Releasing(hand[r])'
  <2>1. PICK b \in Buffers : b = hand[r]
    BY <1>5
  <2>2. Releasing(b)
    BY <1>4, <1>7, <2>1 DEF TakeAt, Releasing, Kept, Linked
  <2>3. Releasing(b)'
    BY <1>3, <2>2
  <2> QED BY <1>5, <2>1, <2>3 DEF Releasing, Kept, Linked
<1>8. ASSUME held[r] # <<>> PROVE Releasing(held[r][1][1])'
  <2>1. PICK b \in Buffers : held[r] = << <<b, buff[b]>> >>
    BY <1>4, <1>8 DEF PktReaderInv, Holds
  <2>2. held[r][1][1] = b /\ held'[r][1][1] = b
    BY <1>5, <2>1
  <2>3. Releasing(b)
    BY <1>4, <1>8, <2>2 DEF TakeAt, Releasing, Kept, Linked
  <2>4. Releasing(b)'
    BY <1>3, <2>3
  <2> QED BY <2>2, <2>4 DEF Releasing, Kept, Linked
<1> QED BY <1>5, <1>6, <1>7, <1>8 DEF TakeAt

\* The asserts hold at first.
LEMMA AssertInit ==
  ASSUME Init
  PROVE  AssertInv
<1>1. /\ \A p \in Procs : pc[p] = "idle"
      /\ \A s \in Slots : buff_index[s] = NoBuffer /\ state[s] = "FREE"
      /\ \A b \in Buffers : magic_num[b] # "MAGIC"
      /\ \A r \in Readers : held[r] = <<>>
      /\ DOMAIN parent = Buffers
  BY DEF Init
<1>2. W \in Procs /\ \A r \in Readers : r \in Procs
  BY DEF W, Procs
<1>3. pc[W] \notin FailPCs /\ NoAssertFails
  BY <1>1, <1>2 DEF FailPCs, NoAssertFails
<1>4. BusyInv
  BY <1>1, <1>2 DEF BusyInv, EntryStates
<1>5. ParentInv
  BY <1>1 DEF ParentInv
<1>6. TakeInv
  BY <1>1, <1>2 DEF TakeInv, TakeAt
<1> QED BY <1>3, <1>4, <1>5, <1>6 DEF AssertInv

\* They hold after a step at which the writer does not run out of buffers.
LEMMA AssertInductive ==
  ASSUME Packet, OneAtATime, RingDivides, PktInv, AssertInv, [Next]_vars, PoolLasts'
  PROVE  AssertInv'
<1>1. PktTypeInv /\ CountInv /\ PktLinkInv /\ PktWriteInv /\ PktReadInv
  BY DEF PktInv
<1>2. BusyInv /\ ParentInv /\ TakeInv /\ NoAssertFails /\ pc[W] \notin FailPCs
  BY DEF AssertInv
<1>3. CASE UNCHANGED vars
  <2> USE <1>3 DEF vars, channelVars, localVars, histVars
  <2>1. BusyInv' <=> BusyInv
    BY DEF BusyInv
  <2>2. ParentInv' <=> ParentInv
    BY DEF ParentInv
  <2>3. TakeInv' <=> TakeInv
    BY DEF TakeInv, TakeAt, Releasing, Kept, Linked
  <2>4. NoAssertFails' <=> NoAssertFails
    BY DEF NoAssertFails
  <2>5. pc'[W] = pc[W]
    OBVIOUS
  <2> QED BY <1>2, <2>1, <2>2, <2>3, <2>4, <2>5 DEF AssertInv
<1>4. CASE WriteBegin \/ WriteStep
  <2>1. BusyInv' /\ pc'[W] \notin FailPCs
    BY <1>1, <1>2, <1>4, PktWriterBusy DEF PoolLasts
  <2>2. NoAssertFails'
    BY <1>1, <1>2, <1>4, PktWriterAsserts
  <2>3. ParentInv'
    BY <1>1, <1>2, <1>4, PktWriterParents
  <2>4. TakeInv'
    BY <1>4, PktWriterTakes
  <2> QED BY <2>1, <2>2, <2>3, <2>4 DEF AssertInv
<1>5. ASSUME NEW r \in Readers, Read(r) \/ ReadStep(r) \/ PktFree(r)
      PROVE  AssertInv'
  <2>1. PktReaderInv(r)
    BY <1>1 DEF PktReadInv
  <2>2. pc[r] \in TakePCs => qindex[r] \in Slots
    BY <1>1, <2>1, PktLooking
  <2>3. PktOthersKept(r)
    BY <1>1, <1>5, <2>1, <2>2, PktReaderTypes
  <2>4. PktMarks
    BY <1>1, <1>2, <1>5, <2>1, <2>2, PktReaderMarks
  <2>5. BusyInv'
    BY <1>1, <1>2, <2>3, <2>4, PktReaderBusy
  <2>6. NoAssertFails'
    BY <1>1, <1>2, <1>5, <2>1, <2>2, PktReaderAsserts
  <2>7. ParentInv'
    BY <1>1, <1>2, <1>5, <2>1, <2>2, <2>3, PktReaderParents
  <2>8. TakeInv'
    BY <1>2, <1>5, PktReaderTakes
  <2>9. pc'[W] \notin FailPCs
    BY <1>2, <2>3 DEF PktOthersKept
  <2> QED BY <2>5, <2>6, <2>7, <2>8, <2>9 DEF AssertInv
<1> QED BY <1>3, <1>4, <1>5 DEF Next

\* No assert of mcapi_trans_send_state and mcapi_trans_recv_state fails on a packet
\* channel, as long as the writer finds a buffer whenever it needs one.
THEOREM PacketAsserts ==
  Packet /\ OneAtATime /\ RingDivides => (Spec /\ []PoolLasts => []NoAssertFails)
<1> SUFFICES ASSUME Packet, OneAtATime, RingDivides
             PROVE  Spec /\ []PoolLasts => []NoAssertFails
  OBVIOUS
<1>1. Spec => []PktInv
  BY PacketInvariant
<1>2. Init => AssertInv
  BY AssertInit
<1>3. PktInv /\ AssertInv /\ [Next]_vars /\ PoolLasts' => AssertInv'
  BY AssertInductive
<1>4. AssertInv => NoAssertFails
  BY DEF AssertInv
<1> QED BY <1>1, <1>2, <1>3, <1>4, PTL DEF Spec

-----------------------------------------------------------------------------
(* The pool lasts when there are enough buffers.                           *)

\* There are as many buffers as others may use and writes are made.
Plenty == NBuffers >= MaxBusy + MaxWrites

\* The buffers that are, or have been, in use.
InUse(b) == magic_num[b] # "0" \/ parent[b] # NoSlot
Used     == {b \in Buffers : InUse(b)}

\* The writer has not begun to look for a free buffer.
BeforePCs == {"w_reserve_new", "w_reserve_replace", "w_new_cas", "w_replace_cas", "w_orphan"}

\* The writes that may have taken a buffer, each at most one.
Taken == IF pc[W] \in BeforePCs \cup {"w_state", "w_index", "w_alloc"} THEN writes - 1 ELSE writes

\* The buffers in use are as few as the writes allow, and those that the writer
\* passed by are among them.
PoolInv ==
  /\ writes <= MaxWrites
  /\ Cardinality(Used) <= MaxBusy + Taken
  /\ pc[W] \in BeforePCs => hand[W] = 0
  /\ pc[W] = "w_alloc" => \A b \in Buffers : b < hand[W] => InUse(b)

\* There are NBuffers buffers, and those in use are some of them.
LEMMA UsedIs ==
  /\ IsFiniteSet(Buffers) /\ Cardinality(Buffers) = NBuffers
  /\ IsFiniteSet(Used) /\ Cardinality(Used) \in Nat /\ Used \subseteq Buffers
<1>1. NBuffers \in Nat /\ NBuffers > 0
  BY StateAssumption
<1>2. IsFiniteSet(0 .. NBuffers - 1) /\ Cardinality(0 .. NBuffers - 1) = NBuffers
  <2>1. NBuffers - 1 \in Int /\ 0 \in Int /\ ~(0 > NBuffers - 1) /\ NBuffers - 1 - 0 + 1 = NBuffers
    BY <1>1
  <2> QED BY <2>1, FS_Interval
<1>3. Used \subseteq Buffers
  BY DEF Used
<1> QED BY <1>2, <1>3, FS_Subset, FS_CardinalityType DEF Buffers

\* The buffer that the writer finds free is the one that it takes.
LEMMA PktWriterUses ==
  ASSUME Packet, PktTypeInv, CountInv, PktLinkInv, PktWriteInv, ParentInv,
         NEW b \in Buffers,
         WriteBegin \/ WriteStep
  PROVE  /\ InUse(b) => InUse(b)'
         /\ InUse(b)' => InUse(b) \/ (b = hand[W] /\ pc[W] = "w_alloc" /\ pc'[W] = "w_link")
<1>1. W \in Procs /\ \A r \in Readers : r \in Procs /\ r # W
  BY StateAssumption DEF W, Procs
<1>2. /\ NoBuffer \notin Buffers /\ 0 \in Buffers
      /\ \A n \in Buffers : n + 1 < NBuffers => n + 1 \in Buffers
  BY StateAssumption DEF NoBuffer, Buffers
<1>3. pc[W] # "idle" => /\ qindex[W] \in Slots /\ qindex[W] < writes /\ writes > 0
                        /\ writes <= NSlots => qindex[W] = writes - 1
  BY AtEntry DEF CountInv, PktTypeInv
<1>4. 0 # NoSlot /\ NoSlot \notin Slots
  BY StateAssumption DEF NoSlot, Slots
<1> USE <1>1, <1>2, <1>3, <1>4
<1> USE DEF PktTypeInv, PktLinkInv, PktWriteInv, Goto, channelVars, histVars,
            MayReuse, WritePCs, OldPCs, GonePCs, MarkPCs, ParentInv, InUse
<1>5. CASE WriteBegin
  BY <1>5 DEF WriteBegin
<1>6. CASE WriteReadState
  BY <1>6 DEF WriteReadState, ReadEntryState
<1>7. CASE WriteReadIndex
  BY <1>7 DEF WriteReadIndex
<1>8. CASE WriteReserveRead
  BY <1>8 DEF WriteReserveRead, ReadEntryState
<1>9. CASE WriteReserve
  BY <1>9 DEF WriteReserve, XchgState
<1>10. CASE WriteOrphan
  BY <1>10 DEF WriteOrphan
<1>11. CASE WriteAlloc
  BY <1>11 DEF WriteAlloc
<1>12. CASE WriteFailRead
  BY <1>12 DEF WriteFailRead, ReadEntryState
<1>13. CASE WriteFailState
  BY <1>13 DEF WriteFailState, XchgState
<1>14. CASE WriteFailIndex
  BY <1>14 DEF WriteFailIndex, SetIndex
<1>15. CASE WriteLink
  BY <1>15 DEF WriteLink, SetIndex
<1>16. CASE WriteFill1
  BY <1>16 DEF WriteFill1
<1>17. CASE WriteFill2
  BY <1>17 DEF WriteFill2
<1>18. CASE WriteMarkRead
  BY <1>18 DEF WriteMarkRead, ReadEntryState
<1>19. CASE WriteMark
  BY <1>19 DEF WriteMark
<1>20. CASE WriteEnd
  BY <1>20 DEF WriteEnd
<1> HIDE DEF PktTypeInv, PktLinkInv, PktWriteInv, Goto, channelVars, histVars,
             MayReuse, WritePCs, OldPCs, GonePCs, MarkPCs, ParentInv, InUse
<1> QED BY <1>5, <1>6, <1>7, <1>8, <1>9, <1>10, <1>11, <1>12, <1>13, <1>14,
           <1>15, <1>16, <1>17, <1>18, <1>19, <1>20 DEF WriteStep

\* The writer passes by each buffer in turn.
LEMMA PktWriterScans ==
  ASSUME PktTypeInv, CountInv, pc[W] \notin FailPCs,
         WriteBegin \/ WriteStep
  PROVE  /\ pc[W] \in BeforePCs => pc'[W] \notin BeforePCs \/ hand'[W] = hand[W]
         /\ pc[W] \notin BeforePCs => pc'[W] \notin BeforePCs \/ hand'[W] = 0
         /\ pc'[W] = "w_alloc" =>
              \/ pc[W] \in BeforePCs /\ hand'[W] = hand[W]
              \/ pc[W] = "w_alloc" /\ magic_num[hand[W]] # "0" /\ hand'[W] = hand[W] + 1
         /\ pc'[W] = "w_fail" =>
              pc[W] = "w_alloc" /\ magic_num[hand[W]] # "0" /\ hand[W] + 1 = NBuffers
<1>1. W \in Procs /\ \A r \in Readers : r \in Procs /\ r # W
  BY StateAssumption DEF W, Procs
<1>2. /\ NoBuffer \notin Buffers /\ 0 \in Buffers
      /\ \A n \in Buffers : n + 1 < NBuffers => n + 1 \in Buffers
  BY StateAssumption DEF NoBuffer, Buffers
<1> USE <1>1, <1>2
<1> USE DEF PktTypeInv, Goto, channelVars, histVars, WritePCs, BeforePCs,
            FailPCs
<1>3. CASE WriteBegin
  BY <1>3 DEF WriteBegin
<1>4. CASE WriteReadState
  BY <1>4 DEF WriteReadState, ReadEntryState
<1>5. CASE WriteReadIndex
  BY <1>5 DEF WriteReadIndex
<1>6. CASE WriteReserveRead
  BY <1>6 DEF WriteReserveRead, ReadEntryState
<1>7. CASE WriteReserve
  BY <1>7 DEF WriteReserve, XchgState
<1>8. CASE WriteOrphan
  BY <1>8 DEF WriteOrphan
<1>9. CASE WriteAlloc
  BY <1>9 DEF WriteAlloc
<1>10. CASE WriteFailRead
  BY <1>10 DEF WriteFailRead, ReadEntryState
<1>11. CASE WriteFailState
  BY <1>11 DEF WriteFailState, XchgState
<1>12. CASE WriteFailIndex
  BY <1>12 DEF WriteFailIndex, SetIndex
<1>13. CASE WriteLink
  BY <1>13 DEF WriteLink, SetIndex
<1>14. CASE WriteFill1
  BY <1>14 DEF WriteFill1
<1>15. CASE WriteFill2
  BY <1>15 DEF WriteFill2
<1>16. CASE WriteMarkRead
  BY <1>16 DEF WriteMarkRead, ReadEntryState
<1>17. CASE WriteMark
  BY <1>17 DEF WriteMark
<1>18. CASE WriteEnd
  BY <1>18 DEF WriteEnd
<1> HIDE DEF PktTypeInv, Goto, channelVars, histVars, WritePCs, BeforePCs,
             FailPCs
<1> QED BY <1>3, <1>4, <1>5, <1>6, <1>7, <1>8, <1>9, <1>10, <1>11, <1>12,
           <1>13, <1>14, <1>15, <1>16, <1>17, <1>18 DEF WriteStep

\* Each write takes one buffer at most.
LEMMA PktWriterTakesOne ==
  ASSUME PktTypeInv, pc[W] \notin FailPCs,
         WriteBegin \/ WriteStep
  PROVE  /\ writes <= MaxWrites => writes' <= MaxWrites
         /\ Taken <= Taken'
         /\ pc[W] = "w_alloc" /\ pc'[W] = "w_link" => Taken' = Taken + 1
<1>1. W \in Procs /\ \A r \in Readers : r \in Procs /\ r # W
  BY StateAssumption DEF W, Procs
<1>2. /\ NoBuffer \notin Buffers /\ 0 \in Buffers
      /\ \A n \in Buffers : n + 1 < NBuffers => n + 1 \in Buffers
  BY StateAssumption DEF NoBuffer, Buffers
<1>3. writes \in Nat /\ MaxWrites \in Nat
  BY StateAssumption DEF PktTypeInv, Ranges
<1> USE <1>1, <1>2, <1>3
<1> USE DEF PktTypeInv, Goto, channelVars, histVars, WritePCs, BeforePCs,
            Taken, FailPCs
<1>4. CASE WriteBegin
  BY <1>4 DEF WriteBegin
<1>5. CASE WriteReadState
  BY <1>5 DEF WriteReadState, ReadEntryState
<1>6. CASE WriteReadIndex
  BY <1>6 DEF WriteReadIndex
<1>7. CASE WriteReserveRead
  BY <1>7 DEF WriteReserveRead, ReadEntryState
<1>8. CASE WriteReserve
  BY <1>8 DEF WriteReserve, XchgState
<1>9. CASE WriteOrphan
  BY <1>9 DEF WriteOrphan
<1>10. CASE WriteAlloc
  BY <1>10 DEF WriteAlloc
<1>11. CASE WriteFailRead
  BY <1>11 DEF WriteFailRead, ReadEntryState
<1>12. CASE WriteFailState
  BY <1>12 DEF WriteFailState, XchgState
<1>13. CASE WriteFailIndex
  BY <1>13 DEF WriteFailIndex, SetIndex
<1>14. CASE WriteLink
  BY <1>14 DEF WriteLink, SetIndex
<1>15. CASE WriteFill1
  BY <1>15 DEF WriteFill1
<1>16. CASE WriteFill2
  BY <1>16 DEF WriteFill2
<1>17. CASE WriteMarkRead
  BY <1>17 DEF WriteMarkRead, ReadEntryState
<1>18. CASE WriteMark
  BY <1>18 DEF WriteMark
<1>19. CASE WriteEnd
  BY <1>19 DEF WriteEnd
<1> HIDE DEF PktTypeInv, Goto, channelVars, histVars, WritePCs, BeforePCs,
             Taken, FailPCs
<1> QED BY <1>4, <1>5, <1>6, <1>7, <1>8, <1>9, <1>10, <1>11, <1>12, <1>13,
           <1>14, <1>15, <1>16, <1>17, <1>18, <1>19 DEF WriteStep

\* The reader frees only buffers that the writer has used.
LEMMA PktReaderUses ==
  ASSUME Packet, PktTypeInv, PktLinkInv, ParentInv, TakeInv, NEW r \in Readers,
         PktReaderInv(r), pc[r] \in TakePCs => qindex[r] \in Slots,
         Read(r) \/ ReadStep(r) \/ PktFree(r), NEW b \in Buffers
  PROVE  InUse(b)' <=> InUse(b)
<1>1. r \in Procs /\ hand[r] \in Buffers /\ NoBuffer \notin Buffers /\ NoSlot \notin Slots
  BY StateAssumption DEF Procs, PktTypeInv, Buffers, NoBuffer, Slots, NoSlot
<1>2. pc[r] = "f_buffer" => magic_num[hand[r]] = "MAGIC" /\ parent[hand[r]] \in Slots
  BY <1>1 DEF PktReaderInv, ParentInv
<1>3. pc[r] = "r_buffer" =>
        /\ qindex[r] \in Slots /\ buff_index[qindex[r]] \in Buffers
        /\ InUse(buff_index[qindex[r]])
  <2>1. SUFFICES ASSUME pc[r] = "r_buffer"
                 PROVE  /\ qindex[r] \in Slots /\ buff_index[qindex[r]] \in Buffers
                        /\ InUse(buff_index[qindex[r]])
    OBVIOUS
  <2>2. qindex[r] \in Slots /\ buff_index[qindex[r]] \in Buffers
    BY <2>1 DEF TakeInv, TakeAt, PktTypeInv, TakePCs
  <2>3. PICK s \in Slots : s = qindex[r]
    BY <2>2
  <2>4. magic_num[buff_index[s]] = "RESERVED" \/ parent[buff_index[s]] = s
    BY <1>1, <2>2, <2>3 DEF PktLinkInv, ParentInv, GonePCs
  <2> QED BY <1>1, <2>2, <2>3, <2>4 DEF InUse
<1> USE <1>1
<1> USE DEF PktTypeInv, ParentInv, InUse, Goto, channelVars, histVars
<1>4. CASE Read(r)
  BY <1>4 DEF Read
<1>5. CASE ReadCounter(r)
  BY <1>5 DEF ReadCounter
<1>6. CASE ReadIndex(r)
  BY <1>6 DEF ReadIndex
<1>7. CASE TakeEntry(r)
  BY <1>7 DEF TakeEntry
<1>8. CASE ReadWord1(r)
  BY <1>3, <1>8 DEF ReadWord1
<1>9. CASE ReadWord2(r)
  BY <1>9 DEF ReadWord2
<1>10. CASE Confirm(r)
  BY <1>10 DEF Confirm
<1>11. CASE FreeBuffer(r)
  BY <1>2, <1>11 DEF FreeBuffer
<1>12. CASE ReleaseParent(r)
  BY <1>12 DEF ReleaseParent
<1>13. CASE PktFree(r)
  BY <1>13, PktFreed
<1> HIDE DEF PktTypeInv, ParentInv, InUse, Goto, channelVars, histVars
<1> QED BY <1>4, <1>5, <1>6, <1>7, <1>8, <1>9, <1>10, <1>11, <1>12, <1>13 DEF ReadStep

\* At first the buffers in use are those that others use.
LEMMA PoolInit ==
  ASSUME Init
  PROVE  PoolInv /\ PoolLasts
<1>1. PICK busy \in SUBSET Buffers :
        /\ Cardinality(busy) <= MaxBusy
        /\ magic_num = [b \in Buffers |-> IF b \in busy THEN "RESERVED" ELSE "0"]
  BY DEF Init
<1>2. parent = [b \in Buffers |-> NoSlot] /\ pc[W] = "idle" /\ writes = 0
  BY DEF Init, W, Procs
<1>3. Used = busy
  BY <1>1, <1>2 DEF Used, InUse
<1>4. Taken = 0 /\ MaxBusy \in Nat /\ MaxWrites \in Nat
  BY <1>2, StateAssumption DEF Taken, BeforePCs
<1>5. Cardinality(Used) <= MaxBusy + Taken
  <2>1. Cardinality(Used) <= MaxBusy /\ Cardinality(Used) \in Nat
    BY <1>1, <1>3, UsedIs
  <2> QED BY <1>4, <2>1
<1> QED BY <1>2, <1>4, <1>5 DEF PoolInv, PoolLasts, BeforePCs

\* No step finds the pool exhausted.
LEMMA PoolInductive ==
  ASSUME Packet, OneAtATime, Plenty, PktInv, AssertInv, PoolInv, PoolLasts, [Next]_vars
  PROVE  PoolInv' /\ PoolLasts'
<1>1. PktTypeInv /\ CountInv /\ PktLinkInv /\ PktWriteInv /\ PktReadInv /\ ParentInv /\ TakeInv
      /\ pc[W] \notin FailPCs
  BY DEF PktInv, AssertInv
<1>2. /\ writes \in Nat /\ hand[W] \in Buffers /\ MaxBusy \in Nat /\ MaxWrites \in Nat
      /\ NBuffers \in Nat /\ NBuffers >= MaxBusy + MaxWrites
      /\ \A b \in Buffers : b \in Nat /\ b < NBuffers
  BY <1>1, StateAssumption DEF PktTypeInv, Ranges, Buffers, Plenty
<1>3. /\ IsFiniteSet(Buffers) /\ Cardinality(Buffers) = NBuffers
      /\ IsFiniteSet(Used) /\ Cardinality(Used) \in Nat
  BY UsedIs
<1>4. Taken \in Int /\ (pc[W] = "w_alloc" => Taken < MaxWrites)
  BY <1>2 DEF Taken, PoolInv
<1>5. CASE UNCHANGED vars
  <2> USE <1>5 DEF vars, channelVars, localVars, histVars
  <2>1. Used' = Used /\ Taken' = Taken
    BY DEF Used, InUse, Taken
  <2> QED BY <2>1 DEF PoolInv, PoolLasts, InUse
<1>6. ASSUME NEW r \in Readers, Read(r) \/ ReadStep(r) \/ PktFree(r)
      PROVE  PoolInv' /\ PoolLasts'
  <2>1. PktReaderInv(r)
    BY <1>1 DEF PktReadInv
  <2>2. pc[r] \in TakePCs => qindex[r] \in Slots
    BY <1>1, <2>1, PktLooking
  <2>3. PktOthersKept(r)
    BY <1>1, <1>6, <2>1, <2>2, PktReaderTypes
  <2>4. \A b \in Buffers : InUse(b)' <=> InUse(b)
    BY <1>1, <1>6, <2>1, <2>2, PktReaderUses
  <2>5. Used' = Used
    BY <2>4 DEF Used
  <2>6. pc'[W] = pc[W] /\ hand'[W] = hand[W] /\ writes' = writes
    BY <2>3 DEF PktOthersKept
  <2>7. Taken' = Taken
    BY <2>6 DEF Taken
  <2> QED BY <2>4, <2>5, <2>6, <2>7 DEF PoolInv, PoolLasts
<1>7. CASE WriteBegin \/ WriteStep
  <2>1. \A b \in Buffers :
          /\ InUse(b) => InUse(b)'
          /\ InUse(b)' => InUse(b) \/ (b = hand[W] /\ pc[W] = "w_alloc" /\ pc'[W] = "w_link")
    BY <1>1, <1>7, PktWriterUses
  <2>2. /\ pc[W] \in BeforePCs => pc'[W] \notin BeforePCs \/ hand'[W] = hand[W]
        /\ pc[W] \notin BeforePCs => pc'[W] \notin BeforePCs \/ hand'[W] = 0
        /\ pc'[W] = "w_alloc" =>
              \/ pc[W] \in BeforePCs /\ hand'[W] = hand[W]
              \/ pc[W] = "w_alloc" /\ magic_num[hand[W]] # "0" /\ hand'[W] = hand[W] + 1
        /\ pc'[W] = "w_fail" =>
              pc[W] = "w_alloc" /\ magic_num[hand[W]] # "0" /\ hand[W] + 1 = NBuffers
    BY <1>1, <1>7, PktWriterScans
  <2>3. /\ writes' <= MaxWrites /\ Taken <= Taken'
        /\ pc[W] = "w_alloc" /\ pc'[W] = "w_link" => Taken' = Taken + 1
    BY <1>1, <1>7, PktWriterTakesOne DEF PoolInv
  <2>4. writes' \in Nat /\ Taken' \in Int
    <3>1. writes' \in Nat
      BY <1>1, <1>7, PktWriterTypes DEF PktTypeInv, Ranges
    <3> QED BY <3>1 DEF Taken
  <2>5. Cardinality(Used') <= MaxBusy + Taken'
    <3>1. Cardinality(Used) <= MaxBusy + Taken
      BY DEF PoolInv
    <3>2. CASE pc[W] = "w_alloc" /\ pc'[W] = "w_link"
      <4>1. Used' \subseteq Used \cup {hand[W]}
        BY <2>1 DEF Used
      <4>2. /\ IsFiniteSet(Used \cup {hand[W]})
            /\ Cardinality(Used \cup {hand[W]}) \in {Cardinality(Used), Cardinality(Used) + 1}
        BY <1>3, FS_AddElement
      <4>3. Cardinality(Used') \in Nat /\ Cardinality(Used') <= Cardinality(Used \cup {hand[W]})
        BY <4>1, <4>2, FS_Subset, FS_CardinalityType
      <4> QED BY <1>2, <1>3, <1>4, <2>3, <3>1, <3>2, <4>2, <4>3
    <3>3. CASE ~(pc[W] = "w_alloc" /\ pc'[W] = "w_link")
      <4>1. Used' = Used
        BY <2>1, <3>3 DEF Used
      <4> QED BY <1>2, <1>3, <1>4, <2>3, <2>4, <3>1, <4>1
    <3> QED BY <3>2, <3>3
  <2>6. pc'[W] \in BeforePCs => hand'[W] = 0
    BY <2>2 DEF PoolInv
  <2>7. ASSUME pc'[W] = "w_alloc", NEW b \in Buffers, b < hand'[W]
        PROVE  InUse(b)'
    <3>1. pc[W] = "w_alloc" /\ magic_num[hand[W]] # "0" /\ hand'[W] = hand[W] + 1
      <4>1. pc[W] \in BeforePCs /\ hand'[W] = hand[W] => FALSE
        BY <1>2, <2>7 DEF PoolInv
      <4> QED BY <2>2, <2>7, <4>1
    <3>2. b < hand[W] \/ b = hand[W]
      BY <1>2, <2>7, <3>1
    <3>3. InUse(b)
      BY <3>1, <3>2 DEF PoolInv, InUse
    <3> QED BY <2>1, <3>3
  <2>8. pc'[W] # "w_fail"
    <3>1. SUFFICES ASSUME pc'[W] = "w_fail" PROVE FALSE
      OBVIOUS
    <3>2. pc[W] = "w_alloc" /\ magic_num[hand[W]] # "0" /\ hand[W] + 1 = NBuffers
      BY <2>2, <3>1
    <3>3. ASSUME NEW b \in Buffers PROVE InUse(b)
      <4>1. b < hand[W] \/ b = hand[W]
        BY <1>2, <3>2
      <4> QED BY <3>2, <4>1 DEF PoolInv, InUse
    <3>4. Used = Buffers
      BY <3>3 DEF Used
    <3>5. Cardinality(Used) <= MaxBusy + Taken /\ Taken < MaxWrites
      BY <1>4, <3>2 DEF PoolInv
    <3> QED BY <1>2, <1>3, <1>4, <3>4, <3>5
  <2> QED BY <2>3, <2>5, <2>6, <2>7, <2>8 DEF PoolInv, PoolLasts
<1> QED BY <1>5, <1>6, <1>7 DEF Next

\* With a buffer for each write, besides those that others use, no assert fails,
\* whatever buffers the application keeps or never takes.
THEOREM PacketPool ==
  Packet /\ OneAtATime /\ RingDivides /\ Plenty => (Spec => []NoAssertFails)
<1> SUFFICES ASSUME Packet, OneAtATime, RingDivides, Plenty
             PROVE  Spec => []NoAssertFails
  OBVIOUS
<1>1. Spec => []PktInv
  BY PacketInvariant
<1>2. Init => AssertInv /\ PoolInv /\ PoolLasts
  BY AssertInit, PoolInit
<1> DEFINE I == AssertInv /\ PoolInv /\ PoolLasts
<1>3. PktInv /\ I /\ [Next]_vars => I'
  BY AssertInductive, PoolInductive
<1>4. I => NoAssertFails
  BY DEF AssertInv
<1> HIDE DEF I
<1>5. Init => I
  BY <1>2 DEF I
<1> QED BY <1>1, <1>3, <1>4, <1>5, PTL DEF Spec

=============================================================================
