------------------------- MODULE ReceiveRequestsProofs -------------------------
(***************************************************************************)
(* Non-blocking receives, for any size of the queue and any number of      *)
(* requests, messages and calls: messages are delivered in order whoever   *)
(* cancels what; and, for the use the application makes of them, handles   *)
(* stay those of live requests, a success is a receipt, and the assert of  *)
(* check_receive_request_ holds.                                           *)
(***************************************************************************)
EXTENDS ReceiveRequests, ModularArithmetic, SequenceTheorems, TLAPS

-----------------------------------------------------------------------------
(* What the theorems assume of the application.                            *)

\* mcapi_wait_any is not given handles that were cleared, or there is only one.
FreshArray == ~ReuseArray \/ NHandles = 1

\* No thread cancels a request that another one may be waiting for.
OwnCancels == "other" \notin MayCancel

-----------------------------------------------------------------------------
(* The invariant.                                                          *)

PCs    == {"idle", "setup", "test", "query", "mark", "receive", "pop", "abort"}
Busy   == {"setup", "query", "mark", "receive", "pop"}
States == {"FREE", "VALID", "RECEIVED", "COMPLETED", "CANCELLED"}

\* The ranges.
TypeInv ==
  /\ pushed \in Nat /\ popped \in Nat /\ popped <= pushed
  /\ DOMAIN entry = Slots /\ DOMAIN reserved = Slots
  /\ state \in [Requests -> States]
  /\ DOMAIN ep_qindex = Requests /\ DOMAIN status = Requests /\ got \in [Requests -> Nat]
  /\ handle \in [Handles -> Requests \cup {NoHandle}]
  /\ pc \in PCs /\ cur \in Handles /\ any \in BOOLEAN /\ hollow \in BOOLEAN
  /\ cancelling \in Requests \cup {NoHandle}
  /\ delivered \in Seq(Nat)

\* The queue holds the messages between those popped and those pushed.
QueueInv ==
  /\ pushed <= popped + Entries
  /\ \A i \in Nat : popped <= i /\ i < pushed => entry[i % Entries] = i + 1

\* Where the receiving thread is in its call: it has a request, and from the
\* look at the head of the queue on there is a message, in the entry found.
CallInv ==
  /\ pc \in Busy => handle[cur] # NoHandle
  /\ pc \in {"mark", "receive", "pop"} => popped < pushed
  /\ pc \in {"mark", "receive"} => qindex = QueueHead
  /\ pc = "pop" => got[handle[cur]] > 0

\* Delivered are the messages popped, and the one about to be.
OrderInv ==
  /\ pc = "pop" => Len(delivered) = popped + 1
  /\ pc # "pop" => Len(delivered) = popped
  /\ \A i \in 1 .. Len(delivered) : delivered[i] = i

\* Every request that is not free has its handle, and only that one.
HandleInv ==
  /\ \A h \in Handles : handle[h] # NoHandle => state[handle[h]] # "FREE"
  /\ \A h, k \in Handles : h # k /\ handle[h] # NoHandle => handle[h] # handle[k]
  /\ \A r \in Requests : state[r] # "FREE" => \E h \in Handles : handle[h] = r
  /\ ~ReuseArray /\ pc = "test" => handle[cur] # NoHandle
  /\ ~ReuseArray /\ pc \in {"test", "query"} /\ any => \A h \in Handles : handle[h] # NoHandle

\* A request that is completed has a message or a reason; nobody cancels the
\* one that is waited for.
SuccessInv ==
  /\ ~hollow /\ pc # "abort"
  /\ \A r \in Requests : state[r] = "COMPLETED" => got[r] > 0 \/ status[r] # "SUCCESS"
  /\ pc = "query" => state[handle[cur]] # "CANCELLED"
  /\ pc = "mark" => state[handle[cur]] = "VALID"

IInv == TypeInv /\ QueueInv /\ CallInv /\ OrderInv

-----------------------------------------------------------------------------
(* Helpers.                                                                *)

\* The handles and requests are there.
LEMMA Ranges ==
  /\ 0 \in Requests /\ NoHandle \notin Requests /\ 1 \in Handles /\ NHandles \in Nat
  /\ Entries \in Nat /\ Entries > 0 /\ NoEntry \notin Slots
  /\ \A h \in Handles : h \in Nat /\ (h % NHandles) + 1 \in Handles
  /\ NHandles = 1 => (\A h \in Handles : h = 1) /\ (\A r \in Requests : r = 0)
<1>1. NHandles \in Nat /\ NHandles > 0 /\ Entries \in Nat /\ Entries > 0
  BY ReceiveAssumption
<1>2. ASSUME NEW h \in Handles PROVE h \in Nat /\ (h % NHandles) + 1 \in Handles
  <2>1. h \in Int /\ h \in Nat
    BY DEF Handles
  <2>2. h % NHandles \in 0 .. NHandles - 1
    BY <1>1, <2>1, DivMod
  <2> QED BY <1>1, <2>1, <2>2 DEF Handles
<1> QED BY <1>1, <1>2 DEF Requests, Handles, NoHandle, Slots, NoEntry

\* Where messages lie in the queue: those in it lie apart.
LEMMA InQueue ==
  ASSUME NEW i \in Nat
  PROVE  /\ i % Entries \in Slots
         /\ \A j \in Nat : i < j /\ j < i + Entries => i % Entries # j % Entries
<1>1. Entries \in Nat /\ Entries > 0 /\ i \in Int
  BY ReceiveAssumption
<1>2. i % Entries \in 0 .. Entries - 1
  BY <1>1, DivMod
<1>3. ASSUME NEW j \in Nat, i < j, j < i + Entries PROVE i % Entries # j % Entries
  <2>1. j \in Int
    OBVIOUS
  <2> QED BY <1>1, <1>3, <2>1, ModWindow
<1> QED BY <1>2, <1>3 DEF Slots

\* Every step keeps the ranges.
LEMMA Typed ==
  ASSUME TypeInv, QueueInv, CallInv, Next
  PROVE  TypeInv'
<1>1. /\ 0 \in Requests /\ NoHandle \notin Requests /\ 1 \in Handles
      /\ \A h \in Handles : h \in Nat /\ (h % NHandles) + 1 \in Handles
  BY Ranges
<1>2. popped < pushed => QueueHead \in Slots /\ entry[QueueHead] = popped + 1
  BY InQueue DEF QueueHead, QueueInv, TypeInv
<1>3. popped \in Nat => popped + 1 \in Nat
  OBVIOUS
<1>4. popped < pushed => Append(delivered, entry[QueueHead]) \in Seq(Nat)
  BY <1>2 DEF TypeInv
<1> USE <1>1, <1>2, <1>3, <1>4
<1> USE DEF TypeInv, CallInv, PCs, Busy, States, Empty, queueVars, requestVars, callVars,
            histVars, IndexOf
<1>5. CASE Send
  BY <1>5 DEF Send
<1>6. CASE WaitAny
  BY <1>6 DEF WaitAny
<1>7. CASE Setup
  BY <1>7 DEF Setup, SetupFull
<1>8. CASE TestEnded
  BY <1>8 DEF TestEnded, Remove
<1>9. CASE TestInvalid
  BY <1>9 DEF TestInvalid
<1>10. CASE TestPending
  BY <1>10 DEF TestPending
<1>11. CASE QueryEnded
  BY <1>11 DEF QueryEnded, Remove
<1>12. CASE QueryPending
  BY <1>12 DEF QueryPending
<1>13. CASE TestReady
  BY <1>13 DEF TestReady
<1>14. CASE MarkReceived
  BY <1>14 DEF MarkReceived
<1>15. CASE CopyMessage
  BY <1>15 DEF CopyMessage
<1>16. CASE PopAndRemove
  BY <1>16 DEF PopAndRemove, Remove
<1>17. CASE ClearReservation
  BY <1>17 DEF ClearReservation
<1>18. ASSUME NEW h \in Handles, RecvI(h)
      PROVE  TypeInv'
  <2>1. PICK r \in Requests : /\ state[r] = "FREE" /\ (RecvNow(h, r) \/ RecvLater(h, r))
                              /\ handle' = [handle EXCEPT ![h] = r]
                              /\ status' = [status EXCEPT ![r] = "SUCCESS"]
    BY <1>18 DEF RecvI
  <2>2. /\ pc = "idle" /\ handle[h] = NoHandle
        /\ any' = any /\ infinite' = infinite /\ cancelling' = cancelling /\ hollow' = hollow
    BY <1>18 DEF RecvI
  <2>3. CASE RecvNow(h, r)
    BY <1>18, <2>1, <2>2, <2>3 DEF RecvNow
  <2>4. CASE RecvLater(h, r)
    BY <1>18, <2>1, <2>2, <2>4 DEF RecvLater
  <2> QED BY <2>1, <2>3, <2>4
<1>19. ASSUME NEW h \in Handles, Wait(h)
      PROVE  TypeInv'
  BY <1>19 DEF Wait
<1>20. ASSUME NEW h \in Handles, CancelOwn(h)
      PROVE  TypeInv'
  BY <1>20 DEF CancelOwn
<1>21. ASSUME NEW h \in Handles, CancelOther(h)
      PROVE  TypeInv'
  BY <1>21 DEF CancelOther
<1> HIDE DEF TypeInv, CallInv, PCs, Busy, States, Empty, queueVars, requestVars, callVars,
             histVars, IndexOf
<1> QED BY <1>5, <1>6, <1>7, <1>8, <1>9, <1>10, <1>11, <1>12, <1>13, <1>14, <1>15, <1>16,
           <1>17, <1>18, <1>19, <1>20, <1>21 DEF Next, ReceiverStep

\* Pushing and popping keep the queue.
LEMMA QueueStep ==
  ASSUME TypeInv, QueueInv, CallInv, Next
  PROVE  QueueInv'
<1>1. /\ NoHandle \notin Requests /\ Entries \in Nat /\ Entries > 0
      /\ pushed \in Nat /\ popped \in Nat /\ popped <= pushed
  BY Ranges DEF TypeInv
<1> USE <1>1
<1> USE DEF QueueInv, Empty, queueVars, requestVars, callVars, histVars
<1>2. CASE Send
  <2>1. /\ pushed < popped + Entries /\ pushed' = pushed + 1 /\ popped' = popped
        /\ entry' = [entry EXCEPT ![pushed % Entries] = pushed + 1]
    BY <1>2 DEF Send
  <2>2. DOMAIN entry = Slots /\ pushed % Entries \in Slots
    BY InQueue DEF TypeInv
  <2>3. ASSUME NEW i \in Nat, popped <= i, i < pushed + 1
        PROVE  entry'[i % Entries] = i + 1
    <3>1. CASE i = pushed
      BY <2>1, <2>2, <3>1
    <3>2. CASE i < pushed
      <4>1. i % Entries # pushed % Entries
        BY <2>1, <2>3, <3>2, InQueue
      <4>2. entry[i % Entries] = i + 1 /\ i % Entries \in Slots
        BY <2>3, <3>2, InQueue
      <4> QED BY <2>1, <2>2, <4>1, <4>2
    <3> QED BY <2>3, <3>1, <3>2
  <2> QED BY <2>1, <2>3
<1>3. CASE WaitAny
  BY <1>3 DEF WaitAny
<1>4. CASE Setup
  BY <1>4 DEF Setup, SetupFull
<1>5. CASE TestEnded
  BY <1>5 DEF TestEnded, Remove
<1>6. CASE TestInvalid
  BY <1>6 DEF TestInvalid
<1>7. CASE TestPending
  BY <1>7 DEF TestPending
<1>8. CASE QueryEnded
  BY <1>8 DEF QueryEnded, Remove
<1>9. CASE QueryPending
  BY <1>9 DEF QueryPending
<1>10. CASE TestReady
  BY <1>10 DEF TestReady
<1>11. CASE MarkReceived
  BY <1>11 DEF MarkReceived
<1>12. CASE CopyMessage
  BY <1>12 DEF CopyMessage
<1>13. CASE PopAndRemove
  <2>1. popped' = popped + 1 /\ pushed' = pushed /\ entry' = entry
    BY <1>13 DEF PopAndRemove
  <2> QED BY <2>1
<1>14. CASE ClearReservation
  BY <1>14 DEF ClearReservation
<1>15. ASSUME NEW h \in Handles, RecvI(h)
      PROVE  QueueInv'
  <2>1. PICK r \in Requests : /\ state[r] = "FREE" /\ (RecvNow(h, r) \/ RecvLater(h, r))
                              /\ handle' = [handle EXCEPT ![h] = r]
                              /\ status' = [status EXCEPT ![r] = "SUCCESS"]
    BY <1>15 DEF RecvI
  <2>2. /\ pc = "idle" /\ handle[h] = NoHandle
        /\ any' = any /\ infinite' = infinite /\ cancelling' = cancelling /\ hollow' = hollow
    BY <1>15 DEF RecvI
  <2>3. CASE RecvNow(h, r)
    BY <1>15, <2>1, <2>2, <2>3 DEF RecvNow
  <2>4. CASE RecvLater(h, r)
    BY <1>15, <2>1, <2>2, <2>4 DEF RecvLater
  <2> QED BY <2>1, <2>3, <2>4
<1>16. ASSUME NEW h \in Handles, Wait(h)
      PROVE  QueueInv'
  BY <1>16 DEF Wait
<1>17. ASSUME NEW h \in Handles, CancelOwn(h)
      PROVE  QueueInv'
  BY <1>17 DEF CancelOwn
<1>18. ASSUME NEW h \in Handles, CancelOther(h)
      PROVE  QueueInv'
  BY <1>18 DEF CancelOther
<1> HIDE DEF QueueInv, Empty, queueVars, requestVars, callVars, histVars
<1> QED BY <1>2, <1>3, <1>4, <1>5, <1>6, <1>7, <1>8, <1>9, <1>10, <1>11, <1>12, <1>13,
           <1>14, <1>15, <1>16, <1>17, <1>18 DEF Next, ReceiverStep

\* The receiving thread goes through its call.
LEMMA CallStep ==
  ASSUME TypeInv, QueueInv, CallInv, Next
  PROVE  CallInv'
<1>1. /\ NoHandle \notin Requests /\ Entries \in Nat /\ Entries > 0
      /\ pushed \in Nat /\ popped \in Nat /\ popped <= pushed
  BY Ranges DEF TypeInv
<1>2. popped < pushed => entry[QueueHead] = popped + 1
  BY DEF QueueHead, QueueInv, TypeInv
<1>3. popped < pushed => popped + 1 > 0
  BY <1>1
<1>0. popped' = popped => QueueHead' = QueueHead
  BY DEF QueueHead
<1> USE <1>0, <1>1, <1>2, <1>3
<1> USE DEF TypeInv, CallInv, Busy, Empty, MayReceive, queueVars, requestVars, callVars,
            histVars, IndexOf
<1>4. CASE Send
  BY <1>4 DEF Send
<1>5. CASE WaitAny
  BY <1>5 DEF WaitAny
<1>6. CASE Setup
  BY <1>6 DEF Setup, SetupFull
<1>7. CASE TestEnded
  BY <1>7 DEF TestEnded, Remove
<1>8. CASE TestInvalid
  BY <1>8 DEF TestInvalid
<1>9. CASE TestPending
  BY <1>9 DEF TestPending
<1>10. CASE QueryEnded
  BY <1>10 DEF QueryEnded, Remove
<1>11. CASE QueryPending
  BY <1>11 DEF QueryPending
<1>12. CASE TestReady
  BY <1>12 DEF TestReady
<1>13. CASE MarkReceived
  BY <1>13 DEF MarkReceived
<1>14. CASE CopyMessage
  BY <1>14 DEF CopyMessage
<1>15. CASE PopAndRemove
  BY <1>15 DEF PopAndRemove, Remove
<1>16. CASE ClearReservation
  BY <1>16 DEF ClearReservation
<1>17. ASSUME NEW h \in Handles, RecvI(h)
      PROVE  CallInv'
  <2>1. PICK r \in Requests : /\ state[r] = "FREE" /\ (RecvNow(h, r) \/ RecvLater(h, r))
                              /\ handle' = [handle EXCEPT ![h] = r]
                              /\ status' = [status EXCEPT ![r] = "SUCCESS"]
    BY <1>17 DEF RecvI
  <2>2. /\ pc = "idle" /\ handle[h] = NoHandle
        /\ any' = any /\ infinite' = infinite /\ cancelling' = cancelling /\ hollow' = hollow
    BY <1>17 DEF RecvI
  <2>3. CASE RecvNow(h, r)
    BY <1>17, <2>1, <2>2, <2>3 DEF RecvNow
  <2>4. CASE RecvLater(h, r)
    BY <1>17, <2>1, <2>2, <2>4 DEF RecvLater
  <2> QED BY <2>1, <2>3, <2>4
<1>18. ASSUME NEW h \in Handles, Wait(h)
      PROVE  CallInv'
  BY <1>18 DEF Wait
<1>19. ASSUME NEW h \in Handles, CancelOwn(h)
      PROVE  CallInv'
  BY <1>19 DEF CancelOwn
<1>20. ASSUME NEW h \in Handles, CancelOther(h)
      PROVE  CallInv'
  BY <1>20 DEF CancelOther
<1> HIDE DEF TypeInv, CallInv, Busy, Empty, MayReceive, queueVars, requestVars, callVars,
             histVars, IndexOf
<1> QED BY <1>4, <1>5, <1>6, <1>7, <1>8, <1>9, <1>10, <1>11, <1>12, <1>13, <1>14, <1>15,
           <1>16, <1>17, <1>18, <1>19, <1>20 DEF Next, ReceiverStep

\* A message more is delivered.
LEMMA OneMore ==
  ASSUME NEW s \in Seq(Nat), NEW n \in Nat, Len(s) = n, \A i \in 1 .. Len(s) : s[i] = i
  PROVE  LET u == Append(s, n + 1) IN Len(u) = n + 1 /\ \A i \in 1 .. Len(u) : u[i] = i
<1> DEFINE u == Append(s, n + 1)
<1>1. Len(u) = n + 1 /\ u[n + 1] = n + 1 /\ \A i \in 1 .. n : u[i] = s[i]
  BY AppendProperties
<1> HIDE DEF u
<1>2. \A i \in 1 .. Len(u) : u[i] = i
  <2> SUFFICES ASSUME NEW i \in 1 .. n + 1 PROVE u[i] = i
    BY <1>1
  <2>1. CASE i = n + 1
    BY <1>1, <2>1
  <2>2. CASE i # n + 1
    <3>1. i \in 1 .. n
      BY <2>2
    <3> QED BY <1>1, <3>1
  <2> QED BY <2>1, <2>2
<1> QED BY <1>1, <1>2 DEF u

\* The messages are delivered in order.
LEMMA OrderStep ==
  ASSUME TypeInv, QueueInv, CallInv, OrderInv, Next
  PROVE  OrderInv'
<1>1. /\ NoHandle \notin Requests /\ Entries \in Nat /\ Entries > 0
      /\ pushed \in Nat /\ popped \in Nat /\ popped <= pushed
  BY Ranges DEF TypeInv
<1>2. ASSUME popped < pushed, Len(delivered) = popped
      PROVE  /\ Len(Append(delivered, entry[QueueHead])) = popped + 1
             /\ \A i \in 1 .. Len(Append(delivered, entry[QueueHead])) :
                  Append(delivered, entry[QueueHead])[i] = i
  <2>1. entry[QueueHead] = popped + 1
    BY <1>1, <1>2 DEF QueueHead, QueueInv
  <2> QED BY <1>1, <1>2, <2>1, OneMore DEF OrderInv, TypeInv
<1> USE <1>1, <1>2
<1> USE DEF OrderInv, CallInv, Empty, queueVars, requestVars, callVars, histVars
<1>3. CASE Send
  BY <1>3 DEF Send
<1>4. CASE WaitAny
  BY <1>4 DEF WaitAny
<1>5. CASE Setup
  BY <1>5 DEF Setup, SetupFull
<1>6. CASE TestEnded
  BY <1>6 DEF TestEnded, Remove
<1>7. CASE TestInvalid
  BY <1>7 DEF TestInvalid
<1>8. CASE TestPending
  BY <1>8 DEF TestPending
<1>9. CASE QueryEnded
  BY <1>9 DEF QueryEnded, Remove
<1>10. CASE QueryPending
  BY <1>10 DEF QueryPending
<1>11. CASE TestReady
  BY <1>11 DEF TestReady
<1>12. CASE MarkReceived
  BY <1>12 DEF MarkReceived
<1>13. CASE CopyMessage
  BY <1>13 DEF CopyMessage
<1>14. CASE PopAndRemove
  BY <1>14 DEF PopAndRemove, Remove
<1>15. CASE ClearReservation
  BY <1>15 DEF ClearReservation
<1>16. ASSUME NEW h \in Handles, RecvI(h)
      PROVE  OrderInv'
  <2>1. PICK r \in Requests : /\ state[r] = "FREE" /\ (RecvNow(h, r) \/ RecvLater(h, r))
                              /\ handle' = [handle EXCEPT ![h] = r]
                              /\ status' = [status EXCEPT ![r] = "SUCCESS"]
    BY <1>16 DEF RecvI
  <2>2. /\ pc = "idle" /\ handle[h] = NoHandle
        /\ any' = any /\ infinite' = infinite /\ cancelling' = cancelling /\ hollow' = hollow
    BY <1>16 DEF RecvI
  <2>3. CASE RecvNow(h, r)
    <3>1. /\ popped < pushed /\ popped' = popped + 1 /\ pc' = pc
          /\ delivered' = Append(delivered, entry[QueueHead])
      BY <2>3 DEF RecvNow
    <3> QED BY <1>1, <1>2, <2>2, <3>1
  <2>4. CASE RecvLater(h, r)
    BY <1>16, <2>1, <2>2, <2>4 DEF RecvLater
  <2> QED BY <2>1, <2>3, <2>4
<1>17. ASSUME NEW h \in Handles, Wait(h)
      PROVE  OrderInv'
  BY <1>17 DEF Wait
<1>18. ASSUME NEW h \in Handles, CancelOwn(h)
      PROVE  OrderInv'
  BY <1>18 DEF CancelOwn
<1>19. ASSUME NEW h \in Handles, CancelOther(h)
      PROVE  OrderInv'
  BY <1>19 DEF CancelOther
<1> HIDE DEF OrderInv, CallInv, Empty, queueVars, requestVars, callVars, histVars
<1> QED BY <1>3, <1>4, <1>5, <1>6, <1>7, <1>8, <1>9, <1>10, <1>11, <1>12, <1>13, <1>14,
           <1>15, <1>16, <1>17, <1>18, <1>19 DEF Next, ReceiverStep

\* Handles stay those of live requests.
LEMMA HandleStep ==
  ASSUME FreshArray, TypeInv, CallInv, HandleInv, Next
  PROVE  HandleInv'
<1>1. /\ NoHandle \notin Requests /\ 0 \in Requests /\ 1 \in Handles
      /\ \A h \in Handles : (h % NHandles) + 1 \in Handles
      /\ NHandles = 1 => (\A h \in Handles : h = 1) /\ (\A r \in Requests : r = 0)
  BY Ranges
<1> USE <1>1
<1> USE DEF TypeInv, CallInv, Busy, States, Empty, MayReceive, queueVars, requestVars,
            callVars, histVars, IndexOf, HandleInv, FreshArray
<1>2. CASE Send
  BY <1>2 DEF Send
<1>3. CASE WaitAny
  BY <1>3 DEF WaitAny
<1>4. CASE Setup
  BY <1>4 DEF Setup, SetupFull
<1>5. CASE TestEnded
  BY <1>5 DEF TestEnded, Remove
<1>6. CASE TestInvalid
  BY <1>6 DEF TestInvalid
<1>7. CASE TestPending
  BY <1>7 DEF TestPending
<1>8. CASE QueryEnded
  BY <1>8 DEF QueryEnded, Remove
<1>9. CASE QueryPending
  BY <1>9 DEF QueryPending
<1>10. CASE TestReady
  BY <1>10 DEF TestReady
<1>11. CASE MarkReceived
  BY <1>11 DEF MarkReceived
<1>12. CASE CopyMessage
  BY <1>12 DEF CopyMessage
<1>13. CASE PopAndRemove
  BY <1>13 DEF PopAndRemove, Remove
<1>14. CASE ClearReservation
  BY <1>14 DEF ClearReservation
<1>15. ASSUME NEW h \in Handles, RecvI(h)
      PROVE  HandleInv'
  <2>1. PICK r \in Requests : /\ state[r] = "FREE" /\ (RecvNow(h, r) \/ RecvLater(h, r))
                              /\ handle' = [handle EXCEPT ![h] = r]
                              /\ status' = [status EXCEPT ![r] = "SUCCESS"]
    BY <1>15 DEF RecvI
  <2>2. /\ pc = "idle" /\ handle[h] = NoHandle
        /\ any' = any /\ infinite' = infinite /\ cancelling' = cancelling /\ hollow' = hollow
    BY <1>15 DEF RecvI
  <2>3. CASE RecvNow(h, r)
    BY <1>15, <2>1, <2>2, <2>3 DEF RecvNow
  <2>4. CASE RecvLater(h, r)
    BY <1>15, <2>1, <2>2, <2>4 DEF RecvLater
  <2> QED BY <2>1, <2>3, <2>4
<1>16. ASSUME NEW h \in Handles, Wait(h)
      PROVE  HandleInv'
  BY <1>16 DEF Wait
<1>17. ASSUME NEW h \in Handles, CancelOwn(h)
      PROVE  HandleInv'
  BY <1>17 DEF CancelOwn
<1>18. ASSUME NEW h \in Handles, CancelOther(h)
      PROVE  HandleInv'
  BY <1>18 DEF CancelOther
<1> HIDE DEF TypeInv, CallInv, Busy, States, Empty, MayReceive, queueVars, requestVars,
             callVars, histVars, IndexOf, HandleInv, FreshArray
<1> QED BY <1>2, <1>3, <1>4, <1>5, <1>6, <1>7, <1>8, <1>9, <1>10, <1>11, <1>12, <1>13,
           <1>14, <1>15, <1>16, <1>17, <1>18 DEF Next, ReceiverStep

\* A success is a receipt.
LEMMA SuccessStep ==
  ASSUME FreshArray, OwnCancels, TypeInv, QueueInv, CallInv, HandleInv, SuccessInv, Next
  PROVE  SuccessInv'
<1>1. /\ NoHandle \notin Requests /\ 0 \in Requests /\ 1 \in Handles
      /\ \A h \in Handles : (h % NHandles) + 1 \in Handles
      /\ NHandles = 1 => (\A h \in Handles : h = 1) /\ (\A r \in Requests : r = 0)
  BY Ranges
<1>2. popped < pushed => entry[QueueHead] = popped + 1 /\ popped + 1 > 0
  BY DEF QueueHead, QueueInv, TypeInv
<1> USE <1>1, <1>2
<1> USE DEF TypeInv, CallInv, Busy, States, Empty, MayReceive, queueVars, requestVars,
            callVars, histVars, IndexOf, HandleInv, SuccessInv, FreshArray, OwnCancels
<1>3. CASE Send
  BY <1>3 DEF Send
<1>4. CASE WaitAny
  BY <1>4 DEF WaitAny
<1>5. CASE Setup
  <2>1. pc = "setup" /\ pc' = "idle" /\ got' = got /\ hollow' = hollow
    BY <1>5 DEF Setup
  <2>2. CASE SetupEntries = {}
    <3>1. /\ state' = [state EXCEPT ![handle[cur]] = "COMPLETED"]
          /\ status' = [status EXCEPT ![handle[cur]] = "MEM_LIMIT"]
      BY <1>5, <2>2 DEF Setup, SetupFull
    <3> QED BY <2>1, <3>1
  <2>3. CASE SetupEntries # {}
    <3>1. state' = state /\ status' = status
      BY <1>5, <2>3 DEF Setup
    <3> QED BY <2>1, <3>1
  <2> QED BY <2>2, <2>3
<1>6. CASE TestEnded
  <2>1. handle[cur] # NoHandle
    BY <1>6 DEF TestEnded
  <2> QED BY <1>6, <2>1 DEF TestEnded, Remove, EndStatus
<1>7. CASE TestInvalid
  BY <1>7 DEF TestInvalid
<1>8. CASE TestPending
  BY <1>8 DEF TestPending
<1>9. CASE QueryEnded
  BY <1>9 DEF QueryEnded, Remove
<1>10. CASE QueryPending
  BY <1>10 DEF QueryPending
<1>11. CASE TestReady
  BY <1>11 DEF TestReady
<1>12. CASE MarkReceived
  BY <1>12 DEF MarkReceived
<1>13. CASE CopyMessage
  BY <1>13 DEF CopyMessage
<1>14. CASE PopAndRemove
  BY <1>14 DEF PopAndRemove, Remove
<1>15. CASE ClearReservation
  BY <1>15 DEF ClearReservation
<1>16. ASSUME NEW h \in Handles, RecvI(h)
      PROVE  SuccessInv'
  <2>1. PICK r \in Requests : /\ state[r] = "FREE" /\ (RecvNow(h, r) \/ RecvLater(h, r))
                              /\ handle' = [handle EXCEPT ![h] = r]
                              /\ status' = [status EXCEPT ![r] = "SUCCESS"]
    BY <1>16 DEF RecvI
  <2>2. /\ pc = "idle" /\ handle[h] = NoHandle
        /\ any' = any /\ infinite' = infinite /\ cancelling' = cancelling /\ hollow' = hollow
    BY <1>16 DEF RecvI
  <2>3. CASE RecvNow(h, r)
    BY <1>16, <2>1, <2>2, <2>3 DEF RecvNow
  <2>4. CASE RecvLater(h, r)
    BY <1>16, <2>1, <2>2, <2>4 DEF RecvLater
  <2> QED BY <2>1, <2>3, <2>4
<1>17. ASSUME NEW h \in Handles, Wait(h)
      PROVE  SuccessInv'
  BY <1>17 DEF Wait
<1>18. ASSUME NEW h \in Handles, CancelOwn(h)
      PROVE  SuccessInv'
  BY <1>18 DEF CancelOwn
<1>19. ASSUME NEW h \in Handles, CancelOther(h)
      PROVE  SuccessInv'
  BY <1>19 DEF CancelOther
<1> HIDE DEF TypeInv, CallInv, Busy, States, Empty, MayReceive, queueVars, requestVars,
             callVars, histVars, IndexOf, HandleInv, SuccessInv, FreshArray, OwnCancels
<1> QED BY <1>3, <1>4, <1>5, <1>6, <1>7, <1>8, <1>9, <1>10, <1>11, <1>12, <1>13, <1>14,
           <1>15, <1>16, <1>17, <1>18, <1>19 DEF Next, ReceiverStep

-----------------------------------------------------------------------------
(* The theorems.                                                           *)

\* At first there is no message, no request and no call.
LEMMA AtFirst ==
  ASSUME Init
  PROVE  IInv /\ HandleInv /\ SuccessInv
<1>1. 1 \in Handles /\ NoHandle \notin Requests /\ Entries \in Nat
  BY Ranges
<1>2. delivered = <<>> /\ <<>> \in Seq(Nat) /\ Len(<<>>) = 0
  BY DEF Init
<1>3. TypeInv
  <2>1. delivered \in Seq(Nat)
    BY <1>2
  <2>2. /\ pushed \in Nat /\ popped \in Nat /\ popped <= pushed
        /\ pc \in PCs /\ cur \in Handles
    BY <1>1 DEF Init, PCs
  <2>5. any \in BOOLEAN /\ hollow \in BOOLEAN
    BY DEF Init
  <2>3. /\ state \in [Requests -> States] /\ got \in [Requests -> Nat]
        /\ handle \in [Handles -> Requests \cup {NoHandle}]
        /\ cancelling \in Requests \cup {NoHandle}
    BY DEF Init, States
  <2>4. /\ DOMAIN entry = Slots /\ DOMAIN reserved = Slots
        /\ DOMAIN ep_qindex = Requests /\ DOMAIN status = Requests
    BY DEF Init
  <2> QED BY <2>1, <2>2, <2>3, <2>4, <2>5 DEF TypeInv
<1>4. QueueInv /\ CallInv
  BY <1>1 DEF Init, QueueInv, CallInv, Busy
<1>5. OrderInv
  BY <1>2 DEF Init, OrderInv
<1> QED BY <1>1, <1>3, <1>4, <1>5 DEF Init, IInv, HandleInv, SuccessInv

\* Nothing changes when nothing happens.
LEMMA Stutters ==
  ASSUME UNCHANGED vars
  PROVE  /\ IInv => IInv'
         /\ HandleInv => HandleInv'
         /\ SuccessInv => SuccessInv'
<1> USE DEF vars, queueVars, requestVars, callVars, histVars
<1>1. TypeInv => TypeInv'
  BY DEF TypeInv
<1>2. (QueueInv => QueueInv') /\ (CallInv => CallInv') /\ (OrderInv => OrderInv')
  BY DEF QueueInv, CallInv, OrderInv, QueueHead
<1>3. (HandleInv => HandleInv') /\ (SuccessInv => SuccessInv')
  BY DEF HandleInv, SuccessInv
<1> QED BY <1>1, <1>2, <1>3 DEF IInv

\* The invariant of the queue and of the receiving thread, whoever cancels
\* whatever and whichever handles mcapi_wait_any is given.
THEOREM ReceiveInvariant == Spec => []IInv
<1>1. Init => IInv
  BY AtFirst
<1>2. IInv /\ [Next]_vars => IInv'
  <2>1. IInv /\ Next => IInv'
    BY Typed, QueueStep, CallStep, OrderStep DEF IInv
  <2> QED BY <2>1, Stutters
<1> QED BY <1>1, <1>2, PTL DEF Spec

\* Messages are delivered in the order they were sent, each of them once.
THEOREM InOrder == Spec => []DeliveredInOrder
<1>1. IInv => DeliveredInOrder
  BY DEF IInv, OrderInv, DeliveredInOrder
<1> QED BY <1>1, ReceiveInvariant, PTL

\* With handles that are not used again, every handle is that of one live request.
THEOREM HandlesLive == FreshArray => (Spec => []HandleIsLive)
<1> SUFFICES ASSUME FreshArray PROVE Spec => []HandleIsLive
  OBVIOUS
<1> DEFINE J == IInv /\ HandleInv
<1>1. Init => J
  BY AtFirst
<1>2. J /\ [Next]_vars => J'
  <2>1. J /\ Next => J'
    BY Typed, QueueStep, CallStep, OrderStep, HandleStep DEF IInv
  <2> QED BY <2>1, Stutters
<1>3. J => HandleIsLive
  BY DEF HandleInv, HandleIsLive
<1> HIDE DEF J
<1> QED BY <1>1, <1>2, <1>3, PTL DEF Spec

\* If, besides, no other thread cancels, a success is the receipt of a message
\* and the assert of check_receive_request_ holds.
LEMMA WaitsEndWell == FreshArray /\ OwnCancels => (Spec => []SuccessInv)
<1> SUFFICES ASSUME FreshArray, OwnCancels PROVE Spec => []SuccessInv
  OBVIOUS
<1> DEFINE J == IInv /\ HandleInv /\ SuccessInv
<1>1. Init => J
  BY AtFirst
<1>2. J /\ [Next]_vars => J'
  <2>1. J /\ Next => J'
    BY Typed, QueueStep, CallStep, OrderStep, HandleStep, SuccessStep DEF IInv
  <2> QED BY <2>1, Stutters
<1>3. J => SuccessInv
  OBVIOUS
<1> HIDE DEF J
<1> QED BY <1>1, <1>2, <1>3, PTL DEF Spec

\* mcapi_wait and mcapi_wait_any report success only for a request whose buffer
\* was filled.
THEOREM SuccessReceived == FreshArray /\ OwnCancels => (Spec => []SuccessIsReceipt)
<1>1. SuccessInv => SuccessIsReceipt
  BY DEF SuccessInv, SuccessIsReceipt
<1> QED BY <1>1, WaitsEndWell, PTL

\* The compare-and-swap of check_receive_request_ from REQUEST_VALID to
\* REQUEST_RECEIVED, which is asserted, succeeds.
THEOREM MarkAssertHolds == FreshArray /\ OwnCancels => (Spec => [](pc # "abort"))
<1>1. SuccessInv => pc # "abort"
  BY DEF SuccessInv
<1> QED BY <1>1, WaitsEndWell, PTL

=============================================================================
