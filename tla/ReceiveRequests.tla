--------------------------- MODULE ReceiveRequests ---------------------------
(***************************************************************************)
(* Non-blocking receives of connectionless messages: mcapi_trans_msg_recv_i*)
(* and the request it leaves when the queue is empty, which reserves an    *)
(* entry of the queue (setup_request), is completed by mcapi_trans_test_i  *)
(* (check_receive_request_) from mcapi_trans_wait and mcapi_trans_wait_any,*)
(* and can be cancelled, by its own or by another thread.                  *)
(*                                                                         *)
(* One thread receives from the endpoint, one sends to it.  For these two  *)
(* MessageQueue shows push and pop to be the steps of a bounded FIFO, so   *)
(* here each is one step, and so is a reservation: only the receiver       *)
(* touches the reserved flags.  The state of a request is shared with the  *)
(* cancelling thread, and each access to it is a step.                     *)
(***************************************************************************)
EXTENDS Integers, Sequences, FiniteSets

LOCAL INSTANCE FiniteSetsExt

CONSTANTS
  Entries,     \* MCAPI_MAX_QUEUE_ENTRIES
  NHandles,    \* requests the receiving application keeps at a time
  MayCancel,   \* who calls mcapi_cancel: the thread that issued the request
               \* ("owner"), another one ("other"), both or neither
  ReuseArray,  \* TRUE: wait_any is given handles that earlier calls cleared
  MaxMsgs,     \* bound: messages sent
  MaxIssues    \* bound: calls of recv_i

ASSUME ReceiveAssumption ==
  /\ Entries \in Nat \ {0} /\ NHandles \in Nat \ {0}
  /\ MayCancel \subseteq {"owner", "other"}
  /\ ReuseArray \in BOOLEAN
  /\ MaxMsgs \in Nat /\ MaxIssues \in Nat

Slots    == 0 .. Entries - 1
Requests == 0 .. NHandles - 1        \* indices into mcapi_rq.data
Handles  == 1 .. NHandles            \* the application's array of mcapi_request_t
NoHandle == -1                       \* a handle with the value 0
NoEntry  == -1                       \* ep_qindex = -1

VARIABLES
  pushed, popped,  \* messages pushed to and popped from the queue
  entry,           \* message in each entry
  reserved,        \* elements[s].reserved
  state,           \* data[r].state
  ep_qindex,       \* data[r].ep_qindex
  status,          \* data[r].status
  got,             \* message received for request r, 0 for none
  handle,          \* request of each handle of the application
  pc, cur, any, infinite,  \* the receiving thread: handle it works on, whether
                           \* in wait_any, and whether without timeout
  qindex,          \* entry that check_receive_request_ has found to be ready
  cancelling,      \* request the other thread is cancelling, or NoHandle
  issues,          \* history: calls of recv_i
  delivered,       \* history: messages in the order of their delivery
  hollow           \* history: a request that received nothing was reported as
                   \* a success

queueVars   == <<pushed, popped, entry, reserved>>
requestVars == <<state, ep_qindex, status, got>>
callVars    == <<cur, any, infinite, qindex>>
histVars    == <<issues, delivered, hollow>>
vars == <<queueVars, requestVars, handle, pc, callVars, cancelling, histVars>>

Empty == pushed = popped
QueueHead  == popped % Entries            \* mcapi_trans_queue_head

\* mcapi_trans_send
Send ==
  /\ pushed < MaxMsgs /\ pushed - popped < Entries
  /\ entry' = [entry EXCEPT ![pushed % Entries] = pushed + 1]
  /\ pushed' = pushed + 1
  /\ UNCHANGED <<popped, reserved, requestVars, handle, pc, callVars, cancelling, histVars>>

-----------------------------------------------------------------------------
(* mcapi_trans_msg_recv_i                                                  *)

\* mcapi_trans_recv and setup_request: a message is there and the request is
\* completed at once
RecvNow(h, r) ==
  /\ ~Empty
  /\ state' = [state EXCEPT ![r] = "COMPLETED"]
  /\ got' = [got EXCEPT ![r] = entry[QueueHead]]
  /\ reserved' = [reserved EXCEPT ![QueueHead] = FALSE]
  /\ popped' = popped + 1
  /\ delivered' = Append(delivered, entry[QueueHead])
  /\ UNCHANGED <<pushed, entry, ep_qindex, pc, cur>>

\* the queue is empty; setup_request is still to come
RecvLater(h, r) ==
  /\ Empty
  /\ state' = [state EXCEPT ![r] = "VALID"]
  /\ got' = [got EXCEPT ![r] = 0]
  /\ pc' = "setup" /\ cur' = h
  /\ UNCHANGED <<queueVars, ep_qindex, delivered>>

RecvI(h) ==
  /\ pc = "idle" /\ handle[h] = NoHandle /\ issues < MaxIssues
  /\ issues' = issues + 1
  /\ \E r \in Requests :
       /\ state[r] = "FREE"
       /\ RecvNow(h, r) \/ RecvLater(h, r)
       /\ handle' = [handle EXCEPT ![h] = r]
       /\ status' = [status EXCEPT ![r] = "SUCCESS"]
  /\ UNCHANGED <<any, infinite, qindex, cancelling, hollow>>

\* (mutant: the walk begins one entry after the head)
SetupEntriesLate == {k \in Slots : k > 0 /\ ~reserved[(QueueHead + k) % Entries]}

\* entries, as distances from the head, that no request has reserved
SetupEntries == {k \in Slots : ~reserved[(QueueHead + k) % Entries]}

\* (mutant: the error is not stored)
SetupFullSilent(r) ==
  /\ state' = [state EXCEPT ![r] = "COMPLETED"]
  /\ UNCHANGED <<status, reserved, ep_qindex>>

\* every entry is taken: the request is completed with MCAPI_ERR_MEM_LIMIT
SetupFull(r) ==
  /\ state' = [state EXCEPT ![r] = "COMPLETED"]
  /\ status' = [status EXCEPT ![r] = "MEM_LIMIT"]
  /\ UNCHANGED <<reserved, ep_qindex>>

\* "find the queue entry that doesn't already have a request associated with it"
Setup ==
  LET r == handle[cur]
      s == (QueueHead + Min(SetupEntries)) % Entries
  IN  /\ pc = "setup" /\ pc' = "idle"
      /\ IF SetupEntries = {}
         THEN SetupFull(r)
         ELSE /\ reserved' = [reserved EXCEPT ![s] = TRUE]
              /\ ep_qindex' = [ep_qindex EXCEPT ![r] = s]
              /\ UNCHANGED <<state, status>>
      /\ UNCHANGED <<pushed, popped, entry, got, handle, callVars, cancelling, histVars>>

-----------------------------------------------------------------------------
(* mcapi_trans_wait, mcapi_trans_wait_any and mcapi_trans_test_i           *)

Wait(h) ==
  /\ pc = "idle" /\ handle[h] # NoHandle
  /\ pc' = "test" /\ cur' = h /\ any' = FALSE
  /\ infinite' \in BOOLEAN
  /\ UNCHANGED <<queueVars, requestVars, handle, qindex, cancelling, histVars>>

\* mcapi_wait_any does not check the handles it is given
WaitAny ==
  /\ pc = "idle"
  /\ ReuseArray \/ \A h \in Handles : handle[h] # NoHandle
  /\ pc' = "test" /\ cur' = 1 /\ any' = TRUE
  /\ infinite' \in BOOLEAN
  /\ UNCHANGED <<queueVars, requestVars, handle, qindex, cancelling, histVars>>

\* mcapi_trans_decode_request_handle: a cleared handle is refused, but the
\* index it leaves is 0
IndexOf(h) == IF handle[h] = NoHandle THEN 0 ELSE handle[h]

\* (mutant: a message in the request's entry is enough)
MayReceiveBehind(r) ==
  ep_qindex[r] # NoEntry /\ entry[ep_qindex[r]] > popped

\* check_receive_request_: "confirm the request is at the front of the queue"
MayReceive(r) == ~Empty /\ ep_qindex[r] = QueueHead

\* (mutant: the handle is not cleared)
RemoveKeepsHandle(r, st) ==
  /\ state' = [state EXCEPT ![r] = "FREE"]
  /\ ep_qindex' = [ep_qindex EXCEPT ![r] = NoEntry]
  /\ status' = [status EXCEPT ![r] = st]
  /\ pc' = "idle"
  /\ UNCHANGED <<handle, hollow>>

\* mcapi_trans_remove_request after the status st is reported and the handle
\* cleared; the call returns TRUE
Remove(r, st) ==
  /\ state' = [state EXCEPT ![r] = "FREE"]
  /\ ep_qindex' = [ep_qindex EXCEPT ![r] = NoEntry]
  /\ status' = [status EXCEPT ![r] = st]
  /\ handle' = [handle EXCEPT ![cur] = NoHandle]
  /\ pc' = "idle"
  /\ hollow' = (hollow \/ (st = "SUCCESS" /\ got[r] = 0))

\* the status of a request that is found cancelled is set; that of a completed
\* one, or of the request 0 found through a cleared handle, is as it is
EndStatus(r) ==
  IF handle[cur] # NoHandle /\ state[r] = "CANCELLED" THEN "CANCELLED" ELSE status[r]

\* the request is completed or cancelled: report it and remove it.  A cleared
\* handle gets here too, with the request of index 0.
TestEnded ==
  LET r == IndexOf(cur)
  IN  /\ pc = "test" /\ state[r] \in {"COMPLETED", "CANCELLED"}
      /\ Remove(r, EndStatus(r))
      /\ UNCHANGED <<queueVars, got, callVars, cancelling, issues, delivered>>

\* MCAPI_ERR_REQUEST_INVALID
TestInvalid ==
  LET s == state[IndexOf(cur)]
  IN  /\ pc = "test"
      /\ s = "FREE" \/ (handle[cur] = NoHandle /\ s = "VALID")
      /\ pc' = "idle"
      /\ UNCHANGED <<queueVars, requestVars, handle, callVars, cancelling, histVars>>

\* the message is not there yet
TestPending ==
  LET r == handle[cur]
  IN  /\ pc = "test" /\ r # NoHandle
      /\ state[r] = "VALID" /\ ~MayReceive(r)
      /\ pc' = "query"
      /\ UNCHANGED <<queueVars, requestVars, handle, callVars, cancelling, histVars>>

\* "query completed again": the request may have been cancelled meanwhile
QueryEnded ==
  LET r == handle[cur]
  IN  /\ pc = "query" /\ state[r] = "CANCELLED"
      /\ Remove(r, status[r])
      /\ UNCHANGED <<queueVars, got, callVars, cancelling, issues, delivered>>

\* otherwise the next handle is tested, or the timeout has passed
QueryPending ==
  /\ pc = "query" /\ state[handle[cur]] # "CANCELLED"
  /\ \/ pc' = "test" /\ cur' = IF any THEN (cur % NHandles) + 1 ELSE cur
     \/ ~infinite /\ pc' = "idle" /\ UNCHANGED cur
  /\ UNCHANGED <<queueVars, requestVars, handle, any, infinite, qindex, cancelling, histVars>>

\* the message at the head is for this request: its entry is marked
TestReady ==
  LET r == handle[cur]
  IN  /\ pc = "test" /\ r # NoHandle
      /\ state[r] = "VALID" /\ MayReceive(r)
      /\ pc' = "mark" /\ qindex' = ep_qindex[r]
      /\ UNCHANGED <<queueVars, requestVars, handle, cur, any, infinite, cancelling, histVars>>

\* compare-and-swap REQUEST_VALID -> REQUEST_RECEIVED, asserted
MarkReceived ==
  LET r == handle[cur]
      valid == state[r] = "VALID"
  IN  /\ pc = "mark"
      /\ pc' = IF valid THEN "receive" ELSE "abort"
      /\ state' = IF valid THEN [state EXCEPT ![r] = "RECEIVED"] ELSE state
      /\ UNCHANGED <<queueVars, ep_qindex, status, got, handle, callVars, cancelling, histVars>>

\* mcapi_trans_recv_ on the entry found
CopyMessage ==
  LET r == handle[cur]
  IN  /\ pc = "receive" /\ pc' = "pop"
      /\ got' = [got EXCEPT ![r] = entry[qindex]]
      /\ reserved' = [reserved EXCEPT ![qindex] = FALSE]
      /\ state' = [state EXCEPT ![r] = "COMPLETED"]
      /\ delivered' = Append(delivered, entry[qindex])
      /\ UNCHANGED <<pushed, popped, entry, ep_qindex, status, handle, callVars, cancelling,
                     issues, hollow>>

\* (mutant: the entry is not popped)
PopAndRemoveOnly ==
  /\ pc = "pop"
  /\ Remove(handle[cur], status[handle[cur]])
  /\ qindex' = NoEntry
  /\ UNCHANGED <<queueVars, got, cur, any, infinite, cancelling, issues, delivered>>

\* "remove item from queue", and then the request
PopAndRemove ==
  /\ pc = "pop"
  /\ popped' = popped + 1
  /\ Remove(handle[cur], status[handle[cur]])
  /\ qindex' = NoEntry
  /\ UNCHANGED <<pushed, entry, reserved, got, cur, any, infinite, cancelling, issues,
                 delivered>>

-----------------------------------------------------------------------------
(* mcapi_trans_cancel and cancel_receive_request.  A request that is no    *)
(* longer valid is left alone.                                             *)

CancelOwn(h) ==
  LET r == handle[h]
  IN  /\ "owner" \in MayCancel /\ pc = "idle"
      /\ r # NoHandle /\ state[r] = "VALID"
      /\ state' = [state EXCEPT ![r] = "CANCELLED"]
      /\ ep_qindex' = [ep_qindex EXCEPT ![r] = NoEntry]
      /\ UNCHANGED <<queueVars, status, got, handle, pc, callVars, cancelling, histVars>>

\* another thread, which has the handle once recv_i has returned it, cancels:
\* first the state, then the reservation
CancelOther(h) ==
  LET r == handle[h]
  IN  /\ "other" \in MayCancel /\ cancelling = NoHandle /\ pc # "setup"
      /\ r # NoHandle /\ state[r] = "VALID"
      /\ state' = [state EXCEPT ![r] = "CANCELLED"]
      /\ cancelling' = r
      /\ UNCHANGED <<queueVars, ep_qindex, status, got, handle, pc, callVars, histVars>>

ClearReservation ==
  /\ cancelling # NoHandle
  /\ ep_qindex' = [ep_qindex EXCEPT ![cancelling] = NoEntry]
  /\ cancelling' = NoHandle
  /\ UNCHANGED <<queueVars, state, status, got, handle, pc, callVars, histVars>>

-----------------------------------------------------------------------------
Init ==
  /\ pushed = 0 /\ popped = 0
  /\ entry = [s \in Slots |-> 0]
  /\ reserved = [s \in Slots |-> FALSE]
  /\ state = [r \in Requests |-> "FREE"]
  /\ ep_qindex = [r \in Requests |-> NoEntry]
  /\ status = [r \in Requests |-> "SUCCESS"]
  /\ got = [r \in Requests |-> 0]
  /\ handle = [h \in Handles |-> NoHandle]
  /\ pc = "idle" /\ cur = 1 /\ any = FALSE /\ infinite = FALSE /\ qindex = NoEntry
  /\ cancelling = NoHandle
  /\ issues = 0
  /\ delivered = <<>> /\ hollow = FALSE

\* the receiving thread inside a call
ReceiverStep ==
  \/ Setup \/ TestEnded \/ TestInvalid \/ TestPending \/ QueryEnded \/ QueryPending
  \/ TestReady \/ MarkReceived \/ CopyMessage \/ PopAndRemove

Next ==
  \/ Send \/ WaitAny \/ ReceiverStep \/ ClearReservation
  \/ \E h \in Handles : RecvI(h) \/ Wait(h) \/ CancelOwn(h) \/ CancelOther(h)

Spec == Init /\ [][Next]_vars

\* A thread inside a call keeps running: mcapi_trans_wait yields and goes on.
FairSpec == Spec /\ WF_vars(ReceiverStep) /\ WF_vars(ClearReservation)

-----------------------------------------------------------------------------
(* Properties.                                                             *)

\* Every variable keeps its range.
TypeOK ==
  /\ pushed \in 0 .. MaxMsgs /\ popped \in 0 .. pushed /\ pushed - popped <= Entries
  /\ entry \in [Slots -> 0 .. MaxMsgs]
  /\ reserved \in [Slots -> BOOLEAN]
  /\ state \in [Requests -> {"FREE", "VALID", "RECEIVED", "COMPLETED", "CANCELLED"}]
  /\ ep_qindex \in [Requests -> Slots \cup {NoEntry}]
  /\ status \in [Requests -> {"SUCCESS", "MEM_LIMIT", "CANCELLED"}]
  /\ got \in [Requests -> 0 .. MaxMsgs]
  /\ handle \in [Handles -> Requests \cup {NoHandle}]
  /\ pc \in {"idle", "setup", "test", "query", "mark", "receive", "pop", "abort"}
  /\ cur \in Handles /\ any \in BOOLEAN /\ infinite \in BOOLEAN
  /\ qindex \in Slots \cup {NoEntry}
  /\ cancelling \in Requests \cup {NoHandle}
  /\ issues \in 0 .. MaxIssues
  /\ delivered \in Seq(1 .. MaxMsgs) /\ hollow \in BOOLEAN

\* Messages are delivered in the order they were sent, each of them once,
\* whichever requests and immediate receives take them.
DeliveredInOrder == \A i \in 1 .. Len(delivered) : delivered[i] = i

\* A handle the application has not been told to forget is that of one live
\* request of its own: no call removes a request through another handle.
HandleIsLive ==
  /\ \A h \in Handles : handle[h] # NoHandle => state[handle[h]] # "FREE"
  /\ \A h, k \in Handles : h # k /\ handle[h] # NoHandle => handle[h] # handle[k]

\* A wait that reports success for a request has filled the buffer with a
\* message; a cancelled request is reported as MCAPI_ERR_REQUEST_CANCELLED.
SuccessIsReceipt == ~hollow

\* an entry is reserved though no outstanding request waits for it
Bubble ==
  \E s \in Slots : reserved[s] /\ \A r \in Requests :
    ~(state[r] \in {"VALID", "RECEIVED"} /\ ep_qindex[r] = s)

\* A wait for one request returns once there is a message in the queue.
WaitReturns == (pc \in {"test", "query"} /\ ~any /\ ~Empty) ~> (pc = "idle")

\* Bubbles, which cancelled requests leave, are all that can keep a wait for
\* one request from returning when there is a message (or it ended in a failed
\* assert).
WaitReturnsUnlessBubble ==
  (pc \in {"test", "query"} /\ ~any /\ ~Empty) ~> (pc \in {"idle", "abort"} \/ Bubble)
=============================================================================
