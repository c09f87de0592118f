------------------------------- MODULE Channels -------------------------------
(***************************************************************************)
(* Packet and scalar channels between endpoints: connect, open, close and  *)
(* send (mcapi_abb.c, transport_sm_pktchan_abb.c, transport_sm_sclchan_    *)
(* abb.c, transport_sm_abb.c).  Anybody connects two endpoints; the node of *)
(* an endpoint opens and closes its end.  Opening does not wait for the     *)
(* connection: the call leaves a request that a later test completes.      *)
(*                                                                         *)
(* Connect writes four words, of which the flags of either endpoint are     *)
(* also written by open, close, create and delete.  With Orderly the        *)
(* application never opens, closes or deletes an endpoint while a connect   *)
(* that names it is under way; the code does not ask for that.             *)
(***************************************************************************)
EXTENDS Endpoints

CONSTANTS
  Chans,     \* channels the application connects: [send, recv, type]
  Orderly    \* whether connect overlaps no other call on its endpoints

ASSUME ChannelsAssumption ==
  /\ \A c \in Chans : c.send \in Handles /\ c.recv \in Handles /\ c.type \in {"pkt", "scl"}
  /\ Orderly \in BOOLEAN

VARIABLES
  joined,  \* history: channels whose connect succeeded and whose ends live
  opened   \* history: endpoints opened and not closed

chanVars == <<joined, opened>>
allVars == <<vars, chanVars>>

ChannelInit ==
  /\ Init
  /\ joined = {} /\ opened = {}

Ends(c) == {c.send, c.recv}
Connecting(h) == \E u \in Nodes : call[u].op = "connect" /\ h \in Ends(call[u].pair)
Handling(h) == \E u \in Nodes : call[u].op \in {"open", "close", "delete"} /\ call[u].h = h

\* A call on endpoint h that the orderly application delays.
Allowed(h) == Orderly => ~Connecting(h)

-----------------------------------------------------------------------------
(* mcapi_pktchan_connect_i, mcapi_sclchan_connect_i: mcapi_trans_connect_   *)
(* channel, for the sending and then for the receiving endpoint.           *)

\* mcapi_trans_valid_endpoints, mcapi_trans_channel_connected
Connectable(c) == \A h \in Ends(c) : state[h].valid /\ ~state[h].connected

CallConnect(t, c) ==
  /\ Goto(t, "idle", "ctype") /\ Connectable(c)
  /\ Orderly => \A h \in Ends(c) : ~Handling(h)
  /\ call' = [call EXCEPT ![t] = [NoCall EXCEPT !.op = "connect", !.type = c.type,
                                    !.pair = [send |-> c.send, recv |-> c.recv]]]
  /\ UNCHANGED <<tableVars, request, live, made, chanVars>>

\* (mutant: only the sending end is connected)
ConnectTypeSend(t) ==
  LET h == call[t].pair.send IN
  /\ Goto(t, "ctype", "qread")
  /\ entry' = [entry EXCEPT ![h].type = call[t].type]
  /\ call' = [call EXCEPT ![t] = [@ EXCEPT !.h = h, !.next = "joined"]]
  /\ UNCHANGED <<state, num, request, live, made, chanVars>>

\* channel_type, of the first end and then of the second
ConnectType(t) ==
  LET h == IF call[t].e = 0 THEN call[t].pair.send ELSE call[t].pair.recv IN
  /\ Goto(t, "ctype", "qread")
  /\ entry' = [entry EXCEPT ![h].type = call[t].type]
  /\ call' = [call EXCEPT ![t] = [call[t] EXCEPT !.h = h, !.e = @ + 1,
                                                 !.next = IF call[t].e = 0 THEN "ctype" ELSE "joined"]]
  /\ UNCHANGED <<state, num, request, live, made, chanVars>>

\* The exchange of recv_queue.state; both of its fields are overwritten.
QueueRead(t) ==
  /\ Goto(t, "qread", "qswap")
  /\ call' = [call EXCEPT ![t].queue = entry[call[t].h].queue]
  /\ UNCHANGED <<tableVars, request, live, made, chanVars>>

QueueExchange(t) ==
  LET h == call[t].h IN
  /\ Goto(t, "qswap", "sread")
  /\ entry' = IF entry[h].queue = call[t].queue THEN [entry EXCEPT ![h].queue = call[t].pair] ELSE entry
  /\ UNCHANGED <<state, num, call, request, live, made, chanVars>>

\* (mutant: the word is made anew and not copied)
ConnectReadNot(t) ==
  /\ Goto(t, "sread", "xread")
  /\ call' = [call EXCEPT ![t].new = [state[call[t].h] EXCEPT !.connected = TRUE, !.open = FALSE]]
  /\ UNCHANGED <<tableVars, request, live, made, chanVars>>

\* The word of the flags is copied here and exchanged later.
ConnectRead(t) ==
  /\ Goto(t, "sread", "xread")
  /\ call' = [call EXCEPT ![t].new = [state[call[t].h] EXCEPT !.connected = TRUE]]
  /\ UNCHANGED <<tableVars, request, live, made, chanVars>>

ConnectReturn(t) ==
  /\ Return(t, "joined")
  /\ joined' = joined \cup {[send |-> call[t].pair.send, recv |-> call[t].pair.recv,
                             type |-> call[t].type]}
  /\ UNCHANGED <<tableVars, request, live, made, opened>>

-----------------------------------------------------------------------------
(* mcapi_{pkt,scl}chan_{send,recv}_open_i                                  *)

\* mcapi_trans_channel_type, mcapi_trans_send_endpoint, mcapi_trans_recv_
\* endpoint: not connected as the other kind, nor as the other end.
Openable(h, type, end) ==
  /\ state[h].valid /\ entry[h].type \in {"none", type}
  /\ ~(state[h].connected /\ entry[h].queue[IF end = "send" THEN "recv" ELSE "send"] = h)

CallOpen(t, h, type, end) ==
  /\ Goto(t, "idle", "oread") /\ Openable(h, type, end)
  /\ h \in Mine(t) \ opened /\ Allowed(h)
  /\ call' = [call EXCEPT ![t] = [NoCall EXCEPT !.op = "open", !.h = h, !.type = type]]
  /\ UNCHANGED <<tableVars, request, live, made, chanVars>>

OpenRead(t) ==
  /\ Goto(t, "oread", "oswap")
  /\ call' = [call EXCEPT ![t].old = state[call[t].h]]
  /\ UNCHANGED <<tableVars, request, live, made, chanVars>>

\* mcapi_trans_open_channel asserts that the word did not change.
OpenSwap(t) ==
  LET h == call[t].h IN
  /\ IF state[h] = call[t].old
       THEN /\ Goto(t, "oswap", "otest")
            /\ state' = [state EXCEPT ![h].open = TRUE] /\ opened' = opened \cup {h}
       ELSE /\ Goto(t, "oswap", "abort") /\ UNCHANGED <<state, opened>>
  /\ UNCHANGED <<entry, num, call, request, live, made, joined>>

\* Completed at once if the channel type says connected; otherwise a request.
OpenTest(t) ==
  LET h == call[t].h IN
  /\ Return(t, "otest")
  /\ request' = IF entry[h].type = call[t].type THEN request
                ELSE [request EXCEPT ![t] = [NoRequest EXCEPT !.op = "open", !.h = h]]
  /\ UNCHANGED <<tableVars, live, made, chanVars>>

\* (mutant: the request waits for the other end to be open)
CheckOpenBoth(t) ==
  /\ pc[t] = "idle" /\ request[t].op = "open"
  /\ state[request[t].h].connected /\ state[entry[request[t].h].queue.recv].open
  /\ request' = [request EXCEPT ![t] = NoRequest]
  /\ UNCHANGED <<tableVars, pc, call, live, made, chanVars>>

\* (mutant: the request is completed by the type of the channel, as the call is)
CheckOpenType(t) ==
  /\ pc[t] = "idle" /\ request[t].op = "open" /\ entry[request[t].h].type # "none"
  /\ request' = [request EXCEPT ![t] = NoRequest]
  /\ UNCHANGED <<tableVars, pc, call, live, made, chanVars>>

\* check_open_channel_request, which looks at the flag connected instead
CheckOpen(t) ==
  /\ pc[t] = "idle" /\ request[t].op = "open" /\ state[request[t].h].connected
  /\ request' = [request EXCEPT ![t] = NoRequest]
  /\ UNCHANGED <<tableVars, pc, call, live, made, chanVars>>

-----------------------------------------------------------------------------
(* mcapi_{pkt,scl}chan_{send,recv}_close_i                                 *)

\* mcapi_trans_valid_pktchan_recv_handle, mcapi_trans_pktchan_recv_isopen
CallClose(t, h) ==
  /\ Goto(t, "idle", "clread")
  /\ entry[h].type # "none" /\ state[h].open
  /\ h \in Mine(t) \cap opened /\ Allowed(h)
  /\ call' = [call EXCEPT ![t] = [NoCall EXCEPT !.op = "close", !.h = h]]
  /\ UNCHANGED <<tableVars, request, live, made, chanVars>>

CloseRead(t) ==
  /\ Goto(t, "clread", "clswap")
  /\ call' = [call EXCEPT ![t].old = state[call[t].h]]
  /\ UNCHANGED <<tableVars, request, live, made, chanVars>>

\* mcapi_trans_close_channel; the flag connected and the type stay.
CloseSwap(t) ==
  LET h == call[t].h IN
  /\ IF state[h] = call[t].old
       THEN /\ Return(t, "clswap")
            /\ state' = [state EXCEPT ![h].open = FALSE] /\ opened' = opened \ {h}
       ELSE /\ Goto(t, "clswap", "abort") /\ UNCHANGED <<state, call, opened>>
  /\ UNCHANGED <<entry, num, request, live, made, joined>>

-----------------------------------------------------------------------------
(* mcapi_pktchan_send_i, mcapi_sclchan_send_*: where a packet goes.        *)

\* The application has opened its end; only the type of the channel is looked
\* at.
CanSend(t, h) ==
  /\ pc[t] = "idle" /\ request[t] = NoRequest
  /\ h \in Mine(t) \cap opened /\ entry[h].type # "none"
  /\ \E c \in Chans : c.send = h

\* The receiver is read from the sender's queue.
Target(h) == entry[h].queue.recv

-----------------------------------------------------------------------------
ChannelCall(t) ==
  /\ request[t] = NoRequest
  /\ \/ \E c \in Chans : CallConnect(t, c)
     \/ \E c \in Chans : CallOpen(t, c.send, c.type, "send") \/ CallOpen(t, c.recv, c.type, "recv")
     \/ \E h \in Handles : CallClose(t, h)

ConnectStep(t) ==
  ConnectType(t) \/ QueueRead(t) \/ QueueExchange(t) \/ ConnectRead(t) \/ ConnectReturn(t)
OpenStep(t) == OpenRead(t) \/ OpenSwap(t) \/ OpenTest(t) \/ CheckOpen(t)
CloseStep(t) == CloseRead(t) \/ CloseSwap(t)
ChannelStep(t) == ConnectStep(t) \/ OpenStep(t) \/ CloseStep(t)

\* The calls of module Endpoints; a delete ends the channels of its endpoint.
TableCall(t) ==
  /\ EndpointCall(t)
  /\ \A h \in live \ live' : Allowed(h)
  /\ joined' = {c \in joined : Ends(c) \cap (live \ live') = {}}
  /\ UNCHANGED opened

TableStep(t) == EndpointStep(t) /\ UNCHANGED chanVars

Next ==
  \E t \in Nodes :
    \/ TableCall(t) \/ TableStep(t)
    \/ ChannelCall(t) \/ ChannelStep(t)

Spec == ChannelInit /\ [][Next]_allVars

\* A thread inside a call keeps running, and one with a request goes on testing
\* it, as mcapi_wait does.
FairSpec == Spec /\ \A t \in Nodes : WF_allVars(TableStep(t) \/ ChannelStep(t))

-----------------------------------------------------------------------------
(* Properties.                                                             *)

\* Every variable keeps its range.
TypeOK ==
  /\ state \in [Handles -> [port : Ports \cup {0}, valid : BOOLEAN,
                            open : BOOLEAN, connected : BOOLEAN]]
  /\ entry \in [Handles -> [type : {"none", "pkt", "scl"},
                            queue : [send : Handles, recv : Handles]]]
  /\ num \in [Nodes -> 0 .. MaxEndpoints]
  /\ live \subseteq Handles /\ opened \subseteq live
  /\ \A t \in Nodes : call[t].h \in Handles /\ request[t].h \in Handles

\* When a connect has returned success and no other is under way, both of its
\* endpoints are connected, with its type, to each other, however many threads
\* connected them at once.
ConnectIsKept ==
  \A c \in joined :
    (\A h \in Ends(c) : ~Connecting(h)) =>
      \A h \in Ends(c) :
        /\ state[h].connected /\ entry[h].type = c.type
        /\ entry[h].queue = [send |-> c.send, recv |-> c.recv]

\* The flag open of an endpoint says what its node did last, and the
\* compare-and-swaps of open and close find the word they read, as is asserted.
OpenIsKept ==
  /\ \A h \in Handles :
       (~\E u \in Nodes : call[u].op \in {"open", "close", "create", "delete"} /\ call[u].h = h) =>
         (state[h].open <=> h \in opened)
  /\ \A t \in Nodes : pc[t] # "abort"

\* A packet that a node may send goes to an endpoint that was to be connected
\* with its sender, although send looks only at the type of the channel.
SentToPeer ==
  \A t \in Nodes, h \in Handles :
    CanSend(t, h) => \E c \in Chans : c.send = h /\ c.recv = Target(h)

\* A packet goes to an endpoint that is connected.
SentToConnected ==
  \A t \in Nodes, h \in Handles :
    CanSend(t, h) => \E c \in joined : c.send = h /\ c.recv = Target(h)

\* An open request on an endpoint that was connected with success completes.
OpenReturns ==
  \A t \in Nodes :
    (request[t].op = "open") ~>
      ~(request[t].op = "open" /\ \E c \in joined : request[t].h \in Ends(c))
=============================================================================
