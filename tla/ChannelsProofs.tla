---------------------------- MODULE ChannelsProofs ----------------------------
(***************************************************************************)
(* The tables of endpoints and the channels between them, for any number of*)
(* nodes, endpoints, ports and channels: if no call that opens, closes or   *)
(* deletes an endpoint overlaps a connect of it, the tables stay exact, a   *)
(* connection and an open end are kept and packets go to the connected end.*)
(***************************************************************************)
EXTENDS Channels, FiniteSetTheorems, WellFoundedInduction, TLAPS

\* num_endpoints does not overflow: MCAPI_MAX_ENDPOINTS is far below 2^32.
CountFits == MaxEndpoints < CountMod

-----------------------------------------------------------------------------
(* The invariant.                                                          *)

PairOf(c) == [send |-> c.send, recv |-> c.recv]

\* The channels an endpoint may be an end of, as connect writes them into it.
ChansOf(h) == {c \in Chans : h \in Ends(c)}
Pairs(h)   == {PairOf(c) : c \in ChansOf(h)}
Kinds(h)   == {c.type : c \in ChansOf(h)}

Words   == [port : Ports \cup {0}, valid : BOOLEAN, open : BOOLEAN, connected : BOOLEAN]
Queues  == [send : Handles, recv : Handles]
Records == [type : {"none", "pkt", "scl"}, queue : Queues]
Locals  == {"op", "h", "pair", "type", "node", "port", "e", "new", "old", "queue", "next"}

CreatePCs  == {"limit", "clear", "xread", "xswap", "count"}
DeletePCs  == {"uncount", "wipe"}
GetPCs     == {"bound", "look"}
AtEndPCs   == {"qread", "qswap", "sread", "xread", "xswap"}
ConnectPCs == AtEndPCs \cup {"ctype", "joined"}
OpenPCs    == {"oread", "oswap", "otest"}
ClosePCs   == {"clread", "clswap"}
PCs == {"idle"} \cup CreatePCs \cup DeletePCs \cup GetPCs \cup ConnectPCs \cup OpenPCs \cup ClosePCs

\* The range of the locals of a call, of a request and of the other variables; no
\* thread has met a failed assert.
CallOK(c) ==
  /\ DOMAIN c = Locals
  /\ c.h \in Handles /\ c.pair \in Queues /\ c.queue \in Queues
  /\ c.type \in {"none", "pkt", "scl"} /\ c.node \in Nodes
  /\ c.port \in Ports \cup {0} /\ c.e \in Nat /\ c.new \in Words /\ c.old \in Words

RequestOK(r) ==
  /\ DOMAIN r = {"op", "h", "node", "port"}
  /\ r.h \in Handles /\ r.node \in Nodes /\ r.port \in Ports \cup {0}

Tables ==
  /\ state \in [Handles -> Words] /\ entry \in [Handles -> Records]
  /\ num \in [Nodes -> Nat] /\ live \subseteq Handles /\ opened \subseteq Handles
  /\ DOMAIN request = Nodes /\ \A t \in Nodes : RequestOK(request[t])

TypeInv ==
  /\ Tables /\ DOMAIN pc = Nodes /\ DOMAIN call = Nodes
  /\ \A t \in Nodes : pc[t] \in PCs /\ CallOK(call[t])

\* Which call a thread is in tells where it is.  An open request is not under
\* way while the thread is in a call.
CallAt(t) ==
  /\ call[t].op = "none"    => pc[t] = "idle"
  /\ call[t].op = "create"  => pc[t] \in CreatePCs
  /\ call[t].op = "delete"  => pc[t] \in DeletePCs
  /\ call[t].op = "connect" => pc[t] \in ConnectPCs
  /\ call[t].op = "open"    => pc[t] \in OpenPCs
  /\ call[t].op = "close"   => pc[t] \in ClosePCs
  /\ call[t].op \in {"get", "get_i", "test"} => pc[t] \in GetPCs
  /\ call[t].op \in {"none", "create", "delete", "connect", "open", "close", "get", "get_i",
                     "test"}
  /\ pc[t] # "idle" => call[t].op # "none" /\ request[t].op # "open"

CallInv == \A t \in Nodes : CallAt(t)

\* Endpoint h is valid but its create has not returned, or its delete has begun.
Creating(h) == pc[h[1]] = "count" /\ call[h[1]].h = h
Deleting(h) == pc[h[1]] \in DeletePCs /\ call[h[1]].h = h

\* The valid endpoints are the live ones and those.  They are counted, apart
\* from one that is being created and with one whose delete has just begun.
LivePart ==
  /\ \A h \in Handles : state[h].valid <=> h \in live \/ Creating(h) \/ Deleting(h)
  /\ \A h \in live : ~Creating(h) /\ ~Deleting(h)

CountPart ==
  \A n \in Nodes :
    LET lives == Cardinality(Mine(n) \cap live) IN
    /\ pc[n] = "uncount" => num[n] = lives + 1
    /\ pc[n] # "uncount" => num[n] = lives

LiveInv == LivePart /\ CountPart

\* A port names one live endpoint of its node, and none yet while an endpoint
\* with that port is created.
PortInv ==
  /\ \A g, h \in live : g[1] = h[1] /\ state[g].port = state[h].port => g = h
  /\ \A n \in Nodes : call[n].op = "create" =>
       \A g \in Mine(n) \cap live : state[g].port # call[n].port

\* A create works on an entry that is not valid, so that nobody else writes its
\* word, and its exchange succeeds.
CreateAt(t) ==
  call[t].op = "create" =>
    /\ pc[t] # "limit" => call[t].h \in Mine(t)
    /\ pc[t] \in {"clear", "xread", "xswap"} =>
         /\ ~state[call[t].h].valid
         /\ call[t].new.valid /\ ~call[t].new.open
         /\ call[t].new.connected = state[call[t].h].connected
         /\ call[t].new.port = call[t].port
    /\ pc[t] \in {"xread", "xswap"} => call[t].next = "count"
    /\ pc[t] = "xswap" => call[t].old = state[call[t].h]
    /\ pc[t] = "count" => state[call[t].h].port = call[t].port

CreateInv == \A t \in Nodes : CreateAt(t)

DeleteAt(t) ==
  call[t].op = "delete" =>
    call[t].h \in Mine(t) /\ ~state[call[t].h].open

DeleteInv == \A t \in Nodes : DeleteAt(t)

\* h is connected: its word and its queue say so.
Linked(h) ==
  state[h].connected /\ entry[h].type \in Kinds(h) /\ entry[h].queue \in Pairs(h)

\* Connect connects valid endpoints, on which no other kind of call is under
\* way.  At each end it writes the type, then the queue, then the flag; what it
\* finds changed was changed by another connect, to the same end.
ConnectAt(t) ==
  call[t].op = "connect" =>
    /\ \E c \in Chans : call[t].pair = PairOf(c) /\ call[t].type = c.type
    /\ \A h \in Ends(call[t].pair) : state[h].valid /\ ~Handling(h)
    /\ pc[t] = "ctype" => call[t].e = 0 \/ (call[t].e = 1 /\ Linked(call[t].pair.send))
    /\ pc[t] = "joined" => \A h \in Ends(call[t].pair) : Linked(h)
    /\ pc[t] \in AtEndPCs =>
         LET h == call[t].h IN
         /\ \/ call[t].e = 1 /\ h = call[t].pair.send /\ call[t].next = "ctype"
            \/ call[t].e = 2 /\ h = call[t].pair.recv /\ call[t].next = "joined"
                 /\ Linked(call[t].pair.send)
         /\ entry[h].type # "none"
         /\ pc[t] = "qswap" /\ entry[h].queue # call[t].queue => entry[h].queue \in Pairs(h)
         /\ pc[t] \in {"sread", "xread", "xswap"} => entry[h].queue \in Pairs(h)
         /\ pc[t] \in {"xread", "xswap"} => call[t].new = [state[h] EXCEPT !.connected = TRUE]
         /\ pc[t] = "xswap" /\ state[h] # call[t].old => state[h].connected

ConnectInv == \A t \in Nodes : ConnectAt(t)

\* The type of an entry is that of one of its channels; one that has a type is
\* connected, unless a connect is under way.
EntryInv ==
  \A h \in Handles :
    /\ entry[h].type \in {"none"} \cup Kinds(h)
    /\ state[h].connected => state[h].valid /\ Linked(h)
    /\ entry[h].type # "none" => state[h].connected \/ Connecting(h)

\* Channels that connect has reported stay connected.
JoinedInv ==
  \A c \in joined :
    /\ \E d \in Chans : c.send = d.send /\ c.recv = d.recv /\ c.type = d.type
    /\ \A h \in Ends(c) : Linked(h) /\ ~Deleting(h)

\* The flag open is the truth, only the node of an endpoint changes it, and an
\* open end is connected unless the call, or its request, is still under way.
OpenAt(t) ==
  call[t].op \in {"open", "close"} =>
    /\ call[t].h \in Mine(t) /\ state[call[t].h].valid
    /\ pc[t] \in {"oswap", "clswap"} => call[t].old = state[call[t].h]
    /\ call[t].op = "open" => call[t].type # "none"
    /\ pc[t] = "otest" => call[t].h \in opened

OpenInv ==
  /\ \A h \in Handles : state[h].open <=> h \in opened
  /\ \A h \in opened :
       /\ state[h].valid
       /\ \/ Linked(h)
          \/ pc[h[1]] = "otest" /\ call[h[1]].h = h
          \/ request[h[1]].op = "open" /\ request[h[1]].h = h
  /\ \A t \in Nodes : OpenAt(t)

IInv ==
  /\ TypeInv /\ CallInv /\ LiveInv /\ PortInv /\ CreateInv /\ DeleteInv
  /\ ConnectInv /\ EntryInv /\ JoinedInv /\ OpenInv

\* One step of thread t.
Step(t) == TableCall(t) \/ TableStep(t) \/ ChannelCall(t) \/ ChannelStep(t)

-----------------------------------------------------------------------------
(* Facts about handles and about the free index that create takes.         *)

\* The free index that create chooses is one of the free ones.
LEMMA FirstIs ==
  ASSUME NEW T, T \subseteq Indices, T # {}
  PROVE  First(T) \in T
<1>1. \E x \in T : \A y \in T : ~(<<y, x>> \in OpToRel(<, Nat))
  <2>1. T \subseteq Nat
    BY DEF Indices
  <2> QED BY <2>1, WFMin, NatLessThanWellFounded
<1>2. PICK x \in T : \A y \in T : ~(<<y, x>> \in OpToRel(<, Nat))
  BY <1>1
<1>3. \A y \in T : x <= y
  <2>1. x \in Nat /\ \A y \in T : y \in Nat
    BY DEF Indices
  <2>2. \A y \in T : ~(y < x)
    BY <1>2, <2>1 DEF OpToRel
  <2> QED BY <2>1, <2>2
<1> QED BY <1>3 DEF First

\* A call that has ended has forgotten everything; a request that is gone too.
LEMMA NothingTyped ==
  /\ CallOK(NoCall) /\ RequestOK(NoRequest) /\ NoCall.op = "none" /\ NoRequest.op = "none"
  /\ NoState \in Words /\ NoQueue \in Queues /\ NoEntry \in Records
<1>1. Null \in Handles /\ 0 \in Nodes
  BY EndpointsAssumption DEF Null, Handles, Nodes, Indices
<1>2. NoState \in Words
  BY DEF NoState, Words
<1>3. NoQueue \in Queues /\ NoEntry \in Records
  BY <1>1 DEF NoQueue, Queues, NoEntry, Records
<1> QED BY <1>1, <1>2, <1>3 DEF NoCall, NoRequest, Locals, CallOK, RequestOK

\* What the search of create does: it ends the call for want of an entry, or goes
\* on with an entry and the word that is to become its state.
LEMMA CreateFindCases ==
  ASSUME NEW t \in Nodes, DOMAIN call = Nodes, DOMAIN call[t] = Locals, DOMAIN pc = Nodes,
         CreateFind(t)
  PROVE  /\ pc[t] = "limit" /\ UNCHANGED <<tableVars, request, live, made>>
         /\ \/ pc' = [pc EXCEPT ![t] = "idle"] /\ call' = [call EXCEPT ![t] = NoCall]
            \/ /\ pc' = [pc EXCEPT ![t] = "clear"]
               /\ DOMAIN call' = Nodes /\ \A u \in Nodes : u # t => call'[u] = call[u]
               /\ DOMAIN call'[t] = Locals
               /\ \A f \in Locals \ {"h", "new"} : call'[t][f] = call[t][f]
               /\ call'[t].op = call[t].op /\ call'[t].port = call[t].port
               /\ call'[t].next = call[t].next /\ call'[t].pair = call[t].pair
<1> DEFINE free == {e \in Indices : ~state[<<t, e>>].valid}
           g    == <<t, First(free)>>
           w    == [state[g] EXCEPT !.port = call[t].port, !.open = FALSE, !.valid = TRUE]
<1>1. pc[t] = "limit" /\ UNCHANGED <<tableVars, request, live, made>>
  BY DEF CreateFind, Return, Goto
<1>2. CASE free = {}
  BY <1>1, <1>2 DEF CreateFind, Return, Goto
<1>3. CASE free # {}
  <2>1. /\ pc' = [pc EXCEPT ![t] = "clear"]
        /\ call' = [call EXCEPT ![t] = [@ EXCEPT !.h = g, !.new = w]]
    BY <1>3 DEF CreateFind, Goto
  <2> HIDE DEF g, w
  <2>2. call'[t] = [call[t] EXCEPT !.h = g, !.new = w]
    BY <2>1
  <2>3. /\ DOMAIN call'[t] = Locals
        /\ \A f \in Locals \ {"h", "new"} : call'[t][f] = call[t][f]
    BY <2>2
  <2>4. DOMAIN call' = Nodes /\ \A u \in Nodes : u # t => call'[u] = call[u]
    BY <2>1
  <2>5. /\ call'[t].op = call[t].op /\ call'[t].port = call[t].port
        /\ call'[t].next = call[t].next /\ call'[t].pair = call[t].pair
    BY <2>3 DEF Locals
  <2> QED BY <1>1, <2>1, <2>3, <2>4, <2>5
<1> QED BY <1>2, <1>3

\* Every step keeps the types of the locals of its call.
LEMMA CallStep ==
  ASSUME TypeInv, NEW t \in Nodes, Step(t)
  PROVE  CallOK(call'[t])
<1>1. /\ CallOK(call[t]) /\ RequestOK(request[t]) /\ DOMAIN call = Nodes
      /\ state \in [Handles -> Words] /\ entry \in [Handles -> Records]
  BY DEF TypeInv, Tables
<1>2. \A h \in Handles : entry[h].queue \in Queues
  BY <1>1 DEF Records
<1> USE EndpointsAssumption, ChannelsAssumption, NothingTyped, <1>1, <1>2
<1> USE DEF Goto, Return, Locals, CallOK
<1>3. ASSUME NEW p \in Ports, TableCall(t), CallCreate(t, p)
      PROVE  CallOK(call'[t])
  BY <1>3 DEF CallCreate, TableCall, NoCall
<1>4. ASSUME NEW g \in Handles, TableCall(t), CallDelete(t, g)
      PROVE  CallOK(call'[t])
  BY <1>4 DEF CallDelete, TableCall, NoCall
<1>5. ASSUME NEW op \in {"get", "get_i"}, NEW n \in Nodes, NEW p \in Ports,
             TableCall(t), CallGet(t, op, n, p)
      PROVE  CallOK(call'[t])
  BY <1>5 DEF CallGet, TableCall, NoCall
<1>6. CASE CreateLimit(t) /\ UNCHANGED chanVars
  BY <1>6 DEF CreateLimit
<1>7. CASE CreateFind(t) /\ UNCHANGED chanVars
  <2>1. CASE {e \in Indices : ~state[<<t, e>>].valid} = {}
    BY <1>7, <2>1 DEF CreateFind
  <2>2. CASE {e \in Indices : ~state[<<t, e>>].valid} # {}
    <3> DEFINE free == {e \in Indices : ~state[<<t, e>>].valid}  g == <<t, First(free)>>
    <3>0. free \subseteq Indices /\ free # {}
      BY <2>2
    <3>1. First(free) \in Indices /\ g \in Handles
      <4>1. First(free) \in free
        BY <3>0, FirstIs
      <4> QED BY <4>1, <3>0 DEF Handles
    <3>2. call' = [call EXCEPT ![t] =
         [@ EXCEPT !.h = g, !.new = [state[g] EXCEPT !.port = call[t].port,
                                                     !.open = FALSE, !.valid = TRUE]]]
      BY <1>7, <2>2 DEF CreateFind
    <3> HIDE DEF g
    <3>3. [state[g] EXCEPT !.port = call[t].port, !.open = FALSE, !.valid = TRUE] \in Words
      BY <3>1, ZenonT(60) DEF Words
    <3> QED BY <3>1, <3>2, <3>3
  <2> QED BY <2>1, <2>2
<1>8. CASE CreateClear(t) /\ UNCHANGED chanVars
  BY <1>8 DEF CreateClear
<1>9. CASE ExchangeRead(t) /\ UNCHANGED chanVars
  BY <1>9 DEF ExchangeRead
<1>10. CASE Exchange(t) /\ UNCHANGED chanVars
  BY <1>10 DEF Exchange
<1>11. CASE CreateCount(t) /\ UNCHANGED chanVars
  BY <1>11 DEF CreateCount
<1>12. CASE DeleteUncount(t) /\ UNCHANGED chanVars
  BY <1>12 DEF DeleteUncount
<1>13. CASE DeleteWipe(t) /\ UNCHANGED chanVars
  BY <1>13 DEF DeleteWipe
<1>14. CASE TestGet(t) /\ UNCHANGED chanVars
  BY <1>14 DEF TestGet, CallGet, NoCall, RequestOK
<1>15. CASE GetNext(t) /\ UNCHANGED chanVars
  BY <1>15 DEF GetNext
<1>16. CASE GetMissed(t) /\ UNCHANGED chanVars
  BY <1>16 DEF GetMissed
<1>17. CASE GetLook(t) /\ UNCHANGED chanVars
  BY <1>17 DEF GetLook
<1>18. ASSUME NEW c \in Chans, request[t] = NoRequest, CallConnect(t, c)
      PROVE  CallOK(call'[t])
  BY <1>18 DEF CallConnect, NoCall, Queues
<1>19. ASSUME NEW c \in Chans, NEW end \in {"send", "recv"}, NEW g \in Handles,
             request[t] = NoRequest, CallOpen(t, g, c.type, end)
      PROVE  CallOK(call'[t])
  BY <1>19 DEF CallOpen, NoCall
<1>20. ASSUME NEW g \in Handles, request[t] = NoRequest, CallClose(t, g)
      PROVE  CallOK(call'[t])
  BY <1>20 DEF CallClose, NoCall
<1>21. CASE ConnectType(t)
  <2> DEFINE g == IF call[t].e = 0 THEN call[t].pair.send ELSE call[t].pair.recv
             x == IF call[t].e = 0 THEN "ctype" ELSE "joined"
  <2>1. g \in Handles
    BY DEF Queues
  <2>2. call' = [call EXCEPT ![t] = [call[t] EXCEPT !.h = g, !.e = @ + 1, !.next = x]]
    BY <1>21 DEF ConnectType
  <2> HIDE DEF g, x
  <2>3. call'[t] = [call[t] EXCEPT !.h = g, !.e = call[t].e + 1, !.next = x]
    BY <2>2
  <2>4. /\ DOMAIN call'[t] = Locals /\ call'[t].h = g /\ call'[t].e = call[t].e + 1
        /\ \A f \in Locals \ {"h", "e", "next"} : call'[t][f] = call[t][f]
    BY <2>3
  <2>5. /\ call'[t].pair = call[t].pair /\ call'[t].queue = call[t].queue
        /\ call'[t].type = call[t].type /\ call'[t].node = call[t].node
        /\ call'[t].port = call[t].port /\ call'[t].new = call[t].new
        /\ call'[t].old = call[t].old
    BY <2>4
  <2> QED BY <2>1, <2>4, <2>5
<1>22. CASE QueueRead(t)
  BY <1>22 DEF QueueRead
<1>23. CASE QueueExchange(t)
  BY <1>23 DEF QueueExchange
<1>24. CASE ConnectRead(t)
  BY <1>24, ZenonT(60) DEF ConnectRead, Words
<1>25. CASE ConnectReturn(t)
  BY <1>25 DEF ConnectReturn
<1>26. CASE OpenRead(t)
  BY <1>26 DEF OpenRead
<1>27. CASE OpenSwap(t)
  BY <1>27 DEF OpenSwap
<1>28. CASE OpenTest(t)
  BY <1>28 DEF OpenTest
<1>29. CASE CheckOpen(t)
  BY <1>29 DEF CheckOpen
<1>30. CASE CloseRead(t)
  BY <1>30 DEF CloseRead
<1>31. CASE CloseSwap(t)
  BY <1>31 DEF CloseSwap
<1> HIDE DEF Goto, Return, Locals, CallOK
<1> QED BY <1>3, <1>4, <1>5, <1>6, <1>7, <1>8, <1>9, <1>10, <1>11, <1>12, <1>13, <1>14,
           <1>15, <1>16, <1>17, <1>18, <1>19, <1>20, <1>21, <1>22, <1>23, <1>24, <1>25,
           <1>26, <1>27, <1>28, <1>29, <1>30, <1>31, ChannelsAssumption
        DEF Step, TableCall, TableStep, EndpointCall, EndpointStep, CreateStep, DeleteStep,
            GetStep, ChannelCall, ChannelStep, ConnectStep, OpenStep, CloseStep

-----------------------------------------------------------------------------
(* Types, and the asserts.                                                 *)

\* A node has room for MCAPI_MAX_ENDPOINTS endpoints.
LEMMA MineFinite ==
  ASSUME NEW n \in Nodes
  PROVE  IsFiniteSet(Mine(n)) /\ Cardinality(Mine(n)) <= MaxEndpoints
<1> DEFINE f == [e \in Indices |-> <<n, e>>]
<1>1. IsFiniteSet(Indices) /\ Cardinality(Indices) = MaxEndpoints
  BY EndpointsAssumption, FS_Interval DEF Indices
<1>2. f \in Surjection(Indices, Mine(n))
  BY DEF Surjection, Mine, Handles
<1> QED BY <1>1, <1>2, FS_Surjection

\* The endpoints counted, and one more that is not live, fit into the table.
LEMMA CountBound ==
  ASSUME TypeInv, LiveInv, CreateInv, DeleteInv, CallInv, NEW n \in Nodes
  PROVE  /\ Cardinality(Mine(n) \cap live) \in Nat /\ IsFiniteSet(Mine(n) \cap live)
         /\ num[n] <= MaxEndpoints
         /\ pc[n] = "count" => num[n] + 1 <= MaxEndpoints
<1> DEFINE mine == Mine(n) \cap live
<1>1. IsFiniteSet(mine) /\ Cardinality(mine) \in Nat /\ Cardinality(mine) <= MaxEndpoints
  <2>1. IsFiniteSet(Mine(n)) /\ Cardinality(Mine(n)) <= MaxEndpoints /\ mine \subseteq Mine(n)
    BY MineFinite
  <2> QED BY <2>1, FS_Subset, FS_CardinalityType, EndpointsAssumption
<1>2. ASSUME NEW h \in Mine(n), h \notin live PROVE Cardinality(mine) + 1 <= MaxEndpoints
  <2>1. IsFiniteSet(mine \cup {h}) /\ Cardinality(mine \cup {h}) = Cardinality(mine) + 1
    BY <1>1, <1>2, FS_AddElement
  <2>2. IsFiniteSet(Mine(n)) /\ Cardinality(Mine(n)) <= MaxEndpoints
        /\ (mine \cup {h}) \subseteq Mine(n)
    BY <1>2, MineFinite
  <2>3. Cardinality(mine \cup {h}) <= Cardinality(Mine(n))
    BY <2>2, FS_Subset
  <2>4. Cardinality(Mine(n)) \in Nat
    BY <2>2, FS_CardinalityType
  <2> QED BY <1>1, <2>1, <2>2, <2>3, <2>4, EndpointsAssumption
<1>3. num[n] = Cardinality(mine) \/ (pc[n] = "uncount" /\ num[n] = Cardinality(mine) + 1)
  BY DEF LiveInv, CountPart
<1>4. pc[n] \in {"uncount", "count"} => call[n].h \in Mine(n) /\ call[n].h \notin live
  <2>1. pc[n] = "uncount" => call[n].op = "delete"
    BY DEF CallInv, CallAt, TypeInv, PCs, CreatePCs, ConnectPCs, AtEndPCs, OpenPCs, ClosePCs, GetPCs
  <2>2. pc[n] = "count" => call[n].op = "create"
    BY DEF CallInv, CallAt, TypeInv, PCs, DeletePCs, ConnectPCs, AtEndPCs, OpenPCs, ClosePCs, GetPCs
  <2>3. pc[n] \in {"uncount", "count"} => call[n].h \in Mine(n)
    BY <2>1, <2>2 DEF CreateInv, CreateAt, DeleteInv, DeleteAt
  <2>4. \A h \in Mine(n) : h[1] = n /\ h \in Handles
    BY DEF Mine
  <2> QED BY <2>3, <2>4 DEF LiveInv, LivePart, Creating, Deleting, DeletePCs
<1>5. pc[n] \in {"uncount", "count"} => Cardinality(mine) + 1 <= MaxEndpoints
  BY <1>2, <1>4
<1> HIDE DEF mine
<1>6. num[n] <= MaxEndpoints /\ (pc[n] = "count" => num[n] + 1 <= MaxEndpoints)
  BY <1>1, <1>3, <1>5, EndpointsAssumption
<1> QED BY <1>1, <1>6 DEF mine

\* Every assert of the calls holds when it is reached.
LEMMA AssertsHold ==
  ASSUME IInv, NEW t \in Nodes
  PROVE  /\ num[t] <= MaxEndpoints
         /\ pc[t] = "bound" => num[call[t].node] <= MaxEndpoints
         /\ pc[t] \in {"oswap", "clswap"} => state[call[t].h] = call[t].old
<1>1. call[t].node \in Nodes
  BY DEF IInv, TypeInv, Tables, CallOK
<1>2. \A n \in Nodes : num[n] <= MaxEndpoints
  BY CountBound DEF IInv
<1>3. pc[t] = "oswap" => call[t].op = "open"
  BY DEF IInv, CallInv, CallAt, DeletePCs, CreatePCs, ConnectPCs, AtEndPCs, ClosePCs, GetPCs
<1>4. pc[t] = "clswap" => call[t].op = "close"
  BY DEF IInv, CallInv, CallAt, DeletePCs, CreatePCs, ConnectPCs, AtEndPCs, OpenPCs, GetPCs
<1> QED BY <1>1, <1>2, <1>3, <1>4 DEF IInv, OpenInv, OpenAt

\* A step of thread t leaves the locals, the request and the count of the others.
Frame(t) ==
  /\ DOMAIN pc' = Nodes /\ DOMAIN call' = Nodes /\ DOMAIN request' = Nodes
  /\ DOMAIN num' = Nodes
  /\ \A u \in Nodes \ {t} :
       /\ pc'[u] = pc[u] /\ call'[u] = call[u] /\ request'[u] = request[u]
       /\ num'[u] = num[u]

\* Every step does.
LEMMA FrameStep ==
  ASSUME TypeInv, NEW t \in Nodes, Step(t)
  PROVE  Frame(t)
<1>1. DOMAIN pc = Nodes /\ DOMAIN call = Nodes /\ DOMAIN request = Nodes /\ DOMAIN num = Nodes
  BY DEF TypeInv, Tables
<1> USE <1>1 DEF Goto, Return, tableVars
<1>2. ASSUME NEW p \in Ports, TableCall(t), CallCreate(t, p)
      PROVE  Frame(t)
  BY <1>2 DEF CallCreate, TableCall, Frame
<1>3. ASSUME NEW g \in Handles, TableCall(t), CallDelete(t, g)
      PROVE  Frame(t)
  BY <1>3 DEF CallDelete, TableCall, Frame
<1>4. ASSUME NEW op \in {"get", "get_i"}, NEW n \in Nodes, NEW p \in Ports,
             TableCall(t), CallGet(t, op, n, p)
      PROVE  Frame(t)
  BY <1>4 DEF CallGet, TableCall, Frame
<1>5. CASE CreateLimit(t) /\ UNCHANGED chanVars
  BY <1>5 DEF CreateLimit, Frame
<1>6. CASE CreateFind(t) /\ UNCHANGED chanVars
  BY <1>6 DEF CreateFind, Frame
<1>7. CASE CreateClear(t) /\ UNCHANGED chanVars
  BY <1>7 DEF CreateClear, Frame
<1>8. CASE ExchangeRead(t) /\ UNCHANGED chanVars
  BY <1>8 DEF ExchangeRead, Frame
<1>9. CASE Exchange(t) /\ UNCHANGED chanVars
  BY <1>9 DEF Exchange, Frame
<1>10. CASE CreateCount(t) /\ UNCHANGED chanVars
  BY <1>10 DEF CreateCount, Frame
<1>11. CASE DeleteUncount(t) /\ UNCHANGED chanVars
  BY <1>11 DEF DeleteUncount, Frame
<1>12. CASE DeleteWipe(t) /\ UNCHANGED chanVars
  BY <1>12 DEF DeleteWipe, Frame
<1>13. CASE TestGet(t) /\ UNCHANGED chanVars
  BY <1>13 DEF TestGet, CallGet, Frame
<1>14. CASE GetNext(t) /\ UNCHANGED chanVars
  BY <1>14 DEF GetNext, Frame
<1>15. CASE GetMissed(t) /\ UNCHANGED chanVars
  BY <1>15 DEF GetMissed, Frame
<1>16. CASE GetLook(t) /\ UNCHANGED chanVars
  BY <1>16 DEF GetLook, Frame
<1>17. ASSUME NEW c \in Chans, request[t] = NoRequest, CallConnect(t, c)
      PROVE  Frame(t)
  BY <1>17 DEF CallConnect, Frame
<1>18. ASSUME NEW c \in Chans, NEW end \in {"send", "recv"}, NEW g \in Handles,
             request[t] = NoRequest, CallOpen(t, g, c.type, end)
      PROVE  Frame(t)
  BY <1>18 DEF CallOpen, Frame
<1>19. ASSUME NEW g \in Handles, request[t] = NoRequest, CallClose(t, g)
      PROVE  Frame(t)
  BY <1>19 DEF CallClose, Frame
<1>20. CASE ConnectType(t)
  BY <1>20 DEF ConnectType, Frame
<1>21. CASE QueueRead(t)
  BY <1>21 DEF QueueRead, Frame
<1>22. CASE QueueExchange(t)
  BY <1>22 DEF QueueExchange, Frame
<1>23. CASE ConnectRead(t)
  BY <1>23 DEF ConnectRead, Frame
<1>24. CASE ConnectReturn(t)
  BY <1>24 DEF ConnectReturn, Frame
<1>25. CASE OpenRead(t)
  BY <1>25 DEF OpenRead, Frame
<1>26. CASE OpenSwap(t)
  BY <1>26 DEF OpenSwap, Frame
<1>27. CASE OpenTest(t)
  BY <1>27 DEF OpenTest, Frame
<1>28. CASE CheckOpen(t)
  BY <1>28 DEF CheckOpen, Frame
<1>29. CASE CloseRead(t)
  BY <1>29 DEF CloseRead, Frame
<1>30. CASE CloseSwap(t)
  BY <1>30 DEF CloseSwap, Frame
<1> HIDE DEF Goto, Return, tableVars
<1> QED BY <1>2, <1>3, <1>4, <1>5, <1>6, <1>7, <1>8, <1>9, <1>10, <1>11, <1>12, <1>13,
           <1>14, <1>15, <1>16, <1>17, <1>18, <1>19, <1>20, <1>21, <1>22, <1>23, <1>24,
           <1>25, <1>26, <1>27, <1>28, <1>29, <1>30, ChannelsAssumption
        DEF Step, TableCall, TableStep, EndpointCall, EndpointStep, CreateStep, DeleteStep,
            GetStep, ChannelCall, ChannelStep, ConnectStep, OpenStep, CloseStep

\* Every step goes to a place of its call, never to a failed assert.
LEMMA PlaceStep ==
  ASSUME IInv, NEW t \in Nodes, Step(t)
  PROVE  pc'[t] \in PCs
<1>1. /\ pc[t] \in PCs /\ DOMAIN pc = Nodes /\ CallOK(call[t]) /\ num \in [Nodes -> Nat]
      /\ call[t].e \in Nat /\ call[t].node \in Nodes
  BY DEF IInv, TypeInv, Tables, CallOK
<1>2. /\ num[t] <= MaxEndpoints
      /\ pc[t] = "bound" => num[call[t].node] <= MaxEndpoints
      /\ pc[t] \in {"oswap", "clswap"} => state[call[t].h] = call[t].old
  BY AssertsHold
<1>3. pc[t] = "xswap" => call[t].next \in {"count", "ctype", "joined"}
  <2>1. pc[t] = "xswap" => call[t].op \in {"create", "connect"}
    BY DEF IInv, CallInv, CallAt, DeletePCs, GetPCs, OpenPCs, ClosePCs
  <2> QED BY <2>1 DEF IInv, CreateInv, CreateAt, ConnectInv, ConnectAt, AtEndPCs
<1> USE EndpointsAssumption, <1>1
<1> USE DEF Goto, Return, PCs, CreatePCs, DeletePCs, GetPCs, ConnectPCs, AtEndPCs, OpenPCs,
            ClosePCs
<1>4. ASSUME NEW p \in Ports, TableCall(t), CallCreate(t, p)
      PROVE  pc'[t] \in PCs
  BY <1>4 DEF CallCreate, TableCall
<1>5. ASSUME NEW g \in Handles, TableCall(t), CallDelete(t, g)
      PROVE  pc'[t] \in PCs
  BY <1>5 DEF CallDelete, TableCall
<1>6. ASSUME NEW op \in {"get", "get_i"}, NEW n \in Nodes, NEW p \in Ports,
             TableCall(t), CallGet(t, op, n, p)
      PROVE  pc'[t] \in PCs
  BY <1>6 DEF CallGet, TableCall
<1>7. CASE CreateLimit(t) /\ UNCHANGED chanVars
  BY <1>7, <1>2 DEF CreateLimit
<1>8. CASE CreateFind(t) /\ UNCHANGED chanVars
  BY <1>8 DEF CreateFind
<1>9. CASE CreateClear(t) /\ UNCHANGED chanVars
  BY <1>9 DEF CreateClear
<1>10. CASE ExchangeRead(t) /\ UNCHANGED chanVars
  BY <1>10 DEF ExchangeRead
<1>11. CASE Exchange(t) /\ UNCHANGED chanVars
  BY <1>11, <1>3 DEF Exchange
<1>12. CASE CreateCount(t) /\ UNCHANGED chanVars
  BY <1>12 DEF CreateCount
<1>13. CASE DeleteUncount(t) /\ UNCHANGED chanVars
  BY <1>13 DEF DeleteUncount
<1>14. CASE DeleteWipe(t) /\ UNCHANGED chanVars
  BY <1>14 DEF DeleteWipe
<1>15. CASE TestGet(t) /\ UNCHANGED chanVars
  BY <1>15 DEF TestGet, CallGet
<1>16. CASE GetNext(t) /\ UNCHANGED chanVars
  BY <1>16, <1>2 DEF GetNext
<1>17. CASE GetMissed(t) /\ UNCHANGED chanVars
  BY <1>17 DEF GetMissed
<1>18. CASE GetLook(t) /\ UNCHANGED chanVars
  BY <1>18 DEF GetLook
<1>19. ASSUME NEW c \in Chans, request[t] = NoRequest, CallConnect(t, c)
      PROVE  pc'[t] \in PCs
  BY <1>19 DEF CallConnect
<1>20. ASSUME NEW c \in Chans, NEW end \in {"send", "recv"}, NEW g \in Handles,
             request[t] = NoRequest, CallOpen(t, g, c.type, end)
      PROVE  pc'[t] \in PCs
  BY <1>20 DEF CallOpen
<1>21. ASSUME NEW g \in Handles, request[t] = NoRequest, CallClose(t, g)
      PROVE  pc'[t] \in PCs
  BY <1>21 DEF CallClose
<1>22. CASE ConnectType(t)
  BY <1>22 DEF ConnectType
<1>23. CASE QueueRead(t)
  BY <1>23 DEF QueueRead
<1>24. CASE QueueExchange(t)
  BY <1>24 DEF QueueExchange
<1>25. CASE ConnectRead(t)
  BY <1>25 DEF ConnectRead
<1>26. CASE ConnectReturn(t)
  BY <1>26 DEF ConnectReturn
<1>27. CASE OpenRead(t)
  BY <1>27 DEF OpenRead
<1>28. CASE OpenSwap(t)
  BY <1>28, <1>2 DEF OpenSwap
<1>29. CASE OpenTest(t)
  BY <1>29 DEF OpenTest
<1>30. CASE CheckOpen(t)
  BY <1>30 DEF CheckOpen
<1>31. CASE CloseRead(t)
  BY <1>31 DEF CloseRead
<1>32. CASE CloseSwap(t)
  BY <1>32, <1>2 DEF CloseSwap
<1> HIDE DEF Goto, Return, PCs, CreatePCs, DeletePCs, GetPCs, ConnectPCs, AtEndPCs,
             OpenPCs, ClosePCs
<1> QED BY <1>4, <1>5, <1>6, <1>7, <1>8, <1>9, <1>10, <1>11, <1>12, <1>13, <1>14, <1>15,
           <1>16, <1>17, <1>18, <1>19, <1>20, <1>21, <1>22, <1>23, <1>24, <1>25, <1>26,
           <1>27, <1>28, <1>29, <1>30, <1>31, <1>32, ChannelsAssumption
        DEF Step, TableCall, TableStep, EndpointCall, EndpointStep, CreateStep, DeleteStep,
            GetStep, ChannelCall, ChannelStep, ConnectStep, OpenStep, CloseStep

\* Every step keeps the ranges of the tables, the requests and the sets.
LEMMA TableStepTyped ==
  ASSUME TypeInv, NEW t \in Nodes, Step(t)
  PROVE  Tables'
<1>1. /\ state \in [Handles -> Words] /\ entry \in [Handles -> Records]
      /\ num \in [Nodes -> Nat] /\ live \subseteq Handles /\ opened \subseteq Handles
      /\ DOMAIN request = Nodes /\ \A u \in Nodes : RequestOK(request[u])
  BY DEF TypeInv, Tables
<1>2. call[t].new \in Words /\ call[t].pair \in Queues /\ call[t].h \in Handles
      /\ call[t].type \in {"none", "pkt", "scl"} /\ CallOK(call[t])
  BY DEF TypeInv, Tables, CallOK
<1>3. CountMod \in Nat /\ CountMod > 0
  BY DEF CountMod
<1>4. (num[t] + 1) % CountMod \in Nat /\ (num[t] - 1) % CountMod \in Nat
  BY <1>1, <1>3
<1>5. \A w \in Words : /\ [w EXCEPT !.open = TRUE] \in Words
                         /\ [w EXCEPT !.open = FALSE] \in Words
  BY DEF Words
<1>6. \A r \in Records, q \in Queues, y \in {"none", "pkt", "scl"} :
        /\ [r EXCEPT !.queue = q] \in Records /\ [r EXCEPT !.type = y] \in Records
        /\ [r EXCEPT !.type = y, !.queue = q] \in Records
  BY DEF Records
<1>7. /\ \A g \in Handles : RequestOK([NoRequest EXCEPT !.op = "open", !.h = g])
      /\ RequestOK([NoRequest EXCEPT !.op = "get", !.node = call[t].node, !.port = call[t].port])
  BY <1>2, NothingTyped DEF RequestOK, CallOK
<1> USE EndpointsAssumption, NothingTyped, <1>1, <1>2, <1>4, <1>5, <1>6, <1>7
<1> USE DEF Tables, Goto, Return, tableVars, chanVars
<1>8. ASSUME NEW p \in Ports, TableCall(t), CallCreate(t, p)
      PROVE  Tables'
  BY <1>8, Zenon DEF CallCreate, TableCall
<1>9. ASSUME NEW g \in Handles, TableCall(t), CallDelete(t, g)
      PROVE  Tables'
  BY <1>9, Zenon DEF CallDelete, TableCall
<1>10. ASSUME NEW op \in {"get", "get_i"}, NEW n \in Nodes, NEW p \in Ports,
             TableCall(t), CallGet(t, op, n, p)
      PROVE  Tables'
  BY <1>10, Zenon DEF CallGet, TableCall
<1>11. CASE CreateLimit(t) /\ UNCHANGED chanVars
  BY <1>11, Zenon DEF CreateLimit
<1>12. CASE CreateFind(t) /\ UNCHANGED chanVars
  BY <1>12 DEF CreateFind
<1>13. CASE CreateClear(t) /\ UNCHANGED chanVars
  BY <1>13, Zenon DEF CreateClear
<1>14. CASE ExchangeRead(t) /\ UNCHANGED chanVars
  BY <1>14, Zenon DEF ExchangeRead
<1>15. CASE Exchange(t) /\ UNCHANGED chanVars
  BY <1>15, Zenon DEF Exchange
<1>16. CASE CreateCount(t) /\ UNCHANGED chanVars
  BY <1>16, Zenon DEF CreateCount
<1>17. CASE DeleteUncount(t) /\ UNCHANGED chanVars
  BY <1>17, Zenon DEF DeleteUncount
<1>18. CASE DeleteWipe(t) /\ UNCHANGED chanVars
  BY <1>18, Zenon DEF DeleteWipe
<1>19. CASE TestGet(t) /\ UNCHANGED chanVars
  BY <1>19, Zenon DEF TestGet, CallGet
<1>20. CASE GetNext(t) /\ UNCHANGED chanVars
  BY <1>20, Zenon DEF GetNext
<1>21. CASE GetMissed(t) /\ UNCHANGED chanVars
  BY <1>21, Zenon DEF GetMissed
<1>22. CASE GetLook(t) /\ UNCHANGED chanVars
  BY <1>22, Zenon DEF GetLook
<1>23. ASSUME NEW c \in Chans, request[t] = NoRequest, CallConnect(t, c)
      PROVE  Tables'
  BY <1>23, Zenon DEF CallConnect
<1>24. ASSUME NEW c \in Chans, NEW end \in {"send", "recv"}, NEW g \in Handles,
             request[t] = NoRequest, CallOpen(t, g, c.type, end)
      PROVE  Tables'
  BY <1>24, Zenon DEF CallOpen
<1>25. ASSUME NEW g \in Handles, request[t] = NoRequest, CallClose(t, g)
      PROVE  Tables'
  BY <1>25, Zenon DEF CallClose
<1>26. CASE ConnectType(t)
  BY <1>26, Zenon DEF ConnectType
<1>27. CASE QueueRead(t)
  BY <1>27, Zenon DEF QueueRead
<1>28. CASE QueueExchange(t)
  BY <1>28, Zenon DEF QueueExchange
<1>29. CASE ConnectRead(t)
  BY <1>29, Zenon DEF ConnectRead
<1>30. CASE ConnectReturn(t)
  BY <1>30, Zenon DEF ConnectReturn
<1>31. CASE OpenRead(t)
  BY <1>31, Zenon DEF OpenRead
<1>32. CASE OpenSwap(t)
  <2>1. CASE state[call[t].h] = call[t].old
    <3>1. state' = [state EXCEPT ![call[t].h].open = TRUE]
      BY <1>32, <2>1, Zenon DEF OpenSwap
    <3>2. state' \in [Handles -> Words]
      BY <3>1, Zenon
    <3> QED BY <1>32, <2>1, <3>2, Zenon DEF OpenSwap
  <2>2. CASE state[call[t].h] # call[t].old
    BY <1>32, <2>2, Zenon DEF OpenSwap
  <2> QED BY <2>1, <2>2, Zenon
<1>33. CASE OpenTest(t)
  BY <1>33, Zenon DEF OpenTest
<1>34. CASE CheckOpen(t)
  BY <1>34, Zenon DEF CheckOpen
<1>35. CASE CloseRead(t)
  BY <1>35, Zenon DEF CloseRead
<1>36. CASE CloseSwap(t)
  <2>1. CASE state[call[t].h] = call[t].old
    <3>1. state' = [state EXCEPT ![call[t].h].open = FALSE]
      BY <1>36, <2>1, Zenon DEF CloseSwap
    <3>2. state' \in [Handles -> Words]
      BY <3>1, Zenon
    <3> QED BY <1>36, <2>1, <3>2, Zenon DEF CloseSwap
  <2>2. CASE state[call[t].h] # call[t].old
    BY <1>36, <2>2, Zenon DEF CloseSwap
  <2> QED BY <2>1, <2>2
<1> HIDE DEF Tables, Goto, Return, tableVars, chanVars
<1> QED BY <1>8, <1>9, <1>10, <1>11, <1>12, <1>13, <1>14, <1>15, <1>16, <1>17, <1>18,
           <1>19, <1>20, <1>21, <1>22, <1>23, <1>24, <1>25, <1>26, <1>27, <1>28, <1>29,
           <1>30, <1>31, <1>32, <1>33, <1>34, <1>35, <1>36, ChannelsAssumption, Zenon
        DEF Step, TableCall, TableStep, EndpointCall, EndpointStep, CreateStep, DeleteStep,
            GetStep, ChannelCall, ChannelStep, ConnectStep, OpenStep, CloseStep

\* Every step keeps the types, and no assert fails.
LEMMA TypeStep ==
  ASSUME IInv, NEW t \in Nodes, Step(t)
  PROVE  TypeInv'
<1>1. TypeInv
  BY DEF IInv
<1>2. Frame(t) /\ Tables' /\ pc'[t] \in PCs /\ CallOK(call'[t])
  BY <1>1, FrameStep, TableStepTyped, PlaceStep, CallStep
<1>3. \A u \in Nodes : pc'[u] \in PCs /\ CallOK(call'[u])
  BY <1>1, <1>2 DEF TypeInv, Tables, Frame
<1>4. DOMAIN pc' = Nodes /\ DOMAIN call' = Nodes
  BY <1>2 DEF Frame
<1> QED BY <1>2, <1>3, <1>4 DEF TypeInv

-----------------------------------------------------------------------------
(* The places of the threads, and what their steps do to the tables.       *)

\* Every step leaves its thread at a place of its call.
LEMMA CallInvStep ==
  ASSUME IInv, NEW t \in Nodes, Step(t)
  PROVE  CallAt(t)'
<1>1. /\ DOMAIN call = Nodes /\ DOMAIN call[t] = Locals /\ DOMAIN pc = Nodes
      /\ DOMAIN request = Nodes /\ CallAt(t) /\ call[t].node \in Nodes /\ call[t].e \in Nat
      /\ num \in [Nodes -> Nat]
  BY DEF IInv, TypeInv, Tables, CallOK, CallInv
<1>2. DOMAIN NoCall = Locals /\ NoCall.op = "none" /\ NoRequest.op = "none"
      /\ DOMAIN NoRequest = {"op", "h", "node", "port"}
  BY NothingTyped DEF CallOK, RequestOK
<1>3. /\ num[t] <= MaxEndpoints
      /\ pc[t] = "bound" => num[call[t].node] <= MaxEndpoints
      /\ pc[t] \in {"oswap", "clswap"} => state[call[t].h] = call[t].old
  BY AssertsHold
<1>4. pc[t] = "xswap" =>
        \/ call[t].op = "create" /\ call[t].next = "count"
        \/ call[t].op = "connect" /\ call[t].next \in {"ctype", "joined"}
  BY DEF IInv, CallInv, CallAt, CreateInv, CreateAt, ConnectInv, ConnectAt, CreatePCs,
     DeletePCs, GetPCs, ConnectPCs, AtEndPCs, OpenPCs, ClosePCs
<1> USE EndpointsAssumption, <1>1, <1>2
<1> USE DEF CallAt, Goto, Return, tableVars, Locals, CreatePCs, DeletePCs, GetPCs,
            ConnectPCs, AtEndPCs, OpenPCs, ClosePCs
<1>5. ASSUME NEW p \in Ports, TableCall(t), CallCreate(t, p)
      PROVE  CallAt(t)'
  BY <1>5 DEF CallCreate, TableCall, NoCall, EndpointCall
<1>6. ASSUME NEW g \in Handles, TableCall(t), CallDelete(t, g)
      PROVE  CallAt(t)'
  BY <1>6 DEF CallDelete, TableCall, NoCall, EndpointCall
<1>7. ASSUME NEW op \in {"get", "get_i"}, NEW n \in Nodes, NEW p \in Ports,
             TableCall(t), CallGet(t, op, n, p)
      PROVE  CallAt(t)'
  BY <1>7 DEF CallGet, TableCall, NoCall, EndpointCall
<1>8. CASE CreateLimit(t) /\ UNCHANGED chanVars
  BY <1>8, <1>3 DEF CreateLimit
<1>9. CASE CreateFind(t) /\ UNCHANGED chanVars
  BY <1>9, CreateFindCases
<1>10. CASE CreateClear(t) /\ UNCHANGED chanVars
  BY <1>10 DEF CreateClear
<1>11. CASE ExchangeRead(t) /\ UNCHANGED chanVars
  BY <1>11 DEF ExchangeRead
<1>12. CASE Exchange(t) /\ UNCHANGED chanVars
  BY <1>12, <1>4 DEF Exchange
<1>13. CASE CreateCount(t) /\ UNCHANGED chanVars
  BY <1>13 DEF CreateCount
<1>14. CASE DeleteUncount(t) /\ UNCHANGED chanVars
  BY <1>14 DEF DeleteUncount
<1>15. CASE DeleteWipe(t) /\ UNCHANGED chanVars
  BY <1>15 DEF DeleteWipe
<1>16. CASE TestGet(t) /\ UNCHANGED chanVars
  BY <1>16 DEF TestGet, CallGet, NoCall
<1>17. CASE GetNext(t) /\ UNCHANGED chanVars
  BY <1>17, <1>3 DEF GetNext
<1>18. CASE GetMissed(t) /\ UNCHANGED chanVars
  BY <1>18 DEF GetMissed
<1>19. CASE GetLook(t) /\ UNCHANGED chanVars
  BY <1>19 DEF GetLook
<1>20. ASSUME NEW c \in Chans, request[t] = NoRequest, CallConnect(t, c)
      PROVE  CallAt(t)'
  BY <1>20 DEF CallConnect, NoCall
<1>21. ASSUME NEW c \in Chans, NEW end \in {"send", "recv"}, NEW g \in Handles,
             request[t] = NoRequest, CallOpen(t, g, c.type, end)
      PROVE  CallAt(t)'
  BY <1>21 DEF CallOpen, NoCall
<1>22. ASSUME NEW g \in Handles, request[t] = NoRequest, CallClose(t, g)
      PROVE  CallAt(t)'
  BY <1>22 DEF CallClose, NoCall
<1>23. CASE ConnectType(t)
  BY <1>23 DEF ConnectType
<1>24. CASE QueueRead(t)
  BY <1>24 DEF QueueRead
<1>25. CASE QueueExchange(t)
  BY <1>25 DEF QueueExchange
<1>26. CASE ConnectRead(t)
  BY <1>26 DEF ConnectRead
<1>27. CASE ConnectReturn(t)
  BY <1>27 DEF ConnectReturn
<1>28. CASE OpenRead(t)
  BY <1>28 DEF OpenRead
<1>29. CASE OpenSwap(t)
  BY <1>29, <1>3 DEF OpenSwap
<1>30. CASE OpenTest(t)
  BY <1>30 DEF OpenTest
<1>31. CASE CheckOpen(t)
  BY <1>31 DEF CheckOpen
<1>32. CASE CloseRead(t)
  BY <1>32 DEF CloseRead
<1>33. CASE CloseSwap(t)
  BY <1>33, <1>3 DEF CloseSwap
<1> HIDE DEF CallAt, Goto, Return, tableVars, Locals, CreatePCs, DeletePCs, GetPCs,
             ConnectPCs, AtEndPCs, OpenPCs, ClosePCs
<1> QED BY <1>5, <1>6, <1>7, <1>8, <1>9, <1>10, <1>11, <1>12, <1>13, <1>14, <1>15, <1>16,
           <1>17, <1>18, <1>19, <1>20, <1>21, <1>22, <1>23, <1>24, <1>25, <1>26, <1>27,
           <1>28, <1>29, <1>30, <1>31, <1>32, <1>33, ChannelsAssumption
        DEF Step, TableCall, TableStep, EndpointCall, EndpointStep, CreateStep, DeleteStep,
            GetStep, ChannelCall, ChannelStep, ConnectStep, OpenStep, CloseStep

\* What a step of thread t may do to the word of an endpoint.
WordEffect(t, h) ==
  \/ state'[h] = state[h]
  \/ /\ h = call[t].h
     /\ \/ call[t].op = "create" /\ pc[t] = "xswap" /\ state'[h] = call[t].new
        \/ call[t].op = "connect" /\ pc[t] = "xswap"
             /\ state'[h] = [state[h] EXCEPT !.connected = TRUE]
        \/ call[t].op = "delete" /\ pc[t] = "wipe" /\ state'[h] = NoState
        \/ call[t].op = "open" /\ pc[t] = "oswap" /\ state'[h] = [state[h] EXCEPT !.open = TRUE]
        \/ call[t].op = "close" /\ pc[t] = "clswap" /\ state'[h] = [state[h] EXCEPT !.open = FALSE]

\* What it may do to the type and the queue of an endpoint.
EntryEffect(t, h) ==
  \/ entry'[h] = entry[h]
  \/ h = call[t].h /\ call[t].op = "create" /\ pc[t] = "clear" /\ entry'[h] = NoEntry
  \/ h = call[t].h /\ call[t].op = "delete" /\ pc[t] = "wipe" /\ entry'[h] = NoEntry
  \/ /\ call[t].op = "connect" /\ pc[t] = "ctype" /\ h \in Ends(call[t].pair)
     /\ h = IF call[t].e = 0 THEN call[t].pair.send ELSE call[t].pair.recv
     /\ entry'[h] = [entry[h] EXCEPT !.type = call[t].type]
  \/ /\ call[t].op = "connect" /\ pc[t] = "qswap" /\ h = call[t].h
     /\ entry[h].queue = call[t].queue
     /\ entry'[h] = [entry[h] EXCEPT !.queue = call[t].pair]

\* Every step does no more to the words.
LEMMA WordStep ==
  ASSUME IInv, NEW t \in Nodes, Step(t), NEW h \in Handles
  PROVE  WordEffect(t, h)
<1>1. /\ DOMAIN state = Handles /\ call[t].h \in Handles
      /\ \A g \in Handles : DOMAIN state[g] = {"port", "valid", "open", "connected"}
  BY DEF IInv, TypeInv, Tables, CallOK, Words
<1> USE <1>1 DEF WordEffect, tableVars
<1>2. ASSUME NEW p \in Ports, TableCall(t), CallCreate(t, p)
      PROVE  WordEffect(t, h)
  BY <1>2 DEF CallCreate, TableCall
<1>3. ASSUME NEW g \in Handles, TableCall(t), CallDelete(t, g)
      PROVE  WordEffect(t, h)
  BY <1>3 DEF CallDelete, TableCall
<1>4. ASSUME NEW op \in {"get", "get_i"}, NEW n \in Nodes, NEW p \in Ports,
             TableCall(t), CallGet(t, op, n, p)
      PROVE  WordEffect(t, h)
  BY <1>4 DEF CallGet, TableCall
<1>5. CASE CreateLimit(t) /\ UNCHANGED chanVars
  BY <1>5 DEF CreateLimit
<1>6. CASE CreateFind(t) /\ UNCHANGED chanVars
  BY <1>6 DEF CreateFind
<1>7. CASE CreateClear(t) /\ UNCHANGED chanVars
  BY <1>7 DEF CreateClear
<1>8. CASE ExchangeRead(t) /\ UNCHANGED chanVars
  BY <1>8 DEF ExchangeRead
<1>9. CASE Exchange(t) /\ UNCHANGED chanVars
  <2>1. pc[t] = "xswap" /\ state' = IF state[call[t].h] = call[t].old
                                   THEN [state EXCEPT ![call[t].h] = call[t].new] ELSE state
    BY <1>9 DEF Exchange, Goto
  <2>2. \/ call[t].op = "create"
        \/ call[t].op = "connect" /\ call[t].new = [state[call[t].h] EXCEPT !.connected = TRUE]
    BY <2>1 DEF IInv, CallInv, CallAt, ConnectInv, ConnectAt, CreatePCs, DeletePCs, GetPCs,
       ConnectPCs, AtEndPCs, OpenPCs, ClosePCs
  <2> QED BY <2>1, <2>2
<1>10. CASE CreateCount(t) /\ UNCHANGED chanVars
  BY <1>10 DEF CreateCount
<1>11. CASE DeleteUncount(t) /\ UNCHANGED chanVars
  BY <1>11 DEF DeleteUncount
<1>12. CASE DeleteWipe(t) /\ UNCHANGED chanVars
  <2>1. pc[t] = "wipe" /\ call[t].op = "delete"
    BY <1>12 DEF DeleteWipe, Return, Goto, IInv, CallInv, CallAt, CreatePCs, DeletePCs,
       GetPCs, ConnectPCs, AtEndPCs, OpenPCs, ClosePCs
  <2> QED BY <1>12, <2>1 DEF DeleteWipe
<1>13. CASE TestGet(t) /\ UNCHANGED chanVars
  BY <1>13 DEF TestGet, CallGet
<1>14. CASE GetNext(t) /\ UNCHANGED chanVars
  BY <1>14 DEF GetNext
<1>15. CASE GetMissed(t) /\ UNCHANGED chanVars
  BY <1>15 DEF GetMissed
<1>16. CASE GetLook(t) /\ UNCHANGED chanVars
  BY <1>16 DEF GetLook
<1>17. ASSUME NEW c \in Chans, request[t] = NoRequest, CallConnect(t, c)
      PROVE  WordEffect(t, h)
  BY <1>17 DEF CallConnect
<1>18. ASSUME NEW c \in Chans, NEW end \in {"send", "recv"}, NEW g \in Handles,
             request[t] = NoRequest, CallOpen(t, g, c.type, end)
      PROVE  WordEffect(t, h)
  BY <1>18 DEF CallOpen
<1>19. ASSUME NEW g \in Handles, request[t] = NoRequest, CallClose(t, g)
      PROVE  WordEffect(t, h)
  BY <1>19 DEF CallClose
<1>20. CASE ConnectType(t)
  BY <1>20 DEF ConnectType
<1>21. CASE QueueRead(t)
  BY <1>21 DEF QueueRead
<1>22. CASE QueueExchange(t)
  BY <1>22 DEF QueueExchange
<1>23. CASE ConnectRead(t)
  BY <1>23 DEF ConnectRead
<1>24. CASE ConnectReturn(t)
  BY <1>24 DEF ConnectReturn
<1>25. CASE OpenRead(t)
  BY <1>25 DEF OpenRead
<1>26. CASE OpenSwap(t)
  <2>1. pc[t] = "oswap" /\ call[t].op = "open"
    BY <1>26 DEF OpenSwap, Return, Goto, IInv, CallInv, CallAt, CreatePCs, DeletePCs,
       GetPCs, ConnectPCs, AtEndPCs, OpenPCs, ClosePCs
  <2> QED BY <1>26, <2>1 DEF OpenSwap
<1>27. CASE OpenTest(t)
  BY <1>27 DEF OpenTest
<1>28. CASE CheckOpen(t)
  BY <1>28 DEF CheckOpen
<1>29. CASE CloseRead(t)
  BY <1>29 DEF CloseRead
<1>30. CASE CloseSwap(t)
  <2>1. pc[t] = "clswap" /\ call[t].op = "close"
    BY <1>30 DEF CloseSwap, Return, Goto, IInv, CallInv, CallAt, CreatePCs, DeletePCs,
       GetPCs, ConnectPCs, AtEndPCs, OpenPCs, ClosePCs
  <2> QED BY <1>30, <2>1 DEF CloseSwap
<1> HIDE DEF WordEffect, tableVars
<1> QED BY <1>2, <1>3, <1>4, <1>5, <1>6, <1>7, <1>8, <1>9, <1>10, <1>11, <1>12, <1>13,
           <1>14, <1>15, <1>16, <1>17, <1>18, <1>19, <1>20, <1>21, <1>22, <1>23, <1>24,
           <1>25, <1>26, <1>27, <1>28, <1>29, <1>30, ChannelsAssumption
        DEF Step, TableCall, TableStep, EndpointCall, EndpointStep, CreateStep, DeleteStep,
            GetStep, ChannelCall, ChannelStep, ConnectStep, OpenStep, CloseStep

\* The memset of create leaves an entry that belongs to no channel.
LEMMA Cleared ==
  ASSUME NEW r \in Records
  PROVE  [r EXCEPT !.type = "none", !.queue = NoQueue] = NoEntry
<1> DEFINE s == [r EXCEPT !.type = "none", !.queue = NoQueue]
<1>1. DOMAIN s = {"type", "queue"} /\ DOMAIN NoEntry = {"type", "queue"}
  BY DEF Records, NoEntry
<1>2. s["type"] = NoEntry["type"] /\ s["queue"] = NoEntry["queue"]
  BY DEF Records, NoEntry
<1>3. /\ s = [x \in {"type", "queue"} |-> s[x]]
      /\ NoEntry = [x \in {"type", "queue"} |-> NoEntry[x]]
  BY <1>1 DEF Records, NoEntry
<1> HIDE DEF s
<1>4. s = NoEntry
  BY <1>2, <1>3
<1> QED BY <1>4 DEF s

\* Nor to the types and queues.
LEMMA EntryStep ==
  ASSUME IInv, NEW t \in Nodes, Step(t), NEW h \in Handles
  PROVE  EntryEffect(t, h)
<1>1. DOMAIN entry = Handles /\ \A g \in Handles : DOMAIN entry[g] = {"type", "queue"}
  BY DEF IInv, TypeInv, Tables, Records
<1> USE <1>1 DEF EntryEffect, tableVars
<1>2. ASSUME NEW p \in Ports, TableCall(t), CallCreate(t, p)
      PROVE  EntryEffect(t, h)
  BY <1>2 DEF CallCreate, TableCall
<1>3. ASSUME NEW g \in Handles, TableCall(t), CallDelete(t, g)
      PROVE  EntryEffect(t, h)
  BY <1>3 DEF CallDelete, TableCall
<1>4. ASSUME NEW op \in {"get", "get_i"}, NEW n \in Nodes, NEW p \in Ports,
             TableCall(t), CallGet(t, op, n, p)
      PROVE  EntryEffect(t, h)
  BY <1>4 DEF CallGet, TableCall
<1>5. CASE CreateLimit(t) /\ UNCHANGED chanVars
  BY <1>5 DEF CreateLimit
<1>6. CASE CreateFind(t) /\ UNCHANGED chanVars
  BY <1>6 DEF CreateFind
<1>7. CASE CreateClear(t) /\ UNCHANGED chanVars
  <2>1. pc[t] = "clear" /\ call[t].op = "create"
    BY <1>7 DEF CreateClear, Goto, IInv, CallInv, CallAt, CreatePCs, DeletePCs, GetPCs,
       ConnectPCs, AtEndPCs, OpenPCs, ClosePCs
  <2>2. entry[call[t].h] \in Records
    BY DEF IInv, TypeInv, Tables, CallOK
  <2>3. [entry[call[t].h] EXCEPT !.type = "none", !.queue = NoQueue] = NoEntry
    BY <2>2, Cleared
  <2>4. /\ \A g \in Handles : g # call[t].h => entry'[g] = entry[g]
        /\ call[t].h \in Handles =>
             entry'[call[t].h] = [entry[call[t].h] EXCEPT !.type = "none", !.queue = NoQueue]
    BY <1>7 DEF CreateClear
  <2> QED BY <2>1, <2>3, <2>4
<1>8. CASE ExchangeRead(t) /\ UNCHANGED chanVars
  BY <1>8 DEF ExchangeRead
<1>9. CASE Exchange(t) /\ UNCHANGED chanVars
  BY <1>9 DEF Exchange
<1>10. CASE CreateCount(t) /\ UNCHANGED chanVars
  BY <1>10 DEF CreateCount
<1>11. CASE DeleteUncount(t) /\ UNCHANGED chanVars
  BY <1>11 DEF DeleteUncount
<1>12. CASE DeleteWipe(t) /\ UNCHANGED chanVars
  <2>1. pc[t] = "wipe" /\ call[t].op = "delete"
    BY <1>12 DEF DeleteWipe, Return, Goto, IInv, CallInv, CallAt, CreatePCs, DeletePCs,
       GetPCs, ConnectPCs, AtEndPCs, OpenPCs, ClosePCs
  <2> QED BY <1>12, <2>1 DEF DeleteWipe
<1>13. CASE TestGet(t) /\ UNCHANGED chanVars
  BY <1>13 DEF TestGet, CallGet
<1>14. CASE GetNext(t) /\ UNCHANGED chanVars
  BY <1>14 DEF GetNext
<1>15. CASE GetMissed(t) /\ UNCHANGED chanVars
  BY <1>15 DEF GetMissed
<1>16. CASE GetLook(t) /\ UNCHANGED chanVars
  BY <1>16 DEF GetLook
<1>17. ASSUME NEW c \in Chans, request[t] = NoRequest, CallConnect(t, c)
      PROVE  EntryEffect(t, h)
  BY <1>17 DEF CallConnect
<1>18. ASSUME NEW c \in Chans, NEW end \in {"send", "recv"}, NEW g \in Handles,
             request[t] = NoRequest, CallOpen(t, g, c.type, end)
      PROVE  EntryEffect(t, h)
  BY <1>18 DEF CallOpen
<1>19. ASSUME NEW g \in Handles, request[t] = NoRequest, CallClose(t, g)
      PROVE  EntryEffect(t, h)
  BY <1>19 DEF CallClose
<1>20. CASE ConnectType(t)
  <2>1. pc[t] = "ctype" /\ call[t].op = "connect"
    BY <1>20 DEF ConnectType, Goto, IInv, CallInv, CallAt, CreatePCs, DeletePCs, GetPCs,
       ConnectPCs, AtEndPCs, OpenPCs, ClosePCs
  <2> QED BY <1>20, <2>1 DEF ConnectType, Ends
<1>21. CASE QueueRead(t)
  BY <1>21 DEF QueueRead
<1>22. CASE QueueExchange(t)
  <2>1. pc[t] = "qswap" /\ call[t].op = "connect"
    BY <1>22 DEF QueueExchange, Goto, IInv, CallInv, CallAt, CreatePCs, DeletePCs, GetPCs,
       ConnectPCs, AtEndPCs, OpenPCs, ClosePCs
  <2> QED BY <1>22, <2>1 DEF QueueExchange, Ends
<1>23. CASE ConnectRead(t)
  BY <1>23 DEF ConnectRead
<1>24. CASE ConnectReturn(t)
  BY <1>24 DEF ConnectReturn
<1>25. CASE OpenRead(t)
  BY <1>25 DEF OpenRead
<1>26. CASE OpenSwap(t)
  BY <1>26 DEF OpenSwap
<1>27. CASE OpenTest(t)
  BY <1>27 DEF OpenTest
<1>28. CASE CheckOpen(t)
  BY <1>28 DEF CheckOpen
<1>29. CASE CloseRead(t)
  BY <1>29 DEF CloseRead
<1>30. CASE CloseSwap(t)
  BY <1>30 DEF CloseSwap
<1> HIDE DEF EntryEffect, tableVars
<1> QED BY <1>2, <1>3, <1>4, <1>5, <1>6, <1>7, <1>8, <1>9, <1>10, <1>11, <1>12, <1>13,
           <1>14, <1>15, <1>16, <1>17, <1>18, <1>19, <1>20, <1>21, <1>22, <1>23, <1>24,
           <1>25, <1>26, <1>27, <1>28, <1>29, <1>30, ChannelsAssumption
        DEF Step, TableCall, TableStep, EndpointCall, EndpointStep, CreateStep, DeleteStep,
            GetStep, ChannelCall, ChannelStep, ConnectStep, OpenStep, CloseStep

-----------------------------------------------------------------------------
(* The tables of endpoints.                                                *)

\* The types and the agreement of places and calls, in the form the proofs use
\* them.
Facts(t) ==
  /\ DOMAIN call = Nodes /\ DOMAIN pc = Nodes /\ DOMAIN num = Nodes /\ DOMAIN request = Nodes
  /\ DOMAIN call[t] = Locals /\ call[t].h \in Handles /\ call[t].e \in Nat
  /\ CallAt(t) /\ Frame(t)
  /\ \A h \in Handles : h[1] \in Nodes
  /\ live \subseteq Handles /\ opened \subseteq Handles
  /\ DOMAIN NoCall = Locals /\ NoCall.op = "none" /\ NoRequest.op = "none"

\* They hold.
LEMMA FactsHold ==
  ASSUME IInv, NEW t \in Nodes, Step(t)
  PROVE  Facts(t)
<1>1. /\ DOMAIN call = Nodes /\ DOMAIN pc = Nodes /\ DOMAIN num = Nodes /\ DOMAIN request = Nodes
      /\ DOMAIN call[t] = Locals /\ call[t].h \in Handles /\ call[t].e \in Nat
      /\ CallAt(t) /\ live \subseteq Handles /\ opened \subseteq Handles
  BY DEF IInv, TypeInv, Tables, CallInv, CallOK
<1>2. Frame(t)
  BY FrameStep DEF IInv
<1>3. \A h \in Handles : h[1] \in Nodes
  BY DEF Handles
<1> QED BY <1>1, <1>2, <1>3, NothingTyped DEF Facts, CallOK

\* A create that reaches its exchange makes a valid endpoint of an invalid entry,
\* a delete wipes one; no other step changes the flag valid.
LEMMA ValidStep ==
  ASSUME IInv, NEW t \in Nodes, Step(t), NEW h \in Handles,
         state'[h].valid # state[h].valid
  PROVE  /\ h = call[t].h /\ h \in Mine(t)
         /\ \/ /\ call[t].op = "create" /\ pc[t] = "xswap" /\ state'[h] = call[t].new
               /\ ~state[h].valid /\ state'[h].valid
            \/ /\ call[t].op = "delete" /\ pc[t] = "wipe" /\ state'[h] = NoState
               /\ state[h].valid /\ ~state'[h].valid
<1>1. WordEffect(t, h)
  BY WordStep
<1>2. /\ state[h] \in Words /\ CreateAt(t) /\ DeleteAt(t)
      /\ (state[h].valid <=> h \in live \/ Creating(h) \/ Deleting(h))
  BY DEF IInv, TypeInv, Tables, CreateInv, DeleteInv, LiveInv, LivePart
<1>3. /\ ~([state[h] EXCEPT !.connected = TRUE].valid # state[h].valid)
      /\ ~([state[h] EXCEPT !.open = TRUE].valid # state[h].valid)
      /\ ~([state[h] EXCEPT !.open = FALSE].valid # state[h].valid)
  BY <1>2 DEF Words
<1>4. CASE h = call[t].h /\ call[t].op = "create" /\ pc[t] = "xswap" /\ state'[h] = call[t].new
  BY <1>2, <1>4 DEF CreateAt
<1>5. CASE h = call[t].h /\ call[t].op = "delete" /\ pc[t] = "wipe" /\ state'[h] = NoState
  <2>1. h \in Mine(t) /\ h[1] = t
    BY <1>2, <1>5 DEF DeleteAt, Mine
  <2>2. Deleting(h)
    BY <1>5, <2>1 DEF Deleting, DeletePCs
  <2> QED BY <1>2, <1>5, <2>1, <2>2 DEF NoState
<1> QED BY <1>1, <1>3, <1>4, <1>5 DEF WordEffect

\* The valid endpoints stay the live ones and those being created or deleted.
LEMMA LiveStep ==
  ASSUME IInv, NEW t \in Nodes, Step(t)
  PROVE  LivePart'
<1>1. Facts(t)
  BY FactsHold
<1>2. \A h \in Handles : state'[h].valid # state[h].valid =>
        /\ h = call[t].h /\ h \in Mine(t)
        /\ \/ /\ call[t].op = "create" /\ pc[t] = "xswap" /\ state'[h] = call[t].new
              /\ ~state[h].valid /\ state'[h].valid
           \/ /\ call[t].op = "delete" /\ pc[t] = "wipe" /\ state'[h] = NoState
              /\ state[h].valid /\ ~state'[h].valid
  BY ValidStep
<1>3. /\ LivePart /\ CreateAt(t) /\ DeleteAt(t)
  BY DEF IInv, LiveInv, CreateInv, DeleteInv
<1>4. DOMAIN state = Handles
  BY DEF IInv, TypeInv, Tables
<1>5. call[t].op = "connect" /\ pc[t] = "xswap" => call[t].next \in {"ctype", "joined"}
  BY DEF IInv, ConnectInv, ConnectAt, AtEndPCs
<1> USE <1>1, <1>2, <1>3
<1> USE DEF Facts, Frame, LivePart, Creating, Deleting, Mine, CallAt, CreateAt, DeleteAt,
            Goto, Return, Locals, CreatePCs, DeletePCs, GetPCs, ConnectPCs, AtEndPCs,
            OpenPCs, ClosePCs
<1>6. ASSUME NEW p \in Ports, TableCall(t), CallCreate(t, p)
      PROVE  LivePart'
  BY <1>6 DEF CallCreate, TableCall, NoCall
<1>7. ASSUME NEW g \in Handles, TableCall(t), CallDelete(t, g)
      PROVE  LivePart'
  BY <1>7 DEF CallDelete, TableCall, NoCall
<1>8. ASSUME NEW op \in {"get", "get_i"}, NEW n \in Nodes, NEW p \in Ports,
             TableCall(t), CallGet(t, op, n, p)
      PROVE  LivePart'
  BY <1>8 DEF CallGet, TableCall, NoCall
<1>9. CASE CreateLimit(t) /\ UNCHANGED chanVars
  BY <1>9 DEF CreateLimit
<1>10. CASE CreateFind(t) /\ UNCHANGED chanVars
  BY <1>10 DEF CreateFind
<1>11. CASE CreateClear(t) /\ UNCHANGED chanVars
  BY <1>11 DEF CreateClear
<1>12. CASE ExchangeRead(t) /\ UNCHANGED chanVars
  BY <1>12 DEF ExchangeRead
<1>13. CASE Exchange(t) /\ UNCHANGED chanVars
  <2>1. /\ pc[t] = "xswap" /\ pc'[t] = call[t].next /\ live' = live /\ call' = call
        /\ call[t].op \in {"create", "connect"}
        /\ state' = IF state[call[t].h] = call[t].old
                     THEN [state EXCEPT ![call[t].h] = call[t].new] ELSE state
    BY <1>13 DEF Exchange
  <2>2. CASE call[t].op = "create"
    <3>1. /\ \A h \in Handles : h # call[t].h => state'[h] = state[h]
          /\ state'[call[t].h].valid /\ call[t].h \notin live /\ call[t].h \in Mine(t)
          /\ pc'[t] = "count"
      BY <2>1, <2>2, <1>4
    <3> QED BY <2>1, <3>1
  <2>3. CASE call[t].op = "connect"
    <3>1. pc'[t] \in {"ctype", "joined"}
      BY <2>1, <2>3, <1>5
    <3>2. \A h \in Handles : state'[h].valid = state[h].valid
      BY <2>1, <2>3
    <3> QED BY <2>1, <3>1, <3>2
  <2> QED BY <2>1, <2>2, <2>3
<1>14. CASE CreateCount(t) /\ UNCHANGED chanVars
  BY <1>14 DEF CreateCount
<1>15. CASE DeleteUncount(t) /\ UNCHANGED chanVars
  BY <1>15 DEF DeleteUncount
<1>16. CASE DeleteWipe(t) /\ UNCHANGED chanVars
  <2>1. /\ pc[t] = "wipe" /\ pc'[t] = "idle" /\ live' = live /\ call[t].op = "delete"
        /\ state' = [state EXCEPT ![call[t].h] = NoState] /\ call[t].h \in Mine(t)
    BY <1>16 DEF DeleteWipe
  <2>2. /\ \A h \in Handles : h # call[t].h => state'[h] = state[h]
        /\ ~state'[call[t].h].valid /\ call[t].h \notin live
    BY <2>1, <1>4 DEF NoState
  <2> QED BY <2>1, <2>2
<1>17. CASE TestGet(t) /\ UNCHANGED chanVars
  BY <1>17 DEF TestGet, CallGet, NoCall
<1>18. CASE GetNext(t) /\ UNCHANGED chanVars
  BY <1>18 DEF GetNext
<1>19. CASE GetMissed(t) /\ UNCHANGED chanVars
  BY <1>19 DEF GetMissed
<1>20. CASE GetLook(t) /\ UNCHANGED chanVars
  BY <1>20 DEF GetLook
<1>21. ASSUME NEW c \in Chans, request[t] = NoRequest, CallConnect(t, c)
      PROVE  LivePart'
  BY <1>21 DEF CallConnect, NoCall
<1>22. ASSUME NEW c \in Chans, NEW end \in {"send", "recv"}, NEW g \in Handles,
             request[t] = NoRequest, CallOpen(t, g, c.type, end)
      PROVE  LivePart'
  BY <1>22 DEF CallOpen, NoCall
<1>23. ASSUME NEW g \in Handles, request[t] = NoRequest, CallClose(t, g)
      PROVE  LivePart'
  BY <1>23 DEF CallClose, NoCall
<1>24. CASE ConnectType(t)
  BY <1>24, SMTT(30) DEF ConnectType
<1>25. CASE QueueRead(t)
  BY <1>25 DEF QueueRead
<1>26. CASE QueueExchange(t)
  BY <1>26 DEF QueueExchange
<1>27. CASE ConnectRead(t)
  BY <1>27 DEF ConnectRead
<1>28. CASE ConnectReturn(t)
  BY <1>28 DEF ConnectReturn
<1>29. CASE OpenRead(t)
  BY <1>29 DEF OpenRead
<1>30. CASE OpenSwap(t)
  BY <1>30 DEF OpenSwap
<1>31. CASE OpenTest(t)
  BY <1>31 DEF OpenTest
<1>32. CASE CheckOpen(t)
  BY <1>32 DEF CheckOpen
<1>33. CASE CloseRead(t)
  BY <1>33 DEF CloseRead
<1>34. CASE CloseSwap(t)
  BY <1>34 DEF CloseSwap
<1> HIDE DEF Facts, Frame, LivePart, Creating, Deleting, Mine, CallAt, CreateAt, DeleteAt,
             Goto, Return, Locals, CreatePCs, DeletePCs, GetPCs, ConnectPCs, AtEndPCs,
             OpenPCs, ClosePCs
<1> QED BY <1>6, <1>7, <1>8, <1>9, <1>10, <1>11, <1>12, <1>13, <1>14, <1>15, <1>16, <1>17,
           <1>18, <1>19, <1>20, <1>21, <1>22, <1>23, <1>24, <1>25, <1>26, <1>27, <1>28,
           <1>29, <1>30, <1>31, <1>32, <1>33, <1>34, ChannelsAssumption
        DEF Step, TableCall, TableStep, EndpointCall, EndpointStep, CreateStep, DeleteStep,
            GetStep, ChannelCall, ChannelStep, ConnectStep, OpenStep, CloseStep

\* What a step of thread t does to the count of its node.
CountEffect(t) ==
  \/ num' = num /\ live' = live /\ pc[t] # "uncount" /\ pc'[t] # "uncount"
  \/ /\ pc[t] = "idle" /\ pc'[t] = "uncount" /\ num' = num
     /\ \E g \in Handles : state[g].valid /\ g \in Mine(t) /\ live' = live \ {g}
  \/ /\ pc[t] = "count" /\ pc'[t] = "idle" /\ live' = live \cup {call[t].h}
     /\ num' = [num EXCEPT ![t] = (@ + 1) % CountMod]
  \/ /\ pc[t] = "uncount" /\ pc'[t] = "wipe" /\ live' = live
     /\ num' = [num EXCEPT ![t] = (@ - 1) % CountMod]

\* Every step is one of these.
LEMMA CountCases ==
  ASSUME IInv, NEW t \in Nodes, Step(t)
  PROVE  CountEffect(t)
<1>1. DOMAIN pc = Nodes
  BY DEF IInv, TypeInv
<1>2. pc[t] = "xswap" => call[t].next \in {"count", "ctype", "joined"}
  BY DEF IInv, CallInv, CallAt, CreateInv, CreateAt, ConnectInv, ConnectAt, CreatePCs,
     DeletePCs, GetPCs, ConnectPCs, AtEndPCs, OpenPCs, ClosePCs
<1> USE <1>1
<1> USE DEF CountEffect, Goto, Return, tableVars
<1>3. ASSUME NEW p \in Ports, TableCall(t), CallCreate(t, p)
      PROVE  CountEffect(t)
  BY <1>3 DEF CallCreate, TableCall
<1>4. ASSUME NEW g \in Handles, TableCall(t), CallDelete(t, g)
      PROVE  CountEffect(t)
  BY <1>4 DEF CallDelete, TableCall
<1>5. ASSUME NEW op \in {"get", "get_i"}, NEW n \in Nodes, NEW p \in Ports,
             TableCall(t), CallGet(t, op, n, p)
      PROVE  CountEffect(t)
  BY <1>5 DEF CallGet, TableCall
<1>6. CASE CreateLimit(t) /\ UNCHANGED chanVars
  BY <1>6 DEF CreateLimit
<1>7. CASE CreateFind(t) /\ UNCHANGED chanVars
  BY <1>7 DEF CreateFind
<1>8. CASE CreateClear(t) /\ UNCHANGED chanVars
  BY <1>8 DEF CreateClear
<1>9. CASE ExchangeRead(t) /\ UNCHANGED chanVars
  BY <1>9 DEF ExchangeRead
<1>10. CASE Exchange(t) /\ UNCHANGED chanVars
  BY <1>10, <1>2 DEF Exchange
<1>11. CASE CreateCount(t) /\ UNCHANGED chanVars
  BY <1>11 DEF CreateCount
<1>12. CASE DeleteUncount(t) /\ UNCHANGED chanVars
  BY <1>12 DEF DeleteUncount
<1>13. CASE DeleteWipe(t) /\ UNCHANGED chanVars
  BY <1>13 DEF DeleteWipe
<1>14. CASE TestGet(t) /\ UNCHANGED chanVars
  BY <1>14 DEF TestGet, CallGet
<1>15. CASE GetNext(t) /\ UNCHANGED chanVars
  BY <1>15 DEF GetNext
<1>16. CASE GetMissed(t) /\ UNCHANGED chanVars
  BY <1>16 DEF GetMissed
<1>17. CASE GetLook(t) /\ UNCHANGED chanVars
  BY <1>17 DEF GetLook
<1>18. ASSUME NEW c \in Chans, request[t] = NoRequest, CallConnect(t, c)
      PROVE  CountEffect(t)
  BY <1>18 DEF CallConnect
<1>19. ASSUME NEW c \in Chans, NEW end \in {"send", "recv"}, NEW g \in Handles,
             request[t] = NoRequest, CallOpen(t, g, c.type, end)
      PROVE  CountEffect(t)
  BY <1>19 DEF CallOpen
<1>20. ASSUME NEW g \in Handles, request[t] = NoRequest, CallClose(t, g)
      PROVE  CountEffect(t)
  BY <1>20 DEF CallClose
<1>21. CASE ConnectType(t)
  BY <1>21 DEF ConnectType
<1>22. CASE QueueRead(t)
  BY <1>22 DEF QueueRead
<1>23. CASE QueueExchange(t)
  BY <1>23 DEF QueueExchange
<1>24. CASE ConnectRead(t)
  BY <1>24 DEF ConnectRead
<1>25. CASE ConnectReturn(t)
  BY <1>25 DEF ConnectReturn
<1>26. CASE OpenRead(t)
  BY <1>26 DEF OpenRead
<1>27. CASE OpenSwap(t)
  BY <1>27 DEF OpenSwap
<1>28. CASE OpenTest(t)
  BY <1>28 DEF OpenTest
<1>29. CASE CheckOpen(t)
  BY <1>29 DEF CheckOpen
<1>30. CASE CloseRead(t)
  BY <1>30 DEF CloseRead
<1>31. CASE CloseSwap(t)
  BY <1>31 DEF CloseSwap
<1> HIDE DEF CountEffect, Goto, Return, tableVars
<1> QED BY <1>3, <1>4, <1>5, <1>6, <1>7, <1>8, <1>9, <1>10, <1>11, <1>12, <1>13, <1>14,
           <1>15, <1>16, <1>17, <1>18, <1>19, <1>20, <1>21, <1>22, <1>23, <1>24, <1>25,
           <1>26, <1>27, <1>28, <1>29, <1>30, <1>31, ChannelsAssumption
        DEF Step, TableCall, TableStep, EndpointCall, EndpointStep, CreateStep, DeleteStep,
            GetStep, ChannelCall, ChannelStep, ConnectStep, OpenStep, CloseStep

\* The count of every node stays that of its live endpoints.
LEMMA CountStep ==
  ASSUME IInv, CountFits, NEW t \in Nodes, Step(t)
  PROVE  CountPart'
<1> DEFINE lives(n) == Cardinality(Mine(n) \cap live)
           lives2(n) == Cardinality(Mine(n) \cap live')
<1>1. Frame(t) /\ CountEffect(t) /\ DOMAIN num = Nodes /\ num[t] \in Nat
  BY FrameStep, CountCases DEF IInv, TypeInv, Tables
<1>2. \A n \in Nodes : /\ pc[n] = "uncount" => num[n] = lives(n) + 1
                       /\ pc[n] # "uncount" => num[n] = lives(n)
  BY DEF IInv, LiveInv, CountPart
<1>3. /\ lives(t) \in Nat /\ IsFiniteSet(Mine(t) \cap live) /\ num[t] <= MaxEndpoints
      /\ pc[t] = "count" => num[t] + 1 <= MaxEndpoints
  BY CountBound DEF IInv
<1>4. SUFFICES /\ \A n \in Nodes \ {t} : lives2(n) = lives(n)
               /\ pc'[t] = "uncount" => num'[t] = lives2(t) + 1
               /\ pc'[t] # "uncount" => num'[t] = lives2(t)
  <2> HIDE DEF lives, lives2
  <2>1. \A n \in Nodes : /\ pc'[n] = "uncount" => num'[n] = lives2(n) + 1
                         /\ pc'[n] # "uncount" => num'[n] = lives2(n)
    BY <1>1, <1>2, <1>4 DEF Frame
  <2> QED BY <2>1 DEF CountPart, lives2
<1>5. ASSUME NEW g \in Mine(t), live' = live \ {g} \/ live' = live \cup {g}
      PROVE  \A n \in Nodes \ {t} : lives2(n) = lives(n)
  <2>1. \A n \in Nodes \ {t} : Mine(n) \cap live' = Mine(n) \cap live
    BY <1>5 DEF Mine
  <2> QED BY <2>1
<1>6. CASE num' = num /\ live' = live /\ pc[t] # "uncount" /\ pc'[t] # "uncount"
  BY <1>2, <1>6
<1>7. ASSUME pc[t] = "idle", pc'[t] = "uncount", num' = num, NEW g \in Handles,
             state[g].valid, g \in Mine(t), live' = live \ {g}
      PROVE  /\ \A n \in Nodes \ {t} : lives2(n) = lives(n)
             /\ num'[t] = lives2(t) + 1
  <2>1. g \in live
    BY <1>7 DEF IInv, LiveInv, LivePart, Creating, Deleting, DeletePCs, Mine
  <2>2. Mine(t) \cap live' = (Mine(t) \cap live) \ {g} /\ g \in Mine(t) \cap live
    BY <1>7, <2>1
  <2>3. Cardinality((Mine(t) \cap live) \ {g}) = Cardinality(Mine(t) \cap live) - 1
    BY <2>2, <1>3, FS_RemoveElement
  <2>4. lives2(t) = lives(t) - 1
    BY <2>2, <2>3
  <2>5. num'[t] = lives(t)
    BY <1>2, <1>7
  <2> HIDE DEF lives, lives2
  <2> QED BY <1>3, <1>5, <1>7, <2>4, <2>5
<1>8. CASE /\ pc[t] = "count" /\ pc'[t] = "idle" /\ live' = live \cup {call[t].h}
           /\ num' = [num EXCEPT ![t] = (@ + 1) % CountMod]
  <2>1. call[t].op = "create"
    BY <1>8 DEF IInv, CallInv, CallAt, DeletePCs, GetPCs, ConnectPCs, AtEndPCs, OpenPCs, ClosePCs
  <2>2. call[t].h \in Mine(t) /\ call[t].h \notin live
    BY <1>8, <2>1 DEF IInv, CreateInv, CreateAt, LiveInv, LivePart, Creating, Mine
  <2>3. /\ Mine(t) \cap live' = (Mine(t) \cap live) \cup {call[t].h}
        /\ call[t].h \notin Mine(t) \cap live
    BY <1>8, <2>2
  <2>4. Cardinality((Mine(t) \cap live) \cup {call[t].h}) = Cardinality(Mine(t) \cap live) + 1
    BY <2>3, <1>3, FS_AddElement
  <2>5. lives2(t) = lives(t) + 1
    BY <2>3, <2>4
  <2>6. (num[t] + 1) % CountMod = num[t] + 1
    BY <1>1, <1>3, <1>8, EndpointsAssumption DEF CountFits, CountMod
  <2>7. num'[t] = lives(t) + 1
    BY <1>1, <1>2, <1>8, <2>6
  <2> HIDE DEF lives, lives2
  <2> QED BY <1>3, <1>5, <1>8, <2>2, <2>5, <2>7
<1>9. CASE /\ pc[t] = "uncount" /\ pc'[t] = "wipe" /\ live' = live
           /\ num' = [num EXCEPT ![t] = (@ - 1) % CountMod]
  <2>1. num[t] = lives(t) + 1
    BY <1>2, <1>9
  <2>2. (num[t] - 1) % CountMod = num[t] - 1
    <3> HIDE DEF lives
    <3> QED BY <2>1, <1>1, <1>3, EndpointsAssumption DEF CountFits, CountMod
  <2>3. num'[t] = lives(t) /\ \A n \in Nodes : lives2(n) = lives(n)
    <3>1. num'[t] = num[t] - 1
      BY <1>1, <1>9, <2>2
    <3>2. \A n \in Nodes : lives2(n) = lives(n)
      BY <1>9
    <3> HIDE DEF lives
    <3> QED BY <1>1, <1>3, <2>1, <3>1, <3>2
  <2> QED BY <1>9, <2>3
<1> HIDE DEF lives, lives2
<1> QED BY <1>1, <1>6, <1>7, <1>8, <1>9 DEF CountEffect

\* The words of another node's endpoints are written only by connect, which
\* sets a flag of a valid endpoint that its node is not working on.
LEMMA OthersKept ==
  ASSUME IInv, NEW t \in Nodes, Step(t), NEW h \in Handles, h \notin Mine(t),
         state'[h] # state[h]
  PROVE  /\ state'[h] = [state[h] EXCEPT !.connected = TRUE]
         /\ state[h].valid /\ ~Handling(h) /\ call[t].op = "connect"
<1>1. WordEffect(t, h)
  BY WordStep
<1>2. CreateAt(t) /\ DeleteAt(t) /\ OpenAt(t) /\ ConnectAt(t)
  BY DEF IInv, CreateInv, DeleteInv, OpenInv, ConnectInv
<1>3. ~(call[t].op = "create" /\ pc[t] = "xswap" /\ h = call[t].h)
  BY <1>2 DEF CreateAt
<1>4. ~(call[t].op \in {"delete", "open", "close"} /\ h = call[t].h)
  BY <1>2 DEF DeleteAt, OpenAt
<1>5. call[t].op = "connect" /\ pc[t] = "xswap" /\ h = call[t].h => h \in Ends(call[t].pair)
  BY <1>2 DEF ConnectAt, AtEndPCs, Ends
<1> QED BY <1>1, <1>2, <1>3, <1>4, <1>5 DEF WordEffect, ConnectAt

\* No step changes the port of a live endpoint.
LEMMA LivePort ==
  ASSUME IInv, NEW t \in Nodes, Step(t), NEW h \in live
  PROVE  state'[h].port = state[h].port
<1>1. h \in Handles /\ state[h] \in Words
  BY DEF IInv, TypeInv, Tables
<1>2. WordEffect(t, h)
  BY <1>1, WordStep
<1>3. CreateAt(t) /\ DeleteAt(t) /\ state[h].valid /\ ~Deleting(h)
  BY <1>1 DEF IInv, CreateInv, DeleteInv, LiveInv, LivePart
<1>4. ~(call[t].op = "create" /\ pc[t] = "xswap" /\ h = call[t].h)
  BY <1>3 DEF CreateAt
<1>5. ~(call[t].op = "delete" /\ pc[t] = "wipe" /\ h = call[t].h)
  BY <1>3 DEF DeleteAt, Deleting, DeletePCs, Mine
<1>6. /\ [state[h] EXCEPT !.connected = TRUE].port = state[h].port
      /\ [state[h] EXCEPT !.open = TRUE].port = state[h].port
      /\ [state[h] EXCEPT !.open = FALSE].port = state[h].port
  BY <1>1 DEF Words
<1> QED BY <1>2, <1>4, <1>5, <1>6 DEF WordEffect

\* A step keeps what its own thread knows of its create.
LEMMA CreateOwn ==
  ASSUME IInv, NEW t \in Nodes, Step(t)
  PROVE  CreateAt(t)'
<1>1. Facts(t)
  BY FactsHold
<1>3. CreateAt(t)
  BY DEF IInv, CreateInv
<1>4. /\ DOMAIN state = Handles
      /\ \A g \in Handles : DOMAIN state[g] = {"port", "valid", "open", "connected"}
  BY DEF IInv, TypeInv, Tables, Words
<1>5. num[t] <= MaxEndpoints /\ num[t] \in Nat /\ MaxEndpoints \in Nat
  BY AssertsHold, EndpointsAssumption DEF IInv, TypeInv, Tables
<1> USE <1>1, <1>3, <1>4
<1> USE DEF Facts, CreateAt, Mine, CallAt, Goto, Return, Locals, tableVars, CreatePCs,
            DeletePCs, GetPCs, ConnectPCs, AtEndPCs, OpenPCs, ClosePCs
<1>6. ASSUME NEW p \in Ports, TableCall(t), CallCreate(t, p)
      PROVE  CreateAt(t)'
  BY <1>6 DEF CallCreate, TableCall, NoCall
<1>7. ASSUME NEW g \in Handles, TableCall(t), CallDelete(t, g)
      PROVE  CreateAt(t)'
  BY <1>7 DEF CallDelete, TableCall, NoCall
<1>8. ASSUME NEW op \in {"get", "get_i"}, NEW n \in Nodes, NEW p \in Ports,
             TableCall(t), CallGet(t, op, n, p)
      PROVE  CreateAt(t)'
  BY <1>8 DEF CallGet, TableCall, NoCall
<1>9. CASE CreateLimit(t) /\ UNCHANGED chanVars
  BY <1>9, <1>5 DEF CreateLimit
<1>10. CASE CreateFind(t) /\ UNCHANGED chanVars
  <2>1. CASE {e \in Indices : ~state[<<t, e>>].valid} = {}
    BY <1>10, <2>1 DEF CreateFind
  <2>2. CASE {e \in Indices : ~state[<<t, e>>].valid} # {}
    <3> DEFINE free == {e \in Indices : ~state[<<t, e>>].valid}  g == <<t, First(free)>>
    <3>0. free \subseteq Indices /\ free # {}
      BY <2>2
    <3>1. g \in Handles /\ g[1] = t /\ ~state[g].valid
      <4>1. First(free) \in free
        BY <3>0, FirstIs
      <4> QED BY <4>1, <3>0 DEF Handles
    <3>2. /\ call' = [call EXCEPT ![t] =
               [@ EXCEPT !.h = g, !.new = [state[g] EXCEPT !.port = call[t].port,
                                                           !.open = FALSE, !.valid = TRUE]]]
          /\ pc' = [pc EXCEPT ![t] = "clear"] /\ state' = state
      BY <1>10, <2>2 DEF CreateFind
    <3> HIDE DEF g
    <3>3. /\ call'[t].h = g /\ call'[t].port = call[t].port
          /\ call'[t].new = [state[g] EXCEPT !.port = call[t].port, !.open = FALSE,
                                             !.valid = TRUE]
          /\ pc'[t] = "clear"
      BY <3>2
    <3>4. /\ call'[t].new.port = call[t].port /\ call'[t].new.valid /\ ~call'[t].new.open
          /\ call'[t].new.connected = state[g].connected
      BY <3>1, <3>3, <1>4
    <3> QED BY <3>1, <3>2, <3>3, <3>4
  <2> QED BY <2>1, <2>2
<1>11. CASE CreateClear(t) /\ UNCHANGED chanVars
  BY <1>11 DEF CreateClear
<1>12. CASE ExchangeRead(t) /\ UNCHANGED chanVars
  BY <1>12 DEF ExchangeRead
<1>13. CASE Exchange(t) /\ UNCHANGED chanVars
  BY <1>13 DEF Exchange
<1>14. CASE CreateCount(t) /\ UNCHANGED chanVars
  BY <1>14 DEF CreateCount
<1>15. CASE DeleteUncount(t) /\ UNCHANGED chanVars
  BY <1>15 DEF DeleteUncount
<1>16. CASE DeleteWipe(t) /\ UNCHANGED chanVars
  BY <1>16 DEF DeleteWipe
<1>17. CASE TestGet(t) /\ UNCHANGED chanVars
  BY <1>17 DEF TestGet, CallGet, NoCall
<1>18. CASE GetNext(t) /\ UNCHANGED chanVars
  BY <1>18 DEF GetNext
<1>19. CASE GetMissed(t) /\ UNCHANGED chanVars
  BY <1>19 DEF GetMissed
<1>20. CASE GetLook(t) /\ UNCHANGED chanVars
  BY <1>20 DEF GetLook
<1>21. ASSUME NEW c \in Chans, request[t] = NoRequest, CallConnect(t, c)
      PROVE  CreateAt(t)'
  BY <1>21 DEF CallConnect, NoCall
<1>22. ASSUME NEW c \in Chans, NEW end \in {"send", "recv"}, NEW g \in Handles,
             request[t] = NoRequest, CallOpen(t, g, c.type, end)
      PROVE  CreateAt(t)'
  BY <1>22 DEF CallOpen, NoCall
<1>23. ASSUME NEW g \in Handles, request[t] = NoRequest, CallClose(t, g)
      PROVE  CreateAt(t)'
  BY <1>23 DEF CallClose, NoCall
<1>24. CASE ConnectType(t)
  BY <1>24 DEF ConnectType
<1>25. CASE QueueRead(t)
  BY <1>25 DEF QueueRead
<1>26. CASE QueueExchange(t)
  BY <1>26 DEF QueueExchange
<1>27. CASE ConnectRead(t)
  BY <1>27 DEF ConnectRead
<1>28. CASE ConnectReturn(t)
  BY <1>28 DEF ConnectReturn
<1>29. CASE OpenRead(t)
  BY <1>29 DEF OpenRead
<1>30. CASE OpenSwap(t)
  BY <1>30 DEF OpenSwap
<1>31. CASE OpenTest(t)
  BY <1>31 DEF OpenTest
<1>32. CASE CheckOpen(t)
  BY <1>32 DEF CheckOpen
<1>33. CASE CloseRead(t)
  BY <1>33 DEF CloseRead
<1>34. CASE CloseSwap(t)
  BY <1>34 DEF CloseSwap
<1> HIDE DEF Facts, CreateAt, Mine, CallAt, Goto, Return, Locals, tableVars, CreatePCs,
             DeletePCs, GetPCs, ConnectPCs, AtEndPCs, OpenPCs, ClosePCs
<1> QED BY <1>6, <1>7, <1>8, <1>9, <1>10, <1>11, <1>12, <1>13, <1>14, <1>15, <1>16, <1>17,
           <1>18, <1>19, <1>20, <1>21, <1>22, <1>23, <1>24, <1>25, <1>26, <1>27, <1>28,
           <1>29, <1>30, <1>31, <1>32, <1>33, <1>34, ChannelsAssumption
        DEF Step, TableCall, TableStep, EndpointCall, EndpointStep, CreateStep, DeleteStep,
            GetStep, ChannelCall, ChannelStep, ConnectStep, OpenStep, CloseStep

\* Other threads leave a create alone, since its entry is not valid.
LEMMA CreateStepInv ==
  ASSUME IInv, NEW t \in Nodes, Step(t)
  PROVE  CreateInv'
<1>1. SUFFICES ASSUME NEW u \in Nodes \ {t} PROVE CreateAt(u)'
  BY CreateOwn DEF CreateInv
<1>2. call'[u] = call[u] /\ pc'[u] = pc[u] /\ CreateAt(u)
  BY FrameStep DEF IInv, Frame, CreateInv
<1>3. call[u].h \in Handles /\ state[call[u].h] \in Words
  BY DEF IInv, TypeInv, Tables, CallOK
<1>4. CASE call[u].op = "create" /\ pc[u] # "limit"
  <2>1. call[u].h \in Mine(u) /\ call[u].h \notin Mine(t)
    BY <1>2, <1>4 DEF CreateAt, Mine
  <2>2. ~state[call[u].h].valid => state'[call[u].h] = state[call[u].h]
    BY <1>3, <2>1, OthersKept
  <2>3. state'[call[u].h].port = state[call[u].h].port
    BY <1>3, <2>1, OthersKept DEF Words
  <2>4. call[u].op = "create" => pc[u] \in CreatePCs
    BY DEF IInv, CallInv, CallAt
  <2> QED BY <1>2, <1>4, <2>1, <2>2, <2>3 DEF CreateAt
<1>5. CASE ~(call[u].op = "create" /\ pc[u] # "limit")
  BY <1>2, <1>5 DEF CreateAt
<1> QED BY <1>4, <1>5

\* A step keeps what its own thread knows of its delete.
LEMMA DeleteOwn ==
  ASSUME IInv, NEW t \in Nodes, Step(t)
  PROVE  DeleteAt(t)'
<1>1. Facts(t)
  BY FactsHold
<1>3. DeleteAt(t)
  BY DEF IInv, DeleteInv
<1> USE <1>1, <1>3
<1> USE DEF Facts, DeleteAt, Mine, CallAt, Goto, Return, Locals, tableVars, CreatePCs,
            DeletePCs, GetPCs, ConnectPCs, AtEndPCs, OpenPCs, ClosePCs
<1>4. ASSUME NEW p \in Ports, TableCall(t), CallCreate(t, p)
      PROVE  DeleteAt(t)'
  BY <1>4 DEF CallCreate, TableCall, NoCall
<1>5. ASSUME NEW g \in Handles, TableCall(t), CallDelete(t, g)
      PROVE  DeleteAt(t)'
  BY <1>5 DEF CallDelete, TableCall, NoCall
<1>6. ASSUME NEW op \in {"get", "get_i"}, NEW n \in Nodes, NEW p \in Ports,
             TableCall(t), CallGet(t, op, n, p)
      PROVE  DeleteAt(t)'
  BY <1>6 DEF CallGet, TableCall, NoCall
<1>7. CASE CreateLimit(t) /\ UNCHANGED chanVars
  BY <1>7 DEF CreateLimit
<1>8. CASE CreateFind(t) /\ UNCHANGED chanVars
  BY <1>8, CreateFindCases
<1>9. CASE CreateClear(t) /\ UNCHANGED chanVars
  BY <1>9 DEF CreateClear
<1>10. CASE ExchangeRead(t) /\ UNCHANGED chanVars
  BY <1>10 DEF ExchangeRead
<1>11. CASE Exchange(t) /\ UNCHANGED chanVars
  BY <1>11 DEF Exchange
<1>12. CASE CreateCount(t) /\ UNCHANGED chanVars
  BY <1>12 DEF CreateCount
<1>13. CASE DeleteUncount(t) /\ UNCHANGED chanVars
  BY <1>13 DEF DeleteUncount
<1>14. CASE DeleteWipe(t) /\ UNCHANGED chanVars
  BY <1>14 DEF DeleteWipe
<1>15. CASE TestGet(t) /\ UNCHANGED chanVars
  BY <1>15 DEF TestGet, CallGet, NoCall
<1>16. CASE GetNext(t) /\ UNCHANGED chanVars
  BY <1>16 DEF GetNext
<1>17. CASE GetMissed(t) /\ UNCHANGED chanVars
  BY <1>17 DEF GetMissed
<1>18. CASE GetLook(t) /\ UNCHANGED chanVars
  BY <1>18 DEF GetLook
<1>19. ASSUME NEW c \in Chans, request[t] = NoRequest, CallConnect(t, c)
      PROVE  DeleteAt(t)'
  BY <1>19 DEF CallConnect, NoCall
<1>20. ASSUME NEW c \in Chans, NEW end \in {"send", "recv"}, NEW g \in Handles,
             request[t] = NoRequest, CallOpen(t, g, c.type, end)
      PROVE  DeleteAt(t)'
  BY <1>20 DEF CallOpen, NoCall
<1>21. ASSUME NEW g \in Handles, request[t] = NoRequest, CallClose(t, g)
      PROVE  DeleteAt(t)'
  BY <1>21 DEF CallClose, NoCall
<1>22. CASE ConnectType(t)
  BY <1>22 DEF ConnectType
<1>23. CASE QueueRead(t)
  BY <1>23 DEF QueueRead
<1>24. CASE QueueExchange(t)
  BY <1>24 DEF QueueExchange
<1>25. CASE ConnectRead(t)
  BY <1>25 DEF ConnectRead
<1>26. CASE ConnectReturn(t)
  BY <1>26 DEF ConnectReturn
<1>27. CASE OpenRead(t)
  BY <1>27 DEF OpenRead
<1>28. CASE OpenSwap(t)
  BY <1>28 DEF OpenSwap
<1>29. CASE OpenTest(t)
  BY <1>29 DEF OpenTest
<1>30. CASE CheckOpen(t)
  BY <1>30 DEF CheckOpen
<1>31. CASE CloseRead(t)
  BY <1>31 DEF CloseRead
<1>32. CASE CloseSwap(t)
  BY <1>32 DEF CloseSwap
<1> HIDE DEF Facts, DeleteAt, Mine, CallAt, Goto, Return, Locals, tableVars, CreatePCs,
             DeletePCs, GetPCs, ConnectPCs, AtEndPCs, OpenPCs, ClosePCs
<1> QED BY <1>4, <1>5, <1>6, <1>7, <1>8, <1>9, <1>10, <1>11, <1>12, <1>13, <1>14, <1>15,
           <1>16, <1>17, <1>18, <1>19, <1>20, <1>21, <1>22, <1>23, <1>24, <1>25, <1>26,
           <1>27, <1>28, <1>29, <1>30, <1>31, <1>32, ChannelsAssumption
        DEF Step, TableCall, TableStep, EndpointCall, EndpointStep, CreateStep, DeleteStep,
            GetStep, ChannelCall, ChannelStep, ConnectStep, OpenStep, CloseStep

\* Other threads do not open the endpoint that is deleted.
LEMMA DeleteStepInv ==
  ASSUME IInv, NEW t \in Nodes, Step(t)
  PROVE  DeleteInv'
<1>1. SUFFICES ASSUME NEW u \in Nodes \ {t} PROVE DeleteAt(u)'
  BY DeleteOwn DEF DeleteInv
<1>2. call'[u] = call[u] /\ pc'[u] = pc[u] /\ DeleteAt(u)
  BY FrameStep DEF IInv, Frame, DeleteInv
<1>3. call[u].h \in Handles /\ state[call[u].h] \in Words
  BY DEF IInv, TypeInv, Tables, CallOK
<1>4. CASE call[u].op = "delete"
  <2>1. call[u].h \in Mine(u) /\ call[u].h \notin Mine(t)
    BY <1>2, <1>4 DEF DeleteAt, Mine
  <2>2. state'[call[u].h] = state[call[u].h]
    BY <1>3, <1>4, <2>1, OthersKept DEF Handling
  <2> QED BY <1>2, <1>4, <2>1, <2>2 DEF DeleteAt
<1>5. CASE call[u].op # "delete"
  BY <1>2, <1>5 DEF DeleteAt
<1> QED BY <1>4, <1>5

\* What a step does to the live endpoints and to the port of a create.
CreateEffect(t) ==
  /\ \/ live' \subseteq live
     \/ pc[t] = "count" /\ live' = live \cup {call[t].h} /\ call'[t].op # "create"
  /\ call'[t].op = "create" =>
       \/ call[t].op = "create" /\ call'[t].port = call[t].port
       \/ ~EndpointExists(t, call'[t].port) /\ live' = live

\* Every step is one of these.
LEMMA CreateCases ==
  ASSUME IInv, NEW t \in Nodes, Step(t)
  PROVE  CreateEffect(t)
<1>1. Facts(t)
  BY FactsHold
<1> USE <1>1
<1> USE DEF Facts, CreateEffect, Goto, Return, Locals, tableVars
<1>2. ASSUME NEW p \in Ports, TableCall(t), CallCreate(t, p)
      PROVE  CreateEffect(t)
  BY <1>2 DEF CallCreate, TableCall, NoCall
<1>3. ASSUME NEW g \in Handles, TableCall(t), CallDelete(t, g)
      PROVE  CreateEffect(t)
  BY <1>3 DEF CallDelete, TableCall, NoCall
<1>4. ASSUME NEW op \in {"get", "get_i"}, NEW n \in Nodes, NEW p \in Ports,
             TableCall(t), CallGet(t, op, n, p)
      PROVE  CreateEffect(t)
  BY <1>4 DEF CallGet, TableCall, NoCall
<1>5. CASE CreateLimit(t) /\ UNCHANGED chanVars
  BY <1>5 DEF CreateLimit
<1>6. CASE CreateFind(t) /\ UNCHANGED chanVars
  BY <1>6, CreateFindCases
<1>7. CASE CreateClear(t) /\ UNCHANGED chanVars
  BY <1>7 DEF CreateClear
<1>8. CASE ExchangeRead(t) /\ UNCHANGED chanVars
  BY <1>8 DEF ExchangeRead
<1>9. CASE Exchange(t) /\ UNCHANGED chanVars
  BY <1>9 DEF Exchange
<1>10. CASE CreateCount(t) /\ UNCHANGED chanVars
  BY <1>10 DEF CreateCount
<1>11. CASE DeleteUncount(t) /\ UNCHANGED chanVars
  BY <1>11 DEF DeleteUncount
<1>12. CASE DeleteWipe(t) /\ UNCHANGED chanVars
  BY <1>12 DEF DeleteWipe
<1>13. CASE TestGet(t) /\ UNCHANGED chanVars
  BY <1>13 DEF TestGet, CallGet, NoCall
<1>14. CASE GetNext(t) /\ UNCHANGED chanVars
  BY <1>14 DEF GetNext
<1>15. CASE GetMissed(t) /\ UNCHANGED chanVars
  BY <1>15 DEF GetMissed
<1>16. CASE GetLook(t) /\ UNCHANGED chanVars
  BY <1>16 DEF GetLook
<1>17. ASSUME NEW c \in Chans, request[t] = NoRequest, CallConnect(t, c)
      PROVE  CreateEffect(t)
  BY <1>17 DEF CallConnect, NoCall
<1>18. ASSUME NEW c \in Chans, NEW end \in {"send", "recv"}, NEW g \in Handles,
             request[t] = NoRequest, CallOpen(t, g, c.type, end)
      PROVE  CreateEffect(t)
  BY <1>18 DEF CallOpen, NoCall
<1>19. ASSUME NEW g \in Handles, request[t] = NoRequest, CallClose(t, g)
      PROVE  CreateEffect(t)
  BY <1>19 DEF CallClose, NoCall
<1>20. CASE ConnectType(t)
  BY <1>20 DEF ConnectType
<1>21. CASE QueueRead(t)
  BY <1>21 DEF QueueRead
<1>22. CASE QueueExchange(t)
  BY <1>22 DEF QueueExchange
<1>23. CASE ConnectRead(t)
  BY <1>23 DEF ConnectRead
<1>24. CASE ConnectReturn(t)
  BY <1>24 DEF ConnectReturn
<1>25. CASE OpenRead(t)
  BY <1>25 DEF OpenRead
<1>26. CASE OpenSwap(t)
  BY <1>26 DEF OpenSwap
<1>27. CASE OpenTest(t)
  BY <1>27 DEF OpenTest
<1>28. CASE CheckOpen(t)
  BY <1>28 DEF CheckOpen
<1>29. CASE CloseRead(t)
  BY <1>29 DEF CloseRead
<1>30. CASE CloseSwap(t)
  BY <1>30 DEF CloseSwap
<1> HIDE DEF Facts, CreateEffect, Goto, Return, Locals, tableVars
<1> QED BY <1>2, <1>3, <1>4, <1>5, <1>6, <1>7, <1>8, <1>9, <1>10, <1>11, <1>12, <1>13,
           <1>14, <1>15, <1>16, <1>17, <1>18, <1>19, <1>20, <1>21, <1>22, <1>23, <1>24,
           <1>25, <1>26, <1>27, <1>28, <1>29, <1>30, ChannelsAssumption
        DEF Step, TableCall, TableStep, EndpointCall, EndpointStep, CreateStep, DeleteStep,
            GetStep, ChannelCall, ChannelStep, ConnectStep, OpenStep, CloseStep

\* A port goes on naming one endpoint of its node.
LEMMA PortStep ==
  ASSUME IInv, NEW t \in Nodes, Step(t)
  PROVE  PortInv'
<1>1. CreateEffect(t) /\ Frame(t)
  BY CreateCases, FrameStep DEF IInv
<1>2. /\ live \subseteq Handles /\ \A h \in live : state'[h].port = state[h].port
      /\ \A h \in live : state[h].valid
  BY LivePort DEF IInv, TypeInv, Tables, LiveInv, LivePart
<1>3. PortInv
  BY DEF IInv
<1>4. ASSUME pc[t] = "count", live' = live \cup {call[t].h}
      PROVE  /\ call[t].op = "create" /\ call[t].h \in Mine(t)
             /\ state'[call[t].h].port = call[t].port
  <2>1. call[t].op = "create"
    BY <1>4 DEF IInv, CallInv, CallAt, DeletePCs, GetPCs, ConnectPCs, AtEndPCs, OpenPCs, ClosePCs
  <2>2. call[t].h \in Mine(t) /\ state[call[t].h].port = call[t].port /\ call[t].h \in Handles
    BY <1>4, <2>1 DEF IInv, CreateInv, CreateAt, Mine
  <2>3. state'[call[t].h] = state[call[t].h]
    BY <1>4, <2>1, <2>2, WordStep DEF WordEffect
  <2> QED BY <2>1, <2>2, <2>3
<1>5. \A g, h \in live' : g[1] = h[1] /\ state'[g].port = state'[h].port => g = h
  BY <1>1, <1>2, <1>3, <1>4 DEF CreateEffect, PortInv, Mine
<1>6. ASSUME NEW n \in Nodes, call'[n].op = "create", NEW g \in Mine(n) \cap live'
      PROVE  state'[g].port # call'[n].port
  <2>1. g[1] = n /\ g \in Handles
    BY DEF Mine
  <2>2. CASE n # t
    <3>1. g \in live
      BY <1>1, <1>4, <2>1, <2>2 DEF CreateEffect, Mine
    <3> QED BY <1>1, <1>2, <1>3, <1>6, <2>2, <3>1 DEF Frame, PortInv
  <2>3. CASE n = t
    <3>1. g \in live
      BY <1>1, <1>6, <2>3 DEF CreateEffect
    <3>2. CASE call[t].op = "create" /\ call'[t].port = call[t].port
      BY <1>2, <1>3, <2>3, <3>1, <3>2 DEF PortInv
    <3>3. CASE ~EndpointExists(t, call'[t].port)
      <4>1. \E e \in Indices : g = <<t, e>>
        BY <2>1, <2>3 DEF Handles
      <4> QED BY <1>2, <2>3, <3>1, <3>3, <4>1 DEF EndpointExists, Has
    <3> QED BY <1>1, <1>6, <2>3, <3>2, <3>3 DEF CreateEffect
  <2> QED BY <2>2, <2>3
<1> QED BY <1>5, <1>6 DEF PortInv

-----------------------------------------------------------------------------
(* Connections.                                                            *)

\* What a step of thread t may begin: an open, close or delete of an endpoint
\* that is not being connected, or a connect.
CallEffect(t) ==
  /\ call'[t].op \in {"open", "close", "delete"} =>
       \/ call[t].op = call'[t].op /\ call[t].h = call'[t].h
       \/ ~Connecting(call'[t].h)
  /\ call'[t].op = "connect" =>
       \/ \E c \in Chans : CallConnect(t, c)
       \/ /\ call[t].op = "connect" /\ call'[t].pair = call[t].pair
          /\ call'[t].type = call[t].type
          /\ \/ ConnectType(t) \/ QueueRead(t) \/ QueueExchange(t) \/ ConnectRead(t)
             \/ ExchangeRead(t) \/ Exchange(t)
  /\ call[t].op = "connect" /\ call'[t].op # "connect" => pc[t] = "joined"

\* Every step begins no more.
LEMMA CallCases ==
  ASSUME IInv, Orderly, NEW t \in Nodes, Step(t)
  PROVE  CallEffect(t)
<1>1. Facts(t)
  BY FactsHold
<1> USE <1>1
<1> USE DEF Facts, CallEffect, CallAt, Goto, Return, Locals, tableVars, CreatePCs,
            DeletePCs, GetPCs, ConnectPCs, AtEndPCs, OpenPCs, ClosePCs
<1>2. ASSUME NEW p \in Ports, TableCall(t), CallCreate(t, p)
      PROVE  CallEffect(t)
  BY <1>2 DEF CallCreate, TableCall, NoCall
<1>3. ASSUME NEW g \in Handles, TableCall(t), CallDelete(t, g)
      PROVE  CallEffect(t)
  <2>1. /\ state[g].valid /\ g \in Mine(t) /\ pc[t] = "idle" /\ live' = live \ {g}
        /\ \A h \in live \ live' : Allowed(h)
        /\ call' = [call EXCEPT ![t] = [NoCall EXCEPT !.op = "delete", !.h = g]]
    BY <1>3 DEF CallDelete, TableCall
  <2>2. g \in live
    BY <2>1 DEF IInv, LiveInv, LivePart, Creating, Deleting, DeletePCs, Mine
  <2>3. ~Connecting(g)
    BY <2>1, <2>2 DEF Allowed
  <2> QED BY <2>1, <2>3 DEF NoCall
<1>4. ASSUME NEW op \in {"get", "get_i"}, NEW n \in Nodes, NEW p \in Ports,
             TableCall(t), CallGet(t, op, n, p)
      PROVE  CallEffect(t)
  BY <1>4 DEF CallGet, TableCall, NoCall
<1>5. CASE CreateLimit(t) /\ UNCHANGED chanVars
  BY <1>5 DEF CreateLimit
<1>6. CASE CreateFind(t) /\ UNCHANGED chanVars
  BY <1>6, CreateFindCases
<1>7. CASE CreateClear(t) /\ UNCHANGED chanVars
  BY <1>7 DEF CreateClear
<1>8. CASE ExchangeRead(t) /\ UNCHANGED chanVars
  BY <1>8 DEF ExchangeRead
<1>9. CASE Exchange(t) /\ UNCHANGED chanVars
  BY <1>9 DEF Exchange
<1>10. CASE CreateCount(t) /\ UNCHANGED chanVars
  BY <1>10 DEF CreateCount
<1>11. CASE DeleteUncount(t) /\ UNCHANGED chanVars
  BY <1>11 DEF DeleteUncount
<1>12. CASE DeleteWipe(t) /\ UNCHANGED chanVars
  BY <1>12 DEF DeleteWipe
<1>13. CASE TestGet(t) /\ UNCHANGED chanVars
  BY <1>13 DEF TestGet, CallGet, NoCall
<1>14. CASE GetNext(t) /\ UNCHANGED chanVars
  BY <1>14 DEF GetNext
<1>15. CASE GetMissed(t) /\ UNCHANGED chanVars
  BY <1>15 DEF GetMissed
<1>16. CASE GetLook(t) /\ UNCHANGED chanVars
  BY <1>16 DEF GetLook
<1>17. ASSUME NEW c \in Chans, request[t] = NoRequest, CallConnect(t, c)
      PROVE  CallEffect(t)
  <2>1. call'[t].op = "connect" /\ pc[t] = "idle"
    BY <1>17 DEF CallConnect, NoCall
  <2> QED BY <1>17, <2>1
<1>18. ASSUME NEW c \in Chans, NEW end \in {"send", "recv"}, NEW g \in Handles,
             request[t] = NoRequest, CallOpen(t, g, c.type, end)
      PROVE  CallEffect(t)
  BY <1>18 DEF CallOpen, NoCall, Allowed
<1>19. ASSUME NEW g \in Handles, request[t] = NoRequest, CallClose(t, g)
      PROVE  CallEffect(t)
  BY <1>19 DEF CallClose, NoCall, Allowed
<1>20. CASE ConnectType(t)
  BY <1>20 DEF ConnectType
<1>21. CASE QueueRead(t)
  BY <1>21 DEF QueueRead
<1>22. CASE QueueExchange(t)
  BY <1>22 DEF QueueExchange
<1>23. CASE ConnectRead(t)
  BY <1>23 DEF ConnectRead
<1>24. CASE ConnectReturn(t)
  BY <1>24 DEF ConnectReturn
<1>25. CASE OpenRead(t)
  BY <1>25 DEF OpenRead
<1>26. CASE OpenSwap(t)
  BY <1>26 DEF OpenSwap
<1>27. CASE OpenTest(t)
  BY <1>27 DEF OpenTest
<1>28. CASE CheckOpen(t)
  BY <1>28 DEF CheckOpen
<1>29. CASE CloseRead(t)
  BY <1>29 DEF CloseRead
<1>30. CASE CloseSwap(t)
  BY <1>30 DEF CloseSwap
<1> HIDE DEF Facts, CallEffect, CallAt, Goto, Return, Locals, tableVars, CreatePCs,
             DeletePCs, GetPCs, ConnectPCs, AtEndPCs, OpenPCs, ClosePCs
<1> QED BY <1>2, <1>3, <1>4, <1>5, <1>6, <1>7, <1>8, <1>9, <1>10, <1>11, <1>12, <1>13,
           <1>14, <1>15, <1>16, <1>17, <1>18, <1>19, <1>20, <1>21, <1>22, <1>23, <1>24,
           <1>25, <1>26, <1>27, <1>28, <1>29, <1>30, ChannelsAssumption
        DEF Step, TableCall, TableStep, EndpointCall, EndpointStep, CreateStep, DeleteStep,
            GetStep, ChannelCall, ChannelStep, ConnectStep, OpenStep, CloseStep

\* The endpoints of a connect that is under way.
LEMMA ConnectingFacts ==
  ASSUME IInv, NEW u \in Nodes, call[u].op = "connect"
  PROVE  /\ \A h \in Ends(call[u].pair) :
              /\ h \in Handles /\ Connecting(h) /\ state[h].valid /\ ~Handling(h)
              /\ call[u].pair \in Pairs(h) /\ call[u].type \in Kinds(h)
         /\ call[u].type \in {"pkt", "scl"}
<1>1. ConnectAt(u)
  BY DEF IInv, ConnectInv
<1>2. PICK c \in Chans : call[u].pair = PairOf(c) /\ call[u].type = c.type
  BY <1>1 DEF ConnectAt
<1>3. Ends(call[u].pair) = Ends(c)
  BY <1>2 DEF Ends, PairOf
<1>4. /\ c.send \in Handles /\ c.recv \in Handles /\ c.type \in {"pkt", "scl"}
  BY ChannelsAssumption
<1> QED BY <1>1, <1>2, <1>3, <1>4 DEF ConnectAt, Connecting, Pairs, Kinds, ChansOf, Ends

\* While an endpoint is being connected, steps only make it connected, and give
\* it the type and the ends of one of its channels.
LEMMA ConnectSafe ==
  ASSUME IInv, NEW t \in Nodes, Step(t), NEW h \in Handles, Connecting(h)
  PROVE  /\ state'[h] = state[h] \/ state'[h] = [state[h] EXCEPT !.connected = TRUE]
         /\ entry'[h].type = entry[h].type \/ entry'[h].type \in Kinds(h)
         /\ entry'[h].queue = entry[h].queue \/ entry'[h].queue \in Pairs(h)
<1>1. state[h].valid /\ ~Handling(h)
  BY ConnectingFacts DEF Connecting
<1>2. WordEffect(t, h) /\ EntryEffect(t, h)
  BY WordStep, EntryStep
<1>3. ~(call[t].op = "create" /\ pc[t] \in {"clear", "xswap"} /\ h = call[t].h)
  BY <1>1 DEF IInv, CreateInv, CreateAt
<1>4. ~(call[t].op \in {"open", "close", "delete"} /\ h = call[t].h)
  BY <1>1 DEF Handling
<1>5. DOMAIN entry[h] = {"type", "queue"}
  BY DEF IInv, TypeInv, Tables, Records
<1>6. call[t].op = "connect" /\ h \in Ends(call[t].pair) =>
        call[t].pair \in Pairs(h) /\ call[t].type \in Kinds(h)
  BY ConnectingFacts
<1>7. call[t].op = "connect" /\ pc[t] = "qswap" /\ h = call[t].h => h \in Ends(call[t].pair)
  BY DEF IInv, ConnectInv, ConnectAt, AtEndPCs, Ends
<1>8. state'[h] = state[h] \/ state'[h] = [state[h] EXCEPT !.connected = TRUE]
  BY <1>2, <1>3, <1>4 DEF WordEffect
<1>9. /\ entry'[h].type = entry[h].type \/ entry'[h].type \in Kinds(h)
      /\ entry'[h].queue = entry[h].queue \/ entry'[h].queue \in Pairs(h)
  BY <1>2, <1>3, <1>4, <1>5, <1>6, <1>7 DEF EntryEffect
<1> QED BY <1>8, <1>9

\* A connected endpoint stays connected until it is wiped.
LEMMA LinkedKept ==
  ASSUME IInv, NEW t \in Nodes, Step(t), NEW h \in Handles, Linked(h),
         ~(call[t].op = "delete" /\ pc[t] = "wipe" /\ call[t].h = h)
  PROVE  Linked(h)'
<1>1. state[h].valid /\ state[h].connected
  BY DEF IInv, EntryInv, Linked
<1>2. WordEffect(t, h) /\ EntryEffect(t, h)
  BY WordStep, EntryStep
<1>3. ~(call[t].op = "create" /\ pc[t] \in {"clear", "xswap"} /\ h = call[t].h)
  BY <1>1 DEF IInv, CreateInv, CreateAt
<1>4. DOMAIN entry[h] = {"type", "queue"}
      /\ DOMAIN state[h] = {"port", "valid", "open", "connected"}
  BY DEF IInv, TypeInv, Tables, Records, Words
<1>5. call[t].op = "connect" /\ h \in Ends(call[t].pair) =>
        call[t].pair \in Pairs(h) /\ call[t].type \in Kinds(h)
  BY ConnectingFacts
<1>6. call[t].op = "connect" /\ pc[t] = "qswap" /\ h = call[t].h => h \in Ends(call[t].pair)
  BY DEF IInv, ConnectInv, ConnectAt, AtEndPCs, Ends
<1>7. state'[h].connected
  BY <1>1, <1>2, <1>3, <1>4 DEF WordEffect
<1>8. entry'[h].type \in Kinds(h) /\ entry'[h].queue \in Pairs(h)
  BY <1>2, <1>3, <1>4, <1>5, <1>6 DEF EntryEffect, Linked
<1> QED BY <1>7, <1>8 DEF Linked, Kinds, Pairs, ChansOf

\* The endpoints of a connect stay valid, and no other kind of call begins on them.
LEMMA EndsStep ==
  ASSUME IInv, Orderly, NEW t \in Nodes, Step(t), NEW u \in Nodes, call'[u].op = "connect"
  PROVE  /\ \E c \in Chans : call'[u].pair = PairOf(c) /\ call'[u].type = c.type
         /\ \A h \in Ends(call'[u].pair) : state'[h].valid /\ ~Handling(h)'
<1>1. CallEffect(t) /\ Frame(t)
  BY CallCases, FrameStep DEF IInv
<1>2. ASSUME NEW h \in Handles, Connecting(h), ~Handling(h)
      PROVE  ~Handling(h)'
  BY <1>1, <1>2 DEF CallEffect, Frame, Handling
<1>3. CASE call[u].op = "connect" /\ call'[u].pair = call[u].pair /\ call'[u].type = call[u].type
  <2>1. \E c \in Chans : call[u].pair = PairOf(c) /\ call[u].type = c.type
    BY <1>3 DEF IInv, ConnectInv, ConnectAt
  <2>2. ASSUME NEW h \in Ends(call[u].pair) PROVE state'[h].valid /\ ~Handling(h)'
    <3>1. h \in Handles /\ Connecting(h) /\ state[h].valid /\ ~Handling(h)
      BY <1>3, <2>2, ConnectingFacts
    <3>2. state'[h] = state[h] \/ state'[h] = [state[h] EXCEPT !.connected = TRUE]
      BY <3>1, ConnectSafe
    <3>3. state[h] \in Words
      BY <3>1 DEF IInv, TypeInv, Tables
    <3> QED BY <1>2, <3>1, <3>2, <3>3 DEF Words
  <2> QED BY <1>3, <2>1, <2>2
<1>4. ASSUME u = t, NEW c \in Chans, CallConnect(t, c)
      PROVE  /\ \E d \in Chans : call'[u].pair = PairOf(d) /\ call'[u].type = d.type
             /\ \A h \in Ends(call'[u].pair) : state'[h].valid /\ ~Handling(h)'
  <2>1. DOMAIN call = Nodes
    BY DEF IInv, TypeInv
  <2>2. /\ call'[u].pair = PairOf(c) /\ call'[u].type = c.type /\ call'[u].op = "connect"
        /\ state' = state /\ Connectable(c) /\ \A h \in Ends(c) : ~Handling(h)
    BY <1>4, <2>1 DEF CallConnect, NoCall, PairOf, tableVars
  <2>3. Ends(call'[u].pair) = Ends(c)
    BY <2>2 DEF PairOf, Ends
  <2>4. \A h \in Ends(c) : ~Handling(h)'
    BY <1>1, <1>4, <2>2 DEF Handling, Frame
  <2> QED BY <2>2, <2>3, <2>4 DEF Connectable
<1>5. CASE u # t
  BY <1>1, <1>3, <1>5 DEF Frame
<1> QED BY <1>1, <1>3, <1>4, <1>5 DEF CallEffect

\* Steps of other threads leave true what a connect knows.
LEMMA ConnectOther ==
  ASSUME IInv, Orderly, NEW t \in Nodes, Step(t), NEW u \in Nodes \ {t}
  PROVE  ConnectAt(u)'
<1>1. call'[u] = call[u] /\ pc'[u] = pc[u] /\ ConnectAt(u)
  BY FrameStep DEF IInv, Frame, ConnectInv
<1>2. SUFFICES ASSUME call[u].op = "connect" PROVE ConnectAt(u)'
  BY <1>1 DEF ConnectAt
<1>3. /\ \E c \in Chans : call'[u].pair = PairOf(c) /\ call'[u].type = c.type
      /\ \A h \in Ends(call'[u].pair) : state'[h].valid /\ ~Handling(h)'
  BY <1>1, <1>2, EndsStep
<1>4. ASSUME NEW h \in Ends(call[u].pair)
      PROVE  /\ state'[h] = state[h] \/ state'[h] = [state[h] EXCEPT !.connected = TRUE]
             /\ entry'[h].type = entry[h].type \/ entry'[h].type \in Kinds(h)
             /\ entry'[h].queue = entry[h].queue \/ entry'[h].queue \in Pairs(h)
             /\ Linked(h) => Linked(h)'
             /\ state[h] \in Words /\ "none" \notin Kinds(h)
  <2>1. h \in Handles /\ Connecting(h) /\ state[h].valid /\ ~Handling(h)
    BY <1>2, <1>4, ConnectingFacts
  <2>2. ~(call[t].op = "delete" /\ pc[t] = "wipe" /\ call[t].h = h)
    BY <2>1 DEF Handling
  <2>3. state[h] \in Words /\ "none" \notin Kinds(h)
    BY <2>1, ChannelsAssumption DEF IInv, TypeInv, Tables, Kinds, ChansOf
  <2> QED BY <2>1, <2>2, <2>3, ConnectSafe, LinkedKept
<1>5. call[u].pair.send \in Ends(call[u].pair) /\ call[u].pair.recv \in Ends(call[u].pair)
  BY DEF Ends
<1>6. ASSUME pc[u] \in AtEndPCs
      PROVE  /\ call[u].h \in Ends(call[u].pair) /\ entry'[call[u].h].type # "none"
             /\ pc[u] = "qswap" /\ entry'[call[u].h].queue # call[u].queue =>
                  entry'[call[u].h].queue \in Pairs(call[u].h)
             /\ pc[u] \in {"sread", "xread", "xswap"} =>
                  entry'[call[u].h].queue \in Pairs(call[u].h)
             /\ pc[u] \in {"xread", "xswap"} =>
                  call[u].new = [state'[call[u].h] EXCEPT !.connected = TRUE]
             /\ pc[u] = "xswap" /\ state'[call[u].h] # call[u].old =>
                  state'[call[u].h].connected
  <2>1. call[u].h \in Ends(call[u].pair)
    BY <1>1, <1>2, <1>5, <1>6 DEF ConnectAt
  <2>2. /\ entry[call[u].h].type # "none"
        /\ pc[u] = "qswap" /\ entry[call[u].h].queue # call[u].queue =>
             entry[call[u].h].queue \in Pairs(call[u].h)
        /\ pc[u] \in {"sread", "xread", "xswap"} => entry[call[u].h].queue \in Pairs(call[u].h)
        /\ pc[u] \in {"xread", "xswap"} => call[u].new = [state[call[u].h] EXCEPT !.connected = TRUE]
        /\ pc[u] = "xswap" /\ state[call[u].h] # call[u].old => state[call[u].h].connected
    BY <1>1, <1>2, <1>6 DEF ConnectAt
  <2>3. \A w \in Words : /\ [[w EXCEPT !.connected = TRUE] EXCEPT !.connected = TRUE] =
                              [w EXCEPT !.connected = TRUE]
                         /\ [w EXCEPT !.connected = TRUE].connected
    BY DEF Words
  <2>4. /\ entry'[call[u].h].type # "none"
        /\ pc[u] = "qswap" /\ entry'[call[u].h].queue # call[u].queue =>
             entry'[call[u].h].queue \in Pairs(call[u].h)
        /\ pc[u] \in {"sread", "xread", "xswap"} => entry'[call[u].h].queue \in Pairs(call[u].h)
    BY <1>4, <2>1, <2>2, SMTT(30)
  <2>5. [state'[call[u].h] EXCEPT !.connected = TRUE] = [state[call[u].h] EXCEPT !.connected = TRUE]
    BY <1>4, <2>1, <2>3
  <2>6. pc[u] = "xswap" /\ state'[call[u].h] # call[u].old => state'[call[u].h].connected
    BY <1>4, <2>1, <2>2, <2>3, ZenonT(60)
  <2> QED BY <2>1, <2>2, <2>4, <2>5, <2>6
<1>7. pc[u] = "ctype" => call[u].e = 0 \/ (call[u].e = 1 /\ Linked(call[u].pair.send)')
  BY <1>1, <1>2, <1>4, <1>5 DEF ConnectAt
<1>8. pc[u] = "joined" => \A h \in Ends(call[u].pair) : Linked(h)'
  BY <1>1, <1>2, <1>4 DEF ConnectAt
<1>9. pc[u] \in AtEndPCs =>
        \/ call[u].e = 1 /\ call[u].h = call[u].pair.send /\ call[u].next = "ctype"
        \/ call[u].e = 2 /\ call[u].h = call[u].pair.recv /\ call[u].next = "joined"
             /\ Linked(call[u].pair.send)'
  BY <1>1, <1>2, <1>4, <1>5 DEF ConnectAt
<1> QED BY <1>1, <1>3, <1>6, <1>7, <1>8, <1>9 DEF ConnectAt, Pairs, ChansOf

\* Its own steps too.
LEMMA ConnectOwn ==
  ASSUME IInv, Orderly, NEW t \in Nodes, Step(t)
  PROVE  ConnectAt(t)'
<1>1. SUFFICES ASSUME call'[t].op = "connect" PROVE ConnectAt(t)'
  BY DEF ConnectAt
<1>2. /\ \E c \in Chans : call'[t].pair = PairOf(c) /\ call'[t].type = c.type
      /\ \A h \in Ends(call'[t].pair) : state'[h].valid /\ ~Handling(h)'
  BY <1>1, EndsStep
<1>3. /\ DOMAIN call = Nodes /\ DOMAIN call[t] = Locals /\ DOMAIN pc = Nodes
      /\ DOMAIN state = Handles /\ DOMAIN entry = Handles
      /\ \A h \in Handles : state[h] \in Words /\ DOMAIN entry[h] = {"type", "queue"}
  BY DEF IInv, TypeInv, Tables, CallOK, Records
<1>4. CallEffect(t) /\ ConnectAt(t)
  BY CallCases DEF IInv, ConnectInv
<1>5. ASSUME NEW c \in Chans, CallConnect(t, c) PROVE ConnectAt(t)'
  <2>1. pc'[t] = "ctype" /\ call'[t].e = 0
    BY <1>3, <1>5 DEF CallConnect, Goto, NoCall
  <2> QED BY <1>2, <2>1 DEF ConnectAt, AtEndPCs
<1>6. SUFFICES ASSUME call[t].op = "connect", call'[t].pair = call[t].pair,
                      call'[t].type = call[t].type,
                      \/ ConnectType(t) \/ QueueRead(t) \/ QueueExchange(t) \/ ConnectRead(t)
                      \/ ExchangeRead(t) \/ Exchange(t)
               PROVE  ConnectAt(t)'
  BY <1>1, <1>4, <1>5 DEF CallEffect
<1>7. ASSUME NEW h \in Ends(call[t].pair)
      PROVE  /\ h \in Handles /\ Connecting(h) /\ "none" \notin Kinds(h)
             /\ call[t].pair \in Pairs(h) /\ call[t].type \in Kinds(h)
             /\ Linked(h) => Linked(h)'
             /\ entry[h].type # "none" => entry[h].type \in Kinds(h)
  <2>1. /\ h \in Handles /\ Connecting(h) /\ call[t].pair \in Pairs(h) /\ call[t].type \in Kinds(h)
    BY <1>6, <1>7, ConnectingFacts
  <2>2. "none" \notin Kinds(h) /\ (entry[h].type # "none" => entry[h].type \in Kinds(h))
    BY <2>1, ChannelsAssumption DEF Kinds, ChansOf, IInv, EntryInv
  <2> QED BY <1>6, <2>1, <2>2, LinkedKept
<1>8. call[t].pair.send \in Ends(call[t].pair) /\ call[t].pair.recv \in Ends(call[t].pair)
  BY DEF Ends
<1>9. CASE ConnectType(t)
  <2> DEFINE g == IF call[t].e = 0 THEN call[t].pair.send ELSE call[t].pair.recv
  <2>1. /\ pc[t] = "ctype" /\ pc'[t] = "qread" /\ call'[t].h = g /\ call'[t].e = call[t].e + 1
        /\ call'[t].next = IF call[t].e = 0 THEN "ctype" ELSE "joined"
        /\ entry' = [entry EXCEPT ![g].type = call[t].type]
    BY <1>3, <1>9 DEF ConnectType, Goto, Locals
  <2>2. g \in Ends(call[t].pair)
    BY <1>8
  <2>3. entry'[g].type # "none"
    BY <1>3, <1>7, <2>1, <2>2
  <2>4. call[t].e = 0 \/ (call[t].e = 1 /\ Linked(call[t].pair.send)')
    BY <1>4, <1>6, <1>7, <1>8, <2>1 DEF ConnectAt
  <2>5. /\ \/ call'[t].e = 1 /\ call'[t].h = call'[t].pair.send /\ call'[t].next = "ctype"
           \/ call'[t].e = 2 /\ call'[t].h = call'[t].pair.recv /\ call'[t].next = "joined"
                /\ Linked(call[t].pair.send)'
        /\ entry'[call'[t].h].type # "none" /\ pc'[t] = "qread"
    BY <1>6, <2>1, <2>3, <2>4
  <2> HIDE DEF g
  <2> QED BY <1>2, <1>6, <2>5 DEF ConnectAt, AtEndPCs
<1>10. SUFFICES ASSUME pc[t] \in AtEndPCs, call'[t].h = call[t].h, call'[t].e = call[t].e,
                       call'[t].next = call[t].next,
                       \/ QueueRead(t) \/ QueueExchange(t) \/ ConnectRead(t)
                       \/ ExchangeRead(t) \/ Exchange(t)
                PROVE  ConnectAt(t)'
  <2>1. CASE QueueRead(t)
    BY <1>3, <1>10, <2>1 DEF QueueRead, Goto, Locals, AtEndPCs
  <2>2. CASE QueueExchange(t)
    BY <1>3, <1>10, <2>2 DEF QueueExchange, Goto, AtEndPCs
  <2>3. CASE ConnectRead(t)
    BY <1>3, <1>10, <2>3 DEF ConnectRead, Goto, Locals, AtEndPCs
  <2>4. CASE ExchangeRead(t)
    BY <1>3, <1>10, <2>4 DEF ExchangeRead, Goto, Locals, AtEndPCs
  <2>5. CASE Exchange(t)
    BY <1>3, <1>10, <2>5 DEF Exchange, Goto, AtEndPCs
  <2> QED BY <1>6, <1>9, <2>1, <2>2, <2>3, <2>4, <2>5
<1> DEFINE h == call[t].h
<1>11. /\ \/ call[t].e = 1 /\ h = call[t].pair.send /\ call[t].next = "ctype"
          \/ call[t].e = 2 /\ h = call[t].pair.recv /\ call[t].next = "joined"
               /\ Linked(call[t].pair.send)'
       /\ h \in Ends(call[t].pair) /\ entry[h].type # "none"
       /\ pc[t] = "qswap" /\ entry[h].queue # call[t].queue => entry[h].queue \in Pairs(h)
       /\ pc[t] \in {"sread", "xread", "xswap"} => entry[h].queue \in Pairs(h)
       /\ pc[t] \in {"xread", "xswap"} => call[t].new = [state[h] EXCEPT !.connected = TRUE]
       /\ pc[t] = "xswap" /\ state[h] # call[t].old => state[h].connected
  BY <1>4, <1>6, <1>7, <1>8, <1>10 DEF ConnectAt
<1>12. CASE QueueRead(t)
  <2>1. /\ pc'[t] = "qswap" /\ entry' = entry /\ call'[t].queue = entry[h].queue
    BY <1>3, <1>12 DEF QueueRead, Goto, Locals, tableVars
  <2> QED BY <1>2, <1>6, <1>10, <1>11, <2>1 DEF ConnectAt, AtEndPCs
<1>13. CASE QueueExchange(t)
  <2>1. /\ pc[t] = "qswap" /\ pc'[t] = "sread"
        /\ entry' = IF entry[h].queue = call[t].queue
                    THEN [entry EXCEPT ![h].queue = call[t].pair] ELSE entry
    BY <1>3, <1>13 DEF QueueExchange, Goto
  <2>2. entry'[h].type # "none" /\ entry'[h].queue \in Pairs(h)
    BY <1>3, <1>7, <1>11, <2>1
  <2> QED BY <1>2, <1>6, <1>10, <1>11, <2>1, <2>2 DEF ConnectAt, AtEndPCs, Pairs, ChansOf
<1>14. CASE ConnectRead(t)
  <2>1. /\ pc[t] = "sread" /\ pc'[t] = "xread" /\ entry' = entry /\ state' = state
        /\ call'[t].new = [state[h] EXCEPT !.connected = TRUE]
    BY <1>3, <1>14 DEF ConnectRead, Goto, Locals, tableVars
  <2> QED BY <1>2, <1>6, <1>10, <1>11, <2>1 DEF ConnectAt, AtEndPCs, Pairs, ChansOf
<1>15. CASE ExchangeRead(t)
  <2>1. /\ pc[t] = "xread" /\ pc'[t] = "xswap" /\ entry' = entry /\ state' = state
        /\ call'[t].old = state[h] /\ call'[t].new = call[t].new
    BY <1>3, <1>15 DEF ExchangeRead, Goto, Locals, tableVars
  <2> QED BY <1>2, <1>6, <1>10, <1>11, <2>1 DEF ConnectAt, AtEndPCs, Pairs, ChansOf
<1>16. CASE Exchange(t)
  <2>1. /\ pc[t] = "xswap" /\ pc'[t] = call[t].next /\ entry' = entry
        /\ state' = IF state[h] = call[t].old THEN [state EXCEPT ![h] = call[t].new] ELSE state
    BY <1>3, <1>16 DEF Exchange, Goto
  <2>2. h \in Handles /\ state[h] \in Words
    BY <1>3, <1>7, <1>11
  <2>3. state'[h].connected
    BY <1>3, <1>11, <2>1, <2>2 DEF Words
  <2>4. Linked(h)'
    BY <1>7, <1>10, <1>11, <2>1, <2>3 DEF Linked, Kinds, Pairs, ChansOf
  <2>5. CASE call[t].e = 1 /\ h = call[t].pair.send /\ call[t].next = "ctype"
    BY <1>2, <1>6, <1>10, <2>1, <2>4, <2>5 DEF ConnectAt, AtEndPCs
  <2>6. CASE call[t].e = 2 /\ h = call[t].pair.recv /\ call[t].next = "joined"
               /\ Linked(call[t].pair.send)'
    <3>1. \A k \in Ends(call'[t].pair) : Linked(k)'
      BY <1>6, <1>10, <2>4, <2>6 DEF Ends
    <3> QED BY <1>2, <2>1, <2>6, <3>1 DEF ConnectAt, AtEndPCs
  <2> QED BY <1>11, <2>5, <2>6
<1> QED BY <1>10, <1>12, <1>13, <1>14, <1>15, <1>16

\* The last step of a delete wipes the entry.
LEMMA WipeStep ==
  ASSUME IInv, NEW t \in Nodes, Step(t), pc[t] = "wipe"
  PROVE  state'[call[t].h] = NoState /\ entry'[call[t].h] = NoEntry
<1>1. DOMAIN state = Handles /\ DOMAIN entry = Handles /\ call[t].h \in Handles
  BY DEF IInv, TypeInv, Tables, CallOK
<1> USE <1>1 DEF Goto, Return
<1>2. ASSUME NEW p \in Ports, TableCall(t), CallCreate(t, p)
      PROVE  state'[call[t].h] = NoState /\ entry'[call[t].h] = NoEntry
  BY <1>2 DEF CallCreate, TableCall
<1>3. ASSUME NEW g \in Handles, TableCall(t), CallDelete(t, g)
      PROVE  state'[call[t].h] = NoState /\ entry'[call[t].h] = NoEntry
  BY <1>3 DEF CallDelete, TableCall
<1>4. ASSUME NEW op \in {"get", "get_i"}, NEW n \in Nodes, NEW p \in Ports,
             TableCall(t), CallGet(t, op, n, p)
      PROVE  state'[call[t].h] = NoState /\ entry'[call[t].h] = NoEntry
  BY <1>4 DEF CallGet, TableCall
<1>5. CASE CreateLimit(t) /\ UNCHANGED chanVars
  BY <1>5 DEF CreateLimit
<1>6. CASE CreateFind(t) /\ UNCHANGED chanVars
  BY <1>6 DEF CreateFind
<1>7. CASE CreateClear(t) /\ UNCHANGED chanVars
  BY <1>7 DEF CreateClear
<1>8. CASE ExchangeRead(t) /\ UNCHANGED chanVars
  BY <1>8 DEF ExchangeRead
<1>9. CASE Exchange(t) /\ UNCHANGED chanVars
  BY <1>9 DEF Exchange
<1>10. CASE CreateCount(t) /\ UNCHANGED chanVars
  BY <1>10 DEF CreateCount
<1>11. CASE DeleteUncount(t) /\ UNCHANGED chanVars
  BY <1>11 DEF DeleteUncount
<1>12. CASE DeleteWipe(t) /\ UNCHANGED chanVars
  BY <1>12 DEF DeleteWipe
<1>13. CASE TestGet(t) /\ UNCHANGED chanVars
  BY <1>13 DEF TestGet, CallGet
<1>14. CASE GetNext(t) /\ UNCHANGED chanVars
  BY <1>14 DEF GetNext
<1>15. CASE GetMissed(t) /\ UNCHANGED chanVars
  BY <1>15 DEF GetMissed
<1>16. CASE GetLook(t) /\ UNCHANGED chanVars
  BY <1>16 DEF GetLook
<1>17. ASSUME NEW c \in Chans, request[t] = NoRequest, CallConnect(t, c)
      PROVE  state'[call[t].h] = NoState /\ entry'[call[t].h] = NoEntry
  BY <1>17 DEF CallConnect
<1>18. ASSUME NEW c \in Chans, NEW end \in {"send", "recv"}, NEW g \in Handles,
             request[t] = NoRequest, CallOpen(t, g, c.type, end)
      PROVE  state'[call[t].h] = NoState /\ entry'[call[t].h] = NoEntry
  BY <1>18 DEF CallOpen
<1>19. ASSUME NEW g \in Handles, request[t] = NoRequest, CallClose(t, g)
      PROVE  state'[call[t].h] = NoState /\ entry'[call[t].h] = NoEntry
  BY <1>19 DEF CallClose
<1>20. CASE ConnectType(t)
  BY <1>20 DEF ConnectType
<1>21. CASE QueueRead(t)
  BY <1>21 DEF QueueRead
<1>22. CASE QueueExchange(t)
  BY <1>22 DEF QueueExchange
<1>23. CASE ConnectRead(t)
  BY <1>23 DEF ConnectRead
<1>24. CASE ConnectReturn(t)
  BY <1>24 DEF ConnectReturn
<1>25. CASE OpenRead(t)
  BY <1>25 DEF OpenRead
<1>26. CASE OpenSwap(t)
  BY <1>26 DEF OpenSwap
<1>27. CASE OpenTest(t)
  BY <1>27 DEF OpenTest
<1>28. CASE CheckOpen(t)
  BY <1>28 DEF CheckOpen
<1>29. CASE CloseRead(t)
  BY <1>29 DEF CloseRead
<1>30. CASE CloseSwap(t)
  BY <1>30 DEF CloseSwap
<1> HIDE DEF Goto, Return
<1> QED BY <1>2, <1>3, <1>4, <1>5, <1>6, <1>7, <1>8, <1>9, <1>10, <1>11, <1>12, <1>13,
           <1>14, <1>15, <1>16, <1>17, <1>18, <1>19, <1>20, <1>21, <1>22, <1>23, <1>24,
           <1>25, <1>26, <1>27, <1>28, <1>29, <1>30, ChannelsAssumption
        DEF Step, TableCall, TableStep, EndpointCall, EndpointStep, CreateStep, DeleteStep,
            GetStep, ChannelCall, ChannelStep, ConnectStep, OpenStep, CloseStep

\* A connect goes on until it returns.
LEMMA ConnectGoesOn ==
  ASSUME IInv, Orderly, NEW t \in Nodes, Step(t), call[t].op = "connect", pc[t] # "joined"
  PROVE  call'[t].op = "connect" /\ call'[t].pair = call[t].pair
<1>1. CallEffect(t)
  BY CallCases
<1>2. \A c : ~CallConnect(t, c)
  BY DEF CallConnect, Goto, IInv, CallInv, CallAt, ConnectPCs, AtEndPCs
<1> QED BY <1>1, <1>2 DEF CallEffect

\* The type of an entry is that of one of its channels, and it is connected or is
\* being connected.
LEMMA EntryInvStep ==
  ASSUME IInv, Orderly, NEW t \in Nodes, Step(t)
  PROVE  EntryInv'
<1>1. SUFFICES ASSUME NEW h \in Handles
               PROVE  /\ entry'[h].type \in {"none"} \cup Kinds(h)
                      /\ state'[h].connected => state'[h].valid /\ Linked(h)'
                      /\ entry'[h].type # "none" => state'[h].connected \/ Connecting(h)'
  BY DEF EntryInv, Kinds, ChansOf
<1>2. WordEffect(t, h) /\ EntryEffect(t, h) /\ CallEffect(t) /\ Frame(t)
  BY WordStep, EntryStep, CallCases, FrameStep DEF IInv
<1>3. /\ entry[h].type \in {"none"} \cup Kinds(h)
      /\ state[h].connected => state[h].valid /\ Linked(h)
      /\ entry[h].type # "none" => state[h].connected \/ Connecting(h)
      /\ CreateAt(t) /\ ConnectAt(t)
  BY DEF IInv, EntryInv, CreateInv, ConnectInv
<1>4. state[h] \in Words /\ DOMAIN entry[h] = {"type", "queue"}
  BY DEF IInv, TypeInv, Tables, Records
<1>5. call[t].op = "connect" /\ h \in Ends(call[t].pair) => call[t].type \in Kinds(h)
  BY ConnectingFacts
<1>6. entry'[h].type \in {"none"} \cup Kinds(h)
  BY <1>2, <1>3, <1>4, <1>5 DEF EntryEffect, NoEntry
<1>7. CASE call[t].op = "delete" /\ pc[t] = "wipe" /\ call[t].h = h
  <2>1. entry'[h].type = "none" /\ ~state'[h].connected
    BY <1>7, WipeStep DEF NoEntry, NoState
  <2> QED BY <1>6, <2>1
<1>8. CASE ~(call[t].op = "delete" /\ pc[t] = "wipe" /\ call[t].h = h)
  <2>1. Linked(h) => Linked(h)'
    BY <1>8, LinkedKept
  <2>2. ASSUME state'[h].connected PROVE state'[h].valid /\ Linked(h)'
    <3>1. CASE state[h].connected
      <4>1. Linked(h)' /\ state[h].valid
        BY <1>3, <2>1, <3>1
      <4>2. state'[h].valid
        BY <1>8, <4>1, ValidStep
      <4> QED BY <4>1, <4>2
    <3>2. CASE ~state[h].connected
      <4>1. ~(call[t].op = "create" /\ pc[t] = "xswap" /\ h = call[t].h /\ state'[h] = call[t].new)
        BY <1>3, <2>2, <3>2 DEF CreateAt
      <4>2. h = call[t].h /\ call[t].op = "connect" /\ pc[t] = "xswap"
        BY <1>2, <1>4, <1>8, <2>2, <3>2, <4>1 DEF WordEffect, Words
      <4>3. state'[h] = [state[h] EXCEPT !.connected = TRUE]
        BY <1>2, <2>2, <3>2, <4>2 DEF WordEffect
      <4>4. /\ entry[h].type # "none" /\ entry[h].queue \in Pairs(h)
            /\ h \in Ends(call[t].pair)
        BY <1>3, <4>2 DEF ConnectAt, AtEndPCs, Ends
      <4>5. state[h].valid
        BY <4>2, <4>4, ConnectingFacts
      <4>6. entry'[h] = entry[h]
        BY <1>2, <4>2 DEF EntryEffect
      <4> QED BY <1>3, <1>4, <2>2, <4>3, <4>4, <4>5, <4>6 DEF Linked, Words, Kinds, Pairs, ChansOf
    <3> QED BY <3>1, <3>2
  <2>3. ASSUME entry'[h].type # "none" PROVE state'[h].connected \/ Connecting(h)'
    <3>1. CASE Linked(h)
      BY <2>1, <3>1 DEF Linked
    <3>2. ASSUME NEW u \in Nodes, call[u].op = "connect", h \in Ends(call[u].pair),
                 ~(u = t /\ pc[t] = "joined")
          PROVE  Connecting(h)'
      <4>1. call'[u].op = "connect" /\ call'[u].pair = call[u].pair
        BY <1>2, <1>3, <3>2, ConnectGoesOn DEF Frame
      <4> QED BY <3>2, <4>1 DEF Connecting
    <3>3. CASE call[t].op = "connect" /\ pc[t] = "joined" /\ h \in Ends(call[t].pair)
      BY <1>3, <3>1, <3>3 DEF ConnectAt
    <3>4. CASE entry[h].type = "none"
      BY <1>2, <1>4, <2>3, <3>2, <3>4 DEF EntryEffect, NoEntry
    <3>5. CASE entry[h].type # "none"
      BY <1>3, <3>1, <3>2, <3>3, <3>5 DEF Connecting
    <3> QED BY <3>4, <3>5
  <2> QED BY <1>6, <2>2, <2>3
<1> QED BY <1>7, <1>8

\* What a step does to the channels reported as connected.
JoinedEffect(t) ==
  /\ \A c \in joined' :
       \/ /\ c \in joined
          /\ call'[t].op = "delete" =>
               \/ call[t].op = "delete" /\ call[t].h = call'[t].h
               \/ call'[t].h \notin Ends(c)
       \/ /\ pc[t] = "joined" /\ pc'[t] = "idle"
          /\ c = [send |-> call[t].pair.send, recv |-> call[t].pair.recv, type |-> call[t].type]

\* Every step does.
LEMMA JoinedCases ==
  ASSUME IInv, NEW t \in Nodes, Step(t)
  PROVE  JoinedEffect(t)
<1>1. Facts(t)
  BY FactsHold
<1> USE <1>1
<1> USE DEF Facts, JoinedEffect, CallAt, Goto, Return, Locals, chanVars, CreatePCs,
            DeletePCs, GetPCs, ConnectPCs, AtEndPCs, OpenPCs, ClosePCs
<1>2. ASSUME NEW p \in Ports, TableCall(t), CallCreate(t, p)
      PROVE  JoinedEffect(t)
  BY <1>2 DEF CallCreate, TableCall, NoCall
<1>3. ASSUME NEW g \in Handles, TableCall(t), CallDelete(t, g)
      PROVE  JoinedEffect(t)
  <2>1. /\ state[g].valid /\ g \in Mine(t) /\ pc[t] = "idle" /\ live' = live \ {g}
        /\ joined' = {c \in joined : Ends(c) \cap (live \ live') = {}}
        /\ call' = [call EXCEPT ![t] = [NoCall EXCEPT !.op = "delete", !.h = g]]
    BY <1>3 DEF CallDelete, TableCall
  <2>2. g \in live
    BY <2>1 DEF IInv, LiveInv, LivePart, Creating, Deleting, DeletePCs, Mine
  <2>3. call'[t].h = g /\ live \ live' = {g}
    BY <2>1, <2>2 DEF NoCall
  <2> QED BY <2>1, <2>3
<1>4. ASSUME NEW op \in {"get", "get_i"}, NEW n \in Nodes, NEW p \in Ports,
             TableCall(t), CallGet(t, op, n, p)
      PROVE  JoinedEffect(t)
  BY <1>4 DEF CallGet, TableCall, NoCall
<1>5. CASE CreateLimit(t) /\ UNCHANGED chanVars
  BY <1>5 DEF CreateLimit
<1>6. CASE CreateFind(t) /\ UNCHANGED chanVars
  BY <1>6, CreateFindCases
<1>7. CASE CreateClear(t) /\ UNCHANGED chanVars
  BY <1>7 DEF CreateClear
<1>8. CASE ExchangeRead(t) /\ UNCHANGED chanVars
  BY <1>8 DEF ExchangeRead
<1>9. CASE Exchange(t) /\ UNCHANGED chanVars
  BY <1>9 DEF Exchange
<1>10. CASE CreateCount(t) /\ UNCHANGED chanVars
  BY <1>10 DEF CreateCount
<1>11. CASE DeleteUncount(t) /\ UNCHANGED chanVars
  BY <1>11 DEF DeleteUncount
<1>12. CASE DeleteWipe(t) /\ UNCHANGED chanVars
  BY <1>12 DEF DeleteWipe
<1>13. CASE TestGet(t) /\ UNCHANGED chanVars
  BY <1>13 DEF TestGet, CallGet, NoCall
<1>14. CASE GetNext(t) /\ UNCHANGED chanVars
  BY <1>14 DEF GetNext
<1>15. CASE GetMissed(t) /\ UNCHANGED chanVars
  BY <1>15 DEF GetMissed
<1>16. CASE GetLook(t) /\ UNCHANGED chanVars
  BY <1>16 DEF GetLook
<1>17. ASSUME NEW c \in Chans, request[t] = NoRequest, CallConnect(t, c)
      PROVE  JoinedEffect(t)
  BY <1>17 DEF CallConnect, NoCall
<1>18. ASSUME NEW c \in Chans, NEW end \in {"send", "recv"}, NEW g \in Handles,
             request[t] = NoRequest, CallOpen(t, g, c.type, end)
      PROVE  JoinedEffect(t)
  BY <1>18 DEF CallOpen, NoCall
<1>19. ASSUME NEW g \in Handles, request[t] = NoRequest, CallClose(t, g)
      PROVE  JoinedEffect(t)
  BY <1>19 DEF CallClose, NoCall
<1>20. CASE ConnectType(t)
  BY <1>20 DEF ConnectType
<1>21. CASE QueueRead(t)
  BY <1>21 DEF QueueRead
<1>22. CASE QueueExchange(t)
  BY <1>22 DEF QueueExchange
<1>23. CASE ConnectRead(t)
  BY <1>23 DEF ConnectRead
<1>24. CASE ConnectReturn(t)
  BY <1>24 DEF ConnectReturn
<1>25. CASE OpenRead(t)
  BY <1>25 DEF OpenRead
<1>26. CASE OpenSwap(t)
  BY <1>26 DEF OpenSwap
<1>27. CASE OpenTest(t)
  BY <1>27 DEF OpenTest
<1>28. CASE CheckOpen(t)
  BY <1>28 DEF CheckOpen
<1>29. CASE CloseRead(t)
  BY <1>29 DEF CloseRead
<1>30. CASE CloseSwap(t)
  BY <1>30 DEF CloseSwap
<1> HIDE DEF Facts, JoinedEffect, CallAt, Goto, Return, Locals, chanVars, CreatePCs,
             DeletePCs, GetPCs, ConnectPCs, AtEndPCs, OpenPCs, ClosePCs
<1> QED BY <1>2, <1>3, <1>4, <1>5, <1>6, <1>7, <1>8, <1>9, <1>10, <1>11, <1>12, <1>13,
           <1>14, <1>15, <1>16, <1>17, <1>18, <1>19, <1>20, <1>21, <1>22, <1>23, <1>24,
           <1>25, <1>26, <1>27, <1>28, <1>29, <1>30, ChannelsAssumption
        DEF Step, TableCall, TableStep, EndpointCall, EndpointStep, CreateStep, DeleteStep,
            GetStep, ChannelCall, ChannelStep, ConnectStep, OpenStep, CloseStep

\* The channels reported as connected stay connected.
LEMMA JoinedStep ==
  ASSUME IInv, NEW t \in Nodes, Step(t)
  PROVE  JoinedInv'
<1>1. JoinedEffect(t) /\ Frame(t) /\ CallAt(t)'
  BY JoinedCases, FrameStep, CallInvStep DEF IInv
<1>2. SUFFICES ASSUME NEW c \in joined'
               PROVE  /\ \E d \in Chans : c.send = d.send /\ c.recv = d.recv /\ c.type = d.type
                      /\ \A h \in Ends(c) : Linked(h)' /\ ~Deleting(h)'
  BY DEF JoinedInv
<1>3. CASE /\ c \in joined
           /\ call'[t].op = "delete" =>
                \/ call[t].op = "delete" /\ call[t].h = call'[t].h
                \/ call'[t].h \notin Ends(c)
  <2>1. PICK d \in Chans : c.send = d.send /\ c.recv = d.recv /\ c.type = d.type
    BY <1>3 DEF IInv, JoinedInv
  <2>2. ASSUME NEW h \in Ends(c) PROVE Linked(h)' /\ ~Deleting(h)'
    <3>1. h \in Handles /\ Linked(h) /\ ~Deleting(h) /\ h[1] \in Nodes
      BY <1>3, <2>1, <2>2, ChannelsAssumption DEF IInv, JoinedInv, Ends, Handles
    <3>2. ~(call[t].op = "delete" /\ call[t].h = h)
      <4>1. call[t].op = "delete" => call[t].h \in Mine(t) /\ pc[t] \in DeletePCs
        BY DEF IInv, DeleteInv, DeleteAt, CallInv, CallAt
      <4> QED BY <3>1, <4>1 DEF Deleting, Mine
    <3>3. Linked(h)'
      BY <3>1, <3>2, LinkedKept
    <3>4. ~Deleting(h)'
      <4>1. CASE h[1] # t
        BY <1>1, <3>1, <4>1 DEF Deleting, Frame
      <4>2. CASE h[1] = t
        <5>1. pc'[t] \in DeletePCs => call'[t].op = "delete"
          BY <1>1 DEF CallAt, CreatePCs, DeletePCs, GetPCs, ConnectPCs, AtEndPCs, OpenPCs, ClosePCs
        <5> QED BY <1>3, <3>2, <2>2, <4>2, <5>1 DEF Deleting
      <4> QED BY <4>1, <4>2
    <3> QED BY <3>3, <3>4
  <2> QED BY <2>1, <2>2
<1>4. CASE /\ pc[t] = "joined" /\ pc'[t] = "idle"
           /\ c = [send |-> call[t].pair.send, recv |-> call[t].pair.recv, type |-> call[t].type]
  <2>1. call[t].op = "connect"
    BY <1>4 DEF IInv, CallInv, CallAt, CreatePCs, DeletePCs, GetPCs, OpenPCs, ClosePCs
  <2>2. PICK d \in Chans : call[t].pair = PairOf(d) /\ call[t].type = d.type
    BY <2>1 DEF IInv, ConnectInv, ConnectAt
  <2>3. c.send = d.send /\ c.recv = d.recv /\ c.type = d.type
    BY <1>4, <2>2 DEF PairOf
  <2>4. Ends(c) = Ends(call[t].pair)
    BY <1>4 DEF Ends
  <2>5. ASSUME NEW h \in Ends(c) PROVE Linked(h)' /\ ~Deleting(h)'
    <3>1. h \in Handles /\ ~Handling(h) /\ Linked(h)
      BY <1>4, <2>1, <2>4, <2>5, ConnectingFacts DEF IInv, ConnectInv, ConnectAt
    <3>2. Linked(h)'
      BY <2>1, <3>1, LinkedKept
    <3>3. h[1] \in Nodes
      BY <3>1 DEF Handles
    <3>4. pc[h[1]] \in DeletePCs => call[h[1]].op = "delete"
      BY <3>3 DEF IInv, CallInv, CallAt, CreatePCs, DeletePCs, GetPCs, ConnectPCs, AtEndPCs,
                  OpenPCs, ClosePCs
    <3>5. ~Deleting(h)'
      BY <1>1, <1>4, <3>1, <3>3, <3>4 DEF Frame, Deleting, DeletePCs, Handling
    <3> QED BY <3>2, <3>5
  <2> QED BY <2>3, <2>5
<1> QED BY <1>1, <1>3, <1>4 DEF JoinedEffect

-----------------------------------------------------------------------------
(* Open ends.                                                              *)

\* What a step does to the open ends and to a request to open one.
OpenEffect(t) ==
  /\ pc[t] = "otest" => \/ entry[call[t].h].type = call[t].type
                        \/ request'[t].op = "open" /\ request'[t].h = call[t].h
  /\ request[t].op = "open" => request'[t] = request[t] \/ state[request[t].h].connected
  /\ \A h \in opened' \ opened :
       h = call[t].h /\ call[t].op = "open" /\ pc'[t] = "otest" /\ call'[t].h = h
  /\ \A h \in opened \ opened' : h = call[t].h /\ call[t].op = "close"

\* Every step does.
LEMMA OpenCases ==
  ASSUME IInv, NEW t \in Nodes, Step(t)
  PROVE  OpenEffect(t)
<1>1. Facts(t)
  BY FactsHold
<1> USE <1>1
<1> USE DEF Facts, OpenEffect, CallAt, Goto, Return, chanVars, CreatePCs, DeletePCs,
            GetPCs, ConnectPCs, AtEndPCs, OpenPCs, ClosePCs
<1>2. ASSUME NEW p \in Ports, TableCall(t), CallCreate(t, p)
      PROVE  OpenEffect(t)
  BY <1>2 DEF CallCreate, TableCall, EndpointCall
<1>3. ASSUME NEW g \in Handles, TableCall(t), CallDelete(t, g)
      PROVE  OpenEffect(t)
  BY <1>3 DEF CallDelete, TableCall, EndpointCall
<1>4. ASSUME NEW op \in {"get", "get_i"}, NEW n \in Nodes, NEW p \in Ports,
             TableCall(t), CallGet(t, op, n, p)
      PROVE  OpenEffect(t)
  BY <1>4 DEF CallGet, TableCall, EndpointCall
<1>5. CASE CreateLimit(t) /\ UNCHANGED chanVars
  BY <1>5 DEF CreateLimit
<1>6. CASE CreateFind(t) /\ UNCHANGED chanVars
  BY <1>6 DEF CreateFind
<1>7. CASE CreateClear(t) /\ UNCHANGED chanVars
  BY <1>7 DEF CreateClear
<1>8. CASE ExchangeRead(t) /\ UNCHANGED chanVars
  BY <1>8 DEF ExchangeRead
<1>9. CASE Exchange(t) /\ UNCHANGED chanVars
  BY <1>9 DEF Exchange
<1>10. CASE CreateCount(t) /\ UNCHANGED chanVars
  BY <1>10 DEF CreateCount
<1>11. CASE DeleteUncount(t) /\ UNCHANGED chanVars
  BY <1>11 DEF DeleteUncount
<1>12. CASE DeleteWipe(t) /\ UNCHANGED chanVars
  BY <1>12 DEF DeleteWipe
<1>13. CASE TestGet(t) /\ UNCHANGED chanVars
  BY <1>13 DEF TestGet, CallGet
<1>14. CASE GetNext(t) /\ UNCHANGED chanVars
  BY <1>14 DEF GetNext
<1>15. CASE GetMissed(t) /\ UNCHANGED chanVars
  BY <1>15 DEF GetMissed
<1>16. CASE GetLook(t) /\ UNCHANGED chanVars
  BY <1>16 DEF GetLook
<1>17. ASSUME NEW c \in Chans, request[t] = NoRequest, CallConnect(t, c)
      PROVE  OpenEffect(t)
  BY <1>17 DEF CallConnect
<1>18. ASSUME NEW c \in Chans, NEW end \in {"send", "recv"}, NEW g \in Handles,
             request[t] = NoRequest, CallOpen(t, g, c.type, end)
      PROVE  OpenEffect(t)
  BY <1>18 DEF CallOpen
<1>19. ASSUME NEW g \in Handles, request[t] = NoRequest, CallClose(t, g)
      PROVE  OpenEffect(t)
  BY <1>19 DEF CallClose
<1>20. CASE ConnectType(t)
  BY <1>20 DEF ConnectType
<1>21. CASE QueueRead(t)
  BY <1>21 DEF QueueRead
<1>22. CASE QueueExchange(t)
  BY <1>22 DEF QueueExchange
<1>23. CASE ConnectRead(t)
  BY <1>23 DEF ConnectRead
<1>24. CASE ConnectReturn(t)
  BY <1>24 DEF ConnectReturn
<1>25. CASE OpenRead(t)
  BY <1>25 DEF OpenRead
<1>26. CASE OpenSwap(t)
  BY <1>26 DEF OpenSwap
<1>27. CASE OpenTest(t)
  BY <1>27 DEF OpenTest, NoRequest
<1>28. CASE CheckOpen(t)
  BY <1>28 DEF CheckOpen
<1>29. CASE CloseRead(t)
  BY <1>29 DEF CloseRead
<1>30. CASE CloseSwap(t)
  BY <1>30 DEF CloseSwap
<1> HIDE DEF Facts, OpenEffect, CallAt, Goto, Return, chanVars, CreatePCs, DeletePCs,
             GetPCs, ConnectPCs, AtEndPCs, OpenPCs, ClosePCs
<1> QED BY <1>2, <1>3, <1>4, <1>5, <1>6, <1>7, <1>8, <1>9, <1>10, <1>11, <1>12, <1>13,
           <1>14, <1>15, <1>16, <1>17, <1>18, <1>19, <1>20, <1>21, <1>22, <1>23, <1>24,
           <1>25, <1>26, <1>27, <1>28, <1>29, <1>30, ChannelsAssumption
        DEF Step, TableCall, TableStep, EndpointCall, EndpointStep, CreateStep, DeleteStep,
            GetStep, ChannelCall, ChannelStep, ConnectStep, OpenStep, CloseStep

\* The flag open stays the truth.
LEMMA OpenFlagStep ==
  ASSUME IInv, NEW t \in Nodes, Step(t)
  PROVE  \A h \in Handles : state'[h].open <=> h \in opened'
<1>1. /\ DOMAIN state = Handles /\ call[t].h \in Handles
      /\ \A h \in Handles : DOMAIN state[h] = {"port", "valid", "open", "connected"}
      /\ \A h \in Handles : state[h].open <=> h \in opened
      /\ \A h \in opened : state[h].valid
      /\ CallAt(t) /\ CreateAt(t) /\ DeleteAt(t) /\ ConnectAt(t)
  BY DEF IInv, TypeInv, Tables, CallOK, Words, OpenInv, CallInv, CreateInv, DeleteInv,
     ConnectInv
<1> USE <1>1
<1> USE DEF Goto, Return, tableVars, chanVars
<1>2. ASSUME NEW p \in Ports, TableCall(t), CallCreate(t, p)
      PROVE  \A h \in Handles : state'[h].open <=> h \in opened'
  BY <1>2 DEF CallCreate, TableCall
<1>3. ASSUME NEW g \in Handles, TableCall(t), CallDelete(t, g)
      PROVE  \A h \in Handles : state'[h].open <=> h \in opened'
  BY <1>3 DEF CallDelete, TableCall
<1>4. ASSUME NEW op \in {"get", "get_i"}, NEW n \in Nodes, NEW p \in Ports,
             TableCall(t), CallGet(t, op, n, p)
      PROVE  \A h \in Handles : state'[h].open <=> h \in opened'
  BY <1>4 DEF CallGet, TableCall
<1>5. CASE CreateLimit(t) /\ UNCHANGED chanVars
  BY <1>5 DEF CreateLimit
<1>6. CASE CreateFind(t) /\ UNCHANGED chanVars
  BY <1>6 DEF CreateFind
<1>7. CASE CreateClear(t) /\ UNCHANGED chanVars
  BY <1>7 DEF CreateClear
<1>8. CASE ExchangeRead(t) /\ UNCHANGED chanVars
  BY <1>8 DEF ExchangeRead
<1>9. CASE Exchange(t) /\ UNCHANGED chanVars
  <2>1. /\ pc[t] = "xswap" /\ opened' = opened
        /\ state' = IF state[call[t].h] = call[t].old
                    THEN [state EXCEPT ![call[t].h] = call[t].new] ELSE state
    BY <1>9 DEF Exchange
  <2>2. call[t].op \in {"create", "connect"}
    BY <2>1 DEF CallAt, DeletePCs, GetPCs, OpenPCs, ClosePCs
  <2>3. CASE call[t].op = "create"
    <3>1. ~call[t].new.open /\ call[t].h \notin opened
      BY <2>1, <2>3 DEF CreateAt
    <3> QED BY <2>1, <3>1
  <2>4. CASE call[t].op = "connect"
    <3>1. call[t].new = [state[call[t].h] EXCEPT !.connected = TRUE]
      BY <2>1, <2>4 DEF ConnectAt, AtEndPCs
    <3>2. call[t].new.open = state[call[t].h].open
      BY <3>1
    <3> QED BY <2>1, <3>2
  <2> QED BY <2>2, <2>3, <2>4
<1>10. CASE CreateCount(t) /\ UNCHANGED chanVars
  BY <1>10 DEF CreateCount
<1>11. CASE DeleteUncount(t) /\ UNCHANGED chanVars
  BY <1>11 DEF DeleteUncount
<1>12. CASE DeleteWipe(t) /\ UNCHANGED chanVars
  <2>1. call[t].op = "delete" /\ opened' = opened /\ state' = [state EXCEPT ![call[t].h] = NoState]
    BY <1>12 DEF DeleteWipe, CallAt, CreatePCs, GetPCs, ConnectPCs, AtEndPCs, OpenPCs,
       ClosePCs
  <2>2. call[t].h \notin opened /\ call[t].h \in Handles
    BY <2>1 DEF DeleteAt
  <2> QED BY <2>1, <2>2 DEF NoState
<1>13. CASE TestGet(t) /\ UNCHANGED chanVars
  BY <1>13 DEF TestGet, CallGet
<1>14. CASE GetNext(t) /\ UNCHANGED chanVars
  BY <1>14 DEF GetNext
<1>15. CASE GetMissed(t) /\ UNCHANGED chanVars
  BY <1>15 DEF GetMissed
<1>16. CASE GetLook(t) /\ UNCHANGED chanVars
  BY <1>16 DEF GetLook
<1>17. ASSUME NEW c \in Chans, request[t] = NoRequest, CallConnect(t, c)
      PROVE  \A h \in Handles : state'[h].open <=> h \in opened'
  BY <1>17 DEF CallConnect
<1>18. ASSUME NEW c \in Chans, NEW end \in {"send", "recv"}, NEW g \in Handles,
             request[t] = NoRequest, CallOpen(t, g, c.type, end)
      PROVE  \A h \in Handles : state'[h].open <=> h \in opened'
  BY <1>18 DEF CallOpen
<1>19. ASSUME NEW g \in Handles, request[t] = NoRequest, CallClose(t, g)
      PROVE  \A h \in Handles : state'[h].open <=> h \in opened'
  BY <1>19 DEF CallClose
<1>20. CASE ConnectType(t)
  BY <1>20 DEF ConnectType
<1>21. CASE QueueRead(t)
  BY <1>21 DEF QueueRead
<1>22. CASE QueueExchange(t)
  BY <1>22 DEF QueueExchange
<1>23. CASE ConnectRead(t)
  BY <1>23 DEF ConnectRead
<1>24. CASE ConnectReturn(t)
  BY <1>24 DEF ConnectReturn
<1>25. CASE OpenRead(t)
  BY <1>25 DEF OpenRead
<1>26. CASE OpenSwap(t)
  BY <1>26 DEF OpenSwap
<1>27. CASE OpenTest(t)
  BY <1>27 DEF OpenTest
<1>28. CASE CheckOpen(t)
  BY <1>28 DEF CheckOpen
<1>29. CASE CloseRead(t)
  BY <1>29 DEF CloseRead
<1>30. CASE CloseSwap(t)
  BY <1>30 DEF CloseSwap
<1> HIDE DEF Goto, Return, tableVars, chanVars
<1> QED BY <1>2, <1>3, <1>4, <1>5, <1>6, <1>7, <1>8, <1>9, <1>10, <1>11, <1>12, <1>13,
           <1>14, <1>15, <1>16, <1>17, <1>18, <1>19, <1>20, <1>21, <1>22, <1>23, <1>24,
           <1>25, <1>26, <1>27, <1>28, <1>29, <1>30, ChannelsAssumption
        DEF Step, TableCall, TableStep, EndpointCall, EndpointStep, CreateStep, DeleteStep,
            GetStep, ChannelCall, ChannelStep, ConnectStep, OpenStep, CloseStep

\* A step keeps what its own thread knows of its open or close.
LEMMA OpenOwn ==
  ASSUME IInv, NEW t \in Nodes, Step(t)
  PROVE  OpenAt(t)'
<1>1. Facts(t)
  BY FactsHold
<1>2. /\ OpenAt(t) /\ DOMAIN state = Handles /\ \A h \in opened : state[h].valid
      /\ \A h \in Handles : DOMAIN state[h] = {"port", "valid", "open", "connected"}
  BY DEF IInv, OpenInv, TypeInv, Tables, Words
<1>3. \A c \in Chans : c.type # "none"
  BY ChannelsAssumption
<1> USE <1>1, <1>2, <1>3
<1> USE DEF Facts, OpenAt, CallAt, Mine, Goto, Return, Locals, tableVars, chanVars,
            CreatePCs, DeletePCs, GetPCs, ConnectPCs, AtEndPCs, OpenPCs, ClosePCs
<1>4. ASSUME NEW p \in Ports, TableCall(t), CallCreate(t, p)
      PROVE  OpenAt(t)'
  BY <1>4 DEF CallCreate, TableCall, NoCall
<1>5. ASSUME NEW g \in Handles, TableCall(t), CallDelete(t, g)
      PROVE  OpenAt(t)'
  BY <1>5 DEF CallDelete, TableCall, NoCall
<1>6. ASSUME NEW op \in {"get", "get_i"}, NEW n \in Nodes, NEW p \in Ports,
             TableCall(t), CallGet(t, op, n, p)
      PROVE  OpenAt(t)'
  BY <1>6 DEF CallGet, TableCall, NoCall
<1>7. CASE CreateLimit(t) /\ UNCHANGED chanVars
  BY <1>7 DEF CreateLimit
<1>8. CASE CreateFind(t) /\ UNCHANGED chanVars
  BY <1>8, CreateFindCases
<1>9. CASE CreateClear(t) /\ UNCHANGED chanVars
  BY <1>9 DEF CreateClear
<1>10. CASE ExchangeRead(t) /\ UNCHANGED chanVars
  BY <1>10 DEF ExchangeRead
<1>11. CASE Exchange(t) /\ UNCHANGED chanVars
  BY <1>11 DEF Exchange
<1>12. CASE CreateCount(t) /\ UNCHANGED chanVars
  BY <1>12 DEF CreateCount
<1>13. CASE DeleteUncount(t) /\ UNCHANGED chanVars
  BY <1>13 DEF DeleteUncount
<1>14. CASE DeleteWipe(t) /\ UNCHANGED chanVars
  BY <1>14 DEF DeleteWipe
<1>15. CASE TestGet(t) /\ UNCHANGED chanVars
  BY <1>15 DEF TestGet, CallGet, NoCall
<1>16. CASE GetNext(t) /\ UNCHANGED chanVars
  BY <1>16 DEF GetNext
<1>17. CASE GetMissed(t) /\ UNCHANGED chanVars
  BY <1>17 DEF GetMissed
<1>18. CASE GetLook(t) /\ UNCHANGED chanVars
  BY <1>18 DEF GetLook
<1>19. ASSUME NEW c \in Chans, request[t] = NoRequest, CallConnect(t, c)
      PROVE  OpenAt(t)'
  BY <1>19 DEF CallConnect, NoCall
<1>20. ASSUME NEW c \in Chans, NEW end \in {"send", "recv"}, NEW g \in Handles,
             request[t] = NoRequest, CallOpen(t, g, c.type, end)
      PROVE  OpenAt(t)'
  BY <1>20 DEF CallOpen, NoCall, Openable
<1>21. ASSUME NEW g \in Handles, request[t] = NoRequest, CallClose(t, g)
      PROVE  OpenAt(t)'
  BY <1>21 DEF CallClose, NoCall
<1>22. CASE ConnectType(t)
  BY <1>22 DEF ConnectType
<1>23. CASE QueueRead(t)
  BY <1>23 DEF QueueRead
<1>24. CASE QueueExchange(t)
  BY <1>24 DEF QueueExchange
<1>25. CASE ConnectRead(t)
  BY <1>25 DEF ConnectRead
<1>26. CASE ConnectReturn(t)
  BY <1>26 DEF ConnectReturn
<1>27. CASE OpenRead(t)
  BY <1>27 DEF OpenRead
<1>28. CASE OpenSwap(t)
  BY <1>28 DEF OpenSwap
<1>29. CASE OpenTest(t)
  BY <1>29 DEF OpenTest
<1>30. CASE CheckOpen(t)
  BY <1>30 DEF CheckOpen
<1>31. CASE CloseRead(t)
  BY <1>31 DEF CloseRead
<1>32. CASE CloseSwap(t)
  BY <1>32 DEF CloseSwap
<1> HIDE DEF Facts, OpenAt, CallAt, Mine, Goto, Return, Locals, tableVars, chanVars,
             CreatePCs, DeletePCs, GetPCs, ConnectPCs, AtEndPCs, OpenPCs, ClosePCs
<1> QED BY <1>4, <1>5, <1>6, <1>7, <1>8, <1>9, <1>10, <1>11, <1>12, <1>13, <1>14, <1>15,
           <1>16, <1>17, <1>18, <1>19, <1>20, <1>21, <1>22, <1>23, <1>24, <1>25, <1>26,
           <1>27, <1>28, <1>29, <1>30, <1>31, <1>32, ChannelsAssumption
        DEF Step, TableCall, TableStep, EndpointCall, EndpointStep, CreateStep, DeleteStep,
            GetStep, ChannelCall, ChannelStep, ConnectStep, OpenStep, CloseStep

\* Other threads leave the word of the endpoint that is opened or closed alone, as
\* is asserted.
LEMMA OpenOther ==
  ASSUME IInv, NEW t \in Nodes, Step(t), NEW u \in Nodes \ {t}
  PROVE  OpenAt(u)'
<1>1. call'[u] = call[u] /\ pc'[u] = pc[u] /\ OpenAt(u) /\ OpenAt(t) /\ call[u].h \in Handles
  BY FrameStep DEF IInv, Frame, OpenInv, TypeInv, CallOK
<1>2. SUFFICES ASSUME call[u].op \in {"open", "close"} PROVE OpenAt(u)'
  BY <1>1 DEF OpenAt
<1>3. call[u].h \in Mine(u) /\ call[u].h \notin Mine(t)
  BY <1>1, <1>2 DEF OpenAt, Mine
<1>4. state'[call[u].h] = state[call[u].h]
  BY <1>1, <1>2, <1>3, OthersKept DEF Handling
<1>5. call[u].h \in opened => call[u].h \in opened'
  BY <1>1, <1>3, OpenCases DEF OpenEffect, OpenAt
<1> QED BY <1>1, <1>2, <1>3, <1>4, <1>5 DEF OpenAt

\* An open end stays valid, and is connected when its open has completed.
LEMMA OpenStepInv ==
  ASSUME IInv, Orderly, NEW t \in Nodes, Step(t)
  PROVE  OpenInv'
<1>1. (\A h \in Handles : state'[h].open <=> h \in opened') /\ \A u \in Nodes : OpenAt(u)'
  BY OpenFlagStep, OpenOwn, OpenOther
<1>2. OpenEffect(t) /\ Frame(t) /\ OpenAt(t) /\ DeleteAt(t) /\ opened \subseteq Handles
  BY OpenCases, FrameStep DEF IInv, OpenInv, DeleteInv, TypeInv, Tables
<1>3. SUFFICES ASSUME NEW h \in opened'
               PROVE  /\ state'[h].valid
                      /\ \/ Linked(h)'
                         \/ pc'[h[1]] = "otest" /\ call'[h[1]].h = h
                         \/ request'[h[1]].op = "open" /\ request'[h[1]].h = h
  BY <1>1 DEF OpenInv
<1>4. CASE h \notin opened
  <2>1. h = call[t].h /\ call[t].op = "open" /\ pc'[t] = "otest" /\ call'[t].h = h
    BY <1>2, <1>3, <1>4 DEF OpenEffect
  <2>2. h \in Mine(t) /\ state[h].valid /\ h \in Handles /\ h[1] = t
    BY <1>2, <2>1 DEF OpenAt, Mine
  <2>3. state'[h].valid
    BY <2>1, <2>2, ValidStep
  <2> QED BY <2>1, <2>2, <2>3
<1>5. CASE h \in opened
  <2>1. /\ h \in Handles /\ h[1] \in Nodes /\ state[h].valid /\ state[h].open
        /\ \/ Linked(h)
           \/ pc[h[1]] = "otest" /\ call[h[1]].h = h
           \/ request[h[1]].op = "open" /\ request[h[1]].h = h
    BY <1>2, <1>5 DEF IInv, OpenInv, Handles
  <2>2. ~(call[t].op = "delete" /\ call[t].h = h)
    BY <1>2, <2>1 DEF DeleteAt
  <2>3. state'[h].valid
    BY <2>1, <2>2, ValidStep
  <2>4. Linked(h) => Linked(h)'
    BY <2>1, <2>2, LinkedKept
  <2>5. CASE h[1] # t
    BY <1>2, <2>1, <2>3, <2>4, <2>5 DEF Frame
  <2>6. state[h].connected => Linked(h)
    BY <2>1 DEF IInv, EntryInv
  <2>7. CASE h[1] = t /\ pc[t] = "otest" /\ call[t].h = h
    <3>1. call[t].op = "open" /\ call[t].type # "none"
      BY <1>2, <2>7 DEF IInv, CallInv, CallAt, OpenAt, CreatePCs, DeletePCs, GetPCs, ConnectPCs,
                        AtEndPCs, ClosePCs
    <3>2. ~Connecting(h)
      BY <2>7, <3>1, ConnectingFacts DEF Connecting, Handling
    <3>3. entry[h].type # "none" => Linked(h)
      BY <2>1, <2>6, <3>2 DEF IInv, EntryInv
    <3> QED BY <1>2, <2>3, <2>4, <2>7, <3>1, <3>3 DEF OpenEffect
  <2>8. CASE h[1] = t /\ request[t].op = "open" /\ request[t].h = h
    BY <1>2, <2>3, <2>4, <2>6, <2>8 DEF OpenEffect
  <2> QED BY <2>1, <2>3, <2>4, <2>5, <2>7, <2>8
<1> QED BY <1>4, <1>5

-----------------------------------------------------------------------------
(* The invariant, and what follows from it.                                *)

\* The invariant holds at the start.
LEMMA IInvInit ==
  ASSUME ChannelInit
  PROVE  IInv
<1> USE DEF ChannelInit, Init
<1>1. TypeInv
  <2>1. Null \in Handles /\ 0 \in Nodes
    BY EndpointsAssumption DEF Null, Handles, Nodes, Indices
  <2>2. Tables
    BY NothingTyped DEF Tables
  <2> QED BY <2>2, NothingTyped DEF TypeInv, PCs
<1>2. \A t \in Nodes : call[t].op = "none" /\ pc[t] = "idle" /\ request[t].op = "none"
  BY NothingTyped
<1>3. CallInv /\ CreateInv /\ DeleteInv /\ ConnectInv
  BY <1>2 DEF CallInv, CallAt, CreateInv, CreateAt, DeleteInv, DeleteAt, ConnectInv, ConnectAt
<1>4. \A h \in Handles : /\ ~state[h].valid /\ ~state[h].open /\ ~state[h].connected
                         /\ entry[h].type = "none" /\ h[1] \in Nodes
  BY DEF NoState, NoEntry, Handles
<1>5. LivePart
  BY <1>2, <1>4 DEF LivePart, Creating, Deleting, DeletePCs
<1>6. CountPart
  <2>1. \A n \in Nodes : Mine(n) \cap live = {}
    OBVIOUS
  <2>2. Cardinality({}) = 0
    BY FS_EmptySet
  <2> QED BY <1>2, <2>1, <2>2 DEF CountPart
<1>7. PortInv
  BY <1>2 DEF PortInv
<1>8. EntryInv /\ JoinedInv /\ OpenInv
  BY <1>2, <1>4 DEF EntryInv, JoinedInv, OpenInv, OpenAt
<1> QED BY <1>1, <1>3, <1>5, <1>6, <1>7, <1>8 DEF IInv, LiveInv

\* And every step keeps it.
LEMMA IInvStep ==
  ASSUME IInv, Orderly, CountFits, [Next]_allVars
  PROVE  IInv'
<1>1. ASSUME NEW t \in Nodes, Step(t) PROVE IInv'
  <2>1. Frame(t) /\ CallAt(t)' /\ \A u \in Nodes : CallAt(u)
    BY <1>1, FrameStep, CallInvStep DEF IInv, CallInv
  <2>2. CallInv'
    BY <2>1 DEF CallInv, CallAt, Frame
  <2>3. ConnectInv'
    BY <1>1, ConnectOwn, ConnectOther DEF ConnectInv
  <2>4. TypeInv' /\ LivePart' /\ CountPart' /\ PortInv' /\ CreateInv' /\ DeleteInv'
    BY <1>1, TypeStep, LiveStep, CountStep, PortStep, CreateStepInv, DeleteStepInv
  <2>5. EntryInv' /\ JoinedInv' /\ OpenInv'
    BY <1>1, EntryInvStep, JoinedStep, OpenStepInv
  <2> QED BY <2>2, <2>3, <2>4, <2>5 DEF IInv, LiveInv
<1>2. CASE UNCHANGED allVars
  <2> USE <1>2 DEF allVars, vars, tableVars, chanVars, IInv
  <2>1. TypeInv' /\ CallInv'
    BY DEF TypeInv, Tables, CallInv, CallAt
  <2>2. LiveInv' /\ PortInv'
    BY DEF LiveInv, LivePart, CountPart, Creating, Deleting, PortInv
  <2>3. CreateInv' /\ DeleteInv'
    BY DEF CreateInv, CreateAt, DeleteInv, DeleteAt
  <2>4. \A h : (Linked(h)' <=> Linked(h)) /\ (Handling(h)' <=> Handling(h))
    BY DEF Linked, Handling, Kinds, Pairs, ChansOf
  <2>5. ConnectInv'
    BY <2>4 DEF ConnectInv, ConnectAt, Pairs, ChansOf
  <2>6. EntryInv' /\ JoinedInv' /\ OpenInv'
    BY <2>4 DEF EntryInv, Kinds, ChansOf, Connecting, JoinedInv, Deleting, OpenInv, OpenAt
  <2> QED BY <2>1, <2>2, <2>3, <2>5, <2>6
<1> QED BY <1>1, <1>2 DEF Next, Step

\* The invariant holds in every state that the calls of an orderly application
\* reach.
THEOREM ChannelInvariant == Orderly /\ CountFits => (Spec => []IInv)
<1> SUFFICES ASSUME Orderly, CountFits PROVE Spec => []IInv
  OBVIOUS
<1>1. ChannelInit => IInv
  BY IInvInit
<1>2. IInv /\ [Next]_allVars => IInv'
  BY IInvStep
<1> QED BY <1>1, <1>2, PTL DEF Spec

\* No create is lost and no deleted endpoint comes back: between two calls of a
\* node its valid endpoints are those it created and did not delete, they are
\* counted, and a port names one of them.
THEOREM TableExact == Orderly /\ CountFits => (Spec => []TableIsExact)
<1> SUFFICES ASSUME Orderly, CountFits PROVE Spec => []TableIsExact
  OBVIOUS
<1>1. IInv => TableIsExact
  <2> SUFFICES ASSUME IInv, NEW n \in Nodes, ~Editing(n)
               PROVE  /\ {h \in Mine(n) : state[h].valid} = Mine(n) \cap live
                      /\ num[n] = Cardinality(Mine(n) \cap live)
                      /\ \A g, h \in Mine(n) \cap live :
                           state[g].port = state[h].port => g = h
    BY DEF TableIsExact
  <2>1. pc[n] \notin CreatePCs \ {"xread", "xswap"} /\ pc[n] \notin DeletePCs
    BY DEF Editing, IInv, CallInv, CallAt, CreatePCs, DeletePCs, GetPCs, ConnectPCs, AtEndPCs,
           OpenPCs, ClosePCs
  <2>2. \A h \in Mine(n) : h \in Handles /\ ~Creating(h) /\ ~Deleting(h)
    BY <2>1 DEF Mine, Creating, Deleting, CreatePCs
  <2>3. {h \in Mine(n) : state[h].valid} = Mine(n) \cap live
    BY <2>2 DEF IInv, LiveInv, LivePart
  <2>4. num[n] = Cardinality(Mine(n) \cap live)
    BY <2>1 DEF IInv, LiveInv, CountPart, DeletePCs
  <2>5. \A g, h \in Mine(n) \cap live : state[g].port = state[h].port => g = h
    BY DEF IInv, PortInv, Mine
  <2> QED BY <2>3, <2>4, <2>5
<1> QED BY <1>1, ChannelInvariant, PTL

\* The flag open says what the node of an endpoint did last, and no assert fails.
THEOREM OpenKept == Orderly /\ CountFits => (Spec => []OpenIsKept)
<1> SUFFICES ASSUME Orderly, CountFits PROVE Spec => []OpenIsKept
  OBVIOUS
<1>1. IInv => OpenIsKept
  BY DEF IInv, OpenInv, OpenIsKept, TypeInv, PCs, CreatePCs, DeletePCs, GetPCs, ConnectPCs,
         AtEndPCs, OpenPCs, ClosePCs
<1> QED BY <1>1, ChannelInvariant, PTL

\* No endpoint is the sending end of one channel and the receiving end of another.
OneWay == \A c, d \in Chans : c.send # d.recv

\* Where endpoints either send or receive, a packet goes to an endpoint that was
\* to be connected with its sender.
THEOREM SentRight == Orderly /\ CountFits /\ OneWay => (Spec => []SentToPeer)
<1> SUFFICES ASSUME Orderly, CountFits, OneWay PROVE Spec => []SentToPeer
  OBVIOUS
<1>1. IInv => SentToPeer
  <2> SUFFICES ASSUME IInv, NEW t \in Nodes, NEW h \in Handles, CanSend(t, h)
               PROVE  \E c \in Chans : c.send = h /\ c.recv = Target(h)
    BY DEF SentToPeer
  <2>1. h \in opened /\ h[1] = t /\ pc[t] = "idle" /\ request[t].op = "none"
    BY NothingTyped DEF CanSend, Mine
  <2>2. Linked(h)
    BY <2>1 DEF IInv, OpenInv
  <2>3. PICK c \in ChansOf(h) : entry[h].queue = PairOf(c)
    BY <2>2 DEF Linked, Pairs
  <2>4. PICK d \in Chans : d.send = h
    BY DEF CanSend
  <2>5. c \in Chans /\ c.send = h
    BY <2>3, <2>4 DEF ChansOf, Ends, OneWay
  <2> QED BY <2>3, <2>5 DEF Target, PairOf
<1> QED BY <1>1, ChannelInvariant, PTL

\* No two channels share an endpoint.
Disjoint == \A c, d \in Chans : Ends(c) \cap Ends(d) # {} => c = d

\* Where channels share no endpoint, both ends of a channel that connect has
\* reported are connected to each other, with its type, whoever connected them.
THEOREM ConnectKept == Orderly /\ CountFits /\ Disjoint => (Spec => []ConnectIsKept)
<1> SUFFICES ASSUME Orderly, CountFits, Disjoint PROVE Spec => []ConnectIsKept
  OBVIOUS
<1>1. IInv => ConnectIsKept
  <2> SUFFICES ASSUME IInv, NEW c \in joined, NEW h \in Ends(c)
               PROVE  /\ state[h].connected /\ entry[h].type = c.type
                      /\ entry[h].queue = [send |-> c.send, recv |-> c.recv]
    BY DEF ConnectIsKept
  <2>1. PICK d \in Chans : c.send = d.send /\ c.recv = d.recv /\ c.type = d.type
    BY DEF IInv, JoinedInv
  <2>2. Linked(h) /\ h \in Ends(d)
    BY <2>1 DEF IInv, JoinedInv, Ends
  <2>3. \A e \in ChansOf(h) : e = d
    BY <2>2 DEF ChansOf, Disjoint
  <2> QED BY <2>1, <2>2, <2>3 DEF Linked, Kinds, Pairs, PairOf
<1> QED BY <1>1, ChannelInvariant, PTL

=============================================================================
