------------------------------ MODULE Endpoints ------------------------------
(***************************************************************************)
(* The table of endpoints of every node: create, get and delete            *)
(* (mcapi_abb.c, transport_sm_endpoint_abb.c).  A node is a thread: the     *)
(* index of the calling node is thread-local (mcapi_nindex), so only one    *)
(* thread creates and deletes the endpoints of a node.  Any thread looks    *)
(* for them, and any thread may connect them (module Channels).            *)
(*                                                                         *)
(* The flags of an endpoint share one 64-bit word with its port.  Whoever   *)
(* changes one flag reads the word, changes its copy and writes it back;    *)
(* the write is a compare-and-swap, or the exchange of sys_atomic_xchg: a   *)
(* read and one compare-and-swap whose failure is ignored.                 *)
(***************************************************************************)
EXTENDS Integers, FiniteSets

CONSTANTS
  NNodes,        \* nodes
  MaxEndpoints,  \* MCAPI_MAX_ENDPOINTS
  Ports,         \* port numbers the application uses
  MaxCreates     \* bound: endpoints created

ASSUME EndpointsAssumption ==
  /\ NNodes \in Nat \ {0} /\ MaxEndpoints \in Nat \ {0}
  /\ Ports \subseteq Nat \ {0} /\ MaxCreates \in Nat

Nodes   == 0 .. NNodes - 1
Indices == 0 .. MaxEndpoints - 1
Handles == Nodes \X Indices      \* mcapi_trans_encode_handle, for one domain
Null    == <<0, 0>>              \* the handle 0, which also names an endpoint
Mine(t) == {h \in Handles : h[1] = t}

CountMod == 65536   \* num_endpoints is unsigned: 2^32 in the code

VARIABLES
  state,     \* endpoints[e].state: port_num, valid, open, connected
  entry,     \* the rest of the entry: recv_queue.channel_type, recv_queue.state
             \* (the two ends of the channel)
  num,       \* num_endpoints of each node
  pc, call,  \* where each thread is, and the local variables of its call
  request,   \* the request that a thread's last non-blocking call left pending
  live,      \* history: endpoints created and not deleted
  made       \* history: how many endpoints were created

tableVars == <<state, entry, num>>
vars == <<tableVars, pc, call, request, live, made>>

NoState == [port |-> 0, valid |-> FALSE, open |-> FALSE, connected |-> FALSE]
NoQueue == [send |-> Null, recv |-> Null]
NoEntry == [type |-> "none", queue |-> NoQueue]

NoCall == [op |-> "none", h |-> Null, pair |-> NoQueue, type |-> "none",
           node |-> 0, port |-> 0, e |-> 0, new |-> NoState, old |-> NoState,
           queue |-> NoQueue, next |-> "idle"]
NoRequest == [op |-> "none", h |-> Null, node |-> 0, port |-> 0]

Init ==
  /\ state = [h \in Handles |-> NoState]
  /\ entry = [h \in Handles |-> NoEntry]
  /\ num = [n \in Nodes |-> 0]
  /\ pc = [t \in Nodes |-> "idle"]
  /\ call = [t \in Nodes |-> NoCall]
  /\ request = [t \in Nodes |-> NoRequest]
  /\ live = {} /\ made = 0

Goto(t, from, to) == pc[t] = from /\ pc' = [pc EXCEPT ![t] = to]

\* The call of thread t returns; its locals are gone.
Return(t, from) ==
  /\ Goto(t, from, "idle")
  /\ call' = [call EXCEPT ![t] = NoCall]

Has(h, p) == state[h].valid /\ state[h].port = p
First(S) == CHOOSE e \in S : \A f \in S : e <= f

-----------------------------------------------------------------------------
(* sys_atomic_xchg on the state of endpoint call.h.                        *)

ExchangeRead(t) ==
  /\ Goto(t, "xread", "xswap")
  /\ call' = [call EXCEPT ![t].old = state[call[t].h]]
  /\ UNCHANGED <<tableVars, request, live, made>>

\* The compare-and-swap, which may do nothing.
Exchange(t) ==
  LET h == call[t].h IN
  /\ Goto(t, "xswap", call[t].next)
  /\ state' = IF state[h] = call[t].old THEN [state EXCEPT ![h] = call[t].new] ELSE state
  /\ UNCHANGED <<entry, num, call, request, live, made>>

-----------------------------------------------------------------------------
(* mcapi_endpoint_create                                                   *)

\* mcapi_trans_endpoint_exists
EndpointExists(t, p) == \E e \in Indices : Has(<<t, e>>, p)

\* (With the port in use, MCAPI_ERR_ENDP_EXISTS and nothing else.)
CallCreate(t, p) ==
  /\ Goto(t, "idle", "limit") /\ made < MaxCreates
  /\ ~EndpointExists(t, p)
  /\ call' = [call EXCEPT ![t] = [NoCall EXCEPT !.op = "create", !.port = p]]
  /\ UNCHANGED <<tableVars, request, live, made>>

\* MCAPI_ERR_ENDP_LIMIT; more than the maximum fails the assert that follows
CreateLimit(t) ==
  /\ num[t] >= MaxEndpoints
  /\ IF num[t] = MaxEndpoints THEN Return(t, "limit")
                              ELSE Goto(t, "limit", "abort") /\ UNCHANGED call
  /\ UNCHANGED <<tableVars, request, live, made>>

\* (mutant: the index after the last is taken, as if there were no holes)
CreateFindAtEnd(t) ==
  LET h == <<t, num[t]>> IN
  /\ num[t] < MaxEndpoints
  /\ Goto(t, "limit", "clear")
  /\ call' = [call EXCEPT ![t] =
       [@ EXCEPT !.h = h, !.new = [state[h] EXCEPT !.port = call[t].port,
                                                   !.open = FALSE, !.valid = TRUE]]]
  /\ UNCHANGED <<tableVars, request, live, made>>

\* The first index that is not valid; its word is copied with the flag
\* connected as it is. (With none, MCAPI_ERR_ENDP_NOPORTS.)
CreateFind(t) ==
  LET free == {e \in Indices : ~state[<<t, e>>].valid}
      h == <<t, First(free)>>
  IN  /\ num[t] < MaxEndpoints
      /\ IF free = {} THEN Return(t, "limit")
         ELSE /\ Goto(t, "limit", "clear")
              /\ call' = [call EXCEPT ![t] =
                   [@ EXCEPT !.h = h, !.new = [state[h] EXCEPT !.port = call[t].port,
                                                               !.open = FALSE, !.valid = TRUE]]]
      /\ UNCHANGED <<tableVars, request, live, made>>

\* the memset of recv_queue
CreateClear(t) ==
  /\ Goto(t, "clear", "xread")
  /\ entry' = [entry EXCEPT ![call[t].h] = [@ EXCEPT !.type = "none", !.queue = NoQueue]]
  /\ call' = [call EXCEPT ![t].next = "count"]
  /\ UNCHANGED <<state, num, request, live, made>>

CreateCount(t) ==
  /\ Return(t, "count")
  /\ num' = [num EXCEPT ![t] = (@ + 1) % CountMod]
  /\ live' = live \cup {call[t].h} /\ made' = made + 1
  /\ UNCHANGED <<state, entry, request>>

-----------------------------------------------------------------------------
(* mcapi_endpoint_delete                                                   *)

\* Only its node deletes an endpoint, and not while it is open; whether it is
\* connected is not looked at.
CallDelete(t, h) ==
  /\ Goto(t, "idle", "uncount")
  /\ h \in Mine(t) /\ state[h].valid /\ ~state[h].open
  /\ call' = [call EXCEPT ![t] = [NoCall EXCEPT !.op = "delete", !.h = h]]
  /\ live' = live \ {h}
  /\ UNCHANGED <<tableVars, request, made>>

DeleteUncount(t) ==
  /\ Goto(t, "uncount", "wipe")
  /\ num' = [num EXCEPT ![t] = (@ - 1) % CountMod]
  /\ UNCHANGED <<state, entry, call, request, live, made>>

\* The entry is wiped, the flag connected and the ends of its channel with it.
DeleteWipe(t) ==
  LET h == call[t].h IN
  /\ Return(t, "wipe")
  /\ state' = [state EXCEPT ![h] = NoState]
  /\ entry' = [entry EXCEPT ![h] = NoEntry]
  /\ UNCHANGED <<num, request, live, made>>

-----------------------------------------------------------------------------
(* mcapi_endpoint_get (blocking), mcapi_endpoint_get_i and the test of the  *)
(* request it leaves: all run mcapi_trans_endpoint_get_.                   *)

CallGet(t, op, n, p) ==
  /\ Goto(t, "idle", "bound")
  /\ call' = [call EXCEPT ![t] = [NoCall EXCEPT !.op = op, !.node = n, !.port = p]]
  /\ UNCHANGED <<tableVars, request, live, made>>

\* check_get_endpt_request
TestGet(t) ==
  /\ request[t].op = "get"
  /\ CallGet(t, "test", request[t].node, request[t].port)

\* The loop runs while e < num_endpoints, read anew each time.
GetNext(t) ==
  /\ call[t].e < num[call[t].node]
  /\ Goto(t, "bound", IF call[t].e < MaxEndpoints THEN "look" ELSE "abort")
  /\ UNCHANGED <<tableVars, call, request, live, made>>

\* Not found: the blocking call yields and starts again, the others leave a
\* request.
GetMissed(t) ==
  /\ call[t].e >= num[call[t].node]
  /\ IF call[t].op = "get"
       THEN /\ pc[t] = "bound" /\ UNCHANGED <<pc, request>>
            /\ call' = [call EXCEPT ![t].e = 0]
       ELSE /\ Return(t, "bound")
            /\ request' = [request EXCEPT ![t] = [NoRequest EXCEPT !.op = "get",
                             !.node = call[t].node, !.port = call[t].port]]
  /\ UNCHANGED <<tableVars, live, made>>

\* (mutant: the loop does not advance past an entry that does not match)
GetLookStuck(t) ==
  /\ pc[t] = "look"
  /\ IF Has(<<call[t].node, call[t].e>>, call[t].port)
       THEN /\ Return(t, "look") /\ request' = [request EXCEPT ![t] = NoRequest]
       ELSE /\ Goto(t, "look", "bound") /\ UNCHANGED <<call, request>>
  /\ UNCHANGED <<tableVars, live, made>>

GetLook(t) ==
  /\ pc[t] = "look"
  /\ IF Has(<<call[t].node, call[t].e>>, call[t].port)
       THEN /\ Return(t, "look") /\ request' = [request EXCEPT ![t] = NoRequest]
       ELSE /\ Goto(t, "look", "bound") /\ UNCHANGED request
            /\ call' = [call EXCEPT ![t].e = @ + 1]
  /\ UNCHANGED <<tableVars, live, made>>

-----------------------------------------------------------------------------
\* A call the application makes when it has no call and no request under way.
EndpointCall(t) ==
  /\ request[t] = NoRequest
  /\ \/ \E p \in Ports : CallCreate(t, p)
     \/ \E h \in Handles : CallDelete(t, h)
     \/ \E op \in {"get", "get_i"}, n \in Nodes \ {t}, p \in Ports : CallGet(t, op, n, p)

CreateStep(t) ==
  \/ CreateLimit(t) \/ CreateFind(t)
  \/ CreateClear(t) \/ ExchangeRead(t) \/ Exchange(t) \/ CreateCount(t)
DeleteStep(t) == DeleteUncount(t) \/ DeleteWipe(t)
GetStep(t) == TestGet(t) \/ GetNext(t) \/ GetMissed(t) \/ GetLook(t)
EndpointStep(t) == CreateStep(t) \/ DeleteStep(t) \/ GetStep(t)

-----------------------------------------------------------------------------
(* Properties of the table.                                                *)

\* The thread is changing its own table.
Editing(t) == call[t].op \in {"create", "delete"}

\* Between two calls of its node, exactly the endpoints that were created and
\* not deleted are valid and counted: no create is lost, and no deleted
\* endpoint comes back by a word that somebody else writes back late. And a port
\* names one of them.
TableIsExact ==
  \A n \in Nodes : ~Editing(n) =>
    LET mine == Mine(n) \cap live IN
    /\ {h \in Mine(n) : state[h].valid} = mine
    /\ num[n] = Cardinality(mine)
    /\ \A g, h \in mine : state[g].port = state[h].port => g = h

Getting(t) == call[t].op = "get"

\* An entry that the search reaches.
Reached(n, p) == \E e \in Indices : e < num[n] /\ Has(<<n, e>>, p)

\* A blocking get returns if the endpoint stays where the search reaches it:
\* only one that lies beyond num_endpoints, behind the hole that a delete left,
\* is never found.
GetReturnsUnlessHole ==
  \A t \in Nodes : Getting(t) ~> ~(Getting(t) /\ Reached(call[t].node, call[t].port))

\* A blocking get of an endpoint that exists, and is not deleted, returns.
GetReturns ==
  \A t \in Nodes :
    Getting(t) ~> ~(Getting(t) /\ EndpointExists(call[t].node, call[t].port))
=============================================================================
