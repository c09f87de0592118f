------------------------------ MODULE NodeTable ------------------------------
(***************************************************************************)
(* Nodes: mcapi_initialize, mcapi_node_start, mcapi_finalize and the signal *)
(* handler (transport_sm_initialize_abb.c, transport_sm_finalize_abb.c,    *)
(* transport_sm_signal_abb.c).  The first node creates the shared memory   *)
(* with the table of nodes, the last one deletes it; nothing locks either. *)
(*                                                                         *)
(* A node is a thread.  All threads of a process reach the table through   *)
(* its pointer mcapi_db.  The shared memory is an entry of MRAPI, whose     *)
(* calls are atomic sections of their own and whose own nodes are taken to *)
(* stay up (some other node of MRAPI keeps its database).                  *)
(***************************************************************************)
EXTENDS Integers, FiniteSets

CONSTANTS
  Threads,
  Proc, Num,      \* the process of a thread, the node number it initializes
  MaxDomains,     \* MCA_MAX_DOMAINS; all nodes are of the same domain
  MaxNodes,       \* MCA_MAX_NODES
  Overlap,        \* what may overlap: "first" the initialize of the first node
                  \* and another, "final" an initialize and a finalize, "finals"
                  \* finalizes in a process; the code excludes none of them
  MaxInits,       \* bound: calls of mcapi_initialize
  MaxCrashes      \* bound: processes that a signal ends

Procs   == {Proc[t] : t \in Threads}
Domains == 0 .. MaxDomains - 1
Slots   == 0 .. MaxNodes - 1
NoMem   == 0

ASSUME NodesAssumption ==
  /\ IsFiniteSet(Threads) /\ \A t \in Threads : Num[t] \in Nat \ {0}
  /\ MaxDomains \in Nat \ {0} /\ MaxNodes \in Nat \ {0}
  /\ Overlap \subseteq {"first", "final", "finals"} /\ MaxInits \in Nat /\ MaxCrashes \in Nat

Mems == 1 .. MaxInits   \* the shared memories ever created

VARIABLES
  mem, gone,    \* MRAPI's entry for the key; memories the system has removed
  users, refs,  \* MRAPI nodes logged as users of it; its reference count
  mrapi,        \* threads that are MRAPI nodes
  dom,          \* domains[d] of each memory: is it allocated to the domain?
  node,         \* domains[d].nodes[n].state
  owner,        \* domains[d].nodes[n].pid
  count,        \* domains[d].num_nodes
  db,           \* mcapi_db of each process
  known, met,   \* threads whose mcapi_pid, and whose mrapi_pid, is not -1
  place,        \* thread-local mcapi_dindex and mcapi_nindex
  pc, call,     \* where each thread is, and the local variables of its call
  epoch,        \* getpid of each process: a restarted process has another
  inits,        \* history: calls of mcapi_initialize
  inited,       \* history: threads that are initialized
  crashed,      \* history: processes that a signal ended
  spoiled       \* history: processes with an initialize refused once attached

memVars   == <<mem, gone, users, refs, mrapi>>
tableVars == <<dom, node, owner, count>>
tls       == <<known, met, place>>
histVars  == <<epoch, inits, inited, crashed, spoiled>>
vars == <<memVars, tableVars, db, tls, pc, call, histVars>>

NoWord == [num |-> 0, alloc |-> FALSE, valid |-> FALSE, rundown |-> FALSE]
NoCall == [op |-> "none", d |-> 0, n |-> 0, mem |-> NoMem, start |-> FALSE, step |-> "none",
           old |-> NoWord, new |-> NoWord, last |-> TRUE, lastp |-> TRUE]

Init ==
  /\ mem = NoMem /\ gone = {} /\ users = {} /\ refs = 0 /\ mrapi = {}
  /\ dom = [m \in Mems |-> [d \in Domains |-> FALSE]]
  /\ node = [m \in Mems |-> [x \in Domains \X Slots |-> NoWord]]
  /\ owner = [m \in Mems |-> [x \in Domains \X Slots |-> <<>>]]
  /\ count = [m \in Mems |-> [d \in Domains |-> 0]]
  /\ db = [p \in Procs |-> NoMem]
  /\ known = {} /\ met = {}
  /\ place = [t \in Threads |-> <<0, 0>>]
  /\ pc = [t \in Threads |-> "idle"]
  /\ call = [t \in Threads |-> NoCall]
  /\ epoch = [p \in Procs |-> 0]
  /\ inits = 0 /\ inited = {} /\ crashed = {} /\ spoiled = {}

Goto(t, from, to) == pc[t] = from /\ pc' = [pc EXCEPT ![t] = to]

\* The call returns and changes nothing else.
Return(t) ==
  /\ pc' = [pc EXCEPT ![t] = "idle"]
  /\ call' = [call EXCEPT ![t] = NoCall]

\* The initialize is refused when the thread is attached: nothing is undone.
Refuse(t) == Return(t) /\ spoiled' = spoiled \cup {Proc[t]}

Pid(t) == <<Proc[t], epoch[Proc[t]]>>
Mine(t) == db[Proc[t]]

\* A step of t through the pointer mcapi_db: where that is null, a fault.
Through(t, at, step) ==
  /\ pc[t] = at
  /\ IF Mine(t) # NoMem THEN step
     ELSE /\ pc' = [pc EXCEPT ![t] = "abort"]
          /\ UNCHANGED <<memVars, tableVars, db, tls, call, histVars>>

Initializing == {t \in Threads : call[t].op = "init"}
Leaving == {t \in Threads : call[t].op \in {"final", "signal"}}

-----------------------------------------------------------------------------
(* mcapi_initialize and mcapi_initialize2                                  *)

\* mcapi_trans_initialized is asked first.
CallInitialize(t, start) ==
  /\ Goto(t, "idle", "mrapi") /\ inits < MaxInits
  /\ ~(Mine(t) # NoMem /\ t \in known)
  /\ "final" \in Overlap \/ Leaving = {}
  /\ "first" \in Overlap \/ Initializing = {} \/ inited # {}
  /\ call' = [call EXCEPT ![t] = [NoCall EXCEPT !.op = "init", !.start = start]]
  /\ inits' = inits + 1
  /\ UNCHANGED <<memVars, tableVars, db, tls, epoch, inited, crashed, spoiled>>

\* mrapi_initialize, under the lock of MRAPI, refuses a number that is in use.
\* A thread that was a node before, in a process that has one, is taken for
\* initialized: that is accepted, and MRAPI does not log it again.
MrapiInitialize(t) ==
  LET again == t \in met /\ \E u \in mrapi : Proc[u] = Proc[t] IN
  /\ pc[t] = "mrapi"
  /\ IF ~again /\ \E u \in mrapi : Num[u] = Num[t]
       THEN Return(t) /\ UNCHANGED <<mrapi, met>>
       ELSE /\ Goto(t, "mrapi", "find") /\ met' = met \cup {t}
            /\ mrapi' = IF again THEN mrapi ELSE mrapi \cup {t}
            /\ UNCHANGED call
  /\ UNCHANGED <<mem, gone, users, refs, tableVars, db, known, place, histVars>>

\* transport_sm_get_shared_mem: the checks; a node that is attached already,
\* because an initialize of it failed, is refused.
Find(t) ==
  /\ Goto(t, "find", IF mem # NoMem /\ mem \notin gone /\ t \notin users THEN "attach" ELSE "create")
  /\ UNCHANGED <<memVars, tableVars, db, tls, call, histVars>>

\* mrapi_impl_shmem_attach; an entry deleted since has the id 0
Attach(t, from, to) ==
  /\ IF mem = NoMem
       THEN Goto(t, from, "abort") /\ UNCHANGED <<users, refs, call>>
       ELSE /\ Goto(t, from, to)
            /\ users' = users \cup {t} /\ refs' = refs + 1
            /\ call' = [call EXCEPT ![t].mem = mem]
  /\ UNCHANGED <<mem, gone, mrapi, tableVars, db, tls, histVars>>

AttachFound(t) == Attach(t, "attach", "point")

\* the exchange of mcapi_db
Point(t) ==
  /\ Goto(t, "point", "domain")
  /\ db' = [db EXCEPT ![Proc[t]] = call[t].mem]
  /\ UNCHANGED <<memVars, tableVars, tls, call, histVars>>

\* transport_sm_create_shared_mem; one that exists by now fails the call
Create(t) ==
  /\ pc[t] = "create"
  /\ IF mem # NoMem
       THEN Return(t) /\ UNCHANGED <<mem, refs>>
       ELSE /\ Goto(t, "create", "join") /\ UNCHANGED call
            /\ mem' = Cardinality(gone) + 1 /\ refs' = 0
  /\ UNCHANGED <<gone, users, mrapi, tableVars, db, tls, histVars>>

\* A thread that an earlier, refused initialize left attached to the entry is
\* refused again; the new memory stays.
AttachCreated(t) ==
  \/ t \notin users /\ Attach(t, "join", "place")
  \/ /\ pc[t] = "join" /\ t \in users /\ Refuse(t)
     /\ UNCHANGED <<memVars, tableVars, db, tls, epoch, inits, inited, crashed>>

\* The compare-and-swap of mcapi_db from null. (When it fails, mrapi_shmem_detach
\* is given the key for a handle, and refuses it.)
Place(t) ==
  /\ Goto(t, "place", "wipe")
  /\ db' = [db EXCEPT ![Proc[t]] = IF @ = NoMem THEN call[t].mem ELSE @]
  /\ UNCHANGED <<memVars, tableVars, tls, call, histVars>>

\* The words of one domain after the other are set to zero.
Wipe(t) ==
  LET d == call[t].d IN
  Through(t, "wipe",
    /\ dom' = [dom EXCEPT ![Mine(t)][d] = FALSE]
    /\ node' = [node EXCEPT ![Mine(t)] = [x \in Domains \X Slots |-> IF x[1] = d THEN NoWord ELSE @[x]]]
    /\ IF d + 1 \in Domains
         THEN pc' = pc /\ call' = [call EXCEPT ![t].d = d + 1]
         ELSE Goto(t, "wipe", "domain") /\ call' = [call EXCEPT ![t].d = 0]
    /\ UNCHANGED <<memVars, owner, count, db, tls, histVars>>)

\* Does the domain exist?
DomainFind(t) ==
  LET found == {d \in Domains : dom[Mine(t)][d]} IN
  Through(t, "domain",
    /\ IF found = {} THEN Goto(t, "domain", "dclaim") /\ UNCHANGED call
       ELSE /\ Goto(t, "domain", "scan")
            /\ call' = [call EXCEPT ![t].d = CHOOSE d \in found : \A e \in found : d <= e]
    /\ UNCHANGED <<memVars, tableVars, db, tls, histVars>>)

\* If not, the first entry that a compare-and-swap gets.
DomainClaim(t) ==
  LET d == call[t].d IN
  Through(t, "dclaim",
    /\ IF ~dom[Mine(t)][d]
         THEN /\ dom' = [dom EXCEPT ![Mine(t)][d] = TRUE]
              /\ Goto(t, "dclaim", "scan") /\ UNCHANGED <<call, spoiled>>
         ELSE /\ IF d + 1 \in Domains
                 THEN pc' = pc /\ call' = [call EXCEPT ![t].d = d + 1] /\ UNCHANGED spoiled
                 ELSE Refuse(t)
              /\ UNCHANGED dom
    /\ UNCHANGED <<memVars, node, owner, count, db, tls, epoch, inits, inited, crashed>>)

At(t) == <<call[t].d, call[t].n>>
Word(t) == node[Mine(t)][At(t)]

\* Is there a node with this number?
Scan(t) ==
  Through(t, "scan",
    /\ IF Word(t).alloc /\ Word(t).num = Num[t] THEN Refuse(t)
       ELSE /\ IF call[t].n + 1 \in Slots
               THEN pc' = pc /\ call' = [call EXCEPT ![t].n = @ + 1]
               ELSE Goto(t, "scan", "read") /\ call' = [call EXCEPT ![t].n = 0]
            /\ UNCHANGED spoiled
    /\ UNCHANGED <<memVars, tableVars, db, tls, epoch, inits, inited, crashed>>)

SlotRead(t) ==
  Through(t, "read",
    /\ Goto(t, "read", "claim")
    /\ call' = [call EXCEPT ![t].old = Word(t)]
    /\ UNCHANGED <<memVars, tableVars, db, tls, histVars>>)

\* (mutant: the slot is taken without looking whether it is still free)
SlotClaimBlind(t) ==
  Through(t, "claim",
    /\ IF ~call[t].old.alloc
         THEN /\ node' = [node EXCEPT ![Mine(t)][At(t)] =
                            [call[t].old EXCEPT !.num = Num[t], !.alloc = TRUE]]
              /\ Goto(t, "claim", "own") /\ UNCHANGED <<call, spoiled>>
         ELSE /\ IF call[t].n + 1 \in Slots
                 THEN /\ Goto(t, "claim", "read") /\ UNCHANGED spoiled
                      /\ call' = [call EXCEPT ![t].n = @ + 1]
                 ELSE Refuse(t)
              /\ UNCHANGED node
    /\ UNCHANGED <<memVars, dom, owner, count, db, tls, epoch, inits, inited, crashed>>)

\* (mutant: the last slot is not tried)
SlotClaimShort(t) ==
  Through(t, "claim",
    /\ IF Word(t) = [call[t].old EXCEPT !.alloc = FALSE]
         THEN /\ node' = [node EXCEPT ![Mine(t)][At(t)] =
                            [call[t].old EXCEPT !.num = Num[t], !.alloc = TRUE]]
              /\ Goto(t, "claim", "own") /\ UNCHANGED <<call, spoiled>>
         ELSE /\ IF call[t].n + 2 \in Slots
                 THEN /\ Goto(t, "claim", "read") /\ UNCHANGED spoiled
                      /\ call' = [call EXCEPT ![t].n = @ + 1]
                 ELSE Refuse(t)
              /\ UNCHANGED node
    /\ UNCHANGED <<memVars, dom, owner, count, db, tls, epoch, inits, inited, crashed>>)

\* the compare-and-swap that takes the slot if it is as it was read and free
SlotClaim(t) ==
  Through(t, "claim",
    /\ IF Word(t) = [call[t].old EXCEPT !.alloc = FALSE]
         THEN /\ node' = [node EXCEPT ![Mine(t)][At(t)] =
                            [call[t].old EXCEPT !.num = Num[t], !.alloc = TRUE]]
              /\ Goto(t, "claim", "own") /\ UNCHANGED <<call, spoiled>>
         ELSE /\ IF call[t].n + 1 \in Slots
                 THEN /\ Goto(t, "claim", "read") /\ UNCHANGED spoiled
                      /\ call' = [call EXCEPT ![t].n = @ + 1]
                 ELSE Refuse(t)
              /\ UNCHANGED node
    /\ UNCHANGED <<memVars, dom, owner, count, db, tls, epoch, inits, inited, crashed>>)

\* The slot gets its owner and the thread its identity.
Own(t) ==
  Through(t, "own",
    /\ Goto(t, "own", "copy")
    /\ owner' = [owner EXCEPT ![Mine(t)][At(t)] = Pid(t)]
    /\ known' = known \cup {t} /\ place' = [place EXCEPT ![t] = At(t)]
    /\ call' = [call EXCEPT ![t].step = "invalid"]
    /\ UNCHANGED <<memVars, dom, node, count, db, met, histVars>>)

\* mrapi_atomic_inc of num_nodes
Count(t) ==
  Through(t, "count",
    /\ Goto(t, "count", "copy")
    /\ count' = [count EXCEPT ![Mine(t)][call[t].d] = @ + 1]
    /\ call' = [call EXCEPT ![t].step = "run"]
    /\ UNCHANGED <<memVars, dom, node, owner, db, tls, histVars>>)

-----------------------------------------------------------------------------
(* The changes of the thread's own word: it is copied, the copy changed and *)
(* exchanged, by a read and one compare-and-swap whose failure is ignored.  *)

Changed(step, w) ==
  CASE step = "invalid" -> [w EXCEPT !.valid = FALSE]
    [] step = "run"     -> [w EXCEPT !.rundown = FALSE]
    [] step = "start"   -> [w EXCEPT !.valid = TRUE]      \* mcapi_trans_start
    [] step = "free"    -> [w EXCEPT !.num = 0, !.alloc = FALSE, !.valid = FALSE]
    [] step = "rundown" -> [w EXCEPT !.rundown = TRUE]    \* mcapi_trans_rundown
    [] step = "signal"  -> [w EXCEPT !.valid = FALSE]

Copy(t) ==
  Through(t, "copy",
    /\ Goto(t, "copy", "xread")
    /\ call' = [call EXCEPT ![t].new = Changed(call[t].step, Word(t))]
    /\ UNCHANGED <<memVars, tableVars, db, tls, histVars>>)

ExchangeRead(t) ==
  Through(t, "xread",
    /\ Goto(t, "xread", "xswap")
    /\ call' = [call EXCEPT ![t].old = Word(t)]
    /\ UNCHANGED <<memVars, tableVars, db, tls, histVars>>)

\* What follows: num_nodes, or the next change, or the rest of the call.
After(t) ==
  CASE call[t].step = "invalid" -> "count"
    [] call[t].step = "run"     -> IF call[t].start THEN "start" ELSE "done"
    [] call[t].step = "start"   -> "done"
    [] call[t].step = "free"    -> "uncount"
    [] call[t].step = "rundown" -> "detach"
    [] call[t].step = "signal"  -> "others"

Exchange(t) ==
  Through(t, "xswap",
    /\ Goto(t, "xswap", After(t))
    /\ node' = IF Word(t) = call[t].old THEN [node EXCEPT ![Mine(t)][At(t)] = call[t].new] ELSE node
    /\ UNCHANGED <<memVars, dom, owner, count, db, tls, call, histVars>>)

StartNow(t) ==
  /\ Goto(t, "start", "copy")
  /\ call' = [call EXCEPT ![t].step = "start"]
  /\ UNCHANGED <<memVars, tableVars, db, tls, histVars>>

\* The call ends with success.
Done(t) ==
  /\ pc[t] = "done" /\ Return(t)
  /\ inited' = inited \cup {t}
  /\ UNCHANGED <<memVars, tableVars, db, tls, epoch, inits, crashed, spoiled>>

\* mcapi_node_start; a second one changes nothing
CallStart(t) ==
  /\ Goto(t, "idle", "start") /\ t \in inited
  /\ Mine(t) # NoMem => ~node[Mine(t)][place[t]].valid
  /\ "final" \in Overlap \/ Leaving = {}
  /\ call' = [call EXCEPT ![t] = [NoCall EXCEPT !.op = "start", !.d = place[t][1], !.n = place[t][2]]]
  /\ UNCHANGED <<memVars, tableVars, db, tls, histVars>>

-----------------------------------------------------------------------------
(* mcapi_finalize                                                          *)

CallFinalize(t) ==
  /\ Goto(t, "idle", "copy") /\ t \in inited
  /\ "final" \in Overlap \/ Initializing = {}
  /\ "finals" \in Overlap \/ ~\E u \in Leaving : Proc[u] = Proc[t]
  /\ call' = [call EXCEPT ![t] = [NoCall EXCEPT !.op = "final", !.step = "free",
                                    !.d = place[t][1], !.n = place[t][2]]]
  /\ inited' = inited \ {t}
  /\ UNCHANGED <<memVars, tableVars, db, tls, epoch, inits, crashed, spoiled>>

\* (mutant: num_nodes is not counted down)
UncountNot(t) ==
  Through(t, "uncount",
    /\ Goto(t, "uncount", "any")
    /\ call' = [call EXCEPT ![t] = [@ EXCEPT !.d = 0, !.n = 0]]
    /\ UNCHANGED <<memVars, tableVars, db, tls, histVars>>)

Uncount(t) ==
  Through(t, "uncount",
    /\ Goto(t, "uncount", "any")
    /\ count' = [count EXCEPT ![Mine(t)][call[t].d] = @ - 1]
    /\ call' = [call EXCEPT ![t] = [@ EXCEPT !.d = 0, !.n = 0]]
    /\ UNCHANGED <<memVars, dom, node, owner, db, tls, histVars>>)

\* The next slot of all domains, or none.
NextSlot(t) ==
  IF call[t].n + 1 \in Slots THEN <<call[t].d, call[t].n + 1>> ELSE <<call[t].d + 1, 0>>

\* (mutant: only the nodes of other processes are looked at)
AnyOtherProcess(t) ==
  LET here == Word(t).alloc
      mine == owner[Mine(t)][At(t)] = Pid(t)
      next == NextSlot(t)
      more == next[1] \in Domains
      to   == IF more THEN next ELSE place[t]
  IN
  Through(t, "any",
    /\ Goto(t, "any", IF more THEN "any" ELSE "copy")
    /\ call' = [call EXCEPT ![t] = [call[t] EXCEPT !.last = @ /\ ~(here /\ ~mine),
                                                   !.lastp = @ /\ ~(here /\ mine), !.d = to[1],
                                                   !.n = to[2], !.step = "rundown"]]
    /\ UNCHANGED <<memVars, tableVars, db, tls, histVars>>)

\* The loop over all the slots: is any node left, and any of this process?
Any(t) ==
  LET here == Word(t).alloc
      mine == owner[Mine(t)][At(t)] = Pid(t)
      next == NextSlot(t)
      more == next[1] \in Domains
      to   == IF more THEN next ELSE place[t]
  IN
  Through(t, "any",
    /\ Goto(t, "any", IF more THEN "any" ELSE "copy")
    /\ call' = [call EXCEPT ![t] = [call[t] EXCEPT !.last = @ /\ ~here,
                                                   !.lastp = @ /\ ~(here /\ mine), !.d = to[1],
                                                   !.n = to[2], !.step = "rundown"]]
    /\ UNCHANGED <<memVars, tableVars, db, tls, histVars>>)

\* mrapi_shmem_detach
Detach(t) ==
  /\ Goto(t, "detach", IF call[t].op = "signal" THEN "raise" ELSE "delete")
  /\ IF mem # NoMem /\ t \in users
       THEN users' = users \ {t} /\ refs' = refs - 1
       ELSE UNCHANGED <<users, refs>>
  /\ UNCHANGED <<mem, gone, mrapi, tableVars, db, tls, call, histVars>>

\* (mutant: the memory is deleted only when nobody is counted as a user)
DeleteUnused(t) ==
  /\ Goto(t, "delete", "leave")
  /\ IF call[t].last /\ refs = 0 /\ mem \notin gone \cup {NoMem}
       THEN mem' = NoMem /\ gone' = gone \cup {mem}
       ELSE UNCHANGED <<mem, gone>>
  /\ UNCHANGED <<users, refs, mrapi, tableVars, db, tls, call, histVars>>

\* mrapi_shmem_delete, by the last node; nobody counts the references
Delete(t) ==
  /\ Goto(t, "delete", "leave")
  /\ IF call[t].last /\ mem \notin gone \cup {NoMem}
       THEN mem' = NoMem /\ gone' = gone \cup {mem}
       ELSE UNCHANGED <<mem, gone>>
  /\ UNCHANGED <<users, refs, mrapi, tableVars, db, tls, call, histVars>>

\* What mrapi_impl_finalize_node_locked does for the nodes in S: it forgets
\* what they used without counting the references down, and a memory without
\* references is removed although its entry stays.
MrapiFinalize(S) ==
  /\ mrapi' = mrapi \ S /\ users' = users \ S
  /\ gone' = IF mem # NoMem /\ refs = 0 THEN gone \cup {mem} ELSE gone
  /\ UNCHANGED <<mem, refs>>

Leave(t) ==
  /\ Goto(t, "leave", "unpoint") /\ MrapiFinalize({t})
  /\ UNCHANGED <<tableVars, db, tls, call, histVars>>

\* (mutant: mcapi_db is cleared by every node)
UnpointAlways(t) ==
  /\ pc[t] = "unpoint" /\ Return(t)
  /\ db' = [db EXCEPT ![Proc[t]] = NoMem]
  /\ UNCHANGED <<memVars, tableVars, tls, histVars>>

\* The last node of the process clears mcapi_db; mcapi_pid stays.
Unpoint(t) ==
  /\ pc[t] = "unpoint" /\ Return(t)
  /\ db' = IF call[t].lastp THEN [db EXCEPT ![Proc[t]] = NoMem] ELSE db
  /\ UNCHANGED <<memVars, tableVars, tls, histVars>>

-----------------------------------------------------------------------------
(* mcapi_trans_signal_handler, in a thread that is a node.                  *)

CallSignal(t) ==
  /\ Goto(t, "idle", "copy") /\ t \in inited
  /\ Cardinality(crashed) < MaxCrashes /\ Proc[t] \notin crashed
  /\ ~\E u \in Leaving : call[u].op = "signal"
  /\ "final" \in Overlap \/ Initializing = {}
  /\ call' = [call EXCEPT ![t] = [NoCall EXCEPT !.op = "signal", !.step = "signal",
                                    !.d = place[t][1], !.n = place[t][2]]]
  /\ UNCHANGED <<memVars, tableVars, db, tls, histVars>>

\* The other nodes of the process are marked invalid, one compare-and-swap
\* each. The one for its own node fails, so that it never is the last.
Others(t) ==
  Through(t, "others",
    /\ Goto(t, "others", "detach")
    /\ node' = [node EXCEPT ![Mine(t)] =
                  [x \in Domains \X Slots |-> IF owner[Mine(t)][x] = Pid(t)
                                              THEN [@[x] EXCEPT !.valid = FALSE] ELSE @[x]]]
    /\ UNCHANGED <<memVars, dom, owner, count, db, tls, call, histVars>>)

\* The signal is raised again: MRAPI forgets the nodes of the process, and it
\* ends.
Raise(t) ==
  LET dead == {u \in Threads : Proc[u] = Proc[t]} IN
  /\ pc[t] = "raise" /\ MrapiFinalize(dead)
  /\ pc' = [u \in Threads |-> IF u \in dead THEN "dead" ELSE pc[u]]
  /\ call' = [u \in Threads |-> IF u \in dead THEN NoCall ELSE call[u]]
  /\ known' = known \ dead /\ met' = met \ dead
  /\ db' = [db EXCEPT ![Proc[t]] = NoMem]
  /\ inited' = inited \ dead /\ crashed' = crashed \cup {Proc[t]}
  /\ spoiled' = spoiled \ {Proc[t]}
  /\ UNCHANGED <<tableVars, place, epoch, inits>>

\* The process is started again.
Restart(t) ==
  /\ Goto(t, "dead", "idle")
  /\ epoch' = [epoch EXCEPT ![Proc[t]] = 1]
  /\ UNCHANGED <<memVars, tableVars, db, tls, call, inits, inited, crashed, spoiled>>

-----------------------------------------------------------------------------
InitStep(t) ==
  \/ MrapiInitialize(t) \/ Find(t) \/ AttachFound(t) \/ Point(t)
  \/ Create(t) \/ AttachCreated(t) \/ Place(t) \/ Wipe(t)
  \/ DomainFind(t) \/ DomainClaim(t) \/ Scan(t) \/ SlotRead(t) \/ SlotClaim(t)
  \/ Own(t) \/ Count(t) \/ StartNow(t) \/ Done(t)
WordStep(t) == Copy(t) \/ ExchangeRead(t) \/ Exchange(t)
FinalStep(t) == Uncount(t) \/ Any(t) \/ Detach(t) \/ Delete(t) \/ Leave(t) \/ Unpoint(t)
SignalStep(t) == Others(t) \/ Raise(t)

Next ==
  \E t \in Threads :
    \/ \E start \in BOOLEAN : CallInitialize(t, start)
    \/ CallStart(t) \/ CallFinalize(t) \/ CallSignal(t) \/ Restart(t)
    \/ InitStep(t) \/ WordStep(t) \/ FinalStep(t) \/ SignalStep(t)

Spec == Init /\ [][Next]_vars

-----------------------------------------------------------------------------
(* Properties.                                                             *)

\* Every variable keeps its range.
TypeOK ==
  /\ mem \in Mems \cup {NoMem} /\ gone \subseteq Mems
  /\ users \subseteq Threads /\ mrapi \subseteq Threads /\ refs \in Nat
  /\ \A m \in Mems : \A x \in Domains \X Slots : node[m][x].num \in Nat
  /\ \A m \in Mems : \A d \in Domains : count[m][d] \in Nat
  /\ \A p \in Procs : db[p] \in Mems \cup {NoMem}
  /\ inited \subseteq Threads

\* No step goes through a pointer that is null, and none attaches an entry
\* that is deleted; nor does a count or a pointer leave its range.
NoFault == TypeOK /\ \A t \in Threads : pc[t] # "abort"

\* A node that is initialized, and is not in a call.
Settled == {t \in inited : pc[t] = "idle"}

\* A node that is initialized has a slot of its own, allocated, with its number
\* and not run down, whatever nodes come and go, and whatever processes end.
NodeHasItsSlot ==
  \A t \in Settled :
    /\ Mine(t) # NoMem
    /\ LET w == node[Mine(t)][place[t]] IN w.alloc /\ w.num = Num[t] /\ ~w.rundown
    /\ \A u \in Settled \ {t} : Mine(u) = Mine(t) => place[u] # place[t]

\* All nodes use the same shared memory, the one that a new node would find,
\* and it is not removed, unless the pointer of their process was set by an
\* initialize that was refused then: it stays, and the next one keeps it.
SameDatabase ==
  \A t \in Settled : Proc[t] \notin spoiled => Mine(t) = mem /\ mem \notin gone

Quiet == \A t \in Threads : pc[t] \in {"idle", "dead"}

\* Between calls, the slots that are allocated are those of the nodes and of
\* the processes that a signal ended: a call that was refused leaves none.
\* Until a process ends so, num_nodes counts them.
SlotsAccounted ==
  Quiet /\ mem # NoMem =>
    \A d \in Domains :
      LET taken == {x \in {d} \X Slots : node[mem][x].alloc} IN
      /\ \A x \in taken : (\E t \in inited : place[t] = x) \/ owner[mem][x][1] \in crashed
      /\ crashed = {} => count[mem][d] = Cardinality(taken)

\* When the last node has finalized, the shared memory is removed, however many
\* finalize at once and whatever references are left. A process that a signal
\* ended leaves it behind; so does an initialize that creates it and is refused
\* before anybody is attached.
FreedByLast ==
  Quiet /\ inited = {} /\ crashed = {} => mem \in gone \cup {NoMem} \/ refs = 0

\* And so is its entry, so that the next node creates another.
EntryFreedByLast ==
  Quiet /\ inited = {} /\ crashed = {} /\ spoiled = {} => mem = NoMem

\* The initialize of t is refused.
Refused(t) == call[t].op = "init" /\ pc'[t] = "idle" /\ t \notin inited'

\* The initialize of a node is refused only when its number is in use, in
\* MRAPI or in the table, when all the slots are, when an earlier one was
\* refused and left the thread attached, or when the memory is removed and its
\* entry is left.
RefusedForReason ==
  [][\A t \in Threads : Refused(t) =>
       \/ \E u \in mrapi \ {t} : Num[u] = Num[t]
       \/ pc[t] \in {"create", "join"} /\ (t \in users \/ mem \in gone)
       \/ /\ Mine(t) # NoMem
          /\ LET taken == {x \in Domains \X Slots : node[Mine(t)][x].alloc} IN
             \/ \E x \in taken : node[Mine(t)][x].num = Num[t]
             \/ \A x \in Slots : <<call[t].d, x>> \in taken]_vars

\* A thread that has finalized may initialize again.
InitAgain ==
  \A t \in Threads : pc[t] = "idle" /\ t \notin inited => ~(Mine(t) # NoMem /\ t \in known)

\* The slots of a process that has ended are free for the nodes that come.
NothingLeft ==
  Quiet /\ mem # NoMem =>
    \A x \in Domains \X Slots : node[mem][x].alloc => \E t \in inited : place[t] = x
=============================================================================
