----------------------------- MODULE RequestPool -----------------------------
(***************************************************************************)
(* The pool of asynchronous requests of a process (mcapi_rq): the bit set  *)
(* from which mcapi_trans_reserve_request draws an index at random, the    *)
(* counter of requests in use, and the state of each request, which the    *)
(* threads of the process share without a lock.                            *)
(*                                                                         *)
(* One action is one access to the shared pool.  The check that a whole    *)
(* word of the bit set is full is left out: it sends the loop round just   *)
(* as finding the one bit set does.                                        *)
(***************************************************************************)
EXTENDS Integers, FiniteSets

CONSTANTS
  Threads,     \* the threads of the process
  Requests,    \* request indices, MCAPI_MAX_REQUESTS of them
  MaxOwned     \* bound: requests a thread has outstanding

ASSUME PoolAssumption ==
  /\ IsFiniteSet(Requests)
  /\ MaxOwned \in Nat \ {0}

VARIABLES
  set,         \* header.set: indices that are reserved
  curr_count,  \* header.curr_count
  state,       \* data[r].state
  owned,       \* requests whose handle a thread's application has
  pc, r,       \* where a thread is, and the index it works on
  limited      \* history: the last reserve of a thread returned FALSE, while
               \* not all requests were in use

vars == <<set, curr_count, state, owned, pc, r, limited>>

max_count == Cardinality(Requests)

Goto(t, from, to) == pc[t] = from /\ pc' = [pc EXCEPT ![t] = to]

-----------------------------------------------------------------------------
(* mcapi_trans_reserve_request                                             *)

Reserve(t) ==
  /\ Cardinality(owned[t]) < MaxOwned
  /\ Goto(t, "idle", "get")
  /\ limited' = [limited EXCEPT ![t] = FALSE]
  /\ UNCHANGED <<set, curr_count, state, owned, r>>

\* thread t has the use of request x: from the swap that makes the request
\* valid to the one that makes it free
Holds(t, x) == x \in owned[t] \/ (r[t] = x /\ pc[t] \in {"count", "clear", "dec", "free"})

InUse(x) == \E t \in Threads : Holds(t, x)

\* (mutant: the limit is not looked at)
GetIndexNoLimit(t) ==
  /\ Goto(t, "get", "set")
  /\ UNCHANGED <<set, curr_count, state, owned, r, limited>>

\* mcapi_trans_request_get_index: "(uint16_t)-1 if none available", by the counter
GetIndex(t) ==
  LET full == curr_count >= max_count
  IN  /\ Goto(t, "get", IF full THEN "idle" ELSE "set")
      /\ limited' = [limited EXCEPT ![t] = full /\ \E x \in Requests : ~InUse(x)]
      /\ UNCHANGED <<set, curr_count, state, owned, r>>

\* a random index; its bit is tested and set at once
SetBit(t, x) ==
  /\ Goto(t, "set", IF x \in set THEN "get" ELSE "claim")
  /\ set' = set \cup {x}
  /\ r' = IF x \in set THEN r ELSE [r EXCEPT ![t] = x]
  /\ UNCHANGED <<curr_count, state, owned, limited>>

\* (mutant: the state is stored without looking at it)
ClaimPlain(t) ==
  /\ Goto(t, "claim", "count")
  /\ state' = [state EXCEPT ![r[t]] = "VALID"]
  /\ UNCHANGED <<set, curr_count, owned, r, limited>>

\* (mutant: the counter is incremented though the request is not taken)
ClaimCounts(t) ==
  LET free == state[r[t]] = "FREE"
  IN  /\ Goto(t, "claim", IF free THEN "count" ELSE "get")
      /\ state' = IF free THEN [state EXCEPT ![r[t]] = "VALID"] ELSE state
      /\ curr_count' = IF free THEN curr_count ELSE curr_count + 1
      /\ UNCHANGED <<set, owned, r, limited>>

\* compare-and-swap REQUEST_FREE -> REQUEST_VALID; on failure another index is
\* drawn, and the bit of this one stays set
Claim(t) ==
  LET free == state[r[t]] = "FREE"
  IN  /\ Goto(t, "claim", IF free THEN "count" ELSE "get")
      /\ state' = IF free THEN [state EXCEPT ![r[t]] = "VALID"] ELSE state
      /\ UNCHANGED <<set, curr_count, owned, r, limited>>

Count(t) ==
  /\ Goto(t, "count", "idle")
  /\ curr_count' = curr_count + 1
  /\ owned' = [owned EXCEPT ![t] = @ \cup {r[t]}]
  /\ UNCHANGED <<set, state, r, limited>>

-----------------------------------------------------------------------------
(* The life of a request: it completes (setup_request with completed, or   *)
(* one of the check_ routines) or is cancelled, both by a compare-and-swap *)
(* from REQUEST_VALID, and mcapi_trans_test_i then removes it.             *)

Complete(t, x) ==
  /\ pc[t] = "idle" /\ x \in owned[t] /\ state[x] = "VALID"
  /\ state' = [state EXCEPT ![x] = "COMPLETED"]
  /\ UNCHANGED <<set, curr_count, owned, pc, r, limited>>

Cancel(t, x) ==
  /\ pc[t] = "idle" /\ x \in owned[t] /\ state[x] = "VALID"
  /\ state' = [state EXCEPT ![x] = "CANCELLED"]
  /\ UNCHANGED <<set, curr_count, owned, pc, r, limited>>

Test(t, x) ==
  /\ x \in owned[t] /\ state[x] \in {"COMPLETED", "CANCELLED"}
  /\ Goto(t, "idle", "clear")
  /\ r' = [r EXCEPT ![t] = x]
  /\ owned' = [owned EXCEPT ![t] = @ \ {x}]
  /\ UNCHANGED <<set, curr_count, state, limited>>

\* mcapi_trans_remove_request: the bit is cleared first ...
ReleaseIndex(t) ==
  /\ Goto(t, "clear", IF r[t] \in set THEN "dec" ELSE "free")
  /\ set' = set \ {r[t]}
  /\ UNCHANGED <<curr_count, state, owned, r, limited>>

Uncount(t) ==
  /\ Goto(t, "dec", "free")
  /\ curr_count' = curr_count - 1
  /\ UNCHANGED <<set, state, owned, r, limited>>

\* ... and the state last; it must be REQUEST_COMPLETED or REQUEST_CANCELLED
MarkFree(t) ==
  LET ended == state[r[t]] \in {"COMPLETED", "CANCELLED"}
  IN  /\ Goto(t, "free", IF ended THEN "idle" ELSE "abort")
      /\ state' = IF ended THEN [state EXCEPT ![r[t]] = "FREE"] ELSE state
      /\ UNCHANGED <<set, curr_count, owned, r, limited>>

-----------------------------------------------------------------------------
\* mcapi_trans_init_indexed_array: the first thread to come resets the pool
Init ==
  /\ set = {} /\ curr_count = 0
  /\ state = [x \in Requests |-> "FREE"]
  /\ owned = [t \in Threads |-> {}]
  /\ pc = [t \in Threads |-> "idle"]
  /\ r \in [Threads -> Requests]
  /\ limited = [t \in Threads |-> FALSE]

\* the steps of a thread that is inside a call
CallStep(t) ==
  \/ GetIndex(t) \/ (\E x \in Requests : SetBit(t, x)) \/ Claim(t) \/ Count(t)
  \/ ReleaseIndex(t) \/ Uncount(t) \/ MarkFree(t)

Next ==
  \E t \in Threads :
    \/ Reserve(t) \/ CallStep(t)
    \/ \E x \in Requests : Complete(t, x) \/ Cancel(t, x) \/ Test(t, x)

Spec == Init /\ [][Next]_vars

\* A thread inside a call keeps running, and every index is drawn again and
\* again (sys_os_rand).
FairSpec ==
  /\ Spec
  /\ \A t \in Threads : WF_vars(CallStep(t))
  /\ \A t \in Threads, x \in Requests : SF_vars(SetBit(t, x))

-----------------------------------------------------------------------------
(* Properties.                                                             *)

\* Every variable keeps its range; the counter, an unsigned integer, is never
\* decremented below zero.
TypeOK ==
  /\ set \subseteq Requests
  /\ curr_count \in 0 .. Cardinality(Requests)
  /\ state \in [Requests -> {"FREE", "VALID", "COMPLETED", "CANCELLED"}]
  /\ owned \in [Threads -> SUBSET Requests]
  /\ pc \in [Threads -> {"idle", "get", "set", "claim", "count", "clear", "dec",
                         "free", "abort"}]
  /\ r \in [Threads -> Requests]
  /\ limited \in [Threads -> BOOLEAN]

\* No request is given to two threads, and none is free while a thread has
\* its handle: the next one to draw it would share it.
OwnedIsLive ==
  \A t \in Threads : \A x \in owned[t] :
    /\ state[x] # "FREE"
    /\ \A u \in Threads \ {t} : ~Holds(u, x)

\* The assert in mcapi_trans_remove_request never fails.
NoAssertFails == \A t \in Threads : pc[t] # "abort"

\* MCAPI_ERR_REQUEST_LIMIT is reported only when every request is in use.
LimitIsReal == \A t \in Threads : ~limited[t]

\* thread t answers for the bit of x: it set it, and has not cleared it nor
\* given x up
Guards(t, x) == x \in owned[t] \/ (r[t] = x /\ pc[t] \in {"claim", "count", "clear"})

\* requests that curr_count counts
Counted ==
  {x \in Requests : \E t \in Threads :
     x \in owned[t] \/ (r[t] = x /\ pc[t] \in {"clear", "dec"})}

\* of the threads that ever drew x, one at most may try to claim it
BitIsGuard ==
  /\ \A t \in Threads, x \in Requests : Guards(t, x) => x \in set
  /\ \A t, u \in Threads, x \in Requests : Guards(t, x) /\ Guards(u, x) => t = u

\* a request in use is not free, and is in use by one thread
StateIsGuard ==
  /\ \A t \in Threads, x \in Requests : Holds(t, x) => state[x] # "FREE"
  /\ \A t, u \in Threads, x \in Requests : Holds(t, x) /\ Holds(u, x) => t = u

\* the request a thread works on is not among those its application has, and
\* one being removed has ended
CallsAgree ==
  \A t \in Threads :
    /\ pc[t] \in {"claim", "count", "clear", "dec", "free"} => r[t] \notin owned[t]
    /\ pc[t] \in {"clear", "dec", "free"} => state[r[t]] \in {"COMPLETED", "CANCELLED"}

CounterExact == curr_count = Cardinality(Counted)

\* Why the pool is safe without a lock.  The bit lets one thread at a time try
\* to claim a request, but it is cleared too early to protect the request until
\* it is removed; the state, which is not free before the last step of the
\* removal, does that.  The counter counts exactly the requests between its
\* increment and its decrement.
BitAndStateGuard == BitIsGuard /\ StateIsGuard /\ CallsAgree /\ CounterExact

\* mcapi_trans_request_get_index returns an index, "or (uint16_t)-1 if none
\* available": a reserve does not search for ever.
ReserveReturns ==
  \A t \in Threads : (pc[t] \in {"get", "set", "claim", "count"}) ~> (pc[t] = "idle")

\* bits that are set though no thread answers for them: a claim failed
Lost == {x \in set : \A t \in Threads : ~Guards(t, x)}

\* The pool is lock-free as long as no bit is lost: a thread that searches for
\* ever does so because others get a request again and again.
LockFreeUnlessLost ==
  \A t \in Threads :
    <>[](pc[t] \in {"get", "set", "claim", "count"})
      => \/ <>(Lost # {})
         \/ []<>(\E u \in Threads \ {t} : pc[u] = "count")
=============================================================================
