--------------------------- MODULE MrapiLocksProofs ---------------------------
(***************************************************************************)
(* The locks of MRAPI, for any number of nodes, entries and shared locks.  *)
(* Four arguments, each on top of the one before:                          *)
(*   - a call that works on an entry holds one of its guards, so that where *)
(*     all calls take the same kind of guard no two work on it at once;    *)
(*   - where an entry is created once, a call works on the entries its node *)
(*     has handles for, and is granted what it asked for;                  *)
(*   - then each place of a call says how far the count of the entry, the  *)
(*     locks that are locked and those granted are apart, and where nobody  *)
(*     works on an entry they agree;                                       *)
(*   - and the locks the table gives to a node are those it was told of.    *)
(* The last two are for calls that begin after the creation of their lock  *)
(* has returned (~Early); the creation goes on access by access meanwhile. *)
(* A step touches the entries its call works on and no others (EntryFrame): *)
(* the rest of each argument is about one call at a time.                  *)
(***************************************************************************)
EXTENDS MrapiLocks, FiniteSetTheorems, TLAPS

Kinds == {"sem", "spin"}

\* The sections under a guard, the places where a call on one lock, or on
\* several, waits for it, and those of a creator that writes an entry.
Sections == {"lock", "scan", "take", "granted", "failed", "unlock", "post", "clear",
             "released", "mlock", "munlock", "delete", "refused", "revert"}
WaitsOne == {"writer", "probe", "enter", "again"}
WaitsMultiple == {"entermultiple", "againmultiple"}
Setups == {"log", "valid", "limit", "make", "fill", "hold", "count"}
PCs == Sections \cup WaitsOne \cup WaitsMultiple \cup Setups \cup {"idle", "create", "abort"}

\* The names of the local variables of a call.
Locals == {"op", "s", "n", "timeout", "time", "guard", "l", "done", "tmp", "key", "type",
           "wait"}

\* The types, as far as the guards depend on them.
TypeInv ==
  /\ guard \in [Sems -> [Kinds -> Nodes \cup {NoNode}]]
  /\ pc \in [Nodes -> PCs]
  /\ DOMAIN call = Nodes
  /\ \A t \in Nodes :
       DOMAIN call[t] = Locals /\ call[t].s \in Sems /\ call[t].guard \in Kinds

\* A call that is to take the guard of one lock is one on one lock, and enters a
\* section; one that is to take all the guards is one on several.
CallsAgree ==
  \A t \in Nodes :
    /\ pc[t] \in WaitsOne \cup {"mlock", "munlock"} => call[t].wait = "one"
    /\ pc[t] \in WaitsMultiple => call[t].wait # "one"
    /\ pc[t] \in {"writer", "probe", "enter"} =>
         call[t].op \in {"lock", "unlock", "post", "mlock", "munlock", "delete"}

\* Whoever works on an entry holds the guard that it chose.
GuardHeld ==
  \A t \in Nodes, s \in Sems :
    In(t, s) => guard[s][call[t].guard] = t /\ call[t].guard \in Guards

\* A call that waits to enter has chosen its guard.
GuardChosen ==
  \A t \in Nodes :
    pc[t] \in {"enter", "again", "againmultiple"} => call[t].guard \in Guards

\* All calls take the same kind of guard.
OneGuard == \A g, h \in Guards : g = h

IInv == TypeInv /\ CallsAgree /\ GuardHeld /\ GuardChosen

-----------------------------------------------------------------------------
\* A call that has ended has forgotten everything.
LEMMA NoCallTyped ==
  DOMAIN NoCall = Locals /\ NoCall.s \in Sems /\ NoCall.guard \in Kinds
BY LocksAssumption DEF NoCall, Locals, Sems, Kinds

\* A call that leaves keeps the types of the guards.
LEMMA LeaveTyped ==
  ASSUME TypeInv, NEW t \in Nodes, Leave(t)
  PROVE  guard' \in [Sems -> [Kinds -> Nodes \cup {NoNode}]]
<1>1. /\ guard \in [Sems -> [Kinds -> Nodes \cup {NoNode}]] /\ call[t].guard \in Kinds
  BY DEF TypeInv
<1>2. \A s \in Sems : guard[s] \in [Kinds -> Nodes \cup {NoNode}]
                     /\ [guard[s] EXCEPT ![call[t].guard] = NoNode] \in [Kinds -> Nodes \cup {NoNode}]
  BY <1>1
<1> QED BY <1>2 DEF Leave

\* A creator that writes an entry goes from one place of its own to the next, and
\* moves its place in the loop and what it has read.
LEMMA CreatorEffect ==
  ASSUME TypeInv, NEW t \in Nodes, CreateSetup(t)
  PROVE  /\ pc[t] \in Setups /\ \E q \in Setups : pc' = [pc EXCEPT ![t] = q]
         /\ guard' = guard /\ global' = global /\ alive' = alive
         /\ keys' = keys /\ held' = held /\ out' = out /\ born' = born /\ known' = known
         /\ stray' = stray
         /\ DOMAIN call' = Nodes /\ \A u \in Nodes : u # t => call'[u] = call[u]
         /\ DOMAIN call'[t] = Locals
         /\ \A f \in Locals \ {"l", "tmp"} : call'[t][f] = call[t][f]
<1> USE DEF TypeInv, Setups, Locals, guardVars, nodeVars, histVars, Goto
<1>1. CASE CreateLog(t)
  BY <1>1 DEF CreateLog
<1>2. CASE CreateValid(t)
  BY <1>2 DEF CreateValid
<1>3. CASE CreateLimit(t)
  BY <1>3 DEF CreateLimit
<1>4. CASE CreateMake(t)
  BY <1>4 DEF CreateMake
<1>5. CASE CreateFill(t)
  BY <1>5 DEF CreateFill
<1>6. CASE CreateHold(t)
  BY <1>6 DEF CreateHold
<1>7. CASE CreateCount(t)
  BY <1>7 DEF CreateCount
<1> QED BY <1>1, <1>2, <1>3, <1>4, <1>5, <1>6, <1>7 DEF CreateSetup

\* Every step keeps the types of the guards and of the calls.
LEMMA TypeStep ==
  ASSUME TypeInv, CallsAgree, NEW t \in Nodes,
         Calling(t) \/ Inside(t) \/ Waiting(t) \/ Finalize(t) \/ Initialize(t)
  PROVE  TypeInv'
<1> USE LocksAssumption DEF TypeInv, CallsAgree, Locals, PCs, Sections, Setups,
      WaitsOne, WaitsMultiple, Kinds, Leave, End, guardVars, nodeVars, histVars, NoCall, Goto
<1>1. ASSUME NEW s \in Sems, NEW m \in Timeouts, CallLock(t, s, m)
      PROVE  TypeInv'
  BY <1>1 DEF CallLock, Call
<1>2. ASSUME NEW s \in Sems, NEW m \in Timeouts, CallMutexLock(t, s, m)
      PROVE  TypeInv'
  BY <1>2 DEF CallMutexLock, Call
<1>3. ASSUME NEW s \in Sems, NEW m \in Nat, NEW op \in {"lock", "unlock"}, CallWriter(t, s, op, m)
      PROVE  TypeInv'
  BY <1>3 DEF CallWriter, Call
<1>4. ASSUME NEW s \in Sems, NEW op \in {"unlock", "post"}, CallUnlock(t, s, op)
      PROVE  TypeInv'
  BY <1>4 DEF CallUnlock, Call
<1>5. ASSUME NEW s \in Sems, NEW key \in 0 .. MaxDepth, CallMutexUnlock(t, s, key)
      PROVE  TypeInv'
  BY <1>5 DEF CallMutexUnlock, Call
<1>6. ASSUME NEW s \in Sems, CallDelete(t, s)
      PROVE  TypeInv'
  BY <1>6 DEF CallDelete, Call
<1>7. ASSUME NEW w \in Waits, NEW m \in Timeouts, CallMultiple(t, w, m)
      PROVE  TypeInv'
  BY <1>7 DEF CallMultiple, Sems, Call
<1>8. ASSUME NEW key \in Keys, NEW type \in Types, NEW n \in 0 .. MaxShared - 1,
             CallCreate(t, key, type, n)
      PROVE  TypeInv'
  BY <1>8 DEF CallCreate, Sems, Keys
<1>9. ASSUME NEW key \in Keys, Get(t, key)
      PROVE  TypeInv'
  BY <1>9 DEF Get, Keys
<1>10. CASE Probe(t)
  BY <1>10 DEF Probe
<1>11. CASE Enter(t)
  BY <1>11 DEF Enter
<1>12. CASE EnterMultiple(t)
  BY <1>12 DEF EnterMultiple, Sems
<1>13. CASE Return(t)
  BY NoCallTyped, <1>13 DEF Return
<1>14. CASE WriterLimit(t)
  BY <1>14 DEF WriterLimit
<1>15. CASE LockTest(t)
  BY <1>15 DEF LockTest
<1>16. CASE LockScan(t)
  BY <1>16 DEF LockScan
<1>17. CASE LockTake(t)
  BY <1>17 DEF LockTake
<1>18. CASE LockReturn(t)
  BY NoCallTyped, <1>18 DEF LockReturn
<1>19. CASE Yield(t)
  BY <1>19 DEF Yield
<1>20. CASE Again(t)
  BY <1>20 DEF Again
<1>21. CASE AgainMultiple(t)
  BY <1>21 DEF AgainMultiple, Sems
<1>22. CASE NextSem(t)
  <2>1. guard' = guard /\ pc' = [pc EXCEPT ![t] = "lock"]
    BY <1>22 DEF NextSem
  <2>2. call' = [call EXCEPT ![t] = [call[t] EXCEPT !.s = @ + 1, !.time = IF @ = 0 THEN 0 ELSE @ - 1]]
    BY <1>22 DEF NextSem
  <2>3. /\ DOMAIN call' = Nodes /\ \A u \in Nodes : u # t => call'[u] = call[u]
        /\ DOMAIN call'[t] = Locals /\ call'[t].s = call[t].s + 1
        /\ call'[t].guard = call[t].guard
    BY <2>2 DEF Sems
  <2>4. call[t].s + 1 \in Sems
    BY <1>22 DEF NextSem, Sems
  <2>5. QED
    BY <2>1, <2>3, <2>4
<1>23. CASE Revert(t)
  BY <1>23 DEF Revert
<1>24. CASE UnlockTest(t)
  <2>1. guard' = guard
    BY <1>24 DEF UnlockTest
  <2>2. \E q \in {"clear", "refused"} : pc' = [pc EXCEPT ![t] = q]
    BY <1>24 DEF UnlockTest
  <2>3. \/ call' = [call EXCEPT ![t] = [@ EXCEPT !.l = 0, !.done = 0]]
        \/ call' = call
    BY <1>24 DEF UnlockTest
  <2>4. /\ DOMAIN call' = Nodes /\ \A u \in Nodes : u # t => call'[u] = call[u]
        /\ DOMAIN call'[t] = Locals /\ call'[t].s = call[t].s /\ call'[t].op = call[t].op
        /\ call'[t].guard = call[t].guard /\ call'[t].wait = call[t].wait
    <3>1. CASE call' = [call EXCEPT ![t] = [@ EXCEPT !.l = 0, !.done = 0]]
      BY <3>1
    <3> QED BY <2>3, <3>1
  <2>5. QED
    BY <2>1, <2>2, <2>4
<1>25. CASE UnlockClear(t)
  <2>1. guard' = guard
    BY <1>25 DEF UnlockClear
  <2>2. \E q \in {"clear", "released", "abort"} : pc' = [pc EXCEPT ![t] = q]
    BY <1>25 DEF UnlockClear
  <2>3. \/ call' = [call EXCEPT ![t] = [call[t] EXCEPT !.l = @ + 1, !.done = @ + 1]]
        \/ call' = [call EXCEPT ![t].l = @ + 1]
        \/ call' = call
    BY <1>25 DEF UnlockClear
  <2>4. /\ DOMAIN call' = Nodes /\ \A u \in Nodes : u # t => call'[u] = call[u]
        /\ DOMAIN call'[t] = Locals /\ call'[t].s = call[t].s /\ call'[t].op = call[t].op
        /\ call'[t].guard = call[t].guard /\ call'[t].wait = call[t].wait
    <3>1. CASE call' = [call EXCEPT ![t] = [call[t] EXCEPT !.l = @ + 1, !.done = @ + 1]]
      BY <3>1
    <3>2. CASE call' = [call EXCEPT ![t].l = @ + 1]
      BY <3>2
    <3> QED BY <2>3, <3>1, <3>2
  <2>5. QED
    BY <2>1, <2>2, <2>4
<1>26. CASE UnlockReturn(t)
  BY NoCallTyped, <1>26 DEF UnlockReturn
<1>27. CASE MutexLock(t)
  <2>1. Leave(t)
    BY <1>27 DEF MutexLock
  <2>2. \E q \in {"idle", "probe"} : pc' = [pc EXCEPT ![t] = q]
    BY <1>27 DEF MutexLock
  <2>3. \/ call' = [call EXCEPT ![t] = NoCall]
        \/ call' = [call EXCEPT ![t].op = "lock"]
    BY <1>27 DEF MutexLock
  <2>4. pc' \in [Nodes -> PCs]
    BY <2>2
  <2>5. guard' \in [Sems -> [Kinds -> Nodes \cup {NoNode}]]
    <3> HIDE DEF TypeInv, CallsAgree, Leave, Kinds
    <3> QED BY <2>1, LeaveTyped
  <2>6. /\ DOMAIN call' = Nodes
        /\ \A u \in Nodes :
             DOMAIN call'[u] = Locals /\ call'[u].s \in Sems /\ call'[u].guard \in Kinds
    <3>1. CASE call' = [call EXCEPT ![t] = NoCall]
      BY <3>1, NoCallTyped
    <3>2. CASE call' = [call EXCEPT ![t].op = "lock"]
      BY <3>2
    <3> QED BY <2>3, <3>1, <3>2
  <2>7. QED
    BY <2>4, <2>5, <2>6
<1>28. CASE MutexUnlock(t)
  <2>1. Leave(t)
    BY <1>28 DEF MutexUnlock
  <2>2. \E q \in {"idle", "probe"} : pc' = [pc EXCEPT ![t] = q]
    BY <1>28 DEF MutexUnlock
  <2>3. \/ call' = [call EXCEPT ![t] = NoCall]
        \/ call' = [call EXCEPT ![t].op = "unlock"]
    BY <1>28 DEF MutexUnlock
  <2>4. pc' \in [Nodes -> PCs]
    BY <2>2
  <2>5. guard' \in [Sems -> [Kinds -> Nodes \cup {NoNode}]]
    <3> HIDE DEF TypeInv, CallsAgree, Leave, Kinds
    <3> QED BY <2>1, LeaveTyped
  <2>6. /\ DOMAIN call' = Nodes
        /\ \A u \in Nodes :
             DOMAIN call'[u] = Locals /\ call'[u].s \in Sems /\ call'[u].guard \in Kinds
    <3>1. CASE call' = [call EXCEPT ![t] = NoCall]
      BY <3>1, NoCallTyped
    <3>2. CASE call' = [call EXCEPT ![t].op = "unlock"]
      BY <3>2
    <3> QED BY <2>3, <3>1, <3>2
  <2>7. QED
    BY <2>4, <2>5, <2>6
<1>29. CASE Delete(t)
  BY NoCallTyped, <1>29 DEF Delete
<1>30. CASE CreateSearch(t)
  <2>1. guard' = guard
    BY <1>30 DEF CreateSearch
  <2>2. \E q \in {"idle", "log"} : pc' = [pc EXCEPT ![t] = q]
    BY <1>30 DEF CreateSearch
  <2>3. \/ call' = [call EXCEPT ![t] = NoCall]
        \/ \E s \in Sems : call' = [call EXCEPT ![t].s = s]
    BY <1>30 DEF CreateSearch
  <2>4. QED
    BY <2>1, <2>2, <2>3, NoCallTyped
<1>31. CASE CreateSetup(t)
  BY <1>31, CreatorEffect
<1>32. CASE Finalize(t)
  BY <1>32 DEF Finalize
<1>33. CASE Initialize(t)
  BY <1>33 DEF Initialize
<1>34. CASE CreateEnd(t)
  BY NoCallTyped, <1>34 DEF CreateEnd
<1>35. QED
  BY <1>1, <1>2, <1>3, <1>4, <1>5, <1>6, <1>7, <1>8, <1>9, <1>10, <1>11, <1>12, <1>13,
        <1>14, <1>15, <1>16, <1>17, <1>18, <1>19, <1>20, <1>21, <1>22, <1>23, <1>24,
        <1>25, <1>26, <1>27, <1>28, <1>29, <1>30, <1>31, <1>32, <1>33, <1>34 DEF Calling,
        Inside, Waiting

\* Every step keeps the agreement of places and calls, and the guards.
LEMMA GuardStep ==
  ASSUME IInv, TypeInv', NEW t \in Nodes,
         Calling(t) \/ Inside(t) \/ Waiting(t) \/ Finalize(t) \/ Initialize(t)
  PROVE  (CallsAgree /\ GuardHeld /\ GuardChosen)'
<1> USE LocksAssumption DEF IInv, TypeInv, CallsAgree, GuardHeld, GuardChosen, In,
      Locals, PCs, Sections, Setups, WaitsOne, WaitsMultiple, Kinds, Leave, End, guardVars,
      nodeVars, histVars, NoCall, Goto
<1>1. ASSUME NEW s \in Sems, NEW m \in Timeouts, CallLock(t, s, m)
      PROVE  (CallsAgree /\ GuardHeld /\ GuardChosen)'
  BY <1>1 DEF CallLock, Call
<1>2. ASSUME NEW s \in Sems, NEW m \in Timeouts, CallMutexLock(t, s, m)
      PROVE  (CallsAgree /\ GuardHeld /\ GuardChosen)'
  BY <1>2 DEF CallMutexLock, Call
<1>3. ASSUME NEW s \in Sems, NEW m \in Nat, NEW op \in {"lock", "unlock"}, CallWriter(t, s, op, m)
      PROVE  (CallsAgree /\ GuardHeld /\ GuardChosen)'
  BY <1>3 DEF CallWriter, Call
<1>4. ASSUME NEW s \in Sems, NEW op \in {"unlock", "post"}, CallUnlock(t, s, op)
      PROVE  (CallsAgree /\ GuardHeld /\ GuardChosen)'
  BY <1>4 DEF CallUnlock, Call
<1>5. ASSUME NEW s \in Sems, NEW key \in 0 .. MaxDepth, CallMutexUnlock(t, s, key)
      PROVE  (CallsAgree /\ GuardHeld /\ GuardChosen)'
  BY <1>5 DEF CallMutexUnlock, Call
<1>6. ASSUME NEW s \in Sems, CallDelete(t, s)
      PROVE  (CallsAgree /\ GuardHeld /\ GuardChosen)'
  BY <1>6 DEF CallDelete, Call
<1>7. ASSUME NEW w \in Waits, NEW m \in Timeouts, CallMultiple(t, w, m)
      PROVE  (CallsAgree /\ GuardHeld /\ GuardChosen)'
  BY <1>7 DEF CallMultiple, Call
<1>8. ASSUME NEW key \in Keys, NEW type \in Types, NEW n \in 0 .. MaxShared - 1,
             CallCreate(t, key, type, n)
      PROVE  (CallsAgree /\ GuardHeld /\ GuardChosen)'
  BY <1>8 DEF CallCreate, Keys
<1>9. ASSUME NEW key \in Keys, Get(t, key)
      PROVE  (CallsAgree /\ GuardHeld /\ GuardChosen)'
  BY <1>9 DEF Get, Keys
<1>10. CASE Probe(t)
  BY <1>10 DEF Probe
<1>11. CASE Enter(t)
  BY <1>11 DEF Enter, Nodes, NoNode
<1>12. CASE EnterMultiple(t)
  BY <1>12 DEF EnterMultiple, Nodes, NoNode
<1>13. CASE Return(t)
  BY <1>13 DEF Return
<1>14. CASE WriterLimit(t)
  BY <1>14 DEF WriterLimit
<1>15. CASE LockTest(t)
  BY <1>15 DEF LockTest
<1>16. CASE LockScan(t)
  <2>1. guard' = guard /\ pc[t] = "scan"
    BY <1>16 DEF LockScan
  <2>2. \E q \in {"scan", "take", "granted", "failed"} : pc' = [pc EXCEPT ![t] = q]
    BY <1>16 DEF LockScan
  <2>3. \/ call' = [call EXCEPT ![t].l = @ + 1]
        \/ call' = [call EXCEPT ![t].tmp = S(t).num_locks]
        \/ call' = call
    BY <1>16 DEF LockScan
  <2>4. QED
    BY <2>1, <2>2, <2>3
<1>17. CASE LockTake(t)
  BY <1>17 DEF LockTake
<1>18. CASE LockReturn(t)
  BY <1>18 DEF LockReturn
<1>19. CASE Yield(t)
  BY <1>19 DEF Yield
<1>20. CASE Again(t)
  BY <1>20 DEF Again, Nodes, NoNode
<1>21. CASE AgainMultiple(t)
  BY <1>21 DEF AgainMultiple, Nodes, NoNode
<1>22. CASE NextSem(t)
  BY <1>22 DEF NextSem
<1>23. CASE Revert(t)
  BY <1>23 DEF Revert
<1>24. CASE UnlockTest(t)
  <2>1. guard' = guard /\ pc[t] \in {"unlock", "post"}
    BY <1>24 DEF UnlockTest
  <2>2. \E q \in {"clear", "refused"} : pc' = [pc EXCEPT ![t] = q]
    BY <1>24 DEF UnlockTest
  <2>3. \/ call' = [call EXCEPT ![t] = [@ EXCEPT !.l = 0, !.done = 0]]
        \/ call' = call
    BY <1>24 DEF UnlockTest
  <2>4. /\ DOMAIN call' = Nodes /\ \A u \in Nodes : u # t => call'[u] = call[u]
        /\ DOMAIN call'[t] = Locals /\ call'[t].s = call[t].s /\ call'[t].op = call[t].op
        /\ call'[t].guard = call[t].guard /\ call'[t].wait = call[t].wait
    <3>1. CASE call' = [call EXCEPT ![t] = [@ EXCEPT !.l = 0, !.done = 0]]
      BY <3>1
    <3> QED BY <2>3, <3>1
  <2>5. QED
    BY <2>1, <2>2, <2>4
<1>25. CASE UnlockClear(t)
  <2>1. guard' = guard /\ pc[t] = "clear"
    BY <1>25 DEF UnlockClear
  <2>2. \E q \in {"clear", "released", "abort"} : pc' = [pc EXCEPT ![t] = q]
    BY <1>25 DEF UnlockClear
  <2>3. \/ call' = [call EXCEPT ![t] = [call[t] EXCEPT !.l = @ + 1, !.done = @ + 1]]
        \/ call' = [call EXCEPT ![t].l = @ + 1]
        \/ call' = call
    BY <1>25 DEF UnlockClear
  <2>4. /\ DOMAIN call' = Nodes /\ \A u \in Nodes : u # t => call'[u] = call[u]
        /\ DOMAIN call'[t] = Locals /\ call'[t].s = call[t].s /\ call'[t].op = call[t].op
        /\ call'[t].guard = call[t].guard /\ call'[t].wait = call[t].wait
    <3>1. CASE call' = [call EXCEPT ![t] = [call[t] EXCEPT !.l = @ + 1, !.done = @ + 1]]
      BY <3>1
    <3>2. CASE call' = [call EXCEPT ![t].l = @ + 1]
      BY <3>2
    <3> QED BY <2>3, <3>1, <3>2
  <2>5. QED
    BY <2>1, <2>2, <2>4
<1>26. CASE UnlockReturn(t)
  BY <1>26 DEF UnlockReturn
<1>27. CASE MutexLock(t)
  <2>1. Leave(t) /\ pc[t] = "mlock"
    BY <1>27 DEF MutexLock
  <2>2. \A u \in Nodes, s \in Sems : u # t /\ In(u, s) => guard'[s][call[u].guard] = u
    BY <2>1
  <2>3. CASE pc' = [pc EXCEPT ![t] = "idle"] /\ call' = [call EXCEPT ![t] = NoCall]
    BY <2>2, <2>3
  <2>4. CASE pc' = [pc EXCEPT ![t] = "probe"] /\ call' = [call EXCEPT ![t].op = "lock"]
    BY <2>1, <2>2, <2>4
  <2>5. QED
    BY <1>27, <2>3, <2>4 DEF MutexLock
<1>28. CASE MutexUnlock(t)
  <2>1. Leave(t) /\ pc[t] = "munlock"
    BY <1>28 DEF MutexUnlock
  <2>2. \A u \in Nodes, s \in Sems : u # t /\ In(u, s) => guard'[s][call[u].guard] = u
    BY <2>1
  <2>3. CASE pc' = [pc EXCEPT ![t] = "idle"] /\ call' = [call EXCEPT ![t] = NoCall]
    BY <2>2, <2>3
  <2>4. CASE pc' = [pc EXCEPT ![t] = "probe"] /\ call' = [call EXCEPT ![t].op = "unlock"]
    BY <2>1, <2>2, <2>4
  <2>5. QED
    BY <1>28, <2>3, <2>4 DEF MutexUnlock
<1>29. CASE Delete(t)
  BY <1>29 DEF Delete
<1>30. CASE CreateSearch(t)
  <2>1. guard' = guard
    BY <1>30 DEF CreateSearch
  <2>2. \E q \in {"idle", "log"} : pc' = [pc EXCEPT ![t] = q]
    BY <1>30 DEF CreateSearch
  <2>3. \/ call' = [call EXCEPT ![t] = NoCall]
        \/ \E s \in Sems : call' = [call EXCEPT ![t].s = s]
    BY <1>30 DEF CreateSearch
  <2>4. QED
    BY <2>1, <2>2, <2>3
<1>31. CASE CreateSetup(t)
  <2>1. /\ guard' = guard /\ pc[t] \in Setups
        /\ \E q \in Setups : pc' = [pc EXCEPT ![t] = q]
        /\ \A u \in Nodes : u # t => call'[u] = call[u]
    BY <1>31, CreatorEffect
  <2> QED BY <2>1
<1>32. CASE Finalize(t)
  BY <1>32 DEF Finalize
<1>33. CASE Initialize(t)
  BY <1>33 DEF Initialize
<1>34. CASE CreateEnd(t)
  BY NoCallTyped, <1>34 DEF CreateEnd
<1>35. QED
  BY <1>1, <1>2, <1>3, <1>4, <1>5, <1>6, <1>7, <1>8, <1>9, <1>10, <1>11, <1>12, <1>13,
        <1>14, <1>15, <1>16, <1>17, <1>18, <1>19, <1>20, <1>21, <1>22, <1>23, <1>24,
        <1>25, <1>26, <1>27, <1>28, <1>29, <1>30, <1>31, <1>32, <1>33, <1>34 DEF Calling,
        Inside, Waiting

-----------------------------------------------------------------------------
\* Whoever works on an entry holds the guard that it chose, for any number of
\* nodes and locks and whatever the uninitialized spinlock_guard reads as.
THEOREM GuardCorrect == Spec => []IInv
<1>1. Init => IInv
  BY LocksAssumption, NoCallTyped
     DEF Init, IInv, TypeInv, CallsAgree, GuardHeld, GuardChosen, In, Kinds, PCs, Sections,
         Setups, WaitsOne, WaitsMultiple
<1>2. IInv /\ [Next]_vars => IInv'
  <2>1. ASSUME IInv, Next PROVE IInv'
    <3>1. PICK t \in Nodes :
            Calling(t) \/ Inside(t) \/ Waiting(t) \/ Finalize(t) \/ Initialize(t)
      BY <2>1 DEF Next
    <3>2. TypeInv'
      BY <2>1, <3>1, TypeStep DEF IInv
    <3>3. QED
      BY <2>1, <3>1, <3>2, GuardStep DEF IInv
  <2>2. ASSUME IInv, UNCHANGED vars PROVE IInv'
    BY <2>2 DEF vars, guardVars, IInv, TypeInv, CallsAgree, GuardHeld, GuardChosen, In
  <2>3. QED
    BY <2>1, <2>2
<1>3. QED
  BY <1>1, <1>2, PTL DEF Spec

\* If all calls take the same kind of guard, that is, if spinlock_guard always
\* read the same, no two nodes would work on the same entry at once: in the loops
\* of mrapi_impl_acquire_lock_locked and mrapi_impl_release_lock nobody else
\* changes the entry.
THEOREM SectionsExclude ==
  ASSUME OneGuard
  PROVE  Spec => []Exclusive
<1>1. IInv => Exclusive
  BY DEF OneGuard, IInv, GuardHeld, Exclusive
<1>2. QED
  BY <1>1, GuardCorrect, PTL

-----------------------------------------------------------------------------
(* The counts.  An entry is created once: where nothing is deleted, or where *)
(* a deleted entry is not used again, which takes the attributes that its    *)
(* creator stores last.  Then a call finds, whenever it works on the entry,  *)
(* the lock it was made for.                                                 *)

\* Entries are created once.
Once == ~Deletes \/ (ExtError /\ ~Early)

Fields == {"valid", "deleted", "key", "type", "limit", "lvalid", "locked", "holder",
           "num_locks", "lock_key", "refs", "attrs"}

\* The places of a creator, and a call that is inside the library and does not
\* create anything.
Creations == Setups \cup {"create"}
Building == Setups \ {"log", "valid"}
Active(t) == pc[t] \notin Creations \cup {"idle"}

\* The entries such a call is about.
About(t, s) == s = call[t].s \/ call[t].wait # "one"

\* The types of the entries, and of what the calls count.
EntryTyped(s) ==
  /\ DOMAIN sems[s] = Fields
  /\ sems[s].limit \in 0 .. MaxShared
  /\ sems[s].num_locks \in Int /\ sems[s].refs \in Int
  /\ DOMAIN sems[s].locked = Indices
  /\ DOMAIN sems[s].holder = Indices
  /\ \A l \in Indices : sems[s].locked[l] \in BOOLEAN
  /\ sems[s].lvalid \in [Indices -> BOOLEAN]

EntryTypes == DOMAIN sems = Sems /\ \A s \in Sems : EntryTyped(s)

CallTypes ==
  \A t \in Nodes :
    /\ call[t].n \in Nat /\ call[t].l \in Nat /\ call[t].done \in Nat /\ call[t].tmp \in Int
    /\ call[t].wait \in {"one", "any", "all"}

HistoryTypes ==
  /\ born \in [Sems -> Nat] /\ out \in [Sems -> Int]
  /\ known \in [Nodes -> [Sems -> Nat]]
  /\ held \in [Nodes -> [Sems -> Int]]
  /\ DOMAIN keys = Nodes /\ \A t \in Nodes : DOMAIN keys[t] = Sems

\* Creating is under the global guard, and the attributes come last.
Creating ==
  \A t \in Nodes :
    /\ pc[t] \in Creations =>
         global = t /\ call[t].n < MaxShared /\ (call[t].n # 0 => call[t].type = "sem")
    /\ pc[t] = "create" => call[t].l = 0
    /\ pc[t] \in Setups =>
         born[call[t].s] = 1 /\ ~sems[call[t].s].deleted /\ ~sems[call[t].s].attrs
    /\ pc[t] \in Building => sems[call[t].s].valid

\* An entry is valid, deleted or about to be valid from its one creation on, and a
\* call is about entries that its node got the handle of since, and complete.
BornOnce ==
  /\ \A s \in Sems :
       /\ born[s] \in {0, 1}
       /\ born[s] = 0 => ~sems[s].valid /\ ~sems[s].deleted
       /\ born[s] = 1 => \/ sems[s].valid \/ sems[s].deleted
                         \/ \E u \in Nodes : pc[u] \in Setups /\ call[u].s = s
  /\ \A t \in Nodes, s \in Sems : Active(t) /\ About(t, s) =>
       born[s] = 1 /\ known[t][s] = 1 /\ (Early \/ sems[s].attrs)
  /\ ~Deletes => \A t \in Nodes : call[t].op # "delete" /\ pc[t] # "delete"

BirthInv == EntryTypes /\ CallTypes /\ HistoryTypes /\ Creating /\ BornOnce /\ ~stray

\* What a call is about, and how many locks it wants.
PlaceFits(t) ==
  /\ pc[t] \in {"lock", "scan", "take", "granted", "failed", "revert", "again"}
                 \cup WaitsMultiple => call[t].op = "lock"
  /\ pc[t] = "writer" => call[t].op \in {"lock", "unlock"}
  /\ pc[t] \in {"unlock", "post", "mlock", "munlock", "delete"} => call[t].op = pc[t]
  /\ pc[t] \in {"clear", "released"} => call[t].op \in {"unlock", "post"}
  /\ call[t].wait # "one" /\ pc[t] = "refused" => call[t].s = 0

KindFits(t) ==
  /\ call[t].wait # "one" =>
       call[t].op = "lock" /\ call[t].n = 1 /\ \A s \in Sems : sems[s].type = "sem"
  /\ call[t].type = "mutex" => call[t].n = 1
  /\ call[t].op # "delete" => (call[t].type = "mutex" <=> sems[call[t].s].type = "mutex")
  /\ call[t].op \in {"mlock", "munlock"} => call[t].type = "mutex"
  /\ call[t].op = "post" => sems[call[t].s].type = "sem"
  /\ call[t].op \in {"lock", "unlock", "post"} /\ pc[t] # "writer" => call[t].n > 0

Fits(t) == PlaceFits(t) /\ KindFits(t)

CallFits == \A t \in Nodes : Active(t) => Fits(t)

\* A lock whose creation has returned.
Ready(s) == born[s] = 1 /\ sems[s].attrs

Limits ==
  \A s \in Sems : Ready(s) =>
    /\ sems[s].limit > 0 /\ (sems[s].type = "mutex" => sems[s].limit = 1)
    /\ \A l \in Limit(s) : sems[s].lvalid[l]

\* What a creator has written so far: it makes the locks valid in order, and takes
\* and counts the first n of them, which are those granted to nobody.
Halfway(t) ==
  LET c == call[t]  e == sems[c.s] IN
  /\ e.type = c.type /\ out[c.s] = c.n
  /\ IF pc[t] \in {"log", "valid", "limit"} THEN c.l = 0 ELSE e.limit = NewLimit(t)
  /\ \A i \in Indices :
       /\ e.lvalid[i] <=> i < c.l \/ (i = c.l /\ pc[t] \in {"fill", "hold", "count"})
       /\ e.locked[i] <=> i < c.n /\ (i < c.l \/ (i = c.l /\ pc[t] \in {"hold", "count"}))
  /\ e.num_locks = IF c.l < c.n THEN c.l ELSE c.n
  /\ pc[t] \in {"fill", "hold", "count"} => c.l < c.n
  /\ pc[t] = "count" => c.tmp = e.num_locks

Half == \A t \in Nodes : pc[t] \in Setups => Halfway(t)

\* Locked, counted and granted are d apart.
Counted(s, d) ==
  /\ sems[s].num_locks = Cardinality(Locked(s))
  /\ sems[s].num_locks = out[s] + d

\* The call has its n locks or looks for the rest of them: it has looked at
\* those before l, and there are enough.
LockingWell(t) ==
  LET c == call[t] IN
  /\ Counted(c.s, c.done)
  /\ c.done <= c.n /\ sems[c.s].limit - sems[c.s].num_locks >= c.n - c.done
  /\ \A l \in Limit(c.s) : l < c.l => sems[c.s].locked[l]
  /\ pc[t] = "granted" => c.done = c.n
  /\ pc[t] # "granted" => c.done < c.n
  /\ pc[t] = "take" => c.l \in Limit(c.s) /\ ~sems[c.s].locked[c.l] /\ c.tmp = sems[c.s].num_locks

\* The call has counted n locks less and unlocks them one by one.
UnlockingWell(t) ==
  LET c == call[t] IN
  /\ sems[c.s].num_locks = out[c.s] - c.n
  /\ Cardinality(Locked(c.s)) = out[c.s] - c.done
  /\ c.done <= c.n /\ c.done <= c.l /\ Cardinality(Mine(t)) >= c.n - c.done
  /\ \A l \in Mine(t) : l >= c.l
  /\ pc[t] = "clear" => c.done < c.n
  /\ pc[t] = "released" => c.done = c.n

\* What a call says of the count of an entry it works on. One that locks all of
\* several has locked those before the one it is at.
AtWork(t, s) ==
  /\ s = call[t].s /\ pc[t] \in {"scan", "take", "granted"} => LockingWell(t)
  /\ s = call[t].s /\ pc[t] \in {"clear", "released"} => UnlockingWell(t)
  /\ s = call[t].s /\ pc[t] \notin {"scan", "take", "granted", "clear", "released"} => Counted(s, 0)
  /\ s # call[t].s /\ call[t].wait = "all" /\ s < call[t].s => Counted(s, 1)
  /\ s # call[t].s /\ ~(call[t].wait = "all" /\ s < call[t].s) => Counted(s, 0)

Working == \A t \in Nodes, s \in Sems : In(t, s) => AtWork(t, s)

\* Where nobody works on an entry its counts agree.
Resting == \A s \in Sems : Ready(s) /\ Quiet(s) => Counted(s, 0)

NoAbort == \A t \in Nodes : pc[t] # "abort"

CountInv == CallFits /\ Limits /\ Half /\ Working /\ Resting /\ NoAbort

-----------------------------------------------------------------------------
\* An entry that is wiped, and a call that has ended, have their types.
LEMMA WipedTyped ==
  /\ DOMAIN Wiped = Fields /\ Wiped.limit = 0 /\ Wiped.num_locks = 0 /\ Wiped.refs = 0
  /\ DOMAIN Wiped.locked = Indices /\ DOMAIN Wiped.holder = Indices
  /\ \A l \in Indices : Wiped.locked[l] = FALSE
  /\ Wiped.lvalid \in [Indices -> BOOLEAN]
  /\ \A l \in Indices : Wiped.lvalid[l] = FALSE
  /\ Wiped.valid = FALSE /\ Wiped.deleted = FALSE /\ Wiped.attrs = FALSE
BY DEF Wiped, Fields

\* What a call that has ended looks like.
LEMMA EndTyped ==
  /\ NoCall.n = 0 /\ NoCall.l = 0 /\ NoCall.done = 0 /\ NoCall.tmp = 0 /\ NoCall.wait = "one"
  /\ NoCall.op = "none" /\ NoCall.type = "sem"
BY DEF NoCall

\* Every step keeps the types of the calls.
LEMMA CallTyped ==
  ASSUME TypeInv, EntryTypes, CallTypes, NEW t \in Nodes,
         Calling(t) \/ Inside(t) \/ Waiting(t) \/ Finalize(t) \/ Initialize(t)
  PROVE  CallTypes'
<1> USE LocksAssumption, EndTyped DEF TypeInv, EntryTypes, EntryTyped, CallTypes, Locals,
                                      End, guardVars, nodeVars, histVars, Goto
<1>1. ASSUME NEW s \in Sems, NEW m \in Timeouts, CallLock(t, s, m)
      PROVE  CallTypes'
  BY <1>1 DEF CallLock, Call, NoCall
<1>2. ASSUME NEW s \in Sems, NEW m \in Timeouts, CallMutexLock(t, s, m)
      PROVE  CallTypes'
  BY <1>2 DEF CallMutexLock, Call, NoCall
<1>3. ASSUME NEW s \in Sems, NEW m \in Nat, NEW op \in {"lock", "unlock"},
             CallWriter(t, s, op, m)
      PROVE  CallTypes'
  BY <1>3 DEF CallWriter, Call, NoCall
<1>4. ASSUME NEW s \in Sems, NEW op \in {"unlock", "post"}, CallUnlock(t, s, op)
      PROVE  CallTypes'
  BY <1>4 DEF CallUnlock, Call, NoCall
<1>5. ASSUME NEW s \in Sems, NEW key \in 0 .. MaxDepth, CallMutexUnlock(t, s, key)
      PROVE  CallTypes'
  BY <1>5 DEF CallMutexUnlock, Call, NoCall
<1>6. ASSUME NEW s \in Sems, Deletes, CallDelete(t, s)
      PROVE  CallTypes'
  BY <1>6 DEF CallDelete, Call, NoCall
<1>7. ASSUME NEW w \in Waits, NEW m \in Timeouts, CallMultiple(t, w, m)
      PROVE  CallTypes'
  BY <1>7 DEF CallMultiple, Call, NoCall
<1>8. ASSUME NEW key \in Keys, NEW type \in Types, NEW n \in 0 .. MaxShared - 1,
             CallCreate(t, key, type, n)
      PROVE  CallTypes'
  BY <1>8 DEF CallCreate, NoCall
<1>9. ASSUME NEW key \in Keys, Get(t, key)
      PROVE  CallTypes'
  BY <1>9 DEF Get
<1>10. CASE Probe(t)
  BY <1>10 DEF Probe
<1>11. CASE Enter(t)
  BY <1>11 DEF Enter
<1>12. CASE EnterMultiple(t)
  BY <1>12 DEF EnterMultiple
<1>13. CASE Return(t)
  BY <1>13 DEF Return
<1>14. CASE WriterLimit(t)
  BY <1>14 DEF WriterLimit, S
<1>15. CASE LockTest(t)
  BY <1>15 DEF LockTest
<1>16. CASE LockScan(t)
  <2>1. \/ call' = [call EXCEPT ![t].l = @ + 1]
        \/ call' = [call EXCEPT ![t].tmp = sems[call[t].s].num_locks]
        \/ call' = call
    BY <1>16 DEF LockScan, S
  <2>2. CASE call' = [call EXCEPT ![t].l = @ + 1]
    BY <2>2
  <2>3. CASE call' = [call EXCEPT ![t].tmp = sems[call[t].s].num_locks]
    BY <2>3
  <2>4. CASE call' = call
    BY <2>4
  <2> QED BY <2>1, <2>2, <2>3, <2>4
<1>17. CASE LockTake(t)
  BY <1>17 DEF LockTake
<1>18. CASE LockReturn(t)
  BY <1>18 DEF LockReturn
<1>19. CASE Yield(t)
  BY <1>19 DEF Yield
<1>20. CASE Again(t)
  BY <1>20 DEF Again
<1>21. CASE AgainMultiple(t)
  BY <1>21 DEF AgainMultiple
<1>22. CASE NextSem(t)
  BY <1>22 DEF NextSem
<1>23. CASE Revert(t)
  BY <1>23 DEF Revert
<1>24. CASE UnlockTest(t)
  <2>1. \/ call' = [call EXCEPT ![t] = [@ EXCEPT !.l = 0, !.done = 0]]
        \/ call' = call
    BY <1>24 DEF UnlockTest
  <2>2. CASE call' = [call EXCEPT ![t] = [@ EXCEPT !.l = 0, !.done = 0]]
    BY <2>2
  <2>3. CASE call' = call
    BY <2>3
  <2> QED BY <2>1, <2>2, <2>3
<1>25. CASE UnlockClear(t)
  <2>1. \/ call' = [call EXCEPT ![t] = [call[t] EXCEPT !.l = @ + 1, !.done = @ + 1]]
        \/ call' = [call EXCEPT ![t].l = @ + 1]
        \/ call' = call
    BY <1>25 DEF UnlockClear
  <2>2. CASE call' = [call EXCEPT ![t] = [call[t] EXCEPT !.l = @ + 1, !.done = @ + 1]]
    BY <2>2
  <2>3. CASE call' = [call EXCEPT ![t].l = @ + 1]
    BY <2>3
  <2>4. CASE call' = call
    BY <2>4
  <2> QED BY <2>1, <2>2, <2>3, <2>4
<1>26. CASE UnlockReturn(t)
  BY <1>26 DEF UnlockReturn
<1>27. CASE MutexLock(t)
  <2>1. \/ call' = [call EXCEPT ![t] = NoCall]
        \/ call' = [call EXCEPT ![t].op = "lock"]
    BY <1>27 DEF MutexLock
  <2>2. CASE call' = [call EXCEPT ![t] = NoCall]
    BY <2>2
  <2>3. CASE call' = [call EXCEPT ![t].op = "lock"]
    BY <2>3
  <2> QED BY <2>1, <2>2, <2>3
<1>28. CASE MutexUnlock(t)
  <2>1. \/ call' = [call EXCEPT ![t] = NoCall]
        \/ call' = [call EXCEPT ![t].op = "unlock"]
    BY <1>28 DEF MutexUnlock
  <2>2. CASE call' = [call EXCEPT ![t] = NoCall]
    BY <2>2
  <2>3. CASE call' = [call EXCEPT ![t].op = "unlock"]
    BY <2>3
  <2> QED BY <2>1, <2>2, <2>3
<1>29. CASE Delete(t)
  BY <1>29 DEF Delete
<1>30. CASE CreateSearch(t)
  <2>1. \/ call' = [call EXCEPT ![t] = NoCall]
        \/ \E s \in Sems : call' = [call EXCEPT ![t].s = s]
    BY <1>30 DEF CreateSearch
  <2>2. CASE call' = [call EXCEPT ![t] = NoCall]
    BY <2>2
  <2>3. ASSUME NEW s \in Sems,  call' = [call EXCEPT ![t].s = s] PROVE CallTypes'
    BY <2>3
  <2> QED BY <2>1, <2>2, <2>3
<1>31. CASE CreateSetup(t)
  <2>1. CASE CreateLog(t)
    BY <2>1 DEF CreateLog, S
  <2>2. CASE CreateValid(t)
    BY <2>2 DEF CreateValid
  <2>3. CASE CreateLimit(t)
    BY <2>3 DEF CreateLimit
  <2>4. CASE CreateMake(t)
    <3>1. call' = call \/ call' = [call EXCEPT ![t].l = @ + 1]
      BY <2>4 DEF CreateMake
    <3>2. CASE call' = call
      BY <3>2
    <3>3. CASE call' = [call EXCEPT ![t].l = @ + 1]
      BY <3>3
    <3> QED BY <3>1, <3>2, <3>3
  <2>5. CASE CreateFill(t)
    BY <2>5 DEF CreateFill
  <2>6. CASE CreateHold(t)
    BY <2>6 DEF CreateHold, S
  <2>7. CASE CreateCount(t)
    BY <2>7 DEF CreateCount
  <2> QED BY <1>31, <2>1, <2>2, <2>3, <2>4, <2>5, <2>6, <2>7 DEF CreateSetup
<1>32. CASE Finalize(t)
  BY <1>32 DEF Finalize
<1>33. CASE Initialize(t)
  BY <1>33 DEF Initialize
<1>34. CASE CreateEnd(t)
  BY <1>34 DEF CreateEnd
<1> HIDE DEF TypeInv, EntryTypes, EntryTyped, CallTypes, Locals, End, guardVars, nodeVars,
             histVars, Goto
<1> QED BY <1>1, <1>2, <1>3, <1>4, <1>5, <1>6, <1>7, <1>8, <1>9, <1>10, <1>11, <1>12,
           <1>13, <1>14, <1>15, <1>16, <1>17, <1>18, <1>19, <1>20, <1>21, <1>22, <1>23,
           <1>24, <1>25, <1>26, <1>27, <1>28, <1>29, <1>30, <1>31, <1>32,
           <1>33, <1>34 DEF Calling, Inside, Waiting

\* A creator writes its own entry only, and neither its attributes nor what a
\* delete writes.
LEMMA CreatorEntry ==
  ASSUME TypeInv, EntryTypes, CallTypes, NEW t \in Nodes, CreateSetup(t)
  PROVE  /\ EntryTypes'
         /\ \A s \in Sems : s # call[t].s => sems'[s] = sems[s]
         /\ \A f \in {"deleted", "key", "type", "lock_key", "attrs"} :
              sems'[call[t].s][f] = sems[call[t].s][f]
         /\ sems[call[t].s].valid => sems'[call[t].s].valid
         /\ pc'[t] \in Building => pc[t] \in Building \/ sems'[call[t].s].valid
<1> DEFINE c == call[t].s
           Rest(x) == /\ sems' = [sems EXCEPT ![c] = x] /\ DOMAIN x = Fields
                      /\ \A f \in {"deleted", "key", "type", "lock_key", "attrs"} : x[f] = sems[c][f]
                      /\ x.limit \in 0 .. MaxShared /\ x.num_locks \in Int /\ x.refs \in Int
                      /\ DOMAIN x.locked = Indices /\ DOMAIN x.holder = Indices
                      /\ \A l \in Indices : x.locked[l] \in BOOLEAN
                      /\ x.lvalid \in [Indices -> BOOLEAN]
                      /\ sems[c].valid => x.valid
<1> DEFINE Goal == /\ EntryTypes'
                   /\ \A s \in Sems : s # c => sems'[s] = sems[s]
                   /\ \A f \in {"deleted", "key", "type", "lock_key", "attrs"} :
                        sems'[c][f] = sems[c][f]
                   /\ sems[c].valid => sems'[c].valid
<1>8. pc'[t] \in Building => pc[t] \in Building \/ CreateValid(t)
  BY DEF TypeInv, CreateSetup, CreateLog, CreateLimit, CreateMake, CreateFill, CreateHold,
         CreateCount, Goto, Building, Setups
<1>9. CreateValid(t) => sems'[c].valid
  BY DEF TypeInv, EntryTypes, EntryTyped, Fields, CreateValid
<1>0. ASSUME NEW x, Rest(x) PROVE Goal
  <2>1. c \in Sems /\ DOMAIN sems = Sems
    BY DEF TypeInv, EntryTypes
  <2>2. sems'[c] = x /\ DOMAIN sems' = Sems /\ \A s \in Sems : s # c => sems'[s] = sems[s]
    BY <1>0, <2>1
  <2>3. ASSUME NEW s \in Sems PROVE EntryTyped(s)'
    <3>1. CASE s = c
      BY <1>0, <2>2, <3>1 DEF EntryTyped
    <3>2. CASE s # c
      BY <2>2, <3>2 DEF EntryTyped, EntryTypes
    <3> QED BY <3>1, <3>2
  <2> QED BY <1>0, <2>2, <2>3 DEF EntryTypes
<1> USE DEF EntryTypes, EntryTyped, CallTypes, Fields, Goto, S, NewLimit
<1>1. ASSUME CreateLog(t) PROVE Goal
  BY <1>1 DEF CreateLog
<1>2. ASSUME CreateValid(t) PROVE Goal
  <2>1. Rest([sems[c] EXCEPT !.refs = call[t].tmp + 1, !.valid = TRUE])
    BY <1>2 DEF CreateValid, TypeInv
  <2> QED BY <1>0, <2>1
<1>3. ASSUME CreateLimit(t) PROVE Goal
  <2>1. Rest([sems[c] EXCEPT !.limit = NewLimit(t)])
    BY <1>3, LocksAssumption DEF CreateLimit, TypeInv
  <2> QED BY <1>0, <2>1
<1>4. ASSUME CreateMake(t) PROVE Goal
  <2> DEFINE y == [sems[c].lvalid EXCEPT ![call[t].l] = TRUE]
             x == [sems[c] EXCEPT !.lvalid = y]
  <2>1. c \in Sems /\ sems' = [sems EXCEPT ![c] = x]
    BY <1>4 DEF CreateMake, TypeInv
  <2>2. DOMAIN y = Indices /\ (\A l \in Indices : y[l] \in BOOLEAN) /\ y \in [Indices -> BOOLEAN]
    BY <2>1
  <2>3. Rest(x)
    <3> HIDE DEF y
    <3> QED BY <2>1, <2>2
  <2> QED BY <1>0, <2>3
<1>5. ASSUME CreateFill(t) PROVE Goal
  <2> DEFINE y == [sems[c].locked EXCEPT ![call[t].l] = TRUE]
             x == [sems[c] EXCEPT !.locked = y]
  <2>1. c \in Sems /\ sems' = [sems EXCEPT ![c] = x]
    BY <1>5 DEF CreateFill, TypeInv
  <2>2. DOMAIN y = Indices /\ (\A l \in Indices : y[l] \in BOOLEAN)
    BY <2>1
  <2>3. Rest(x)
    <3> HIDE DEF y
    <3> QED BY <2>1, <2>2
  <2> QED BY <1>0, <2>3
<1>6. ASSUME CreateHold(t) PROVE Goal
  <2>1. Rest([sems[c] EXCEPT !.holder[call[t].l] = Anon])
    BY <1>6 DEF CreateHold, TypeInv
  <2> QED BY <1>0, <2>1
<1>7. ASSUME CreateCount(t) PROVE Goal
  <2>1. Rest([sems[c] EXCEPT !.num_locks = call[t].tmp + 1])
    BY <1>7 DEF CreateCount, TypeInv
  <2> QED BY <1>0, <2>1
<1> HIDE DEF EntryTypes, EntryTyped, CallTypes, Fields, Goto, S, NewLimit
<1> QED BY <1>1, <1>2, <1>3, <1>4, <1>5, <1>6, <1>7, <1>8, <1>9 DEF CreateSetup

\* Every step keeps the types of the entries.
LEMMA EntriesTyped ==
  ASSUME TypeInv, EntryTypes, CallTypes, NEW t \in Nodes,
         Calling(t) \/ Inside(t) \/ Waiting(t) \/ Finalize(t) \/ Initialize(t)
  PROVE  EntryTypes'
<1> USE LocksAssumption, WipedTyped DEF TypeInv, EntryTypes, EntryTyped, CallTypes, Locals,
                                        Fields, guardVars, nodeVars, histVars, Goto
<1>1. ASSUME NEW s \in Sems, NEW m \in Timeouts, CallLock(t, s, m)
      PROVE  EntryTypes'
  BY <1>1 DEF CallLock, Call
<1>2. ASSUME NEW s \in Sems, NEW m \in Timeouts, CallMutexLock(t, s, m)
      PROVE  EntryTypes'
  BY <1>2 DEF CallMutexLock, Call
<1>3. ASSUME NEW s \in Sems, NEW m \in Nat, NEW op \in {"lock", "unlock"},
             CallWriter(t, s, op, m)
      PROVE  EntryTypes'
  BY <1>3 DEF CallWriter, Call
<1>4. ASSUME NEW s \in Sems, NEW op \in {"unlock", "post"}, CallUnlock(t, s, op)
      PROVE  EntryTypes'
  BY <1>4 DEF CallUnlock, Call
<1>5. ASSUME NEW s \in Sems, NEW key \in 0 .. MaxDepth, CallMutexUnlock(t, s, key)
      PROVE  EntryTypes'
  BY <1>5 DEF CallMutexUnlock, Call
<1>6. ASSUME NEW s \in Sems, Deletes, CallDelete(t, s)
      PROVE  EntryTypes'
  BY <1>6 DEF CallDelete, Call
<1>7. ASSUME NEW w \in Waits, NEW m \in Timeouts, CallMultiple(t, w, m)
      PROVE  EntryTypes'
  BY <1>7 DEF CallMultiple, Call
<1>8. ASSUME NEW key \in Keys, NEW type \in Types, NEW n \in 0 .. MaxShared - 1,
             CallCreate(t, key, type, n)
      PROVE  EntryTypes'
  BY <1>8 DEF CallCreate
<1>9. ASSUME NEW key \in Keys, Get(t, key)
      PROVE  EntryTypes'
  BY <1>9 DEF Get
<1>10. CASE Probe(t)
  BY <1>10 DEF Probe
<1>11. CASE Enter(t)
  BY <1>11 DEF Enter
<1>12. CASE EnterMultiple(t)
  BY <1>12 DEF EnterMultiple
<1>13. CASE Return(t)
  BY <1>13 DEF Return
<1>14. CASE WriterLimit(t)
  BY <1>14 DEF WriterLimit
<1>15. CASE LockTest(t)
  BY <1>15 DEF LockTest
<1>16. CASE LockScan(t)
  BY <1>16 DEF LockScan
<1>17. CASE LockTake(t)
  <2>1. sems' = [sems EXCEPT ![call[t].s] = [@ EXCEPT !.locked[call[t].l] = TRUE,
                                                      !.holder[call[t].l] = t,
                                                      !.num_locks = call[t].tmp + 1]]
    BY <1>17 DEF LockTake
  <2>2. DOMAIN sems' = Sems /\ \A s \in Sems : s # call[t].s => sems'[s] = sems[s]
    BY <2>1
  <2>3. /\ DOMAIN sems'[call[t].s] = Fields
        /\ sems'[call[t].s].limit = sems[call[t].s].limit
        /\ sems'[call[t].s].num_locks = call[t].tmp + 1
        /\ sems'[call[t].s].locked = [sems[call[t].s].locked EXCEPT ![call[t].l] = TRUE]
        /\ sems'[call[t].s].holder = [sems[call[t].s].holder EXCEPT ![call[t].l] = t]
        /\ sems'[call[t].s].lvalid = sems[call[t].s].lvalid /\ sems'[call[t].s].refs = sems[call[t].s].refs
    BY <2>1
  <2>4. \A l \in Indices : \/ sems'[call[t].s].locked[l] = TRUE
                           \/ sems'[call[t].s].locked[l] = sems[call[t].s].locked[l]
    BY <2>3
  <2>5. \A l \in Indices : sems'[call[t].s].locked[l] \in BOOLEAN
    BY <2>4
  <2>6. DOMAIN sems'[call[t].s].locked = Indices /\ DOMAIN sems'[call[t].s].holder = Indices
    BY <2>3
  <2>7. sems'[call[t].s].num_locks \in Int /\ sems'[call[t].s].limit \in 0 .. MaxShared
    BY <2>3
  <2>8. ASSUME NEW s \in Sems, s = call[t].s PROVE EntryTyped(s)'
    BY <2>3, <2>5, <2>6, <2>7, <2>8
  <2>9. \A s \in Sems : s # call[t].s => EntryTyped(s)'
    BY <2>2
  <2> HIDE DEF EntryTyped
  <2> QED BY <2>2, <2>8, <2>9
<1>18. CASE LockReturn(t)
  BY <1>18 DEF LockReturn
<1>19. CASE Yield(t)
  BY <1>19 DEF Yield
<1>20. CASE Again(t)
  BY <1>20 DEF Again
<1>21. CASE AgainMultiple(t)
  BY <1>21 DEF AgainMultiple
<1>22. CASE NextSem(t)
  BY <1>22 DEF NextSem
<1>23. CASE Revert(t)
  BY <1>23 DEF Revert
<1>24. CASE UnlockTest(t)
  <2>1. \/ sems' = [sems EXCEPT ![call[t].s].num_locks = @ - call[t].n]
        \/ sems' = sems
    BY <1>24 DEF UnlockTest
  <2>2. CASE sems' = [sems EXCEPT ![call[t].s].num_locks = @ - call[t].n]
    BY <2>2
  <2>3. CASE sems' = sems
    BY <2>3
  <2> QED BY <2>1, <2>2, <2>3
<1>25. CASE UnlockClear(t)
  <2>1. CASE sems' = sems
    BY <2>1
  <2>2. CASE sems' = [sems EXCEPT ![call[t].s].locked[call[t].l] = FALSE]
    <3>1. DOMAIN sems' = Sems /\ \A s \in Sems : s # call[t].s => sems'[s] = sems[s]
      BY <2>2
    <3>2. /\ DOMAIN sems'[call[t].s] = Fields
          /\ sems'[call[t].s].limit = sems[call[t].s].limit
          /\ sems'[call[t].s].num_locks = sems[call[t].s].num_locks
          /\ sems'[call[t].s].locked = [sems[call[t].s].locked EXCEPT ![call[t].l] = FALSE]
          /\ sems'[call[t].s].holder = sems[call[t].s].holder
          /\ sems'[call[t].s].lvalid = sems[call[t].s].lvalid /\ sems'[call[t].s].refs = sems[call[t].s].refs
      BY <2>2
    <3>3. \A l \in Indices : \/ sems'[call[t].s].locked[l] = FALSE
                             \/ sems'[call[t].s].locked[l] = sems[call[t].s].locked[l]
      <4>1. DOMAIN sems[call[t].s].locked = Indices
        OBVIOUS
      <4> HIDE DEF TypeInv, EntryTypes, EntryTyped
      <4> QED BY <3>2, <4>1
    <3>4. \A l \in Indices : sems'[call[t].s].locked[l] \in BOOLEAN
      BY <3>3
    <3>5. ASSUME NEW s \in Sems, s = call[t].s PROVE EntryTyped(s)'
      BY <3>2, <3>4, <3>5
    <3>6. \A s \in Sems : s # call[t].s => EntryTyped(s)'
      BY <3>1
    <3> HIDE DEF EntryTyped
    <3> QED BY <3>1, <3>5, <3>6
  <2> QED BY <1>25, <2>1, <2>2 DEF UnlockClear
<1>26. CASE UnlockReturn(t)
  BY <1>26 DEF UnlockReturn
<1>27. CASE MutexLock(t)
  <2>1. \/ sems' = [sems EXCEPT ![call[t].s].lock_key = @ + 1]
        \/ sems' = sems
    BY <1>27 DEF MutexLock
  <2>2. CASE sems' = [sems EXCEPT ![call[t].s].lock_key = @ + 1]
    BY <2>2
  <2>3. CASE sems' = sems
    BY <2>3
  <2> QED BY <2>1, <2>2, <2>3
<1>28. CASE MutexUnlock(t)
  <2>1. \/ sems' = [sems EXCEPT ![call[t].s].lock_key = @ - 1]
        \/ sems' = sems
    BY <1>28 DEF MutexUnlock
  <2>2. CASE sems' = [sems EXCEPT ![call[t].s].lock_key = @ - 1]
    BY <2>2
  <2>3. CASE sems' = sems
    BY <2>3
  <2> QED BY <2>1, <2>2, <2>3
<1>29. CASE Delete(t)
  <2>1. CASE sems' = sems
    BY <2>1
  <2>2. CASE sems' = [sems EXCEPT ![call[t].s] = [@ EXCEPT !.valid = FALSE,
                                                      !.deleted = ExtError /\ sems[call[t].s].attrs]]
    <3>1. /\ DOMAIN sems' = Sems
          /\ \A s \in Sems :
               /\ DOMAIN sems'[s] = Fields /\ sems'[s].limit = sems[s].limit
               /\ sems'[s].num_locks = sems[s].num_locks
               /\ sems'[s].locked = sems[s].locked /\ sems'[s].holder = sems[s].holder
               /\ sems'[s].lvalid = sems[s].lvalid /\ sems'[s].refs = sems[s].refs
      BY <2>2
    <3> QED BY <3>1
  <2> QED BY <1>29, <2>1, <2>2 DEF Delete
<1>30. CASE CreateSearch(t)
  <2>1. CASE sems' = sems
    BY <2>1
  <2>2. ASSUME NEW s \in Sems, sems' = [sems EXCEPT ![s] = [Wiped EXCEPT !.key = call[t].key,
                                                     !.type = call[t].type]]
        PROVE  EntryTypes'
    <3>1. /\ DOMAIN sems'[s] = Fields /\ sems'[s].limit = 0 /\ sems'[s].num_locks = 0
          /\ sems'[s].locked = Wiped.locked /\ sems'[s].holder = Wiped.holder
          /\ sems'[s].lvalid = Wiped.lvalid /\ sems'[s].refs = Wiped.refs
      BY <2>2
    <3>2. DOMAIN sems' = Sems /\ \A r \in Sems : r # s => sems'[r] = sems[r]
      BY <2>2
    <3>3. \A l \in Indices : sems'[s].locked[l] \in BOOLEAN
      BY <3>1
    <3>5. EntryTyped(s)'
      BY <3>1, <3>3
    <3>4. \A r \in Sems : r # s => EntryTyped(r)'
      BY <3>2
    <3> HIDE DEF EntryTyped
    <3> QED BY <3>2, <3>4, <3>5
  <2> QED BY <1>30, <2>1, <2>2 DEF CreateSearch
<1>31. CASE CreateSetup(t)
  BY <1>31, CreatorEntry
<1>32. CASE Finalize(t)
  BY <1>32 DEF Finalize
<1>33. CASE Initialize(t)
  BY <1>33 DEF Initialize
<1>34. CASE CreateEnd(t)
  <2>1. sems' = [sems EXCEPT ![call[t].s].attrs = TRUE]
    BY <1>34 DEF CreateEnd
  <2> QED BY <2>1
<1> HIDE DEF TypeInv, EntryTypes, EntryTyped, CallTypes, Locals, Fields, guardVars,
             nodeVars, histVars, Goto
<1> QED BY <1>1, <1>2, <1>3, <1>4, <1>5, <1>6, <1>7, <1>8, <1>9, <1>10, <1>11, <1>12,
           <1>13, <1>14, <1>15, <1>16, <1>17, <1>18, <1>19, <1>20, <1>21, <1>22, <1>23,
           <1>24, <1>25, <1>26, <1>27, <1>28, <1>29, <1>30, <1>31, <1>32,
           <1>33, <1>34 DEF Calling, Inside, Waiting

\* Every step keeps the types of the histories.
LEMMA HistoryTyped ==
  ASSUME TypeInv, EntryTypes, CallTypes, HistoryTypes, NEW t \in Nodes,
         Calling(t) \/ Inside(t) \/ Waiting(t) \/ Finalize(t) \/ Initialize(t)
  PROVE  HistoryTypes'
<1> USE LocksAssumption DEF TypeInv, EntryTypes, EntryTyped, CallTypes, HistoryTypes,
                            Locals, guardVars, nodeVars, histVars, Goto
<1>1. ASSUME NEW s \in Sems, NEW m \in Timeouts, CallLock(t, s, m)
      PROVE  HistoryTypes'
  BY <1>1 DEF CallLock, Call
<1>2. ASSUME NEW s \in Sems, NEW m \in Timeouts, CallMutexLock(t, s, m)
      PROVE  HistoryTypes'
  BY <1>2 DEF CallMutexLock, Call
<1>3. ASSUME NEW s \in Sems, NEW m \in Nat, NEW op \in {"lock", "unlock"},
             CallWriter(t, s, op, m)
      PROVE  HistoryTypes'
  BY <1>3 DEF CallWriter, Call
<1>4. ASSUME NEW s \in Sems, NEW op \in {"unlock", "post"}, CallUnlock(t, s, op)
      PROVE  HistoryTypes'
  BY <1>4 DEF CallUnlock, Call
<1>5. ASSUME NEW s \in Sems, NEW key \in 0 .. MaxDepth, CallMutexUnlock(t, s, key)
      PROVE  HistoryTypes'
  BY <1>5 DEF CallMutexUnlock, Call
<1>6. ASSUME NEW s \in Sems, Deletes, CallDelete(t, s)
      PROVE  HistoryTypes'
  BY <1>6 DEF CallDelete, Call
<1>7. ASSUME NEW w \in Waits, NEW m \in Timeouts, CallMultiple(t, w, m)
      PROVE  HistoryTypes'
  BY <1>7 DEF CallMultiple, Call
<1>8. ASSUME NEW key \in Keys, NEW type \in Types, NEW n \in 0 .. MaxShared - 1,
             CallCreate(t, key, type, n)
      PROVE  HistoryTypes'
  BY <1>8 DEF CallCreate
<1>9. ASSUME NEW key \in Keys, Get(t, key)
      PROVE  HistoryTypes'
  BY <1>9 DEF Get
<1>10. CASE Probe(t)
  BY <1>10 DEF Probe
<1>11. CASE Enter(t)
  BY <1>11 DEF Enter
<1>12. CASE EnterMultiple(t)
  BY <1>12 DEF EnterMultiple
<1>13. CASE Return(t)
  BY <1>13 DEF Return
<1>14. CASE WriterLimit(t)
  BY <1>14 DEF WriterLimit
<1>15. CASE LockTest(t)
  BY <1>15 DEF LockTest
<1>16. CASE LockScan(t)
  BY <1>16 DEF LockScan
<1>17. CASE LockTake(t)
  BY <1>17 DEF LockTake
<1>18. CASE LockReturn(t)
  BY <1>18 DEF LockReturn
<1>19. CASE Yield(t)
  BY <1>19 DEF Yield
<1>20. CASE Again(t)
  BY <1>20 DEF Again
<1>21. CASE AgainMultiple(t)
  BY <1>21 DEF AgainMultiple
<1>22. CASE NextSem(t)
  BY <1>22 DEF NextSem
<1>23. CASE Revert(t)
  BY <1>23 DEF Revert
<1>24. CASE UnlockTest(t)
  BY <1>24 DEF UnlockTest
<1>25. CASE UnlockClear(t)
  BY <1>25 DEF UnlockClear
<1>26. CASE UnlockReturn(t)
  BY <1>26 DEF UnlockReturn
<1>27. CASE MutexLock(t)
  BY <1>27 DEF MutexLock
<1>28. CASE MutexUnlock(t)
  BY <1>28 DEF MutexUnlock
<1>29. CASE Delete(t)
  <2>1. \/ held' = [held EXCEPT ![t][call[t].s] = 0] /\ keys' = [keys EXCEPT ![t][call[t].s] = {}]
        \/ held' = held /\ keys' = keys
    BY <1>29 DEF Delete
  <2>2. UNCHANGED <<out, born, known>>
    BY <1>29 DEF Delete
  <2>3. CASE held' = held /\ keys' = keys
    BY <2>2, <2>3
  <2>4. CASE held' = [held EXCEPT ![t][call[t].s] = 0] /\ keys' = [keys EXCEPT ![t][call[t].s] = {}]
    BY <2>2, <2>4
  <2> QED BY <2>1, <2>3, <2>4
<1>30. CASE CreateSearch(t)
  <2>1. CASE UNCHANGED histVars
    BY <2>1
  <2>2. ASSUME NEW s \in Sems, born' = [born EXCEPT ![s] = @ + 1],
               held' = [u \in Nodes |-> [held[u] EXCEPT ![s] = 0]],
               keys' = [u \in Nodes |-> [keys[u] EXCEPT ![s] = {}]],
               out' = [out EXCEPT ![s] = call[t].n], known' = known
        PROVE  HistoryTypes'
    <3>1. born' \in [Sems -> Nat] /\ out' \in [Sems -> Int]
      BY <2>2
    <3>2. held' \in [Nodes -> [Sems -> Int]]
      BY <2>2
    <3>3. DOMAIN keys' = Nodes /\ \A u \in Nodes : DOMAIN keys'[u] = Sems
      BY <2>2
    <3> QED BY <2>2, <3>1, <3>2, <3>3
  <2> QED BY <1>30, <2>1, <2>2 DEF CreateSearch
<1>31. CASE CreateSetup(t)
  BY <1>31, CreatorEffect
<1>32. CASE Finalize(t)
  BY <1>32 DEF Finalize
<1>33. CASE Initialize(t)
  BY <1>33 DEF Initialize
<1>34. CASE CreateEnd(t)
  BY <1>34 DEF CreateEnd
<1> HIDE DEF TypeInv, EntryTypes, EntryTyped, CallTypes, HistoryTypes, Locals, guardVars,
             nodeVars, histVars, Goto
<1> QED BY <1>1, <1>2, <1>3, <1>4, <1>5, <1>6, <1>7, <1>8, <1>9, <1>10, <1>11, <1>12,
           <1>13, <1>14, <1>15, <1>16, <1>17, <1>18, <1>19, <1>20, <1>21, <1>22, <1>23,
           <1>24, <1>25, <1>26, <1>27, <1>28, <1>29, <1>30, <1>31, <1>32,
           <1>33, <1>34 DEF Calling, Inside, Waiting

-----------------------------------------------------------------------------
\* What a step does to the births: nothing, unless it creates or deletes.
SameBirths ==
  born' = born /\ \A s \in Sems : /\ sems'[s].valid <=> sems[s].valid
                                  /\ sems'[s].deleted <=> sems[s].deleted
                                  /\ sems'[s].attrs <=> sems[s].attrs

\* The steps that change whether an entry exists.
Births(t) == Delete(t) \/ CreateSearch(t) \/ CreateSetup(t) \/ CreateEnd(t)

\* Only a delete and a create change whether an entry exists.
LEMMA BirthEffect ==
  ASSUME TypeInv, CallsAgree, EntryTypes, CallTypes, HistoryTypes, NEW t \in Nodes,
         Calling(t) \/ Inside(t) \/ Waiting(t) \/ Finalize(t) \/ Initialize(t)
  PROVE  SameBirths \/ Births(t)
<1> USE LocksAssumption DEF SameBirths, TypeInv, CallsAgree, WaitsMultiple, EntryTypes,
                            EntryTyped, CallTypes, HistoryTypes, Locals, Fields, guardVars,
                            nodeVars, histVars, Goto
<1>1. ASSUME NEW s \in Sems, NEW m \in Timeouts, CallLock(t, s, m)
      PROVE  SameBirths \/ Births(t)
  BY <1>1 DEF CallLock, Call
<1>2. ASSUME NEW s \in Sems, NEW m \in Timeouts, CallMutexLock(t, s, m)
      PROVE  SameBirths \/ Births(t)
  BY <1>2 DEF CallMutexLock, Call
<1>3. ASSUME NEW s \in Sems, NEW m \in Nat, NEW op \in {"lock", "unlock"},
             CallWriter(t, s, op, m)
      PROVE  SameBirths \/ Births(t)
  BY <1>3 DEF CallWriter, Call
<1>4. ASSUME NEW s \in Sems, NEW op \in {"unlock", "post"}, CallUnlock(t, s, op)
      PROVE  SameBirths \/ Births(t)
  BY <1>4 DEF CallUnlock, Call
<1>5. ASSUME NEW s \in Sems, NEW key \in 0 .. MaxDepth, CallMutexUnlock(t, s, key)
      PROVE  SameBirths \/ Births(t)
  BY <1>5 DEF CallMutexUnlock, Call
<1>6. ASSUME NEW s \in Sems, Deletes, CallDelete(t, s)
      PROVE  SameBirths \/ Births(t)
  BY <1>6 DEF CallDelete, Call
<1>7. ASSUME NEW w \in Waits, NEW m \in Timeouts, CallMultiple(t, w, m)
      PROVE  SameBirths \/ Births(t)
  BY <1>7 DEF CallMultiple, Call
<1>8. ASSUME NEW key \in Keys, NEW type \in Types, NEW n \in 0 .. MaxShared - 1,
             CallCreate(t, key, type, n)
      PROVE  SameBirths \/ Births(t)
  BY <1>8 DEF CallCreate
<1>9. ASSUME NEW key \in Keys, Get(t, key)
      PROVE  SameBirths \/ Births(t)
  <2>1. \A s \in Sems : /\ sems'[s].valid = sems[s].valid /\ sems'[s].deleted = sems[s].deleted
                        /\ sems'[s].attrs = sems[s].attrs
    BY <1>9 DEF Get
  <2>2. born' = born
    BY <1>9 DEF Get
  <2> QED BY <2>1, <2>2
<1>10. CASE Probe(t)
  BY <1>10 DEF Probe
<1>11. CASE Enter(t)
  BY <1>11 DEF Enter
<1>12. CASE EnterMultiple(t)
  BY <1>12 DEF EnterMultiple
<1>13. CASE Return(t)
  BY <1>13 DEF Return
<1>14. CASE WriterLimit(t)
  BY <1>14 DEF WriterLimit
<1>15. CASE LockTest(t)
  BY <1>15 DEF LockTest
<1>16. CASE LockScan(t)
  BY <1>16 DEF LockScan
<1>17. CASE LockTake(t)
  <2>1. \A s \in Sems : /\ sems'[s].valid = sems[s].valid /\ sems'[s].deleted = sems[s].deleted
                        /\ sems'[s].attrs = sems[s].attrs
    BY <1>17 DEF LockTake
  <2>2. born' = born
    BY <1>17 DEF LockTake
  <2> QED BY <2>1, <2>2
<1>18. CASE LockReturn(t)
  BY <1>18 DEF LockReturn
<1>19. CASE Yield(t)
  BY <1>19 DEF Yield
<1>20. CASE Again(t)
  BY <1>20 DEF Again
<1>21. CASE AgainMultiple(t)
  BY <1>21 DEF AgainMultiple
<1>22. CASE NextSem(t)
  BY <1>22 DEF NextSem
<1>23. CASE Revert(t)
  BY <1>23 DEF Revert
<1>24. CASE UnlockTest(t)
  <2>1. CASE sems' = sems
    BY <1>24, <2>1 DEF UnlockTest
  <2>2. CASE sems' = [sems EXCEPT ![call[t].s].num_locks = @ - call[t].n]
    <3>1. \A s \in Sems : /\ sems'[s].valid = sems[s].valid /\ sems'[s].deleted = sems[s].deleted
                        /\ sems'[s].attrs = sems[s].attrs
      BY <2>2
    <3>2. born' = born
      BY <1>24 DEF UnlockTest
    <3> QED BY <3>1, <3>2
  <2> QED BY <1>24, <2>1, <2>2 DEF UnlockTest
<1>25. CASE UnlockClear(t)
  <2>1. CASE sems' = sems
    BY <1>25, <2>1 DEF UnlockClear
  <2>2. CASE sems' = [sems EXCEPT ![call[t].s].locked[call[t].l] = FALSE]
    <3>1. \A s \in Sems : /\ sems'[s].valid = sems[s].valid /\ sems'[s].deleted = sems[s].deleted
                        /\ sems'[s].attrs = sems[s].attrs
      BY <2>2
    <3>2. born' = born
      BY <1>25 DEF UnlockClear
    <3> QED BY <3>1, <3>2
  <2> QED BY <1>25, <2>1, <2>2 DEF UnlockClear
<1>26. CASE UnlockReturn(t)
  BY <1>26 DEF UnlockReturn
<1>27. CASE MutexLock(t)
  <2>1. CASE sems' = sems
    BY <1>27, <2>1 DEF MutexLock
  <2>2. CASE sems' = [sems EXCEPT ![call[t].s].lock_key = @ + 1]
    <3>1. \A s \in Sems : /\ sems'[s].valid = sems[s].valid /\ sems'[s].deleted = sems[s].deleted
                        /\ sems'[s].attrs = sems[s].attrs
      BY <2>2
    <3>2. born' = born
      BY <1>27 DEF MutexLock
    <3> QED BY <3>1, <3>2
  <2> QED BY <1>27, <2>1, <2>2 DEF MutexLock
<1>28. CASE MutexUnlock(t)
  <2>1. CASE sems' = sems
    BY <1>28, <2>1 DEF MutexUnlock
  <2>2. CASE sems' = [sems EXCEPT ![call[t].s].lock_key = @ - 1]
    <3>1. \A s \in Sems : /\ sems'[s].valid = sems[s].valid /\ sems'[s].deleted = sems[s].deleted
                        /\ sems'[s].attrs = sems[s].attrs
      BY <2>2
    <3>2. born' = born
      BY <1>28 DEF MutexUnlock
    <3> QED BY <3>1, <3>2
  <2> QED BY <1>28, <2>1, <2>2 DEF MutexUnlock
<1>29. CASE Delete(t)
  BY <1>29 DEF Births
<1>30. CASE CreateSearch(t)
  BY <1>30 DEF Births
<1>31. CASE CreateSetup(t)
  BY <1>31 DEF Births
<1>32. CASE Finalize(t)
  BY <1>32 DEF Finalize
<1>33. CASE Initialize(t)
  BY <1>33 DEF Initialize
<1>34. CASE CreateEnd(t)
  BY <1>34 DEF Births
<1> HIDE DEF SameBirths, TypeInv, CallsAgree, WaitsMultiple, EntryTypes, EntryTyped,
             CallTypes, HistoryTypes, Locals, Fields, guardVars, nodeVars, histVars, Goto
<1> QED BY <1>1, <1>2, <1>3, <1>4, <1>5, <1>6, <1>7, <1>8, <1>9, <1>10, <1>11, <1>12,
           <1>13, <1>14, <1>15, <1>16, <1>17, <1>18, <1>19, <1>20, <1>21, <1>22, <1>23,
           <1>24, <1>25, <1>26, <1>27, <1>28, <1>29, <1>30, <1>31, <1>32,
           <1>33, <1>34 DEF Calling, Inside, Waiting

\* What a step does to the calls: one goes on, ends, or begins on entries the
\* node has valid handles for.
CallEffect(t) ==
  /\ \A u \in Nodes : u # t => pc'[u] = pc[u] /\ call'[u] = call[u]
  /\ \/ pc'[t] \in Creations \cup {"idle"}
     \/ /\ Active(t) /\ call'[t].wait = call[t].wait
        /\ call'[t].s = call[t].s \/ call[t].wait # "one"
     \/ /\ pc[t] = "idle"
        /\ \A s \in Sems : s = call'[t].s \/ call'[t].wait # "one" =>
             sems[s].valid /\ known[t][s] = born[s] /\ (Early \/ sems[s].attrs)
  /\ ~Deletes /\ call[t].op # "delete" /\ pc[t] # "delete" =>
       call'[t].op # "delete" /\ pc'[t] # "delete"

\* Every step has that effect.
LEMMA CallStep ==
  ASSUME TypeInv, CallsAgree, EntryTypes, CallTypes, HistoryTypes, NEW t \in Nodes,
         Calling(t) \/ Inside(t) \/ Waiting(t) \/ Finalize(t) \/ Initialize(t)
  PROVE  CallEffect(t)
<1> USE LocksAssumption, EndTyped DEF CallEffect, Active, Creations, Setups, End, TypeInv, CallsAgree,
                                      WaitsMultiple, EntryTypes, EntryTyped, CallTypes,
                                      HistoryTypes, Locals, Fields, guardVars, nodeVars,
                                      histVars, Goto
<1>1. ASSUME NEW s \in Sems, NEW m \in Timeouts, CallLock(t, s, m)
      PROVE  CallEffect(t)
  BY <1>1 DEF CallLock, Call, NoCall
<1>2. ASSUME NEW s \in Sems, NEW m \in Timeouts, CallMutexLock(t, s, m)
      PROVE  CallEffect(t)
  BY <1>2 DEF CallMutexLock, Call, NoCall
<1>3. ASSUME NEW s \in Sems, NEW m \in Nat, NEW op \in {"lock", "unlock"},
             CallWriter(t, s, op, m)
      PROVE  CallEffect(t)
  BY <1>3 DEF CallWriter, Call, NoCall
<1>4. ASSUME NEW s \in Sems, NEW op \in {"unlock", "post"}, CallUnlock(t, s, op)
      PROVE  CallEffect(t)
  BY <1>4 DEF CallUnlock, Call, NoCall
<1>5. ASSUME NEW s \in Sems, NEW key \in 0 .. MaxDepth, CallMutexUnlock(t, s, key)
      PROVE  CallEffect(t)
  BY <1>5 DEF CallMutexUnlock, Call, NoCall
<1>6. ASSUME NEW s \in Sems, Deletes, CallDelete(t, s)
      PROVE  CallEffect(t)
  BY <1>6 DEF CallDelete, Call, NoCall
<1>7. ASSUME NEW w \in Waits, NEW m \in Timeouts, CallMultiple(t, w, m)
      PROVE  CallEffect(t)
  BY <1>7 DEF CallMultiple, Call, NoCall
<1>8. ASSUME NEW key \in Keys, NEW type \in Types, NEW n \in 0 .. MaxShared - 1,
             CallCreate(t, key, type, n)
      PROVE  CallEffect(t)
  BY <1>8 DEF CallCreate, NoCall
<1>9. ASSUME NEW key \in Keys, Get(t, key)
      PROVE  CallEffect(t)
  BY <1>9 DEF Get
<1>10. CASE Probe(t)
  BY <1>10 DEF Probe
<1>11. CASE Enter(t)
  BY <1>11 DEF Enter
<1>12. CASE EnterMultiple(t)
  BY <1>12 DEF EnterMultiple
<1>13. CASE Return(t)
  BY <1>13 DEF Return
<1>14. CASE WriterLimit(t)
  BY <1>14 DEF WriterLimit
<1>15. CASE LockTest(t)
  BY <1>15 DEF LockTest
<1>16. CASE LockScan(t)
  <2>1. \A u \in Nodes : u # t => pc'[u] = pc[u] /\ call'[u] = call[u]
    BY <1>16 DEF LockScan
  <2>2. \/ Active(t) /\ call'[t].s = call[t].s /\ call'[t].wait = call[t].wait /\ call'[t].op = call[t].op
    BY <1>16 DEF LockScan
  <2>3. pc'[t] # "delete"
    BY <1>16 DEF LockScan
  <2> QED BY <2>1, <2>2, <2>3
<1>17. CASE LockTake(t)
  BY <1>17 DEF LockTake
<1>18. CASE LockReturn(t)
  BY <1>18 DEF LockReturn
<1>19. CASE Yield(t)
  BY <1>19 DEF Yield
<1>20. CASE Again(t)
  BY <1>20 DEF Again
<1>21. CASE AgainMultiple(t)
  BY <1>21 DEF AgainMultiple
<1>22. CASE NextSem(t)
  BY <1>22 DEF NextSem
<1>23. CASE Revert(t)
  BY <1>23 DEF Revert
<1>24. CASE UnlockTest(t)
  <2>1. Active(t) /\ \A u \in Nodes : u # t => pc'[u] = pc[u] /\ call'[u] = call[u]
    BY <1>24 DEF UnlockTest
  <2>2. call'[t].s = call[t].s /\ call'[t].wait = call[t].wait /\ call'[t].op = call[t].op
    <3>1. CASE call' = [call EXCEPT ![t] = [@ EXCEPT !.l = 0, !.done = 0]]
      BY <3>1
    <3> QED BY <1>24, <3>1 DEF UnlockTest
  <2>3. pc'[t] # "delete"
    BY <1>24 DEF UnlockTest
  <2> QED BY <2>1, <2>2, <2>3
<1>25. CASE UnlockClear(t)
  <2>1. Active(t) /\ \A u \in Nodes : u # t => pc'[u] = pc[u] /\ call'[u] = call[u]
    BY <1>25 DEF UnlockClear
  <2>2. call'[t].s = call[t].s /\ call'[t].wait = call[t].wait /\ call'[t].op = call[t].op
    <3>1. CASE call' = [call EXCEPT ![t] = [call[t] EXCEPT !.l = @ + 1, !.done = @ + 1]]
      BY <3>1
    <3>2. CASE call' = [call EXCEPT ![t].l = @ + 1]
      BY <3>2
    <3> QED BY <1>25, <3>1, <3>2 DEF UnlockClear
  <2>3. pc'[t] # "delete"
    BY <1>25 DEF UnlockClear
  <2> QED BY <2>1, <2>2, <2>3
<1>26. CASE UnlockReturn(t)
  BY <1>26 DEF UnlockReturn
<1>27. CASE MutexLock(t)
  BY <1>27 DEF MutexLock
<1>28. CASE MutexUnlock(t)
  BY <1>28 DEF MutexUnlock
<1>29. CASE Delete(t)
  BY <1>29 DEF Delete
<1>30. CASE CreateSearch(t)
  <2>1. \A u \in Nodes : u # t => pc'[u] = pc[u] /\ call'[u] = call[u]
    BY <1>30 DEF CreateSearch
  <2>2. \/ pc'[t] \in {"idle", "log"} /\ call'[t].op # "delete"
        \/ pc'[t] \in {"idle", "log"} /\ call'[t].op = call[t].op
    BY <1>30 DEF CreateSearch
  <2> QED BY <2>1, <2>2
<1>31. CASE CreateSetup(t)
  <2>1. /\ \E q \in Setups : pc' = [pc EXCEPT ![t] = q]
        /\ \A u \in Nodes : u # t => call'[u] = call[u]
        /\ call'[t].op = call[t].op
    <3>1. "op" \in Locals \ {"l", "tmp"}
      OBVIOUS
    <3> HIDE DEF Locals, TypeInv, Setups
    <3> QED BY <1>31, <3>1, CreatorEffect
  <2> QED BY <2>1
<1>32. CASE Finalize(t)
  BY <1>32 DEF Finalize
<1>33. CASE Initialize(t)
  BY <1>33 DEF Initialize
<1>34. CASE CreateEnd(t)
  BY <1>34 DEF CreateEnd
<1> HIDE DEF CallEffect, Active, Creations, Setups, End, TypeInv, CallsAgree, WaitsMultiple, EntryTypes,
             EntryTyped, CallTypes, HistoryTypes, Locals, Fields, guardVars, nodeVars,
             histVars, Goto
<1> QED BY <1>1, <1>2, <1>3, <1>4, <1>5, <1>6, <1>7, <1>8, <1>9, <1>10, <1>11, <1>12,
           <1>13, <1>14, <1>15, <1>16, <1>17, <1>18, <1>19, <1>20, <1>21, <1>22, <1>23,
           <1>24, <1>25, <1>26, <1>27, <1>28, <1>29, <1>30, <1>31, <1>32,
           <1>33, <1>34 DEF Calling, Inside, Waiting

\* What a step does to the handles: a node gets one, or loses all of its own.
HandleEffect(t) ==
  \A u \in Nodes, s \in Sems :
    \/ known'[u][s] = known[u][s]
    \/ known'[u][s] = born'[s]
    \/ u = t /\ pc'[t] = "idle"

\* Every step has that effect.
LEMMA HandleStep ==
  ASSUME TypeInv, CallsAgree, EntryTypes, CallTypes, HistoryTypes, NEW t \in Nodes,
         Calling(t) \/ Inside(t) \/ Waiting(t) \/ Finalize(t) \/ Initialize(t)
  PROVE  HandleEffect(t)
<1> USE LocksAssumption DEF HandleEffect, TypeInv, CallsAgree, WaitsMultiple, EntryTypes,
                            EntryTyped, CallTypes, HistoryTypes, Locals, Fields, guardVars,
                            nodeVars, histVars, Goto
<1>1. ASSUME NEW s \in Sems, NEW m \in Timeouts, CallLock(t, s, m)
      PROVE  HandleEffect(t)
  BY <1>1 DEF CallLock, Call
<1>2. ASSUME NEW s \in Sems, NEW m \in Timeouts, CallMutexLock(t, s, m)
      PROVE  HandleEffect(t)
  BY <1>2 DEF CallMutexLock, Call
<1>3. ASSUME NEW s \in Sems, NEW m \in Nat, NEW op \in {"lock", "unlock"},
             CallWriter(t, s, op, m)
      PROVE  HandleEffect(t)
  BY <1>3 DEF CallWriter, Call
<1>4. ASSUME NEW s \in Sems, NEW op \in {"unlock", "post"}, CallUnlock(t, s, op)
      PROVE  HandleEffect(t)
  BY <1>4 DEF CallUnlock, Call
<1>5. ASSUME NEW s \in Sems, NEW key \in 0 .. MaxDepth, CallMutexUnlock(t, s, key)
      PROVE  HandleEffect(t)
  BY <1>5 DEF CallMutexUnlock, Call
<1>6. ASSUME NEW s \in Sems, Deletes, CallDelete(t, s)
      PROVE  HandleEffect(t)
  BY <1>6 DEF CallDelete, Call
<1>7. ASSUME NEW w \in Waits, NEW m \in Timeouts, CallMultiple(t, w, m)
      PROVE  HandleEffect(t)
  BY <1>7 DEF CallMultiple, Call
<1>8. ASSUME NEW key \in Keys, NEW type \in Types, NEW n \in 0 .. MaxShared - 1,
             CallCreate(t, key, type, n)
      PROVE  HandleEffect(t)
  BY <1>8 DEF CallCreate
<1>9. ASSUME NEW key \in Keys, Get(t, key)
      PROVE  HandleEffect(t)
  BY <1>9 DEF Get
<1>10. CASE Probe(t)
  BY <1>10 DEF Probe
<1>11. CASE Enter(t)
  BY <1>11 DEF Enter
<1>12. CASE EnterMultiple(t)
  BY <1>12 DEF EnterMultiple
<1>13. CASE Return(t)
  BY <1>13 DEF Return
<1>14. CASE WriterLimit(t)
  BY <1>14 DEF WriterLimit
<1>15. CASE LockTest(t)
  BY <1>15 DEF LockTest
<1>16. CASE LockScan(t)
  BY <1>16 DEF LockScan
<1>17. CASE LockTake(t)
  BY <1>17 DEF LockTake
<1>18. CASE LockReturn(t)
  BY <1>18 DEF LockReturn
<1>19. CASE Yield(t)
  BY <1>19 DEF Yield
<1>20. CASE Again(t)
  BY <1>20 DEF Again
<1>21. CASE AgainMultiple(t)
  BY <1>21 DEF AgainMultiple
<1>22. CASE NextSem(t)
  BY <1>22 DEF NextSem
<1>23. CASE Revert(t)
  BY <1>23 DEF Revert
<1>24. CASE UnlockTest(t)
  BY <1>24 DEF UnlockTest
<1>25. CASE UnlockClear(t)
  BY <1>25 DEF UnlockClear
<1>26. CASE UnlockReturn(t)
  BY <1>26 DEF UnlockReturn
<1>27. CASE MutexLock(t)
  BY <1>27 DEF MutexLock
<1>28. CASE MutexUnlock(t)
  BY <1>28 DEF MutexUnlock
<1>29. CASE Delete(t)
  BY <1>29 DEF Delete
<1>30. CASE CreateSearch(t)
  BY <1>30 DEF CreateSearch
<1>31. CASE CreateSetup(t)
  BY <1>31, CreatorEffect
<1>32. CASE Finalize(t)
  BY <1>32 DEF Finalize
<1>33. CASE Initialize(t)
  BY <1>33 DEF Initialize
<1>34. CASE CreateEnd(t)
  BY <1>34 DEF CreateEnd
<1> HIDE DEF HandleEffect, TypeInv, CallsAgree, WaitsMultiple, EntryTypes, EntryTyped,
             CallTypes, HistoryTypes, Locals, Fields, guardVars, nodeVars, histVars, Goto
<1> QED BY <1>1, <1>2, <1>3, <1>4, <1>5, <1>6, <1>7, <1>8, <1>9, <1>10, <1>11, <1>12,
           <1>13, <1>14, <1>15, <1>16, <1>17, <1>18, <1>19, <1>20, <1>21, <1>22, <1>23,
           <1>24, <1>25, <1>26, <1>27, <1>28, <1>29, <1>30, <1>31, <1>32,
           <1>33, <1>34 DEF Calling, Inside, Waiting

\* What a step does to the global guard.
GlobalEffect(t) ==
  \/ global' = global /\ pc'[t] \notin Creations /\ pc[t] \notin Creations
  \/ global' = global /\ pc'[t] = pc[t] /\ call'[t] = call[t]
  \/ /\ global = NoNode /\ global' = t /\ pc'[t] = "create"
     /\ call'[t].n < MaxShared /\ (call'[t].n # 0 => call'[t].type = "sem") /\ call'[t].l = 0
  \/ CreateSearch(t) \/ CreateSetup(t) \/ CreateEnd(t)

\* Every step has that effect.
LEMMA GlobalStep ==
  ASSUME TypeInv, CallsAgree, EntryTypes, CallTypes, HistoryTypes, NEW t \in Nodes,
         Calling(t) \/ Inside(t) \/ Waiting(t) \/ Finalize(t) \/ Initialize(t)
  PROVE  GlobalEffect(t)
<1> USE LocksAssumption DEF GlobalEffect, Creations, Setups, TypeInv, CallsAgree, WaitsMultiple, EntryTypes,
                            EntryTyped, CallTypes, HistoryTypes, Locals, Fields, guardVars,
                            nodeVars, histVars, Goto
<1>1. ASSUME NEW s \in Sems, NEW m \in Timeouts, CallLock(t, s, m)
      PROVE  GlobalEffect(t)
  BY <1>1 DEF CallLock, Call
<1>2. ASSUME NEW s \in Sems, NEW m \in Timeouts, CallMutexLock(t, s, m)
      PROVE  GlobalEffect(t)
  BY <1>2 DEF CallMutexLock, Call
<1>3. ASSUME NEW s \in Sems, NEW m \in Nat, NEW op \in {"lock", "unlock"},
             CallWriter(t, s, op, m)
      PROVE  GlobalEffect(t)
  BY <1>3 DEF CallWriter, Call
<1>4. ASSUME NEW s \in Sems, NEW op \in {"unlock", "post"}, CallUnlock(t, s, op)
      PROVE  GlobalEffect(t)
  BY <1>4 DEF CallUnlock, Call
<1>5. ASSUME NEW s \in Sems, NEW key \in 0 .. MaxDepth, CallMutexUnlock(t, s, key)
      PROVE  GlobalEffect(t)
  BY <1>5 DEF CallMutexUnlock, Call
<1>6. ASSUME NEW s \in Sems, Deletes, CallDelete(t, s)
      PROVE  GlobalEffect(t)
  BY <1>6 DEF CallDelete, Call
<1>7. ASSUME NEW w \in Waits, NEW m \in Timeouts, CallMultiple(t, w, m)
      PROVE  GlobalEffect(t)
  BY <1>7 DEF CallMultiple, Call
<1>8. ASSUME NEW key \in Keys, NEW type \in Types, NEW n \in 0 .. MaxShared - 1,
             CallCreate(t, key, type, n)
      PROVE  GlobalEffect(t)
  BY <1>8 DEF CallCreate, NoCall
<1>9. ASSUME NEW key \in Keys, Get(t, key)
      PROVE  GlobalEffect(t)
  BY <1>9 DEF Get
<1>10. CASE Probe(t)
  BY <1>10 DEF Probe
<1>11. CASE Enter(t)
  <2>1. call[t].op \in {"lock", "unlock", "post", "mlock", "munlock", "delete"}
    BY <1>11 DEF Enter, WaitsOne
  <2> QED BY <1>11, <2>1 DEF Enter
<1>12. CASE EnterMultiple(t)
  BY <1>12 DEF EnterMultiple
<1>13. CASE Return(t)
  BY <1>13 DEF Return
<1>14. CASE WriterLimit(t)
  BY <1>14 DEF WriterLimit
<1>15. CASE LockTest(t)
  BY <1>15 DEF LockTest
<1>16. CASE LockScan(t)
  BY <1>16 DEF LockScan
<1>17. CASE LockTake(t)
  BY <1>17 DEF LockTake
<1>18. CASE LockReturn(t)
  BY <1>18 DEF LockReturn
<1>19. CASE Yield(t)
  BY <1>19 DEF Yield
<1>20. CASE Again(t)
  BY <1>20 DEF Again
<1>21. CASE AgainMultiple(t)
  BY <1>21 DEF AgainMultiple
<1>22. CASE NextSem(t)
  BY <1>22 DEF NextSem
<1>23. CASE Revert(t)
  BY <1>23 DEF Revert
<1>24. CASE UnlockTest(t)
  BY <1>24 DEF UnlockTest
<1>25. CASE UnlockClear(t)
  BY <1>25 DEF UnlockClear
<1>26. CASE UnlockReturn(t)
  BY <1>26 DEF UnlockReturn
<1>27. CASE MutexLock(t)
  BY <1>27 DEF MutexLock
<1>28. CASE MutexUnlock(t)
  BY <1>28 DEF MutexUnlock
<1>29. CASE Delete(t)
  BY <1>29 DEF Delete
<1>30. CASE CreateSearch(t)
  BY <1>30
<1>31. CASE CreateSetup(t)
  BY <1>31
<1>32. CASE Finalize(t)
  BY <1>32 DEF Finalize
<1>33. CASE Initialize(t)
  BY <1>33 DEF Initialize
<1>34. CASE CreateEnd(t)
  BY <1>34
<1> HIDE DEF GlobalEffect, TypeInv, CallsAgree, WaitsMultiple, EntryTypes, EntryTyped,
             CallTypes, HistoryTypes, Locals, Fields, guardVars, nodeVars, histVars, Goto
<1> QED BY <1>1, <1>2, <1>3, <1>4, <1>5, <1>6, <1>7, <1>8, <1>9, <1>10, <1>11, <1>12,
           <1>13, <1>14, <1>15, <1>16, <1>17, <1>18, <1>19, <1>20, <1>21, <1>22, <1>23,
           <1>24, <1>25, <1>26, <1>27, <1>28, <1>29, <1>30, <1>31, <1>32,
           <1>33, <1>34 DEF Calling, Inside, Waiting

\* Creating stays under the global guard, and no delete meets an entry that is
\* being created.
LEMMA CreatingStep ==
  ASSUME Once, TypeInv, CallsAgree, BirthInv, NEW t \in Nodes,
         Calling(t) \/ Inside(t) \/ Waiting(t) \/ Finalize(t) \/ Initialize(t)
  PROVE  Creating'
<1> USE DEF BirthInv
<1>1. /\ \A u \in Nodes : u # t => pc'[u] = pc[u] /\ call'[u] = call[u]
      /\ SameBirths \/ Births(t)
      /\ GlobalEffect(t)
  BY CallStep, BirthEffect, GlobalStep DEF CallEffect
<1>2. \A u \in Nodes : u # t /\ pc[u] \in Creations =>
        global = u /\ global # t /\ global # NoNode
  BY DEF Creating, Nodes, NoNode
<1>3. ASSUME pc[t] \in Creations PROVE \A u \in Nodes : u # t => pc'[u] \notin Creations
  BY <1>1, <1>2, <1>3 DEF Creating
<1>4. Setups \subseteq Creations /\ Building \subseteq Setups /\ "create" \in Creations
      /\ "idle" \notin Creations /\ "create" \notin Setups
  BY DEF Creations, Setups, Building
<1>5. CASE CreateSetup(t)
  <2>1. /\ pc[t] \in Setups /\ pc'[t] \in Setups /\ global' = global /\ born' = born
        /\ call'[t].s = call[t].s /\ call'[t].n = call[t].n /\ call'[t].type = call[t].type
    BY <1>5, CreatorEffect DEF Locals, TypeInv
  <2>2. /\ sems'[call[t].s].deleted = sems[call[t].s].deleted
        /\ sems'[call[t].s].attrs = sems[call[t].s].attrs
        /\ pc'[t] \in Building => sems'[call[t].s].valid
    BY <1>5, CreatorEntry DEF Creating
  <2> QED BY <1>3, <1>4, <2>1, <2>2 DEF Creating
<1>6. CASE CreateSearch(t)
  <2>1. pc[t] = "create"
    BY <1>6 DEF CreateSearch
  <2>2. \A u \in Nodes : u # t => pc'[u] \notin Creations
    BY <1>3, <1>4, <2>1
  <2>3. CASE pc'[t] = "idle"
    BY <1>4, <2>2, <2>3 DEF Creating
  <2>4. ASSUME NEW s \in Sems, ~sems[s].valid, ~sems[s].deleted, global' = global,
               sems' = [sems EXCEPT ![s] = [Wiped EXCEPT !.key = call[t].key, !.type = call[t].type]],
               call' = [call EXCEPT ![t].s = s], born' = [born EXCEPT ![s] = @ + 1],
               pc' = [pc EXCEPT ![t] = "log"]
        PROVE  Creating'
    <3>1. born[s] = 0
      <4>1. \A u \in Nodes : pc[u] \notin Setups
        BY <1>2, <1>4, <2>1 DEF Creating, Setups
      <4> QED BY <2>4, <4>1 DEF BornOnce
    <3>2. born'[s] = 1
      BY <2>4, <3>1 DEF HistoryTypes
    <3>3. ~sems'[s].deleted /\ ~sems'[s].attrs
      BY <2>4, WipedTyped DEF EntryTypes, EntryTyped, Fields
    <3>4. call'[t].s = s /\ call'[t].n = call[t].n /\ call'[t].type = call[t].type /\ pc'[t] = "log"
      BY <2>4 DEF TypeInv, Locals
    <3> QED BY <1>4, <2>1, <2>2, <2>4, <3>2, <3>3, <3>4 DEF Creating, Building
  <2> QED BY <1>6, <2>3, <2>4 DEF CreateSearch, TypeInv
<1>7. CASE CreateEnd(t)
  <2>1. pc[t] \in Setups /\ pc'[t] = "idle"
    BY <1>7 DEF CreateEnd, Goto, Setups, TypeInv
  <2> QED BY <1>3, <1>4, <2>1 DEF Creating
<1>8. CASE ~CreateSetup(t) /\ ~CreateSearch(t) /\ ~CreateEnd(t)
  <2>1. ASSUME NEW u \in Nodes, pc[u] \in Setups
        PROVE  /\ born'[call[u].s] = 1 /\ ~sems'[call[u].s].deleted /\ ~sems'[call[u].s].attrs
               /\ pc[u] \in Building => sems'[call[u].s].valid
    <3>1. CASE SameBirths
      BY <2>1, <3>1 DEF SameBirths, Creating, TypeInv
    <3>2. CASE Delete(t)
      <4>1. pc[t] = "delete"
        BY <3>2 DEF Delete, Goto
      <4>2. ~Early
        BY <4>1 DEF Once, BornOnce
      <4>3. sems[call[t].s].attrs
        BY <4>1, <4>2 DEF BornOnce, Active, About, Creations, Setups, TypeInv
      <4>4. call[t].s # call[u].s
        BY <2>1, <4>3 DEF Creating
      <4>5. sems'[call[u].s] = sems[call[u].s] /\ born' = born
        BY <3>2, <4>4 DEF Delete, EntryTypes, TypeInv
      <4> QED BY <2>1, <4>5 DEF Creating
    <3> QED BY <1>1, <1>8, <3>1, <3>2 DEF Births
  <2>2. ASSUME NEW u \in Nodes, u # t, pc'[u] \in Creations
        PROVE  global' = u
    BY <1>1, <1>2, <1>8, <2>2 DEF GlobalEffect
  <2>3. CASE global' = global /\ pc'[t] = pc[t] /\ call'[t] = call[t]
    BY <1>1, <1>4, <2>1, <2>2, <2>3 DEF Creating
  <2>4. CASE pc'[t] \notin Creations
    BY <1>1, <1>4, <2>1, <2>2, <2>4 DEF Creating
  <2>5. CASE /\ global = NoNode /\ global' = t /\ pc'[t] = "create"
             /\ call'[t].n < MaxShared /\ (call'[t].n # 0 => call'[t].type = "sem") /\ call'[t].l = 0
    <3>1. pc'[t] \notin Setups
      BY <2>5 DEF Setups
    <3> QED BY <1>1, <1>4, <2>1, <2>2, <2>5, <3>1 DEF Creating
  <2> QED BY <1>1, <1>8, <2>3, <2>4, <2>5 DEF GlobalEffect
<1> QED BY <1>5, <1>6, <1>7, <1>8

\* An entry is created once, and every call has handles of that creation.
LEMMA BornStep ==
  ASSUME Once, TypeInv, CallsAgree, BirthInv, NEW t \in Nodes,
         Calling(t) \/ Inside(t) \/ Waiting(t) \/ Finalize(t) \/ Initialize(t)
  PROVE  BornOnce'
<1> USE DEF BirthInv
<1>1. CallEffect(t) /\ HandleEffect(t) /\ (SameBirths \/ Births(t)) /\ GlobalEffect(t)
  BY CallStep, HandleStep, BirthEffect, GlobalStep
<1>0. \A u \in Nodes : u # t => pc'[u] = pc[u] /\ call'[u] = call[u]
  BY <1>1 DEF CallEffect
<1> DEFINE Fine(s) == /\ born'[s] \in {0, 1}
                      /\ born'[s] = 0 => ~sems'[s].valid /\ ~sems'[s].deleted
                      /\ born'[s] = 1 => \/ sems'[s].valid \/ sems'[s].deleted
                                         \/ \E u \in Nodes : pc'[u] \in Setups /\ call'[u].s = s
                      /\ born[s] = 1 => born'[s] = 1 /\ (sems[s].attrs => sems'[s].attrs)
<1>a. ASSUME NEW s \in Sems, born'[s] = born[s], sems'[s].valid <=> sems[s].valid,
             sems'[s].deleted <=> sems[s].deleted, sems'[s].attrs <=> sems[s].attrs,
             pc[t] \in Setups => pc'[t] \in Setups /\ call'[t].s = call[t].s
      PROVE  Fine(s)
  BY <1>0, <1>a DEF BornOnce
<1>b. \/ CreateSearch(t) \/ CreateEnd(t)
      \/ pc[t] \in Setups => pc'[t] \in Setups /\ call'[t].s = call[t].s
  <2>1. CASE CreateSetup(t)
    BY <2>1, CreatorEffect DEF Locals, TypeInv
  <2>2. CASE ~CreateSetup(t)
    BY <1>1, <2>2 DEF GlobalEffect, Creating, Creations, Nodes, NoNode
  <2> QED BY <2>1, <2>2
<1>2. \A s \in Sems : Fine(s)
  <2>1. CASE SameBirths /\ ~CreateSearch(t) /\ ~CreateEnd(t)
    BY <1>a, <1>b, <2>1 DEF SameBirths
  <2>2. CASE Delete(t)
    <3>1. pc[t] = "delete"
      BY <2>2 DEF Delete, Goto
    <3>2. born' = born /\ born[call[t].s] = 1 /\ (Early \/ sems[call[t].s].attrs)
          /\ pc[t] \notin Setups
      BY <2>2, <3>1 DEF BornOnce, Active, About, Creations, Setups, Delete, TypeInv
    <3>3. CASE sems' = sems
      BY <1>a, <3>2, <3>3
    <3>4. CASE sems' = [sems EXCEPT ![call[t].s] = [@ EXCEPT !.valid = FALSE,
                                                      !.deleted = ExtError /\ sems[call[t].s].attrs]]
      <4>1. /\ sems'[call[t].s].deleted = (ExtError /\ sems[call[t].s].attrs)
            /\ sems'[call[t].s].attrs = sems[call[t].s].attrs
        BY <3>4 DEF EntryTypes, EntryTyped, Fields, TypeInv
      <4>2. \A s \in Sems : s # call[t].s => sems'[s] = sems[s]
        BY <3>4 DEF EntryTypes
      <4>3. ExtError /\ ~Early
        BY <3>1 DEF Once, BornOnce
      <4>4. ASSUME NEW s \in Sems, s # call[t].s PROVE Fine(s)
        <5>1. sems'[s] = sems[s] /\ born'[s] = born[s] /\ pc[t] \notin Setups
          BY <3>2, <4>2, <4>4
        <5> HIDE DEF Fine
        <5> QED BY <1>a, <5>1
      <4>6. sems'[call[t].s].deleted /\ (sems[call[t].s].attrs => sems'[call[t].s].attrs)
        <5>1. (ExtError /\ sems[call[t].s].attrs) = TRUE
          BY <3>2, <4>3
        <5> QED BY <4>1, <5>1
      <4>7. born'[call[t].s] = 1
        BY <3>2
      <4>5. Fine(call[t].s)
        BY <4>6, <4>7
      <4> QED BY <4>4, <4>5
    <3> QED BY <2>2, <3>3, <3>4 DEF Delete
  <2>3. CASE CreateSearch(t)
    <3>1. pc[t] = "create"
      BY <2>3 DEF CreateSearch
    <3>2. CASE sems' = sems /\ born' = born
      BY <1>a, <3>1, <3>2 DEF Setups
    <3>3. ASSUME NEW s \in Sems, ~sems[s].valid, ~sems[s].deleted,
                 sems' = [sems EXCEPT ![s] = [Wiped EXCEPT !.key = call[t].key, !.type = call[t].type]],
                 call' = [call EXCEPT ![t].s = s], born' = [born EXCEPT ![s] = @ + 1],
                 pc' = [pc EXCEPT ![t] = "log"]
          PROVE  \A r \in Sems : Fine(r)
      <4>1. \A u \in Nodes : pc[u] \notin Setups
        BY <3>1 DEF Creating, Creations, Setups
      <4>2. born[s] = 0
        BY <3>3, <4>1 DEF BornOnce
      <4>3. born'[s] = 1
        BY <3>3, <4>2 DEF HistoryTypes
      <4>4. pc'[t] \in Setups /\ call'[t].s = s
        BY <3>3 DEF TypeInv, Locals, Setups
      <4>5. Fine(s)
        BY <4>2, <4>3, <4>4
      <4>6. ASSUME NEW r \in Sems, r # s PROVE Fine(r)
        <5>1. born'[r] = born[r] /\ sems'[r] = sems[r]
          BY <3>3, <4>6 DEF HistoryTypes, EntryTypes
        <5> QED BY <1>a, <3>1, <5>1 DEF Setups
      <4> QED BY <4>5, <4>6
    <3> QED BY <2>3, <3>2, <3>3 DEF CreateSearch, histVars
  <2>4. CASE CreateSetup(t)
    <3>1. /\ pc[t] \in Setups /\ pc'[t] \in Setups /\ born' = born /\ call'[t].s = call[t].s
      BY <2>4, CreatorEffect DEF Locals, TypeInv
    <3>2. /\ \A s \in Sems : s # call[t].s => sems'[s] = sems[s]
          /\ sems'[call[t].s].deleted = sems[call[t].s].deleted
          /\ sems'[call[t].s].attrs = sems[call[t].s].attrs
      BY <2>4, CreatorEntry
    <3>3. Fine(call[t].s)
      BY <3>1, <3>2 DEF Creating
    <3>4. ASSUME NEW s \in Sems, s # call[t].s PROVE Fine(s)
      BY <1>a, <3>1, <3>2, <3>4
    <3> QED BY <3>3, <3>4
  <2>5. CASE CreateEnd(t)
    <3>1. pc[t] \in Building /\ pc[t] \in Setups /\ born' = born
          /\ sems' = [sems EXCEPT ![call[t].s].attrs = TRUE]
      BY <2>5 DEF CreateEnd, Goto, Setups, Building
    <3>2. /\ \A s \in Sems : s # call[t].s => sems'[s] = sems[s]
          /\ sems'[call[t].s].valid = sems[call[t].s].valid /\ sems'[call[t].s].attrs
      BY <3>1 DEF EntryTypes, EntryTyped, Fields, TypeInv
    <3>3. born[call[t].s] = 1 /\ sems[call[t].s].valid
      BY <3>1 DEF Creating
    <3>4. Fine(call[t].s)
      BY <3>1, <3>2, <3>3
    <3>5. ASSUME NEW s \in Sems, s # call[t].s PROVE Fine(s)
      BY <1>0, <3>1, <3>2, <3>5 DEF BornOnce
    <3> QED BY <3>4, <3>5
  <2> QED BY <1>1, <2>1, <2>2, <2>3, <2>4, <2>5 DEF Births
<1>3. ASSUME NEW u \in Nodes, NEW s \in Sems, Active(u)', About(u, s)'
      PROVE  born'[s] = 1 /\ known'[u][s] = 1 /\ (Early \/ sems'[s].attrs)
  <2>1. born[s] = 1 /\ (known[u][s] = 1 \/ known[u][s] = born[s]) /\ (Early \/ sems[s].attrs)
    <3>1. CASE u # t
      BY <1>1, <1>3, <3>1 DEF CallEffect, Active, About, BornOnce
    <3>2. CASE u = t
      BY <1>1, <1>3, <3>2 DEF CallEffect, Active, About, BornOnce
    <3> QED BY <3>1, <3>2
  <2>2. ~(u = t /\ pc'[t] = "idle")
    BY <1>3 DEF Active
  <2> QED BY <1>1, <1>2, <2>1, <2>2 DEF HandleEffect
<1>4. ~Deletes => \A u \in Nodes : call'[u].op # "delete" /\ pc'[u] # "delete"
  BY <1>1 DEF CallEffect, BornOnce
<1>5. BornOnce' <=>
        /\ \A s \in Sems :
             /\ born'[s] \in {0, 1}
             /\ born'[s] = 0 => ~sems'[s].valid /\ ~sems'[s].deleted
             /\ born'[s] = 1 => \/ sems'[s].valid \/ sems'[s].deleted
                                \/ \E u \in Nodes : pc'[u] \in Setups /\ call'[u].s = s
        /\ \A u \in Nodes, s \in Sems : Active(u)' /\ About(u, s)' =>
             born'[s] = 1 /\ known'[u][s] = 1 /\ (Early \/ sems'[s].attrs)
        /\ ~Deletes => \A u \in Nodes : call'[u].op # "delete" /\ pc'[u] # "delete"
  BY DEF BornOnce
<1> QED BY <1>2, <1>3, <1>4, <1>5

\* No call is granted a lock on another creation than it asked for.
LEMMA StrayStep ==
  ASSUME TypeInv, BirthInv, NEW t \in Nodes,
         Calling(t) \/ Inside(t) \/ Waiting(t) \/ Finalize(t) \/ Initialize(t)
  PROVE  ~stray'
<1>1. CASE LockReturn(t)
  <2>1. \A s \in Sems : call[t].wait = "all" \/ s = call[t].s => known[t][s] = born[s]
    BY <1>1 DEF LockReturn, Goto, BirthInv, BornOnce, Active, About, Creations, Setups
  <2> QED BY <1>1, <2>1 DEF LockReturn, BirthInv, TypeInv
<1>2. stray' = stray \/ LockReturn(t)
  <2>1. CreateSetup(t) => stray' = stray
    BY CreatorEffect
  <2> QED
    BY <2>1 DEF Calling, Inside, Waiting, Finalize, Initialize, histVars, CallLock, CallMutexLock,
         CallWriter, CallUnlock, CallMutexUnlock, CallDelete, CallMultiple, CallCreate, Call,
         Get, Probe, Enter, EnterMultiple, Return, WriterLimit, LockTest, LockScan, LockTake,
         Yield, Again, AgainMultiple, NextSem, Revert, UnlockTest, UnlockClear, UnlockReturn,
         MutexLock, MutexUnlock, Delete, CreateSearch, CreateEnd
<1> QED BY <1>1, <1>2 DEF BirthInv

\* Every step keeps the invariant of the births.
LEMMA BirthStep ==
  ASSUME Once, IInv, BirthInv, Next
  PROVE  BirthInv'
<1>1. PICK t \in Nodes :
        Calling(t) \/ Inside(t) \/ Waiting(t) \/ Finalize(t) \/ Initialize(t)
  BY DEF Next
<1>2. EntryTypes' /\ CallTypes' /\ HistoryTypes'
  BY <1>1, CallTyped, EntriesTyped, HistoryTyped DEF IInv, BirthInv
<1>3. Creating' /\ BornOnce' /\ ~stray'
  BY <1>1, CreatingStep, BornStep, StrayStep DEF IInv
<1> QED BY <1>2, <1>3 DEF BirthInv

\* It holds at the start, and while nothing happens.
LEMMA BirthInit ==
  ASSUME Init
  PROVE  BirthInv
<1>1. EntryTypes
  <2>1. \A l \in Indices : Wiped.locked[l] \in BOOLEAN
    BY WipedTyped
  <2>2. DOMAIN sems = Sems /\ \A s \in Sems : sems[s] = Wiped
    BY DEF Init
  <2>3. 0 \in 0 .. MaxShared
    BY LocksAssumption
  <2>4. \A s \in Sems : EntryTyped(s)
    BY <2>1, <2>2, <2>3, WipedTyped DEF EntryTyped
  <2> QED BY <2>2, <2>4 DEF EntryTypes
<1>2. CallTypes
  BY EndTyped DEF Init, CallTypes
<1>3. HistoryTypes
  BY DEF Init, HistoryTypes
<1>4. Creating
  BY DEF Init, Creating, Creations, Setups, Building
<1>5. BornOnce
  BY EndTyped, WipedTyped DEF Init, BornOnce, Active
<1> QED BY <1>1, <1>2, <1>3, <1>4, <1>5 DEF BirthInv, Init

\* A step that changes nothing keeps it.
LEMMA BirthStutter ==
  ASSUME BirthInv, UNCHANGED vars
  PROVE  BirthInv'
<1> USE DEF vars, guardVars, histVars
<1>1. EntryTypes'
  BY DEF BirthInv, EntryTypes, EntryTyped
<1>2. CallTypes' /\ HistoryTypes'
  BY DEF BirthInv, CallTypes, HistoryTypes
<1>3. Creating'
  BY DEF BirthInv, Creating
<1>4. BornOnce'
  BY DEF BirthInv, BornOnce, Active, About
<1> QED BY <1>1, <1>2, <1>3, <1>4 DEF BirthInv

\* Where entries are created once, every call works on the entries that its node
\* has handles for, through all its waits and retries.
THEOREM BirthCorrect == Once => (Spec => []BirthInv)
<1> SUFFICES ASSUME Once PROVE Spec => []BirthInv
  OBVIOUS
<1>1. IInv /\ BirthInv /\ [Next]_vars => BirthInv'
  BY BirthStep, BirthStutter
<1> QED BY <1>1, BirthInit, GuardCorrect, PTL DEF Spec

\* A lock is granted on the lock that was asked for, whatever is deleted while
\* the call waits, and whichever kind of guard it takes.
THEOREM GrantedRight == Once => (Spec => []GrantedAsAsked)
<1> SUFFICES ASSUME Once PROVE Spec => []GrantedAsAsked
  OBVIOUS
<1>1. BirthInv => GrantedAsAsked
  BY DEF BirthInv, GrantedAsAsked
<1> QED BY <1>1, BirthCorrect, PTL

-----------------------------------------------------------------------------
\* The entry that a creator writes.
Writes(t, s) == pc[t] \in Setups /\ s = call[t].s

\* A creator finds no entry that was created before.
LEMMA FreeUnborn ==
  ASSUME IInv, BirthInv, NEW t \in Nodes, pc[t] = "create",
         NEW r \in Sems, ~sems[r].valid, ~sems[r].deleted
  PROVE  born[r] = 0
<1>1. \A u \in Nodes : pc[u] \notin Setups
  BY DEF BirthInv, Creating, Creations, Setups
<1> QED BY <1>1 DEF BirthInv, BornOnce

\* A step leaves alone the entries its call does not work on.
SameEntry(s) ==
  /\ sems'[s].limit = sems[s].limit
  /\ sems'[s].lvalid = sems[s].lvalid
  /\ sems'[s].locked = sems[s].locked
  /\ sems'[s].holder = sems[s].holder
  /\ sems'[s].num_locks = sems[s].num_locks
  /\ out'[s] = out[s]

\* Every step keeps to that, and to entries that nobody uses yet.
LEMMA EntryFrame ==
  ASSUME IInv, BirthInv, NEW t \in Nodes,
         Calling(t) \/ Inside(t) \/ Waiting(t) \/ Finalize(t) \/ Initialize(t)
  PROVE  \A e \in Sems : born[e] = 1 /\ ~In(t, e) /\ ~Writes(t, e) => SameEntry(e)
<1> USE LocksAssumption DEF SameEntry, IInv, BirthInv, TypeInv, EntryTypes, EntryTyped,
                            CallTypes, HistoryTypes, Locals, Fields, guardVars, nodeVars,
                            histVars, Goto
<1>1. ASSUME NEW s \in Sems, NEW m \in Timeouts, CallLock(t, s, m)
      PROVE  \A e \in Sems : born[e] = 1 /\ ~In(t, e) /\ ~Writes(t, e) => SameEntry(e)
  BY <1>1 DEF CallLock, Call
<1>2. ASSUME NEW s \in Sems, NEW m \in Timeouts, CallMutexLock(t, s, m)
      PROVE  \A e \in Sems : born[e] = 1 /\ ~In(t, e) /\ ~Writes(t, e) => SameEntry(e)
  BY <1>2 DEF CallMutexLock, Call
<1>3. ASSUME NEW s \in Sems, NEW m \in Nat, NEW op \in {"lock", "unlock"},
             CallWriter(t, s, op, m)
      PROVE  \A e \in Sems : born[e] = 1 /\ ~In(t, e) /\ ~Writes(t, e) => SameEntry(e)
  BY <1>3 DEF CallWriter, Call
<1>4. ASSUME NEW s \in Sems, NEW op \in {"unlock", "post"}, CallUnlock(t, s, op)
      PROVE  \A e \in Sems : born[e] = 1 /\ ~In(t, e) /\ ~Writes(t, e) => SameEntry(e)
  BY <1>4 DEF CallUnlock, Call
<1>5. ASSUME NEW s \in Sems, NEW key \in 0 .. MaxDepth, CallMutexUnlock(t, s, key)
      PROVE  \A e \in Sems : born[e] = 1 /\ ~In(t, e) /\ ~Writes(t, e) => SameEntry(e)
  BY <1>5 DEF CallMutexUnlock, Call
<1>6. ASSUME NEW s \in Sems, Deletes, CallDelete(t, s)
      PROVE  \A e \in Sems : born[e] = 1 /\ ~In(t, e) /\ ~Writes(t, e) => SameEntry(e)
  BY <1>6 DEF CallDelete, Call
<1>7. ASSUME NEW w \in Waits, NEW m \in Timeouts, CallMultiple(t, w, m)
      PROVE  \A e \in Sems : born[e] = 1 /\ ~In(t, e) /\ ~Writes(t, e) => SameEntry(e)
  BY <1>7 DEF CallMultiple, Call
<1>8. ASSUME NEW key \in Keys, NEW type \in Types, NEW n \in 0 .. MaxShared - 1,
             CallCreate(t, key, type, n)
      PROVE  \A e \in Sems : born[e] = 1 /\ ~In(t, e) /\ ~Writes(t, e) => SameEntry(e)
  BY <1>8 DEF CallCreate
<1>9. ASSUME NEW key \in Keys, Get(t, key)
      PROVE  \A e \in Sems : born[e] = 1 /\ ~In(t, e) /\ ~Writes(t, e) => SameEntry(e)
  <2>1. \A s \in Sems : /\ sems'[s].limit = sems[s].limit /\ sems'[s].lvalid = sems[s].lvalid
                        /\ sems'[s].locked = sems[s].locked
                        /\ sems'[s].holder = sems[s].holder
                        /\ sems'[s].num_locks = sems[s].num_locks
    BY <1>9 DEF Get
  <2>2. out' = out
    BY <1>9 DEF Get
  <2> QED BY <2>1, <2>2
<1>10. CASE Probe(t)
  BY <1>10 DEF Probe
<1>11. CASE Enter(t)
  BY <1>11 DEF Enter
<1>12. CASE EnterMultiple(t)
  BY <1>12 DEF EnterMultiple
<1>13. CASE Return(t)
  BY <1>13 DEF Return
<1>14. CASE WriterLimit(t)
  BY <1>14 DEF WriterLimit
<1>15. CASE LockTest(t)
  BY <1>15 DEF LockTest
<1>16. CASE LockScan(t)
  BY <1>16 DEF LockScan
<1>17. CASE LockTake(t)
  <2>1. \A s \in Sems : s # call[t].s => sems'[s] = sems[s]
    BY <1>17 DEF LockTake
  <2>2. out' = out /\ In(t, call[t].s)
    BY <1>17 DEF LockTake, In
  <2> QED BY <2>1, <2>2
<1>18. CASE LockReturn(t)
  <2>1. sems' = sems /\ \A s \in Sems : s # call[t].s /\ call[t].wait # "all" => out'[s] = out[s]
    BY <1>18 DEF LockReturn
  <2>2. In(t, call[t].s) /\ (call[t].wait = "all" => \A s \in Sems : In(t, s))
    BY <1>18 DEF LockReturn, In
  <2> QED BY <2>1, <2>2
<1>19. CASE Yield(t)
  BY <1>19 DEF Yield
<1>20. CASE Again(t)
  BY <1>20 DEF Again
<1>21. CASE AgainMultiple(t)
  BY <1>21 DEF AgainMultiple
<1>22. CASE NextSem(t)
  BY <1>22 DEF NextSem
<1>23. CASE Revert(t)
  BY <1>23 DEF Revert
<1>24. CASE UnlockTest(t)
  <2>1. CASE sems' = sems
    BY <1>24, <2>1 DEF UnlockTest
  <2>2. CASE sems' = [sems EXCEPT ![call[t].s].num_locks = @ - call[t].n]
    <3>1. \A s \in Sems : s # call[t].s => sems'[s] = sems[s]
      BY <2>2
    <3>2. out' = out /\ In(t, call[t].s)
      BY <1>24 DEF UnlockTest, In
    <3> QED BY <3>1, <3>2
  <2> QED BY <1>24, <2>1, <2>2 DEF UnlockTest
<1>25. CASE UnlockClear(t)
  <2>1. CASE sems' = sems
    BY <1>25, <2>1 DEF UnlockClear
  <2>2. CASE sems' = [sems EXCEPT ![call[t].s].locked[call[t].l] = FALSE]
    <3>1. \A s \in Sems : s # call[t].s => sems'[s] = sems[s]
      BY <2>2
    <3>2. out' = out /\ In(t, call[t].s)
      BY <1>25 DEF UnlockClear, In
    <3> QED BY <3>1, <3>2
  <2> QED BY <1>25, <2>1, <2>2 DEF UnlockClear
<1>26. CASE UnlockReturn(t)
  <2>1. sems' = sems /\ \A s \in Sems : s # call[t].s => out'[s] = out[s]
    BY <1>26 DEF UnlockReturn
  <2>2. In(t, call[t].s)
    BY <1>26 DEF UnlockReturn, In
  <2> QED BY <2>1, <2>2
<1>27. CASE MutexLock(t)
  <2>1. CASE sems' = sems
    BY <1>27, <2>1 DEF MutexLock
  <2>2. CASE sems' = [sems EXCEPT ![call[t].s].lock_key = @ + 1]
    <3>1. \A s \in Sems : s # call[t].s => sems'[s] = sems[s]
      BY <2>2
    <3>2. out' = out /\ In(t, call[t].s)
      BY <1>27 DEF MutexLock, In
    <3> QED BY <3>1, <3>2
  <2> QED BY <1>27, <2>1, <2>2 DEF MutexLock
<1>28. CASE MutexUnlock(t)
  <2>1. CASE sems' = sems
    BY <1>28, <2>1 DEF MutexUnlock
  <2>2. CASE sems' = [sems EXCEPT ![call[t].s].lock_key = @ - 1]
    <3>1. \A s \in Sems : s # call[t].s => sems'[s] = sems[s]
      BY <2>2
    <3>2. out' = out /\ In(t, call[t].s)
      BY <1>28 DEF MutexUnlock, In
    <3> QED BY <3>1, <3>2
  <2> QED BY <1>28, <2>1, <2>2 DEF MutexUnlock
<1>29. CASE Delete(t)
  <2>1. CASE sems' = sems
    BY <1>29, <2>1 DEF Delete
  <2>2. CASE sems' = [sems EXCEPT ![call[t].s] = [@ EXCEPT !.valid = FALSE, !.deleted = ExtError /\ sems[call[t].s].attrs]]
    <3>1. \A s \in Sems : s # call[t].s => sems'[s] = sems[s]
      BY <2>2
    <3>2. out' = out /\ In(t, call[t].s)
      BY <1>29 DEF Delete, In
    <3> QED BY <3>1, <3>2
  <2> QED BY <1>29, <2>1, <2>2 DEF Delete
<1>30. CASE CreateSearch(t)
  <2>1. CASE sems' = sems /\ out' = out
    BY <2>1
  <2>2. ASSUME NEW r \in Sems, ~sems[r].valid, ~sems[r].deleted,
               sems' = [sems EXCEPT ![r] = [Wiped EXCEPT !.key = call[t].key, !.type = call[t].type]],
               out' = [out EXCEPT ![r] = call[t].n]
        PROVE  \A e \in Sems : born[e] = 1 /\ ~In(t, e) /\ ~Writes(t, e) => SameEntry(e)
    <3>1. born[r] = 0
      BY <1>30, <2>2, FreeUnborn DEF CreateSearch
    <3>2. \A s \in Sems : s # r => sems'[s] = sems[s] /\ out'[s] = out[s]
      BY <2>2
    <3>3. \A s \in Sems : born[s] = 1 => s # r
      BY <3>1
    <3> QED BY <3>2, <3>3
  <2> QED BY <1>30, <2>1, <2>2 DEF CreateSearch
<1>31. CASE CreateSetup(t)
  <2>1. (\A s \in Sems : s # call[t].s => sems'[s] = sems[s]) /\ out' = out /\ pc[t] \in Setups
    BY <1>31, CreatorEffect, CreatorEntry
  <2> QED BY <2>1 DEF Writes
<1>32. CASE Finalize(t)
  BY <1>32 DEF Finalize
<1>33. CASE Initialize(t)
  BY <1>33 DEF Initialize
<1>34. CASE CreateEnd(t)
  <2>1. (\A s \in Sems : s # call[t].s => sems'[s] = sems[s]) /\ out' = out /\ pc[t] \in Setups
    BY <1>34 DEF CreateEnd, Setups
  <2> QED BY <2>1 DEF Writes
<1> HIDE DEF SameEntry, IInv, BirthInv, TypeInv, EntryTypes, EntryTyped, CallTypes,
             HistoryTypes, Locals, Fields, guardVars, nodeVars, histVars, Goto
<1> QED BY <1>1, <1>2, <1>3, <1>4, <1>5, <1>6, <1>7, <1>8, <1>9, <1>10, <1>11, <1>12,
           <1>13, <1>14, <1>15, <1>16, <1>17, <1>18, <1>19, <1>20, <1>21, <1>22, <1>23,
           <1>24, <1>25, <1>26, <1>27, <1>28, <1>29, <1>30, <1>31, <1>32,
           <1>33, <1>34 DEF Calling, Inside, Waiting

\* Its kind is what a creator makes of an entry.
SameKind(s) ==
  /\ sems'[s].type = sems[s].type /\ sems'[s].limit = sems[s].limit
  /\ sems'[s].lvalid = sems[s].lvalid

\* Nobody else changes it.
LEMMA KindFrame ==
  ASSUME IInv, BirthInv, NEW t \in Nodes,
         Calling(t) \/ Inside(t) \/ Waiting(t) \/ Finalize(t) \/ Initialize(t)
  PROVE  \A e \in Sems : born[e] = 1 /\ ~Writes(t, e) => SameKind(e)
<1> USE LocksAssumption DEF SameKind, IInv, BirthInv, TypeInv, EntryTypes, EntryTyped, CallTypes,
                            HistoryTypes, Locals, Fields, guardVars, nodeVars, histVars,
                            Goto
<1>1. ASSUME NEW s \in Sems, NEW m \in Timeouts, CallLock(t, s, m)
      PROVE  \A e \in Sems : born[e] = 1 /\ ~Writes(t, e) => SameKind(e)
  BY <1>1 DEF CallLock, Call
<1>2. ASSUME NEW s \in Sems, NEW m \in Timeouts, CallMutexLock(t, s, m)
      PROVE  \A e \in Sems : born[e] = 1 /\ ~Writes(t, e) => SameKind(e)
  BY <1>2 DEF CallMutexLock, Call
<1>3. ASSUME NEW s \in Sems, NEW m \in Nat, NEW op \in {"lock", "unlock"},
             CallWriter(t, s, op, m)
      PROVE  \A e \in Sems : born[e] = 1 /\ ~Writes(t, e) => SameKind(e)
  BY <1>3 DEF CallWriter, Call
<1>4. ASSUME NEW s \in Sems, NEW op \in {"unlock", "post"}, CallUnlock(t, s, op)
      PROVE  \A e \in Sems : born[e] = 1 /\ ~Writes(t, e) => SameKind(e)
  BY <1>4 DEF CallUnlock, Call
<1>5. ASSUME NEW s \in Sems, NEW key \in 0 .. MaxDepth, CallMutexUnlock(t, s, key)
      PROVE  \A e \in Sems : born[e] = 1 /\ ~Writes(t, e) => SameKind(e)
  BY <1>5 DEF CallMutexUnlock, Call
<1>6. ASSUME NEW s \in Sems, Deletes, CallDelete(t, s)
      PROVE  \A e \in Sems : born[e] = 1 /\ ~Writes(t, e) => SameKind(e)
  BY <1>6 DEF CallDelete, Call
<1>7. ASSUME NEW w \in Waits, NEW m \in Timeouts, CallMultiple(t, w, m)
      PROVE  \A e \in Sems : born[e] = 1 /\ ~Writes(t, e) => SameKind(e)
  BY <1>7 DEF CallMultiple, Call
<1>8. ASSUME NEW key \in Keys, NEW type \in Types, NEW n \in 0 .. MaxShared - 1,
             CallCreate(t, key, type, n)
      PROVE  \A e \in Sems : born[e] = 1 /\ ~Writes(t, e) => SameKind(e)
  BY <1>8 DEF CallCreate
<1>9. ASSUME NEW key \in Keys, Get(t, key)
      PROVE  \A e \in Sems : born[e] = 1 /\ ~Writes(t, e) => SameKind(e)
  <2>1. \A s \in Sems : sems'[s].type = sems[s].type /\ sems'[s].limit = sems[s].limit
                        /\ sems'[s].lvalid = sems[s].lvalid
    BY <1>9 DEF Get
  <2> QED BY <2>1
<1>10. CASE Probe(t)
  BY <1>10 DEF Probe
<1>11. CASE Enter(t)
  BY <1>11 DEF Enter
<1>12. CASE EnterMultiple(t)
  BY <1>12 DEF EnterMultiple
<1>13. CASE Return(t)
  BY <1>13 DEF Return
<1>14. CASE WriterLimit(t)
  BY <1>14 DEF WriterLimit
<1>15. CASE LockTest(t)
  BY <1>15 DEF LockTest
<1>16. CASE LockScan(t)
  BY <1>16 DEF LockScan
<1>17. CASE LockTake(t)
  <2>1. \A s \in Sems : sems'[s].type = sems[s].type /\ sems'[s].limit = sems[s].limit
                        /\ sems'[s].lvalid = sems[s].lvalid
    BY <1>17 DEF LockTake
  <2> QED BY <2>1
<1>18. CASE LockReturn(t)
  BY <1>18 DEF LockReturn
<1>19. CASE Yield(t)
  BY <1>19 DEF Yield
<1>20. CASE Again(t)
  BY <1>20 DEF Again
<1>21. CASE AgainMultiple(t)
  BY <1>21 DEF AgainMultiple
<1>22. CASE NextSem(t)
  BY <1>22 DEF NextSem
<1>23. CASE Revert(t)
  BY <1>23 DEF Revert
<1>24. CASE UnlockTest(t)
  <2>1. CASE sems' = sems
    BY <2>1
  <2>2. CASE sems' = [sems EXCEPT ![call[t].s].num_locks = @ - call[t].n]
    BY <2>2
  <2> QED BY <1>24, <2>1, <2>2 DEF UnlockTest
<1>25. CASE UnlockClear(t)
  <2>1. CASE sems' = sems
    BY <2>1
  <2>2. CASE sems' = [sems EXCEPT ![call[t].s].locked[call[t].l] = FALSE]
    BY <2>2
  <2> QED BY <1>25, <2>1, <2>2 DEF UnlockClear
<1>26. CASE UnlockReturn(t)
  BY <1>26 DEF UnlockReturn
<1>27. CASE MutexLock(t)
  <2>1. CASE sems' = sems
    BY <2>1
  <2>2. CASE sems' = [sems EXCEPT ![call[t].s].lock_key = @ + 1]
    BY <2>2
  <2> QED BY <1>27, <2>1, <2>2 DEF MutexLock
<1>28. CASE MutexUnlock(t)
  <2>1. CASE sems' = sems
    BY <2>1
  <2>2. CASE sems' = [sems EXCEPT ![call[t].s].lock_key = @ - 1]
    BY <2>2
  <2> QED BY <1>28, <2>1, <2>2 DEF MutexUnlock
<1>29. CASE Delete(t)
  <2>1. CASE sems' = sems
    BY <2>1
  <2>2. CASE sems' = [sems EXCEPT ![call[t].s] = [@ EXCEPT !.valid = FALSE, !.deleted = ExtError /\ sems[call[t].s].attrs]]
    BY <2>2
  <2> QED BY <1>29, <2>1, <2>2 DEF Delete
<1>30. CASE CreateSearch(t)
  <2>1. CASE sems' = sems
    BY <2>1
  <2>2. ASSUME NEW r \in Sems, ~sems[r].valid, ~sems[r].deleted,
               sems' = [sems EXCEPT ![r] = [Wiped EXCEPT !.key = call[t].key, !.type = call[t].type]]
        PROVE  \A e \in Sems : born[e] = 1 /\ ~Writes(t, e) => SameKind(e)
    <3>1. born[r] = 0
      BY <1>30, <2>2, FreeUnborn DEF CreateSearch
    <3>2. \A s \in Sems : s # r => sems'[s] = sems[s]
      BY <2>2
    <3>3. \A s \in Sems : born[s] = 1 => s # r
      BY <3>1
    <3> QED BY <3>2, <3>3
  <2> QED BY <1>30, <2>1, <2>2 DEF CreateSearch
<1>31. CASE CreateSetup(t)
  <2>1. (\A s \in Sems : s # call[t].s => sems'[s] = sems[s]) /\ pc[t] \in Setups
    BY <1>31, CreatorEffect, CreatorEntry
  <2> QED BY <2>1 DEF Writes
<1>32. CASE Finalize(t)
  BY <1>32 DEF Finalize
<1>33. CASE Initialize(t)
  BY <1>33 DEF Initialize
<1>34. CASE CreateEnd(t)
  <2>1. (\A s \in Sems : s # call[t].s => sems'[s] = sems[s]) /\ pc[t] \in Setups
    BY <1>34 DEF CreateEnd, Setups
  <2> QED BY <2>1 DEF Writes
<1> HIDE DEF SameKind, IInv, BirthInv, TypeInv, EntryTypes, EntryTyped, CallTypes, HistoryTypes,
             Locals, Fields, guardVars, nodeVars, histVars, Goto
<1> QED BY <1>1, <1>2, <1>3, <1>4, <1>5, <1>6, <1>7, <1>8, <1>9, <1>10, <1>11, <1>12,
           <1>13, <1>14, <1>15, <1>16, <1>17, <1>18, <1>19, <1>20, <1>21, <1>22, <1>23,
           <1>24, <1>25, <1>26, <1>27, <1>28, <1>29, <1>30, <1>31, <1>32,
           <1>33, <1>34 DEF Calling, Inside, Waiting

\* A lock that is complete stays so, and keeps its kind; and a step leaves it alone
\* if its call does not work on it.
LEMMA ReadyFrame ==
  ASSUME IInv, BirthInv, NEW t \in Nodes,
         Calling(t) \/ Inside(t) \/ Waiting(t) \/ Finalize(t) \/ Initialize(t)
  PROVE  \A e \in Sems : Ready(e) =>
           Ready(e)' /\ SameKind(e) /\ (~In(t, e) => SameEntry(e))
<1> SUFFICES ASSUME NEW e \in Sems, Ready(e)
             PROVE  Ready(e)' /\ SameKind(e) /\ (~In(t, e) => SameEntry(e))
  OBVIOUS
<1>1. ~Writes(t, e)
  BY DEF Ready, Writes, BirthInv, Creating
<1>2. SameKind(e) /\ (~In(t, e) => SameEntry(e))
  BY <1>1, EntryFrame, KindFrame DEF Ready
<1>3. SameBirths \/ Births(t)
  BY BirthEffect DEF IInv, BirthInv
<1>4. CASE SameBirths
  BY <1>2, <1>4 DEF SameBirths, Ready
<1>5. CASE Delete(t)
  <2>1. born' = born
    BY <1>5 DEF Delete
  <2>2. CASE sems' = sems
    BY <1>2, <2>1, <2>2 DEF Ready
  <2>3. CASE sems' = [sems EXCEPT ![call[t].s] = [@ EXCEPT !.valid = FALSE, !.deleted = ExtError /\ sems[call[t].s].attrs]]
    <3>1. sems'[e].attrs = sems[e].attrs
      BY <2>3 DEF BirthInv, EntryTypes, EntryTyped, Fields
    <3> QED BY <1>2, <2>1, <3>1 DEF Ready
  <2> QED BY <1>5, <2>2, <2>3 DEF Delete
<1>6. CASE CreateSearch(t)
  <2>1. CASE sems' = sems /\ born' = born
    BY <1>2, <2>1 DEF Ready
  <2>2. ASSUME NEW r \in Sems, ~sems[r].valid, ~sems[r].deleted,
               sems' = [sems EXCEPT ![r] = [Wiped EXCEPT !.key = call[t].key, !.type = call[t].type]],
               born' = [born EXCEPT ![r] = @ + 1]
        PROVE  Ready(e)'
    <3>1. born[r] = 0
      BY <1>6, <2>2, FreeUnborn DEF CreateSearch
    <3>2. e # r
      BY <3>1 DEF Ready
    <3> QED BY <2>2, <3>2 DEF Ready, BirthInv, EntryTypes, HistoryTypes
  <2> QED BY <1>2, <1>6, <2>1, <2>2 DEF CreateSearch, histVars
<1>7. CASE CreateSetup(t)
  <2>1. born' = born /\ sems'[e].attrs = sems[e].attrs
    BY <1>7, CreatorEffect, CreatorEntry DEF IInv, BirthInv
  <2> QED BY <1>2, <2>1 DEF Ready
<1>8. CASE CreateEnd(t)
  <2>1. born' = born /\ sems' = [sems EXCEPT ![call[t].s].attrs = TRUE]
    BY <1>8 DEF CreateEnd
  <2>2. sems'[e].attrs
    BY <2>1 DEF Ready, BirthInv, EntryTypes, EntryTyped, Fields
  <2> QED BY <1>2, <2>1, <2>2 DEF Ready
<1> QED BY <1>3, <1>4, <1>5, <1>6, <1>7, <1>8 DEF Births

\* A call is about a lock that is complete.
LEMMA AboutReady ==
  ASSUME ~Early, IInv, BirthInv, NEW t \in Nodes, Active(t)
  PROVE  call[t].s \in Sems /\ Ready(call[t].s)
<1>1. call[t].s \in Sems
  BY DEF IInv, TypeInv
<1> QED BY <1>1 DEF BirthInv, BornOnce, About, Ready

\* A call that goes on with what it was made for.
SameCall(t) ==
  /\ call'[t].op = call[t].op /\ call'[t].n = call[t].n
  /\ call'[t].wait = call[t].wait /\ call'[t].type = call[t].type
  /\ call'[t].s = call[t].s \/ call[t].wait # "one"

\* Such a call stays right about the kind of its entry.
LEMMA KindKept ==
  ASSUME ~Early, IInv, BirthInv, CallFits, NEW t \in Nodes, Active(t), pc[t] # "writer",
         SameCall(t), TypeInv', \A e \in Sems : Ready(e) => SameKind(e)
  PROVE  KindFits(t)'
<1>1. \A s \in Sems : About(t, s) => sems'[s].type = sems[s].type
  BY DEF BirthInv, BornOnce, Ready, SameKind
<1>2. KindFits(t)
  BY DEF CallFits, Fits
<1>3. call[t].wait # "one" => \A s \in Sems : sems[s].type = "sem" /\ sems'[s].type = "sem"
  BY <1>1, <1>2 DEF KindFits, About
<1>4. call[t].s \in Sems /\ call'[t].s \in Sems
  BY DEF IInv, TypeInv
<1>5. call[t].wait = "one" =>
        call'[t].s = call[t].s /\ sems'[call[t].s].type = sems[call[t].s].type
  BY <1>1, <1>4 DEF SameCall, About
<1>6. CASE call[t].wait = "one"
  BY <1>2, <1>5, <1>6 DEF KindFits, SameCall
<1>7. CASE call[t].wait # "one"
  BY <1>2, <1>3, <1>4, <1>7 DEF KindFits, SameCall
<1> QED BY <1>6, <1>7

\* Every step keeps what its own call is about.
LEMMA FitsStep ==
  ASSUME ~Early, IInv, BirthInv, CallFits, Limits, TypeInv', NEW t \in Nodes,
         Calling(t) \/ Inside(t) \/ Waiting(t) \/ Finalize(t) \/ Initialize(t)
  PROVE  Active(t)' => Fits(t)'
<1>0. \A e \in Sems : Ready(e) => SameKind(e)
  BY ReadyFrame
<1> USE <1>0, LocksAssumption, EndTyped DEF Ready, SameKind, Creations, Setups, CallsAgree, WaitsOne, WaitsMultiple, CallFits,
                                            Fits, PlaceFits, KindFits, Limits, Active,
                                            About, BornOnce, End, IInv, BirthInv, TypeInv,
                                            EntryTypes, EntryTyped, CallTypes,
                                            HistoryTypes, Locals, Fields, guardVars,
                                            nodeVars, histVars, Goto
<1>1. ASSUME NEW s \in Sems, NEW m \in Timeouts, CallLock(t, s, m)
      PROVE  Active(t)' => Fits(t)'
  BY <1>1 DEF CallLock, Call, NoCall
<1>2. ASSUME NEW s \in Sems, NEW m \in Timeouts, CallMutexLock(t, s, m)
      PROVE  Active(t)' => Fits(t)'
  BY <1>2 DEF CallMutexLock, Call, NoCall
<1>3. ASSUME NEW s \in Sems, NEW m \in Nat, NEW op \in {"lock", "unlock"},
             CallWriter(t, s, op, m)
      PROVE  Active(t)' => Fits(t)'
  BY <1>3 DEF CallWriter, Call, NoCall
<1>4. ASSUME NEW s \in Sems, NEW op \in {"unlock", "post"}, CallUnlock(t, s, op)
      PROVE  Active(t)' => Fits(t)'
  BY <1>4 DEF CallUnlock, Call, NoCall
<1>5. ASSUME NEW s \in Sems, NEW key \in 0 .. MaxDepth, CallMutexUnlock(t, s, key)
      PROVE  Active(t)' => Fits(t)'
  BY <1>5 DEF CallMutexUnlock, Call, NoCall
<1>6. ASSUME NEW s \in Sems, Deletes, CallDelete(t, s)
      PROVE  Active(t)' => Fits(t)'
  BY <1>6 DEF CallDelete, Call, NoCall
<1>7. ASSUME NEW w \in Waits, NEW m \in Timeouts, CallMultiple(t, w, m)
      PROVE  Active(t)' => Fits(t)'
  BY <1>7 DEF CallMultiple, Call, NoCall
<1>8. ASSUME NEW key \in Keys, NEW type \in Types, NEW n \in 0 .. MaxShared - 1,
             CallCreate(t, key, type, n)
      PROVE  Active(t)' => Fits(t)'
  BY <1>8 DEF CallCreate, NoCall, Creations
<1>9. ASSUME NEW key \in Keys, Get(t, key)
      PROVE  Active(t)' => Fits(t)'
  BY <1>9 DEF Get
<1>10. CASE Probe(t)
  <2>1. pc[t] = "probe" /\ pc'[t] \in {"enter"}
    BY <1>10 DEF Probe
  <2>2. SameCall(t)
    BY <1>10 DEF Probe, SameCall
  <2>3. Active(t) /\ PlaceFits(t) /\ KindFits(t)
    BY <2>1
  <2> HIDE DEF CallsAgree, CallFits, Fits, PlaceFits, KindFits, Limits, Active, About,
               BornOnce, End, IInv, BirthInv, TypeInv, EntryTypes, EntryTyped, CallTypes,
               HistoryTypes, Locals, Fields, guardVars, nodeVars, histVars, Goto
  <2>5. PlaceFits(t)'
    BY <2>1, <2>2, <2>3 DEF PlaceFits, SameCall
  <2>6. KindFits(t)'
    BY <1>0, <2>1, <2>2, <2>3, KindKept
  <2> QED BY <2>5, <2>6 DEF Fits
<1>11. CASE Enter(t)
  <2>1. pc[t] = "enter" /\ pc'[t] \in {call[t].op}
    BY <1>11 DEF Enter
  <2>2. SameCall(t)
    BY <1>11 DEF Enter, SameCall
  <2>3. Active(t) /\ PlaceFits(t) /\ KindFits(t)
    BY <2>1
  <2>4. call[t].op \in {"lock", "unlock", "post", "mlock", "munlock", "delete"} /\ call[t].wait = "one"
    BY <2>1
  <2> HIDE DEF CallsAgree, CallFits, Fits, PlaceFits, KindFits, Limits, Active, About,
               BornOnce, End, IInv, BirthInv, TypeInv, EntryTypes, EntryTyped, CallTypes,
               HistoryTypes, Locals, Fields, guardVars, nodeVars, histVars, Goto
  <2>5. PlaceFits(t)'
    BY <2>1, <2>2, <2>3, <2>4 DEF PlaceFits, SameCall
  <2>6. KindFits(t)'
    BY <1>0, <2>1, <2>2, <2>3, KindKept
  <2> QED BY <2>5, <2>6 DEF Fits
<1>12. CASE EnterMultiple(t)
  <2>1. pc[t] = "entermultiple" /\ pc'[t] \in {"lock"}
    BY <1>12 DEF EnterMultiple
  <2>2. SameCall(t)
    BY <1>12 DEF EnterMultiple, SameCall
  <2>3. Active(t) /\ PlaceFits(t) /\ KindFits(t)
    BY <2>1
  <2> HIDE DEF CallsAgree, CallFits, Fits, PlaceFits, KindFits, Limits, Active, About,
               BornOnce, End, IInv, BirthInv, TypeInv, EntryTypes, EntryTyped, CallTypes,
               HistoryTypes, Locals, Fields, guardVars, nodeVars, histVars, Goto
  <2>5. PlaceFits(t)'
    BY <2>1, <2>2, <2>3 DEF PlaceFits, SameCall
  <2>6. KindFits(t)'
    BY <1>0, <2>1, <2>2, <2>3, KindKept
  <2> QED BY <2>5, <2>6 DEF Fits
<1>13. CASE Return(t)
  BY <1>13 DEF Return
<1>14. CASE WriterLimit(t)
  <2>1. pc[t] = "writer" /\ pc'[t] = "probe" /\ sems' = sems
    BY <1>14 DEF WriterLimit
  <2>2. /\ call'[t].op = call[t].op /\ call'[t].s = call[t].s /\ call'[t].wait = call[t].wait
        /\ call'[t].type = call[t].type /\ call'[t].n = sems[call[t].s].limit
    BY <1>14 DEF WriterLimit, S
  <2>3. Active(t) /\ PlaceFits(t) /\ KindFits(t) /\ call[t].wait = "one"
    BY <2>1
  <2>5. Ready(call[t].s) /\ (call[t].type = "mutex" => sems[call[t].s].type = "mutex")
    <3>1. call[t].type = "mutex" => sems[call[t].s].type = "mutex"
      BY <2>1, <2>3
    <3>2. Active(t)
      BY <2>1
    <3> HIDE DEF CallsAgree, CallFits, Fits, PlaceFits, KindFits, Limits, Active, About,
                 BornOnce, End, IInv, BirthInv, TypeInv, EntryTypes, EntryTyped, CallTypes,
                 HistoryTypes, Locals, Fields, guardVars, nodeVars, histVars, Goto
    <3> QED BY <3>1, <3>2, AboutReady
  <2>4. sems[call[t].s].limit > 0 /\ (call[t].type = "mutex" => sems[call[t].s].limit = 1)
    BY <2>5 DEF Limits, IInv, TypeInv
  <2> HIDE DEF CallsAgree, CallFits, Fits, PlaceFits, KindFits, Limits, Active, About,
               BornOnce, End, IInv, BirthInv, TypeInv, EntryTypes, EntryTyped, CallTypes,
               HistoryTypes, Locals, Fields, guardVars, nodeVars, histVars, Goto
  <2> QED BY <2>1, <2>2, <2>3, <2>4 DEF Fits, PlaceFits, KindFits, WaitsMultiple
<1>15. CASE LockTest(t)
  <2>1. pc[t] = "lock" /\ pc'[t] \in {"scan", "failed"}
    BY <1>15 DEF LockTest
  <2>2. SameCall(t)
    BY <1>15 DEF LockTest, SameCall
  <2>3. Active(t) /\ PlaceFits(t) /\ KindFits(t)
    BY <2>1
  <2> HIDE DEF CallsAgree, CallFits, Fits, PlaceFits, KindFits, Limits, Active, About,
               BornOnce, End, IInv, BirthInv, TypeInv, EntryTypes, EntryTyped, CallTypes,
               HistoryTypes, Locals, Fields, guardVars, nodeVars, histVars, Goto
  <2>5. PlaceFits(t)'
    BY <2>1, <2>2, <2>3 DEF PlaceFits, SameCall
  <2>6. KindFits(t)'
    BY <1>0, <2>1, <2>2, <2>3, KindKept
  <2> QED BY <2>5, <2>6 DEF Fits
<1>16. CASE LockScan(t)
  <2>1. pc[t] = "scan" /\ pc'[t] \in {"scan", "take", "granted", "failed"}
    BY <1>16 DEF LockScan
  <2>2. SameCall(t)
    BY <1>16 DEF LockScan, SameCall
  <2>3. Active(t) /\ PlaceFits(t) /\ KindFits(t)
    BY <2>1
  <2> HIDE DEF CallsAgree, CallFits, Fits, PlaceFits, KindFits, Limits, Active, About,
               BornOnce, End, IInv, BirthInv, TypeInv, EntryTypes, EntryTyped, CallTypes,
               HistoryTypes, Locals, Fields, guardVars, nodeVars, histVars, Goto
  <2>5. PlaceFits(t)'
    BY <2>1, <2>2, <2>3 DEF PlaceFits, SameCall
  <2>6. KindFits(t)'
    BY <1>0, <2>1, <2>2, <2>3, KindKept
  <2> QED BY <2>5, <2>6 DEF Fits
<1>17. CASE LockTake(t)
  <2>1. pc[t] = "take" /\ pc'[t] \in {"granted", "scan"}
    BY <1>17 DEF LockTake
  <2>2. SameCall(t)
    BY <1>17 DEF LockTake, SameCall
  <2>3. Active(t) /\ PlaceFits(t) /\ KindFits(t)
    BY <2>1
  <2> HIDE DEF CallsAgree, CallFits, Fits, PlaceFits, KindFits, Limits, Active, About,
               BornOnce, End, IInv, BirthInv, TypeInv, EntryTypes, EntryTyped, CallTypes,
               HistoryTypes, Locals, Fields, guardVars, nodeVars, histVars, Goto
  <2>5. PlaceFits(t)'
    BY <2>1, <2>2, <2>3 DEF PlaceFits, SameCall
  <2>6. KindFits(t)'
    BY <1>0, <2>1, <2>2, <2>3, KindKept
  <2> QED BY <2>5, <2>6 DEF Fits
<1>18. CASE LockReturn(t)
  BY <1>18 DEF LockReturn
<1>19. CASE Yield(t)
  <2>1. pc[t] = "failed" /\ pc'[t] \in {"again", "againmultiple"}
    BY <1>19 DEF Yield
  <2>2. SameCall(t)
    BY <1>19 DEF Yield, SameCall
  <2>3. Active(t) /\ PlaceFits(t) /\ KindFits(t)
    BY <2>1
  <2> HIDE DEF CallsAgree, CallFits, Fits, PlaceFits, KindFits, Limits, Active, About,
               BornOnce, End, IInv, BirthInv, TypeInv, EntryTypes, EntryTyped, CallTypes,
               HistoryTypes, Locals, Fields, guardVars, nodeVars, histVars, Goto
  <2>5. PlaceFits(t)'
    BY <2>1, <2>2, <2>3 DEF PlaceFits, SameCall
  <2>6. KindFits(t)'
    BY <1>0, <2>1, <2>2, <2>3, KindKept
  <2> QED BY <2>5, <2>6 DEF Fits
<1>20. CASE Again(t)
  <2>1. pc[t] = "again" /\ pc'[t] \in {"refused", "lock"}
    BY <1>20 DEF Again
  <2>2. SameCall(t)
    BY <1>20 DEF Again, SameCall
  <2>3. Active(t) /\ PlaceFits(t) /\ KindFits(t)
    BY <2>1
  <2>4. call[t].wait = "one"
    BY <2>1
  <2> HIDE DEF CallsAgree, CallFits, Fits, PlaceFits, KindFits, Limits, Active, About,
               BornOnce, End, IInv, BirthInv, TypeInv, EntryTypes, EntryTyped, CallTypes,
               HistoryTypes, Locals, Fields, guardVars, nodeVars, histVars, Goto
  <2>5. PlaceFits(t)'
    BY <2>1, <2>2, <2>3, <2>4 DEF PlaceFits, SameCall
  <2>6. KindFits(t)'
    BY <1>0, <2>1, <2>2, <2>3, KindKept
  <2> QED BY <2>5, <2>6 DEF Fits
<1>21. CASE AgainMultiple(t)
  <2>1. pc[t] = "againmultiple" /\ pc'[t] \in {"refused", "lock"}
    BY <1>21 DEF AgainMultiple
  <2>2. SameCall(t)
    BY <1>21 DEF AgainMultiple, SameCall
  <2>3. Active(t) /\ PlaceFits(t) /\ KindFits(t)
    BY <2>1
  <2>4. call'[t].s = 0
    BY <1>21 DEF AgainMultiple
  <2> HIDE DEF CallsAgree, CallFits, Fits, PlaceFits, KindFits, Limits, Active, About,
               BornOnce, End, IInv, BirthInv, TypeInv, EntryTypes, EntryTyped, CallTypes,
               HistoryTypes, Locals, Fields, guardVars, nodeVars, histVars, Goto
  <2>5. PlaceFits(t)'
    BY <2>1, <2>2, <2>3, <2>4 DEF PlaceFits, SameCall
  <2>6. KindFits(t)'
    BY <1>0, <2>1, <2>2, <2>3, KindKept
  <2> QED BY <2>5, <2>6 DEF Fits
<1>22. CASE NextSem(t)
  <2>1. pc[t] \in {"granted", "failed"} /\ pc'[t] \in {"lock"}
    BY <1>22 DEF NextSem
  <2>2. SameCall(t)
    BY <1>22 DEF NextSem, SameCall
  <2>3. Active(t) /\ PlaceFits(t) /\ KindFits(t)
    BY <2>1
  <2> HIDE DEF CallsAgree, CallFits, Fits, PlaceFits, KindFits, Limits, Active, About,
               BornOnce, End, IInv, BirthInv, TypeInv, EntryTypes, EntryTyped, CallTypes,
               HistoryTypes, Locals, Fields, guardVars, nodeVars, histVars, Goto
  <2>5. PlaceFits(t)'
    BY <2>1, <2>2, <2>3 DEF PlaceFits, SameCall
  <2>6. KindFits(t)'
    BY <1>0, <2>1, <2>2, <2>3, KindKept
  <2> QED BY <2>5, <2>6 DEF Fits
<1>23. CASE Revert(t)
  <2>1. pc[t] = "failed" /\ pc'[t] \in {"revert"}
    BY <1>23 DEF Revert
  <2>2. SameCall(t)
    BY <1>23 DEF Revert, SameCall
  <2>3. Active(t) /\ PlaceFits(t) /\ KindFits(t)
    BY <2>1
  <2> HIDE DEF CallsAgree, CallFits, Fits, PlaceFits, KindFits, Limits, Active, About,
               BornOnce, End, IInv, BirthInv, TypeInv, EntryTypes, EntryTyped, CallTypes,
               HistoryTypes, Locals, Fields, guardVars, nodeVars, histVars, Goto
  <2>5. PlaceFits(t)'
    BY <2>1, <2>2, <2>3 DEF PlaceFits, SameCall
  <2>6. KindFits(t)'
    BY <1>0, <2>1, <2>2, <2>3, KindKept
  <2> QED BY <2>5, <2>6 DEF Fits
<1>24. CASE UnlockTest(t)
  <2>1. pc[t] \in {"unlock", "post"} /\ pc'[t] \in {"clear", "refused"}
    BY <1>24 DEF UnlockTest
  <2>2. SameCall(t)
    <3>1. CASE call' = [call EXCEPT ![t] = [@ EXCEPT !.l = 0, !.done = 0]]
      BY <3>1 DEF SameCall
    <3>2. CASE call' = call
      BY <3>2 DEF SameCall
    <3> QED BY <1>24, <3>1, <3>2 DEF UnlockTest
  <2>3. Active(t) /\ PlaceFits(t) /\ KindFits(t)
    BY <2>1
  <2>4. call[t].wait = "one"
    BY <2>1, <2>3
  <2> HIDE DEF CallsAgree, CallFits, Fits, PlaceFits, KindFits, Limits, Active, About,
               BornOnce, End, IInv, BirthInv, TypeInv, EntryTypes, EntryTyped, CallTypes,
               HistoryTypes, Locals, Fields, guardVars, nodeVars, histVars, Goto
  <2>5. PlaceFits(t)'
    BY <2>1, <2>2, <2>3, <2>4 DEF PlaceFits, SameCall
  <2>6. KindFits(t)'
    BY <1>0, <2>1, <2>2, <2>3, KindKept
  <2> QED BY <2>5, <2>6 DEF Fits
<1>25. CASE UnlockClear(t)
  <2>1. pc[t] = "clear" /\ pc'[t] \in {"clear", "released", "abort"}
    BY <1>25 DEF UnlockClear
  <2>2. SameCall(t)
    <3>1. CASE call' = [call EXCEPT ![t] = [call[t] EXCEPT !.l = @ + 1, !.done = @ + 1]]
      BY <3>1 DEF SameCall
    <3>2. CASE call' = [call EXCEPT ![t].l = @ + 1]
      BY <3>2 DEF SameCall
    <3>3. CASE call' = call
      BY <3>3 DEF SameCall
    <3> QED BY <1>25, <3>1, <3>2, <3>3 DEF UnlockClear
  <2>3. Active(t) /\ PlaceFits(t) /\ KindFits(t)
    BY <2>1
  <2> HIDE DEF CallsAgree, CallFits, Fits, PlaceFits, KindFits, Limits, Active, About,
               BornOnce, End, IInv, BirthInv, TypeInv, EntryTypes, EntryTyped, CallTypes,
               HistoryTypes, Locals, Fields, guardVars, nodeVars, histVars, Goto
  <2>5. PlaceFits(t)'
    BY <2>1, <2>2, <2>3 DEF PlaceFits, SameCall
  <2>6. KindFits(t)'
    BY <1>0, <2>1, <2>2, <2>3, KindKept
  <2> QED BY <2>5, <2>6 DEF Fits
<1>26. CASE UnlockReturn(t)
  BY <1>26 DEF UnlockReturn
<1>27. CASE MutexLock(t)
  <2>1. CASE call' = [call EXCEPT ![t].op = "lock"] /\ pc'[t] = "probe"
    <3>0. pc[t] = "mlock"
      BY <1>27 DEF MutexLock
    <3>1. pc[t] = "mlock" /\ Ready(call[t].s)
      <4>1. Active(t)
        BY <3>0
      <4> HIDE DEF CallsAgree, CallFits, Fits, PlaceFits, KindFits, Limits, Active, About,
                   BornOnce, End, IInv, BirthInv, TypeInv, EntryTypes, EntryTyped,
                   CallTypes, HistoryTypes, Locals, Fields, guardVars, nodeVars, histVars,
                   Goto
      <4> QED BY <3>0, <4>1, AboutReady
    <3>2. /\ call'[t].op = "lock" /\ call'[t].s = call[t].s /\ call'[t].wait = call[t].wait
          /\ call'[t].type = call[t].type /\ call'[t].n = call[t].n
      BY <2>1
    <3>3. KindFits(t) /\ call[t].op = "mlock" /\ call[t].wait = "one"
      BY <3>1
    <3>4. sems'[call[t].s].type = sems[call[t].s].type
      BY <3>1
    <3> HIDE DEF CallsAgree, CallFits, Fits, PlaceFits, KindFits, Limits, Active, About,
                 BornOnce, End, IInv, BirthInv, TypeInv, EntryTypes, EntryTyped, CallTypes,
                 HistoryTypes, Locals, Fields, guardVars, nodeVars, histVars, Goto
    <3> QED BY <2>1, <3>2, <3>3, <3>4 DEF Fits, PlaceFits, KindFits, WaitsMultiple
  <2>2. CASE pc'[t] = "idle"
    BY <2>2
  <2> QED BY <1>27, <2>1, <2>2 DEF MutexLock
<1>28. CASE MutexUnlock(t)
  <2>1. CASE call' = [call EXCEPT ![t].op = "unlock"] /\ pc'[t] = "probe"
    <3>0. pc[t] = "munlock"
      BY <1>28 DEF MutexUnlock
    <3>1. pc[t] = "munlock" /\ Ready(call[t].s)
      <4>1. Active(t)
        BY <3>0
      <4> HIDE DEF CallsAgree, CallFits, Fits, PlaceFits, KindFits, Limits, Active, About,
                   BornOnce, End, IInv, BirthInv, TypeInv, EntryTypes, EntryTyped,
                   CallTypes, HistoryTypes, Locals, Fields, guardVars, nodeVars, histVars,
                   Goto
      <4> QED BY <3>0, <4>1, AboutReady
    <3>2. /\ call'[t].op = "unlock" /\ call'[t].s = call[t].s /\ call'[t].wait = call[t].wait
          /\ call'[t].type = call[t].type /\ call'[t].n = call[t].n
      BY <2>1
    <3>3. KindFits(t) /\ call[t].op = "munlock" /\ call[t].wait = "one"
      BY <3>1
    <3>4. sems'[call[t].s].type = sems[call[t].s].type
      BY <3>1
    <3> HIDE DEF CallsAgree, CallFits, Fits, PlaceFits, KindFits, Limits, Active, About,
                 BornOnce, End, IInv, BirthInv, TypeInv, EntryTypes, EntryTyped, CallTypes,
                 HistoryTypes, Locals, Fields, guardVars, nodeVars, histVars, Goto
    <3> QED BY <2>1, <3>2, <3>3, <3>4 DEF Fits, PlaceFits, KindFits, WaitsMultiple
  <2>2. CASE pc'[t] = "idle"
    BY <2>2
  <2> QED BY <1>28, <2>1, <2>2 DEF MutexUnlock
<1>29. CASE Delete(t)
  BY <1>29 DEF Delete
<1>30. CASE CreateSearch(t)
  BY <1>30 DEF CreateSearch, Creations, Setups
<1>31. CASE CreateSetup(t)
  <2>1. pc'[t] \in Creations
    BY <1>31, CreatorEffect DEF Creations
  <2> QED BY <2>1
<1>32. CASE Finalize(t)
  BY <1>32 DEF Finalize
<1>33. CASE Initialize(t)
  BY <1>33 DEF Initialize
<1>34. CASE CreateEnd(t)
  BY <1>34 DEF CreateEnd
<1> HIDE DEF CallsAgree, WaitsOne, WaitsMultiple, CallFits, Fits, PlaceFits, KindFits,
             Limits, Active, About, BornOnce, End, IInv, BirthInv, TypeInv, EntryTypes,
             EntryTyped, CallTypes, HistoryTypes, Locals, Fields, guardVars, nodeVars,
             histVars, Goto
<1> QED BY <1>1, <1>2, <1>3, <1>4, <1>5, <1>6, <1>7, <1>8, <1>9, <1>10, <1>11, <1>12,
           <1>13, <1>14, <1>15, <1>16, <1>17, <1>18, <1>19, <1>20, <1>21, <1>22, <1>23,
           <1>24, <1>25, <1>26, <1>27, <1>28, <1>29, <1>30, <1>31, <1>32,
           <1>33, <1>34 DEF Calling, Inside, Waiting

\* Every step keeps what the calls are about.
LEMMA CallFitsStep ==
  ASSUME ~Early, IInv, BirthInv, CallFits, Limits, TypeInv', NEW t \in Nodes,
         Calling(t) \/ Inside(t) \/ Waiting(t) \/ Finalize(t) \/ Initialize(t)
  PROVE  CallFits'
<1>1. \A s \in Sems : Ready(s) => sems'[s].type = sems[s].type
  BY ReadyFrame DEF SameKind
<1>2. CallEffect(t)
  BY CallStep DEF IInv, BirthInv
<1>3. ASSUME NEW u \in Nodes, u # t, Active(u)' PROVE Fits(u)'
  <2>1. pc'[u] = pc[u] /\ call'[u] = call[u] /\ Active(u)
    BY <1>2, <1>3 DEF CallEffect, Active
  <2>2. call[u].s \in Sems /\ \A s \in Sems : About(u, s) => sems'[s].type = sems[s].type
    BY <1>1, <2>1 DEF IInv, TypeInv, BirthInv, BornOnce, Ready
  <2>3. PlaceFits(u)' /\ KindFits(u)
    BY <2>1 DEF CallFits, Fits, PlaceFits
  <2>4. KindFits(u)'
    BY <2>1, <2>2, <2>3 DEF KindFits, About
  <2> QED BY <2>3, <2>4 DEF Fits
<1> QED BY <1>3, FitsStep DEF CallFits

-----------------------------------------------------------------------------
\* The steps of a creator that writes an entry.
LEMMA SetupMoves ==
  ASSUME TypeInv, NEW t \in Nodes, pc[t] \in Setups,
         Calling(t) \/ Inside(t) \/ Waiting(t) \/ Finalize(t) \/ Initialize(t)
  PROVE  CreateSetup(t) \/ CreateEnd(t) \/ UNCHANGED <<sems, pc, call, histVars>>
<1>1. pc[t] \notin {"idle", "create"} \cup Sections \cup WaitsOne \cup WaitsMultiple
  BY DEF Setups, Sections, WaitsOne, WaitsMultiple
<1>2. ~Calling(t)
  BY <1>1 DEF Calling, CallLock, CallMutexLock, CallWriter, CallUnlock, CallMutexUnlock,
     CallDelete, CallMultiple, CallCreate, Call, Get, Goto
<1>3. ~Waiting(t)
  BY <1>1 DEF Waiting, Probe, Enter, WriterLimit, EnterMultiple, Again, AgainMultiple, Goto,
     WaitsOne, WaitsMultiple
<1>4. Inside(t) => CreateSetup(t) \/ CreateEnd(t)
  BY <1>1 DEF Inside, LockTest, LockScan, LockTake, LockReturn, Yield, NextSem, Revert,
     UnlockTest, UnlockClear, UnlockReturn, MutexLock, MutexUnlock, Delete, CreateSearch,
     Return, Goto, Sections
<1>5. ~Finalize(t)
  BY <1>1 DEF Finalize
<1>6. Initialize(t) => UNCHANGED <<sems, pc, call, histVars>>
  BY DEF Initialize
<1> QED BY <1>2, <1>3, <1>4, <1>5, <1>6

\* What a creator has found and written so far, in scalars.
LEMMA HalfTyped ==
  ASSUME IInv, BirthInv, NEW t \in Nodes, pc[t] \in Setups
  PROVE  /\ call[t].s \in Sems /\ DOMAIN sems = Sems /\ EntryTyped(call[t].s)
         /\ call[t].n \in Nat /\ call[t].l \in Nat /\ call[t].tmp \in Int
         /\ call[t].n < MaxShared /\ MaxShared \in Nat \ {0}
         /\ NewLimit(t) \in 1 .. MaxShared /\ call[t].n <= NewLimit(t)
         /\ call[t].n # 0 => NewLimit(t) = MaxShared
         /\ DOMAIN call = Nodes /\ DOMAIN call[t] = Locals /\ DOMAIN pc = Nodes
<1>1. call[t].s \in Sems /\ DOMAIN call = Nodes /\ DOMAIN call[t] = Locals /\ DOMAIN pc = Nodes
  BY DEF IInv, TypeInv
<1>2. DOMAIN sems = Sems /\ EntryTyped(call[t].s)
  BY <1>1 DEF BirthInv, EntryTypes
<1>3. call[t].n \in Nat /\ call[t].l \in Nat /\ call[t].tmp \in Int
  BY DEF BirthInv, CallTypes
<1>4. call[t].n < MaxShared /\ (call[t].n # 0 => call[t].type = "sem")
  BY DEF BirthInv, Creating, Creations
<1>5. MaxShared \in Nat \ {0}
  BY LocksAssumption
<1> QED BY <1>1, <1>2, <1>3, <1>4, <1>5 DEF NewLimit

\* A step of the creator keeps what it has written as far as it says.
LEMMA HalfOwn ==
  ASSUME IInv, BirthInv, NEW t \in Nodes, CreateSetup(t), Halfway(t)
  PROVE  Halfway(t)'
<1> DEFINE c == call[t].s
           n == call[t].n
           k == call[t].l
           e == sems[c]
<1>1. pc[t] \in Setups /\ pc'[t] \in Setups
  BY CreatorEffect DEF IInv, TypeInv
<1>2. /\ call'[t].s = c /\ call'[t].n = n /\ call'[t].type = call[t].type /\ out' = out
      /\ sems'[c].type = e.type
  <2>1. \A f \in {"s", "n", "type"} : f \in Locals \ {"l", "tmp"}
    BY DEF Locals
  <2>2. \A f \in Locals \ {"l", "tmp"} : call'[t][f] = call[t][f]
    BY CreatorEffect DEF IInv
  <2>3. out' = out /\ sems'[c].type = e.type
    BY CreatorEffect, CreatorEntry DEF IInv, BirthInv
  <2> HIDE DEF IInv
  <2> QED BY <2>1, <2>2, <2>3
<1>3. NewLimit(t)' = NewLimit(t)
  BY <1>2 DEF NewLimit
<1>4. /\ c \in Sems /\ DOMAIN sems = Sems /\ DOMAIN e = Fields
      /\ n \in Nat /\ k \in Nat /\ call[t].tmp \in Int /\ n < MaxShared /\ MaxShared \in Nat \ {0}
      /\ NewLimit(t) \in 1 .. MaxShared /\ n <= NewLimit(t) /\ (n # 0 => NewLimit(t) = MaxShared)
      /\ DOMAIN call = Nodes /\ DOMAIN call[t] = Locals /\ DOMAIN pc = Nodes
      /\ DOMAIN e.locked = Indices /\ DOMAIN e.lvalid = Indices /\ e.num_locks \in Int
      /\ \A i \in Indices : e.locked[i] \in BOOLEAN /\ e.lvalid[i] \in BOOLEAN
  BY <1>1, HalfTyped DEF EntryTyped
<1>5. e.type = call[t].type /\ out[c] = n
  BY DEF Halfway
<1>6. /\ IF pc[t] \in {"log", "valid", "limit"} THEN k = 0 ELSE e.limit = NewLimit(t)
      /\ \A i \in Indices :
           /\ e.lvalid[i] <=> i < k \/ (i = k /\ pc[t] \in {"fill", "hold", "count"})
           /\ e.locked[i] <=> i < n /\ (i < k \/ (i = k /\ pc[t] \in {"hold", "count"}))
      /\ e.num_locks = IF k < n THEN k ELSE n
      /\ pc[t] \in {"fill", "hold", "count"} => k < n
      /\ pc[t] = "count" => call[t].tmp = e.num_locks
  BY DEF Halfway
<1> DEFINE f == sems'[c]
           j == call'[t].l
           Later == /\ IF pc'[t] \in {"log", "valid", "limit"} THEN j = 0 ELSE f.limit = NewLimit(t)
                    /\ \A i \in Indices :
                         /\ f.lvalid[i] <=> i < j \/ (i = j /\ pc'[t] \in {"fill", "hold", "count"})
                         /\ f.locked[i] <=> i < n /\ (i < j \/ (i = j /\ pc'[t] \in {"hold", "count"}))
                    /\ f.num_locks = IF j < n THEN j ELSE n
                    /\ pc'[t] \in {"fill", "hold", "count"} => j < n
                    /\ pc'[t] = "count" => call'[t].tmp = f.num_locks
<1>7. SUFFICES Later
  <2>1. Later => Halfway(t)'
    <3> SUFFICES ASSUME Later PROVE Halfway(t)'
      OBVIOUS
    <3>1. /\ sems'[c].type = call'[t].type /\ out'[c] = n
      BY <1>2, <1>5
    <3> QED BY <1>2, <1>3, <3>1 DEF Halfway
  <2> QED BY <2>1
<1>8. \A i \in Indices : i \in Nat
  BY DEF Indices
<1>9. \A i \in Indices : i < k + 1 <=> i < k \/ i = k
  BY <1>4, <1>8
<1>10. CASE CreateLog(t)
  <2>1. pc[t] = "log" /\ pc'[t] = "valid" /\ sems' = sems /\ call'[t].l = k
    BY <1>4, <1>10 DEF CreateLog, Goto, Locals
  <2> QED BY <1>6, <2>1
<1>11. CASE CreateValid(t)
  <2>1. /\ pc[t] = "valid" /\ pc'[t] = "limit" /\ call'[t].l = k
        /\ f.lvalid = e.lvalid /\ f.locked = e.locked /\ f.num_locks = e.num_locks
    BY <1>4, <1>11 DEF CreateValid, Goto, Fields
  <2> QED BY <1>6, <2>1
<1>12. CASE CreateLimit(t)
  <2>1. /\ pc[t] = "limit" /\ pc'[t] = "make" /\ call'[t].l = k /\ f.limit = NewLimit(t)
        /\ f.lvalid = e.lvalid /\ f.locked = e.locked /\ f.num_locks = e.num_locks
    BY <1>4, <1>12 DEF CreateLimit, Goto, Fields
  <2> QED BY <1>6, <2>1
<1>13. CASE CreateMake(t)
  <2>1. /\ pc[t] = "make" /\ k < NewLimit(t)
        /\ f.lvalid = [e.lvalid EXCEPT ![k] = TRUE] /\ f.locked = e.locked
        /\ f.num_locks = e.num_locks /\ f.limit = e.limit
    BY <1>4, <1>13 DEF CreateMake, Fields
  <2>2. k \in Indices
    BY <1>4, <2>1 DEF Indices
  <2>3. \A i \in Indices : f.lvalid[i] <=> i < k \/ i = k
    BY <1>4, <1>6, <1>8, <2>1, <2>2
  <2>4. CASE k < n
    <3>1. pc'[t] = "fill" /\ call'[t].l = k
      BY <1>4, <1>13, <2>4 DEF CreateMake
    <3> QED BY <1>6, <2>1, <2>3, <2>4, <3>1
  <2>5. CASE ~(k < n)
    <3>1. pc'[t] = "make" /\ call'[t].l = k + 1
      BY <1>4, <1>13, <2>1, <2>5 DEF CreateMake, Locals
    <3>2. f.num_locks = IF k + 1 < n THEN k + 1 ELSE n
      BY <1>4, <1>6, <2>1, <2>5
    <3>3. \A i \in Indices : /\ f.lvalid[i] <=> i < k + 1
                             /\ f.locked[i] <=> i < n /\ i < k + 1
      BY <1>4, <1>6, <1>8, <1>9, <2>1, <2>3, <2>5
    <3> QED BY <1>6, <2>1, <3>1, <3>2, <3>3
  <2> QED BY <2>4, <2>5
<1>14. CASE CreateFill(t)
  <2>1. /\ pc[t] = "fill" /\ pc'[t] = "hold" /\ call'[t].l = k
        /\ f.locked = [e.locked EXCEPT ![k] = TRUE] /\ f.lvalid = e.lvalid
        /\ f.num_locks = e.num_locks /\ f.limit = e.limit
    BY <1>4, <1>14 DEF CreateFill, Goto, Fields
  <2>2. \A i \in Indices : f.locked[i] <=> i < n /\ (i < k \/ i = k)
    BY <1>4, <1>6, <1>8, <2>1
  <2> QED BY <1>6, <2>1, <2>2
<1>15. CASE CreateHold(t)
  <2>1. /\ pc[t] = "hold" /\ pc'[t] = "count" /\ call'[t].l = k /\ call'[t].tmp = e.num_locks
        /\ f.locked = e.locked /\ f.lvalid = e.lvalid
        /\ f.num_locks = e.num_locks /\ f.limit = e.limit
    BY <1>4, <1>15 DEF CreateHold, Goto, Fields, S, Locals
  <2> QED BY <1>6, <2>1
<1>16. CASE CreateCount(t)
  <2>1. /\ pc[t] = "count" /\ pc'[t] = "make" /\ call'[t].l = k + 1
        /\ f.locked = e.locked /\ f.lvalid = e.lvalid
        /\ f.num_locks = call[t].tmp + 1 /\ f.limit = e.limit
    BY <1>4, <1>16 DEF CreateCount, Goto, Fields, Locals
  <2>2. f.num_locks = IF k + 1 < n THEN k + 1 ELSE n
    BY <1>4, <1>6, <2>1
  <2>3. \A i \in Indices : /\ f.lvalid[i] <=> i < k + 1
                           /\ f.locked[i] <=> i < n /\ i < k + 1
    BY <1>4, <1>6, <1>8, <1>9, <2>1
  <2> QED BY <1>6, <2>1, <2>2, <2>3
<1> QED BY <1>10, <1>11, <1>12, <1>13, <1>14, <1>15, <1>16 DEF CreateSetup

\* Nobody else writes an entry that is not complete.
LEMMA HalfStep ==
  ASSUME ~Early, IInv, BirthInv, BirthInv', Half, NEW t \in Nodes,
         Calling(t) \/ Inside(t) \/ Waiting(t) \/ Finalize(t) \/ Initialize(t)
  PROVE  Half'
<1> SUFFICES ASSUME NEW u \in Nodes, pc'[u] \in Setups PROVE Halfway(u)'
  BY DEF Half
<1>1. \A v \in Nodes : v # t => pc'[v] = pc[v] /\ call'[v] = call[v]
  BY CallStep DEF CallEffect, IInv, BirthInv
<1>2. CASE u # t
  <2>1. pc[u] \in Setups /\ call'[u] = call[u] /\ pc'[u] = pc[u] /\ Halfway(u)
    BY <1>1, <1>2 DEF Half
  <2>2. call[u].s \in Sems /\ born[call[u].s] = 1 /\ ~sems[call[u].s].attrs
    BY <2>1 DEF BirthInv, Creating, IInv, TypeInv
  <2>3. ~In(t, call[u].s)
    <3>1. SUFFICES ASSUME In(t, call[u].s) PROVE FALSE
      OBVIOUS
    <3>2. Active(t) /\ About(t, call[u].s)
      BY <3>1 DEF In, Active, About, Creations, Setups
    <3> QED BY <2>2, <3>2 DEF BirthInv, BornOnce
  <2>4. ~Writes(t, call[u].s)
    <3>1. SUFFICES ASSUME pc[t] \in Setups PROVE FALSE
      BY DEF Writes
    <3>2. global = t /\ global = u
      BY <2>1, <3>1 DEF BirthInv, Creating, Creations
    <3> QED BY <1>2, <3>2
  <2>5. SameEntry(call[u].s) /\ SameKind(call[u].s)
    BY <2>2, <2>3, <2>4, EntryFrame, KindFrame
  <2> QED BY <2>1, <2>5 DEF Halfway, SameEntry, SameKind, NewLimit
<1>3. CASE u = t /\ pc[t] \in Setups
  <2>1. Halfway(t)
    BY <1>3 DEF Half
  <2>2. CreateSetup(t) \/ CreateEnd(t) \/ UNCHANGED <<sems, pc, call, histVars>>
    BY <1>3, SetupMoves DEF IInv
  <2>3. CASE CreateSetup(t)
    BY <1>3, <2>1, <2>3, HalfOwn
  <2>4. ~CreateEnd(t)
    BY <1>3 DEF CreateEnd, Goto, Setups, IInv, TypeInv
  <2>5. CASE UNCHANGED <<sems, pc, call, histVars>>
    BY <1>3, <2>1, <2>5 DEF Halfway, NewLimit, histVars
  <2> QED BY <2>2, <2>3, <2>4, <2>5
<1>4. CASE u = t /\ pc[t] \notin Setups
  <2>1. GlobalEffect(t)
    BY GlobalStep DEF IInv, BirthInv
  <2>2. CreateSearch(t)
    <3>1. Setups \subseteq Creations /\ "create" \notin Setups
      BY DEF Setups, Creations
    <3>2. ~CreateSetup(t) /\ ~CreateEnd(t)
      BY <1>4, CreatorEffect DEF CreateEnd, Goto, Setups, IInv
    <3> QED BY <1>4, <2>1, <3>1, <3>2 DEF GlobalEffect
  <2>3. PICK s \in Sems :
          /\ sems' = [sems EXCEPT ![s] = [Wiped EXCEPT !.key = call[t].key, !.type = call[t].type]]
          /\ call' = [call EXCEPT ![t].s = s]
          /\ pc' = [pc EXCEPT ![t] = "log"]
          /\ out' = [out EXCEPT ![s] = call[t].n]
    BY <1>4, <2>2 DEF CreateSearch, Setups, IInv, TypeInv
  <2>4. call[t].l = 0
    BY <2>2 DEF CreateSearch, BirthInv, Creating
  <2>5. /\ call'[t].s = s /\ call'[t].n = call[t].n /\ call'[t].type = call[t].type
        /\ call'[t].l = call[t].l /\ pc'[t] = "log" /\ out'[s] = call[t].n
    BY <2>3 DEF IInv, TypeInv, Locals, BirthInv, HistoryTypes
  <2>6. /\ sems'[s].type = call[t].type /\ sems'[s].lvalid = Wiped.lvalid
        /\ sems'[s].locked = Wiped.locked /\ sems'[s].num_locks = 0
    BY <2>3, WipedTyped DEF BirthInv, EntryTypes, Fields
  <2>7. \A i \in Indices : ~(i < 0) /\ ~sems'[s].lvalid[i] /\ ~sems'[s].locked[i]
    BY <2>6, WipedTyped DEF Indices
  <2>8. call[t].n \in Nat
    BY DEF BirthInv, CallTypes
  <2> HIDE DEF IInv
  <2> QED BY <1>4, <2>4, <2>5, <2>6, <2>7, <2>8 DEF Halfway
<1> QED BY <1>2, <1>3, <1>4

\* A lock becomes complete by the last step of its creator.
LEMMA Completed ==
  ASSUME IInv, BirthInv, NEW t \in Nodes,
         Calling(t) \/ Inside(t) \/ Waiting(t) \/ Finalize(t) \/ Initialize(t),
         NEW s \in Sems, Ready(s)', ~Ready(s)
  PROVE  CreateEnd(t) /\ s = call[t].s
<1>1. SameBirths \/ Births(t)
  BY BirthEffect DEF IInv, BirthInv
<1>2. ~SameBirths
  BY DEF SameBirths, Ready
<1>3. DOMAIN sems = Sems /\ (\A r \in Sems : DOMAIN sems[r] = Fields) /\ DOMAIN born = Sems
  BY DEF BirthInv, EntryTypes, EntryTyped, HistoryTypes
<1>4. ~Delete(t)
  <2>1. SUFFICES ASSUME Delete(t) PROVE FALSE
    OBVIOUS
  <2>2. born' = born /\ sems' # sems
    BY <2>1 DEF Delete, Ready
  <2>3. sems' = [sems EXCEPT ![call[t].s] = [@ EXCEPT !.valid = FALSE, !.deleted = ExtError /\ sems[call[t].s].attrs]]
    BY <2>1, <2>2 DEF Delete
  <2>4. sems'[s].attrs = sems[s].attrs
    BY <1>3, <2>3 DEF Fields
  <2> QED BY <2>2, <2>4 DEF Ready
<1>5. ~CreateSearch(t)
  <2>1. SUFFICES ASSUME CreateSearch(t) PROVE FALSE
    OBVIOUS
  <2>2. CASE sems' = sems /\ born' = born
    BY <2>2 DEF Ready
  <2>3. ASSUME NEW r \in Sems,
               sems' = [sems EXCEPT ![r] = [Wiped EXCEPT !.key = call[t].key, !.type = call[t].type]],
               born' = [born EXCEPT ![r] = @ + 1]
        PROVE  FALSE
    <3>1. ~sems'[r].attrs
      BY <1>3, <2>3, WipedTyped DEF Fields
    <3>2. s # r
      BY <3>1 DEF Ready
    <3>3. sems'[s] = sems[s] /\ born'[s] = born[s]
      BY <1>3, <2>3, <3>2
    <3> QED BY <3>3 DEF Ready
  <2> QED BY <2>1, <2>2, <2>3 DEF CreateSearch, histVars
<1>6. ~CreateSetup(t)
  <2>1. SUFFICES ASSUME CreateSetup(t) PROVE FALSE
    OBVIOUS
  <2>2. born' = born /\ sems'[s].attrs = sems[s].attrs
    BY <2>1, CreatorEffect, CreatorEntry DEF IInv, BirthInv
  <2> QED BY <2>2 DEF Ready
<1>7. CreateEnd(t)
  BY <1>1, <1>2, <1>4, <1>5, <1>6 DEF Births
<1>8. born' = born /\ sems' = [sems EXCEPT ![call[t].s].attrs = TRUE]
  BY <1>7 DEF CreateEnd
<1>9. s # call[t].s => sems'[s] = sems[s]
  BY <1>3, <1>8
<1> QED BY <1>7, <1>8, <1>9 DEF Ready

\* Numbers from 0 on.
LEMMA CountUp ==
  ASSUME NEW n \in Nat
  PROVE  IsFiniteSet(0 .. n - 1) /\ Cardinality(0 .. n - 1) = n
<1>1. 0 \in Int /\ n - 1 \in Int
  OBVIOUS
<1>2. IsFiniteSet(0 .. n - 1)
      /\ Cardinality(0 .. n - 1) = IF 0 > n - 1 THEN 0 ELSE (n - 1) - 0 + 1
  BY <1>1, FS_Interval
<1> QED BY <1>2

\* When the creator is done its lock is counted, and all its locks are valid.
LEMMA HalfDone ==
  ASSUME IInv, BirthInv, Half, NEW t \in Nodes, CreateEnd(t), NEW s \in Sems, s = call[t].s
  PROVE  /\ SameEntry(s) /\ sems'[s].type = sems[s].type /\ sems[s].type = call[t].type
         /\ sems[s].limit = NewLimit(t) /\ NewLimit(t) > 0
         /\ \A l \in Limit(s) : sems[s].lvalid[l]
         /\ Locked(s) = 0 .. call[t].n - 1
         /\ Counted(s, 0)
<1> DEFINE n == call[t].n
           k == call[t].l
           e == sems[s]
           m == NewLimit(t)
<1>1. pc[t] = "make" /\ ~(k < m) /\ pc[t] \in Setups
  <2>1. pc[t] = "make" /\ k >= m
    BY DEF CreateEnd, Goto
  <2>2. k \in Nat /\ m \in 1 .. MaxShared
    BY <2>1, HalfTyped DEF Setups
  <2> HIDE DEF k, m
  <2> QED BY <2>1, <2>2 DEF Setups
<1>2. /\ DOMAIN sems = Sems /\ EntryTyped(s) /\ n \in Nat /\ k \in Nat /\ n < MaxShared
      /\ MaxShared \in Nat \ {0} /\ m \in 1 .. MaxShared /\ n <= m
  BY <1>1, HalfTyped
<1>3. Halfway(t)
  BY <1>1 DEF Half
<1>4. /\ e.type = call[t].type /\ out[s] = n /\ e.limit = m
      /\ \A i \in Indices : /\ e.lvalid[i] <=> i < k
                            /\ e.locked[i] <=> i < n /\ i < k
      /\ e.num_locks = IF k < n THEN k ELSE n
  BY <1>1, <1>3 DEF Halfway
<1>5. SameEntry(s) /\ sems'[s].type = e.type
  <2>1. sems' = [sems EXCEPT ![s].attrs = TRUE] /\ out' = out
    BY DEF CreateEnd
  <2> QED BY <1>2, <2>1 DEF SameEntry, EntryTyped, Fields
<1> HIDE DEF n, k, m
<1>6. Limit(s) = 0 .. m - 1
  BY <1>4 DEF Limit
<1>7. \A i \in 0 .. m - 1 : i \in Indices /\ i \in Nat /\ i < k
  BY <1>1, <1>2 DEF Indices
<1>8. \A l \in Limit(s) : e.lvalid[l]
  BY <1>4, <1>6, <1>7
<1>9. Locked(s) = 0 .. n - 1
  <2>1. Locked(s) = {l \in 0 .. m - 1 : l < n}
    BY <1>4, <1>6, <1>7 DEF Locked
  <2> QED BY <1>2, <2>1
<1>10. e.num_locks = n
  BY <1>1, <1>2, <1>4
<1>11. Cardinality(Locked(s)) = n
  BY <1>2, <1>9, CountUp
<1>12. Counted(s, 0)
  BY <1>2, <1>4, <1>10, <1>11 DEF Counted
<1> QED BY <1>2, <1>4, <1>5, <1>8, <1>9, <1>12 DEF n, m

\* The limits stay, and are right for a new lock.
LEMMA LimitsStep ==
  ASSUME IInv, BirthInv, Half, Limits, NEW t \in Nodes,
         Calling(t) \/ Inside(t) \/ Waiting(t) \/ Finalize(t) \/ Initialize(t)
  PROVE  Limits'
<1> SUFFICES ASSUME NEW s \in Sems, Ready(s)'
             PROVE  /\ sems'[s].limit > 0 /\ (sems'[s].type = "mutex" => sems'[s].limit = 1)
                    /\ \A l \in Limit(s)' : sems'[s].lvalid[l]
  BY DEF Limits
<1>1. CASE Ready(s)
  <2>1. SameKind(s)
    BY <1>1, ReadyFrame
  <2> QED BY <1>1, <2>1 DEF Limits, SameKind, Limit
<1>2. CASE ~Ready(s)
  <2>1. CreateEnd(t) /\ s = call[t].s
    BY <1>2, Completed
  <2>2. /\ SameEntry(s) /\ sems'[s].type = sems[s].type /\ sems[s].type = call[t].type
        /\ sems[s].limit = NewLimit(t) /\ NewLimit(t) > 0
        /\ \A l \in Limit(s) : sems[s].lvalid[l]
    BY <2>1, HalfDone
  <2>3. Limit(s)' = Limit(s)
    BY <2>2 DEF SameEntry, Limit
  <2> QED BY <2>2, <2>3 DEF SameEntry, NewLimit
<1> QED BY <1>1, <1>2

-----------------------------------------------------------------------------
\* Sets of locks are finite, and no larger than the limit.
LEMMA LocksFinite ==
  ASSUME EntryTypes, NEW s \in Sems
  PROVE  /\ IsFiniteSet(Locked(s)) /\ Cardinality(Locked(s)) \in Nat
         /\ Cardinality(Locked(s)) <= sems[s].limit
         /\ \A x : x \subseteq Locked(s) =>
              IsFiniteSet(x) /\ Cardinality(x) \in Nat /\ Cardinality(x) <= Cardinality(Locked(s))
<1> DEFINE k == sems[s].limit
<1>1. k \in Nat
  BY LocksAssumption DEF EntryTypes, EntryTyped
<1>2. IsFiniteSet(0 .. k - 1) /\ Cardinality(0 .. k - 1) = k
  <2>1. k - 1 \in Int /\ 0 \in Int
    BY <1>1
  <2> HIDE DEF k
  <2> QED BY <1>1, <2>1, FS_Interval
<1>3. Locked(s) \subseteq 0 .. k - 1
  BY DEF Locked, Limit
<1> HIDE DEF k
<1>4. IsFiniteSet(Locked(s)) /\ Cardinality(Locked(s)) <= k
  BY <1>2, <1>3, FS_Subset
<1>5. Cardinality(Locked(s)) \in Nat
  BY <1>4, FS_CardinalityType
<1>6. ASSUME NEW x, x \subseteq Locked(s)
      PROVE  IsFiniteSet(x) /\ Cardinality(x) \in Nat /\ Cardinality(x) <= Cardinality(Locked(s))
  BY <1>4, <1>6, FS_Subset, FS_CardinalityType
<1> QED BY <1>4, <1>5, <1>6 DEF k

\* Where all locks are locked their number is the limit.
LEMMA AllLocked ==
  ASSUME EntryTypes, NEW s \in Sems,
         \A l \in Limit(s) : sems[s].lvalid[l] /\ sems[s].locked[l]
  PROVE  Cardinality(Locked(s)) = sems[s].limit
<1> DEFINE k == sems[s].limit
<1>1. k \in Nat
  BY LocksAssumption DEF EntryTypes, EntryTyped
<1>2. Locked(s) = 0 .. k - 1
  BY DEF Locked, Limit
<1>3. k - 1 \in Int /\ 0 \in Int
  BY <1>1
<1> HIDE DEF k
<1>4. Cardinality(0 .. k - 1) = k
  BY <1>1, <1>3, FS_Interval
<1> QED BY <1>2, <1>4 DEF k

\* The places of a call that is changing the locks of an entry.
Locking == {"scan", "take", "granted"}
Unlocking == {"clear", "released"}

\* What a call that worked on entry s, or goes to work on it, is to keep.
AtWorkAfter(t, s) ==
  /\ In(t, s)' => AtWork(t, s)'
  /\ ~In(t, s)' => Counted(s, 0)'

\* An entry that is left alone keeps its counts.
LEMMA CountsKept ==
  ASSUME NEW s \in Sems, SameEntry(s)
  PROVE  /\ Locked(s)' = Locked(s) /\ Limit(s)' = Limit(s)
         /\ \A k : Counted(s, k) => Counted(s, k)'
<1>1. Locked(s)' = Locked(s) /\ Limit(s)' = Limit(s)
  BY DEF SameEntry, Locked, Limit
<1> QED BY <1>1 DEF Counted, SameEntry

\* The numbers below the next one.
LEMMA NextBelow ==
  \A a \in Int, b \in Nat : a < b + 1 => a < b \/ a = b
OBVIOUS

\* A call on several locks leaves those alone that it is not at.
LEMMA OthersKept ==
  ASSUME NEW t \in Nodes, NEW s \in Sems, In(t, s), In(t, s)', s # call[t].s,
         call'[t].s = call[t].s, call'[t].wait = call[t].wait, SameEntry(s), AtWork(t, s)
  PROVE  AtWorkAfter(t, s)
<1>1. \A k : Counted(s, k) => Counted(s, k)'
  BY CountsKept
<1> QED BY <1>1 DEF AtWork, AtWorkAfter

\* A set with one member less.
LEMMA RemoveOne ==
  ASSUME NEW A, IsFiniteSet(A), NEW x \in A
  PROVE  Cardinality(A \ {x}) = Cardinality(A) - 1
BY FS_RemoveElement

\* The loop that unlocks finds the locks it counted: it does not run past the
\* last of them.
LEMMA UnlockFinds ==
  ASSUME IInv, BirthInv, NEW t \in Nodes, UnlockingWell(t), call[t].done < call[t].n
  PROVE  call[t].l < S(t).limit
<1>1. /\ call[t].s \in Sems /\ call[t].n \in Nat /\ call[t].l \in Nat /\ call[t].done \in Nat
      /\ S(t).limit \in Int
  BY LocksAssumption DEF IInv, TypeInv, BirthInv, CallTypes, EntryTypes, EntryTyped, S
<1>2. SUFFICES ASSUME call[t].l >= S(t).limit PROVE FALSE
  BY <1>1
<1>3. \A l \in Mine(t) : l \in Int /\ l < S(t).limit /\ l >= call[t].l
  <2>1. \A l \in Mine(t) : l \in Limit(call[t].s)
    BY DEF Mine, Own, Locked
  <2>2. \A l \in Limit(call[t].s) : l \in Int /\ l < S(t).limit
    BY <1>1 DEF Limit, S
  <2>3. \A l \in Mine(t) : l >= call[t].l
    BY DEF UnlockingWell
  <2> QED BY <2>1, <2>2, <2>3
<1>4. Mine(t) = {}
  BY <1>1, <1>2, <1>3
<1>5. Cardinality(Mine(t)) = 0
  BY <1>4, FS_EmptySet
<1> QED BY <1>1, <1>5 DEF UnlockingWell

\* Every step of a call keeps the counts of the entries it works on.
LEMMA AtWorkStep ==
  ASSUME NEW t \in Nodes,
         Calling(t) \/ Inside(t) \/ Waiting(t) \/ Finalize(t) \/ Initialize(t),
         ~Early, IInv, BirthInv, CallFits, Limits, NEW s \in Sems, Ready(s),
         In(t, s) \/ In(t, s)', In(t, s) => AtWork(t, s), ~In(t, s) => Counted(s, 0)
  PROVE  AtWorkAfter(t, s)
<1>0. \A l \in Limit(s) : sems[s].lvalid[l]
  BY DEF Limits
<1> USE LocksAssumption DEF IInv, TypeInv, Locals, guardVars, nodeVars, histVars, Goto,
                            Creations, Setups
<1>1. ASSUME NEW r \in Sems, NEW m \in Timeouts, CallLock(t, r, m)
      PROVE  AtWorkAfter(t, s)
  <2>1. pc[t] = "idle" /\ pc'[t] \in {"probe"}
    BY <1>1 DEF CallLock, Call
  <2> QED BY <2>1 DEF In
<1>2. ASSUME NEW r \in Sems, NEW m \in Timeouts, CallMutexLock(t, r, m)
      PROVE  AtWorkAfter(t, s)
  <2>1. pc[t] = "idle" /\ pc'[t] \in {"probe"}
    BY <1>2 DEF CallMutexLock, Call
  <2> QED BY <2>1 DEF In
<1>3. ASSUME NEW r \in Sems, NEW m \in Nat, NEW op \in {"lock", "unlock"},
             CallWriter(t, r, op, m)
      PROVE  AtWorkAfter(t, s)
  <2>1. pc[t] = "idle" /\ pc'[t] \in {"writer"}
    BY <1>3 DEF CallWriter, Call
  <2> QED BY <2>1 DEF In
<1>4. ASSUME NEW r \in Sems, NEW op \in {"unlock", "post"}, CallUnlock(t, r, op)
      PROVE  AtWorkAfter(t, s)
  <2>1. pc[t] = "idle" /\ pc'[t] \in {"probe"}
    BY <1>4 DEF CallUnlock, Call
  <2> QED BY <2>1 DEF In
<1>5. ASSUME NEW r \in Sems, NEW key \in 0 .. MaxDepth, CallMutexUnlock(t, r, key)
      PROVE  AtWorkAfter(t, s)
  <2>1. pc[t] = "idle" /\ pc'[t] \in {"probe"}
    BY <1>5 DEF CallMutexUnlock, Call
  <2> QED BY <2>1 DEF In
<1>6. ASSUME NEW r \in Sems, Deletes, CallDelete(t, r)
      PROVE  AtWorkAfter(t, s)
  <2>1. pc[t] = "idle" /\ pc'[t] \in {"probe"}
    BY <1>6 DEF CallDelete, Call
  <2> QED BY <2>1 DEF In
<1>7. ASSUME NEW w \in Waits, NEW m \in Timeouts, CallMultiple(t, w, m)
      PROVE  AtWorkAfter(t, s)
  <2>1. pc[t] = "idle" /\ pc'[t] \in {"entermultiple"}
    BY <1>7 DEF CallMultiple, Call
  <2> QED BY <2>1 DEF In
<1>8. ASSUME NEW key \in Keys, NEW type \in Types, NEW n \in 0 .. MaxShared - 1,
             CallCreate(t, key, type, n)
      PROVE  AtWorkAfter(t, s)
  <2>1. pc[t] = "idle" /\ pc'[t] \in {"create"}
    BY <1>8 DEF CallCreate
  <2> QED BY <2>1 DEF In
<1>9. ASSUME NEW key \in Keys, Get(t, key)
      PROVE  AtWorkAfter(t, s)
  <2>1. pc[t] = "idle" /\ pc'[t] \in {"idle"}
    BY <1>9 DEF Get
  <2> QED BY <2>1 DEF In
<1>10. CASE Probe(t)
  <2>1. pc[t] = "probe" /\ pc'[t] \in {"enter"}
    BY <1>10 DEF Probe
  <2> QED BY <2>1 DEF In
<1>11. CASE Enter(t)
  <2>1. SameEntry(s)
    BY <1>11 DEF Enter, SameEntry
  <2>2. \A k : Counted(s, k) => Counted(s, k)'
    BY <2>1, CountsKept
  <2>3. /\ ~In(t, s) /\ pc'[t] = call[t].op /\ call'[t] = call[t]
        /\ call[t].wait = "one"
        /\ call[t].op \in {"lock", "unlock", "post", "mlock", "munlock", "delete"}
    BY <1>11 DEF Enter, In, CallsAgree, WaitsOne
  <2>4. Counted(s, 0)'
    BY <2>2, <2>3
  <2> HIDE DEF IInv, TypeInv
  <2> QED BY <2>3, <2>4 DEF AtWorkAfter, AtWork, In
<1>12. CASE EnterMultiple(t)
  <2>1. SameEntry(s)
    BY <1>12 DEF EnterMultiple, SameEntry
  <2>2. \A k : Counted(s, k) => Counted(s, k)'
    BY <2>1, CountsKept
  <2>3. ~In(t, s) /\ pc'[t] \in {"refused", "lock"} /\ call'[t].s = 0
    BY <1>12 DEF EnterMultiple, In
  <2>4. Counted(s, 0)' /\ ~(s < 0)
    BY <2>2, <2>3 DEF Sems
  <2> HIDE DEF IInv, TypeInv
  <2> QED BY <2>3, <2>4 DEF AtWorkAfter, AtWork
<1>13. CASE Return(t)
  <2>1. SameEntry(s)
    BY <1>13 DEF Return, SameEntry
  <2>2. \A k : Counted(s, k) => Counted(s, k)'
    BY <2>1, CountsKept
  <2>3. pc[t] = "refused" /\ ~In(t, s)' /\ In(t, s)
    BY <1>13 DEF Return, In
  <2>4. Counted(s, 0)
    BY <2>3 DEF AtWork, CallFits, Fits, PlaceFits, KindFits, Active, Sems, In, CallsAgree,
       CallTypes
  <2> QED BY <2>2, <2>3, <2>4 DEF AtWorkAfter
<1>14. CASE WriterLimit(t)
  <2>1. pc[t] = "writer" /\ pc'[t] \in {"probe"}
    BY <1>14 DEF WriterLimit
  <2> QED BY <2>1 DEF In
<1>15. CASE LockTest(t)
  <2>1. SameEntry(s)
    BY <1>15 DEF LockTest, SameEntry
  <2>2. \A k : Counted(s, k) => Counted(s, k)'
    BY <2>1, CountsKept
  <2>3. /\ pc[t] = "lock" /\ pc'[t] \in {"scan", "failed"}
        /\ call'[t].s = call[t].s /\ call'[t].wait = call[t].wait /\ call'[t].n = call[t].n
        /\ call'[t].l = 0 /\ call'[t].done = 0
        /\ sems' = sems
        /\ pc'[t] = "scan" => S(t).limit - S(t).num_locks - call[t].n >= 0
    BY <1>15 DEF LockTest
  <2>4. In(t, s) /\ In(t, s)'
    BY <2>3 DEF In
  <2>5. CASE s # call[t].s
    BY <2>1, <2>3, <2>4, <2>5, OthersKept
  <2>6. CASE s = call[t].s
    <3>1. Counted(s, 0)' /\ call[t].n > 0 /\ call[t].n \in Nat
      <4>1. Counted(s, 0)
        BY <2>3, <2>4, <2>6 DEF AtWork
      <4>2. call[t].op = "lock" /\ Fits(t)
        BY <2>3 DEF CallFits, Fits, PlaceFits, Active
      <4>3. call[t].n > 0
        BY <2>3, <4>2 DEF Fits, KindFits
      <4>4. call[t].n \in Nat
        BY DEF BirthInv, CallTypes
      <4> QED BY <2>2, <4>1, <4>3, <4>4
    <3>2. \A l \in Limit(s)' : ~(l < 0)
      BY DEF Limit
    <3>3. pc'[t] = "scan" => LockingWell(t)'
      BY <2>3, <2>6, <3>1, <3>2 DEF LockingWell, S, BirthInv, EntryTypes, EntryTyped
    <3> HIDE DEF IInv, TypeInv
    <3> QED BY <2>3, <2>4, <2>6, <3>1, <3>3 DEF AtWorkAfter, AtWork
  <2> QED BY <2>5, <2>6
<1>16. CASE LockScan(t)
  <2>1. SameEntry(s)
    BY <1>16 DEF LockScan, SameEntry
  <2>2. \A k : Counted(s, k) => Counted(s, k)'
    BY <2>1, CountsKept
  <2>3. /\ pc[t] = "scan" /\ pc'[t] \in {"scan", "take", "granted", "failed"}
        /\ call'[t].s = call[t].s /\ call'[t].wait = call[t].wait /\ call'[t].n = call[t].n
        /\ call'[t].done = call[t].done /\ sems' = sems /\ out' = out
        /\ pc'[t] = "scan" =>
             /\ call'[t].l = call[t].l + 1 /\ call[t].l < S(t).limit
             /\ ~S(t).lvalid[call[t].l] \/ S(t).locked[call[t].l]
        /\ pc'[t] = "take" =>
             /\ call'[t].l = call[t].l /\ call[t].l < S(t).limit /\ ~S(t).locked[call[t].l]
             /\ call'[t].tmp = S(t).num_locks
        /\ pc'[t] = "failed" => call[t].l >= S(t).limit
        /\ pc'[t] = "granted" => call[t].done = call[t].n
    <3> DEFINE free == S(t).lvalid[call[t].l] /\ ~S(t).locked[call[t].l]
    <3>1. CASE /\ call[t].l < S(t).limit /\ ~free
               /\ call' = [call EXCEPT ![t].l = @ + 1]
               /\ pc' = [pc EXCEPT ![t] = IF call[t].done = call[t].n THEN "granted" ELSE "scan"]
      BY <1>16, <3>1 DEF LockScan
    <3>2. CASE /\ call[t].l < S(t).limit /\ free
               /\ call' = [call EXCEPT ![t].tmp = S(t).num_locks]
               /\ pc' = [pc EXCEPT ![t] = "take"]
      BY <1>16, <3>2 DEF LockScan
    <3>3. CASE /\ call[t].l >= S(t).limit /\ call' = call
               /\ pc' = [pc EXCEPT ![t] = IF call[t].done = call[t].n THEN "granted" ELSE "failed"]
      BY <1>16, <3>3 DEF LockScan
    <3> HIDE DEF free
    <3>4. \/ /\ call[t].l < S(t).limit /\ ~free
             /\ call' = [call EXCEPT ![t].l = @ + 1]
             /\ pc' = [pc EXCEPT ![t] = IF call[t].done = call[t].n THEN "granted" ELSE "scan"]
          \/ /\ call[t].l < S(t).limit /\ free
             /\ call' = [call EXCEPT ![t].tmp = S(t).num_locks]
             /\ pc' = [pc EXCEPT ![t] = "take"]
          \/ /\ call[t].l >= S(t).limit /\ call' = call
             /\ pc' = [pc EXCEPT ![t] = IF call[t].done = call[t].n THEN "granted" ELSE "failed"]
      BY <1>16 DEF LockScan, free
    <3> QED BY <3>1, <3>2, <3>3, <3>4
  <2>4. In(t, s) /\ In(t, s)'
    BY <2>3 DEF In
  <2>5. CASE s # call[t].s
    BY <2>1, <2>3, <2>4, <2>5, OthersKept
  <2>6. CASE s = call[t].s
    <3>1. LockingWell(t)
      BY <2>3, <2>4, <2>6 DEF AtWork
    <3>2. /\ call[t].n \in Nat /\ call[t].l \in Nat /\ call[t].done \in Nat
          /\ sems[s].limit \in Int /\ sems[s].num_locks \in Int
      BY <2>6 DEF BirthInv, CallTypes, EntryTypes, EntryTyped
    <3>3. pc'[t] # "failed"
      <4>1. SUFFICES ASSUME pc'[t] = "failed" PROVE FALSE
        OBVIOUS
      <4>2. \A l \in Limit(s) : sems[s].lvalid[l] /\ sems[s].locked[l]
        BY <1>0, <2>3, <2>6, <3>1, <3>2, <4>1 DEF LockingWell, Limit, S
      <4>3. Cardinality(Locked(s)) = sems[s].limit
        BY <4>2, AllLocked DEF BirthInv
      <4>4. /\ sems[s].num_locks = Cardinality(Locked(s))
            /\ sems[s].limit - sems[s].num_locks >= call[t].n - call[t].done
            /\ call[t].done < call[t].n
        BY <2>3, <2>6, <3>1 DEF LockingWell, Counted
      <4>5. sems[s].limit - sems[s].num_locks = 0
        BY <3>2, <4>3, <4>4
      <4> QED BY <3>2, <4>4, <4>5
    <3>7. pc'[t] # "granted"
      BY <2>3, <2>6, <3>1, <3>2 DEF LockingWell
    <3>4. Counted(s, call[t].done)'
      <4>1. Counted(s, call[t].done)
        BY <2>6, <3>1 DEF LockingWell
      <4>2. sems' = sems /\ out' = out /\ call'[t].done = call[t].done
        BY <2>3
      <4> HIDE DEF IInv, TypeInv
      <4> QED BY <4>1, <4>2 DEF Counted, Locked, Limit
    <3>5. CASE pc'[t] = "scan"
      <4>1. \A l \in Limit(s) : l < call[t].l + 1 => sems[s].locked[l]
        <5>1. /\ \A l \in Limit(s) : l < call[t].l => sems[s].locked[l]
              /\ sems[s].locked[call[t].l]
          <6>1. call[t].l \in Limit(s)
            BY <2>3, <2>6, <3>2, <3>5 DEF Limit, S
          <6> QED BY <1>0, <2>3, <2>6, <3>1, <3>5, <6>1 DEF LockingWell, S
        <5>2. \A l \in Limit(s) : l \in Int
          BY DEF Limit
        <5>3. \A l \in Limit(s) : l < call[t].l + 1 => l < call[t].l \/ l = call[t].l
          BY <3>2, <5>2, NextBelow
        <5> QED BY <5>1, <5>3
      <4>2. LockingWell(t)'
        BY <2>3, <2>6, <3>1, <3>4, <3>5, <4>1 DEF LockingWell, Limit
      <4> QED BY <2>3, <2>4, <2>6, <3>5, <4>2 DEF AtWorkAfter, AtWork
    <3>6. CASE pc'[t] = "take"
      <4>1. call[t].l \in Limit(s)
        BY <2>3, <2>6, <3>2, <3>6 DEF Limit, S
      <4>2. LockingWell(t)'
        BY <2>3, <2>6, <3>1, <3>4, <3>6, <4>1 DEF LockingWell, Limit, S
      <4> QED BY <2>3, <2>4, <2>6, <3>6, <4>2 DEF AtWorkAfter, AtWork
    <3> QED BY <2>3, <3>3, <3>5, <3>6, <3>7
  <2> QED BY <2>5, <2>6
<1>17. CASE LockTake(t)
  <2>1. /\ pc[t] = "take" /\ pc'[t] \in {"granted", "scan"} /\ out' = out
        /\ call'[t].s = call[t].s /\ call'[t].wait = call[t].wait /\ call'[t].n = call[t].n
        /\ call'[t].done = call[t].done + 1 /\ call'[t].l = call[t].l + 1
        /\ pc'[t] = "granted" <=> call[t].done + 1 = call[t].n
    BY <1>17 DEF LockTake
  <2>2. In(t, s) /\ In(t, s)'
    BY <2>1 DEF In
  <2>3. CASE s # call[t].s
    <3>1. SameEntry(s)
      BY <1>17, <2>3 DEF LockTake, SameEntry, BirthInv, EntryTypes
    <3> QED BY <2>1, <2>2, <2>3, <3>1, OthersKept
  <2>4. CASE s = call[t].s
    <3>1. LockingWell(t)
      BY <2>1, <2>2, <2>4 DEF AtWork
    <3>2. /\ call[t].n \in Nat /\ call[t].l \in Nat /\ call[t].done \in Nat
          /\ sems[s].limit \in Int /\ sems[s].num_locks \in Int /\ out[s] \in Int
          /\ sems[s].limit \in 0 .. MaxShared
      BY <2>4 DEF BirthInv, CallTypes, EntryTypes, EntryTyped, HistoryTypes
    <3>3. /\ sems'[s].limit = sems[s].limit /\ sems'[s].lvalid = sems[s].lvalid
          /\ sems'[s].num_locks = call[t].tmp + 1
          /\ sems'[s].locked = [sems[s].locked EXCEPT ![call[t].l] = TRUE]
      <4>1. sems' = [sems EXCEPT ![s] = [@ EXCEPT !.locked[call[t].l] = TRUE,
                                               !.holder[call[t].l] = t,
                                               !.num_locks = call[t].tmp + 1]]
        BY <1>17, <2>4 DEF LockTake
      <4>2. DOMAIN sems = Sems /\ DOMAIN sems[s] = Fields
        BY DEF BirthInv, EntryTypes, EntryTyped
      <4> QED BY <4>1, <4>2 DEF Fields
    <3>4. call[t].l \in Limit(s) /\ ~sems[s].locked[call[t].l] /\ call[t].tmp = sems[s].num_locks
      BY <2>1, <2>4, <3>1 DEF LockingWell
    <3>5. Limit(s)' = Limit(s) /\ DOMAIN sems[s].locked = Indices /\ Limit(s) \subseteq Indices
      BY <3>2, <3>3 DEF Limit, Indices, BirthInv, EntryTypes, EntryTyped
    <3>6. Locked(s)' = Locked(s) \cup {call[t].l} /\ call[t].l \notin Locked(s)
      BY <1>0, <3>3, <3>4, <3>5 DEF Locked
    <3>7. Cardinality(Locked(s)') = Cardinality(Locked(s)) + 1
      BY <3>6, LocksFinite, FS_AddElement DEF BirthInv
    <3>8. /\ sems[s].num_locks = Cardinality(Locked(s)) /\ sems[s].num_locks = out[s] + call[t].done
          /\ call[t].done < call[t].n
          /\ sems[s].limit - sems[s].num_locks >= call[t].n - call[t].done
          /\ \A l \in Limit(s) : l < call[t].l => sems[s].locked[l]
      BY <2>1, <2>4, <3>1 DEF LockingWell, Counted
    <3>9. /\ sems'[s].num_locks = out'[s] + call'[t].done
          /\ sems'[s].num_locks = Cardinality(Locked(s)')
      <4>1. /\ sems'[s].num_locks = (out[s] + call[t].done) + 1
            /\ out'[s] = out[s] /\ call'[t].done = call[t].done + 1
        BY <2>1, <3>3, <3>4, <3>8
      <4> HIDE DEF IInv, TypeInv
      <4>2. sems'[s].num_locks = out'[s] + call'[t].done
        BY <3>2, <4>1
      <4>3. sems'[s].num_locks = Cardinality(Locked(s)')
        BY <3>3, <3>4, <3>7, <3>8
      <4> QED BY <4>2, <4>3
    <3>10. \A l \in Limit(s)' : l < call[t].l + 1 => sems'[s].locked[l]
      <4>1. \A l \in Limit(s) : l \in Int /\ l \in DOMAIN sems[s].locked
        BY <3>5 DEF Limit
      <4>2. \A l \in Limit(s) : l < call[t].l + 1 => l < call[t].l \/ l = call[t].l
        BY <3>2, <4>1, NextBelow
      <4>3. \A l \in Limit(s) : l = call[t].l \/ sems[s].locked[l] => sems'[s].locked[l]
        BY <3>3, <4>1
      <4> QED BY <3>5, <3>8, <4>2, <4>3
    <3>11. sems'[s].limit - sems'[s].num_locks >= call[t].n - (call[t].done + 1)
      BY <3>2, <3>3, <3>4, <3>8
    <3>12. LockingWell(t)'
      <4>1. call'[t].s = s /\ call'[t].done = call[t].done + 1 /\ call'[t].l = call[t].l + 1
        BY <2>1, <2>4
      <4>2. /\ call[t].done + 1 <= call[t].n
            /\ pc'[t] # "granted" => call[t].done + 1 < call[t].n
        <5>1. call[t].done + 1 = call[t].n \/ call[t].done + 1 < call[t].n
          BY <3>2, <3>8
        <5> QED BY <2>1, <3>2, <5>1
      <4>3. Counted(call[t].s, call[t].done)'
        BY <3>9, <4>1 DEF Counted
      <4> HIDE DEF IInv, TypeInv
      <4> QED BY <2>1, <3>10, <3>11, <4>1, <4>2, <4>3 DEF LockingWell, Limit
    <3> HIDE DEF IInv, TypeInv
    <3> QED BY <2>1, <2>2, <2>4, <3>12 DEF AtWorkAfter, AtWork
  <2> QED BY <2>3, <2>4
<1>18. CASE LockReturn(t)
  <2>1. /\ pc[t] = "granted" /\ ~In(t, s)' /\ In(t, s) /\ sems' = sems
        /\ call[t].wait = "all" => call[t].s = MaxSems - 1
        /\ s = call[t].s \/ call[t].wait = "all" => out'[s] = out[s] + call[t].n
        /\ s # call[t].s /\ call[t].wait # "all" => out'[s] = out[s]
    BY <1>18 DEF LockReturn, In
  <2>2. Locked(s)' = Locked(s)
    BY <2>1 DEF Locked, Limit
  <2>3. call[t].n \in Nat /\ out[s] \in Int
    BY DEF BirthInv, CallTypes, HistoryTypes
  <2>4. CASE s = call[t].s
    <3>1. LockingWell(t) /\ call[t].done = call[t].n
      BY <2>1, <2>4 DEF AtWork, LockingWell
    <3> QED BY <2>1, <2>2, <2>3, <2>4, <3>1 DEF AtWorkAfter, LockingWell, Counted
  <2>5. CASE s # call[t].s /\ call[t].wait = "all"
    <3>1. call[t].n = 1
      BY <2>1, <2>5 DEF CallFits, Fits, KindFits, Active
    <3>2. s < call[t].s
      BY <2>1, <2>5 DEF Sems
    <3> QED BY <2>1, <2>2, <2>3, <2>5, <3>1, <3>2 DEF AtWorkAfter, AtWork, Counted
  <2>6. CASE s # call[t].s /\ call[t].wait # "all"
    BY <2>1, <2>2, <2>3, <2>6 DEF AtWorkAfter, AtWork, Counted
  <2> QED BY <2>4, <2>5, <2>6
<1>19. CASE Yield(t)
  <2>1. SameEntry(s)
    BY <1>19 DEF Yield, SameEntry
  <2>2. \A k : Counted(s, k) => Counted(s, k)'
    BY <2>1, CountsKept
  <2>3. pc[t] = "failed" /\ ~In(t, s)' /\ In(t, s)
    BY <1>19 DEF Yield, In
  <2>4. Counted(s, 0)
    BY <1>19, <2>3 DEF Yield, AtWork, CallFits, Fits, PlaceFits, KindFits, Active, Sems,
       In, CallsAgree, CallTypes
  <2> QED BY <2>2, <2>3, <2>4 DEF AtWorkAfter
<1>20. CASE Again(t)
  <2>1. SameEntry(s)
    BY <1>20 DEF Again, SameEntry
  <2>2. \A k : Counted(s, k) => Counted(s, k)'
    BY <2>1, CountsKept
  <2>3. /\ ~In(t, s) /\ pc'[t] \in {"refused", "lock"} /\ call'[t] = call[t]
        /\ call[t].wait = "one"
    BY <1>20 DEF Again, In, CallsAgree, WaitsOne
  <2>4. Counted(s, 0)'
    BY <2>2, <2>3
  <2> HIDE DEF IInv, TypeInv
  <2> QED BY <2>3, <2>4 DEF AtWorkAfter, AtWork, In
<1>21. CASE AgainMultiple(t)
  <2>1. SameEntry(s)
    BY <1>21 DEF AgainMultiple, SameEntry
  <2>2. \A k : Counted(s, k) => Counted(s, k)'
    BY <2>1, CountsKept
  <2>3. ~In(t, s) /\ pc'[t] \in {"refused", "lock"} /\ call'[t].s = 0
    BY <1>21 DEF AgainMultiple, In
  <2>4. Counted(s, 0)' /\ ~(s < 0)
    BY <2>2, <2>3 DEF Sems
  <2> HIDE DEF IInv, TypeInv
  <2> QED BY <2>3, <2>4 DEF AtWorkAfter, AtWork
<1>22. CASE NextSem(t)
  <2>1. SameEntry(s)
    BY <1>22 DEF NextSem, SameEntry
  <2>2. \A k : Counted(s, k) => Counted(s, k)'
    BY <2>1, CountsKept
  <2>3. /\ pc'[t] = "lock" /\ sems' = sems /\ out' = out
        /\ call'[t].s = call[t].s + 1 /\ call'[t].wait = call[t].wait
        /\ \/ pc[t] = "granted" /\ call[t].wait = "all"
           \/ pc[t] = "failed" /\ call[t].wait = "any"
    BY <1>22 DEF NextSem
  <2>4. In(t, s) /\ In(t, s)' /\ s \in Int /\ call[t].s \in Int
    BY <2>3 DEF In, Sems
  <2>5. CASE pc[t] = "failed"
    <3>1. Counted(s, 0)
      BY <2>3, <2>4, <2>5 DEF AtWork
    <3> QED BY <2>2, <2>3, <2>5, <3>1 DEF AtWorkAfter, AtWork
  <2>6. CASE pc[t] = "granted"
    <3>1. s = call[t].s => Counted(s, 1)
      <4>1. call[t].n = 1
        BY <2>3, <2>6 DEF CallFits, Fits, KindFits, Active
      <4> QED BY <2>4, <2>6, <4>1 DEF AtWork, LockingWell
    <3>2. s # call[t].s /\ s < call[t].s => Counted(s, 1)
      BY <2>3, <2>4, <2>6 DEF AtWork
    <3>3. s > call[t].s => Counted(s, 0)
      BY <2>3, <2>4, <2>6 DEF AtWork
    <3>4. /\ s <= call[t].s => Counted(s, 1)'
          /\ s > call[t].s => Counted(s, 0)'
      BY <2>2, <2>4, <3>1, <3>2, <3>3
    <3> HIDE DEF IInv, TypeInv
    <3> QED BY <2>3, <2>4, <2>6, <3>4 DEF AtWorkAfter, AtWork
  <2> QED BY <2>3, <2>5, <2>6
<1>23. CASE Revert(t)
  <2>1. SameEntry(s)
    BY <1>23 DEF Revert, SameEntry
  <2>2. \A k : Counted(s, k) => Counted(s, k)'
    BY <2>1, CountsKept
  <2>3. pc[t] = "failed" /\ pc'[t] = "revert" /\ call'[t] = call[t]
    BY <1>23 DEF Revert
  <2>4. In(t, s)
    BY <2>3 DEF In
  <2> HIDE DEF IInv, TypeInv
  <2> QED BY <2>2, <2>3, <2>4 DEF AtWorkAfter, AtWork, In
<1>24. CASE UnlockTest(t)
  <2>1. /\ pc[t] \in {"unlock", "post"} /\ pc'[t] \in {"clear", "refused"} /\ out' = out
    BY <1>24 DEF UnlockTest
  <2>2. call[t].wait = "one" /\ call[t].op = pc[t] /\ call[t].n > 0
    BY <2>1 DEF CallFits, Fits, PlaceFits, KindFits, Active
  <2>3. CASE pc'[t] = "refused"
    <3>1. sems' = sems /\ call' = call
      BY <1>24, <2>3 DEF UnlockTest
    <3>2. SameEntry(s) /\ In(t, s) /\ s = call[t].s
      BY <2>1, <2>2, <2>3, <3>1 DEF SameEntry, In
    <3>3. Counted(s, 0)'
      BY <2>1, <3>2, CountsKept DEF AtWork
    <3> QED BY <2>3, <3>1, <3>2, <3>3 DEF AtWorkAfter, AtWork
  <2>4. CASE pc'[t] = "clear"
    <3>1. /\ Cardinality(Mine(t)) >= call[t].n
          /\ sems' = [sems EXCEPT ![call[t].s].num_locks = @ - call[t].n]
          /\ call' = [call EXCEPT ![t] = [@ EXCEPT !.l = 0, !.done = 0]]
      BY <1>24, <2>4 DEF UnlockTest
    <3>2. /\ call'[t].s = call[t].s /\ call'[t].wait = call[t].wait /\ call'[t].n = call[t].n
          /\ call'[t].op = call[t].op /\ call'[t].l = 0 /\ call'[t].done = 0
      BY <3>1
    <3>3. In(t, s) /\ In(t, s)' /\ s = call[t].s
      BY <2>1, <2>2, <2>4, <3>2 DEF In
    <3>4. Counted(s, 0)
      BY <2>1, <3>3 DEF AtWork
    <3>5. /\ sems'[s].num_locks = sems[s].num_locks - call[t].n /\ sems'[s].locked = sems[s].locked
          /\ sems'[s].holder = sems[s].holder /\ sems'[s].limit = sems[s].limit
          /\ sems'[s].lvalid = sems[s].lvalid
      BY <3>1, <3>3 DEF BirthInv, EntryTypes, EntryTyped, Fields
    <3>6. Locked(s)' = Locked(s) /\ Mine(t)' = Mine(t)
      BY <3>2, <3>3, <3>5 DEF Locked, Limit, Mine, Own
    <3>7. /\ call[t].n \in Nat /\ out[s] \in Int /\ sems[s].num_locks \in Int
          /\ sems[s].limit \in 0 .. MaxShared
      BY DEF BirthInv, CallTypes, EntryTypes, EntryTyped, HistoryTypes
    <3>8. \A l \in Mine(t) : l >= 0
      BY <3>3, <3>7 DEF Mine, Own, Locked, Limit
    <3>9. UnlockingWell(t)'
      <4>1. sems'[s].num_locks = out'[s] - call[t].n
        BY <2>1, <3>4, <3>5, <3>7 DEF Counted
      <4>2. Cardinality(Locked(s)') = out'[s] - 0
        <5>1. Cardinality(Locked(s)) = out[s] + 0
          BY <3>4 DEF Counted
        <5> HIDE DEF IInv, TypeInv
        <5> QED BY <2>1, <3>6, <3>7, <5>1
      <4>3. Cardinality(Mine(t)') >= call[t].n - 0
        BY <3>1, <3>6, <3>7
      <4>4. \A l \in Mine(t)' : l >= 0
        BY <3>6, <3>8
      <4> HIDE DEF IInv, TypeInv
      <4> QED BY <2>2, <2>4, <3>2, <3>3, <3>7, <4>1, <4>2, <4>3, <4>4 DEF UnlockingWell
    <3> HIDE DEF IInv, TypeInv
    <3> QED BY <2>4, <3>2, <3>3, <3>9 DEF AtWorkAfter, AtWork
  <2> QED BY <2>1, <2>3, <2>4
<1>25. CASE UnlockClear(t)
  <2>1. pc[t] = "clear" /\ out' = out
    BY <1>25 DEF UnlockClear
  <2>2. /\ call[t].wait = "one" /\ call[t].op \in {"unlock", "post"} /\ call[t].n > 0
    BY <2>1 DEF CallFits, Fits, PlaceFits, KindFits, Active
  <2>3. call'[t].s = call[t].s /\ call'[t].wait = call[t].wait /\ call'[t].op = call[t].op
    <3>1. CASE call' = [call EXCEPT ![t] = [call[t] EXCEPT !.l = @ + 1, !.done = @ + 1]]
      BY <3>1
    <3>2. CASE call' = [call EXCEPT ![t].l = @ + 1]
      BY <3>2
    <3> QED BY <1>25, <3>1, <3>2 DEF UnlockClear
  <2>4. In(t, s) /\ s = call[t].s
    BY <2>1, <2>2, <2>3 DEF In
  <2>5. UnlockingWell(t) /\ call[t].done < call[t].n
    BY <2>1, <2>4 DEF AtWork, UnlockingWell
  <2>6. /\ call[t].n \in Nat /\ call[t].l \in Nat /\ call[t].done \in Nat
        /\ sems[s].num_locks \in Int /\ out[s] \in Int /\ sems[s].limit \in 0 .. MaxShared
    BY <2>4 DEF BirthInv, CallTypes, EntryTypes, EntryTyped, HistoryTypes
  <2>7. Mine(t) \subseteq Locked(s) /\ Mine(t) \subseteq Limit(s)
    BY <2>4 DEF Mine, Own, Locked
  <2>8. CASE call[t].l \in Mine(t)
    <3>1. /\ sems' = [sems EXCEPT ![call[t].s].locked[call[t].l] = FALSE]
          /\ call' = [call EXCEPT ![t] = [call[t] EXCEPT !.l = @ + 1, !.done = @ + 1]]
          /\ pc' = [pc EXCEPT ![t] = IF call[t].done + 1 = call[t].n THEN "released" ELSE "clear"]
      <4>1. call[t].l < S(t).limit
        BY <2>4, <2>6, <2>7, <2>8 DEF S, Limit
      <4>2. ~(call[t].l >= S(t).limit)
        BY <2>4, <2>6, <4>1 DEF S
      <4> QED BY <1>25, <2>8, <4>2 DEF UnlockClear
    <3>2. /\ call'[t].l = call[t].l + 1 /\ call'[t].done = call[t].done + 1
          /\ call'[t].n = call[t].n
          /\ pc'[t] \in {"released", "clear"}
          /\ pc'[t] = "released" <=> call[t].done + 1 = call[t].n
      BY <3>1
    <3>3. /\ sems'[s].locked = [sems[s].locked EXCEPT ![call[t].l] = FALSE]
          /\ sems'[s].holder = sems[s].holder /\ sems'[s].limit = sems[s].limit
          /\ sems'[s].lvalid = sems[s].lvalid
          /\ sems'[s].num_locks = sems[s].num_locks
      <4>1. DOMAIN sems = Sems /\ DOMAIN sems[s] = Fields
        BY DEF BirthInv, EntryTypes, EntryTyped
      <4>2. sems' = [sems EXCEPT ![s].locked[call[t].l] = FALSE]
        BY <2>4, <3>1
      <4> QED BY <4>1, <4>2 DEF Fields
    <3>4. Limit(s)' = Limit(s) /\ DOMAIN sems[s].locked = Indices /\ Limit(s) \subseteq Indices
      BY <2>6, <3>3 DEF Limit, Indices, BirthInv, EntryTypes, EntryTyped
    <3>5. Locked(s)' = Locked(s) \ {call[t].l}
      BY <3>3, <3>4 DEF Locked
    <3>6. Mine(t)' = Mine(t) \ {call[t].l}
      BY <2>3, <2>4, <3>3, <3>5 DEF Mine, Own
    <3>7. /\ Cardinality(Locked(s)') = Cardinality(Locked(s)) - 1
          /\ Cardinality(Mine(t)') = Cardinality(Mine(t)) - 1
          /\ Cardinality(Locked(s)) \in Nat /\ Cardinality(Mine(t)) \in Nat
      <4>1. EntryTypes /\ IsFiniteSet(Locked(s)) /\ IsFiniteSet(Mine(t))
        BY <2>7, LocksFinite DEF BirthInv
      <4>2. call[t].l \in Locked(s)
        BY <2>7, <2>8
      <4>3. Cardinality(Locked(s) \ {call[t].l}) = Cardinality(Locked(s)) - 1
        BY <4>1, <4>2, RemoveOne
      <4>4. Cardinality(Mine(t) \ {call[t].l}) = Cardinality(Mine(t)) - 1
        BY <2>8, <4>1, RemoveOne
      <4>5. Cardinality(Locked(s)) \in Nat /\ Cardinality(Mine(t)) \in Nat
        BY <4>1, FS_CardinalityType
      <4> HIDE DEF IInv, TypeInv
      <4> QED BY <3>5, <3>6, <4>3, <4>4, <4>5
    <3>8. \A l \in Mine(t)' : l >= call[t].l + 1
      <4>1. \A l \in Mine(t) : l \in Int /\ l >= call[t].l
        BY <2>5, <2>6, <2>7 DEF UnlockingWell, Limit
      <4>2. \A l \in Mine(t)' : l \in Int /\ l >= call[t].l /\ l # call[t].l
        BY <3>6, <4>1
      <4> HIDE DEF IInv, TypeInv
      <4> QED BY <2>6, <4>2
    <3>9. UnlockingWell(t)'
      <4>1. /\ sems[s].num_locks = out[s] - call[t].n
            /\ Cardinality(Locked(s)) = out[s] - call[t].done
            /\ call[t].done <= call[t].l /\ Cardinality(Mine(t)) >= call[t].n - call[t].done
        BY <2>4, <2>5 DEF UnlockingWell
      <4>2. /\ sems'[s].num_locks = out'[s] - call[t].n
            /\ Cardinality(Locked(s)') = out'[s] - (call[t].done + 1)
            /\ call[t].done + 1 <= call[t].n /\ call[t].done + 1 <= call[t].l + 1
            /\ Cardinality(Mine(t)') >= call[t].n - (call[t].done + 1)
        BY <2>1, <2>5, <2>6, <3>3, <3>7, <4>1
      <4>3. pc'[t] = "clear" => call[t].done + 1 < call[t].n
        BY <2>6, <3>2, <4>2
      <4> HIDE DEF IInv, TypeInv
      <4> QED BY <2>3, <2>4, <3>2, <3>8, <4>2, <4>3 DEF UnlockingWell
    <3> HIDE DEF IInv, TypeInv
    <3> QED BY <2>2, <2>3, <2>4, <3>2, <3>9 DEF AtWorkAfter, AtWork, In
  <2>9. CASE call[t].l \notin Mine(t)
    <3>1. call[t].l < S(t).limit
      BY <2>1, <2>4, <2>5, <2>6, <2>7, UnlockFinds
    <3>2. call' = [call EXCEPT ![t].l = @ + 1] /\ sems' = sems /\ pc' = pc
      <4>1. ~(call[t].l >= S(t).limit)
        BY <2>4, <2>6, <3>1 DEF S
      <4> QED BY <1>25, <2>9, <4>1 DEF UnlockClear
    <3>3. /\ call'[t].l = call[t].l + 1 /\ call'[t].done = call[t].done /\ call'[t].n = call[t].n
          /\ pc'[t] = "clear"
      BY <2>1, <3>2
    <3>4. Locked(s)' = Locked(s) /\ Mine(t)' = Mine(t)
      BY <2>3, <2>4, <3>2 DEF Locked, Limit, Mine, Own
    <3>5. \A l \in Mine(t)' : l >= call[t].l + 1
      <4>1. \A l \in Mine(t) : l \in Int /\ l >= call[t].l
        BY <2>5, <2>6, <2>7 DEF UnlockingWell, Limit
      <4>2. \A l \in Mine(t)' : l \in Int /\ l >= call[t].l /\ l # call[t].l
        BY <2>9, <3>4, <4>1
      <4> HIDE DEF IInv, TypeInv
      <4> QED BY <2>6, <4>2
    <3>6. UnlockingWell(t)'
      <4>1. call[t].done <= call[t].l + 1
        BY <2>5, <2>6 DEF UnlockingWell
      <4> HIDE DEF IInv, TypeInv
      <4> QED BY <2>1, <2>3, <2>4, <2>5, <3>2, <3>3, <3>4, <3>5, <4>1 DEF UnlockingWell
    <3> HIDE DEF IInv, TypeInv
    <3> QED BY <2>2, <2>3, <2>4, <3>3, <3>6 DEF AtWorkAfter, AtWork, In
  <2> QED BY <2>8, <2>9
<1>26. CASE UnlockReturn(t)
  <2>1. /\ pc[t] = "released" /\ pc'[t] = "idle" /\ sems' = sems
        /\ out' = [out EXCEPT ![call[t].s] = @ - call[t].n]
    BY <1>26 DEF UnlockReturn
  <2>2. call[t].wait = "one"
    BY <2>1 DEF CallFits, Fits, PlaceFits, KindFits, Active
  <2>3. In(t, s) /\ ~In(t, s)' /\ s = call[t].s
    BY <2>1, <2>2 DEF In
  <2>4. UnlockingWell(t) /\ call[t].done = call[t].n
    BY <2>1, <2>3 DEF AtWork, UnlockingWell
  <2>5. Locked(s)' = Locked(s)
    BY <2>1 DEF Locked, Limit
  <2>6. call[t].n \in Nat /\ out[s] \in Int /\ out'[s] = out[s] - call[t].n
    BY <2>1, <2>3 DEF BirthInv, CallTypes, HistoryTypes
  <2>7. Counted(s, 0)'
    BY <2>1, <2>3, <2>4, <2>5, <2>6 DEF UnlockingWell, Counted
  <2> QED BY <2>3, <2>7 DEF AtWorkAfter
<1>27. CASE MutexLock(t)
  <2>1. SameEntry(s)
    <3>1. CASE sems' = [sems EXCEPT ![call[t].s].lock_key = @ + 1]
      BY <1>27, <3>1 DEF MutexLock, SameEntry
    <3>2. CASE sems' = sems
      BY <1>27, <3>2 DEF MutexLock, SameEntry
    <3> QED BY <1>27, <3>1, <3>2 DEF MutexLock
  <2>2. \A k : Counted(s, k) => Counted(s, k)'
    BY <2>1, CountsKept
  <2>3. pc[t] = "mlock" /\ ~In(t, s)' /\ In(t, s)
    BY <1>27 DEF MutexLock, In
  <2>4. Counted(s, 0)
    BY <2>3 DEF AtWork, CallFits, Fits, PlaceFits, KindFits, Active, Sems, In, CallsAgree,
       CallTypes
  <2> QED BY <2>2, <2>3, <2>4 DEF AtWorkAfter
<1>28. CASE MutexUnlock(t)
  <2>1. SameEntry(s)
    <3>1. CASE sems' = [sems EXCEPT ![call[t].s].lock_key = @ - 1]
      BY <1>28, <3>1 DEF MutexUnlock, SameEntry
    <3>2. CASE sems' = sems
      BY <1>28, <3>2 DEF MutexUnlock, SameEntry
    <3> QED BY <1>28, <3>1, <3>2 DEF MutexUnlock
  <2>2. \A k : Counted(s, k) => Counted(s, k)'
    BY <2>1, CountsKept
  <2>3. pc[t] = "munlock" /\ ~In(t, s)' /\ In(t, s)
    BY <1>28 DEF MutexUnlock, In
  <2>4. Counted(s, 0)
    BY <2>3 DEF AtWork, CallFits, Fits, PlaceFits, KindFits, Active, Sems, In, CallsAgree,
       CallTypes
  <2> QED BY <2>2, <2>3, <2>4 DEF AtWorkAfter
<1>29. CASE Delete(t)
  <2>1. SameEntry(s)
    <3>1. CASE sems' = [sems EXCEPT ![call[t].s] = [@ EXCEPT !.valid = FALSE, !.deleted = ExtError /\ sems[call[t].s].attrs]]
      BY <1>29, <3>1 DEF Delete, SameEntry
    <3>2. CASE sems' = sems
      BY <1>29, <3>2 DEF Delete, SameEntry
    <3> QED BY <1>29, <3>1, <3>2 DEF Delete
  <2>2. \A k : Counted(s, k) => Counted(s, k)'
    BY <2>1, CountsKept
  <2>3. pc[t] = "delete" /\ ~In(t, s)' /\ In(t, s)
    BY <1>29 DEF Delete, In
  <2>4. Counted(s, 0)
    BY <2>3 DEF AtWork, CallFits, Fits, PlaceFits, KindFits, Active, Sems, In, CallsAgree,
       CallTypes
  <2> QED BY <2>2, <2>3, <2>4 DEF AtWorkAfter
<1>30. CASE CreateSearch(t)
  <2>1. pc[t] = "create" /\ pc'[t] \in {"idle", "log"}
    BY <1>30 DEF CreateSearch
  <2> QED BY <2>1 DEF In
<1>31. CASE CreateSetup(t)
  <2>1. pc[t] \in Setups /\ pc'[t] \in Setups
    BY <1>31, CreatorEffect
  <2> QED BY <2>1 DEF In
<1>32. CASE Finalize(t)
  <2>1. pc[t] = "idle" /\ pc'[t] \in {"idle"}
    BY <1>32 DEF Finalize
  <2> QED BY <2>1 DEF In
<1>33. CASE Initialize(t)
  <2>1. pc' = pc /\ call' = call /\ sems' = sems /\ out' = out
    BY <1>33 DEF Initialize
  <2>2. /\ Locked(s)' = Locked(s) /\ In(t, s)' = In(t, s) /\ Mine(t)' = Mine(t)
        /\ Counted(s, 0)' = Counted(s, 0) /\ Counted(s, 1)' = Counted(s, 1)
    BY <2>1 DEF Locked, Limit, In, Mine, Own, Counted
  <2>3. LockingWell(t)' = LockingWell(t) /\ UnlockingWell(t)' = UnlockingWell(t)
    BY <2>1 DEF LockingWell, UnlockingWell, Counted, Locked, Limit, Mine, Own
  <2> HIDE DEF IInv, TypeInv
  <2> QED BY <2>1, <2>2, <2>3 DEF AtWorkAfter, AtWork
<1>34. CASE CreateEnd(t)
  <2>1. pc[t] = "make" /\ pc'[t] = "idle"
    BY <1>34 DEF CreateEnd
  <2> QED BY <2>1 DEF In
<1> HIDE DEF IInv, TypeInv, Locals, guardVars, nodeVars, histVars, Goto
<1> QED BY <1>1, <1>2, <1>3, <1>4, <1>5, <1>6, <1>7, <1>8, <1>9, <1>10, <1>11, <1>12,
           <1>13, <1>14, <1>15, <1>16, <1>17, <1>18, <1>19, <1>20, <1>21, <1>22, <1>23,
           <1>24, <1>25, <1>26, <1>27, <1>28, <1>29, <1>30, <1>31, <1>32,
           <1>33, <1>34 DEF Calling, Inside, Waiting

-----------------------------------------------------------------------------
\* A call that does not move, on an entry that is left alone.
LEMMA AtWorkFrame ==
  ASSUME NEW u \in Nodes, NEW s \in Sems, SameEntry(s), pc'[u] = pc[u], call'[u] = call[u],
         AtWork(u, s)
  PROVE  AtWork(u, s)'
<1>1. /\ Locked(s)' = Locked(s) /\ Limit(s)' = Limit(s)
      /\ \A k : Counted(s, k) => Counted(s, k)'
  BY CountsKept
<1>2. ASSUME s = call[u].s, LockingWell(u) PROVE LockingWell(u)'
  <2>1. call'[u] = call[u] /\ pc'[u] = pc[u] /\ sems'[s].limit = sems[s].limit
        /\ sems'[s].num_locks = sems[s].num_locks /\ sems'[s].locked = sems[s].locked
    BY DEF SameEntry
  <2>2. Counted(s, call[u].done)'
    BY <1>1, <1>2, <2>1 DEF LockingWell, Counted, SameEntry
  <2> QED BY <1>1, <1>2, <2>1, <2>2 DEF LockingWell
<1>3. ASSUME s = call[u].s, UnlockingWell(u) PROVE UnlockingWell(u)'
  <2>1. Mine(u)' = Mine(u)
    BY <1>1, <1>3 DEF Mine, Own, SameEntry
  <2> QED BY <1>1, <1>3, <2>1 DEF UnlockingWell, SameEntry
<1>4. s = call[u].s <=> s = call'[u].s
  OBVIOUS
<1> QED BY <1>1, <1>2, <1>3, <1>4 DEF AtWork

\* A call at work on an entry is about it, before and after a step.
LEMMA AboutIn ==
  ASSUME ~Early, BirthInv, NEW u \in Nodes, NEW s \in Sems, In(u, s)
  PROVE  Ready(s)
<1>1. Active(u) /\ About(u, s)
  BY DEF In, Active, About, Creations, Setups
<1> QED BY <1>1 DEF BirthInv, BornOnce, Ready

\* The same after the step.
LEMMA ReadyAfter ==
  ASSUME ~Early, BirthInv', NEW u \in Nodes, NEW s \in Sems, In(u, s)'
  PROVE  Ready(s)'
<1>1. Active(u)' /\ About(u, s)'
  BY DEF In, Active, About, Creations, Setups
<1> QED BY <1>1 DEF BirthInv, BornOnce, Ready

\* The step of one call: what every call, and every entry nobody works on, keeps
\* of its counts.
LEMMA WorkingStep ==
  ASSUME ~Early, Exclusive, Exclusive', IInv, BirthInv, BirthInv', CountInv, NEW t \in Nodes,
         Calling(t) \/ Inside(t) \/ Waiting(t) \/ Finalize(t) \/ Initialize(t)
  PROVE  Working' /\ Resting'
<1>1. /\ \A u \in Nodes : u # t => pc'[u] = pc[u] /\ call'[u] = call[u]
  BY CallStep DEF CallEffect, IInv, BirthInv
<1>2. \A u \in Nodes, s \in Sems : u # t => (In(u, s)' <=> In(u, s))
  BY <1>1 DEF In
<1>3. \A s \in Sems : Ready(s) /\ ~In(t, s) => SameEntry(s)
  BY ReadyFrame
<1>4. ASSUME NEW s \in Sems, Ready(s), In(t, s) \/ In(t, s)'
      PROVE  AtWorkAfter(t, s)
  <2>1. In(t, s) => AtWork(t, s)
    BY DEF CountInv, Working
  <2>2. ~In(t, s) => Counted(s, 0)
    <3>1. SUFFICES ASSUME ~In(t, s) PROVE Quiet(s)
      BY <1>4 DEF CountInv, Resting
    <3>2. \A u \in Nodes : u # t => ~In(u, s)
      BY <1>2, <1>4, <3>1 DEF Exclusive
    <3> QED BY <3>1, <3>2 DEF Quiet
  <2> QED BY <1>4, <2>1, <2>2, AtWorkStep DEF CountInv
<1>5. Working'
  <2>1. SUFFICES ASSUME NEW u \in Nodes, NEW s \in Sems, In(u, s)' PROVE AtWork(u, s)'
    BY DEF Working
  <2>2. CASE u = t
    <3>1. ~CreateEnd(t)
      BY <2>1, <2>2 DEF CreateEnd, Goto, In, IInv, TypeInv
    <3>2. Ready(s)
      BY <2>1, <2>2, <3>1, ReadyAfter, Completed
    <3> QED BY <1>4, <2>1, <2>2, <3>2 DEF AtWorkAfter
  <2>3. CASE u # t
    <3>1. In(u, s) /\ ~In(t, s)
      BY <1>2, <2>1, <2>3 DEF Exclusive
    <3>2. Ready(s)
      BY <3>1, AboutIn
    <3>3. SameEntry(s) /\ AtWork(u, s)
      BY <1>3, <3>1, <3>2 DEF CountInv, Working
    <3> QED BY <1>1, <2>3, <3>3, AtWorkFrame
  <2> QED BY <2>2, <2>3
<1>6. Resting'
  <2>1. SUFFICES ASSUME NEW s \in Sems, Ready(s)', Quiet(s)' PROVE Counted(s, 0)'
    BY DEF Resting
  <2>2. CASE Ready(s) /\ In(t, s)
    BY <1>4, <2>1, <2>2 DEF AtWorkAfter, Quiet
  <2>3. CASE Ready(s) /\ ~In(t, s)
    <3>1. Quiet(s)
      BY <1>2, <2>1, <2>3 DEF Quiet
    <3>2. Counted(s, 0) /\ SameEntry(s)
      BY <1>3, <2>3, <3>1 DEF CountInv, Resting
    <3> QED BY <3>2, CountsKept
  <2>4. CASE ~Ready(s)
    <3>1. CreateEnd(t) /\ s = call[t].s
      BY <2>1, <2>4, Completed
    <3>2. SameEntry(s) /\ Counted(s, 0)
      BY <3>1, HalfDone DEF CountInv
    <3> QED BY <3>2, CountsKept
  <2> QED BY <2>2, <2>3, <2>4
<1> QED BY <1>5, <1>6

\* The assertion that fails is the one after the loop that unlocks.
LEMMA AbortStep ==
  ASSUME IInv, NEW t \in Nodes,
         Calling(t) \/ Inside(t) \/ Waiting(t) \/ Finalize(t) \/ Initialize(t)
  PROVE  pc'[t] = "abort" => pc[t] = "abort" \/ (UnlockClear(t) /\ call[t].l >= S(t).limit)
<1> USE LocksAssumption DEF IInv, TypeInv, CallsAgree, Locals, WaitsOne, guardVars,
                            nodeVars, histVars, Goto
<1>1. ASSUME NEW s \in Sems, NEW m \in Timeouts, CallLock(t, s, m)
      PROVE  pc'[t] = "abort" => pc[t] = "abort" \/ (UnlockClear(t) /\ call[t].l >= S(t).limit)
  BY <1>1 DEF CallLock, Call
<1>2. ASSUME NEW s \in Sems, NEW m \in Timeouts, CallMutexLock(t, s, m)
      PROVE  pc'[t] = "abort" => pc[t] = "abort" \/ (UnlockClear(t) /\ call[t].l >= S(t).limit)
  BY <1>2 DEF CallMutexLock, Call
<1>3. ASSUME NEW s \in Sems, NEW m \in Nat, NEW op \in {"lock", "unlock"},
             CallWriter(t, s, op, m)
      PROVE  pc'[t] = "abort" => pc[t] = "abort" \/ (UnlockClear(t) /\ call[t].l >= S(t).limit)
  BY <1>3 DEF CallWriter, Call
<1>4. ASSUME NEW s \in Sems, NEW op \in {"unlock", "post"}, CallUnlock(t, s, op)
      PROVE  pc'[t] = "abort" => pc[t] = "abort" \/ (UnlockClear(t) /\ call[t].l >= S(t).limit)
  BY <1>4 DEF CallUnlock, Call
<1>5. ASSUME NEW s \in Sems, NEW key \in 0 .. MaxDepth, CallMutexUnlock(t, s, key)
      PROVE  pc'[t] = "abort" => pc[t] = "abort" \/ (UnlockClear(t) /\ call[t].l >= S(t).limit)
  BY <1>5 DEF CallMutexUnlock, Call
<1>6. ASSUME NEW s \in Sems, Deletes, CallDelete(t, s)
      PROVE  pc'[t] = "abort" => pc[t] = "abort" \/ (UnlockClear(t) /\ call[t].l >= S(t).limit)
  BY <1>6 DEF CallDelete, Call
<1>7. ASSUME NEW w \in Waits, NEW m \in Timeouts, CallMultiple(t, w, m)
      PROVE  pc'[t] = "abort" => pc[t] = "abort" \/ (UnlockClear(t) /\ call[t].l >= S(t).limit)
  BY <1>7 DEF CallMultiple, Call
<1>8. ASSUME NEW key \in Keys, NEW type \in Types, NEW n \in 0 .. MaxShared - 1,
             CallCreate(t, key, type, n)
      PROVE  pc'[t] = "abort" => pc[t] = "abort" \/ (UnlockClear(t) /\ call[t].l >= S(t).limit)
  BY <1>8 DEF CallCreate
<1>9. ASSUME NEW key \in Keys, Get(t, key)
      PROVE  pc'[t] = "abort" => pc[t] = "abort" \/ (UnlockClear(t) /\ call[t].l >= S(t).limit)
  BY <1>9 DEF Get
<1>10. CASE Probe(t)
  BY <1>10 DEF Probe
<1>11. CASE Enter(t)
  BY <1>11 DEF Enter
<1>12. CASE EnterMultiple(t)
  BY <1>12 DEF EnterMultiple
<1>13. CASE Return(t)
  BY <1>13 DEF Return
<1>14. CASE WriterLimit(t)
  BY <1>14 DEF WriterLimit
<1>15. CASE LockTest(t)
  BY <1>15 DEF LockTest
<1>16. CASE LockScan(t)
  BY <1>16 DEF LockScan
<1>17. CASE LockTake(t)
  BY <1>17 DEF LockTake
<1>18. CASE LockReturn(t)
  BY <1>18 DEF LockReturn
<1>19. CASE Yield(t)
  BY <1>19 DEF Yield
<1>20. CASE Again(t)
  BY <1>20 DEF Again
<1>21. CASE AgainMultiple(t)
  BY <1>21 DEF AgainMultiple
<1>22. CASE NextSem(t)
  BY <1>22 DEF NextSem
<1>23. CASE Revert(t)
  BY <1>23 DEF Revert
<1>24. CASE UnlockTest(t)
  BY <1>24 DEF UnlockTest
<1>25. CASE UnlockClear(t)
  BY <1>25 DEF UnlockClear
<1>26. CASE UnlockReturn(t)
  BY <1>26 DEF UnlockReturn
<1>27. CASE MutexLock(t)
  BY <1>27 DEF MutexLock
<1>28. CASE MutexUnlock(t)
  BY <1>28 DEF MutexUnlock
<1>29. CASE Delete(t)
  BY <1>29 DEF Delete
<1>30. CASE CreateSearch(t)
  BY <1>30 DEF CreateSearch
<1>31. CASE CreateSetup(t)
  <2>1. pc'[t] \in Setups
    BY <1>31, CreatorEffect
  <2> QED BY <2>1 DEF Setups
<1>32. CASE Finalize(t)
  BY <1>32 DEF Finalize
<1>33. CASE Initialize(t)
  BY <1>33 DEF Initialize
<1>34. CASE CreateEnd(t)
  BY <1>34 DEF CreateEnd
<1> HIDE DEF IInv, TypeInv, CallsAgree, Locals, WaitsOne, guardVars, nodeVars, histVars,
             Goto
<1> QED BY <1>1, <1>2, <1>3, <1>4, <1>5, <1>6, <1>7, <1>8, <1>9, <1>10, <1>11, <1>12,
           <1>13, <1>14, <1>15, <1>16, <1>17, <1>18, <1>19, <1>20, <1>21, <1>22, <1>23,
           <1>24, <1>25, <1>26, <1>27, <1>28, <1>29, <1>30, <1>31, <1>32,
           <1>33, <1>34 DEF Calling, Inside, Waiting

\* Every step keeps the counts.
LEMMA CountStep ==
  ASSUME OneGuard, ~Early, IInv, IInv', BirthInv, BirthInv', CountInv, Next
  PROVE  CountInv'
<1>1. PICK t \in Nodes :
        Calling(t) \/ Inside(t) \/ Waiting(t) \/ Finalize(t) \/ Initialize(t)
  BY DEF Next
<1>2. Exclusive /\ Exclusive'
  BY DEF OneGuard, IInv, GuardHeld, Exclusive
<1>3. CallFits' /\ Limits' /\ Half'
  BY <1>1, CallFitsStep, LimitsStep, HalfStep DEF IInv, CountInv
<1>4. Working' /\ Resting'
  BY <1>1, <1>2, WorkingStep
<1>5. NoAbort'
  <2>1. SUFFICES ASSUME NEW u \in Nodes, pc'[u] = "abort" PROVE FALSE
    BY DEF NoAbort
  <2>2. u = t
    <3>1. \A v \in Nodes : v # t => pc'[v] = pc[v]
      BY <1>1, CallStep DEF CallEffect, IInv, BirthInv
    <3> QED BY <2>1, <3>1 DEF CountInv, NoAbort
  <2>3. UnlockClear(t) /\ call[t].l >= S(t).limit
    <3>1. pc'[t] = "abort" /\ pc[t] # "abort"
      BY <2>1, <2>2 DEF CountInv, NoAbort
    <3> QED BY <1>1, <3>1, AbortStep
  <2>4. UnlockingWell(t) /\ call[t].done < call[t].n
    <3>1. pc[t] = "clear" /\ call[t].s \in Sems
      BY <2>3 DEF UnlockClear, IInv, TypeInv
    <3>2. In(t, call[t].s)
      BY <3>1 DEF In
    <3>3. AtWork(t, call[t].s)
      BY <3>1, <3>2 DEF CountInv, Working
    <3> QED BY <3>1, <3>3 DEF AtWork, UnlockingWell
  <2>5. call[t].l < S(t).limit
    BY <2>4, UnlockFinds
  <2>6. call[t].l \in Int /\ S(t).limit \in Int
    <3>1. call[t].s \in Sems
      BY DEF IInv, TypeInv
    <3> QED BY <3>1, LocksAssumption DEF BirthInv, CallTypes, EntryTypes, EntryTyped, S
  <2> HIDE DEF IInv
  <2> QED BY <2>3, <2>5, <2>6
<1> QED BY <1>3, <1>4, <1>5 DEF CountInv

\* At the start no call is inside and no entry exists.
LEMMA CountInit ==
  ASSUME Init
  PROVE  CountInv
<1>1. \A t \in Nodes : ~Active(t) /\ pc[t] # "abort"
  BY DEF Init, Active
<1>2. \A t \in Nodes, s \in Sems : ~In(t, s)
  BY DEF Init, In
<1>3. (\A s \in Sems : ~Ready(s)) /\ \A t \in Nodes : pc[t] \notin Setups
  BY DEF Init, Ready, Setups
<1>4. CallFits /\ NoAbort
  BY <1>1 DEF CallFits, NoAbort
<1>5. Limits /\ Resting /\ Half
  BY <1>3 DEF Limits, Resting, Half
<1>6. Working
  BY <1>2 DEF Working
<1> QED BY <1>4, <1>5, <1>6 DEF CountInv

\* A step that changes nothing keeps the counts.
LEMMA CountStutter ==
  ASSUME CountInv, UNCHANGED vars
  PROVE  CountInv'
<1> USE DEF vars, guardVars, histVars
<1>1. CallFits' /\ Limits' /\ NoAbort'
  BY DEF CountInv, CallFits, Limits, NoAbort, Active, Fits, PlaceFits, KindFits, Ready, Limit
<1>6. Half'
  BY DEF CountInv, Half, Halfway, NewLimit
<1>2. \A s \in Sems : SameEntry(s)
  BY DEF SameEntry
<1>3. \A t \in Nodes, s \in Sems : In(t, s)' <=> In(t, s)
  BY DEF In
<1>4. Working'
  <2>1. SUFFICES ASSUME NEW u \in Nodes, NEW s \in Sems, In(u, s)' PROVE AtWork(u, s)'
    BY DEF Working
  <2>2. AtWork(u, s) /\ SameEntry(s) /\ pc'[u] = pc[u] /\ call'[u] = call[u]
    BY <1>2, <1>3, <2>1 DEF CountInv, Working
  <2> QED BY <2>2, AtWorkFrame
<1>5. Resting'
  <2>1. SUFFICES ASSUME NEW s \in Sems, Ready(s), Quiet(s)' PROVE Counted(s, 0)'
    BY DEF Resting, Ready
  <2>2. Counted(s, 0)
    BY <1>3, <2>1 DEF CountInv, Resting, Quiet
  <2> QED BY <1>2, <2>2, CountsKept
<1> QED BY <1>1, <1>4, <1>5, <1>6 DEF CountInv

\* What the counts of an entry say where nobody works on it.
LEMMA CountsAgree ==
  ASSUME BirthInv, CountInv
  PROVE  CountIsExact
<1>1. ASSUME NEW s \in Sems, Created(s), Quiet(s)
      PROVE  /\ sems[s].num_locks = Cardinality(Locked(s))
             /\ sems[s].num_locks = out[s]
             /\ out[s] <= sems[s].limit
  <2>1. Ready(s)
    BY <1>1 DEF BirthInv, BornOnce, Created, Ready
  <2>2. Counted(s, 0)
    BY <1>1, <2>1 DEF CountInv, Resting
  <2>3. out[s] \in Int /\ sems[s].num_locks = out[s] + 0
    BY <2>2 DEF Counted, BirthInv, HistoryTypes
  <2>4. sems[s].num_locks = Cardinality(Locked(s)) /\ Cardinality(Locked(s)) <= sems[s].limit
    BY <2>2, LocksFinite DEF Counted, BirthInv
  <2>5. sems[s].num_locks = out[s]
    BY <2>3
  <2> QED BY <2>4, <2>5
<1> QED BY <1>1 DEF CountIsExact, CountInv, NoAbort

\* Where all calls take the same kind of guard, entries are created once and no call
\* meets an entry before its creation has returned, the calls keep the counts of
\* every entry, at each of their places, and so does the creator while it writes it.
THEOREM CountsKeep == OneGuard /\ Once /\ ~Early => (Spec => []CountInv)
<1> SUFFICES ASSUME OneGuard, Once, ~Early PROVE Spec => []CountInv
  OBVIOUS
<1>1. IInv /\ IInv' /\ BirthInv /\ BirthInv' /\ CountInv /\ [Next]_vars => CountInv'
  BY CountStep, CountStutter
<1> QED BY <1>1, CountInit, GuardCorrect, BirthCorrect, PTL DEF Spec

\* Then the number of locks of an entry on which nobody works is the number of
\* those that are locked and of those that were granted, whatever calls timed
\* out, were refused or are waiting; and the assertion of the unlock holds.
THEOREM CountsExact == OneGuard /\ Once /\ ~Early => (Spec => []CountIsExact)
<1> SUFFICES ASSUME OneGuard, Once, ~Early PROVE Spec => []CountIsExact
  OBVIOUS
<1>1. BirthInv /\ CountInv => CountIsExact
  BY CountsAgree
<1> QED BY <1>1, BirthCorrect, CountsKeep, PTL

-----------------------------------------------------------------------------
\* The locks of a node on an entry are those it was told of and those that its
\* call has taken, or has yet to give back.
Extra(t, s) ==
  IF call[t].s = s /\ pc[t] \in Locking THEN call[t].done
  ELSE IF call[t].s = s /\ pc[t] \in Unlocking THEN 0 - call[t].done ELSE 0

ToldOf(t, s) == Cardinality(Own(t, s)) = held[t][s] + Extra(t, s)

\* A node has keys of a mutex while it has the mutex, the first of them to the end.
KeysOf(t, s) ==
  sems[s].type = "mutex" =>
    /\ held[t][s] > 0 <=> keys[t][s] # {}
    /\ keys[t][s] # {} => 0 \in keys[t][s]
    /\ held[t][s] >= 0

Accounts ==
  \A t \in Nodes, s \in Sems :
    Created(s) /\ sems[s].type # "sem" => ToldOf(t, s) /\ KeysOf(t, s)

\* Of a lock that is still being created nobody was told anything.
Untold ==
  \A t \in Nodes : pc[t] \in Setups =>
    \A u \in Nodes : held[u][call[t].s] = 0 /\ keys[u][call[t].s] = {}

ToldInv == Accounts /\ Untold

\* Calls change what their node was told of the entry they were made for, and
\* only when they end.
Tells == {"granted", "released", "mlock", "munlock", "delete"}

HeldEffect(t) ==
  \A u \in Nodes, s \in Sems :
    born[s] = 1 /\ (u # t \/ s # call[t].s \/ pc[t] \notin Tells) =>
      held'[u][s] = held[u][s] /\ keys'[u][s] = keys[u][s]

\* Every step keeps to that.
LEMMA HeldStep ==
  ASSUME IInv, BirthInv, NEW t \in Nodes,
         Calling(t) \/ Inside(t) \/ Waiting(t) \/ Finalize(t) \/ Initialize(t)
  PROVE  HeldEffect(t)
<1>0. TypeInv /\ HistoryTypes
  BY DEF IInv, BirthInv
<1> USE LocksAssumption, <1>0 DEF TypeInv, HistoryTypes, guardVars, nodeVars, histVars, Goto
<1>1. ASSUME NEW s \in Sems, NEW m \in Timeouts, CallLock(t, s, m)
      PROVE  HeldEffect(t)
  BY <1>1 DEF CallLock, Call, HeldEffect
<1>2. ASSUME NEW s \in Sems, NEW m \in Timeouts, CallMutexLock(t, s, m)
      PROVE  HeldEffect(t)
  BY <1>2 DEF CallMutexLock, Call, HeldEffect
<1>3. ASSUME NEW s \in Sems, NEW m \in Nat, NEW op \in {"lock", "unlock"},
             CallWriter(t, s, op, m)
      PROVE  HeldEffect(t)
  BY <1>3 DEF CallWriter, Call, HeldEffect
<1>4. ASSUME NEW s \in Sems, NEW op \in {"unlock", "post"}, CallUnlock(t, s, op)
      PROVE  HeldEffect(t)
  BY <1>4 DEF CallUnlock, Call, HeldEffect
<1>5. ASSUME NEW s \in Sems, NEW key \in 0 .. MaxDepth, CallMutexUnlock(t, s, key)
      PROVE  HeldEffect(t)
  BY <1>5 DEF CallMutexUnlock, Call, HeldEffect
<1>6. ASSUME NEW s \in Sems, Deletes, CallDelete(t, s)
      PROVE  HeldEffect(t)
  BY <1>6 DEF CallDelete, Call, HeldEffect
<1>7. ASSUME NEW w \in Waits, NEW m \in Timeouts, CallMultiple(t, w, m)
      PROVE  HeldEffect(t)
  BY <1>7 DEF CallMultiple, Call, HeldEffect
<1>8. ASSUME NEW key \in Keys, NEW type \in Types, NEW n \in 0 .. MaxShared - 1,
             CallCreate(t, key, type, n)
      PROVE  HeldEffect(t)
  BY <1>8 DEF CallCreate, HeldEffect
<1>9. ASSUME NEW key \in Keys, Get(t, key)
      PROVE  HeldEffect(t)
  BY <1>9 DEF Get, HeldEffect
<1>10. CASE Probe(t)
  BY <1>10 DEF Probe, HeldEffect
<1>11. CASE Enter(t)
  BY <1>11 DEF Enter, HeldEffect
<1>12. CASE EnterMultiple(t)
  BY <1>12 DEF EnterMultiple, HeldEffect
<1>13. CASE Return(t)
  BY <1>13 DEF Return, HeldEffect
<1>14. CASE WriterLimit(t)
  BY <1>14 DEF WriterLimit, HeldEffect
<1>15. CASE LockTest(t)
  BY <1>15 DEF LockTest, HeldEffect
<1>16. CASE LockScan(t)
  BY <1>16 DEF LockScan, HeldEffect
<1>17. CASE LockTake(t)
  BY <1>17 DEF LockTake, HeldEffect
<1>18. CASE LockReturn(t)
  <2>1. pc[t] = "granted"
    BY <1>18 DEF LockReturn
  <2>2. /\ \A u \in Nodes, s \in Sems : u # t => held'[u][s] = held[u][s]
        /\ \A s \in Sems : s # call[t].s => held'[t][s] = held[t][s]
    <3>1. CASE held' = held
      BY <3>1
    <3>2. CASE held' = [held EXCEPT ![t][call[t].s] = @ + call[t].n]
      BY <3>2
    <3> QED BY <1>18, <3>1, <3>2 DEF LockReturn
  <2>3. /\ \A u \in Nodes, s \in Sems : u # t => keys'[u][s] = keys[u][s]
        /\ \A s \in Sems : s # call[t].s => keys'[t][s] = keys[t][s]
    <3>1. CASE keys' = keys
      BY <3>1
    <3>2. CASE keys' = [keys EXCEPT ![t][call[t].s] = {0}]
      BY <3>2
    <3> QED BY <1>18, <3>1, <3>2 DEF LockReturn
  <2> HIDE DEF TypeInv, HistoryTypes
  <2> QED BY <2>1, <2>2, <2>3 DEF HeldEffect, Tells
<1>19. CASE Yield(t)
  BY <1>19 DEF Yield, HeldEffect
<1>20. CASE Again(t)
  BY <1>20 DEF Again, HeldEffect
<1>21. CASE AgainMultiple(t)
  BY <1>21 DEF AgainMultiple, HeldEffect
<1>22. CASE NextSem(t)
  BY <1>22 DEF NextSem, HeldEffect
<1>23. CASE Revert(t)
  BY <1>23 DEF Revert, HeldEffect
<1>24. CASE UnlockTest(t)
  BY <1>24 DEF UnlockTest, HeldEffect
<1>25. CASE UnlockClear(t)
  BY <1>25 DEF UnlockClear, HeldEffect
<1>26. CASE UnlockReturn(t)
  <2>1. pc[t] = "released"
    BY <1>26 DEF UnlockReturn
  <2>2. /\ \A u \in Nodes, s \in Sems : u # t => held'[u][s] = held[u][s]
        /\ \A s \in Sems : s # call[t].s => held'[t][s] = held[t][s]
    <3>1. CASE held' = held
      BY <3>1
    <3>2. CASE held' = [held EXCEPT ![t][call[t].s] = @ - call[t].n]
      BY <3>2
    <3> QED BY <1>26, <3>1, <3>2 DEF UnlockReturn
  <2>3. /\ \A u \in Nodes, s \in Sems : u # t => keys'[u][s] = keys[u][s]
        /\ \A s \in Sems : s # call[t].s => keys'[t][s] = keys[t][s]
    <3>1. CASE keys' = keys
      BY <3>1
    <3>2. CASE keys' = [keys EXCEPT ![t][call[t].s] = {}]
      BY <3>2
    <3> QED BY <1>26, <3>1, <3>2 DEF UnlockReturn
  <2> HIDE DEF TypeInv, HistoryTypes
  <2> QED BY <2>1, <2>2, <2>3 DEF HeldEffect, Tells
<1>27. CASE MutexLock(t)
  <2>1. pc[t] = "mlock"
    BY <1>27 DEF MutexLock
  <2>2. /\ \A u \in Nodes, s \in Sems : u # t => held'[u][s] = held[u][s]
        /\ \A s \in Sems : s # call[t].s => held'[t][s] = held[t][s]
    <3>1. CASE held' = held
      BY <3>1
    <3> QED BY <1>27, <3>1 DEF MutexLock
  <2>3. /\ \A u \in Nodes, s \in Sems : u # t => keys'[u][s] = keys[u][s]
        /\ \A s \in Sems : s # call[t].s => keys'[t][s] = keys[t][s]
    <3>1. CASE keys' = keys
      BY <3>1
    <3>2. CASE keys' = [keys EXCEPT ![t][call[t].s] = @ \cup {sems[call[t].s].lock_key + 1}]
      BY <3>2
    <3> QED BY <1>27, <3>1, <3>2 DEF MutexLock
  <2> HIDE DEF TypeInv, HistoryTypes
  <2> QED BY <2>1, <2>2, <2>3 DEF HeldEffect, Tells
<1>28. CASE MutexUnlock(t)
  <2>1. pc[t] = "munlock"
    BY <1>28 DEF MutexUnlock
  <2>2. /\ \A u \in Nodes, s \in Sems : u # t => held'[u][s] = held[u][s]
        /\ \A s \in Sems : s # call[t].s => held'[t][s] = held[t][s]
    <3>1. CASE held' = held
      BY <3>1
    <3> QED BY <1>28, <3>1 DEF MutexUnlock
  <2>3. /\ \A u \in Nodes, s \in Sems : u # t => keys'[u][s] = keys[u][s]
        /\ \A s \in Sems : s # call[t].s => keys'[t][s] = keys[t][s]
    <3>1. CASE keys' = keys
      BY <3>1
    <3>2. CASE keys' = [keys EXCEPT ![t][call[t].s] = @ \ {call[t].key}]
      BY <3>2
    <3> QED BY <1>28, <3>1, <3>2 DEF MutexUnlock
  <2> HIDE DEF TypeInv, HistoryTypes
  <2> QED BY <2>1, <2>2, <2>3 DEF HeldEffect, Tells
<1>29. CASE Delete(t)
  <2>1. pc[t] = "delete"
    BY <1>29 DEF Delete
  <2>2. /\ \A u \in Nodes, s \in Sems : u # t => held'[u][s] = held[u][s]
        /\ \A s \in Sems : s # call[t].s => held'[t][s] = held[t][s]
    <3>1. CASE held' = held
      BY <3>1
    <3>2. CASE held' = [held EXCEPT ![t][call[t].s] = 0]
      BY <3>2
    <3> QED BY <1>29, <3>1, <3>2 DEF Delete
  <2>3. /\ \A u \in Nodes, s \in Sems : u # t => keys'[u][s] = keys[u][s]
        /\ \A s \in Sems : s # call[t].s => keys'[t][s] = keys[t][s]
    <3>1. CASE keys' = keys
      BY <3>1
    <3>2. CASE keys' = [keys EXCEPT ![t][call[t].s] = {}]
      BY <3>2
    <3> QED BY <1>29, <3>1, <3>2 DEF Delete
  <2> HIDE DEF TypeInv, HistoryTypes
  <2> QED BY <2>1, <2>2, <2>3 DEF HeldEffect, Tells
<1>30. CASE CreateSearch(t)
  <2>1. CASE held' = held /\ keys' = keys
    BY <2>1 DEF HeldEffect
  <2>2. ASSUME NEW r \in Sems, ~sems[r].valid, ~sems[r].deleted,
               held' = [u \in Nodes |-> [held[u] EXCEPT ![r] = 0]],
               keys' = [u \in Nodes |-> [keys[u] EXCEPT ![r] = {}]]
        PROVE  HeldEffect(t)
    <3>1. pc[t] = "create"
      BY <1>30 DEF CreateSearch
    <3>2. born[r] = 0
      BY <2>2, <3>1, FreeUnborn
    <3>3. \A u \in Nodes, s \in Sems : s # r =>
            held'[u][s] = held[u][s] /\ keys'[u][s] = keys[u][s]
      BY <2>2
    <3> HIDE DEF TypeInv, HistoryTypes
    <3>4. \A s \in Sems : born[s] = 1 => s # r
      BY <3>2
    <3> QED BY <3>3, <3>4 DEF HeldEffect
  <2> QED BY <1>30, <2>1, <2>2 DEF CreateSearch
<1>31. CASE CreateSetup(t)
  <2>1. held' = held /\ keys' = keys
    BY <1>31, CreatorEffect
  <2> QED BY <2>1 DEF HeldEffect
<1>32. CASE Finalize(t)
  BY <1>32 DEF Finalize, HeldEffect
<1>33. CASE Initialize(t)
  BY <1>33 DEF Initialize, HeldEffect
<1>34. CASE CreateEnd(t)
  BY <1>34 DEF CreateEnd, HeldEffect
<1> HIDE DEF TypeInv, HistoryTypes, guardVars, nodeVars, histVars, Goto
<1> QED BY <1>1, <1>2, <1>3, <1>4, <1>5, <1>6, <1>7, <1>8, <1>9, <1>10, <1>11, <1>12,
           <1>13, <1>14, <1>15, <1>16, <1>17, <1>18, <1>19, <1>20, <1>21, <1>22, <1>23,
           <1>24, <1>25, <1>26, <1>27, <1>28, <1>29, <1>30, <1>31, <1>32,
           <1>33, <1>34 DEF Calling, Inside, Waiting

\* No call tells anything of an entry that it does not work on.
LEMMA HeldFrame ==
  ASSUME IInv, BirthInv, NEW t \in Nodes,
         Calling(t) \/ Inside(t) \/ Waiting(t) \/ Finalize(t) \/ Initialize(t),
         NEW s \in Sems, born[s] = 1, ~In(t, s), NEW u \in Nodes
  PROVE  held'[u][s] = held[u][s] /\ keys'[u][s] = keys[u][s]
<1>1. s # call[t].s \/ pc[t] \notin Tells
  BY DEF In, Tells
<1> QED BY <1>1, HeldStep DEF HeldEffect

\* The locks of an entry and who has them.
SameLocks(s) ==
  /\ sems'[s].limit = sems[s].limit
  /\ sems'[s].lvalid = sems[s].lvalid
  /\ sems'[s].locked = sems[s].locked
  /\ sems'[s].holder = sems[s].holder

\* Where the locks are the same everybody has the same of them.
LEMMA OwnKept ==
  ASSUME NEW u \in Nodes, NEW s \in Sems, SameLocks(s)
  PROVE  Own(u, s)' = Own(u, s) /\ Locked(s)' = Locked(s)
BY DEF SameLocks, Own, Locked, Limit

\* And where the node was told nothing new either, its account still holds.
LEMMA ToldKept ==
  ASSUME NEW u \in Nodes, NEW s \in Sems, SameLocks(s), held'[u][s] = held[u][s],
         keys'[u][s] = keys[u][s], sems'[s].type = sems[s].type, Extra(u, s)' = Extra(u, s),
         ToldOf(u, s), KeysOf(u, s)
  PROVE  (ToldOf(u, s) /\ KeysOf(u, s))'
<1>1. ToldOf(u, s)'
  BY OwnKept DEF ToldOf
<1>2. KeysOf(u, s)'
  BY DEF KeysOf
<1> QED BY <1>1, <1>2

\* Locks are taken and given back in two places.
LEMMA LocksStep ==
  ASSUME NEW t \in Nodes,
         Calling(t) \/ Inside(t) \/ Waiting(t) \/ Finalize(t) \/ Initialize(t),
         IInv, BirthInv, NEW s \in Sems, In(t, s)
  PROVE  SameLocks(s) \/ LockTake(t) \/ UnlockClear(t)
<1>1. DOMAIN sems = Sems /\ DOMAIN sems[s] = Fields /\ call[t].s \in Sems
      /\ DOMAIN sems[call[t].s] = Fields
  BY DEF BirthInv, EntryTypes, EntryTyped, IInv, TypeInv
<1> USE LocksAssumption DEF IInv, TypeInv, Locals, guardVars, nodeVars, histVars, Goto
<1>2. ASSUME NEW r \in Sems, NEW m \in Timeouts, CallLock(t, r, m)
      PROVE  SameLocks(s) \/ LockTake(t) \/ UnlockClear(t)
  BY <1>2 DEF CallLock, Call, SameLocks
<1>3. ASSUME NEW r \in Sems, NEW m \in Timeouts, CallMutexLock(t, r, m)
      PROVE  SameLocks(s) \/ LockTake(t) \/ UnlockClear(t)
  BY <1>3 DEF CallMutexLock, Call, SameLocks
<1>4. ASSUME NEW r \in Sems, NEW m \in Nat, NEW op \in {"lock", "unlock"},
             CallWriter(t, r, op, m)
      PROVE  SameLocks(s) \/ LockTake(t) \/ UnlockClear(t)
  BY <1>4 DEF CallWriter, Call, SameLocks
<1>5. ASSUME NEW r \in Sems, NEW op \in {"unlock", "post"}, CallUnlock(t, r, op)
      PROVE  SameLocks(s) \/ LockTake(t) \/ UnlockClear(t)
  BY <1>5 DEF CallUnlock, Call, SameLocks
<1>6. ASSUME NEW r \in Sems, NEW key \in 0 .. MaxDepth, CallMutexUnlock(t, r, key)
      PROVE  SameLocks(s) \/ LockTake(t) \/ UnlockClear(t)
  BY <1>6 DEF CallMutexUnlock, Call, SameLocks
<1>7. ASSUME NEW r \in Sems, Deletes, CallDelete(t, r)
      PROVE  SameLocks(s) \/ LockTake(t) \/ UnlockClear(t)
  BY <1>7 DEF CallDelete, Call, SameLocks
<1>8. ASSUME NEW w \in Waits, NEW m \in Timeouts, CallMultiple(t, w, m)
      PROVE  SameLocks(s) \/ LockTake(t) \/ UnlockClear(t)
  BY <1>8 DEF CallMultiple, Call, SameLocks
<1>9. ASSUME NEW key \in Keys, NEW type \in Types, NEW n \in 0 .. MaxShared - 1,
             CallCreate(t, key, type, n)
      PROVE  SameLocks(s) \/ LockTake(t) \/ UnlockClear(t)
  BY <1>9 DEF CallCreate, SameLocks
<1>10. ASSUME NEW key \in Keys, Get(t, key)
      PROVE  SameLocks(s) \/ LockTake(t) \/ UnlockClear(t)
  <2>1. ~In(t, s)
    BY <1>10 DEF Get, In
  <2> QED BY <2>1
<1>11. CASE Probe(t)
  BY <1>11 DEF Probe, SameLocks
<1>12. CASE Enter(t)
  BY <1>12 DEF Enter, SameLocks
<1>13. CASE EnterMultiple(t)
  BY <1>13 DEF EnterMultiple, SameLocks
<1>14. CASE Return(t)
  BY <1>14 DEF Return, SameLocks
<1>15. CASE WriterLimit(t)
  BY <1>15 DEF WriterLimit, SameLocks
<1>16. CASE LockTest(t)
  BY <1>16 DEF LockTest, SameLocks
<1>17. CASE LockScan(t)
  BY <1>17 DEF LockScan, SameLocks
<1>18. CASE LockTake(t)
  BY <1>18
<1>19. CASE LockReturn(t)
  BY <1>19 DEF LockReturn, SameLocks
<1>20. CASE Yield(t)
  BY <1>20 DEF Yield, SameLocks
<1>21. CASE Again(t)
  BY <1>21 DEF Again, SameLocks
<1>22. CASE AgainMultiple(t)
  BY <1>22 DEF AgainMultiple, SameLocks
<1>23. CASE NextSem(t)
  BY <1>23 DEF NextSem, SameLocks
<1>24. CASE Revert(t)
  BY <1>24 DEF Revert, SameLocks
<1>25. CASE UnlockTest(t)
  <2>1. CASE sems' = [sems EXCEPT ![call[t].s].num_locks = @ - call[t].n]
    BY <1>1, <2>1 DEF Fields, SameLocks
  <2>2. CASE sems' = sems
    BY <2>2 DEF SameLocks
  <2> QED BY <1>25, <2>1, <2>2 DEF UnlockTest
<1>26. CASE UnlockClear(t)
  BY <1>26
<1>27. CASE UnlockReturn(t)
  BY <1>27 DEF UnlockReturn, SameLocks
<1>28. CASE MutexLock(t)
  <2>1. CASE sems' = [sems EXCEPT ![call[t].s].lock_key = @ + 1]
    BY <1>1, <2>1 DEF Fields, SameLocks
  <2>2. CASE sems' = sems
    BY <2>2 DEF SameLocks
  <2> QED BY <1>28, <2>1, <2>2 DEF MutexLock
<1>29. CASE MutexUnlock(t)
  <2>1. CASE sems' = [sems EXCEPT ![call[t].s].lock_key = @ - 1]
    BY <1>1, <2>1 DEF Fields, SameLocks
  <2>2. CASE sems' = sems
    BY <2>2 DEF SameLocks
  <2> QED BY <1>29, <2>1, <2>2 DEF MutexUnlock
<1>30. CASE Delete(t)
  <2>1. CASE sems' = [sems EXCEPT ![call[t].s] = [@ EXCEPT !.valid = FALSE, !.deleted = ExtError /\ sems[call[t].s].attrs]]
    BY <1>1, <2>1 DEF Fields, SameLocks
  <2>2. CASE sems' = sems
    BY <2>2 DEF SameLocks
  <2> QED BY <1>30, <2>1, <2>2 DEF Delete
<1>31. CASE CreateSearch(t)
  <2>1. ~In(t, s)
    BY <1>31 DEF CreateSearch, In
  <2> QED BY <2>1
<1>32. CASE CreateSetup(t)
  <2>1. ~In(t, s)
    BY <1>32, CreatorEffect DEF Setups, In
  <2> QED BY <2>1
<1>33. CASE Finalize(t)
  BY <1>33 DEF Finalize, SameLocks
<1>34. CASE Initialize(t)
  BY <1>34 DEF Initialize, SameLocks
<1>35. CASE CreateEnd(t)
  <2>1. ~In(t, s)
    BY <1>35 DEF CreateEnd, In
  <2> QED BY <2>1
<1> HIDE DEF IInv, TypeInv, Locals, guardVars, nodeVars, histVars, Goto
<1> QED BY <1>2, <1>3, <1>4, <1>5, <1>6, <1>7, <1>8, <1>9, <1>10, <1>11, <1>12, <1>13,
           <1>14, <1>15, <1>16, <1>17, <1>18, <1>19, <1>20, <1>21, <1>22, <1>23, <1>24,
           <1>25, <1>26, <1>27, <1>28, <1>29, <1>30, <1>31, <1>32, <1>33,
           <1>34, <1>35 DEF Calling, Inside, Waiting

\* The lock that a call takes is its node's; the one it gives back was.
LEMMA TakeOwn ==
  ASSUME NEW t \in Nodes, NEW s \in Sems, EntryTypes, NEW k \in Limit(s), ~sems[s].locked[k],
         sems[s].lvalid[k], NEW m,
         sems' = [sems EXCEPT ![s] = [@ EXCEPT !.locked[k] = TRUE, !.holder[k] = t,
                                               !.num_locks = m]]
  PROVE  /\ Own(t, s)' = Own(t, s) \cup {k} /\ k \notin Own(t, s)
         /\ \A u \in Nodes : u # t => Own(u, s)' = Own(u, s)
<1>1. /\ DOMAIN sems = Sems /\ DOMAIN sems[s] = Fields
      /\ DOMAIN sems[s].locked = Indices /\ DOMAIN sems[s].holder = Indices
  BY DEF EntryTypes, EntryTyped
<1>2. /\ sems'[s].limit = sems[s].limit /\ sems'[s].lvalid = sems[s].lvalid
      /\ sems'[s].locked = [sems[s].locked EXCEPT ![k] = TRUE]
      /\ sems'[s].holder = [sems[s].holder EXCEPT ![k] = t]
  BY <1>1 DEF Fields
<1>3. Limit(s)' = Limit(s) /\ Limit(s) \subseteq Indices
  BY <1>2, LocksAssumption DEF EntryTypes, EntryTyped, Limit, Indices
<1> QED BY <1>1, <1>2, <1>3 DEF Own, Locked

\* A set with one member more.
LEMMA AddOne ==
  ASSUME NEW A, IsFiniteSet(A), NEW x, x \notin A
  PROVE  Cardinality(A \cup {x}) = Cardinality(A) + 1
BY FS_AddElement

\* A lock that a node gives back is no longer its own.
LEMMA ClearOwn ==
  ASSUME NEW t \in Nodes, NEW s \in Sems, EntryTypes, NEW k \in Own(t, s),
         sems' = [sems EXCEPT ![s].locked[k] = FALSE]
  PROVE  /\ Own(t, s)' = Own(t, s) \ {k}
         /\ \A u \in Nodes : u # t => Own(u, s)' = Own(u, s)
<1>1. /\ DOMAIN sems = Sems /\ DOMAIN sems[s] = Fields
      /\ DOMAIN sems[s].locked = Indices /\ DOMAIN sems[s].holder = Indices
  BY DEF EntryTypes, EntryTyped
<1>2. /\ sems'[s].limit = sems[s].limit /\ sems'[s].lvalid = sems[s].lvalid
      /\ sems'[s].locked = [sems[s].locked EXCEPT ![k] = FALSE]
      /\ sems'[s].holder = sems[s].holder
  BY <1>1 DEF Fields
<1>3. Limit(s)' = Limit(s) /\ Limit(s) \subseteq Indices
  BY <1>2, LocksAssumption DEF EntryTypes, EntryTyped, Limit, Indices
<1>4. k \in Limit(s) /\ sems[s].holder[k] = t
  BY DEF Own, Locked
<1> QED BY <1>1, <1>2, <1>3, <1>4 DEF Own, Locked

\* A call at work keeps its node's account of the entry.
LEMMA ToldStep ==
  ASSUME NEW t \in Nodes,
         Calling(t) \/ Inside(t) \/ Waiting(t) \/ Finalize(t) \/ Initialize(t),
         ~Early, IInv, BirthInv, CountInv, CountInv', NEW s \in Sems, Ready(s), In(t, s),
         sems[s].type # "sem", sems[s].valid, sems'[s].valid, ToldOf(t, s), KeysOf(t, s)
  PROVE  (ToldOf(t, s) /\ KeysOf(t, s))'
<1>1. s = call[t].s /\ call[t].wait = "one"
  <2>1. Active(t) /\ Fits(t)
    BY DEF In, Active, Creations, Setups, CountInv, CallFits
  <2>2. call[t].wait = "one"
    BY <2>1 DEF Fits, KindFits
  <2> QED BY <2>2 DEF In
<1>2. AtWork(t, s) /\ Fits(t)
  BY DEF In, Active, Creations, Setups, CountInv, CallFits, Working
<1>3. /\ held[t][s] \in Int /\ call[t].done \in Nat /\ call[t].n \in Nat /\ call[t].l \in Nat
      /\ sems[s].limit \in Int /\ out[s] \in Int
  BY LocksAssumption DEF BirthInv, HistoryTypes, CallTypes, EntryTypes, EntryTyped
<1>4. /\ sems'[s].type = sems[s].type /\ EntryTypes /\ DOMAIN sems = Sems
      /\ DOMAIN sems[s] = Fields /\ DOMAIN keys = Nodes /\ DOMAIN keys[t] = Sems
  BY ReadyFrame DEF SameKind, BirthInv, EntryTypes, EntryTyped, HistoryTypes
<1>5. IsFiniteSet(Own(t, s)) /\ Cardinality(Own(t, s)) \in Nat
  <2>1. Own(t, s) \subseteq Locked(s)
    BY DEF Own
  <2> QED BY <1>4, <2>1, LocksFinite
<1> USE LocksAssumption DEF IInv, TypeInv, Locals, guardVars, nodeVars, histVars, Goto
<1>6. ASSUME NEW r \in Sems, NEW m \in Timeouts, CallLock(t, r, m)
      PROVE  (ToldOf(t, s) /\ KeysOf(t, s))'
  <2>1. ~In(t, s)
    BY <1>6 DEF CallLock, Call, In
  <2> QED BY <2>1
<1>7. ASSUME NEW r \in Sems, NEW m \in Timeouts, CallMutexLock(t, r, m)
      PROVE  (ToldOf(t, s) /\ KeysOf(t, s))'
  <2>1. ~In(t, s)
    BY <1>7 DEF CallMutexLock, Call, In
  <2> QED BY <2>1
<1>8. ASSUME NEW r \in Sems, NEW m \in Nat, NEW op \in {"lock", "unlock"},
             CallWriter(t, r, op, m)
      PROVE  (ToldOf(t, s) /\ KeysOf(t, s))'
  <2>1. ~In(t, s)
    BY <1>8 DEF CallWriter, Call, In
  <2> QED BY <2>1
<1>9. ASSUME NEW r \in Sems, NEW op \in {"unlock", "post"}, CallUnlock(t, r, op)
      PROVE  (ToldOf(t, s) /\ KeysOf(t, s))'
  <2>1. ~In(t, s)
    BY <1>9 DEF CallUnlock, Call, In
  <2> QED BY <2>1
<1>10. ASSUME NEW r \in Sems, NEW key \in 0 .. MaxDepth, CallMutexUnlock(t, r, key)
      PROVE  (ToldOf(t, s) /\ KeysOf(t, s))'
  <2>1. ~In(t, s)
    BY <1>10 DEF CallMutexUnlock, Call, In
  <2> QED BY <2>1
<1>11. ASSUME NEW r \in Sems, Deletes, CallDelete(t, r)
      PROVE  (ToldOf(t, s) /\ KeysOf(t, s))'
  <2>1. ~In(t, s)
    BY <1>11 DEF CallDelete, Call, In
  <2> QED BY <2>1
<1>12. ASSUME NEW w \in Waits, NEW m \in Timeouts, CallMultiple(t, w, m)
      PROVE  (ToldOf(t, s) /\ KeysOf(t, s))'
  <2>1. ~In(t, s)
    BY <1>12 DEF CallMultiple, Call, In
  <2> QED BY <2>1
<1>13. ASSUME NEW key \in Keys, NEW type \in Types, NEW n \in 0 .. MaxShared - 1,
             CallCreate(t, key, type, n)
      PROVE  (ToldOf(t, s) /\ KeysOf(t, s))'
  <2>1. ~In(t, s)
    BY <1>13 DEF CallCreate, In
  <2> QED BY <2>1
<1>14. ASSUME NEW key \in Keys, Get(t, key)
      PROVE  (ToldOf(t, s) /\ KeysOf(t, s))'
  <2>1. ~In(t, s)
    BY <1>14 DEF Get, In
  <2> QED BY <2>1
<1>15. CASE Probe(t)
  <2>1. ~In(t, s)
    BY <1>15 DEF Probe, In
  <2> QED BY <2>1
<1>16. CASE Enter(t)
  <2>1. ~In(t, s)
    BY <1>16 DEF Enter, In
  <2> QED BY <2>1
<1>17. CASE EnterMultiple(t)
  <2>1. ~In(t, s)
    BY <1>17 DEF EnterMultiple, In
  <2> QED BY <2>1
<1>18. CASE Return(t)
  <2>1. /\ sems' = sems /\ held' = held /\ keys' = keys
        /\ pc[t] = "refused" /\ pc'[t] \in {"idle"}
    BY <1>18 DEF Return
  <2>2. pc[t] \notin Locking \cup Unlocking /\ pc'[t] \notin Locking \cup Unlocking
    BY <2>1 DEF Locking, Unlocking
  <2> HIDE DEF IInv, TypeInv
  <2>3. SameLocks(s) /\ Extra(t, s)' = Extra(t, s)
    BY <2>1, <2>2 DEF SameLocks, Extra
  <2> QED BY <2>1, <2>3, ToldKept
<1>19. CASE WriterLimit(t)
  <2>1. ~In(t, s)
    BY <1>19 DEF WriterLimit, In
  <2> QED BY <2>1
<1>20. CASE LockTest(t)
  <2>1. /\ sems' = sems /\ held' = held /\ keys' = keys /\ pc[t] = "lock"
        /\ pc'[t] \in {"scan", "failed"} /\ call'[t].done = 0
    BY <1>20 DEF LockTest
  <2> HIDE DEF IInv, TypeInv
  <2>2. SameLocks(s) /\ Extra(t, s)' = Extra(t, s)
    BY <2>1 DEF SameLocks, Extra, Locking, Unlocking
  <2> QED BY <2>1, <2>2, ToldKept
<1>21. CASE LockScan(t)
  <2>1. /\ sems' = sems /\ held' = held /\ keys' = keys /\ out' = out /\ pc[t] = "scan"
    BY <1>21 DEF LockScan
  <2>2. /\ pc'[t] \in {"scan", "take", "granted", "failed"} /\ call'[t].done = call[t].done
        /\ call'[t].s = call[t].s /\ call'[t].wait = call[t].wait
    <3>1. CASE /\ call' = [call EXCEPT ![t].l = @ + 1]
               /\ pc' = [pc EXCEPT ![t] = IF call[t].done = call[t].n THEN "granted" ELSE "scan"]
      BY <2>1, <3>1
    <3>2. CASE pc' = [pc EXCEPT ![t] = "take"] /\ call' = [call EXCEPT ![t].tmp = S(t).num_locks]
      BY <3>2
    <3>3. CASE /\ call' = call
               /\ pc' = [pc EXCEPT ![t] = IF call[t].done = call[t].n THEN "granted" ELSE "failed"]
      BY <3>3
    <3> QED BY <1>21, <3>1, <3>2, <3>3 DEF LockScan
  <2> HIDE DEF IInv, TypeInv
  <2>3. pc'[t] = "failed" => call[t].done = 0
    <3>1. SUFFICES ASSUME pc'[t] = "failed" PROVE call[t].done = 0
      OBVIOUS
    <3>2. In(t, s)' /\ call'[t].s = s
      BY <1>1, <2>2, <3>1 DEF In
    <3>3. AtWork(t, s)'
      BY <3>2 DEF CountInv, Working
    <3>4. Counted(s, 0)'
      BY <3>1, <3>2, <3>3 DEF AtWork
    <3>5. sems[s].num_locks = out[s] + 0
      BY <2>1, <3>4 DEF Counted
    <3>6. sems[s].num_locks = out[s] + call[t].done
      BY <1>1, <1>2, <2>1 DEF AtWork, LockingWell, Counted
    <3> QED BY <1>3, <3>5, <3>6
  <2>4. SameLocks(s) /\ Extra(t, s)' = Extra(t, s)
    BY <2>1, <2>2, <2>3 DEF SameLocks, Extra, Locking, Unlocking
  <2> QED BY <2>1, <2>4, ToldKept
<1>22. CASE LockTake(t)
  <2>1. /\ held' = held /\ keys' = keys /\ pc[t] = "take" /\ pc'[t] \in {"granted", "scan"}
        /\ call'[t].s = call[t].s /\ call'[t].done = call[t].done + 1
    BY <1>22 DEF LockTake
  <2>2. sems' = [sems EXCEPT ![s] = [@ EXCEPT !.locked[call[t].l] = TRUE,
                                             !.holder[call[t].l] = t,
                                             !.num_locks = call[t].tmp + 1]]
    BY <1>22, <1>1 DEF LockTake
  <2> HIDE DEF IInv, TypeInv
  <2>3. call[t].l \in Limit(s) /\ ~sems[s].locked[call[t].l] /\ sems[s].lvalid[call[t].l]
    BY <1>1, <1>2, <2>1 DEF AtWork, LockingWell, CountInv, Limits
  <2>4. Own(t, s)' = Own(t, s) \cup {call[t].l} /\ call[t].l \notin Own(t, s)
    <3>1. PICK k, m : k = call[t].l /\ m = call[t].tmp + 1
      OBVIOUS
    <3>2. /\ k \in Limit(s) /\ ~sems[s].locked[k] /\ sems[s].lvalid[k]
          /\ sems' = [sems EXCEPT ![s] = [@ EXCEPT !.locked[k] = TRUE, !.holder[k] = t,
                                                   !.num_locks = m]]
      BY <2>2, <2>3, <3>1
    <3>3. Own(t, s)' = Own(t, s) \cup {k} /\ k \notin Own(t, s)
      BY <1>4, <3>2, TakeOwn
    <3> QED BY <3>1, <3>3
  <2>5. Cardinality(Own(t, s)') = Cardinality(Own(t, s)) + 1
    BY <1>5, <2>4, AddOne
  <2>6. Extra(t, s) = call[t].done /\ Extra(t, s)' = call[t].done + 1
    BY <1>1, <2>1 DEF Extra, Locking
  <2>7. ToldOf(t, s)'
    <3>1. Cardinality(Own(t, s)) = held[t][s] + call[t].done
      BY <2>6 DEF ToldOf
    <3> QED BY <1>3, <2>1, <2>5, <2>6, <3>1 DEF ToldOf
  <2>8. KeysOf(t, s)'
    BY <1>4, <2>1 DEF KeysOf
  <2> QED BY <2>7, <2>8
<1>23. CASE LockReturn(t)
  <2>1. /\ sems' = sems /\ pc[t] = "granted" /\ pc'[t] = "idle"
        /\ held'[t][s] = held[t][s] + call[t].n
        /\ keys'[t][s] = IF call[t].type = "mutex" THEN {0} ELSE keys[t][s]
    BY <1>23, <1>1 DEF LockReturn, S, HistoryTypes, BirthInv
  <2> HIDE DEF IInv, TypeInv
  <2>2. /\ call[t].done = call[t].n /\ call[t].op = "lock"
        /\ call[t].type = "mutex" => call[t].n = 1
        /\ call[t].type = "mutex" <=> sems[s].type = "mutex"
    BY <1>1, <1>2, <2>1 DEF AtWork, LockingWell, Fits, PlaceFits, KindFits
  <2>3. Extra(t, s) = call[t].n /\ Extra(t, s)' = 0
    BY <1>1, <2>1, <2>2 DEF Extra, Locking, Unlocking
  <2>4. ToldOf(t, s)'
    <3>1. SameLocks(s)
      BY <2>1 DEF SameLocks
    <3>2. Cardinality(Own(t, s)) = held[t][s] + call[t].n
      BY <2>3 DEF ToldOf
    <3>3. Cardinality(Own(t, s)') = held'[t][s] + 0
      BY <1>3, <2>1, <3>1, <3>2, OwnKept
    <3> QED BY <2>3, <3>3 DEF ToldOf
  <2>5. KeysOf(t, s)'
    <3>1. SUFFICES ASSUME sems[s].type = "mutex"
                   PROVE  held'[t][s] > 0 /\ keys'[t][s] = {0}
      <4>1. held'[t][s] \in Int
        BY <1>3, <2>1
      <4>2. held'[t][s] > 0 => held'[t][s] >= 0
        BY <4>1
      <4>3. {0} # {} /\ 0 \in {0}
        OBVIOUS
      <4> QED BY <2>1, <4>2, <4>3 DEF KeysOf
    <3>2. held[t][s] >= 0 /\ call[t].n = 1
      BY <2>2, <3>1 DEF KeysOf
    <3>3. held'[t][s] > 0
      BY <1>3, <2>1, <3>2
    <3> QED BY <2>1, <2>2, <3>1, <3>3
  <2> QED BY <2>4, <2>5
<1>24. CASE Yield(t)
  <2>1. /\ sems' = sems /\ held' = held /\ keys' = keys
        /\ pc[t] = "failed" /\ pc'[t] \in {"again", "againmultiple"}
    BY <1>24 DEF Yield
  <2>2. pc[t] \notin Locking \cup Unlocking /\ pc'[t] \notin Locking \cup Unlocking
    BY <2>1 DEF Locking, Unlocking
  <2> HIDE DEF IInv, TypeInv
  <2>3. SameLocks(s) /\ Extra(t, s)' = Extra(t, s)
    BY <2>1, <2>2 DEF SameLocks, Extra
  <2> QED BY <2>1, <2>3, ToldKept
<1>25. CASE Again(t)
  <2>1. ~In(t, s)
    BY <1>25 DEF Again, In
  <2> QED BY <2>1
<1>26. CASE AgainMultiple(t)
  <2>1. ~In(t, s)
    BY <1>26 DEF AgainMultiple, In
  <2> QED BY <2>1
<1>27. CASE NextSem(t)
  <2>1. call[t].wait \in {"any", "all"}
    BY <1>27 DEF NextSem
  <2> QED BY <1>1, <2>1
<1>28. CASE Revert(t)
  <2>1. call[t].wait \in {"all"}
    BY <1>28 DEF Revert
  <2> QED BY <1>1, <2>1
<1>29. CASE UnlockTest(t)
  <2>1. held' = held /\ keys' = keys /\ pc[t] \in {"unlock", "post"}
    BY <1>29 DEF UnlockTest
  <2>2. SameLocks(s)
    <3>1. CASE sems' = [sems EXCEPT ![call[t].s].num_locks = @ - call[t].n]
      BY <1>1, <1>4, <3>1 DEF SameLocks, Fields
    <3>2. CASE sems' = sems
      BY <3>2 DEF SameLocks
    <3> QED BY <1>29, <3>1, <3>2 DEF UnlockTest
  <2>3. /\ (pc'[t] = "clear" /\ call'[t].done = 0) \/ pc'[t] = "refused"
        /\ call'[t].s = call[t].s
    <3>1. CASE /\ pc' = [pc EXCEPT ![t] = "clear"]
               /\ call' = [call EXCEPT ![t] = [@ EXCEPT !.l = 0, !.done = 0]]
      BY <3>1
    <3>2. CASE pc' = [pc EXCEPT ![t] = "refused"] /\ call' = call
      BY <3>2
    <3> QED BY <1>29, <3>1, <3>2 DEF UnlockTest
  <2> HIDE DEF IInv, TypeInv
  <2>4. Extra(t, s)' = Extra(t, s)
    BY <2>1, <2>3 DEF Extra, Locking, Unlocking
  <2> QED BY <1>4, <2>1, <2>2, <2>4, ToldKept
<1>30. CASE UnlockClear(t)
  <2>1. held' = held /\ keys' = keys /\ pc[t] = "clear"
    BY <1>30 DEF UnlockClear
  <2>2. call[t].op = "unlock" /\ Mine(t) = Own(t, s)
    <3>1. call[t].op \in {"unlock", "post"} /\ call[t].op # "post"
      BY <1>1, <1>2, <2>1 DEF Fits, PlaceFits, KindFits
    <3> QED BY <1>1, <3>1 DEF Mine
  <2>3. CASE call[t].l \in Mine(t)
    <3>1. /\ sems' = [sems EXCEPT ![s].locked[call[t].l] = FALSE]
          /\ call' = [call EXCEPT ![t] = [call[t] EXCEPT !.l = @ + 1, !.done = @ + 1]]
          /\ pc' = [pc EXCEPT ![t] = IF call[t].done + 1 = call[t].n THEN "released" ELSE "clear"]
      <4>1. ~(call[t].l >= sems[s].limit)
        BY <1>3, <2>2, <2>3 DEF Own, Locked, Limit
      <4> QED BY <1>30, <1>1, <2>3, <4>1 DEF UnlockClear, S
    <3>2. /\ call'[t].s = call[t].s /\ call'[t].done = call[t].done + 1
          /\ pc'[t] \in {"released", "clear"}
      BY <3>1
    <3> HIDE DEF IInv, TypeInv
    <3>3. Own(t, s)' = Own(t, s) \ {call[t].l}
      <4>1. PICK k : k = call[t].l
        OBVIOUS
      <4>2. k \in Own(t, s) /\ sems' = [sems EXCEPT ![s].locked[k] = FALSE]
        BY <2>2, <2>3, <3>1, <4>1
      <4>3. Own(t, s)' = Own(t, s) \ {k}
        <5>1. EntryTypes
          BY <1>4
        <5> QED BY <4>2, <5>1, ClearOwn
      <4> QED BY <4>1, <4>3
    <3>4. Cardinality(Own(t, s)') = Cardinality(Own(t, s)) - 1
      BY <1>5, <2>2, <2>3, <3>3, RemoveOne
    <3>5. Extra(t, s) = 0 - call[t].done /\ Extra(t, s)' = 0 - (call[t].done + 1)
      BY <1>1, <2>1, <3>2 DEF Extra, Locking, Unlocking
    <3>6. ToldOf(t, s)'
      <4>1. Cardinality(Own(t, s)) = held[t][s] + (0 - call[t].done)
        BY <3>5 DEF ToldOf
      <4> QED BY <1>3, <2>1, <3>4, <3>5, <4>1 DEF ToldOf
    <3>7. KeysOf(t, s)'
      BY <1>4, <2>1 DEF KeysOf
    <3> QED BY <3>6, <3>7
  <2>4. CASE call[t].l \notin Mine(t)
    <3>1. sems' = sems
      BY <1>30, <2>4 DEF UnlockClear
    <3>2. /\ call'[t].s = call[t].s /\ call'[t].done = call[t].done
          /\ pc'[t] \in {"clear", "released"}
      <4>1. CASE call' = [call EXCEPT ![t].l = @ + 1] /\ pc' = pc
        BY <2>1, <4>1
      <4>2. CASE /\ call' = call
                 /\ pc' = [pc EXCEPT ![t] = IF call[t].done = call[t].n THEN "released" ELSE "abort"]
        BY <4>2 DEF CountInv, NoAbort
      <4> QED BY <1>30, <2>4, <4>1, <4>2 DEF UnlockClear
    <3> HIDE DEF IInv, TypeInv
    <3>3. SameLocks(s) /\ Extra(t, s)' = Extra(t, s)
      BY <2>1, <3>1, <3>2 DEF SameLocks, Extra, Locking, Unlocking
    <3> QED BY <2>1, <3>1, <3>3, ToldKept
  <2> QED BY <2>3, <2>4
<1>31. CASE UnlockReturn(t)
  <2>1. /\ sems' = sems /\ pc[t] = "released" /\ pc'[t] = "idle"
        /\ held'[t][s] = held[t][s] - call[t].n
        /\ keys'[t][s] = IF call[t].type = "mutex" THEN {} ELSE keys[t][s]
    BY <1>31, <1>1 DEF UnlockReturn, S, HistoryTypes, BirthInv
  <2> HIDE DEF IInv, TypeInv
  <2>2. /\ call[t].done = call[t].n /\ call[t].op \in {"unlock", "post"}
        /\ call[t].type = "mutex" => call[t].n = 1
        /\ call[t].type = "mutex" <=> sems[s].type = "mutex"
        /\ call[t].op # "post"
        /\ call[t].done <= call[t].l /\ \A l \in Mine(t) : l >= call[t].l
    BY <1>1, <1>2, <2>1 DEF AtWork, UnlockingWell, Fits, PlaceFits, KindFits
  <2>3. Extra(t, s) = 0 - call[t].n /\ Extra(t, s)' = 0
    BY <1>1, <2>1, <2>2 DEF Extra, Locking, Unlocking
  <2>4. Cardinality(Own(t, s)) = held[t][s] + (0 - call[t].n)
    BY <2>3 DEF ToldOf
  <2>5. ToldOf(t, s)'
    <3>1. SameLocks(s)
      BY <2>1 DEF SameLocks
    <3>2. Cardinality(Own(t, s)') = held'[t][s] + 0
      BY <1>3, <2>1, <2>4, <3>1, OwnKept
    <3> QED BY <2>3, <3>2 DEF ToldOf
  <2>6. KeysOf(t, s)'
    <3>1. SUFFICES ASSUME sems[s].type = "mutex"
                   PROVE  held'[t][s] = 0 /\ keys'[t][s] = {}
      BY <2>1 DEF KeysOf
    <3>2. sems[s].limit = 1 /\ call[t].n = 1
      BY <1>2, <2>2, <3>1 DEF CountInv, Limits
    <3>3. \A l \in Own(t, s) : l \in Int /\ l < 1 /\ l >= call[t].l
      BY <1>1, <2>2, <3>2 DEF Mine, Own, Locked, Limit
    <3>4. call[t].l >= 1
      BY <2>2, <3>2
    <3>5. Own(t, s) = {}
      BY <1>3, <3>3, <3>4
    <3>6. Cardinality(Own(t, s)) = 0
      BY <3>5, FS_EmptySet
    <3>7. held'[t][s] = 0
      BY <1>3, <2>1, <2>4, <3>2, <3>6
    <3> QED BY <2>1, <2>2, <3>1, <3>7
  <2> QED BY <2>5, <2>6
<1>32. CASE MutexLock(t)
  <2>1. held' = held /\ pc[t] = "mlock" /\ pc'[t] \in {"idle", "probe"}
    BY <1>32 DEF MutexLock
  <2>2. SameLocks(s)
    <3>1. CASE sems' = [sems EXCEPT ![call[t].s].lock_key = @ + 1]
      BY <1>1, <1>4, <3>1 DEF SameLocks, Fields
    <3>2. CASE sems' = sems
      BY <3>2 DEF SameLocks
    <3> QED BY <1>32, <3>1, <3>2 DEF MutexLock
  <2>3. Extra(t, s) = 0 /\ Extra(t, s)' = 0
    BY <2>1 DEF Extra, Locking, Unlocking
  <2>4. CASE keys' = keys
    <3> HIDE DEF IInv, TypeInv
    <3> QED BY <1>4, <2>1, <2>2, <2>3, <2>4, ToldKept
  <2>5. CASE keys' # keys
    <3>1. ToldOf(t, s)'
      <4> HIDE DEF IInv, TypeInv
      <4> QED BY <2>1, <2>2, <2>3, OwnKept DEF ToldOf
    <3>2. sems[s].type = "mutex" =>
            held[t][s] > 0 /\ 0 \in keys'[t][s]
      <4>1. SUFFICES ASSUME sems[s].type = "mutex" PROVE held[t][s] > 0 /\ 0 \in keys'[t][s]
        OBVIOUS
      <4>2. /\ sems[s].locked[0] /\ sems[s].holder[0] = t
            /\ keys' = [keys EXCEPT ![t][s] = @ \cup {sems[s].lock_key + 1}]
        BY <1>32, <1>1, <2>5 DEF MutexLock, S
      <4>3. sems[s].limit = 1 /\ \A l \in Limit(s) : sems[s].lvalid[l]
        BY <1>2, <4>1 DEF CountInv, Limits
      <4>4. 0 \in Own(t, s)
        BY <4>2, <4>3 DEF Own, Locked, Limit
      <4> HIDE DEF IInv, TypeInv
      <4>5. Cardinality(Own(t, s)) # 0
        BY <1>5, <4>4, FS_EmptySet
      <4>6. Cardinality(Own(t, s)) = held[t][s] + 0
        BY <2>3 DEF ToldOf
      <4>7. held[t][s] > 0
        BY <1>3, <1>5, <4>5, <4>6
      <4>8. 0 \in keys[t][s]
        BY <4>1, <4>7 DEF KeysOf
      <4> QED BY <1>4, <4>2, <4>7, <4>8
    <3>3. KeysOf(t, s)'
      <4> HIDE DEF IInv, TypeInv
      <4> QED BY <1>4, <2>1, <3>2 DEF KeysOf
    <3> QED BY <3>1, <3>3
  <2> QED BY <2>4, <2>5
<1>33. CASE MutexUnlock(t)
  <2>1. held' = held /\ pc[t] = "munlock" /\ pc'[t] \in {"idle", "probe"}
    BY <1>33 DEF MutexUnlock
  <2>2. SameLocks(s)
    <3>1. CASE sems' = [sems EXCEPT ![call[t].s].lock_key = @ - 1]
      BY <1>1, <1>4, <3>1 DEF SameLocks, Fields
    <3>2. CASE sems' = sems
      BY <3>2 DEF SameLocks
    <3> QED BY <1>33, <3>1, <3>2 DEF MutexUnlock
  <2>3. Extra(t, s) = 0 /\ Extra(t, s)' = 0
    BY <2>1 DEF Extra, Locking, Unlocking
  <2>4. CASE keys' = keys
    <3> HIDE DEF IInv, TypeInv
    <3> QED BY <1>4, <2>1, <2>2, <2>3, <2>4, ToldKept
  <2>5. CASE keys' # keys
    <3>1. ToldOf(t, s)'
      <4> HIDE DEF IInv, TypeInv
      <4> QED BY <2>1, <2>2, <2>3, OwnKept DEF ToldOf
    <3>2. sems[s].type = "mutex" =>
            /\ held[t][s] > 0 <=> keys'[t][s] # {}
            /\ keys'[t][s] # {} => 0 \in keys'[t][s]
            /\ held[t][s] >= 0
      <4>1. call[t].key # 0 /\ keys' = [keys EXCEPT ![t][s] = @ \ {call[t].key}]
        BY <1>33, <1>1, <2>5 DEF MutexUnlock
      <4> HIDE DEF IInv, TypeInv
      <4>2. keys'[t][s] = keys[t][s] \ {call[t].key}
        BY <1>4, <4>1
      <4> QED BY <4>1, <4>2 DEF KeysOf
    <3>3. KeysOf(t, s)'
      <4> HIDE DEF IInv, TypeInv
      <4> QED BY <1>4, <2>1, <3>2 DEF KeysOf
    <3> QED BY <3>1, <3>3
  <2> QED BY <2>4, <2>5
<1>34. CASE Delete(t)
  <2>1. sems' = sems /\ held' = held /\ keys' = keys /\ pc[t] = "delete" /\ pc'[t] = "idle"
    <3>1. ~(sems' = [sems EXCEPT ![call[t].s] = [@ EXCEPT !.valid = FALSE, !.deleted = ExtError /\ sems[call[t].s].attrs]])
      <4> HIDE DEF IInv, TypeInv
      <4>1. SUFFICES ASSUME sems' = [sems EXCEPT ![s] = [@ EXCEPT !.valid = FALSE,
                                                                 !.deleted = ExtError /\ sems[s].attrs]]
                     PROVE  FALSE
        BY <1>1
      <4>2. sems'[s] = [sems[s] EXCEPT !.valid = FALSE, !.deleted = ExtError /\ sems[s].attrs]
        BY <1>4, <4>1
      <4>3. sems'[s].valid = FALSE
        BY <1>4, <4>2 DEF Fields
      <4> QED BY <4>3
    <3> QED BY <1>34, <3>1 DEF Delete
  <2> HIDE DEF IInv, TypeInv
  <2>2. SameLocks(s) /\ Extra(t, s)' = Extra(t, s)
    BY <2>1 DEF SameLocks, Extra, Locking, Unlocking
  <2> QED BY <2>1, <2>2, ToldKept
<1>35. CASE CreateSearch(t)
  <2>1. ~In(t, s)
    BY <1>35 DEF CreateSearch, In
  <2> QED BY <2>1
<1>36. CASE CreateSetup(t)
  <2>1. ~In(t, s)
    BY <1>36, CreatorEffect DEF Setups, In
  <2> QED BY <2>1
<1>37. CASE Finalize(t)
  <2>1. ~In(t, s)
    BY <1>37 DEF Finalize, In
  <2> QED BY <2>1
<1>38. CASE Initialize(t)
  <2>1. sems' = sems /\ held' = held /\ keys' = keys /\ pc' = pc /\ call' = call
    BY <1>38 DEF Initialize
  <2> HIDE DEF IInv, TypeInv
  <2>2. SameLocks(s) /\ Extra(t, s)' = Extra(t, s)
    BY <2>1 DEF SameLocks, Extra
  <2> QED BY <2>1, <2>2, ToldKept
<1>39. CASE CreateEnd(t)
  <2>1. ~In(t, s)
    BY <1>39 DEF CreateEnd, In
  <2> QED BY <2>1
<1> HIDE DEF IInv, TypeInv, Locals, guardVars, nodeVars, histVars, Goto
<1> QED BY <1>6, <1>7, <1>8, <1>9, <1>10, <1>11, <1>12, <1>13, <1>14, <1>15, <1>16, <1>17,
           <1>18, <1>19, <1>20, <1>21, <1>22, <1>23, <1>24, <1>25, <1>26, <1>27, <1>28,
           <1>29, <1>30, <1>31, <1>32, <1>33, <1>34, <1>35, <1>36, <1>37,
           <1>38, <1>39 DEF Calling, Inside, Waiting

\* When its creation returns nobody has a lock of a mutex or a reader-writer lock.
LEMMA CreatedTold ==
  ASSUME ~Early, IInv, BirthInv, Half, Untold, NEW t \in Nodes, CreateEnd(t),
         NEW s \in Sems, s = call[t].s, sems'[s].type # "sem", NEW u \in Nodes
  PROVE  (ToldOf(u, s) /\ KeysOf(u, s))'
<1>1. pc[t] = "make" /\ held' = held /\ keys' = keys
  BY DEF CreateEnd, Goto
<1>2. call[t].n = 0
  <2>1. sems'[s].type = sems[s].type /\ sems[s].type = call[t].type
    BY HalfDone
  <2>2. call[t].n # 0 => call[t].type = "sem"
    BY <1>1 DEF BirthInv, Creating, Creations, Setups
  <2> QED BY <2>1, <2>2
<1>3. Own(u, s)' = {}
  <2>1. SameEntry(s) /\ Locked(s) = 0 .. call[t].n - 1
    BY HalfDone
  <2>2. SameLocks(s)
    BY <2>1 DEF SameEntry, SameLocks
  <2>3. Locked(s) = {}
    BY <1>2, <2>1
  <2>4. Locked(s)' = {}
    BY <2>2, <2>3, OwnKept
  <2> QED BY <2>4 DEF Own
<1>4. held'[u][s] = 0 /\ keys'[u][s] = {}
  BY <1>1 DEF Untold, Setups
<1>5. Extra(u, s)' = 0
  <2>1. pc'[t] = "idle" /\ \A v \in Nodes : v # t => pc'[v] = pc[v] /\ call'[v] = call[v]
    BY DEF CreateEnd, Goto, End, IInv, TypeInv
  <2>2. CASE u = t
    BY <2>1, <2>2 DEF Extra, Locking, Unlocking
  <2>3. CASE u # t
    <3>1. ~Ready(s)
      BY <1>1 DEF BirthInv, Creating, Setups, Ready
    <3>2. ~In(u, s)
      BY <3>1, AboutIn
    <3> QED BY <2>1, <2>3, <3>2 DEF In, Extra, Locking, Unlocking
  <2> QED BY <2>2, <2>3
<1>6. ToldOf(u, s)'
  BY <1>3, <1>4, <1>5, FS_EmptySet DEF ToldOf
<1>7. KeysOf(u, s)'
  BY <1>4 DEF KeysOf
<1> QED BY <1>6, <1>7

\* A call gets to the locks of an entry after it has entered.
LEMMA WorkEntered ==
  ASSUME NEW t \in Nodes,
         Calling(t) \/ Inside(t) \/ Waiting(t) \/ Finalize(t) \/ Initialize(t),
         IInv, BirthInv, NEW s \in Sems, born[s] = 1, ~In(t, s)
  PROVE  ~(call'[t].s = s /\ pc'[t] \in Locking \cup Unlocking)
<1> USE LocksAssumption DEF IInv, TypeInv, CallsAgree, WaitsOne, Locals, In, Locking,
                            Unlocking, guardVars, nodeVars, histVars, Goto
<1>1. ASSUME NEW r \in Sems, NEW m \in Timeouts, CallLock(t, r, m)
      PROVE  ~(call'[t].s = s /\ pc'[t] \in Locking \cup Unlocking)
  BY <1>1 DEF CallLock, Call
<1>2. ASSUME NEW r \in Sems, NEW m \in Timeouts, CallMutexLock(t, r, m)
      PROVE  ~(call'[t].s = s /\ pc'[t] \in Locking \cup Unlocking)
  BY <1>2 DEF CallMutexLock, Call
<1>3. ASSUME NEW r \in Sems, NEW m \in Nat, NEW op \in {"lock", "unlock"},
             CallWriter(t, r, op, m)
      PROVE  ~(call'[t].s = s /\ pc'[t] \in Locking \cup Unlocking)
  BY <1>3 DEF CallWriter, Call
<1>4. ASSUME NEW r \in Sems, NEW op \in {"unlock", "post"}, CallUnlock(t, r, op)
      PROVE  ~(call'[t].s = s /\ pc'[t] \in Locking \cup Unlocking)
  BY <1>4 DEF CallUnlock, Call
<1>5. ASSUME NEW r \in Sems, NEW key \in 0 .. MaxDepth, CallMutexUnlock(t, r, key)
      PROVE  ~(call'[t].s = s /\ pc'[t] \in Locking \cup Unlocking)
  BY <1>5 DEF CallMutexUnlock, Call
<1>6. ASSUME NEW r \in Sems, Deletes, CallDelete(t, r)
      PROVE  ~(call'[t].s = s /\ pc'[t] \in Locking \cup Unlocking)
  BY <1>6 DEF CallDelete, Call
<1>7. ASSUME NEW w \in Waits, NEW m \in Timeouts, CallMultiple(t, w, m)
      PROVE  ~(call'[t].s = s /\ pc'[t] \in Locking \cup Unlocking)
  BY <1>7 DEF CallMultiple, Call
<1>8. ASSUME NEW key \in Keys, NEW type \in Types, NEW n \in 0 .. MaxShared - 1,
             CallCreate(t, key, type, n)
      PROVE  ~(call'[t].s = s /\ pc'[t] \in Locking \cup Unlocking)
  BY <1>8 DEF CallCreate
<1>9. ASSUME NEW key \in Keys, Get(t, key)
      PROVE  ~(call'[t].s = s /\ pc'[t] \in Locking \cup Unlocking)
  BY <1>9 DEF Get
<1>10. CASE Probe(t)
  BY <1>10 DEF Probe
<1>11. CASE Enter(t)
  BY <1>11 DEF Enter
<1>12. CASE EnterMultiple(t)
  BY <1>12 DEF EnterMultiple
<1>13. CASE Return(t)
  BY <1>13 DEF Return
<1>14. CASE WriterLimit(t)
  BY <1>14 DEF WriterLimit
<1>15. CASE LockTest(t)
  BY <1>15 DEF LockTest
<1>16. CASE LockScan(t)
  BY <1>16 DEF LockScan
<1>17. CASE LockTake(t)
  BY <1>17 DEF LockTake
<1>18. CASE LockReturn(t)
  BY <1>18 DEF LockReturn
<1>19. CASE Yield(t)
  BY <1>19 DEF Yield
<1>20. CASE Again(t)
  BY <1>20 DEF Again
<1>21. CASE AgainMultiple(t)
  BY <1>21 DEF AgainMultiple
<1>22. CASE NextSem(t)
  <2>1. pc'[t] = "lock"
    BY <1>22 DEF NextSem
  <2> QED BY <2>1
<1>23. CASE Revert(t)
  BY <1>23 DEF Revert
<1>24. CASE UnlockTest(t)
  <2>1. pc[t] \in {"unlock", "post"}
    BY <1>24 DEF UnlockTest
  <2>2. call'[t].s = call[t].s
    <3>1. CASE call' = [call EXCEPT ![t] = [@ EXCEPT !.l = 0, !.done = 0]]
      BY <3>1
    <3>2. CASE call' = call
      BY <3>2
    <3> QED BY <1>24, <3>1, <3>2 DEF UnlockTest
  <2> QED BY <2>1, <2>2
<1>25. CASE UnlockClear(t)
  <2>1. pc[t] = "clear"
    BY <1>25 DEF UnlockClear
  <2>2. call'[t].s = call[t].s
    <3>1. CASE call' = [call EXCEPT ![t] = [call[t] EXCEPT !.l = @ + 1, !.done = @ + 1]]
      BY <3>1
    <3>2. CASE call' = [call EXCEPT ![t].l = @ + 1]
      BY <3>2
    <3>3. CASE call' = call
      BY <3>3
    <3> QED BY <1>25, <3>1, <3>2, <3>3 DEF UnlockClear
  <2> QED BY <2>1, <2>2
<1>26. CASE UnlockReturn(t)
  BY <1>26 DEF UnlockReturn
<1>27. CASE MutexLock(t)
  BY <1>27 DEF MutexLock
<1>28. CASE MutexUnlock(t)
  BY <1>28 DEF MutexUnlock
<1>29. CASE Delete(t)
  BY <1>29 DEF Delete
<1>30. CASE CreateSearch(t)
  BY <1>30 DEF CreateSearch
<1>31. CASE CreateSetup(t)
  <2>1. pc'[t] \in Setups
    BY <1>31, CreatorEffect
  <2> QED BY <2>1 DEF Setups
<1>32. CASE Finalize(t)
  BY <1>32 DEF Finalize
<1>33. CASE Initialize(t)
  BY <1>33 DEF Initialize
<1>34. CASE CreateEnd(t)
  BY <1>34 DEF CreateEnd
<1> HIDE DEF IInv, TypeInv, CallsAgree, WaitsOne, Locals, In, Locking, Unlocking,
             guardVars, nodeVars, histVars, Goto
<1> QED BY <1>1, <1>2, <1>3, <1>4, <1>5, <1>6, <1>7, <1>8, <1>9, <1>10, <1>11, <1>12,
           <1>13, <1>14, <1>15, <1>16, <1>17, <1>18, <1>19, <1>20, <1>21, <1>22, <1>23,
           <1>24, <1>25, <1>26, <1>27, <1>28, <1>29, <1>30, <1>31, <1>32,
           <1>33, <1>34 DEF Calling, Inside, Waiting

\* A call takes and gives back locks of its own node alone, but for a post.
LEMMA OthersOwn ==
  ASSUME IInv, BirthInv, CountInv, NEW t \in Nodes,
         Calling(t) \/ Inside(t) \/ Waiting(t) \/ Finalize(t) \/ Initialize(t),
         NEW s \in Sems, Ready(s), sems[s].type # "sem", NEW u \in Nodes, u # t
  PROVE  Own(u, s)' = Own(u, s)
<1>1. CASE ~In(t, s)
  <2>1. SameLocks(s)
    BY <1>1, ReadyFrame DEF SameEntry, SameLocks
  <2> QED BY <2>1, OwnKept
<1>2. CASE In(t, s)
  <2>1. s = call[t].s /\ Fits(t) /\ AtWork(t, s) /\ EntryTypes
    <3>1. Active(t) /\ Fits(t)
      BY <1>2 DEF In, Active, Creations, Setups, CountInv, CallFits
    <3>2. call[t].wait = "one"
      BY <3>1 DEF Fits, KindFits
    <3> QED BY <1>2, <3>1, <3>2 DEF In, CountInv, Working, BirthInv
  <2>2. CASE SameLocks(s)
    BY <2>2, OwnKept
  <2>3. CASE LockTake(t)
    <3>1. PICK k, m : k = call[t].l /\ m = call[t].tmp + 1
      OBVIOUS
    <3>2. k \in Limit(s) /\ ~sems[s].locked[k] /\ sems[s].lvalid[k]
      BY <2>1, <2>3, <3>1 DEF LockTake, AtWork, LockingWell, CountInv, Limits
    <3>3. sems' = [sems EXCEPT ![s] = [@ EXCEPT !.locked[k] = TRUE, !.holder[k] = t,
                                                !.num_locks = m]]
      BY <2>1, <2>3, <3>1 DEF LockTake
    <3> QED BY <2>1, <3>2, <3>3, TakeOwn
  <2>4. CASE UnlockClear(t)
    <3>1. CASE sems' = sems
      BY <3>1 DEF Own, Locked, Limit
    <3>2. CASE sems' = [sems EXCEPT ![call[t].s].locked[call[t].l] = FALSE] /\ call[t].l \in Mine(t)
      <4>1. PICK k : k = call[t].l
        OBVIOUS
      <4>2. call[t].op # "post" /\ pc[t] = "clear"
        BY <2>1, <2>4 DEF UnlockClear, Fits, KindFits
      <4>3. k \in Own(t, s) /\ sems' = [sems EXCEPT ![s].locked[k] = FALSE]
        BY <2>1, <3>2, <4>1, <4>2 DEF Mine
      <4> QED BY <2>1, <4>3, ClearOwn
    <3> QED BY <2>4, <3>1, <3>2 DEF UnlockClear
  <2> QED BY <1>2, <2>2, <2>3, <2>4, LocksStep
<1> QED BY <1>1, <1>2

\* Nobody is told anything of a lock that is being created.
LEMMA UntoldStep ==
  ASSUME ~Early, IInv, BirthInv, Untold, NEW t \in Nodes,
         Calling(t) \/ Inside(t) \/ Waiting(t) \/ Finalize(t) \/ Initialize(t)
  PROVE  Untold'
<1> SUFFICES ASSUME NEW u \in Nodes, pc'[u] \in Setups, NEW v \in Nodes
             PROVE  held'[v][call'[u].s] = 0 /\ keys'[v][call'[u].s] = {}
  BY DEF Untold
<1>1. \A w \in Nodes : w # t => pc'[w] = pc[w] /\ call'[w] = call[w]
  BY CallStep DEF CallEffect, IInv, BirthInv
<1>2. CASE u # t
  <2>1. pc[u] \in Setups /\ call'[u] = call[u]
    BY <1>1, <1>2
  <2>2. call[u].s \in Sems /\ born[call[u].s] = 1 /\ ~Ready(call[u].s)
    BY <2>1 DEF BirthInv, Creating, Ready, IInv, TypeInv
  <2>3. ~In(t, call[u].s)
    BY <2>2, AboutIn
  <2>4. held'[v][call[u].s] = held[v][call[u].s] /\ keys'[v][call[u].s] = keys[v][call[u].s]
    BY <2>2, <2>3, HeldFrame
  <2> QED BY <2>1, <2>4 DEF Untold
<1>3. CASE u = t /\ pc[t] \in Setups
  <2>1. CreateSetup(t) \/ CreateEnd(t) \/ UNCHANGED <<sems, pc, call, histVars>>
    BY <1>3, SetupMoves DEF IInv
  <2>2. ~CreateEnd(t)
    BY <1>3 DEF CreateEnd, Goto, Setups, IInv, TypeInv
  <2>3. held' = held /\ keys' = keys /\ call'[t].s = call[t].s
    <3>1. CASE CreateSetup(t)
      <4>1. \A f \in {"s"} : f \in Locals \ {"l", "tmp"}
        BY DEF Locals
      <4> QED BY <3>1, <4>1, CreatorEffect DEF IInv
    <3>2. CASE UNCHANGED <<sems, pc, call, histVars>>
      BY <3>2 DEF histVars
    <3> QED BY <2>1, <2>2, <3>1, <3>2
  <2> QED BY <1>3, <2>3 DEF Untold
<1>4. CASE u = t /\ pc[t] \notin Setups
  <2>1. GlobalEffect(t)
    BY GlobalStep DEF IInv, BirthInv
  <2>2. CreateSearch(t)
    <3>1. Setups \subseteq Creations /\ "create" \notin Setups
      BY DEF Setups, Creations
    <3>2. ~CreateSetup(t) /\ ~CreateEnd(t)
      BY <1>4, CreatorEffect DEF CreateEnd, Goto, Setups, IInv
    <3> QED BY <1>4, <2>1, <3>1, <3>2 DEF GlobalEffect
  <2>3. PICK s \in Sems :
          /\ call' = [call EXCEPT ![t].s = s]
          /\ held' = [w \in Nodes |-> [held[w] EXCEPT ![s] = 0]]
          /\ keys' = [w \in Nodes |-> [keys[w] EXCEPT ![s] = {}]]
    BY <1>4, <2>2 DEF CreateSearch, Setups, IInv, TypeInv
  <2>4. call'[t].s = s
    BY <2>3 DEF IInv, TypeInv, Locals
  <2> QED BY <1>4, <2>3, <2>4 DEF BirthInv, HistoryTypes
<1> QED BY <1>2, <1>3, <1>4

\* Locks that have been created were valid before the step, but for the one
\* whose creation returns.
LEMMA ValidBefore ==
  ASSUME IInv, BirthInv, NEW t \in Nodes,
         Calling(t) \/ Inside(t) \/ Waiting(t) \/ Finalize(t) \/ Initialize(t),
         NEW s \in Sems, Ready(s), sems'[s].valid
  PROVE  sems[s].valid
<1>1. SameBirths \/ Births(t)
  BY BirthEffect DEF IInv, BirthInv
<1>2. DOMAIN sems = Sems /\ DOMAIN sems[s] = Fields
  BY DEF BirthInv, EntryTypes, EntryTyped
<1>3. CASE SameBirths
  BY <1>3 DEF SameBirths
<1>4. CASE Delete(t)
  <2>1. CASE sems' = sems
    BY <2>1
  <2>2. CASE sems' = [sems EXCEPT ![call[t].s] =
                        [@ EXCEPT !.valid = FALSE, !.deleted = ExtError /\ sems[call[t].s].attrs]]
    BY <1>2, <2>2 DEF Fields
  <2> QED BY <1>4, <2>1, <2>2 DEF Delete
<1>5. CASE CreateSearch(t)
  <2>1. pc[t] = "create"
    BY <1>5 DEF CreateSearch
  <2>2. CASE sems' = sems
    BY <2>2
  <2>3. ASSUME NEW r \in Sems, ~sems[r].valid, ~sems[r].deleted,
               sems' = [sems EXCEPT ![r] = [Wiped EXCEPT !.key = call[t].key, !.type = call[t].type]]
        PROVE  sems[s].valid
    <3>1. born[r] = 0
      BY <2>1, <2>3, FreeUnborn
    <3>2. s # r
      BY <3>1 DEF Ready
    <3> QED BY <1>2, <2>3, <3>2
  <2> QED BY <1>5, <2>2, <2>3 DEF CreateSearch
<1>6. CASE CreateSetup(t)
  <2>1. s # call[t].s
    <3>1. pc[t] \in Setups
      BY <1>6, CreatorEffect DEF IInv
    <3> QED BY <3>1 DEF BirthInv, Creating, Ready
  <2>2. sems'[s] = sems[s]
    BY <1>6, <2>1, CreatorEntry DEF IInv, BirthInv
  <2> QED BY <2>2
<1>7. CASE CreateEnd(t)
  <2>1. sems' = [sems EXCEPT ![call[t].s].attrs = TRUE]
    BY <1>7 DEF CreateEnd
  <2> QED BY <1>2, <2>1 DEF Fields
<1> QED BY <1>1, <1>3, <1>4, <1>5, <1>6, <1>7 DEF Births

\* The step of one call keeps every node's account of every entry.
LEMMA ToldNext ==
  ASSUME ~Early, IInv, IInv', BirthInv, BirthInv', CountInv, CountInv', ToldInv, Next
  PROVE  ToldInv'
<1>1. PICK t \in Nodes :
        Calling(t) \/ Inside(t) \/ Waiting(t) \/ Finalize(t) \/ Initialize(t)
  BY DEF Next
<1>2. \A u \in Nodes : u # t => pc'[u] = pc[u] /\ call'[u] = call[u]
  BY <1>1, CallStep DEF CallEffect, IInv, BirthInv
<1>3. Untold'
  BY <1>1, UntoldStep DEF ToldInv
<1>4. SUFFICES ASSUME NEW u \in Nodes, NEW s \in Sems, Created(s)', sems'[s].type # "sem"
               PROVE  (ToldOf(u, s) /\ KeysOf(u, s))'
  BY <1>3 DEF ToldInv, Accounts
<1>5. CASE Ready(s)
  <2>1. /\ sems'[s].type = sems[s].type /\ sems[s].type # "sem"
        /\ ~In(t, s) => SameLocks(s)
    BY <1>1, <1>4, <1>5, ReadyFrame DEF SameKind, SameEntry, SameLocks
  <2>2. sems[s].valid /\ sems[s].attrs /\ sems'[s].valid /\ born[s] = 1
    BY <1>1, <1>4, <1>5, ValidBefore DEF Created, Ready
  <2>3. ToldOf(u, s) /\ KeysOf(u, s)
    BY <2>1, <2>2 DEF ToldInv, Accounts, Created
  <2>4. CASE u = t /\ In(t, s)
    BY <1>1, <1>5, <2>1, <2>2, <2>3, <2>4, ToldStep
  <2>5. CASE u = t /\ ~In(t, s)
    <3>1. held'[t][s] = held[t][s] /\ keys'[t][s] = keys[t][s]
      BY <1>1, <2>2, <2>5, HeldFrame
    <3>2. Extra(t, s) = 0 /\ Extra(t, s)' = 0
      <4>1. Extra(t, s) = 0
        BY <2>5 DEF In, Extra, Locking, Unlocking
      <4>2. ~(call'[t].s = s /\ pc'[t] \in Locking \cup Unlocking)
        BY <1>1, <2>2, <2>5, WorkEntered
      <4>3. Extra(t, s)' = 0
        BY <4>2 DEF Extra
      <4> QED BY <4>1, <4>3
    <3> QED BY <2>1, <2>3, <2>5, <3>1, <3>2, ToldKept
  <2>6. CASE u # t
    <3>1. Extra(u, s)' = Extra(u, s)
      BY <1>2, <2>6 DEF Extra
    <3>2. held'[u][s] = held[u][s] /\ keys'[u][s] = keys[u][s]
      BY <1>1, <2>2, <2>6, HeldStep DEF HeldEffect
    <3>3. Own(u, s)' = Own(u, s)
      BY <1>1, <1>5, <2>1, <2>6, OthersOwn
    <3>4. ToldOf(u, s)'
      BY <2>3, <3>1, <3>2, <3>3 DEF ToldOf
    <3>5. KeysOf(u, s)'
      BY <2>1, <2>3, <3>2 DEF KeysOf
    <3> QED BY <3>4, <3>5
  <2> QED BY <2>4, <2>5, <2>6
<1>6. CASE ~Ready(s)
  <2>1. Ready(s)'
    BY <1>4 DEF BirthInv, BornOnce, Created, Ready
  <2>2. CreateEnd(t) /\ s = call[t].s
    BY <1>1, <1>6, <2>1, Completed
  <2> QED BY <1>4, <2>2, CreatedTold DEF CountInv, ToldInv
<1> QED BY <1>5, <1>6

\* A step that changes nothing keeps the accounts.
LEMMA ToldStutter ==
  ASSUME ToldInv, UNCHANGED vars
  PROVE  ToldInv'
<1> USE DEF vars, guardVars, histVars
<1>1. SUFFICES ASSUME NEW u \in Nodes, NEW s \in Sems, Created(s), sems[s].type # "sem"
               PROVE  (ToldOf(u, s) /\ KeysOf(u, s))'
  <2>1. Untold'
    BY DEF ToldInv, Untold
  <2> QED BY <2>1 DEF ToldInv, Accounts, Created
<1>2. ToldOf(u, s) /\ KeysOf(u, s)
  BY <1>1 DEF ToldInv, Accounts
<1>3. SameLocks(s) /\ Extra(u, s)' = Extra(u, s)
  BY DEF SameLocks, Extra
<1> QED BY <1>2, <1>3, ToldKept

\* Where all calls take the same kind of guard, entries are created once and no
\* call is made on one before its creation has returned, the table gives every
\* node the locks it was told of, and those its call is at.
THEOREM AccountsKeep == OneGuard /\ Once /\ ~Early => (Spec => []ToldInv)
<1> SUFFICES ASSUME OneGuard, Once, ~Early PROVE Spec => []ToldInv
  OBVIOUS
<1>1. Init => ToldInv
  BY WipedTyped DEF Init, ToldInv, Accounts, Created, Untold, Setups
<1>2. IInv /\ IInv' /\ BirthInv /\ BirthInv' /\ CountInv /\ CountInv' /\ ToldInv
        /\ [Next]_vars => ToldInv'
  BY ToldNext, ToldStutter
<1> QED BY <1>1, <1>2, GuardCorrect, BirthCorrect, CountsKeep, PTL DEF Spec

\* Then, where nobody works on a mutex or a reader-writer lock that has been
\* created, the table gives each node as many of its locks as the node was granted
\* and has not released; and a node has keys of a mutex just while it has the mutex.
THEOREM HolderTold == OneGuard /\ Once /\ ~Early => (Spec => []HolderIsTold)
<1> SUFFICES ASSUME OneGuard, Once, ~Early PROVE Spec => []HolderIsTold
  OBVIOUS
<1>1. BirthInv /\ ToldInv => HolderIsTold
  <2>1. SUFFICES ASSUME BirthInv, ToldInv, NEW s \in Sems, Created(s), Quiet(s),
                        sems[s].type # "sem", NEW t \in Nodes
                 PROVE  /\ Cardinality(Own(t, s)) = held[t][s]
                        /\ sems[s].type = "mutex" => (held[t][s] > 0 <=> keys[t][s] # {})
    BY DEF HolderIsTold
  <2>2. ToldOf(t, s) /\ KeysOf(t, s) /\ ~In(t, s) /\ held[t][s] \in Int
    BY <2>1 DEF ToldInv, Accounts, Quiet, BirthInv, HistoryTypes
  <2>3. Extra(t, s) = 0
    BY <2>2 DEF In, Extra, Locking, Unlocking
  <2>4. Cardinality(Own(t, s)) = held[t][s] + 0
    BY <2>2, <2>3 DEF ToldOf
  <2>5. Cardinality(Own(t, s)) = held[t][s]
    BY <2>2, <2>4
  <2> QED BY <2>2, <2>5 DEF KeysOf
<1> QED BY <1>1, BirthCorrect, AccountsKeep, PTL

=============================================================================
