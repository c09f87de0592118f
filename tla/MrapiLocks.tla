------------------------------ MODULE MrapiLocks ------------------------------
(***************************************************************************)
(* Mutexes, semaphores and reader-writer locks of MRAPI (mrapi_impl_spec_  *)
(* {sem,mutex,rwl}_abb.c).  The three share one table, mrapi_db->sems; an  *)
(* entry has up to shared_lock_limit locks: a mutex has one, a reader takes*)
(* one and a writer all of them.  A call works under the guard of its      *)
(* entry (mrapi_impl_access_database_pre and post) and gives it up while it*)
(* waits (mrapi_impl_yield_locked); creating an entry and finalizing a node*)
(* use the global guard instead, and a lookup by key uses none: an entry   *)
(* can be found, and locked, while its creator is still writing it.        *)
(*                                                                         *)
(* The guard is a system semaphore or, with the attribute spinlock_guard, a*)
(* word of the entry.  Each call asks for the attribute, but the answer is *)
(* stored over the first field of a local struct and the field that is read*)
(* afterwards was never initialized: which of the two a call takes is a    *)
(* choice from Guards, made anew for every section.                        *)
(***************************************************************************)
EXTENDS Integers, FiniteSets

CONSTANTS
  NNodes,      \* nodes; a node is a thread (whoami reads thread-local indices)
  MaxSems,     \* MRAPI_MAX_SEMS
  MaxShared,   \* MRAPI_MAX_SHARED_LOCKS
  Types,       \* kinds of lock the application creates
  Guards,      \* values the uninitialized spinlock_guard may have
  Recursive,   \* the attribute recursive of the mutexes created
  ExtError,    \* ext_error_checking of the locks created
  Timeouts,    \* timeouts of the lock calls; Infinite is MRAPI_TIMEOUT_INFINITE
  Waits,       \* calls of mrapi_sem_lock_multiple: "any", "all", both or none
  Posts,       \* whether mrapi_sem_post is called
  Deletes,     \* whether locks are deleted
  Early,       \* whether calls are made on a lock before its creation has returned
  MaxRefs,     \* bound: nodes finalize while the references to each lock are fewer
  MaxCreates,  \* bound: locks created
  MaxDepth     \* bound: recursion of a mutex

Infinite == 0

ASSUME LocksAssumption ==
  /\ NNodes \in Nat \ {0} /\ MaxSems \in Nat \ {0} /\ MaxShared \in Nat \ {0}
  /\ Types \subseteq {"mutex", "sem", "rwl"}
  /\ Guards \subseteq {"sem", "spin"}
  /\ Timeouts \subseteq Nat /\ Waits \subseteq {"any", "all"}
  /\ {Recursive, ExtError, Posts, Deletes, Early} \subseteq BOOLEAN
  /\ MaxRefs \in Nat
  /\ MaxCreates \in Nat /\ MaxDepth \in Nat

Nodes   == 0 .. NNodes - 1
NoNode  == -1         \* a guard that is free
Anon    == -2         \* lock_holder_nindex = -1, the anonymous owner
Sems    == 0 .. MaxSems - 1
Indices == 0 .. MaxShared - 1

VARIABLES
  sems,        \* mrapi_db->sems
  guard,       \* holder of each guard: system semaphore and spin word
  global,      \* holder of the global semaphore semid
  users,       \* nodes[n].sems: the entries a node is logged as a user of
  alive,       \* nodes[n].state.valid
  pc, call,    \* where each node is and what it is doing
  keys,        \* lock keys of a mutex that the node was given and has not returned
  held,        \* history: locks of a mutex or rwl the node was granted, minus
               \* those it released
  out,         \* history: locks granted on the entry, minus those released
  born,        \* history: how often the entry was created
  known,       \* history: which creation of the entry a node's handle is for
  stray        \* history: a lock was granted on another creation than was asked for

guardVars == <<guard, global>>
nodeVars  == <<users, alive>>
histVars  == <<keys, held, out, born, known, stray>>
vars == <<sems, guardVars, nodeVars, pc, call, histVars>>

\* An entry after the memset of mrapi_impl_create_lock_locked: the holders of
\* its locks are node 0. Of each lock the entry has valid (lvalid here), locked
\* and the holder; attrs tells whether the creator has stored the attributes,
\* the last thing it does.
Wiped == [valid |-> FALSE, deleted |-> FALSE, key |-> 0, type |-> "mutex",
          limit |-> 0, lvalid |-> [l \in Indices |-> FALSE],
          locked |-> [l \in Indices |-> FALSE],
          holder |-> [l \in Indices |-> 0], num_locks |-> 0, lock_key |-> 0,
          refs |-> 0, attrs |-> FALSE]

\* The local variables of a call: what it does, to which entry, how many
\* locks it wants, its timeout and the time it has waited, the guard it uses,
\* where it is in its loop over the locks, and whether it waits for one
\* semaphore or for any or all of several.
NoCall == [op |-> "none", s |-> 0, n |-> 0, timeout |-> 1, time |-> 0,
           guard |-> "sem", l |-> 0, done |-> 0, tmp |-> 0, key |-> 0,
           type |-> "sem", wait |-> "one"]

Init ==
  /\ sems = [s \in Sems |-> Wiped]
  /\ guard = [s \in Sems |-> [g \in {"sem", "spin"} |-> NoNode]]
  /\ global = NoNode
  /\ users = [t \in Nodes |-> {}]
  /\ alive = [t \in Nodes |-> TRUE]
  /\ pc = [t \in Nodes |-> "idle"]
  /\ call = [t \in Nodes |-> NoCall]
  /\ keys = [t \in Nodes |-> [s \in Sems |-> {}]]
  /\ held = [t \in Nodes |-> [s \in Sems |-> 0]]
  /\ out = [s \in Sems |-> 0]
  /\ born = [s \in Sems |-> 0]
  /\ known = [t \in Nodes |-> [s \in Sems |-> 0]]
  /\ stray = FALSE

Goto(t, from, to) == pc[t] = from /\ pc' = [pc EXCEPT ![t] = to]

S(t) == sems[call[t].s]
Limit(s) == 0 .. sems[s].limit - 1

Locked(s) == {l \in Limit(s) : sems[s].lvalid[l] /\ sems[s].locked[l]}
Own(t, s) == {l \in Locked(s) : sems[s].holder[l] = t}

\* A call of the application on a lock it has a handle for, which passes
\* mrapi_impl_valid_lock_hndl; the application uses handles it got since the
\* creation of the entry last began and, unless Early, after it has returned:
\* the tests and MCAPI create a lock and look it up only where that is refused
\* because it exists, and the create that is refused waited for the first.
Call(t, s, to, c) ==
  /\ Goto(t, "idle", to) /\ alive[t]
  /\ sems[s].valid /\ known[t][s] = born[s]
  /\ (Early \/ sems[s].attrs)
  /\ call' = [call EXCEPT ![t] = c]
  /\ UNCHANGED <<sems, guardVars, nodeVars, histVars>>

-----------------------------------------------------------------------------
(* The guard of an entry.                                                  *)

\* What the caller reads as attributes.spinlock_guard; the query itself takes
\* the system semaphore of the entry and gives it back.
Probe(t) ==
  /\ Goto(t, "probe", "enter")
  /\ guard[call[t].s]["sem"] = NoNode
  /\ \E g \in Guards : call' = [call EXCEPT ![t].guard = g]
  /\ UNCHANGED <<sems, guardVars, nodeVars, histVars>>

\* (mutant: the guard is not taken)
EnterAlways(t) ==
  /\ Goto(t, "enter", call[t].op)
  /\ UNCHANGED <<sems, guardVars, nodeVars, call, histVars>>

\* mrapi_impl_access_database_pre
Enter(t) ==
  /\ Goto(t, "enter", call[t].op)
  /\ guard[call[t].s][call[t].guard] = NoNode
  /\ guard' = [guard EXCEPT ![call[t].s][call[t].guard] = t]
  /\ UNCHANGED <<sems, global, nodeVars, call, histVars>>

\* mrapi_impl_access_database_pre_multiple: all the guards or none
EnterMultiple(t) ==
  /\ Goto(t, "entermultiple", "lock")
  /\ \E g \in Guards :
       /\ \A s \in Sems : guard[s][g] = NoNode
       /\ guard' = [s \in Sems |-> [guard[s] EXCEPT ![g] = t]]
       /\ call' = [call EXCEPT ![t] = [@ EXCEPT !.guard = g, !.s = 0]]
  /\ UNCHANGED <<sems, global, nodeVars, histVars>>

\* mrapi_impl_access_database_post and post_multiple
Leave(t) ==
  guard' = [s \in Sems |->
              IF s = call[t].s \/ call[t].wait # "one"
              THEN [guard[s] EXCEPT ![call[t].guard] = NoNode] ELSE guard[s]]

\* a call that ends forgets its local variables
End(t) == call' = [call EXCEPT ![t] = NoCall]

\* the call ends and has changed nothing
Return(t) ==
  /\ Goto(t, "refused", "idle")
  /\ Leave(t) /\ End(t)
  /\ UNCHANGED <<sems, global, nodeVars, histVars>>

-----------------------------------------------------------------------------
(* mrapi_impl_sem_lock.                                                    *)

\* mrapi_sem_lock and trylock, and mrapi_rwl_lock of a reader
CallLock(t, s, timeout) ==
  /\ sems[s].type \in {"sem", "rwl"}
  /\ Call(t, s, "probe", [NoCall EXCEPT !.op = "lock", !.s = s, !.n = 1, !.timeout = timeout])

\* mrapi_rwl_lock and unlock of a writer read shared_lock_limit under the guard
\* and ask for that many locks, or release them, in a section of its own
CallWriter(t, s, op, timeout) ==
  /\ sems[s].type = "rwl"
  /\ Call(t, s, "writer", [NoCall EXCEPT !.op = op, !.s = s, !.timeout = timeout])

WriterLimit(t) ==
  /\ Goto(t, "writer", "probe")
  /\ guard[call[t].s]["sem"] = NoNode
  /\ \E g \in Guards : guard[call[t].s][g] = NoNode
  /\ call' = [call EXCEPT ![t].n = S(t).limit]
  /\ UNCHANGED <<sems, guardVars, nodeVars, histVars>>

\* (mutant: the attempts are not counted)
TickNot(t) == call[t].time

\* one attempt more; nothing compares the time of a call without timeout
Tick(t) == IF call[t].timeout = Infinite THEN 0 ELSE call[t].time + 1

\* (mutant: the writer's locks are counted against the limit as one)
LockTestOne(t) ==
  /\ pc[t] = "lock"
  /\ call' = [call EXCEPT ![t] = [@ EXCEPT !.time = Tick(t), !.l = 0, !.done = 0]]
  /\ pc' = [pc EXCEPT ![t] = IF S(t).limit - S(t).num_locks - 1 >= 0
                             THEN "scan" ELSE "failed"]
  /\ UNCHANGED <<sems, guardVars, nodeVars, histVars>>

\* mrapi_impl_acquire_lock_locked: are there num_locks free locks?
LockTest(t) ==
  /\ pc[t] = "lock"
  /\ call' = [call EXCEPT ![t] = [@ EXCEPT !.time = Tick(t), !.l = 0, !.done = 0]]
  /\ pc' = [pc EXCEPT ![t] = IF S(t).limit - S(t).num_locks - call[t].n >= 0
                             THEN "scan" ELSE "failed"]
  /\ UNCHANGED <<sems, guardVars, nodeVars, histVars>>

\* its loop looks at the locks in order; a writer that found no limit yet is
\* content with no lock
LockScan(t) ==
  LET free == S(t).lvalid[call[t].l] /\ ~S(t).locked[call[t].l] IN
  /\ pc[t] = "scan"
  /\ \/ /\ call[t].l < S(t).limit /\ ~free
        /\ call' = [call EXCEPT ![t].l = @ + 1]
        /\ pc' = [pc EXCEPT ![t] = IF call[t].done = call[t].n THEN "granted" ELSE "scan"]
     \/ /\ call[t].l < S(t).limit /\ free
        /\ call' = [call EXCEPT ![t].tmp = S(t).num_locks]
        /\ pc' = [pc EXCEPT ![t] = "take"]
     \/ /\ call[t].l >= S(t).limit
        /\ pc' = [pc EXCEPT ![t] = IF call[t].done = call[t].n THEN "granted" ELSE "failed"]
        /\ call' = call
  /\ UNCHANGED <<sems, guardVars, nodeVars, histVars>>

\* and takes the ones that are free, until it has num_locks of them
LockTake(t) ==
  /\ pc[t] = "take"
  /\ sems' = [sems EXCEPT ![call[t].s] = [@ EXCEPT !.locked[call[t].l] = TRUE,
                                                   !.holder[call[t].l] = t,
                                                   !.num_locks = call[t].tmp + 1]]
  /\ call' = [call EXCEPT ![t] = [call[t] EXCEPT !.l = @ + 1, !.done = @ + 1]]
  /\ pc' = [pc EXCEPT ![t] = IF call[t].done + 1 = call[t].n THEN "granted" ELSE "scan"]
  /\ UNCHANGED <<guardVars, nodeVars, histVars>>

\* the call returns with its locks; the key of a mutex is then 0
LockReturn(t) ==
  LET got == IF call[t].wait = "all" THEN Sems ELSE {call[t].s} IN
  /\ Goto(t, "granted", "idle")
  /\ call[t].wait = "all" => call[t].s = MaxSems - 1
  /\ Leave(t) /\ End(t)
  /\ held' = IF S(t).type = "sem" THEN held ELSE [held EXCEPT ![t][call[t].s] = @ + call[t].n]
  /\ out' = [s \in Sems |-> IF s \in got THEN out[s] + call[t].n ELSE out[s]]
  /\ keys' = IF call[t].type = "mutex" THEN [keys EXCEPT ![t][call[t].s] = {0}] ELSE keys
  /\ stray' = (stray \/ \E s \in got : known[t][s] # born[s])
  /\ UNCHANGED <<sems, global, nodeVars, born, known>>

\* mrapi_impl_yield_locked and yield_locked_multiple: the guard is given up
Yield(t) ==
  /\ Goto(t, "failed", IF call[t].wait = "one" THEN "again" ELSE "againmultiple")
  /\ call[t].wait = "any" => call[t].s = MaxSems - 1
  /\ call[t].wait = "all" => call[t].s = 0
  /\ Leave(t)
  /\ UNCHANGED <<sems, global, nodeVars, call, histVars>>

TimedOut(t) == call[t].timeout # Infinite /\ call[t].time >= call[t].timeout

\* and taken again, for another attempt or to see that the time is over
Again(t) ==
  /\ Goto(t, "again", IF TimedOut(t) THEN "refused" ELSE "lock")
  /\ guard[call[t].s][call[t].guard] = NoNode
  /\ guard' = [guard EXCEPT ![call[t].s][call[t].guard] = t]
  /\ UNCHANGED <<sems, global, nodeVars, call, histVars>>

AgainMultiple(t) ==
  /\ Goto(t, "againmultiple", IF TimedOut(t) THEN "refused" ELSE "lock")
  /\ \A s \in Sems : guard[s][call[t].guard] = NoNode
  /\ guard' = [s \in Sems |-> [guard[s] EXCEPT ![call[t].guard] = t]]
  /\ call' = [call EXCEPT ![t].s = 0]
  /\ UNCHANGED <<sems, global, nodeVars, histVars>>

-----------------------------------------------------------------------------
(* mrapi_impl_sem_lock_multiple, on all the semaphores of the table.       *)

CallMultiple(t, wait, timeout) ==
  /\ \A s \in Sems : /\ sems[s].valid /\ sems[s].type = "sem"
                    /\ known[t][s] = born[s]
                    /\ (Early \/ sems[s].attrs)
  /\ Call(t, 0, "entermultiple",
          [NoCall EXCEPT !.op = "lock", !.n = 1, !.timeout = timeout, !.wait = wait])

\* mrapi_impl_acquire_lock_locked_multiple goes to the next semaphore: after a
\* success when it wants all, after a failure when it wants any; that
\* is one attempt for all of them
NextSem(t) ==
  /\ \/ Goto(t, "granted", "lock") /\ call[t].wait = "all"
     \/ Goto(t, "failed", "lock") /\ call[t].wait = "any"
  /\ call[t].s < MaxSems - 1
  /\ call' = [call EXCEPT ![t] = [call[t] EXCEPT !.s = @ + 1, !.time = IF @ = 0 THEN 0 ELSE @ - 1]]
  /\ UNCHANGED <<sems, guardVars, nodeVars, histVars>>

\* or, when one of all fails, reverts the ones before it with mrapi_impl_sem_
\* unlock: that asks for the guard which this call already holds, and waits for
\* it for ever (there is no step from "revert")
Revert(t) ==
  /\ Goto(t, "failed", "revert")
  /\ call[t].wait = "all" /\ call[t].s > 0
  /\ UNCHANGED <<sems, guardVars, nodeVars, call, histVars>>

-----------------------------------------------------------------------------
(* mrapi_impl_release_lock and mrapi_impl_signal_lock.                     *)

\* mrapi_sem_unlock, mrapi_rwl_unlock of a reader, mrapi_sem_post
CallUnlock(t, s, op) ==
  /\ sems[s].type \in {"sem", "rwl"} /\ (op = "post" => sems[s].type = "sem")
  /\ Call(t, s, "probe", [NoCall EXCEPT !.op = op, !.s = s, !.n = 1])

\* (mutant: an unlock takes away the locks of any node)
MineAny(t) == Locked(call[t].s)

\* the locks an unlock may take away: the node's own, or with post any
Mine(t) == IF call[t].op = "post" THEN Locked(call[t].s) ELSE Own(t, call[t].s)

\* is the entry valid, and are there num_locks locks to unlock?
UnlockTest(t) ==
  /\ pc[t] \in {"unlock", "post"}
  /\ IF S(t).valid /\ Cardinality(Mine(t)) >= call[t].n
     THEN /\ sems' = [sems EXCEPT ![call[t].s].num_locks = @ - call[t].n]
          /\ call' = [call EXCEPT ![t] = [@ EXCEPT !.l = 0, !.done = 0]]
          /\ pc' = [pc EXCEPT ![t] = "clear"]
     ELSE /\ pc' = [pc EXCEPT ![t] = "refused"]
          /\ UNCHANGED <<sems, call>>
  /\ UNCHANGED <<guardVars, nodeVars, histVars>>

\* the loop that unlocks num_locks of them, and asserts that it found as many
UnlockClear(t) ==
  /\ pc[t] = "clear"
  /\ \/ /\ call[t].l \in Mine(t)
        /\ sems' = [sems EXCEPT ![call[t].s].locked[call[t].l] = FALSE]
        /\ call' = [call EXCEPT ![t] = [call[t] EXCEPT !.l = @ + 1, !.done = @ + 1]]
        /\ pc' = [pc EXCEPT ![t] = IF call[t].done + 1 = call[t].n THEN "released" ELSE "clear"]
     \/ /\ call[t].l < S(t).limit /\ call[t].l \notin Mine(t)
        /\ call' = [call EXCEPT ![t].l = @ + 1]
        /\ UNCHANGED <<sems, pc>>
     \/ /\ call[t].l >= S(t).limit
        /\ pc' = [pc EXCEPT ![t] = IF call[t].done = call[t].n THEN "released" ELSE "abort"]
        /\ UNCHANGED <<sems, call>>
  /\ UNCHANGED <<guardVars, nodeVars, histVars>>

UnlockReturn(t) ==
  LET s == call[t].s IN
  /\ Goto(t, "released", "idle")
  /\ Leave(t) /\ End(t)
  /\ held' = IF S(t).type = "sem" THEN held ELSE [held EXCEPT ![t][s] = @ - call[t].n]
  /\ out' = [out EXCEPT ![s] = @ - call[t].n]
  /\ keys' = IF call[t].type = "mutex" THEN [keys EXCEPT ![t][s] = {}] ELSE keys
  /\ UNCHANGED <<sems, global, nodeVars, born, known, stray>>

-----------------------------------------------------------------------------
(* Mutexes.                                                                *)

CallMutexLock(t, s, timeout) ==
  /\ sems[s].type = "mutex" /\ Cardinality(keys[t][s]) < MaxDepth
  /\ Call(t, s, "probe", [NoCall EXCEPT !.op = "mlock", !.s = s, !.n = 1,
                                        !.timeout = timeout, !.type = "mutex"])

\* mrapi_impl_mutex_lock: a mutex the node has is locked once more, or refused;
\* otherwise mrapi_impl_sem_lock is called
MutexLock(t) ==
  LET s == call[t].s IN
  /\ pc[t] = "mlock"
  /\ Leave(t)
  /\ \/ /\ S(t).locked[0] /\ S(t).holder[0] = t /\ (Recursive /\ S(t).attrs)
        /\ sems' = [sems EXCEPT ![s].lock_key = @ + 1]
        /\ keys' = [keys EXCEPT ![t][s] = @ \cup {sems[s].lock_key + 1}]
        /\ pc' = [pc EXCEPT ![t] = "idle"] /\ End(t)
     \/ /\ S(t).locked[0] /\ S(t).holder[0] = t /\ ~(Recursive /\ S(t).attrs)
        /\ pc' = [pc EXCEPT ![t] = "idle"] /\ End(t)
        /\ UNCHANGED <<sems, keys>>
     \/ /\ ~(S(t).locked[0] /\ S(t).holder[0] = t)
        /\ call' = [call EXCEPT ![t].op = "lock"]
        /\ pc' = [pc EXCEPT ![t] = "probe"]
        /\ UNCHANGED <<sems, keys>>
  /\ UNCHANGED <<global, nodeVars, held, out, born, known, stray>>

\* The application returns a key that it was given, or tries the key 0 on a
\* mutex it has not locked.
CallMutexUnlock(t, s, key) ==
  /\ sems[s].type = "mutex"
  /\ IF keys[t][s] = {} THEN key = 0 ELSE key \in keys[t][s]
  /\ Call(t, s, "probe", [NoCall EXCEPT !.op = "munlock", !.s = s, !.n = 1,
                                        !.key = key, !.type = "mutex"])

\* mrapi_impl_mutex_unlock: the last key of a recursive lock undoes it; with
\* other keys outstanding the call is refused (LOCKORDER); at the end the lock
\* is released
MutexUnlock(t) ==
  LET s == call[t].s
      undo == S(t).holder[0] = t /\ call[t].key = S(t).lock_key /\ call[t].key # 0 IN
  /\ pc[t] = "munlock"
  /\ Leave(t)
  /\ \/ /\ undo
        /\ sems' = [sems EXCEPT ![s].lock_key = @ - 1]
        /\ keys' = [keys EXCEPT ![t][s] = @ \ {call[t].key}]
        /\ pc' = [pc EXCEPT ![t] = "idle"] /\ End(t)
     \/ /\ ~undo /\ S(t).lock_key # 0
        /\ pc' = [pc EXCEPT ![t] = "idle"] /\ End(t)
        /\ UNCHANGED <<sems, keys>>
     \/ /\ ~undo /\ S(t).lock_key = 0
        /\ call' = [call EXCEPT ![t].op = "unlock"]
        /\ pc' = [pc EXCEPT ![t] = "probe"]
        /\ UNCHANGED <<sems, keys>>
  /\ UNCHANGED <<global, nodeVars, held, out, born, known, stray>>

-----------------------------------------------------------------------------
(* Creating, finding and deleting locks; nodes.                            *)

CallDelete(t, s) == Call(t, s, "probe", [NoCall EXCEPT !.op = "delete", !.s = s])

\* (mutant: the deleted entry is not protected from being used again)
DeleteUnmarked(t) ==
  LET s == call[t].s
      mine == {l \in Locked(s) : sems[s].holder[l] \in {t, Anon}} IN
  /\ Goto(t, "delete", "idle")
  /\ Leave(t) /\ End(t)
  /\ IF mine = Limit(s) /\ sems[s].valid
     THEN /\ sems' = [sems EXCEPT ![s].valid = FALSE]
          /\ held' = [held EXCEPT ![t][s] = 0]
          /\ keys' = [keys EXCEPT ![t][s] = {}]
     ELSE UNCHANGED <<sems, held, keys>>
  /\ UNCHANGED <<global, nodeVars, out, born, known, stray>>

\* mrapi_impl_sem_delete: the caller must have all the locks of the entry, which
\* stay locked; with extended error checking, which is off until the creator
\* has stored the attributes, the entry is never used again
Delete(t) ==
  LET s == call[t].s
      mine == {l \in Locked(s) : sems[s].holder[l] \in {t, Anon}} IN
  /\ Goto(t, "delete", "idle")
  /\ Leave(t) /\ End(t)
  /\ IF mine = Limit(s) /\ sems[s].valid
     THEN /\ sems' = [sems EXCEPT ![s] = [@ EXCEPT !.valid = FALSE, !.deleted = ExtError /\ sems[s].attrs]]
          /\ held' = [held EXCEPT ![t][s] = 0]
          /\ keys' = [keys EXCEPT ![t][s] = {}]
     ELSE UNCHANGED <<sems, held, keys>>
  /\ UNCHANGED <<global, nodeVars, out, born, known, stray>>

\* mrapi_{mutex,sem,rwl}_create take the global semaphore
CallCreate(t, key, type, locks) ==
  /\ Goto(t, "idle", "create") /\ alive[t]
  /\ Cardinality({x \in Sems \X (1 .. MaxCreates) : x[2] <= born[x[1]]}) < MaxCreates
  /\ locks # 0 => type = "sem"
  /\ global = NoNode /\ global' = t
  /\ call' = [call EXCEPT ![t] = [NoCall EXCEPT !.op = "create", !.key = key, !.type = type,
                                                !.n = locks]]
  /\ UNCHANGED <<sems, guard, nodeVars, histVars>>

\* mrapi_impl_create_lock_locked: nothing if the key is in use or the table is
\* full; the first free entry is wiped, and found by its key from then on. (The
\* type is stored later, but the library reads it only to choose a status: here
\* it is what the application knows of the lock.)
CreateSearch(t) ==
  LET exists == \E s \in Sems : sems[s].valid /\ sems[s].key = call[t].key
      free   == {s \in Sems : ~sems[s].valid /\ ~sems[s].deleted} IN
  /\ pc[t] = "create"
  /\ IF exists \/ free = {}
     THEN /\ pc' = [pc EXCEPT ![t] = "idle"] /\ End(t)
          /\ global' = NoNode
          /\ UNCHANGED <<sems, histVars>>
     ELSE \E s \in free :
          /\ \A r \in free : s <= r
          /\ sems' = [sems EXCEPT ![s] = [Wiped EXCEPT !.key = call[t].key, !.type = call[t].type]]
          /\ call' = [call EXCEPT ![t].s = s]
          /\ pc' = [pc EXCEPT ![t] = "log"]
          /\ born' = [born EXCEPT ![s] = @ + 1]
          /\ held' = [u \in Nodes |-> [held[u] EXCEPT ![s] = 0]]
          /\ keys' = [u \in Nodes |-> [keys[u] EXCEPT ![s] = {}]]
          /\ out' = [out EXCEPT ![s] = call[t].n]
          /\ UNCHANGED <<global, known, stray>>
  /\ UNCHANGED <<guard, nodeVars>>

\* The creator goes on without the guard of the entry. It is logged as a user,
\* and reads the count of users,
CreateLog(t) ==
  /\ Goto(t, "log", "valid")
  /\ users' = [users EXCEPT ![t] = @ \cup {call[t].s}]
  /\ call' = [call EXCEPT ![t].tmp = S(t).refs]
  /\ UNCHANGED <<sems, guardVars, alive, histVars>>

\* which it writes before it makes the entry valid: calls can be made on it now
CreateValid(t) ==
  /\ Goto(t, "valid", "limit")
  /\ sems' = [sems EXCEPT ![call[t].s] = [@ EXCEPT !.refs = call[t].tmp + 1, !.valid = TRUE]]
  /\ UNCHANGED <<guardVars, nodeVars, call, histVars>>

\* the shared_lock_limit that the creator asks for
NewLimit(t) == IF call[t].type = "mutex" THEN 1 ELSE MaxShared

CreateLimit(t) ==
  /\ Goto(t, "limit", "make")
  /\ sems' = [sems EXCEPT ![call[t].s].limit = NewLimit(t)]
  /\ UNCHANGED <<guardVars, nodeVars, call, histVars>>

\* its loop makes the locks valid one by one
CreateMake(t) ==
  /\ pc[t] = "make" /\ call[t].l < NewLimit(t)
  /\ sems' = [sems EXCEPT ![call[t].s].lvalid[call[t].l] = TRUE]
  /\ IF call[t].l < call[t].n
     THEN pc' = [pc EXCEPT ![t] = "fill"] /\ call' = call
     ELSE pc' = pc /\ call' = [call EXCEPT ![t].l = @ + 1]
  /\ UNCHANGED <<guardVars, nodeVars, histVars>>

\* and locks the first num_locks of them,
CreateFill(t) ==
  /\ Goto(t, "fill", "hold")
  /\ sems' = [sems EXCEPT ![call[t].s].locked[call[t].l] = TRUE]
  /\ UNCHANGED <<guardVars, nodeVars, call, histVars>>

\* for an anonymous owner,
CreateHold(t) ==
  /\ Goto(t, "hold", "count")
  /\ sems' = [sems EXCEPT ![call[t].s].holder[call[t].l] = Anon]
  /\ call' = [call EXCEPT ![t].tmp = S(t).num_locks]
  /\ UNCHANGED <<guardVars, nodeVars, histVars>>

\* and counts them
CreateCount(t) ==
  /\ Goto(t, "count", "make")
  /\ sems' = [sems EXCEPT ![call[t].s].num_locks = call[t].tmp + 1]
  /\ call' = [call EXCEPT ![t].l = @ + 1]
  /\ UNCHANGED <<guardVars, nodeVars, histVars>>

CreateSetup(t) ==
  \/ CreateLog(t) \/ CreateValid(t) \/ CreateLimit(t) \/ CreateMake(t) \/ CreateFill(t)
  \/ CreateHold(t) \/ CreateCount(t)

\* (mutant: the creator writes the count as it was asked for, over that of the
\* locks taken meanwhile)
CreateEndCounts(t) ==
  LET s == call[t].s IN
  /\ Goto(t, "make", "idle") /\ End(t)
  /\ call[t].l >= NewLimit(t)
  /\ sems' = [sems EXCEPT ![s] = [@ EXCEPT !.attrs = TRUE, !.num_locks = call[t].n]]
  /\ global' = NoNode
  /\ known' = [known EXCEPT ![t][s] = born[s]]
  /\ UNCHANGED <<guard, nodeVars, keys, held, out, born, stray>>

\* The attributes are stored, and mrapi_impl_{sem,mutex,rwl}_create returns.
CreateEnd(t) ==
  LET s == call[t].s IN
  /\ Goto(t, "make", "idle") /\ End(t)
  /\ call[t].l >= NewLimit(t)
  /\ sems' = [sems EXCEPT ![s].attrs = TRUE]
  /\ global' = NoNode
  /\ known' = [known EXCEPT ![t][s] = born[s]]
  /\ UNCHANGED <<guard, nodeVars, keys, held, out, born, stray>>

\* mrapi_impl_sem_get finds the first entry with the key, valid or not, and
\* logs the node as one of its users
Get(t, key) ==
  \E s \in Sems :
    /\ pc[t] = "idle" /\ alive[t]
    /\ sems[s].key = key /\ \A r \in Sems : sems[r].key = key => s <= r
    /\ sems' = IF s \in users[t] THEN sems ELSE [sems EXCEPT ![s].refs = @ + 1]
    /\ users' = [users EXCEPT ![t] = @ \cup {s}]
    /\ known' = [known EXCEPT ![t][s] = born[s]]
    /\ UNCHANGED <<guardVars, alive, pc, call, keys, held, out, born, stray>>

\* mrapi_impl_finalize_node_locked, by a node that has no locks: it wipes the
\* node, whose flags it then looks at to count down the users of the locks
Finalize(t) ==
  /\ \A s \in Sems : sems[s].refs < MaxRefs
  /\ pc[t] = "idle" /\ alive[t] /\ global = NoNode
  /\ \A s \in Sems : sems[s].valid => Own(t, s) = {}
  /\ alive' = [alive EXCEPT ![t] = FALSE]
  /\ users' = [users EXCEPT ![t] = {}]
  /\ known' = [known EXCEPT ![t] = [s \in Sems |-> 0]]
  /\ UNCHANGED <<sems, guardVars, pc, call, keys, held, out, born, stray>>

\* a node takes the place in the table again
Initialize(t) ==
  /\ ~alive[t] /\ alive' = [alive EXCEPT ![t] = TRUE]
  /\ UNCHANGED <<sems, guardVars, users, pc, call, histVars>>

-----------------------------------------------------------------------------
\* the steps of a node inside a call
Inside(t) ==
  \/ LockTest(t) \/ LockScan(t) \/ LockTake(t) \/ LockReturn(t)
  \/ Yield(t) \/ NextSem(t) \/ Revert(t) \/ UnlockTest(t) \/ UnlockClear(t) \/ UnlockReturn(t)
  \/ MutexLock(t) \/ MutexUnlock(t) \/ Delete(t) \/ CreateSearch(t) \/ CreateSetup(t)
  \/ CreateEnd(t) \/ Return(t)

\* the steps that wait for a guard
Waiting(t) ==
  \/ Probe(t) \/ Enter(t) \/ WriterLimit(t) \/ EnterMultiple(t) \/ Again(t)
  \/ AgainMultiple(t)

Keys == 1 .. MaxSems

\* the calls of the application
Calling(t) ==
  \/ \E s \in Sems, timeout \in Timeouts : CallLock(t, s, timeout) \/ CallMutexLock(t, s, timeout)
  \/ \E s \in Sems, timeout \in Timeouts : CallWriter(t, s, "lock", timeout)
  \/ \E s \in Sems : CallWriter(t, s, "unlock", 1) \/ CallUnlock(t, s, "unlock")
  \/ \E s \in Sems : Posts /\ CallUnlock(t, s, "post")
  \/ \E s \in Sems, key \in 0 .. MaxDepth : CallMutexUnlock(t, s, key)
  \/ \E s \in Sems : Deletes /\ CallDelete(t, s)
  \/ \E wait \in Waits, timeout \in Timeouts : CallMultiple(t, wait, timeout)
  \/ \E key \in Keys, type \in Types, locks \in 0 .. MaxShared - 1 : CallCreate(t, key, type, locks)
  \/ \E key \in Keys : Get(t, key)

Next == \E t \in Nodes : Calling(t) \/ Inside(t) \/ Waiting(t) \/ Finalize(t) \/ Initialize(t)

Spec == Init /\ [][Next]_vars

\* A node inside a call keeps running, and one that waits for a guard that is
\* free again and again gets it: whoever fails to lock yields the processor
\* between giving the guard up and taking it again.
FairSpec == Spec /\ \A t \in Nodes : WF_vars(Inside(t)) /\ SF_vars(Waiting(t))

-----------------------------------------------------------------------------
(* Properties.                                                             *)

\* Every variable keeps its range.
TypeOK ==
  /\ sems \in [Sems -> [valid : BOOLEAN, deleted : BOOLEAN, key : 0 .. MaxSems,
                        type : {"mutex", "sem", "rwl"}, limit : 0 .. MaxShared,
                        lvalid : [Indices -> BOOLEAN], locked : [Indices -> BOOLEAN],
                        holder : [Indices -> Nodes \cup {Anon}],
                        num_locks : 0 .. MaxShared, lock_key : 0 .. MaxDepth,
                        refs : 0 .. MaxRefs + 2 * NNodes, attrs : BOOLEAN]]
  /\ guard \in [Sems -> [{"sem", "spin"} -> Nodes \cup {NoNode}]]
  /\ global \in Nodes \cup {NoNode}
  /\ users \in [Nodes -> SUBSET Sems] /\ alive \in [Nodes -> BOOLEAN]
  /\ \A t \in Nodes : call[t].s \in Sems /\ call[t].guard \in {"sem", "spin"}
  /\ held \in [Nodes -> [Sems -> 0 .. MaxShared]]
  /\ out \in [Sems -> 0 .. MaxShared]

\* A node is in the guarded section of an entry.
In(t, s) ==
  /\ pc[t] \in {"lock", "scan", "take", "granted", "failed", "unlock", "post", "clear",
                "released", "mlock", "munlock", "delete", "refused", "revert"}
  /\ call[t].s = s \/ call[t].wait # "one"

\* No two calls that use a lock work on its entry at once, not even while its
\* creator is still writing it. The creator itself is not one of these calls: it
\* holds the global guard and none of the entry.
Exclusive == \A s \in Sems : \A t, u \in Nodes : In(t, s) /\ In(u, s) => t = u

Quiet(s) == \A t \in Nodes : ~In(t, s)

\* A lock that has been created and not deleted.
Created(s) == sems[s].valid /\ sems[s].attrs

\* When no call is at work on a lock that has been created, its count says how
\* many of its locks are locked, and as many were granted and not yet released:
\* never more than the limit, whatever calls failed, timed out or were refused
\* on the way, if no call met the entry half created.
\* And the loop that unlocks finds as many locks as were counted before it,
\* which mrapi_impl_release_lock asserts.
CountIsExact ==
  /\ \A s \in Sems : Created(s) /\ Quiet(s) =>
       /\ sems[s].num_locks = Cardinality(Locked(s))
       /\ sems[s].num_locks = out[s]
       /\ out[s] <= sems[s].limit
  /\ \A t \in Nodes : pc[t] # "abort"

\* The locks that the table gives to a node are those the node was told it has:
\* a mutex is its own from the first of its keys to the last, a reader's lock
\* from lock to unlock, if no call met the entry half created. A post takes a
\* semaphore's locks from anybody.
HolderIsTold ==
  \A s \in Sems : Created(s) /\ Quiet(s) /\ sems[s].type # "sem" =>
    \A t \in Nodes :
      /\ Cardinality(Own(t, s)) = held[t][s]
      /\ sems[s].type = "mutex" => (held[t][s] > 0 <=> keys[t][s] # {})

\* A lock is granted on the lock that was asked for, not on one that was
\* created in its place while the call waited.
GrantedAsAsked == ~stray

\* A call with a timeout returns.
TimedCallReturns ==
  \A t \in Nodes : (pc[t] # "idle" /\ call[t].timeout # Infinite) ~> (pc[t] \in {"idle", "abort"})

\* A lock whose users have all finalized is gone.
FreedByLastUser ==
  \A s \in Sems : sems[s].valid => \E t \in Nodes : s \in users[t]
=============================================================================
