-------------------------- MODULE RequestPoolProofs --------------------------
(***************************************************************************)
(* The safety of the pool of requests for any number of threads and        *)
(* requests.  BitAndStateGuard, with the types, is inductive; that no      *)
(* request is shared, that the assert of mcapi_trans_remove_request holds  *)
(* and that a reserve is refused only when all requests are in use follow  *)
(* from it.                                                                *)
(***************************************************************************)
EXTENDS RequestPool, FiniteSetTheorems, TLAPS

PCs == {"idle", "get", "set", "claim", "count", "clear", "dec", "free", "abort"}
States == {"FREE", "VALID", "COMPLETED", "CANCELLED"}

\* the types, but for the bounds of the counter, which CounterExact gives
Types ==
  /\ set \subseteq Requests
  /\ curr_count \in Int
  /\ state \in [Requests -> States]
  /\ owned \in [Threads -> SUBSET Requests]
  /\ pc \in [Threads -> PCs]
  /\ r \in [Threads -> Requests]
  /\ limited \in [Threads -> BOOLEAN]

IInv == Types /\ BitAndStateGuard /\ NoAssertFails /\ LimitIsReal

-----------------------------------------------------------------------------
(* The counter.                                                            *)

\* A counter that counts the requests in use reaches Cardinality(Requests)
\* only when they all are.
LEMMA FullIsFull ==
  ASSUME Types, CounterExact
  PROVE  /\ curr_count \in 0 .. Cardinality(Requests)
         /\ curr_count >= max_count => \A x \in Requests : InUse(x)
<1>1. IsFiniteSet(Counted) /\ Cardinality(Counted) <= Cardinality(Requests)
      /\ (Cardinality(Requests) = Cardinality(Counted) => Requests = Counted)
  <2>1. Counted \in SUBSET Requests
    BY DEF Counted
  <2> QED BY <2>1, FS_Subset, PoolAssumption
<1>2. Cardinality(Counted) \in Nat /\ Cardinality(Requests) \in Nat
  BY <1>1, FS_CardinalityType, PoolAssumption
<1>3. curr_count \in 0 .. Cardinality(Requests)
  BY <1>1, <1>2 DEF CounterExact
<1>4. ASSUME curr_count >= max_count PROVE \A x \in Requests : InUse(x)
  <2>1. Requests = Counted
    BY <1>1, <1>2, <1>4 DEF CounterExact, max_count
  <2> QED BY <2>1 DEF Counted, InUse, Holds
<1> QED BY <1>3, <1>4

\* Adding a request to those counted, or taking one away.
LEMMA CountedChanges ==
  ASSUME NEW x \in Requests
  PROVE  /\ x \notin Counted => Cardinality(Counted \cup {x}) = Cardinality(Counted) + 1
         /\ x \in Counted => Cardinality(Counted \ {x}) = Cardinality(Counted) - 1
<1>1. Counted \in SUBSET Requests
  BY DEF Counted
<1>2. IsFiniteSet(Counted)
  BY <1>1, FS_Subset, PoolAssumption
<1> QED BY <1>2, FS_AddElement, FS_RemoveElement

-----------------------------------------------------------------------------
(* Preservation, one lemma for each part of the invariant that several     *)
(* actions disturb.                                                        *)

\* The types.
LEMMA KeepsTypes ==
  ASSUME IInv, NEW t \in Threads, Reserve(t) \/ CallStep(t)
           \/ \E x \in Requests : Complete(t, x) \/ Cancel(t, x) \/ Test(t, x)
  PROVE  Types'
<1> USE DEF IInv, Types, Goto, PCs, States
<1>1. CASE Reserve(t)      BY <1>1 DEF Reserve
<1>2. CASE GetIndex(t)     BY <1>2 DEF GetIndex
<1>3. ASSUME NEW x \in Requests, SetBit(t, x) PROVE Types'
  BY <1>3 DEF SetBit
<1>4. CASE Claim(t)        BY <1>4 DEF Claim
<1>5. CASE Count(t)        BY <1>5 DEF Count
<1>6. CASE ReleaseIndex(t) BY <1>6 DEF ReleaseIndex
<1>7. CASE Uncount(t)      BY <1>7 DEF Uncount
<1>8. CASE MarkFree(t)     BY <1>8 DEF MarkFree
<1>9. ASSUME NEW x \in Requests, Complete(t, x) \/ Cancel(t, x) \/ Test(t, x) PROVE Types'
  BY <1>9 DEF Complete, Cancel, Test
<1> QED BY <1>1, <1>2, <1>3, <1>4, <1>5, <1>6, <1>7, <1>8, <1>9 DEF CallStep

\* The bit: only a thread that finds it clear sets it, and only the thread that
\* answers for it clears it.
LEMMA KeepsBit ==
  ASSUME IInv, NEW t \in Threads, Reserve(t) \/ CallStep(t)
           \/ \E x \in Requests : Complete(t, x) \/ Cancel(t, x) \/ Test(t, x)
  PROVE  BitIsGuard'
<1> USE DEF IInv, Types, BitAndStateGuard, BitIsGuard, Guards, Goto, PCs
<1>1. CASE Reserve(t)      BY <1>1 DEF Reserve
<1>2. CASE GetIndex(t)     BY <1>2 DEF GetIndex
<1>3. ASSUME NEW x \in Requests, SetBit(t, x) PROVE BitIsGuard'
  BY <1>3 DEF SetBit
<1>4. CASE Claim(t)        BY <1>4 DEF Claim
<1>5. CASE Count(t)        BY <1>5 DEF Count
<1>6. CASE ReleaseIndex(t) BY <1>6 DEF ReleaseIndex, CallsAgree
<1>7. CASE Uncount(t)      BY <1>7 DEF Uncount
<1>8. CASE MarkFree(t)     BY <1>8 DEF MarkFree
<1>9. ASSUME NEW x \in Requests, Complete(t, x) \/ Cancel(t, x) \/ Test(t, x)
      PROVE  BitIsGuard'
  BY <1>9 DEF Complete, Cancel, Test
<1> QED BY <1>1, <1>2, <1>3, <1>4, <1>5, <1>6, <1>7, <1>8, <1>9 DEF CallStep

\* The state: a request is claimed only when it is free, hence in nobody's use,
\* and made free only by the thread that removes it.
LEMMA KeepsState ==
  ASSUME IInv, NEW t \in Threads, Reserve(t) \/ CallStep(t)
           \/ \E x \in Requests : Complete(t, x) \/ Cancel(t, x) \/ Test(t, x)
  PROVE  StateIsGuard'
<1> USE DEF IInv, Types, BitAndStateGuard, StateIsGuard, CallsAgree, Holds, Goto, PCs, States
<1>1. CASE Reserve(t)      BY <1>1 DEF Reserve
<1>2. CASE GetIndex(t)     BY <1>2 DEF GetIndex
<1>3. ASSUME NEW x \in Requests, SetBit(t, x) PROVE StateIsGuard'
  BY <1>3 DEF SetBit
<1>4. CASE Claim(t)        BY <1>4 DEF Claim
<1>5. CASE Count(t)        BY <1>5 DEF Count
<1>6. CASE ReleaseIndex(t) BY <1>6 DEF ReleaseIndex
<1>7. CASE Uncount(t)      BY <1>7 DEF Uncount
<1>8. CASE MarkFree(t)     BY <1>8 DEF MarkFree
<1>9. ASSUME NEW x \in Requests, Complete(t, x) \/ Cancel(t, x) \/ Test(t, x)
      PROVE  StateIsGuard'
  BY <1>9 DEF Complete, Cancel, Test
<1> QED BY <1>1, <1>2, <1>3, <1>4, <1>5, <1>6, <1>7, <1>8, <1>9 DEF CallStep

\* The calls: the request a thread works on is nobody else's, so no other
\* thread changes its state.
LEMMA KeepsCalls ==
  ASSUME IInv, NEW t \in Threads, Reserve(t) \/ CallStep(t)
           \/ \E x \in Requests : Complete(t, x) \/ Cancel(t, x) \/ Test(t, x)
  PROVE  CallsAgree' /\ NoAssertFails'
<1> USE DEF IInv, Types, BitAndStateGuard, CallsAgree, NoAssertFails, Goto, PCs, States
<1>1. CASE Reserve(t)      BY <1>1 DEF Reserve
<1>2. CASE GetIndex(t)     BY <1>2 DEF GetIndex
<1>3. ASSUME NEW x \in Requests, SetBit(t, x) PROVE CallsAgree' /\ NoAssertFails'
  BY <1>3 DEF SetBit, BitIsGuard, Guards
<1>4. CASE Claim(t)        BY <1>4 DEF Claim
<1>5. CASE Count(t)        BY <1>5 DEF Count
<1>6. CASE ReleaseIndex(t) BY <1>6 DEF ReleaseIndex
<1>7. CASE Uncount(t)      BY <1>7 DEF Uncount
<1>8. CASE MarkFree(t)     BY <1>8 DEF MarkFree, StateIsGuard, Holds
<1>9. ASSUME NEW x \in Requests, Complete(t, x) \/ Cancel(t, x) \/ Test(t, x)
      PROVE  CallsAgree' /\ NoAssertFails'
  BY <1>9 DEF Complete, Cancel, Test, StateIsGuard, Holds
<1> QED BY <1>1, <1>2, <1>3, <1>4, <1>5, <1>6, <1>7, <1>8, <1>9 DEF CallStep

\* The counter: it moves when the set it counts gains or loses its one request.
LEMMA KeepsCounter ==
  ASSUME IInv, NEW t \in Threads, Reserve(t) \/ CallStep(t)
           \/ \E x \in Requests : Complete(t, x) \/ Cancel(t, x) \/ Test(t, x)
  PROVE  CounterExact'
<1> USE DEF IInv, Types, BitAndStateGuard, CounterExact, Goto, PCs
<1>1. CASE Count(t)
  <2>1. r[t] \notin Counted
    BY <1>1 DEF Count, Counted, StateIsGuard, Holds, CallsAgree
  <2>2. Counted' = Counted \cup {r[t]}
    BY <1>1 DEF Count, Counted
  <2> QED BY <1>1, <2>1, <2>2, CountedChanges DEF Count
<1>2. CASE Uncount(t)
  <2>1. r[t] \in Counted
    BY <1>2 DEF Uncount, Counted
  <2>2. Counted' = Counted \ {r[t]}
    BY <1>2 DEF Uncount, Counted, StateIsGuard, Holds, CallsAgree
  <2> QED BY <1>2, <2>1, <2>2, CountedChanges DEF Uncount
<1>3. CASE ReleaseIndex(t)
  <2>1. r[t] \in set
    BY <1>3 DEF ReleaseIndex, BitIsGuard, Guards
  <2>2. Counted' = Counted
    BY <1>3, <2>1 DEF ReleaseIndex, Counted
  <2> QED BY <1>3, <2>2 DEF ReleaseIndex
<1>4. ASSUME NEW x \in Requests, SetBit(t, x) \/ Complete(t, x) \/ Cancel(t, x)
      PROVE  CounterExact'
  <2>1. Counted' = Counted
    BY <1>4 DEF SetBit, Complete, Cancel, Counted
  <2> QED BY <1>4, <2>1 DEF SetBit, Complete, Cancel
<1>5. ASSUME NEW x \in Requests, Test(t, x) PROVE CounterExact'
  <2>1. Counted' = Counted
    BY <1>5 DEF Test, Counted
  <2> QED BY <1>5, <2>1 DEF Test
<1>6. CASE Reserve(t) \/ GetIndex(t) \/ Claim(t) \/ MarkFree(t)
  <2>1. Counted' = Counted
    BY <1>6 DEF Reserve, GetIndex, Claim, MarkFree, Counted
  <2> QED BY <1>6, <2>1 DEF Reserve, GetIndex, Claim, MarkFree
<1> QED BY <1>1, <1>2, <1>3, <1>4, <1>5, <1>6 DEF CallStep

\* A refusal is recorded only by GetIndex, when the counter is at its limit.
LEMMA KeepsLimit ==
  ASSUME IInv, NEW t \in Threads, Reserve(t) \/ CallStep(t)
           \/ \E x \in Requests : Complete(t, x) \/ Cancel(t, x) \/ Test(t, x)
  PROVE  LimitIsReal'
<1> USE DEF IInv, Types, LimitIsReal
<1>1. CASE GetIndex(t)
  <2>1. ~(curr_count >= max_count /\ \E x \in Requests : ~InUse(x))
    BY FullIsFull DEF BitAndStateGuard
  <2> QED BY <1>1, <2>1 DEF GetIndex
<1>2. CASE Reserve(t)
  BY <1>2 DEF Reserve
<1>3. CASE ~GetIndex(t) /\ ~Reserve(t)
  <2>1. UNCHANGED limited
    BY <1>3 DEF CallStep, SetBit, Claim, Count, ReleaseIndex, Uncount, MarkFree, Complete,
       Cancel, Test
  <2> QED BY <2>1
<1> QED BY <1>1, <1>2, <1>3

-----------------------------------------------------------------------------
(* The theorems.                                                           *)

\* The invariant holds at the start and is kept by every step.
LEMMA Inductive == Spec => []IInv
<1>1. Init => IInv
  <2> SUFFICES ASSUME Init PROVE IInv
    OBVIOUS
  <2>1. Types /\ NoAssertFails /\ LimitIsReal
    BY DEF Init, Types, NoAssertFails, LimitIsReal, PCs, States
  <2>2. BitIsGuard /\ StateIsGuard /\ CallsAgree
    BY DEF Init, BitIsGuard, StateIsGuard, CallsAgree, Guards, Holds
  <2>3. Counted = {}
    BY DEF Init, Counted
  <2>4. CounterExact
    BY <2>3, FS_EmptySet DEF Init, CounterExact
  <2> QED BY <2>1, <2>2, <2>4 DEF IInv, BitAndStateGuard
<1>2. IInv /\ [Next]_vars => IInv'
  <2> SUFFICES ASSUME IInv, [Next]_vars PROVE IInv'
    OBVIOUS
  <2>1. CASE Next
    <3>1. PICK t \in Threads : Reserve(t) \/ CallStep(t)
                 \/ \E x \in Requests : Complete(t, x) \/ Cancel(t, x) \/ Test(t, x)
      BY <2>1 DEF Next
    <3> QED BY <3>1, KeepsTypes, KeepsBit, KeepsState, KeepsCalls, KeepsCounter, KeepsLimit
         DEF IInv, BitAndStateGuard
  <2>2. CASE UNCHANGED vars
    BY <2>2 DEF vars, IInv, Types, BitAndStateGuard, BitIsGuard, StateIsGuard, CallsAgree,
       CounterExact, Counted, Guards, Holds, NoAssertFails, LimitIsReal
  <2> QED BY <2>1, <2>2
<1> QED BY <1>1, <1>2, PTL DEF Spec

\* The pool's types are kept: the unsigned counter curr_count never goes below
\* zero nor above MCAPI_MAX_REQUESTS.
THEOREM PoolTypeCorrect == Spec => []TypeOK
<1>1. IInv => TypeOK
  BY FullIsFull DEF IInv, BitAndStateGuard, Types, TypeOK, PCs, States
<1> QED BY <1>1, Inductive, PTL

\* The bit and the state of a request together guard it, with no lock.
THEOREM GuardCorrect == Spec => []BitAndStateGuard
<1>1. IInv => BitAndStateGuard
  BY DEF IInv
<1> QED BY <1>1, Inductive, PTL

\* However many threads reserve and remove at once, no request that a thread's
\* application has is free or in the use of another thread.
THEOREM NoRequestShared == Spec => []OwnedIsLive
<1>1. IInv => OwnedIsLive
  BY DEF IInv, Types, BitAndStateGuard, StateIsGuard, OwnedIsLive, Holds
<1> QED BY <1>1, Inductive, PTL

\* The assert of mcapi_trans_remove_request on the state of the request it
\* removes never fails.
THEOREM RemoveAssertHolds == Spec => []NoAssertFails
<1>1. IInv => NoAssertFails
  BY DEF IInv
<1> QED BY <1>1, Inductive, PTL

\* mcapi_trans_reserve_request reports that no request is available only when
\* every request is in use.
THEOREM RefusalIsReal == Spec => []LimitIsReal
<1>1. IInv => LimitIsReal
  BY DEF IInv
<1> QED BY <1>1, Inductive, PTL

=============================================================================
