---------------------------- MODULE NodeTableProofs ---------------------------
(***************************************************************************)
(* The table of nodes in the shared memory, for any threads, processes,     *)
(* numbers, domains and slots: where initialize and finalize overlap only   *)
(* as the code allows for (Phases), every node has a slot of its own in the *)
(* one memory there is, the slots that are allocated are accounted for, the *)
(* last node frees the memory and an initialize is refused for a reason.    *)
(*                                                                         *)
(* IInv is inductive under a second hypothesis, PointerNull: the node that  *)
(* creates the memory finds mcapi_db of its process null. It can fail: an   *)
(* initialize that is refused once it is attached leaves mcapi_db set. Two  *)
(* theorems discharge it, for processes of one node (ApartCorrect) and for  *)
(* a table with room for all (RoomyCorrect).                                *)
(*                                                                         *)
(* The steps are the same in every proof: a lemma says what each action     *)
(* does in the terms of the invariant (..Effect), and each part of it is    *)
(* kept by the step of a thread for the thread (..Own), by the step of      *)
(* another (..Others) and by the end of a process.                          *)
(***************************************************************************)
EXTENDS NodeTable, FiniteSetTheorems, WellFoundedInduction, TLAPS

-----------------------------------------------------------------------------
(* The inductive invariant.                                                *)

\* Initializes, and initializes and finalizes, do not overlap where the code
\* does not allow for it.
Phases == Overlap = {}

\* The compare-and-swap of mcapi_db by the node that creates the memory finds it
\* null (transport_sm_initialize_abb.c): no refused initialize has left a pointer
\* to an earlier memory there.
PointerNull == \A t \in Threads : pc[t] = "place" => Mine(t) = NoMem

WordPCs  == {"copy", "xread", "xswap"}
EarlyPCs == {"mrapi", "find", "create"}             \* nothing is known of the memory
EntryPCs == {"attach", "join"}                      \* its entry is there
HeldPCs  == {"point", "place"}                      \* it is attached
TablePCs == {"wipe", "domain", "dclaim", "scan", "read", "claim"}
SeatPCs  == WordPCs \cup {"own", "count", "start", "done"}
InitPCs  == EarlyPCs \cup EntryPCs \cup HeldPCs \cup TablePCs \cup SeatPCs
FinalPCs == WordPCs \cup {"uncount", "any", "detach", "delete", "leave", "unpoint"}
PCs == InitPCs \cup FinalPCs \cup {"idle", "dead", "others", "raise", "abort"}
CreatePCs == {"join", "place", "wipe", "dclaim"}    \* of the first node only

Is(t, op) == call[t].op = op

\* The record of a call.
Words == [num : Nat, alloc : BOOLEAN, valid : BOOLEAN, rundown : BOOLEAN]
Calls == [op : {"none", "init", "start", "final", "signal"}, d : Domains, n : Slots,
          mem : Mems \cup {NoMem}, start : BOOLEAN,
          step : {"none", "invalid", "run", "start", "free", "rundown", "signal"},
          old : Words, new : Words, last : BOOLEAN, lastp : BOOLEAN]
Seats == Domains \X Slots
Owners == {<<>>} \cup (Procs \X {0, 1})

MemType ==
  /\ mem \in Mems \cup {NoMem} /\ gone \subseteq Mems
  /\ users \subseteq Threads /\ mrapi \subseteq Threads /\ refs \in Nat
  /\ db \in [Procs -> Mems \cup {NoMem}]
  /\ known \subseteq Threads /\ met \subseteq Threads
  /\ epoch \in [Procs -> {0, 1}] /\ inits \in Nat
  /\ inited \subseteq Threads /\ crashed \subseteq Procs /\ spoiled \subseteq Procs
TableType ==
  /\ dom \in [Mems -> [Domains -> BOOLEAN]]
  /\ node \in [Mems -> [Seats -> Words]]
  /\ owner \in [Mems -> [Seats -> Owners]]
  /\ count \in [Mems -> [Domains -> Nat]]
LocalType ==
  /\ place \in [Threads -> Seats]
  /\ pc \in [Threads -> PCs] /\ call \in [Threads -> Calls]
TypeInv == MemType /\ TableType /\ LocalType

\* Where a thread can be in each call.
CallAt(t) ==
  /\ Is(t, "none") => pc[t] \in {"idle", "dead"}
  /\ pc[t] = "dead" => t \notin inited
  /\ Is(t, "init") =>
       /\ pc[t] \in InitPCs /\ t \notin inited
       /\ pc[t] \in WordPCs => call[t].step \in {"invalid", "run", "start"}
       /\ pc[t] \in SeatPCs \ {"own"} => At(t) = place[t] /\ t \in known
  /\ Is(t, "start") =>
       /\ pc[t] \in WordPCs \cup {"start", "done"} /\ t \in inited
       /\ pc[t] \in WordPCs => call[t].step = "start"
       /\ At(t) = place[t]
  /\ Is(t, "final") =>
       /\ pc[t] \in FinalPCs /\ t \notin inited
       /\ call[t].step \in {"free", "rundown"}
       /\ pc[t] = "uncount" => call[t].step = "free"
       /\ pc[t] \notin WordPCs \cup {"uncount", "any"} => call[t].step = "rundown"
       /\ pc[t] \in WordPCs \cup {"uncount"} => At(t) = place[t]
  /\ Is(t, "signal") =>
       /\ pc[t] \in WordPCs \cup {"others", "detach", "raise"} /\ t \in inited
       /\ call[t].step = "signal" /\ At(t) = place[t]
       /\ Proc[t] \notin crashed
  /\ t \in inited => t \in known
  /\ t \in mrapi => t \in met
  /\ pc[t] = "dead" => Proc[t] \in crashed
  /\ pc[t] # "dead" /\ Proc[t] \in crashed => epoch[Proc[t]] = 1
  /\ Proc[t] \notin crashed => epoch[Proc[t]] = 0

CallInv == \A t \in Threads : CallAt(t)

\* What the phases exclude.
PhaseInv ==
  /\ \A t, u \in Threads : ~(Is(t, "init") /\ (Is(u, "final") \/ Is(u, "signal")))
  /\ \A t, u \in Threads : Is(t, "init") /\ Is(u, "init") /\ inited = {} => t = u
  /\ \A t \in Threads : Is(t, "init") /\ pc[t] \in CreatePCs => inited = {}
  /\ \A t, u \in Threads : Is(t, "final") /\ Is(u, "final") /\ Proc[t] = Proc[u] => t = u
  /\ \A t, u \in Threads : Is(t, "signal") /\ Is(u, "signal") => t = u

\* A thread that uses the pointer of its process.
Anchored(t) ==
  \/ t \in inited \/ Is(t, "final")
  \/ Is(t, "init") /\ pc[t] \in TablePCs \cup SeatPCs

\* A thread that MRAPI counts as a user of the memory.
Attached(t) ==
  \/ t \in inited /\ pc[t] # "raise"
  \/ Is(t, "init") /\ pc[t] \in HeldPCs \cup TablePCs \cup SeatPCs
  \/ Is(t, "final") /\ pc[t] \in WordPCs \cup {"uncount", "any", "detach"}

\* The memory of a thread is the one there is.
MemAt(t) ==
  /\ t \in inited => mem # NoMem /\ Mine(t) = mem
  /\ t \in inited /\ pc[t] # "raise" => mem \notin gone
  /\ Is(t, "init") /\ pc[t] \notin EarlyPCs => mem # NoMem /\ mem \notin gone
  /\ pc[t] \in HeldPCs => call[t].mem = mem
  /\ Is(t, "init") /\ pc[t] \in TablePCs \cup SeatPCs => Mine(t) = mem
  /\ Is(t, "final") => Mine(t) # NoMem /\ (mem # NoMem => Mine(t) = mem)
  /\ pc[t] = "create" /\ mem # NoMem => t \in users \/ mem \in gone
  /\ Attached(t) => t \in users

MemInv == \A t \in Threads : MemAt(t)

\* MRAPI counts at least the threads that are attached.
RefInv == refs >= Cardinality({t \in Threads : Attached(t)})

\* The memories made so far are 1 .. k, one initialize each.
MadeInv ==
  \E k \in 0 .. inits :
    /\ gone \cup ({mem} \ {NoMem}) = 1 .. k
    /\ mem = NoMem /\ (\E t \in Threads : Is(t, "init")) => k < inits
    /\ inits <= MaxInits

\* A thread that has a slot of the table, and its slot.
Seated(t) ==
  \/ t \in inited
  \/ Is(t, "init") /\ pc[t] \in SeatPCs
  \/ Is(t, "final") /\ pc[t] \in WordPCs /\ call[t].step = "free"
Seat(t) == IF pc[t] = "own" THEN At(t) ELSE place[t]

\* A thread whose slot nobody else may take.
Holds(t) == Seated(t) \/ Is(t, "final")

Signalled(p) == \E u \in Threads : Is(u, "signal") /\ Proc[u] = p

\* The slot of a node, the rundown flag of which is cleared.
Running(t) ==
  \/ t \in inited
  \/ Is(t, "init") /\ (pc[t] \in {"start", "done"} \/ (pc[t] \in WordPCs /\ call[t].step = "start"))

SeatAt(t) ==
  /\ Seated(t) =>
       LET w == node[Mine(t)][Seat(t)] IN
       /\ w.alloc /\ w.num = Num[t] /\ dom[Mine(t)][Seat(t)[1]]
       /\ Running(t) => ~w.rundown
  /\ Seated(t) /\ pc[t] # "own" => owner[Mine(t)][place[t]] = Pid(t)
  /\ pc[t] \in {"xread", "xswap"} =>
       /\ Seated(t) /\ ~Is(t, "final") => call[t].new.alloc /\ call[t].new.num = Num[t]
       /\ Running(t) \/ call[t].step = "run" => ~call[t].new.rundown
       /\ call[t].step = "free" => ~call[t].new.alloc
       /\ call[t].step = "rundown" => call[t].new.alloc = Word(t).alloc
  /\ pc[t] = "xswap" =>
       /\ Is(t, "init") => call[t].old = Word(t)
       /\ call[t].step = "free" => call[t].old = Word(t) \/ Signalled(Proc[t])
  /\ Is(t, "init") /\ pc[t] \in {"scan", "read", "claim"} => dom[Mine(t)][call[t].d]
  /\ Is(t, "init") /\ pc[t] = "dclaim" => \A d \in Domains : ~dom[Mine(t)][d]

SeatInv ==
  /\ \A t \in Threads : SeatAt(t)
  /\ \A t, u \in Threads :
       t # u /\ Holds(t) /\ Holds(u) /\ Mine(t) = Mine(u) => Seat(t) # Seat(u)

\* A slot that is allocated has a thread, or is of a process that a signal ended
\* or is ending.
HasThread(m, x) == \E t \in Threads : Seated(t) /\ Mine(t) = m /\ Seat(t) = x
Ended(m, x) == \E p \in crashed : owner[m][x] = <<p, 0>>
Ending(m, x) == \E u \in Threads : Is(u, "signal") /\ owner[m][x] = Pid(u)
AccInv ==
  \A m \in Mems : \A x \in Seats :
    node[m][x].alloc => HasThread(m, x) \/ Ended(m, x) \/ Ending(m, x)

\* Has the loop over the slots passed x?
Passed(t, x) == x[1] < call[t].d \/ (x[1] = call[t].d /\ x[2] < call[t].n)
LastAt(t) ==
  /\ Is(t, "final") /\ call[t].step = "free" /\ pc[t] # "any" => call[t].last /\ call[t].lastp
  /\ Is(t, "final") /\ pc[t] = "any" =>
       /\ call[t].last => \A u \in inited : ~Passed(t, place[u])
       /\ call[t].lastp => \A u \in inited : Proc[u] = Proc[t] => ~Passed(t, place[u])
  /\ Is(t, "final") /\ pc[t] # "any" /\ call[t].step = "rundown" =>
       /\ call[t].last => inited = {}
       /\ call[t].lastp => \A u \in inited : Proc[u] # Proc[t]
LastInv == \A t \in Threads : LastAt(t)

\* A thread that will delete the memory if it is the last.
Deletes(t) == Is(t, "final") /\ pc[t] \notin {"leave", "unpoint"} /\ call[t].last
FreeInv ==
  crashed = {} /\ mem # NoMem /\ mem \notin gone /\ refs # 0 =>
    \E t \in Threads :
      \/ t \in inited \/ Deletes(t)
      \/ Is(t, "init") /\ pc[t] \in HeldPCs \cup TablePCs \cup SeatPCs

\* The threads that num_nodes of a domain counts.
Counted(t) ==
  \/ t \in inited
  \/ Is(t, "init") /\ (Running(t) \/ (pc[t] \in WordPCs /\ call[t].step = "run"))
  \/ Is(t, "final") /\ (pc[t] = "uncount" \/ (pc[t] \in WordPCs /\ call[t].step = "free"))
Members(m, d) == {t \in Threads : Counted(t) /\ Mine(t) = m /\ place[t][1] = d}
CountInv ==
  \A m \in Mems : \A d \in Domains :
    /\ count[m][d] >= Cardinality(Members(m, d))
    /\ crashed = {} => count[m][d] = Cardinality(Members(m, d))

\* The slots that an initialize found allocated stay so.
ClaimAt(t) ==
  /\ Is(t, "init") /\ pc[t] \in {"read", "claim"} =>
       \A y \in Slots : y < call[t].n => node[Mine(t)][<<call[t].d, y>>].alloc
  /\ Is(t, "init") /\ pc[t] = "claim" => Word(t) = call[t].old \/ Word(t).alloc
ClaimInv == \A t \in Threads : ClaimAt(t)

\* The inductive invariant.
NodeInvariant ==
  /\ TypeInv /\ CallInv /\ PhaseInv /\ MemInv /\ RefInv /\ MadeInv
  /\ SeatInv /\ AccInv /\ LastInv /\ FreeInv /\ CountInv /\ ClaimInv

\* The second layer: a pointer is set by a thread that uses it, or left behind.
PointerInv ==
  /\ \A t \in Threads : Is(t, "final") /\ ~call[t].lastp => \E u \in inited : Proc[u] = Proc[t]
  /\ \A p \in Procs : db[p] # NoMem => p \in spoiled \/ \E t \in Threads : Proc[t] = p /\ Anchored(t)

\* A step of t that ends no process.
Step(t) ==
  \/ \E start \in BOOLEAN : CallInitialize(t, start)
  \/ CallStart(t) \/ CallFinalize(t) \/ CallSignal(t) \/ Restart(t)
  \/ InitStep(t) \/ WordStep(t) \/ FinalStep(t) \/ Others(t)

-----------------------------------------------------------------------------
(* What the lemmas keep needing.                                           *)

\* A thread that goes through the pointer of its process has one.
LEMMA PointerThere ==
  ASSUME TypeInv, CallInv, MemInv, NEW t \in Threads,
         pc[t] \in TablePCs \cup SeatPCs \cup FinalPCs \cup {"others", "raise"}
  PROVE  /\ Mine(t) # NoMem /\ Mine(t) \in Mems
         /\ pc[t] \in TablePCs \cup {"own", "count"} => Is(t, "init") /\ Mine(t) = mem
         /\ pc[t] \in {"uncount", "any", "delete", "leave", "unpoint"} => Is(t, "final")
         /\ pc[t] \in {"others", "raise"} => Is(t, "signal")
         /\ ~Is(t, "final") => Mine(t) = mem
<1>1. CallAt(t) /\ MemAt(t) /\ call[t] \in Calls /\ Proc[t] \in Procs
  BY DEF CallInv, MemInv, TypeInv, LocalType, Procs
<1>2. Mine(t) \in Mems \cup {NoMem}
  BY <1>1 DEF TypeInv, MemType, Mine
<1> QED
  BY <1>1, <1>2 DEF CallAt, MemAt, Is, Calls, WordPCs, EarlyPCs, EntryPCs, HeldPCs, TablePCs,
     SeatPCs, InitPCs, FinalPCs

\* Which call a thread is in.
LEMMA WhichCall ==
  ASSUME TypeInv, CallInv, NEW t \in Threads
  PROVE  /\ pc[t] \in EarlyPCs \cup EntryPCs \cup HeldPCs => Is(t, "init")
         /\ pc[t] \in {"idle", "dead"} => Is(t, "none")
         /\ pc[t] \in {"start", "done"} => Is(t, "init") \/ Is(t, "start")
         /\ pc[t] = "detach" => Is(t, "final") \/ Is(t, "signal")
<1>1. CallAt(t) /\ call[t] \in Calls
  BY DEF CallInv, TypeInv, LocalType
<1> QED
  BY <1>1 DEF CallAt, Is, Calls, WordPCs, EarlyPCs, EntryPCs, HeldPCs, TablePCs,
     SeatPCs, InitPCs, FinalPCs

\* MRAPI counts a thread that is attached.
LEMMA AttachedCounts ==
  ASSUME RefInv, NEW t \in Threads, Attached(t), refs \in Nat
  PROVE  refs >= 1
<1> DEFINE S == {u \in Threads : Attached(u)}
<1>1. IsFiniteSet(S) /\ Cardinality(S) \in Nat
  BY NodesAssumption, FS_Subset, FS_CardinalityType
<1>2. Cardinality(S) # 0
  BY <1>1, FS_EmptySet
<1> QED BY <1>1, <1>2 DEF RefInv

\* num_nodes is not zero while a thread is counted.
LEMMA CountedCounts ==
  ASSUME TypeInv, CountInv, NEW t \in Threads, Counted(t), Mine(t) \in Mems
  PROVE  count[Mine(t)][place[t][1]] >= 1
<1> DEFINE S == Members(Mine(t), place[t][1])
<1>1. IsFiniteSet(S) /\ Cardinality(S) \in Nat
  BY NodesAssumption, FS_Subset, FS_CardinalityType DEF Members
<1>2. t \in S
  BY DEF Members
<1>3. Cardinality(S) # 0
  BY <1>1, <1>2, FS_EmptySet
<1>4. place[t][1] \in Domains
  BY DEF TypeInv, LocalType, Seats
<1>5. count[Mine(t)][place[t][1]] >= Cardinality(S)
  BY <1>4 DEF CountInv
<1>6. count[Mine(t)][place[t][1]] \in Nat
  BY <1>4 DEF TypeInv, TableType
<1> QED BY <1>1, <1>3, <1>5, <1>6

\* The memory that a node creates is a new one.
LEMMA MadeNext ==
  ASSUME TypeInv, MadeInv, mem = NoMem, NEW t \in Threads, Is(t, "init")
  PROVE  /\ Cardinality(gone) + 1 \in Mems \ gone
         /\ \E k \in 0 .. inits : gone \cup {Cardinality(gone) + 1} = 1 .. k
         /\ inits <= MaxInits
<1>1. PICK k \in 0 .. inits : gone = 1 .. k /\ k < inits /\ inits <= MaxInits
  BY DEF MadeInv
<1>2. inits \in Nat /\ MaxInits \in Nat
  BY NodesAssumption DEF TypeInv, MemType
<1>3. Cardinality(gone) = k
  BY <1>1, <1>2, FS_Interval
<1>4. gone \cup {k + 1} = 1 .. (k + 1)
  BY <1>1, <1>2
<1> QED BY <1>1, <1>2, <1>3, <1>4 DEF Mems

\* The first of several domains is one of them.
LEMMA FirstDomain ==
  ASSUME NEW S \in SUBSET Domains, S # {}
  PROVE  (CHOOSE d \in S : \A e \in S : d <= e) \in S
<1>1. Domains \subseteq Nat
  BY NodesAssumption DEF Domains
<1>2. PICK d \in S : \A e \in S : ~(<<e, d>> \in OpToRel(<, Nat))
  BY <1>1, WFMin, NatLessThanWellFounded
<1>3. \A e \in S : d <= e
  <2> SUFFICES ASSUME NEW e \in S
               PROVE  d <= e
    OBVIOUS
  <2>1. d \in Nat /\ e \in Nat
    BY <1>1
  <2>2. ~(e < d)
    BY <1>2, <2>1 DEF OpToRel
  <2> QED BY <2>1, <2>2
<1> QED BY <1>3

\* Each change of a word gives a word.
LEMMA ChangedWord ==
  ASSUME NEW w \in Words, NEW step,
         step \in {"invalid", "run", "start", "free", "rundown", "signal"}
  PROVE  /\ Changed(step, w) \in Words
         /\ step # "free" => Changed(step, w).alloc = w.alloc /\ Changed(step, w).num = w.num
         /\ step = "free" => ~Changed(step, w).alloc
         /\ step = "run" => ~Changed(step, w).rundown
         /\ step \notin {"run", "rundown"} => Changed(step, w).rundown = w.rundown
BY DEF Changed, Words

\* A call that is over has its types.
LEMMA NothingTyped ==
  NoCall \in Calls /\ NoWord \in Words /\ 0 \in Domains /\ 0 \in Slots
BY NodesAssumption DEF NoCall, NoWord, Calls, Words, Domains, Slots, Mems, NoMem

\* One entry of a table of tables is changed.
LEMMA OneEntry ==
  ASSUME NEW D, NEW E, NEW R, NEW f \in [D -> [E -> R]], NEW m \in D, NEW x \in E, NEW w \in R
  PROVE  LET g == [f EXCEPT ![m][x] = w] IN
         /\ g \in [D -> [E -> R]] /\ g[m][x] = w
         /\ \A n \in D, y \in E : n # m \/ y # x => g[n][y] = f[n][y]
OBVIOUS

\* What the local variables of a thread stand for.
LEMMA LocalTypes ==
  ASSUME TypeInv, NEW t \in Threads
  PROVE  /\ call[t] \in Calls /\ At(t) \in Seats /\ Proc[t] \in Procs /\ Pid(t) \in Owners
         /\ Mine(t) \in Mems \cup {NoMem} /\ place[t] \in Seats
         /\ place[t] = <<place[t][1], place[t][2]>>
         /\ place[t][1] \in Domains /\ place[t][2] \in Slots
         /\ Mine(t) \in Mems => Word(t) \in Words
<1>1. call[t] \in Calls /\ Proc[t] \in Procs /\ place[t] \in Seats
  BY DEF TypeInv, LocalType, Procs
<1>2. call[t].d \in Domains /\ call[t].n \in Slots
  BY <1>1 DEF Calls
<1>3. At(t) \in Seats
  BY <1>2 DEF At, Seats
<1>4. Pid(t) \in Owners
  BY <1>1 DEF Pid, Owners, TypeInv, MemType
<1>5. Mine(t) \in Mems \cup {NoMem}
  BY <1>1 DEF Mine, TypeInv, MemType
<1>6. Mine(t) \in Mems => Word(t) \in Words
  BY <1>3 DEF Word, TypeInv, TableType
<1>7. /\ place[t] = <<place[t][1], place[t][2]>>
      /\ place[t][1] \in Domains /\ place[t][2] \in Slots
  BY <1>1 DEF Seats
<1> QED BY <1>1, <1>3, <1>4, <1>5, <1>6, <1>7

\* Every step but the end of a process keeps the types of what MRAPI has.
LEMMA MemTypeStep ==
  ASSUME NodeInvariant,
         NEW t \in Threads, Step(t)
  PROVE  MemType'
<1>1. TypeInv /\ CallInv /\ MemInv
  BY DEF NodeInvariant
<1>2. /\ call[t] \in Calls /\ At(t) \in Seats /\ Proc[t] \in Procs /\ Pid(t) \in Owners
      /\ Mine(t) \in Mems \cup {NoMem} /\ place[t] \in Seats
      /\ place[t][1] \in Domains /\ place[t][2] \in Slots
      /\ Mine(t) \in Mems => Word(t) \in Words
  BY <1>1, LocalTypes
<1>3. /\ call[t].d \in Domains /\ call[t].n \in Slots /\ call[t].mem \in Mems \cup {NoMem}
      /\ call[t].old \in Words /\ call[t].new \in Words
      /\ call[t].start \in BOOLEAN /\ call[t].last \in BOOLEAN /\ call[t].lastp \in BOOLEAN
  BY <1>2 DEF Calls
<1>4. pc[t] \in TablePCs \cup SeatPCs \cup FinalPCs \cup {"others", "raise"} =>
         Mine(t) \in Mems /\ Mine(t) # NoMem
  BY <1>1, PointerThere
<1>5. pc[t] = "detach" => refs >= 1
  <2>1. pc[t] = "detach" => Attached(t)
    BY <1>1, WhichCall DEF CallInv, CallAt, Attached, Is
  <2> QED BY <2>1, <1>1, AttachedCounts DEF TypeInv, MemType, NodeInvariant
<1>6. pc[t] = "create" /\ mem = NoMem => Cardinality(gone) + 1 \in Mems
  <2>1. pc[t] = "create" => Is(t, "init")
    BY <1>1, WhichCall DEF EarlyPCs
  <2> QED BY <2>1, <1>1, MadeNext DEF NodeInvariant
<1> USE <1>1, <1>2, <1>3, <1>5, <1>6 DEF TypeInv, MemType, memVars, tableVars, tls,
                                         histVars, Goto, Return, Refuse, Through, Attach
<1>7. ASSUME NEW start \in BOOLEAN, CallInitialize(t, start)
      PROVE  MemType'
  BY <1>7 DEF CallInitialize
<1>8. CASE CallStart(t)
  BY <1>8 DEF CallStart
<1>9. CASE CallFinalize(t)
  BY <1>9 DEF CallFinalize
<1>10. CASE CallSignal(t)
  BY <1>10 DEF CallSignal
<1>11. CASE Restart(t)
  BY <1>11 DEF Restart
<1>12. CASE MrapiInitialize(t)
  BY <1>12 DEF MrapiInitialize
<1>13. CASE Find(t)
  BY <1>13 DEF Find
<1>14. CASE AttachFound(t)
  BY <1>14 DEF AttachFound
<1>15. CASE Point(t)
  BY <1>15 DEF Point
<1>16. CASE Create(t)
  BY <1>16 DEF Create
<1>17. CASE AttachCreated(t)
  BY <1>17 DEF AttachCreated
<1>18. CASE Place(t)
  BY <1>18 DEF Place
<1>19. CASE Wipe(t)
  BY <1>19 DEF Wipe
<1>20. CASE DomainFind(t)
  BY <1>20 DEF DomainFind
<1>21. CASE DomainClaim(t)
  BY <1>21 DEF DomainClaim
<1>22. CASE Scan(t)
  BY <1>22 DEF Scan
<1>23. CASE SlotRead(t)
  BY <1>23 DEF SlotRead
<1>24. CASE SlotClaim(t)
  BY <1>24 DEF SlotClaim
<1>25. CASE Own(t)
  BY <1>25 DEF Own
<1>26. CASE Count(t)
  BY <1>26 DEF Count
<1>27. CASE StartNow(t)
  BY <1>27 DEF StartNow
<1>28. CASE Done(t)
  BY <1>28 DEF Done
<1>29. CASE Copy(t)
  BY <1>29 DEF Copy
<1>30. CASE ExchangeRead(t)
  BY <1>30 DEF ExchangeRead
<1>31. CASE Exchange(t)
  BY <1>31 DEF Exchange
<1>32. CASE Uncount(t)
  BY <1>32 DEF Uncount
<1>33. CASE Any(t)
  BY <1>33 DEF Any
<1>34. CASE Detach(t)
  BY <1>34 DEF Detach
<1>35. CASE Delete(t)
  BY <1>35 DEF Delete
<1>36. CASE Leave(t)
  BY <1>36 DEF Leave, MrapiFinalize
<1>37. CASE Unpoint(t)
  BY <1>37 DEF Unpoint
<1>38. CASE Others(t)
  BY <1>38 DEF Others
<1> HIDE DEF TypeInv, MemType, memVars, tableVars, tls, histVars, Goto, Return, Refuse,
             Through, Attach
<1> QED BY <1>7, <1>8, <1>9, <1>10, <1>11, <1>12, <1>13, <1>14, <1>15, <1>16, <1>17, <1>18,
           <1>19, <1>20, <1>21, <1>22, <1>23, <1>24, <1>25, <1>26, <1>27, <1>28, <1>29,
           <1>30, <1>31, <1>32, <1>33, <1>34, <1>35, <1>36, <1>37, <1>38
        DEF Step, InitStep, WordStep, FinalStep

\* Every step but the end of a process keeps the types of the table.
LEMMA TableTypeStep ==
  ASSUME NodeInvariant,
         NEW t \in Threads, Step(t)
  PROVE  TableType'
<1>1. TypeInv /\ CallInv /\ MemInv
  BY DEF NodeInvariant
<1>2. /\ call[t] \in Calls /\ At(t) \in Seats /\ Proc[t] \in Procs /\ Pid(t) \in Owners
      /\ Mine(t) \in Mems \cup {NoMem} /\ place[t] \in Seats
      /\ place[t][1] \in Domains /\ place[t][2] \in Slots
      /\ Mine(t) \in Mems => Word(t) \in Words
  BY <1>1, LocalTypes
<1>3. /\ call[t].d \in Domains /\ call[t].n \in Slots /\ call[t].mem \in Mems \cup {NoMem}
      /\ call[t].old \in Words /\ call[t].new \in Words
      /\ call[t].start \in BOOLEAN /\ call[t].last \in BOOLEAN /\ call[t].lastp \in BOOLEAN
  BY <1>2 DEF Calls
<1>4. pc[t] \in TablePCs \cup SeatPCs \cup FinalPCs \cup {"others", "raise"} =>
         Mine(t) \in Mems /\ Mine(t) # NoMem
  BY <1>1, PointerThere
<1>5. pc[t] = "uncount" => count[Mine(t)][call[t].d] >= 1 /\ count[Mine(t)][call[t].d] \in Nat
  <2>1. pc[t] = "uncount" => Is(t, "final") /\ At(t) = place[t]
    BY <1>1, PointerThere DEF CallInv, CallAt, FinalPCs, WordPCs
  <2>2. pc[t] = "uncount" => Counted(t)
    BY <2>1 DEF Counted
  <2>3. At(t) = place[t] => place[t][1] = call[t].d
    BY DEF At
  <2>4. pc[t] = "uncount" => count[Mine(t)][place[t][1]] >= 1
    BY <2>2, <1>1, <1>4, CountedCounts DEF FinalPCs, NodeInvariant
  <2> QED BY <2>1, <2>3, <2>4, <1>1, <1>2, <1>4 DEF TypeInv, TableType, FinalPCs
<1> USE <1>1, <1>2, <1>3, <1>4 DEF TypeInv, TableType, memVars, tableVars, tls, histVars,
                                   Goto, Return, Refuse, Through, TablePCs, SeatPCs,
                                   FinalPCs, WordPCs, Attach
<1>6. ASSUME NEW start \in BOOLEAN, CallInitialize(t, start)
      PROVE  TableType'
  BY <1>6 DEF CallInitialize
<1>7. CASE CallStart(t)
  BY <1>7 DEF CallStart
<1>8. CASE CallFinalize(t)
  BY <1>8 DEF CallFinalize
<1>9. CASE CallSignal(t)
  BY <1>9 DEF CallSignal
<1>10. CASE Restart(t)
  BY <1>10 DEF Restart
<1>11. CASE MrapiInitialize(t)
  BY <1>11 DEF MrapiInitialize
<1>12. CASE Find(t)
  BY <1>12 DEF Find
<1>13. CASE AttachFound(t)
  BY <1>13 DEF AttachFound
<1>14. CASE Point(t)
  BY <1>14 DEF Point
<1>15. CASE Create(t)
  BY <1>15 DEF Create
<1>16. CASE AttachCreated(t)
  BY <1>16 DEF AttachCreated
<1>17. CASE Place(t)
  BY <1>17 DEF Place
<1>18. CASE Wipe(t)
  <2> DEFINE f == [x \in Domains \X Slots |-> IF x[1] = call[t].d THEN NoWord ELSE node[Mine(t)][x]]
  <2>1. /\ Mine(t) \in Mems /\ dom' = [dom EXCEPT ![Mine(t)][call[t].d] = FALSE]
        /\ node' = [node EXCEPT ![Mine(t)] = f]
    BY <1>18 DEF Wipe
  <2>2. f \in [Seats -> Words]
    BY <2>1, NothingTyped DEF Seats
  <2> HIDE DEF f
  <2>3. node' \in [Mems -> [Seats -> Words]]
    BY <2>1, <2>2
  <2>4. [dom EXCEPT ![Mine(t)][call[t].d] = FALSE] \in [Mems -> [Domains -> BOOLEAN]]
    BY <2>1, OneEntry
  <2> QED BY <1>18, <2>1, <2>3, <2>4 DEF Wipe
<1>19. CASE DomainFind(t)
  BY <1>19 DEF DomainFind
<1>20. CASE DomainClaim(t)
  <2>1. Mine(t) \in Mems /\ (dom' = dom \/ dom' = [dom EXCEPT ![Mine(t)][call[t].d] = TRUE])
    BY <1>20 DEF DomainClaim
  <2>2. [dom EXCEPT ![Mine(t)][call[t].d] = TRUE] \in [Mems -> [Domains -> BOOLEAN]]
    BY <2>1, OneEntry
  <2>3. dom' \in [Mems -> [Domains -> BOOLEAN]]
    BY <2>1, <2>2
  <2> QED BY <1>20, <2>3 DEF DomainClaim
<1>21. CASE Scan(t)
  BY <1>21 DEF Scan
<1>22. CASE SlotRead(t)
  BY <1>22 DEF SlotRead
<1>23. CASE SlotClaim(t)
  <2> DEFINE w == [call[t].old EXCEPT !.num = Num[t], !.alloc = TRUE]
  <2>1. Mine(t) \in Mems /\ (node' = node \/ node' = [node EXCEPT ![Mine(t)][At(t)] = w])
    BY <1>23 DEF SlotClaim
  <2>2. w \in Words
    BY NodesAssumption DEF Words
  <2> HIDE DEF w
  <2>3. [node EXCEPT ![Mine(t)][At(t)] = w] \in [Mems -> [Seats -> Words]]
    BY <2>1, <2>2, OneEntry
  <2>4. node' \in [Mems -> [Seats -> Words]]
    BY <2>1, <2>3
  <2> QED BY <1>23, <2>4 DEF SlotClaim
<1>24. CASE Own(t)
  <2>1. owner' = [owner EXCEPT ![Mine(t)][At(t)] = Pid(t)] /\ Mine(t) \in Mems
    BY <1>24 DEF Own
  <2>2. owner' \in [Mems -> [Seats -> Owners]]
    BY <2>1, OneEntry
  <2> QED BY <1>24, <2>2 DEF Own
<1>25. CASE Count(t)
  <2>1. count' = [count EXCEPT ![Mine(t)][call[t].d] = @ + 1] /\ Mine(t) \in Mems
    BY <1>25 DEF Count
  <2>2. count' \in [Mems -> [Domains -> Nat]]
    <3>1. count[Mine(t)][call[t].d] + 1 \in Nat
      BY <2>1
    <3> QED BY <2>1, <3>1
  <2> QED BY <1>25, <2>2 DEF Count
<1>26. CASE StartNow(t)
  BY <1>26 DEF StartNow
<1>27. CASE Done(t)
  BY <1>27 DEF Done
<1>28. CASE Copy(t)
  BY <1>28 DEF Copy
<1>29. CASE ExchangeRead(t)
  BY <1>29 DEF ExchangeRead
<1>30. CASE Exchange(t)
  <2>1. /\ Mine(t) \in Mems
        /\ (node' = node \/ node' = [node EXCEPT ![Mine(t)][At(t)] = call[t].new])
    BY <1>30 DEF Exchange
  <2>3. [node EXCEPT ![Mine(t)][At(t)] = call[t].new] \in [Mems -> [Seats -> Words]]
    BY <2>1, OneEntry
  <2>4. node' \in [Mems -> [Seats -> Words]]
    BY <2>1, <2>3
  <2> QED BY <1>30, <2>4 DEF Exchange
<1>31. CASE Uncount(t)
  <2>1. count' = [count EXCEPT ![Mine(t)][call[t].d] = @ - 1] /\ Mine(t) \in Mems
    BY <1>31 DEF Uncount
  <2>2. count' \in [Mems -> [Domains -> Nat]]
    BY <2>1, <1>5, <1>31 DEF Uncount
  <2> QED BY <1>31, <2>2 DEF Uncount
<1>32. CASE Any(t)
  BY <1>32 DEF Any
<1>33. CASE Detach(t)
  BY <1>33 DEF Detach
<1>34. CASE Delete(t)
  BY <1>34 DEF Delete
<1>35. CASE Leave(t)
  BY <1>35 DEF Leave
<1>36. CASE Unpoint(t)
  BY <1>36 DEF Unpoint
<1>37. CASE Others(t)
  <2> DEFINE f == [x \in Domains \X Slots |-> IF owner[Mine(t)][x] = Pid(t)
                     THEN [node[Mine(t)][x] EXCEPT !.valid = FALSE] ELSE node[Mine(t)][x]]
  <2>1. Mine(t) \in Mems /\ node' = [node EXCEPT ![Mine(t)] = f]
    BY <1>37 DEF Others
  <2>2. f \in [Seats -> Words]
    <3>1. ASSUME NEW w \in Words
          PROVE  [w EXCEPT !.valid = FALSE] \in Words
      BY DEF Words
    <3>2. \A x \in Seats : node[Mine(t)][x] \in Words
      BY <2>1
    <3> QED BY <3>1, <3>2 DEF Seats
  <2> HIDE DEF f
  <2>3. node' \in [Mems -> [Seats -> Words]]
    BY <2>1, <2>2
  <2> QED BY <1>37, <2>3 DEF Others
<1> HIDE DEF TypeInv, TableType, memVars, tableVars, tls, histVars, Goto, Return, Refuse,
             Through, TablePCs, SeatPCs, FinalPCs, WordPCs, Attach
<1> QED BY <1>6, <1>7, <1>8, <1>9, <1>10, <1>11, <1>12, <1>13, <1>14, <1>15, <1>16, <1>17,
           <1>18, <1>19, <1>20, <1>21, <1>22, <1>23, <1>24, <1>25, <1>26, <1>27, <1>28,
           <1>29, <1>30, <1>31, <1>32, <1>33, <1>34, <1>35, <1>36, <1>37
        DEF Step, InitStep, WordStep, FinalStep

\* Every step but the end of a process keeps the types of what is local to threads.
LEMMA LocalTypeStep ==
  ASSUME NodeInvariant,
         NEW t \in Threads, Step(t)
  PROVE  LocalType'
<1>1. TypeInv /\ CallInv /\ MemInv
  BY DEF NodeInvariant
<1>2. /\ call[t] \in Calls /\ At(t) \in Seats /\ Proc[t] \in Procs /\ Pid(t) \in Owners
      /\ Mine(t) \in Mems \cup {NoMem} /\ place[t] \in Seats
      /\ place[t][1] \in Domains /\ place[t][2] \in Slots
      /\ Mine(t) \in Mems => Word(t) \in Words
  BY <1>1, LocalTypes
<1>3. /\ call[t].d \in Domains /\ call[t].n \in Slots /\ call[t].mem \in Mems \cup {NoMem}
      /\ call[t].old \in Words /\ call[t].new \in Words
      /\ call[t].start \in BOOLEAN /\ call[t].last \in BOOLEAN /\ call[t].lastp \in BOOLEAN
  BY <1>2 DEF Calls
<1>4. pc[t] \in TablePCs \cup SeatPCs \cup FinalPCs \cup {"others", "raise"} =>
         Mine(t) \in Mems /\ Mine(t) # NoMem
  BY <1>1, PointerThere
<1>5. pc[t] \in WordPCs => call[t].step \in {"invalid", "run", "start", "free", "rundown", "signal"}
  BY <1>1, <1>2 DEF CallInv, CallAt, Is, Calls, WordPCs
<1> USE <1>1, <1>2, <1>3, <1>4, <1>5, NothingTyped DEF TypeInv, LocalType, memVars,
                                                       tableVars, tls, histVars, Goto,
                                                       Return, Refuse, Through, TablePCs,
                                                       SeatPCs, FinalPCs, WordPCs, Attach,
        PCs, InitPCs, EarlyPCs, EntryPCs, HeldPCs
<1>6. ASSUME NEW start \in BOOLEAN, CallInitialize(t, start)
      PROVE  LocalType'
  BY <1>6 DEF CallInitialize, Calls, NoCall
<1>7. CASE CallStart(t)
  BY <1>7 DEF CallStart, Calls, NoCall
<1>8. CASE CallFinalize(t)
  BY <1>8 DEF CallFinalize, Calls, NoCall
<1>9. CASE CallSignal(t)
  BY <1>9 DEF CallSignal, Calls, NoCall
<1>10. CASE Restart(t)
  BY <1>10 DEF Restart
<1>11. CASE MrapiInitialize(t)
  BY <1>11 DEF MrapiInitialize
<1>12. CASE Find(t)
  BY <1>12 DEF Find
<1>13. CASE AttachFound(t)
  <2> DEFINE c == [call EXCEPT ![t].mem = mem]
  <2>1. call' = call \/ call' = c
    BY <1>13 DEF AttachFound
  <2>2. c \in [Threads -> Calls]
    BY DEF Calls, MemType
  <2> HIDE DEF c
  <2>3. call' \in [Threads -> Calls]
    BY <2>1, <2>2
  <2>4. pc' \in [Threads -> PCs] /\ place' = place
    BY <1>13 DEF AttachFound
  <2> QED BY <2>3, <2>4
<1>14. CASE Point(t)
  BY <1>14 DEF Point
<1>15. CASE Create(t)
  BY <1>15 DEF Create
<1>16. CASE AttachCreated(t)
  <2> DEFINE c == [call EXCEPT ![t].mem = mem]
  <2>1. call' = call \/ call' = c \/ call' = [call EXCEPT ![t] = NoCall]
    BY <1>16 DEF AttachCreated
  <2>2. c \in [Threads -> Calls]
    BY DEF Calls, MemType
  <2> HIDE DEF c
  <2>3. call' \in [Threads -> Calls]
    BY <2>1, <2>2
  <2>4. pc' \in [Threads -> PCs] /\ place' = place
    BY <1>16 DEF AttachCreated
  <2> QED BY <2>3, <2>4
<1>17. CASE Place(t)
  BY <1>17 DEF Place
<1>18. CASE Wipe(t)
  <2> DEFINE c == [call EXCEPT ![t].d = call[t].d + 1]
             e == [call EXCEPT ![t].d = 0]
  <2>1. (call[t].d + 1 \in Domains /\ call' = c) \/ call' = e
    BY <1>18 DEF Wipe
  <2>2. call[t].d + 1 \in Domains => c \in [Threads -> Calls]
    BY DEF Calls
  <2>3. e \in [Threads -> Calls]
    BY DEF Calls
  <2> HIDE DEF c, e
  <2>4. call' \in [Threads -> Calls]
    BY <2>1, <2>2, <2>3
  <2>5. pc' \in [Threads -> PCs] /\ place' = place
    BY <1>18 DEF Wipe
  <2> QED BY <2>4, <2>5
<1>19. CASE DomainFind(t)
  <2> DEFINE S == {d \in Domains : dom[Mine(t)][d]}
             d0 == CHOOSE d \in S : \A e \in S : d <= e
  <2>1. S # {} => d0 \in Domains
    BY FirstDomain
  <2>2. \/ call' = call
        \/ S # {} /\ call' = [call EXCEPT ![t].d = d0]
    BY <1>19 DEF DomainFind
  <2> HIDE DEF d0, S
  <2>3. CASE call' = call
    BY <1>19, <2>3 DEF DomainFind
  <2>4. CASE S # {} /\ call' = [call EXCEPT ![t].d = d0]
    <3>1. call' \in [Threads -> Calls]
      BY <2>1, <2>4 DEF Calls
    <3> QED BY <1>19, <3>1 DEF DomainFind
  <2> QED BY <2>2, <2>3, <2>4
<1>20. CASE DomainClaim(t)
  BY <1>20 DEF DomainClaim, Calls
<1>21. CASE Scan(t)
  BY <1>21, SMTT(40) DEF Scan, Calls
<1>22. CASE SlotRead(t)
  BY <1>22, SMTT(40) DEF SlotRead, Calls
<1>23. CASE SlotClaim(t)
  <2> DEFINE c == [call EXCEPT ![t].n = @ + 1]
  <2>1. \/ call' = call
        \/ call[t].n + 1 \in Slots /\ call' = c
        \/ call' = [call EXCEPT ![t] = NoCall]
    BY <1>23 DEF SlotClaim
  <2>2. call[t].n + 1 \in Slots => c \in [Threads -> Calls]
    BY DEF Calls
  <2> HIDE DEF c
  <2>3. call' \in [Threads -> Calls]
    BY <2>1, <2>2
  <2>4. pc' \in [Threads -> PCs] /\ place' = place
    BY <1>23 DEF SlotClaim
  <2> QED BY <2>3, <2>4
<1>24. CASE Own(t)
  BY <1>24, SMTT(40) DEF Own, Calls
<1>25. CASE Count(t)
  BY <1>25 DEF Count, Calls
<1>26. CASE StartNow(t)
  BY <1>26 DEF StartNow, Calls
<1>27. CASE Done(t)
  BY <1>27 DEF Done
<1>28. CASE Copy(t)
  <2>2. Changed(call[t].step, Word(t)) \in Words
    BY <1>28, ChangedWord DEF Copy
  <2> QED BY <1>28, <2>2, SMTT(40) DEF Copy, Calls
<1>29. CASE ExchangeRead(t)
  BY <1>29 DEF ExchangeRead, Calls
<1>30. CASE Exchange(t)
  <2>2. After(t) \in PCs
    BY <1>30 DEF After, Exchange
  <2> QED BY <1>30, <2>2 DEF Exchange, Calls
<1>31. CASE Uncount(t)
  <2> DEFINE c == [call[t] EXCEPT !.d = 0, !.n = 0]
  <2>1. c \in Calls
    BY DEF Calls
  <2>2. call' = [call EXCEPT ![t] = c]
    BY <1>31 DEF Uncount
  <2> HIDE DEF c
  <2>3. call' \in [Threads -> Calls]
    BY <2>1, <2>2
  <2> QED BY <1>31, <2>3 DEF Uncount
<1>32. CASE Any(t)
  <2> DEFINE to == IF NextSlot(t)[1] \in Domains THEN NextSlot(t) ELSE place[t]
             c == [call[t] EXCEPT !.last = @ /\ ~Word(t).alloc,
                     !.lastp = @ /\ ~(Word(t).alloc /\ owner[Mine(t)][At(t)] = Pid(t)),
                     !.d = to[1], !.n = to[2], !.step = "rundown"]
  <2>1. to[1] \in Domains /\ to[2] \in Slots
    BY DEF NextSlot
  <2> HIDE DEF to
  <2>2. c \in Calls
    BY <2>1, ZenonT(60) DEF Calls
  <2> USE DEF to
  <2>3. call' = [call EXCEPT ![t] = c]
    BY <1>32 DEF Any
  <2> HIDE DEF c, to
  <2>4. call' \in [Threads -> Calls]
    BY <2>2, <2>3
  <2>5. pc' \in [Threads -> PCs] /\ place' = place
    BY <1>32 DEF Any
  <2> QED BY <2>4, <2>5
<1>33. CASE Detach(t)
  BY <1>33 DEF Detach
<1>34. CASE Delete(t)
  BY <1>34 DEF Delete
<1>35. CASE Leave(t)
  BY <1>35 DEF Leave
<1>36. CASE Unpoint(t)
  BY <1>36 DEF Unpoint
<1>37. CASE Others(t)
  BY <1>37 DEF Others
<1> HIDE DEF TypeInv, LocalType, memVars, tableVars, tls, histVars, Goto, Return, Refuse,
             Through, TablePCs, SeatPCs, FinalPCs, WordPCs, Attach,
        PCs, InitPCs, EarlyPCs, EntryPCs, HeldPCs
<1> QED BY <1>6, <1>7, <1>8, <1>9, <1>10, <1>11, <1>12, <1>13, <1>14, <1>15, <1>16, <1>17,
           <1>18, <1>19, <1>20, <1>21, <1>22, <1>23, <1>24, <1>25, <1>26, <1>27, <1>28,
           <1>29, <1>30, <1>31, <1>32, <1>33, <1>34, <1>35, <1>36, <1>37
        DEF Step, InitStep, WordStep, FinalStep

\* A step of a thread changes nothing that is local to another.
LEMMA ThreadFrame ==
  ASSUME TypeInv,
         NEW t \in Threads, Step(t)
  PROVE  /\ \A u \in Threads \ {t} :
              /\ pc'[u] = pc[u] /\ call'[u] = call[u] /\ place'[u] = place[u]
              /\ u \in inited' <=> u \in inited
              /\ u \in users' <=> u \in users
              /\ u \in known' <=> u \in known
              /\ u \in met' <=> u \in met
              /\ u \in mrapi' <=> u \in mrapi
         /\ crashed' = crashed
<1> USE DEF TypeInv, LocalType, MemType, memVars, tableVars, tls, histVars, Goto, Return,
            Refuse, Through, Attach
<1>1. ASSUME NEW start \in BOOLEAN, CallInitialize(t, start)
      PROVE  /\ \A u \in Threads \ {t} :
              /\ pc'[u] = pc[u] /\ call'[u] = call[u] /\ place'[u] = place[u]
              /\ u \in inited' <=> u \in inited
              /\ u \in users' <=> u \in users
              /\ u \in known' <=> u \in known
              /\ u \in met' <=> u \in met
              /\ u \in mrapi' <=> u \in mrapi
         /\ crashed' = crashed
  BY <1>1 DEF CallInitialize
<1>2. CASE CallStart(t)
  BY <1>2 DEF CallStart
<1>3. CASE CallFinalize(t)
  BY <1>3 DEF CallFinalize
<1>4. CASE CallSignal(t)
  BY <1>4 DEF CallSignal
<1>5. CASE Restart(t)
  BY <1>5 DEF Restart
<1>6. CASE MrapiInitialize(t)
  BY <1>6 DEF MrapiInitialize
<1>7. CASE Find(t)
  BY <1>7 DEF Find
<1>8. CASE AttachFound(t)
  BY <1>8 DEF AttachFound
<1>9. CASE Point(t)
  BY <1>9 DEF Point
<1>10. CASE Create(t)
  BY <1>10 DEF Create
<1>11. CASE AttachCreated(t)
  BY <1>11 DEF AttachCreated
<1>12. CASE Place(t)
  BY <1>12 DEF Place
<1>13. CASE Wipe(t)
  BY <1>13 DEF Wipe
<1>14. CASE DomainFind(t)
  BY <1>14 DEF DomainFind
<1>15. CASE DomainClaim(t)
  BY <1>15 DEF DomainClaim
<1>16. CASE Scan(t)
  BY <1>16 DEF Scan
<1>17. CASE SlotRead(t)
  BY <1>17 DEF SlotRead
<1>18. CASE SlotClaim(t)
  BY <1>18 DEF SlotClaim
<1>19. CASE Own(t)
  BY <1>19 DEF Own
<1>20. CASE Count(t)
  BY <1>20 DEF Count
<1>21. CASE StartNow(t)
  BY <1>21 DEF StartNow
<1>22. CASE Done(t)
  BY <1>22 DEF Done
<1>23. CASE Copy(t)
  BY <1>23 DEF Copy
<1>24. CASE ExchangeRead(t)
  BY <1>24 DEF ExchangeRead
<1>25. CASE Exchange(t)
  BY <1>25 DEF Exchange
<1>26. CASE Uncount(t)
  BY <1>26 DEF Uncount
<1>27. CASE Any(t)
  BY <1>27 DEF Any
<1>28. CASE Detach(t)
  BY <1>28 DEF Detach
<1>29. CASE Delete(t)
  BY <1>29 DEF Delete
<1>30. CASE Leave(t)
  BY <1>30 DEF Leave, MrapiFinalize
<1>31. CASE Unpoint(t)
  BY <1>31 DEF Unpoint
<1>32. CASE Others(t)
  BY <1>32 DEF Others
<1> HIDE DEF TypeInv, LocalType, MemType, memVars, tableVars, tls, histVars, Goto, Return,
             Refuse, Through, Attach
<1> QED BY <1>1, <1>2, <1>3, <1>4, <1>5, <1>6, <1>7, <1>8, <1>9, <1>10, <1>11, <1>12,
           <1>13, <1>14, <1>15, <1>16, <1>17, <1>18, <1>19, <1>20, <1>21, <1>22, <1>23,
           <1>24, <1>25, <1>26, <1>27, <1>28, <1>29, <1>30, <1>31, <1>32
        DEF Step, InitStep, WordStep, FinalStep

-----------------------------------------------------------------------------
(* What each step does, in the terms of the invariant.                     *)

\* What a step leaves alone of the local variables of a call.
SameOp(t) == call'[t].op = call[t].op /\ call'[t].start = call[t].start
SameAt(t) == call'[t].d = call[t].d /\ call'[t].n = call[t].n
SameStep(t) == call'[t].step = call[t].step
SameMem(t) == call'[t].mem = call[t].mem
SameWords(t) == call'[t].old = call[t].old /\ call'[t].new = call[t].new
SameLast(t) == call'[t].last = call[t].last /\ call'[t].lastp = call[t].lastp

\* Where a step starts from.
Ready == NodeInvariant /\ PointerNull /\ Phases

\* The local variables of a thread, and what they stand for.
Located(t) ==
  /\ call[t] \in Calls /\ At(t) \in Seats /\ Proc[t] \in Procs /\ Pid(t) \in Owners
  /\ Mine(t) \in Mems \cup {NoMem} /\ place[t] \in Seats
  /\ place[t] = <<place[t][1], place[t][2]>>
  /\ place[t][1] \in Domains /\ place[t][2] \in Slots
  /\ Mine(t) \in Mems => Word(t) \in Words
  /\ call[t].d \in Domains /\ call[t].n \in Slots /\ call[t].mem \in Mems \cup {NoMem}
  /\ call[t].old \in Words /\ call[t].new \in Words
  /\ call[t].start \in BOOLEAN /\ call[t].last \in BOOLEAN /\ call[t].lastp \in BOOLEAN
  /\ pc[t] \in TablePCs \cup SeatPCs \cup FinalPCs \cup {"others", "raise"} =>
         Mine(t) \in Mems /\ Mine(t) # NoMem
  /\ pc \in [Threads -> PCs] /\ call \in [Threads -> Calls] /\ place \in [Threads -> Seats]

\* What is known of each thread, taken out of the invariant.
LEMMA ReadyLocated ==
  ASSUME Ready, NEW t \in Threads
  PROVE  /\ Located(t) /\ CallAt(t) /\ MemAt(t) /\ SeatAt(t) /\ LastAt(t) /\ ClaimAt(t)
         /\ TypeInv /\ CallInv /\ MemInv /\ PointerNull /\ Overlap = {}
<1>1. TypeInv /\ CallInv /\ MemInv
  BY DEF Ready, NodeInvariant
<1>2. /\ call[t] \in Calls /\ At(t) \in Seats /\ Proc[t] \in Procs /\ Pid(t) \in Owners
      /\ Mine(t) \in Mems \cup {NoMem} /\ place[t] \in Seats
      /\ place[t] = <<place[t][1], place[t][2]>>
      /\ place[t][1] \in Domains /\ place[t][2] \in Slots
      /\ Mine(t) \in Mems => Word(t) \in Words
  BY <1>1, LocalTypes
<1>3. /\ call[t].d \in Domains /\ call[t].n \in Slots /\ call[t].mem \in Mems \cup {NoMem}
      /\ call[t].old \in Words /\ call[t].new \in Words
      /\ call[t].start \in BOOLEAN /\ call[t].last \in BOOLEAN /\ call[t].lastp \in BOOLEAN
  BY <1>2 DEF Calls
<1>4. pc[t] \in TablePCs \cup SeatPCs \cup FinalPCs \cup {"others", "raise"} =>
         Mine(t) \in Mems /\ Mine(t) # NoMem
  BY <1>1, PointerThere
<1>5. CallAt(t) /\ MemAt(t) /\ SeatAt(t) /\ LastAt(t) /\ ClaimAt(t) /\ PointerNull /\ Overlap = {}
  BY <1>1 DEF CallInv, MemInv, SeatInv, LastInv, ClaimInv, Ready, NodeInvariant, Phases
<1>6. pc \in [Threads -> PCs] /\ call \in [Threads -> Calls] /\ place \in [Threads -> Seats]
  BY <1>1 DEF TypeInv, LocalType
<1> HIDE DEF Ready
<1> QED BY <1>1, <1>2, <1>3, <1>4, <1>5, <1>6 DEF Located

\* mcapi_initialize is called.
LEMMA CallInitializeEffect ==
  ASSUME Ready, NEW t \in Threads, NEW start \in BOOLEAN, CallInitialize(t, start)
  PROVE  /\ pc[t] = "idle"
         /\ UNCHANGED <<mem, gone, users, refs, mrapi, dom, node, owner, count, db,
                       known, met, place, epoch, inited, crashed, spoiled>>
         /\ ~(Mine(t) # NoMem /\ t \in known)
         /\ \A u \in Threads : ~Is(u, "final") /\ ~Is(u, "signal")
         /\ (\A u \in Threads : ~Is(u, "init")) \/ inited # {}
         /\ inits' = inits + 1 /\ inits < MaxInits
         /\ pc'[t] = "mrapi"
         /\ call'[t].op = "init" /\ call'[t].start = start /\ call'[t].d = 0 /\ call'[t].n = 0
         /\ call'[t].step = "none" /\ call'[t].mem = NoMem /\ call'[t].old = NoWord
         /\ call'[t].new = NoWord /\ call'[t].last = TRUE /\ call'[t].lastp = TRUE
<1>1. Located(t) /\ CallAt(t) /\ MemAt(t) /\ SeatAt(t) /\ PointerNull /\ Overlap = {}
  BY ReadyLocated
<1> USE <1>1, CallInitialize(t, start) DEF Located, Is, memVars, tableVars, tls, histVars,
                                           Goto, Return, Refuse, Through, TablePCs,
                                           SeatPCs, FinalPCs, WordPCs, SameOp, SameAt,
                                           SameStep, SameMem, SameWords, SameLast
<1> QED BY DEF CallInitialize, Calls, NoCall, Leaving, Initializing

\* mcapi_node_start is called.
LEMMA CallStartEffect ==
  ASSUME Ready, NEW t \in Threads, CallStart(t)
  PROVE  /\ pc[t] = "idle"
         /\ UNCHANGED <<mem, gone, users, refs, mrapi, dom, node, owner, count, db,
                       known, met, place, epoch, inits, inited, crashed, spoiled>>
         /\ t \in inited
         /\ \A u \in Threads : ~Is(u, "final") /\ ~Is(u, "signal")
         /\ pc'[t] = "start"
         /\ call'[t].op = "start" /\ call'[t].start = FALSE /\ call'[t].d = place[t][1]
         /\ call'[t].n = place[t][2] /\ call'[t].step = "none" /\ call'[t].mem = NoMem
         /\ call'[t].old = NoWord /\ call'[t].new = NoWord /\ call'[t].last = TRUE
         /\ call'[t].lastp = TRUE
<1>1. Located(t) /\ CallAt(t) /\ MemAt(t) /\ SeatAt(t) /\ PointerNull /\ Overlap = {}
  BY ReadyLocated
<1> USE <1>1, CallStart(t) DEF Located, Is, memVars, tableVars, tls, histVars, Goto,
                               Return, Refuse, Through, TablePCs, SeatPCs, FinalPCs,
                               WordPCs, SameOp, SameAt, SameStep, SameMem, SameWords,
                               SameLast
<1> QED BY DEF CallStart, Calls, NoCall, Leaving

\* mcapi_finalize is called.
LEMMA CallFinalizeEffect ==
  ASSUME Ready, NEW t \in Threads, CallFinalize(t)
  PROVE  /\ pc[t] = "idle"
         /\ UNCHANGED <<mem, gone, users, refs, mrapi, dom, node, owner, count, db,
                       known, met, place, epoch, inits, crashed, spoiled>>
         /\ t \in inited
         /\ \A u \in Threads : ~Is(u, "init")
         /\ \A u \in Threads : Is(u, "final") \/ Is(u, "signal") => Proc[u] # Proc[t]
         /\ inited' = inited \ {t}
         /\ pc'[t] = "copy"
         /\ call'[t].op = "final" /\ call'[t].start = FALSE /\ call'[t].d = place[t][1]
         /\ call'[t].n = place[t][2] /\ call'[t].step = "free" /\ call'[t].mem = NoMem
         /\ call'[t].old = NoWord /\ call'[t].new = NoWord /\ call'[t].last = TRUE
         /\ call'[t].lastp = TRUE
<1>1. Located(t) /\ CallAt(t) /\ MemAt(t) /\ SeatAt(t) /\ PointerNull /\ Overlap = {}
  BY ReadyLocated
<1> USE <1>1, CallFinalize(t) DEF Located, Is, memVars, tableVars, tls, histVars, Goto,
                                  Return, Refuse, Through, TablePCs, SeatPCs, FinalPCs,
                                  WordPCs, SameOp, SameAt, SameStep, SameMem, SameWords,
                                  SameLast
<1> QED BY DEF CallFinalize, Calls, NoCall, Leaving, Initializing

\* A signal is handled.
LEMMA CallSignalEffect ==
  ASSUME Ready, NEW t \in Threads, CallSignal(t)
  PROVE  /\ pc[t] = "idle"
         /\ UNCHANGED <<mem, gone, users, refs, mrapi, dom, node, owner, count, db,
                       known, met, place, epoch, inits, inited, crashed, spoiled>>
         /\ t \in inited
         /\ Proc[t] \notin crashed
         /\ \A u \in Threads : ~Is(u, "init")
         /\ \A u \in Threads : ~Is(u, "signal")
         /\ pc'[t] = "copy"
         /\ call'[t].op = "signal" /\ call'[t].start = FALSE /\ call'[t].d = place[t][1]
         /\ call'[t].n = place[t][2] /\ call'[t].step = "signal" /\ call'[t].mem = NoMem
         /\ call'[t].old = NoWord /\ call'[t].new = NoWord /\ call'[t].last = TRUE
         /\ call'[t].lastp = TRUE
<1>1. Located(t) /\ CallAt(t) /\ MemAt(t) /\ SeatAt(t) /\ PointerNull /\ Overlap = {}
  BY ReadyLocated
<1> USE <1>1, CallSignal(t) DEF Located, Is, memVars, tableVars, tls, histVars, Goto,
                                Return, Refuse, Through, TablePCs, SeatPCs, FinalPCs,
                                WordPCs, SameOp, SameAt, SameStep, SameMem, SameWords,
                                SameLast
<1> QED BY DEF CallSignal, Calls, NoCall, Leaving, Initializing

\* A process is started again.
LEMMA RestartEffect ==
  ASSUME Ready, NEW t \in Threads, Restart(t)
  PROVE  /\ pc[t] = "dead"
         /\ UNCHANGED <<mem, gone, users, refs, mrapi, dom, node, owner, count, db,
                       known, met, place, inits, inited, crashed, spoiled>>
         /\ epoch' = [epoch EXCEPT ![Proc[t]] = 1]
         /\ pc'[t] = "idle"
         /\ call'[t] = call[t]
<1>1. Located(t) /\ CallAt(t) /\ MemAt(t) /\ SeatAt(t) /\ PointerNull /\ Overlap = {}
  BY ReadyLocated
<1> USE <1>1, Restart(t) DEF Located, Is, memVars, tableVars, tls, histVars, Goto, Return,
                             Refuse, Through, TablePCs, SeatPCs, FinalPCs, WordPCs, SameOp,
                             SameAt, SameStep, SameMem, SameWords, SameLast
<1> QED BY DEF Restart

\* The thread becomes a node of MRAPI, or its number is in use.
LEMMA MrapiInitializeEffect ==
  ASSUME Ready, NEW t \in Threads, MrapiInitialize(t)
  PROVE  /\ pc[t] = "mrapi"
         /\ UNCHANGED <<mem, gone, users, refs, dom, node, owner, count, db, known,
                       place, epoch, inits, inited, crashed, spoiled>>
         /\ \/ /\ mrapi' = mrapi /\ met' = met /\ t \notin mrapi
               /\ (\E u \in mrapi : Num[u] = Num[t])
               /\ pc'[t] = "idle"
               /\ call'[t] = NoCall
            \/ /\ mrapi \subseteq mrapi' /\ mrapi' \subseteq mrapi \cup {t} /\ met' = met \cup {t}
               /\ pc'[t] = "find"
               /\ call'[t] = call[t]
<1>1. Located(t) /\ CallAt(t) /\ MemAt(t) /\ SeatAt(t) /\ PointerNull /\ Overlap = {}
  BY ReadyLocated
<1> USE <1>1, MrapiInitialize(t) DEF Located, Is, memVars, tableVars, tls, histVars, Goto,
                                     Return, Refuse, Through, TablePCs, SeatPCs, FinalPCs,
                                     WordPCs, SameOp, SameAt, SameStep, SameMem, SameWords,
                                     SameLast
<1> QED BY DEF MrapiInitialize, CallAt

\* The memory is found, or is to be created.
LEMMA FindEffect ==
  ASSUME Ready, NEW t \in Threads, Find(t)
  PROVE  /\ pc[t] = "find"
         /\ UNCHANGED <<mem, gone, users, refs, mrapi, dom, node, owner, count, db,
                       known, met, place, epoch, inits, inited, crashed, spoiled>>
         /\ \/ /\ mem # NoMem /\ mem \notin gone /\ t \notin users
               /\ pc'[t] = "attach"
               /\ call'[t] = call[t]
            \/ /\ (mem = NoMem \/ mem \in gone \/ t \in users)
               /\ pc'[t] = "create"
               /\ call'[t] = call[t]
<1>1. Located(t) /\ CallAt(t) /\ MemAt(t) /\ SeatAt(t) /\ PointerNull /\ Overlap = {}
  BY ReadyLocated
<1> USE <1>1, Find(t) DEF Located, Is, memVars, tableVars, tls, histVars, Goto, Return,
                          Refuse, Through, TablePCs, SeatPCs, FinalPCs, WordPCs, SameOp,
                          SameAt, SameStep, SameMem, SameWords, SameLast
<1> QED BY DEF Find

\* The memory that was found is attached.
LEMMA AttachFoundEffect ==
  ASSUME Ready, NEW t \in Threads, AttachFound(t)
  PROVE  /\ pc[t] = "attach"
         /\ UNCHANGED <<mem, gone, mrapi, dom, node, owner, count, db, known, met,
                       place, epoch, inits, inited, crashed, spoiled>>
         /\ users' = users \cup {t} /\ refs' = refs + 1 /\ mem # NoMem
         /\ pc'[t] = "point"
         /\ call'[t].mem = mem
         /\ SameOp(t) /\ SameAt(t) /\ SameStep(t) /\ SameWords(t) /\ SameLast(t)
<1>1. Located(t) /\ CallAt(t) /\ MemAt(t) /\ SeatAt(t) /\ PointerNull /\ Overlap = {}
  BY ReadyLocated
<1>2. pc[t] = "attach" => Is(t, "init")
  BY ReadyLocated, WhichCall, PointerThere DEF EntryPCs, HeldPCs, TablePCs
<1> USE <1>1, <1>2, AttachFound(t) DEF Located, Is, memVars, tableVars, tls, histVars,
                                       Goto, Return, Refuse, Through, TablePCs, SeatPCs,
                                       FinalPCs, WordPCs, SameOp, SameAt, SameStep,
                                       SameMem, SameWords, SameLast
<1> QED BY DEF AttachFound, Calls, MemAt, EarlyPCs, HeldPCs, Attach

\* The pointer of the process is set.
LEMMA PointEffect ==
  ASSUME Ready, NEW t \in Threads, Point(t)
  PROVE  /\ pc[t] = "point"
         /\ UNCHANGED <<mem, gone, users, refs, mrapi, dom, node, owner, count,
                       known, met, place, epoch, inits, inited, crashed, spoiled>>
         /\ db' = [db EXCEPT ![Proc[t]] = mem]
         /\ pc'[t] = "domain"
         /\ call'[t] = call[t]
<1>1. Located(t) /\ CallAt(t) /\ MemAt(t) /\ SeatAt(t) /\ PointerNull /\ Overlap = {}
  BY ReadyLocated
<1>2. pc[t] = "point" => Is(t, "init")
  BY ReadyLocated, WhichCall, PointerThere DEF EntryPCs, HeldPCs, TablePCs
<1> USE <1>1, <1>2, Point(t) DEF Located, Is, memVars, tableVars, tls, histVars, Goto,
                                 Return, Refuse, Through, TablePCs, SeatPCs, FinalPCs,
                                 WordPCs, SameOp, SameAt, SameStep, SameMem, SameWords,
                                 SameLast
<1> QED BY DEF Point, MemAt, EarlyPCs, HeldPCs

\* The memory is created, unless there is one.
LEMMA CreateEffect ==
  ASSUME Ready, NEW t \in Threads, Create(t)
  PROVE  /\ pc[t] = "create"
         /\ UNCHANGED <<gone, users, mrapi, dom, node, owner, count, db, known, met,
                       place, epoch, inits, inited, crashed, spoiled>>
         /\ \/ /\ mem # NoMem /\ mem' = mem /\ refs' = refs
               /\ pc'[t] = "idle"
               /\ call'[t] = NoCall
            \/ /\ mem = NoMem /\ mem' = Cardinality(gone) + 1 /\ refs' = 0
               /\ pc'[t] = "join"
               /\ call'[t] = call[t]
<1>1. Located(t) /\ CallAt(t) /\ MemAt(t) /\ SeatAt(t) /\ PointerNull /\ Overlap = {}
  BY ReadyLocated
<1> USE <1>1, Create(t) DEF Located, Is, memVars, tableVars, tls, histVars, Goto, Return,
                            Refuse, Through, TablePCs, SeatPCs, FinalPCs, WordPCs, SameOp,
                            SameAt, SameStep, SameMem, SameWords, SameLast
<1> QED BY DEF Create

\* The new memory is attached.
LEMMA AttachCreatedEffect ==
  ASSUME Ready, NEW t \in Threads, AttachCreated(t)
  PROVE  /\ pc[t] = "join"
         /\ UNCHANGED <<mem, gone, mrapi, dom, node, owner, count, db, known, met,
                       place, epoch, inits, inited, crashed>>
         /\ mem # NoMem
         /\ \/ /\ spoiled' = spoiled /\ t \notin users /\ users' = users \cup {t}
               /\ refs' = refs + 1
               /\ pc'[t] = "place"
               /\ call'[t].mem = mem
               /\ SameOp(t) /\ SameAt(t) /\ SameStep(t) /\ SameWords(t) /\ SameLast(t)
            \/ /\ spoiled' = spoiled \cup {Proc[t]} /\ t \in users /\ users' = users
               /\ refs' = refs
               /\ pc'[t] = "idle"
               /\ call'[t] = NoCall
<1>1. Located(t) /\ CallAt(t) /\ MemAt(t) /\ SeatAt(t) /\ PointerNull /\ Overlap = {}
  BY ReadyLocated
<1>2. pc[t] = "join" => Is(t, "init")
  BY ReadyLocated, WhichCall, PointerThere DEF EntryPCs, HeldPCs, TablePCs
<1> USE <1>1, <1>2, AttachCreated(t) DEF Located, Is, memVars, tableVars, tls, histVars,
                                         Goto, Return, Refuse, Through, TablePCs, SeatPCs,
                                         FinalPCs, WordPCs, SameOp, SameAt, SameStep,
                                         SameMem, SameWords, SameLast
<1> QED BY DEF AttachCreated, Calls, MemAt, EarlyPCs, HeldPCs, Attach

\* The pointer of the process, which is null, is set.
LEMMA PlaceEffect ==
  ASSUME Ready, NEW t \in Threads, Place(t)
  PROVE  /\ pc[t] = "place"
         /\ UNCHANGED <<mem, gone, users, refs, mrapi, dom, node, owner, count,
                       known, met, place, epoch, inits, inited, crashed, spoiled>>
         /\ db' = [db EXCEPT ![Proc[t]] = mem]
         /\ pc'[t] = "wipe"
         /\ call'[t] = call[t]
<1>1. Located(t) /\ CallAt(t) /\ MemAt(t) /\ SeatAt(t) /\ PointerNull /\ Overlap = {}
  BY ReadyLocated
<1>2. pc[t] = "place" => Is(t, "init")
  BY ReadyLocated, WhichCall, PointerThere DEF EntryPCs, HeldPCs, TablePCs
<1> USE <1>1, <1>2, Place(t) DEF Located, Is, memVars, tableVars, tls, histVars, Goto,
                                 Return, Refuse, Through, TablePCs, SeatPCs, FinalPCs,
                                 WordPCs, SameOp, SameAt, SameStep, SameMem, SameWords,
                                 SameLast
<1> QED BY DEF Place, MemAt, EarlyPCs, HeldPCs, PointerNull, Mine

\* The words of a domain are wiped.
LEMMA WipeEffect ==
  ASSUME Ready, NEW t \in Threads, Wipe(t)
  PROVE  /\ pc[t] = "wipe" /\ Mine(t) \in Mems
         /\ UNCHANGED <<mem, gone, users, refs, mrapi, owner, count, db, known, met,
                       place, epoch, inits, inited, crashed, spoiled>>
         /\ dom' = [dom EXCEPT ![Mine(t)][call[t].d] = FALSE]
         /\ node' = [node EXCEPT ![Mine(t)] =
                       [x \in Seats |-> IF x[1] = call[t].d THEN NoWord ELSE node[Mine(t)][x]]]
         /\ \/ /\ call[t].d + 1 \in Domains
               /\ pc'[t] = "wipe"
               /\ call'[t].d = call[t].d + 1
               /\ SameOp(t) /\ call'[t].n = call[t].n /\ SameStep(t) /\ SameMem(t) /\ SameWords(t)
               /\ SameLast(t)
            \/ /\ pc'[t] = "domain"
               /\ call'[t].d = 0
               /\ SameOp(t) /\ call'[t].n = call[t].n /\ SameStep(t) /\ SameMem(t) /\ SameWords(t)
               /\ SameLast(t)
<1>1. Located(t) /\ CallAt(t) /\ MemAt(t) /\ SeatAt(t) /\ PointerNull /\ Overlap = {}
  BY ReadyLocated
<1> USE <1>1, Wipe(t) DEF Located, Is, memVars, tableVars, tls, histVars, Goto, Return,
                          Refuse, Through, TablePCs, SeatPCs, FinalPCs, WordPCs, SameOp,
                          SameAt, SameStep, SameMem, SameWords, SameLast
<1> QED BY DEF Wipe, Calls, Seats

\* The domain is looked up.
LEMMA DomainFindEffect ==
  ASSUME Ready, NEW t \in Threads, DomainFind(t)
  PROVE  /\ pc[t] = "domain" /\ Mine(t) \in Mems
         /\ UNCHANGED <<mem, gone, users, refs, mrapi, dom, node, owner, count, db,
                       known, met, place, epoch, inits, inited, crashed, spoiled>>
         /\ \/ /\ \A d \in Domains : ~dom[Mine(t)][d]
               /\ pc'[t] = "dclaim"
               /\ call'[t] = call[t]
            \/ /\ dom[Mine(t)][call'[t].d]
               /\ pc'[t] = "scan"
               /\ SameOp(t) /\ call'[t].n = call[t].n /\ SameStep(t) /\ SameMem(t) /\ SameWords(t)
               /\ SameLast(t)
<1>1. Located(t) /\ CallAt(t) /\ MemAt(t) /\ SeatAt(t) /\ PointerNull /\ Overlap = {}
  BY ReadyLocated
<1> USE <1>1, DomainFind(t) DEF Located, Is, memVars, tableVars, tls, histVars, Goto,
                                Return, Refuse, Through, TablePCs, SeatPCs, FinalPCs,
                                WordPCs, SameOp, SameAt, SameStep, SameMem, SameWords,
                                SameLast
<1> QED
  <2> DEFINE S == {d \in Domains : dom[Mine(t)][d]}
             d0 == CHOOSE d \in S : \A e \in S : d <= e
  <2>1. S # {} => d0 \in S
    BY FirstDomain
  <2>2. \/ S = {} /\ pc'[t] = "dclaim" /\ call' = call
        \/ S # {} /\ pc'[t] = "scan" /\ call' = [call EXCEPT ![t].d = d0]
    BY DEF DomainFind
  <2>3. S # {} => d0 \in Domains /\ dom[Mine(t)][d0]
    BY <2>1
  <2> HIDE DEF d0
  <2>4. CASE S = {} /\ pc'[t] = "dclaim" /\ call' = call
    BY <2>4 DEF DomainFind
  <2>5. CASE S # {} /\ pc'[t] = "scan" /\ call' = [call EXCEPT ![t].d = d0]
    <3>1. call'[t] = [call[t] EXCEPT !.d = d0]
      BY <2>5
    <3>2. UNCHANGED <<mem, gone, users, refs, mrapi, dom, node, owner, count, db, known, met, place,
                      epoch, inits, inited, crashed, spoiled>> /\ pc[t] = "domain"
      BY DEF DomainFind
    <3> HIDE DEF S
    <3> QED BY <2>3, <2>5, <3>1, <3>2 DEF Calls
  <2> HIDE DEF S
  <2> QED BY <2>2, <2>4, <2>5

\* The domain is claimed, and nobody else has it.
LEMMA DomainClaimEffect ==
  ASSUME Ready, NEW t \in Threads, DomainClaim(t)
  PROVE  /\ pc[t] = "dclaim" /\ Mine(t) \in Mems
         /\ UNCHANGED <<mem, gone, users, refs, mrapi, node, owner, count, db,
                       known, met, place, epoch, inits, inited, crashed, spoiled>>
         /\ dom' = [dom EXCEPT ![Mine(t)][call[t].d] = TRUE]
         /\ pc'[t] = "scan"
         /\ call'[t] = call[t]
<1>1. Located(t) /\ CallAt(t) /\ MemAt(t) /\ SeatAt(t) /\ PointerNull /\ Overlap = {}
  BY ReadyLocated
<1>2. pc[t] = "dclaim" => Is(t, "init")
  BY ReadyLocated, WhichCall, PointerThere DEF EntryPCs, HeldPCs, TablePCs
<1> USE <1>1, <1>2, DomainClaim(t) DEF Located, Is, memVars, tableVars, tls, histVars,
                                       Goto, Return, Refuse, Through, TablePCs, SeatPCs,
                                       FinalPCs, WordPCs, SameOp, SameAt, SameStep,
                                       SameMem, SameWords, SameLast
<1> QED BY DEF DomainClaim, SeatAt

\* Another slot is looked at for the number.
LEMMA ScanEffect ==
  ASSUME Ready, NEW t \in Threads, Scan(t)
  PROVE  /\ pc[t] = "scan" /\ Mine(t) \in Mems
         /\ UNCHANGED <<mem, gone, users, refs, mrapi, dom, node, owner, count, db,
                       known, met, place, epoch, inits, inited, crashed>>
         /\ \/ /\ Word(t).alloc /\ Word(t).num = Num[t] /\ spoiled' = spoiled \cup {Proc[t]}
               /\ pc'[t] = "idle"
               /\ call'[t] = NoCall
            \/ /\ call[t].n + 1 \in Slots /\ spoiled' = spoiled
               /\ pc'[t] = "scan"
               /\ call'[t].n = call[t].n + 1
               /\ SameOp(t) /\ call'[t].d = call[t].d /\ SameStep(t) /\ SameMem(t) /\ SameWords(t)
               /\ SameLast(t)
            \/ /\ spoiled' = spoiled
               /\ pc'[t] = "read"
               /\ call'[t].n = 0
               /\ SameOp(t) /\ call'[t].d = call[t].d /\ SameStep(t) /\ SameMem(t) /\ SameWords(t)
               /\ SameLast(t)
<1>1. Located(t) /\ CallAt(t) /\ MemAt(t) /\ SeatAt(t) /\ PointerNull /\ Overlap = {}
  BY ReadyLocated
<1> USE <1>1, Scan(t) DEF Located, Is, memVars, tableVars, tls, histVars, Goto, Return,
                          Refuse, Through, TablePCs, SeatPCs, FinalPCs, WordPCs, SameOp,
                          SameAt, SameStep, SameMem, SameWords, SameLast
<1> QED BY DEF Scan, Calls

\* A slot is read.
LEMMA SlotReadEffect ==
  ASSUME Ready, NEW t \in Threads, SlotRead(t)
  PROVE  /\ pc[t] = "read" /\ Mine(t) \in Mems
         /\ UNCHANGED <<mem, gone, users, refs, mrapi, dom, node, owner, count, db,
                       known, met, place, epoch, inits, inited, crashed, spoiled>>
         /\ pc'[t] = "claim"
         /\ call'[t].old = Word(t)
         /\ SameOp(t) /\ SameAt(t) /\ SameStep(t) /\ SameMem(t) /\ call'[t].new = call[t].new
         /\ SameLast(t)
<1>1. Located(t) /\ CallAt(t) /\ MemAt(t) /\ SeatAt(t) /\ PointerNull /\ Overlap = {}
  BY ReadyLocated
<1> USE <1>1, SlotRead(t) DEF Located, Is, memVars, tableVars, tls, histVars, Goto, Return,
                              Refuse, Through, TablePCs, SeatPCs, FinalPCs, WordPCs,
                              SameOp, SameAt, SameStep, SameMem, SameWords, SameLast
<1> QED BY DEF SlotRead, Calls

\* A slot is claimed, or is not free.
LEMMA SlotClaimEffect ==
  ASSUME Ready, NEW t \in Threads, SlotClaim(t)
  PROVE  /\ pc[t] = "claim" /\ Mine(t) \in Mems
         /\ UNCHANGED <<mem, gone, users, refs, mrapi, dom, owner, count, db, known,
                       met, place, epoch, inits, inited, crashed>>
         /\ \/ /\ ~Word(t).alloc /\ spoiled' = spoiled
               /\ (\E w \in Words : w.alloc /\ w.num = Num[t] /\
                                    node' = [node EXCEPT ![Mine(t)][At(t)] = w])
               /\ pc'[t] = "own"
               /\ call'[t] = call[t]
            \/ /\ node' = node /\ Word(t) # [call[t].old EXCEPT !.alloc = FALSE]
               /\ call[t].n + 1 \in Slots /\ spoiled' = spoiled
               /\ pc'[t] = "read"
               /\ call'[t].n = call[t].n + 1
               /\ SameOp(t) /\ call'[t].d = call[t].d /\ SameStep(t) /\ SameMem(t) /\ SameWords(t)
               /\ SameLast(t)
            \/ /\ node' = node /\ Word(t) # [call[t].old EXCEPT !.alloc = FALSE]
               /\ call[t].n + 1 \notin Slots /\ spoiled' = spoiled \cup {Proc[t]}
               /\ pc'[t] = "idle"
               /\ call'[t] = NoCall
<1>1. Located(t) /\ CallAt(t) /\ MemAt(t) /\ SeatAt(t) /\ PointerNull /\ Overlap = {}
  BY ReadyLocated
<1> USE <1>1, SlotClaim(t) DEF Located, Is, memVars, tableVars, tls, histVars, Goto,
                               Return, Refuse, Through, TablePCs, SeatPCs, FinalPCs,
                               WordPCs, SameOp, SameAt, SameStep, SameMem, SameWords,
                               SameLast
<1> QED
  <2> DEFINE w == [call[t].old EXCEPT !.num = Num[t], !.alloc = TRUE]
             v == [call[t].old EXCEPT !.alloc = FALSE]
  <2>1. w \in Words /\ w.alloc /\ w.num = Num[t] /\ ~v.alloc
    BY NodesAssumption DEF Words
  <2>2. /\ pc[t] = "claim" /\ Mine(t) \in Mems
        /\ UNCHANGED <<mem, gone, users, refs, mrapi, dom, owner, count, db, known, met, place,
                       epoch, inits, inited, crashed>>
        /\ \/ /\ Word(t) = v /\ spoiled' = spoiled /\ node' = [node EXCEPT ![Mine(t)][At(t)] = w]
              /\ pc'[t] = "own" /\ call' = call
           \/ /\ Word(t) # v /\ spoiled' = spoiled /\ node' = node /\ call[t].n + 1 \in Slots
              /\ pc'[t] = "read" /\ call' = [call EXCEPT ![t].n = @ + 1]
           \/ /\ Word(t) # v /\ spoiled' = spoiled \cup {Proc[t]} /\ node' = node
              /\ call[t].n + 1 \notin Slots /\ pc'[t] = "idle" /\ call'[t] = NoCall
    BY DEF SlotClaim
  <2>3. Word(t) = v => ~Word(t).alloc
    BY <2>1
  <2> HIDE DEF w
  <2>4. call' = [call EXCEPT ![t].n = @ + 1] =>
          call'[t].n = call[t].n + 1 /\ SameOp(t) /\ SameStep(t) /\ SameMem(t) /\ SameWords(t)
          /\ SameLast(t) /\ call'[t].d = call[t].d
    BY DEF Calls
  <2> HIDE DEF SameOp, SameStep, SameMem, SameWords, SameLast
  <2> QED BY <2>1, <2>2, <2>3, <2>4

\* The slot gets its owner.
LEMMA OwnEffect ==
  ASSUME Ready, NEW t \in Threads, Own(t)
  PROVE  /\ pc[t] = "own" /\ Mine(t) \in Mems
         /\ UNCHANGED <<mem, gone, users, refs, mrapi, dom, node, count, db, met,
                       epoch, inits, inited, crashed, spoiled>>
         /\ owner' = [owner EXCEPT ![Mine(t)][At(t)] = Pid(t)]
         /\ known' = known \cup {t} /\ place' = [place EXCEPT ![t] = At(t)]
         /\ pc'[t] = "copy"
         /\ call'[t].step = "invalid"
         /\ SameOp(t) /\ SameAt(t) /\ SameMem(t) /\ SameWords(t) /\ SameLast(t)
<1>1. Located(t) /\ CallAt(t) /\ MemAt(t) /\ SeatAt(t) /\ PointerNull /\ Overlap = {}
  BY ReadyLocated
<1> USE <1>1, Own(t) DEF Located, Is, memVars, tableVars, tls, histVars, Goto, Return,
                         Refuse, Through, TablePCs, SeatPCs, FinalPCs, WordPCs, SameOp,
                         SameAt, SameStep, SameMem, SameWords, SameLast
<1> QED BY DEF Own, Calls

\* The node is counted.
LEMMA CountEffect ==
  ASSUME Ready, NEW t \in Threads, Count(t)
  PROVE  /\ pc[t] = "count" /\ Mine(t) \in Mems
         /\ UNCHANGED <<mem, gone, users, refs, mrapi, dom, node, owner, db, known,
                       met, place, epoch, inits, inited, crashed, spoiled>>
         /\ count' = [count EXCEPT ![Mine(t)][call[t].d] = @ + 1]
         /\ pc'[t] = "copy"
         /\ call'[t].step = "run"
         /\ SameOp(t) /\ SameAt(t) /\ SameMem(t) /\ SameWords(t) /\ SameLast(t)
<1>1. Located(t) /\ CallAt(t) /\ MemAt(t) /\ SeatAt(t) /\ PointerNull /\ Overlap = {}
  BY ReadyLocated
<1> USE <1>1, Count(t) DEF Located, Is, memVars, tableVars, tls, histVars, Goto, Return,
                           Refuse, Through, TablePCs, SeatPCs, FinalPCs, WordPCs, SameOp,
                           SameAt, SameStep, SameMem, SameWords, SameLast
<1> QED BY DEF Count, Calls

\* The node is to be started.
LEMMA StartNowEffect ==
  ASSUME Ready, NEW t \in Threads, StartNow(t)
  PROVE  /\ pc[t] = "start"
         /\ UNCHANGED <<mem, gone, users, refs, mrapi, dom, node, owner, count, db,
                       known, met, place, epoch, inits, inited, crashed, spoiled>>
         /\ pc'[t] = "copy"
         /\ call'[t].step = "start"
         /\ SameOp(t) /\ SameAt(t) /\ SameMem(t) /\ SameWords(t) /\ SameLast(t)
<1>1. Located(t) /\ CallAt(t) /\ MemAt(t) /\ SeatAt(t) /\ PointerNull /\ Overlap = {}
  BY ReadyLocated
<1> USE <1>1, StartNow(t) DEF Located, Is, memVars, tableVars, tls, histVars, Goto, Return,
                              Refuse, Through, TablePCs, SeatPCs, FinalPCs, WordPCs,
                              SameOp, SameAt, SameStep, SameMem, SameWords, SameLast
<1> QED BY DEF StartNow, Calls

\* The call ends.
LEMMA DoneEffect ==
  ASSUME Ready, NEW t \in Threads, Done(t)
  PROVE  /\ pc[t] = "done"
         /\ UNCHANGED <<mem, gone, users, refs, mrapi, dom, node, owner, count, db,
                       known, met, place, epoch, inits, crashed, spoiled>>
         /\ inited' = inited \cup {t}
         /\ pc'[t] = "idle"
         /\ call'[t] = NoCall
<1>1. Located(t) /\ CallAt(t) /\ MemAt(t) /\ SeatAt(t) /\ PointerNull /\ Overlap = {}
  BY ReadyLocated
<1> USE <1>1, Done(t) DEF Located, Is, memVars, tableVars, tls, histVars, Goto, Return,
                          Refuse, Through, TablePCs, SeatPCs, FinalPCs, WordPCs, SameOp,
                          SameAt, SameStep, SameMem, SameWords, SameLast
<1> QED BY DEF Done

\* The word is copied and the copy changed.
LEMMA CopyEffect ==
  ASSUME Ready, NEW t \in Threads, Copy(t)
  PROVE  /\ pc[t] = "copy" /\ Mine(t) \in Mems
         /\ UNCHANGED <<mem, gone, users, refs, mrapi, dom, node, owner, count, db,
                       known, met, place, epoch, inits, inited, crashed, spoiled>>
         /\ pc'[t] = "xread"
         /\ call'[t].new = Changed(call[t].step, Word(t))
         /\ SameOp(t) /\ SameAt(t) /\ SameStep(t) /\ SameMem(t) /\ call'[t].old = call[t].old
         /\ SameLast(t)
<1>1. Located(t) /\ CallAt(t) /\ MemAt(t) /\ SeatAt(t) /\ PointerNull /\ Overlap = {}
  BY ReadyLocated
<1> USE <1>1, Copy(t) DEF Located, Is, memVars, tableVars, tls, histVars, Goto, Return,
                          Refuse, Through, TablePCs, SeatPCs, FinalPCs, WordPCs, SameOp,
                          SameAt, SameStep, SameMem, SameWords, SameLast
<1> QED BY DEF Copy, Calls

\* The word is read.
LEMMA ExchangeReadEffect ==
  ASSUME Ready, NEW t \in Threads, ExchangeRead(t)
  PROVE  /\ pc[t] = "xread" /\ Mine(t) \in Mems
         /\ UNCHANGED <<mem, gone, users, refs, mrapi, dom, node, owner, count, db,
                       known, met, place, epoch, inits, inited, crashed, spoiled>>
         /\ pc'[t] = "xswap"
         /\ call'[t].old = Word(t)
         /\ SameOp(t) /\ SameAt(t) /\ SameStep(t) /\ SameMem(t) /\ call'[t].new = call[t].new
         /\ SameLast(t)
<1>1. Located(t) /\ CallAt(t) /\ MemAt(t) /\ SeatAt(t) /\ PointerNull /\ Overlap = {}
  BY ReadyLocated
<1> USE <1>1, ExchangeRead(t) DEF Located, Is, memVars, tableVars, tls, histVars, Goto,
                                  Return, Refuse, Through, TablePCs, SeatPCs, FinalPCs,
                                  WordPCs, SameOp, SameAt, SameStep, SameMem, SameWords,
                                  SameLast
<1> QED BY DEF ExchangeRead, Calls

\* The word is exchanged if it is as it was read.
LEMMA ExchangeEffect ==
  ASSUME Ready, NEW t \in Threads, Exchange(t)
  PROVE  /\ pc[t] = "xswap" /\ Mine(t) \in Mems
         /\ UNCHANGED <<mem, gone, users, refs, mrapi, dom, owner, count, db, known,
                       met, place, epoch, inits, inited, crashed, spoiled>>
         /\ (Word(t) = call[t].old /\ node' = [node EXCEPT ![Mine(t)][At(t)] = call[t].new])
           \/ (Word(t) # call[t].old /\ node' = node)
         /\ pc'[t] = After(t)
         /\ call'[t] = call[t]
<1>1. Located(t) /\ CallAt(t) /\ MemAt(t) /\ SeatAt(t) /\ PointerNull /\ Overlap = {}
  BY ReadyLocated
<1> USE <1>1, Exchange(t) DEF Located, Is, memVars, tableVars, tls, histVars, Goto, Return,
                              Refuse, Through, TablePCs, SeatPCs, FinalPCs, WordPCs,
                              SameOp, SameAt, SameStep, SameMem, SameWords, SameLast
<1> QED BY DEF Exchange

\* The node is not counted any more.
LEMMA UncountEffect ==
  ASSUME Ready, NEW t \in Threads, Uncount(t)
  PROVE  /\ pc[t] = "uncount" /\ Mine(t) \in Mems
         /\ UNCHANGED <<mem, gone, users, refs, mrapi, dom, node, owner, db, known,
                       met, place, epoch, inits, inited, crashed, spoiled>>
         /\ count' = [count EXCEPT ![Mine(t)][call[t].d] = @ - 1]
         /\ pc'[t] = "any"
         /\ call'[t].d = 0 /\ call'[t].n = 0
         /\ SameOp(t) /\ SameStep(t) /\ SameMem(t) /\ SameWords(t) /\ SameLast(t)
<1>1. Located(t) /\ CallAt(t) /\ MemAt(t) /\ SeatAt(t) /\ PointerNull /\ Overlap = {}
  BY ReadyLocated
<1> USE <1>1, Uncount(t) DEF Located, Is, memVars, tableVars, tls, histVars, Goto, Return,
                             Refuse, Through, TablePCs, SeatPCs, FinalPCs, WordPCs, SameOp,
                             SameAt, SameStep, SameMem, SameWords, SameLast
<1> QED
  <2> DEFINE c == [call[t] EXCEPT !.d = 0, !.n = 0]
  <2>1. call' = [call EXCEPT ![t] = c]
    BY DEF Uncount
  <2>2. call'[t] = c
    BY <2>1
  <2>3. /\ call'[t].d = 0 /\ call'[t].n = 0
        /\ SameOp(t) /\ SameStep(t) /\ SameMem(t) /\ SameWords(t) /\ SameLast(t)
    BY <2>2 DEF Calls
  <2> HIDE DEF c, SameOp, SameStep, SameMem, SameWords, SameLast
  <2> QED BY <2>3 DEF Uncount

\* One slot is looked at for a node that is left.
LEMMA AnyEffect ==
  ASSUME Ready, NEW t \in Threads, Any(t)
  PROVE  /\ pc[t] = "any" /\ Mine(t) \in Mems
         /\ UNCHANGED <<mem, gone, users, refs, mrapi, dom, node, owner, count, db,
                       known, met, place, epoch, inits, inited, crashed, spoiled>>
         /\ call'[t].last = (call[t].last /\ ~Word(t).alloc)
         /\ call'[t].lastp = (call[t].lastp /\ ~(Word(t).alloc /\ owner[Mine(t)][At(t)] = Pid(t)))
         /\ \/ /\ \E s \in Seats : s = NextSlot(t) /\ call'[t].d = s[1] /\ call'[t].n = s[2]
               /\ pc'[t] = "any"
               /\ call'[t].step = "rundown"
               /\ SameOp(t) /\ SameMem(t) /\ SameWords(t)
            \/ /\ NextSlot(t)[1] \notin Domains
               /\ pc'[t] = "copy"
               /\ call'[t].step = "rundown" /\ call'[t].d = place[t][1]
               /\ call'[t].n = place[t][2]
               /\ SameOp(t) /\ SameMem(t) /\ SameWords(t)
<1>1. Located(t) /\ CallAt(t) /\ MemAt(t) /\ SeatAt(t) /\ PointerNull /\ Overlap = {}
  BY ReadyLocated
<1> USE <1>1, Any(t) DEF Located, Is, memVars, tableVars, tls, histVars, Goto, Return,
                         Refuse, Through, TablePCs, SeatPCs, FinalPCs, WordPCs, SameOp,
                         SameAt, SameStep, SameMem, SameWords, SameLast
<1> QED
  <2> DEFINE next == NextSlot(t)
             to == IF next[1] \in Domains THEN next ELSE place[t]
             c == [call[t] EXCEPT !.last = @ /\ ~Word(t).alloc,
                     !.lastp = @ /\ ~(Word(t).alloc /\ owner[Mine(t)][At(t)] = Pid(t)),
                     !.d = to[1], !.n = to[2], !.step = "rundown"]
  <2>1. /\ pc[t] = "any" /\ Mine(t) \in Mems
        /\ UNCHANGED <<mem, gone, users, refs, mrapi, dom, node, owner, count, db, known, met, place,
                       epoch, inits, inited, crashed, spoiled>>
        /\ call' = [call EXCEPT ![t] = c]
        /\ pc'[t] = IF next[1] \in Domains THEN "any" ELSE "copy"
    BY DEF Any
  <2>2. call'[t] = c
    BY <2>1
  <2>3. next[1] \in Domains => next \in Seats /\ next = <<next[1], next[2]>>
    <3>1. CASE call[t].n + 1 \in Slots
      BY <3>1 DEF NextSlot, Seats
    <3>2. CASE call[t].n + 1 \notin Slots
      <4>1. next = <<call[t].d + 1, 0>> /\ 0 \in Slots
        BY <3>2, NothingTyped DEF NextSlot
      <4> QED BY <4>1 DEF Seats
    <3> QED BY <3>1, <3>2
  <2> HIDE DEF next, to
  <2>4. /\ call'[t].last = (call[t].last /\ ~Word(t).alloc)
        /\ call'[t].lastp = (call[t].lastp /\ ~(Word(t).alloc /\ owner[Mine(t)][At(t)] = Pid(t)))
        /\ call'[t].d = to[1] /\ call'[t].n = to[2] /\ call'[t].step = "rundown"
        /\ SameOp(t) /\ SameMem(t) /\ SameWords(t)
    BY <2>2 DEF Calls
  <2> HIDE DEF c, SameOp, SameMem, SameWords
  <2>5. CASE next[1] \in Domains
    <3>1. to = next
      BY <2>5 DEF to
    <3> QED BY <2>1, <2>3, <2>4, <2>5, <3>1 DEF next
  <2>6. CASE next[1] \notin Domains
    <3>1. to = place[t]
      BY <2>6 DEF to
    <3> QED BY <2>1, <2>4, <2>6, <3>1 DEF next
  <2> QED BY <2>5, <2>6

\* The memory is detached.
LEMMA DetachEffect ==
  ASSUME Ready, NEW t \in Threads, Detach(t)
  PROVE  /\ pc[t] = "detach"
         /\ UNCHANGED <<mem, gone, mrapi, dom, node, owner, count, db, known, met,
                       place, epoch, inits, inited, crashed, spoiled>>
         /\ users' \subseteq users
         /\ (mem # NoMem /\ t \in users /\ users' = users \ {t} /\ refs' = refs - 1)
           \/ (~(mem # NoMem /\ t \in users) /\ users' = users /\ refs' = refs)
         /\ \/ /\ call[t].op = "signal"
               /\ pc'[t] = "raise"
               /\ call'[t] = call[t]
            \/ /\ call[t].op # "signal"
               /\ pc'[t] = "delete"
               /\ call'[t] = call[t]
<1>1. Located(t) /\ CallAt(t) /\ MemAt(t) /\ SeatAt(t) /\ PointerNull /\ Overlap = {}
  BY ReadyLocated
<1> USE <1>1, Detach(t) DEF Located, Is, memVars, tableVars, tls, histVars, Goto, Return,
                            Refuse, Through, TablePCs, SeatPCs, FinalPCs, WordPCs, SameOp,
                            SameAt, SameStep, SameMem, SameWords, SameLast
<1> QED BY DEF Detach

\* The last node deletes the memory.
LEMMA DeleteEffect ==
  ASSUME Ready, NEW t \in Threads, Delete(t)
  PROVE  /\ pc[t] = "delete"
         /\ UNCHANGED <<users, refs, mrapi, dom, node, owner, count, db, known, met,
                       place, epoch, inits, inited, crashed, spoiled>>
         /\ (call[t].last /\ mem \notin gone /\ mem # NoMem /\ mem' = NoMem /\ gone' = gone \cup {mem})
           \/ ((~call[t].last \/ mem \in gone \/ mem = NoMem) /\ mem' = mem /\ gone' = gone)
         /\ pc'[t] = "leave"
         /\ call'[t] = call[t]
<1>1. Located(t) /\ CallAt(t) /\ MemAt(t) /\ SeatAt(t) /\ PointerNull /\ Overlap = {}
  BY ReadyLocated
<1> USE <1>1, Delete(t) DEF Located, Is, memVars, tableVars, tls, histVars, Goto, Return,
                            Refuse, Through, TablePCs, SeatPCs, FinalPCs, WordPCs, SameOp,
                            SameAt, SameStep, SameMem, SameWords, SameLast
<1> QED BY DEF Delete

\* The thread leaves MRAPI.
LEMMA LeaveEffect ==
  ASSUME Ready, NEW t \in Threads, Leave(t)
  PROVE  /\ pc[t] = "leave"
         /\ UNCHANGED <<mem, refs, dom, node, owner, count, db, known, met, place,
                       epoch, inits, inited, crashed, spoiled>>
         /\ mrapi' = mrapi \ {t} /\ users' = users \ {t}
         /\ gone' = IF mem # NoMem /\ refs = 0 THEN gone \cup {mem} ELSE gone
         /\ pc'[t] = "unpoint"
         /\ call'[t] = call[t]
<1>1. Located(t) /\ CallAt(t) /\ MemAt(t) /\ SeatAt(t) /\ PointerNull /\ Overlap = {}
  BY ReadyLocated
<1> USE <1>1, Leave(t) DEF Located, Is, memVars, tableVars, tls, histVars, Goto, Return,
                           Refuse, Through, TablePCs, SeatPCs, FinalPCs, WordPCs, SameOp,
                           SameAt, SameStep, SameMem, SameWords, SameLast
<1> QED BY DEF Leave, MrapiFinalize

\* The last node of the process clears its pointer.
LEMMA UnpointEffect ==
  ASSUME Ready, NEW t \in Threads, Unpoint(t)
  PROVE  /\ pc[t] = "unpoint"
         /\ UNCHANGED <<mem, gone, users, refs, mrapi, dom, node, owner, count,
                       known, met, place, epoch, inits, inited, crashed, spoiled>>
         /\ db' = IF call[t].lastp THEN [db EXCEPT ![Proc[t]] = NoMem] ELSE db
         /\ pc'[t] = "idle"
         /\ call'[t] = NoCall
<1>1. Located(t) /\ CallAt(t) /\ MemAt(t) /\ SeatAt(t) /\ PointerNull /\ Overlap = {}
  BY ReadyLocated
<1> USE <1>1, Unpoint(t) DEF Located, Is, memVars, tableVars, tls, histVars, Goto, Return,
                             Refuse, Through, TablePCs, SeatPCs, FinalPCs, WordPCs, SameOp,
                             SameAt, SameStep, SameMem, SameWords, SameLast
<1> QED BY DEF Unpoint

\* The other nodes of the process are marked invalid.
LEMMA OthersEffect ==
  ASSUME Ready, NEW t \in Threads, Others(t)
  PROVE  /\ pc[t] = "others" /\ Mine(t) \in Mems
         /\ UNCHANGED <<mem, gone, users, refs, mrapi, dom, owner, count, db, known,
                       met, place, epoch, inits, inited, crashed, spoiled>>
         /\ node' = [node EXCEPT ![Mine(t)] = [x \in Seats |-> IF owner[Mine(t)][x] = Pid(t)
                     THEN [node[Mine(t)][x] EXCEPT !.valid = FALSE] ELSE node[Mine(t)][x]]]
         /\ pc'[t] = "detach"
         /\ call'[t] = call[t]
<1>1. Located(t) /\ CallAt(t) /\ MemAt(t) /\ SeatAt(t) /\ PointerNull /\ Overlap = {}
  BY ReadyLocated
<1> USE <1>1, Others(t) DEF Located, Is, memVars, tableVars, tls, histVars, Goto, Return,
                            Refuse, Through, TablePCs, SeatPCs, FinalPCs, WordPCs, SameOp,
                            SameAt, SameStep, SameMem, SameWords, SameLast
<1> QED BY DEF Others, Seats

-----------------------------------------------------------------------------
(* Where the calls are.                                                    *)

\* After its own step a thread is where its call can be.
LEMMA CallOwn ==
  ASSUME Ready, NEW t \in Threads, Step(t)
  PROVE  CallAt(t)'
<1>1. Located(t) /\ CallAt(t) /\ inited \subseteq Threads /\ epoch \in [Procs -> {0, 1}]
  BY ReadyLocated DEF TypeInv, MemType
<1>2. MemAt(t)
  BY ReadyLocated
<1> USE <1>1 DEF Located, CallAt, At, Is, SameOp, SameAt, SameStep, SameMem, SameWords,
                 SameLast, TablePCs, SeatPCs, FinalPCs, WordPCs, InitPCs, EarlyPCs,
                 EntryPCs, HeldPCs
<1>3. ASSUME NEW start \in BOOLEAN, CallInitialize(t, start)
      PROVE  CallAt(t)'
  <2> HIDE <1>1
  <2> HIDE DEF Located, CallAt
  <2>1. /\ pc'[t] = "mrapi" /\ call'[t].op = "init" /\ pc[t] = "idle"
        /\ UNCHANGED <<known, met, mrapi, crashed, epoch, inited>>
        /\ ~(Mine(t) # NoMem /\ t \in known)
    BY <1>3, CallInitializeEffect
  <2>2. /\ t \in inited => t \in known /\ Mine(t) # NoMem
        /\ t \in mrapi => t \in met
        /\ Proc[t] \in crashed => epoch[Proc[t]] = 1
        /\ Proc[t] \notin crashed => epoch[Proc[t]] = 0
    BY <1>1, <1>2, <2>1 DEF CallAt, MemAt
  <2> QED BY <2>1, <2>2 DEF CallAt
<1>4. CASE CallStart(t)
  <2> HIDE <1>1
  <2> HIDE DEF Located, CallAt
  <2>1. /\ pc'[t] = "start" /\ call'[t].op = "start" /\ call'[t].step = "none"
        /\ call'[t].d = place[t][1] /\ call'[t].n = place[t][2] /\ t \in inited
        /\ UNCHANGED <<known, met, mrapi, crashed, epoch, place>>
        /\ inited' = inited
    BY <1>4, CallStartEffect
  <2>2. /\ t \in known /\ (t \in mrapi => t \in met)
        /\ pc[t] # "dead" /\ (Proc[t] \in crashed => epoch[Proc[t]] = 1)
        /\ Proc[t] \notin crashed => epoch[Proc[t]] = 0
    BY <1>1, <2>1 DEF CallAt
  <2>3. place[t] = <<place[t][1], place[t][2]>>
    BY <1>1 DEF Located
  <2> QED BY <2>1, <2>2, <2>3 DEF CallAt
<1>5. CASE CallFinalize(t)
  <2> HIDE <1>1
  <2> HIDE DEF Located, CallAt
  <2>1. /\ pc'[t] = "copy" /\ call'[t].op = "final" /\ call'[t].step = "free"
        /\ call'[t].d = place[t][1] /\ call'[t].n = place[t][2] /\ t \in inited
        /\ UNCHANGED <<known, met, mrapi, crashed, epoch, place>>
        /\ inited' = inited \ {t}
    BY <1>5, CallFinalizeEffect
  <2>2. /\ t \in known /\ (t \in mrapi => t \in met)
        /\ pc[t] # "dead" /\ (Proc[t] \in crashed => epoch[Proc[t]] = 1)
        /\ Proc[t] \notin crashed => epoch[Proc[t]] = 0
    BY <1>1, <2>1 DEF CallAt
  <2>3. place[t] = <<place[t][1], place[t][2]>>
    BY <1>1 DEF Located
  <2> QED BY <2>1, <2>2, <2>3 DEF CallAt
<1>6. CASE CallSignal(t)
  <2> HIDE <1>1
  <2> HIDE DEF Located, CallAt
  <2>1. /\ pc'[t] = "copy" /\ call'[t].op = "signal" /\ call'[t].step = "signal"
        /\ call'[t].d = place[t][1] /\ call'[t].n = place[t][2] /\ t \in inited
        /\ UNCHANGED <<known, met, mrapi, crashed, epoch, place>>
        /\ inited' = inited /\ Proc[t] \notin crashed
    BY <1>6, CallSignalEffect
  <2>2. /\ t \in known /\ (t \in mrapi => t \in met)
        /\ pc[t] # "dead" /\ (Proc[t] \in crashed => epoch[Proc[t]] = 1)
        /\ Proc[t] \notin crashed => epoch[Proc[t]] = 0
    BY <1>1, <2>1 DEF CallAt
  <2>3. place[t] = <<place[t][1], place[t][2]>>
    BY <1>1 DEF Located
  <2> QED BY <2>1, <2>2, <2>3 DEF CallAt
<1>7. CASE Restart(t)
  BY <1>7, RestartEffect
<1>8. CASE MrapiInitialize(t)
  BY <1>8, MrapiInitializeEffect DEF NoCall
<1>9. CASE Find(t)
  BY <1>9, FindEffect
<1>10. CASE AttachFound(t)
  BY <1>10, AttachFoundEffect
<1>11. CASE Point(t)
  BY <1>11, PointEffect
<1>12. CASE Create(t)
  BY <1>12, CreateEffect DEF NoCall
<1>13. CASE AttachCreated(t)
  BY <1>13, AttachCreatedEffect DEF NoCall
<1>14. CASE Place(t)
  BY <1>14, PlaceEffect
<1>15. CASE Wipe(t)
  BY <1>15, WipeEffect
<1>16. CASE DomainFind(t)
  BY <1>16, DomainFindEffect
<1>17. CASE DomainClaim(t)
  BY <1>17, DomainClaimEffect
<1>18. CASE Scan(t)
  BY <1>18, ScanEffect DEF NoCall
<1>19. CASE SlotRead(t)
  BY <1>19, SlotReadEffect
<1>20. CASE SlotClaim(t)
  BY <1>20, SlotClaimEffect DEF NoCall
<1>21. CASE Own(t)
  BY <1>21, OwnEffect
<1>22. CASE Count(t)
  BY <1>22, CountEffect
<1>23. CASE StartNow(t)
  BY <1>23, StartNowEffect
<1>24. CASE Done(t)
  <2>1. Is(t, "init") \/ Is(t, "start")
    BY <1>24, DoneEffect, ReadyLocated, WhichCall
  <2>2. t \in known /\ t \in inited'
    BY <2>1, <1>24, DoneEffect
  <2> QED BY <2>2, <1>24, DoneEffect DEF NoCall
<1>25. CASE Copy(t)
  BY <1>25, CopyEffect DEF Calls
<1>26. CASE ExchangeRead(t)
  BY <1>26, ExchangeReadEffect
<1>27. CASE Exchange(t)
  <2>1. pc[t] = "xswap" /\ pc'[t] = After(t) /\ call'[t] = call[t] /\ place' = place
        /\ UNCHANGED <<inited, known, met, mrapi, crashed, epoch>>
    BY <1>27, ExchangeEffect
  <2>2. CASE Is(t, "init")
    <3>1. /\ call[t].step = "invalid" => pc'[t] = "count"
          /\ call[t].step = "run" => pc'[t] \in {"start", "done"}
          /\ call[t].step = "start" => pc'[t] = "done"
      BY <2>1 DEF After
    <3> QED BY <2>1, <2>2, <3>1
  <2>3. CASE ~Is(t, "init")
    <3>1. /\ call[t].step = "start" => pc'[t] = "done"
          /\ call[t].step = "free" => pc'[t] = "uncount"
          /\ call[t].step = "rundown" => pc'[t] = "detach"
          /\ call[t].step = "signal" => pc'[t] = "others"
      BY <2>1 DEF After
    <3> QED BY <2>1, <2>3, <3>1 DEF Calls
  <2> QED BY <2>2, <2>3
<1>28. CASE Uncount(t)
  BY <1>28, UncountEffect
<1>29. CASE Any(t)
  BY <1>29, AnyEffect
<1>30. CASE Detach(t)
  BY <1>30, DetachEffect
<1>31. CASE Delete(t)
  BY <1>31, DeleteEffect
<1>32. CASE Leave(t)
  BY <1>32, LeaveEffect
<1>33. CASE Unpoint(t)
  BY <1>33, UnpointEffect DEF NoCall
<1>34. CASE Others(t)
  BY <1>34, OthersEffect
<1> HIDE DEF Located, CallAt, At, Is, SameOp, SameAt, SameStep, SameMem, SameWords,
             SameLast, TablePCs, SeatPCs, FinalPCs, WordPCs, InitPCs, EarlyPCs, EntryPCs,
             HeldPCs
<1> QED BY <1>3, <1>4, <1>5, <1>6, <1>7, <1>8, <1>9, <1>10, <1>11, <1>12, <1>13, <1>14,
           <1>15, <1>16, <1>17, <1>18, <1>19, <1>20, <1>21, <1>22, <1>23, <1>24, <1>25,
           <1>26, <1>27, <1>28, <1>29, <1>30, <1>31, <1>32, <1>33, <1>34
        DEF Step, InitStep, WordStep, FinalStep

\* The other threads stay where they are; a restart changes the number of the
\* process of a thread that is dead.
LEMMA CallOthers ==
  ASSUME Ready, NEW t \in Threads, Step(t), NEW u \in Threads \ {t}
  PROVE  /\ CallAt(u)'
         /\ pc[u] # "dead" => epoch'[Proc[u]] = epoch[Proc[u]]
<1>1. CallAt(u) /\ CallAt(t) /\ TypeInv /\ Proc[u] \in Procs /\ Proc[t] \in Procs
  BY ReadyLocated DEF Located
<1>2. /\ pc'[u] = pc[u] /\ call'[u] = call[u] /\ place'[u] = place[u]
      /\ u \in inited' <=> u \in inited
      /\ u \in known' <=> u \in known
      /\ u \in met' <=> u \in met
      /\ u \in mrapi' <=> u \in mrapi
      /\ crashed' = crashed
  BY <1>1, ThreadFrame
<1>3. epoch' = epoch \/ (Restart(t) /\ epoch' = [epoch EXCEPT ![Proc[t]] = 1])
  BY DEF Step, InitStep, WordStep, FinalStep, CallInitialize, CallStart, CallFinalize, CallSignal,
     Restart, MrapiInitialize, Find, AttachFound, Attach, Point, Create, AttachCreated, Place,
     Wipe, DomainFind, DomainClaim, Scan, SlotRead, SlotClaim, Own, Count, StartNow, Done, Copy,
     ExchangeRead, Exchange, Uncount, Any, Detach, Delete, Leave, Unpoint, Others, Through,
     Refuse, histVars
<1>4. \/ epoch'[Proc[u]] = epoch[Proc[u]]
      \/ epoch'[Proc[u]] = 1 /\ Proc[u] \in crashed
  <2>1. CASE epoch' = epoch
    BY <2>1
  <2>2. CASE Restart(t) /\ epoch' = [epoch EXCEPT ![Proc[t]] = 1]
    <3>1. Proc[t] \in crashed
      BY <2>2, <1>1 DEF Restart, Goto, CallAt
    <3> QED BY <3>1, <2>2, <1>1 DEF TypeInv, MemType
  <2> QED BY <1>3, <2>1, <2>2
<1>5. pc[u] # "dead" => epoch'[Proc[u]] = epoch[Proc[u]]
  BY <1>1, <1>4 DEF CallAt
<1>6. CallAt(u)'
  BY <1>1, <1>2, <1>4, <1>5 DEF CallAt, At, Is
<1> QED BY <1>5, <1>6

\* Every step but the end of a process keeps CallInv.
LEMMA CallStep ==
  ASSUME Ready, NEW t \in Threads, Step(t)
  PROVE  CallInv'
BY CallOwn, CallOthers DEF CallInv

\* How a step of a thread goes on with its call, ends it, or starts another one.
OpMove(t) ==
  \/ call'[t].op = call[t].op /\ inited' = inited
  \/ call'[t].op = "none" /\ inited' = inited /\ (Is(t, "init") \/ Is(t, "final"))
  \/ /\ call'[t].op = "none" /\ inited' = inited \cup {t} /\ pc[t] = "done"
     /\ Is(t, "init") \/ Is(t, "start")
  \/ /\ call'[t].op = "init" /\ inited' = inited /\ pc[t] = "idle"
     /\ \A u \in Threads : ~Is(u, "final") /\ ~Is(u, "signal")
     /\ (\A u \in Threads : ~Is(u, "init")) \/ inited # {}
  \/ /\ call'[t].op = "start" /\ t \in inited /\ inited' = inited /\ pc[t] = "idle"
  \/ /\ call'[t].op = "final" /\ t \in inited /\ inited' = inited \ {t} /\ pc[t] = "idle"
     /\ \A u \in Threads : ~Is(u, "init")
     /\ \A u \in Threads : Is(u, "final") \/ Is(u, "signal") => Proc[u] # Proc[t]
  \/ /\ call'[t].op = "signal" /\ t \in inited /\ inited' = inited /\ pc[t] = "idle"
     /\ \A u \in Threads : ~Is(u, "init") /\ ~Is(u, "signal")

\* Every step but the end of a process is one of these moves.
LEMMA OpMoves ==
  ASSUME Ready, NEW t \in Threads, Step(t)
  PROVE  OpMove(t)
<1> USE DEF OpMove, SameOp, SameAt, SameStep, SameMem, SameWords, SameLast
<1>1. ASSUME NEW start \in BOOLEAN, CallInitialize(t, start)
      PROVE  OpMove(t)
  BY <1>1, CallInitializeEffect
<1>2. CASE CallStart(t)
  BY <1>2, CallStartEffect
<1>3. CASE CallFinalize(t)
  BY <1>3, CallFinalizeEffect
<1>4. CASE CallSignal(t)
  BY <1>4, CallSignalEffect
<1>5. CASE Restart(t)
  BY <1>5, RestartEffect
<1>6. CASE MrapiInitialize(t)
  BY <1>6, MrapiInitializeEffect, ReadyLocated, WhichCall DEF NoCall, EarlyPCs, EntryPCs
<1>7. CASE Find(t)
  BY <1>7, FindEffect
<1>8. CASE AttachFound(t)
  BY <1>8, AttachFoundEffect
<1>9. CASE Point(t)
  BY <1>9, PointEffect
<1>10. CASE Create(t)
  BY <1>10, CreateEffect, ReadyLocated, WhichCall DEF NoCall, EarlyPCs, EntryPCs
<1>11. CASE AttachCreated(t)
  BY <1>11, AttachCreatedEffect, ReadyLocated, WhichCall DEF NoCall, EarlyPCs, EntryPCs
<1>12. CASE Place(t)
  BY <1>12, PlaceEffect
<1>13. CASE Wipe(t)
  BY <1>13, WipeEffect
<1>14. CASE DomainFind(t)
  BY <1>14, DomainFindEffect
<1>15. CASE DomainClaim(t)
  BY <1>15, DomainClaimEffect
<1>16. CASE Scan(t)
  BY <1>16, ScanEffect, ReadyLocated, PointerThere DEF NoCall, TablePCs, FinalPCs
<1>17. CASE SlotRead(t)
  BY <1>17, SlotReadEffect
<1>18. CASE SlotClaim(t)
  BY <1>18, SlotClaimEffect, ReadyLocated, PointerThere DEF NoCall, TablePCs, FinalPCs
<1>19. CASE Own(t)
  BY <1>19, OwnEffect
<1>20. CASE Count(t)
  BY <1>20, CountEffect
<1>21. CASE StartNow(t)
  BY <1>21, StartNowEffect
<1>22. CASE Done(t)
  BY <1>22, DoneEffect, ReadyLocated, WhichCall DEF NoCall
<1>23. CASE Copy(t)
  BY <1>23, CopyEffect
<1>24. CASE ExchangeRead(t)
  BY <1>24, ExchangeReadEffect
<1>25. CASE Exchange(t)
  BY <1>25, ExchangeEffect
<1>26. CASE Uncount(t)
  BY <1>26, UncountEffect
<1>27. CASE Any(t)
  BY <1>27, AnyEffect
<1>28. CASE Detach(t)
  BY <1>28, DetachEffect
<1>29. CASE Delete(t)
  BY <1>29, DeleteEffect
<1>30. CASE Leave(t)
  BY <1>30, LeaveEffect
<1>31. CASE Unpoint(t)
  BY <1>31, UnpointEffect, ReadyLocated, PointerThere DEF NoCall, TablePCs, FinalPCs
<1>32. CASE Others(t)
  BY <1>32, OthersEffect
<1> HIDE DEF OpMove, SameOp, SameAt, SameStep, SameMem, SameWords, SameLast
<1> QED BY <1>1, <1>2, <1>3, <1>4, <1>5, <1>6, <1>7, <1>8, <1>9, <1>10, <1>11, <1>12,
           <1>13, <1>14, <1>15, <1>16, <1>17, <1>18, <1>19, <1>20, <1>21, <1>22, <1>23,
           <1>24, <1>25, <1>26, <1>27, <1>28, <1>29, <1>30, <1>31, <1>32
        DEF Step, InitStep, WordStep, FinalStep

\* Only the node that finds no memory, or no domain in it, creates one.
LEMMA CreatesAlone ==
  ASSUME Ready, NEW t \in Threads, Step(t)
  PROVE  pc'[t] \in CreatePCs => inited = {}
<1>1. Located(t) /\ CallAt(t) /\ MemInv /\ SeatInv /\ TypeInv /\ inited \subseteq Threads
  BY ReadyLocated DEF Ready, NodeInvariant, TypeInv, MemType
<1>2. pc[t] \in CreatePCs => inited = {}
  BY <1>1, WhichCall, PointerThere, ReadyLocated
     DEF CreatePCs, EntryPCs, HeldPCs, TablePCs, Ready, NodeInvariant, PhaseInv
<1>3. mem = NoMem => inited = {}
  BY <1>1 DEF MemInv, MemAt
<1> USE <1>1, <1>2, <1>3 DEF CreatePCs
<1>4. ASSUME NEW start \in BOOLEAN, CallInitialize(t, start)
      PROVE  pc'[t] \in CreatePCs => inited = {}
  BY <1>4, CallInitializeEffect
<1>5. CASE CallStart(t)
  BY <1>5, CallStartEffect
<1>6. CASE CallFinalize(t)
  BY <1>6, CallFinalizeEffect
<1>7. CASE CallSignal(t)
  BY <1>7, CallSignalEffect
<1>8. CASE Restart(t)
  BY <1>8, RestartEffect
<1>9. CASE MrapiInitialize(t)
  BY <1>9, MrapiInitializeEffect
<1>10. CASE Find(t)
  BY <1>10, FindEffect
<1>11. CASE AttachFound(t)
  BY <1>11, AttachFoundEffect
<1>12. CASE Point(t)
  BY <1>12, PointEffect
<1>13. CASE Create(t)
  BY <1>13, CreateEffect
<1>14. CASE AttachCreated(t)
  BY <1>14, AttachCreatedEffect
<1>15. CASE Place(t)
  BY <1>15, PlaceEffect
<1>16. CASE Wipe(t)
  BY <1>16, WipeEffect
<1>17. CASE DomainFind(t)
  <2>1. CASE \A d \in Domains : ~dom[Mine(t)][d]
    <3>1. pc[t] = "domain"
      BY <1>17, DomainFindEffect
    <3>2. Mine(t) = mem
      BY <3>1, <1>1, PointerThere, ReadyLocated DEF TablePCs
    <3>3. ASSUME NEW u \in inited
          PROVE  FALSE
      <4>1. u \in Threads /\ Mine(u) = mem /\ SeatAt(u) /\ Seated(u) /\ Located(u)
        BY <1>1, ReadyLocated DEF MemInv, MemAt, Seated
      <4>2. dom[mem][Seat(u)[1]] /\ Seat(u)[1] \in Domains
        BY <4>1 DEF SeatAt, Seat, Located, At
      <4> QED BY <2>1, <3>2, <4>2
    <3> QED BY <3>3
  <2>2. CASE ~\A d \in Domains : ~dom[Mine(t)][d]
    BY <1>17, <2>2, DomainFindEffect
  <2> QED BY <2>1, <2>2
<1>18. CASE DomainClaim(t)
  BY <1>18, DomainClaimEffect
<1>19. CASE Scan(t)
  BY <1>19, ScanEffect
<1>20. CASE SlotRead(t)
  BY <1>20, SlotReadEffect
<1>21. CASE SlotClaim(t)
  BY <1>21, SlotClaimEffect
<1>22. CASE Own(t)
  BY <1>22, OwnEffect
<1>23. CASE Count(t)
  BY <1>23, CountEffect
<1>24. CASE StartNow(t)
  BY <1>24, StartNowEffect
<1>25. CASE Done(t)
  BY <1>25, DoneEffect
<1>26. CASE Copy(t)
  BY <1>26, CopyEffect
<1>27. CASE ExchangeRead(t)
  BY <1>27, ExchangeReadEffect
<1>28. CASE Exchange(t)
  <2>1. pc'[t] = After(t) /\ pc[t] = "xswap"
    BY <1>28, ExchangeEffect
  <2>2. call[t].step \in {"invalid", "run", "start", "free", "rundown", "signal"}
    BY <2>1 DEF Located, CallAt, Is, WordPCs, Calls
  <2> QED BY <2>1, <2>2 DEF After
<1>29. CASE Uncount(t)
  BY <1>29, UncountEffect
<1>30. CASE Any(t)
  BY <1>30, AnyEffect
<1>31. CASE Detach(t)
  BY <1>31, DetachEffect
<1>32. CASE Delete(t)
  BY <1>32, DeleteEffect
<1>33. CASE Leave(t)
  BY <1>33, LeaveEffect
<1>34. CASE Unpoint(t)
  BY <1>34, UnpointEffect
<1>35. CASE Others(t)
  BY <1>35, OthersEffect
<1> HIDE DEF CreatePCs
<1> QED BY <1>4, <1>5, <1>6, <1>7, <1>8, <1>9, <1>10, <1>11, <1>12, <1>13, <1>14, <1>15,
           <1>16, <1>17, <1>18, <1>19, <1>20, <1>21, <1>22, <1>23, <1>24, <1>25, <1>26,
           <1>27, <1>28, <1>29, <1>30, <1>31, <1>32, <1>33, <1>34, <1>35
        DEF Step, InitStep, WordStep, FinalStep

\* Every step but the end of a process keeps what the phases exclude.
LEMMA PhaseStep ==
  ASSUME Ready, NEW t \in Threads, Step(t)
  PROVE  PhaseInv'
<1>1. PhaseInv /\ TypeInv /\ CallAt(t)
  BY ReadyLocated DEF Ready, NodeInvariant
<1>2. \A u \in Threads \ {t} :
        /\ pc'[u] = pc[u] /\ call'[u] = call[u] /\ (u \in inited' <=> u \in inited)
  BY <1>1, ThreadFrame
<1>3. \/ call'[t].op = call[t].op /\ inited' = inited
      \/ call'[t].op = "none" /\ inited' = inited /\ (Is(t, "init") \/ Is(t, "final"))
      \/ /\ call'[t].op = "none" /\ inited' = inited \cup {t} /\ pc[t] = "done"
         /\ Is(t, "init") \/ Is(t, "start")
      \/ /\ call'[t].op = "init" /\ inited' = inited /\ pc[t] = "idle"
         /\ \A u \in Threads : ~Is(u, "final") /\ ~Is(u, "signal")
         /\ (\A u \in Threads : ~Is(u, "init")) \/ inited # {}
      \/ /\ call'[t].op = "start" /\ t \in inited /\ inited' = inited /\ pc[t] = "idle"
      \/ /\ call'[t].op = "final" /\ t \in inited /\ inited' = inited \ {t} /\ pc[t] = "idle"
         /\ \A u \in Threads : ~Is(u, "init")
         /\ \A u \in Threads : Is(u, "final") \/ Is(u, "signal") => Proc[u] # Proc[t]
      \/ /\ call'[t].op = "signal" /\ t \in inited /\ inited' = inited /\ pc[t] = "idle"
         /\ \A u \in Threads : ~Is(u, "init") /\ ~Is(u, "signal")
  BY OpMoves DEF OpMove
<1>4. pc'[t] \in CreatePCs => inited = {}
  BY CreatesAlone
<1>5. pc[t] = "idle" => Is(t, "none")
  BY ReadyLocated, WhichCall
<1>6. Is(t, "start") => t \in inited
  BY <1>1 DEF CallAt
<1> DEFINE P1 == \A v, w \in Threads : ~(Is(v, "init") /\ (Is(w, "final") \/ Is(w, "signal")))
           P2 == \A v, w \in Threads : Is(v, "init") /\ Is(w, "init") /\ inited = {} => v = w
           P3 == \A v \in Threads : Is(v, "init") /\ pc[v] \in CreatePCs => inited = {}
           P4 == \A v, w \in Threads : Is(v, "final") /\ Is(w, "final") /\ Proc[v] = Proc[w] => v = w
           P5 == \A v, w \in Threads : Is(v, "signal") /\ Is(w, "signal") => v = w
<1>7. P1'
  BY <1>1, <1>2, <1>3, <1>5 DEF PhaseInv, Is
<1>8. P2'
  BY <1>1, <1>2, <1>3, <1>5 DEF PhaseInv, Is
<1>9. P3'
  <2> SUFFICES ASSUME NEW v \in Threads, Is(v, "init")', pc'[v] \in CreatePCs
               PROVE  inited' = {}
    OBVIOUS
  <2>1. CASE v = t
    <3>1. inited = {}
      BY <2>1, <1>4
    <3> QED BY <2>1, <3>1, <1>3 DEF Is
  <2>2. CASE v # t
    <3>1. Is(v, "init") /\ pc[v] \in CreatePCs /\ inited = {}
      BY <2>2, <1>1, <1>2 DEF PhaseInv, Is
    <3> QED BY <2>2, <3>1, <1>1, <1>3, <1>6 DEF PhaseInv
  <2> QED BY <2>1, <2>2
<1>10. P4'
  BY <1>1, <1>2, <1>3, <1>5 DEF PhaseInv, Is
<1>11. P5'
  BY <1>1, <1>2, <1>3, <1>5 DEF PhaseInv, Is
<1> QED BY <1>7, <1>8, <1>9, <1>10, <1>11 DEF PhaseInv

-----------------------------------------------------------------------------
(* The memory there is.                                                    *)

\* Where db of no process changes, and where mem and gone do not.
PointerSteps(t) == Point(t) \/ Place(t) \/ Unpoint(t)
MemSteps(t) == Create(t) \/ Delete(t) \/ Leave(t)
FewSteps(t) ==
  /\ db' = db \/ PointerSteps(t)
  /\ (mem' = mem /\ gone' = gone) \/ MemSteps(t)

\* Only a few steps change the memory that there is, or a pointer to it.
LEMMA MemoryFrame ==
  ASSUME Ready, NEW t \in Threads, Step(t)
  PROVE  FewSteps(t)
<1> USE DEF FewSteps, PointerSteps, MemSteps
<1>1. ASSUME NEW start \in BOOLEAN, CallInitialize(t, start)
      PROVE  FewSteps(t)
  BY <1>1, CallInitializeEffect
<1>2. CASE CallStart(t)
  BY <1>2, CallStartEffect
<1>3. CASE CallFinalize(t)
  BY <1>3, CallFinalizeEffect
<1>4. CASE CallSignal(t)
  BY <1>4, CallSignalEffect
<1>5. CASE Restart(t)
  BY <1>5, RestartEffect
<1>6. CASE MrapiInitialize(t)
  BY <1>6, MrapiInitializeEffect
<1>7. CASE Find(t)
  BY <1>7, FindEffect
<1>8. CASE AttachFound(t)
  BY <1>8, AttachFoundEffect
<1>9. CASE Point(t)
  BY <1>9, PointEffect
<1>10. CASE Create(t)
  BY <1>10, CreateEffect
<1>11. CASE AttachCreated(t)
  BY <1>11, AttachCreatedEffect
<1>12. CASE Place(t)
  BY <1>12, PlaceEffect
<1>13. CASE Wipe(t)
  BY <1>13, WipeEffect
<1>14. CASE DomainFind(t)
  BY <1>14, DomainFindEffect
<1>15. CASE DomainClaim(t)
  BY <1>15, DomainClaimEffect
<1>16. CASE Scan(t)
  BY <1>16, ScanEffect
<1>17. CASE SlotRead(t)
  BY <1>17, SlotReadEffect
<1>18. CASE SlotClaim(t)
  BY <1>18, SlotClaimEffect
<1>19. CASE Own(t)
  BY <1>19, OwnEffect
<1>20. CASE Count(t)
  BY <1>20, CountEffect
<1>21. CASE StartNow(t)
  BY <1>21, StartNowEffect
<1>22. CASE Done(t)
  BY <1>22, DoneEffect
<1>23. CASE Copy(t)
  BY <1>23, CopyEffect
<1>24. CASE ExchangeRead(t)
  BY <1>24, ExchangeReadEffect
<1>25. CASE Exchange(t)
  BY <1>25, ExchangeEffect
<1>26. CASE Uncount(t)
  BY <1>26, UncountEffect
<1>27. CASE Any(t)
  BY <1>27, AnyEffect
<1>28. CASE Detach(t)
  BY <1>28, DetachEffect
<1>29. CASE Delete(t)
  BY <1>29, DeleteEffect
<1>30. CASE Leave(t)
  BY <1>30, LeaveEffect
<1>31. CASE Unpoint(t)
  BY <1>31, UnpointEffect
<1>32. CASE Others(t)
  BY <1>32, OthersEffect
<1> HIDE DEF FewSteps, PointerSteps, MemSteps
<1> QED BY <1>1, <1>2, <1>3, <1>4, <1>5, <1>6, <1>7, <1>8, <1>9, <1>10, <1>11, <1>12,
           <1>13, <1>14, <1>15, <1>16, <1>17, <1>18, <1>19, <1>20, <1>21, <1>22, <1>23,
           <1>24, <1>25, <1>26, <1>27, <1>28, <1>29, <1>30, <1>31, <1>32
        DEF Step, InitStep, WordStep, FinalStep

\* The pointer of a process does not change while a thread uses it.
LEMMA PointerKept ==
  ASSUME Ready, NEW t \in Threads, Step(t), NEW u \in Threads, Anchored(u), Anchored(u)'
  PROVE  Mine(u)' = Mine(u)
<1>1. /\ PhaseInv /\ MemAt(u) /\ LastAt(t) /\ CallAt(t) /\ CallAt(u) /\ MemAt(t)
      /\ Located(t) /\ Located(u) /\ TypeInv /\ db \in [Procs -> Mems \cup {NoMem}]
  BY ReadyLocated DEF Ready, NodeInvariant, TypeInv, MemType
<1>2. u # t => pc'[u] = pc[u] /\ call'[u] = call[u] /\ (u \in inited' <=> u \in inited)
  BY <1>1, ThreadFrame
<1>3. CASE db' = db
  BY <1>3 DEF Mine
<1>4. CASE Point(t)
  <2>1. pc[t] = "point" /\ db' = [db EXCEPT ![Proc[t]] = mem]
    BY <1>4, PointEffect
  <2>2. Is(t, "init") /\ t \notin inited /\ ~Anchored(t)
    BY <2>1, <1>1, ReadyLocated, WhichCall DEF CallAt, Anchored, HeldPCs, Is, TablePCs, SeatPCs, WordPCs
  <2>3. ~Is(u, "final")
    BY <2>2, <1>1 DEF PhaseInv
  <2>4. Mine(u) = mem
    BY <2>3, <1>1 DEF Anchored, MemAt
  <2> QED BY <2>1, <2>4, <1>1 DEF Mine, Located
<1>5. CASE Place(t)
  <2>1. pc[t] = "place" /\ db' = [db EXCEPT ![Proc[t]] = mem]
    BY <1>5, PlaceEffect
  <2>2. Is(t, "init") /\ ~Anchored(t) /\ inited = {}
    BY <2>1, <1>1, ReadyLocated, WhichCall
       DEF CallAt, Anchored, HeldPCs, Is, TablePCs, SeatPCs, WordPCs, PhaseInv, CreatePCs
  <2>3. ~Is(u, "final") /\ (Is(u, "init") => u = t)
    BY <2>2, <1>1 DEF PhaseInv
  <2> QED BY <2>2, <2>3 DEF Anchored
<1>6. CASE Unpoint(t)
  <2>1. pc[t] = "unpoint" /\ db' = (IF call[t].lastp THEN [db EXCEPT ![Proc[t]] = NoMem] ELSE db)
        /\ inited' = inited /\ call'[t] = NoCall
    BY <1>6, UnpointEffect
  <2>2. Is(t, "final") /\ call[t].step = "rundown" /\ t \notin inited
    BY <2>1, <1>1, PointerThere, ReadyLocated DEF CallAt, FinalPCs, WordPCs
  <2>3. u # t
    BY <2>1, <2>2 DEF Anchored, Is, NoCall
  <2>4. ~Is(u, "init") /\ (Is(u, "final") => Proc[u] # Proc[t])
    BY <2>2, <2>3, <1>1 DEF PhaseInv
  <2>5. call[t].lastp => \A v \in inited : Proc[v] # Proc[t]
    BY <2>1, <2>2, <1>1 DEF LastAt
  <2>6. call[t].lastp => Proc[u] # Proc[t]
    BY <2>4, <2>5 DEF Anchored
  <2> QED BY <2>1, <2>6, <1>1 DEF Mine, Located
<1> QED BY <1>3, <1>4, <1>5, <1>6, MemoryFrame DEF FewSteps, PointerSteps

\* How the memory that there is changes: it is created by a node that is alone,
\* deleted by the last one, and removed when nobody is attached.
LEMMA MemoryMoves ==
  ASSUME Ready, NEW t \in Threads, Step(t)
  PROVE  \/ mem' = mem /\ gone' = gone
         \/ /\ mem = NoMem /\ mem' \in Mems \ gone /\ gone' = gone /\ inited = {}
            /\ pc[t] = "create" /\ Is(t, "init") /\ \A u \in Threads : Is(u, "init") => u = t
         \/ mem # NoMem /\ mem' = NoMem /\ gone' = gone \cup {mem} /\ Is(t, "final") /\ inited = {}
         \/ /\ mem # NoMem /\ mem' = mem /\ gone' = gone \cup {mem} /\ Is(t, "final")
            /\ \A u \in Threads : ~Attached(u)
<1>1. /\ PhaseInv /\ LastAt(t) /\ CallAt(t) /\ Located(t) /\ TypeInv /\ RefInv /\ MemInv
      /\ MadeInv
      /\ inited \subseteq Threads /\ refs \in Nat
  BY ReadyLocated DEF Ready, NodeInvariant, TypeInv, MemType
<1>2. CASE Create(t)
  <2>1. pc[t] = "create" /\ gone' = gone
        /\ mem' = IF mem = NoMem THEN Cardinality(gone) + 1 ELSE mem
    BY <1>2, CreateEffect
  <2>2. Is(t, "init")
    BY <2>1, ReadyLocated, WhichCall DEF EarlyPCs
  <2>3. CASE mem = NoMem
    <3>1. mem' \in Mems \ gone
      BY <2>1, <2>2, <2>3, <1>1, MadeNext
    <3>2. inited = {}
      BY <2>3, <1>1 DEF MemInv, MemAt
    <3> QED BY <2>1, <2>2, <2>3, <3>1, <3>2, <1>1 DEF PhaseInv
  <2> QED BY <2>1, <2>3
<1>3. CASE Delete(t)
  <2>1. pc[t] = "delete"
    BY <1>3, DeleteEffect
  <2>2. Is(t, "final") /\ call[t].step = "rundown"
    BY <2>1, <1>1, PointerThere, ReadyLocated DEF CallAt, FinalPCs, WordPCs
  <2>3. call[t].last => inited = {}
    BY <2>1, <2>2, <1>1 DEF LastAt
  <2> QED BY <1>3, <2>2, <2>3, DeleteEffect
<1>4. CASE Leave(t)
  <2>1. pc[t] = "leave"
    BY <1>4, LeaveEffect
  <2>2. Is(t, "final")
    BY <2>1, <1>1, PointerThere, ReadyLocated DEF FinalPCs
  <2>3. refs = 0 => \A u \in Threads : ~Attached(u)
    BY <1>1, AttachedCounts
  <2> QED BY <1>4, <2>2, <2>3, LeaveEffect
<1> QED BY <1>2, <1>3, <1>4, MemoryFrame DEF FewSteps, MemSteps

\* The memory of the other threads stays the one there is.
LEMMA MemOthers ==
  ASSUME Ready, NEW t \in Threads, Step(t), NEW u \in Threads \ {t}
  PROVE  MemAt(u)'
<1>1. /\ PhaseInv /\ MemAt(u) /\ CallAt(t) /\ CallAt(u) /\ TypeInv /\ Located(u)
  BY ReadyLocated DEF Ready, NodeInvariant
<1>2. /\ pc'[u] = pc[u] /\ call'[u] = call[u] /\ (u \in inited' <=> u \in inited)
      /\ u \in users' <=> u \in users
  BY <1>1, ThreadFrame
<1>3. Anchored(u) => Mine(u)' = Mine(u)
  <2>1. Anchored(u) => Anchored(u)'
    BY <1>2 DEF Anchored, Is
  <2> QED BY <2>1, PointerKept
<1>4. /\ Attached(u)' <=> Attached(u)
      /\ \A op : Is(u, op)' <=> Is(u, op)
  BY <1>2 DEF Attached, Is
<1>5. /\ pc[u] \in HeldPCs => Is(u, "init") /\ pc[u] \notin EarlyPCs
      /\ pc[u] = "create" => Is(u, "init") /\ u \notin inited
  BY <1>1, ReadyLocated, WhichCall DEF HeldPCs, EarlyPCs, CallAt
<1>6. u \in inited /\ pc[u] # "raise" => Attached(u)
  BY DEF Attached
<1>7. NoMem \notin Mems
  BY DEF NoMem, Mems
<1> USE <1>2, <1>4
<1>8. CASE mem' = mem /\ gone' = gone
  BY <1>1, <1>3, <1>8 DEF MemAt, Anchored
<1>9. CASE mem = NoMem /\ mem' \in Mems \ gone /\ gone' = gone /\ inited = {}
           /\ Is(t, "init") /\ \A v \in Threads : Is(v, "init") => v = t
  <2>1. ~Is(u, "init") /\ ~Is(u, "final") /\ u \notin inited
    BY <1>1, <1>9 DEF PhaseInv
  <2> QED BY <1>1, <1>5, <2>1 DEF MemAt, Attached
<1>10. CASE mem # NoMem /\ mem' = NoMem /\ gone' = gone \cup {mem} /\ Is(t, "final") /\ inited = {}
  <2>1. ~Is(u, "init") /\ u \notin inited
    BY <1>1, <1>10 DEF PhaseInv
  <2> QED BY <1>1, <1>3, <1>5, <1>10, <2>1 DEF MemAt, Anchored
<1>11. CASE /\ mem # NoMem /\ mem' = mem /\ gone' = gone \cup {mem} /\ Is(t, "final")
            /\ \A v \in Threads : ~Attached(v)
  <2>1. ~Is(u, "init")
    BY <1>1, <1>11 DEF PhaseInv
  <2> QED BY <1>1, <1>3, <1>5, <1>6, <1>11, <2>1 DEF MemAt, Anchored
<1> QED BY <1>8, <1>9, <1>10, <1>11, MemoryMoves

\* After its own step the memory of a thread is the one there is.
LEMMA MemOwn ==
  ASSUME Ready, NEW t \in Threads, Step(t)
  PROVE  MemAt(t)'
<1>1. Located(t) /\ CallAt(t) /\ MemAt(t) /\ TypeInv
  BY ReadyLocated
<1>2. CallAt(t)' /\ db \in [Procs -> Mems \cup {NoMem}]
  BY CallOwn, <1>1 DEF TypeInv, MemType
<1>3. Mine(t)' = db'[Proc[t]] /\ Mine(t) = db[Proc[t]] /\ NoMem \notin Mems
  BY DEF Mine, Mems, NoMem
<1>4. PhaseInv /\ LastAt(t)
  BY ReadyLocated DEF Ready, NodeInvariant
<1> USE <1>1, <1>2, <1>3 DEF Located, CallAt, MemAt, Attached, Is, SameOp, SameAt,
                             SameStep, SameMem, SameWords, SameLast, TablePCs, SeatPCs,
                             FinalPCs, WordPCs, InitPCs, EarlyPCs, EntryPCs, HeldPCs
<1>5. ASSUME NEW start \in BOOLEAN, CallInitialize(t, start)
      PROVE  MemAt(t)'
  <2>1. /\ call'[t].op = "init" /\ pc'[t] = "mrapi" /\ UNCHANGED <<mem, gone, users, db, inited>>
    <3> HIDE DEF Located, CallAt, MemAt, Attached
    <3> QED BY <1>5, CallInitializeEffect
  <2>2. t \notin inited'
    BY <2>1
  <2> QED BY <2>1, <2>2
<1>6. CASE CallStart(t)
  <2>1. /\ pc[t] = "idle" /\ call'[t].op = "start" /\ pc'[t] = "start"
        /\ UNCHANGED <<mem, gone, users, db>>
        /\ t \in inited /\ call'[t].step = "none"
    BY <1>6, CallStartEffect
  <2>2. t \in inited' <=> "start" # "final"
    BY <2>1
  <2> QED BY <2>1, <2>2
<1>7. CASE CallFinalize(t)
  <2>1. /\ pc[t] = "idle" /\ call'[t].op = "final" /\ pc'[t] = "copy"
        /\ UNCHANGED <<mem, gone, users, db>>
        /\ t \in inited /\ call'[t].step = "free"
    BY <1>7, CallFinalizeEffect
  <2>2. t \in inited' <=> "final" # "final"
    BY <2>1
  <2> QED BY <2>1, <2>2
<1>8. CASE CallSignal(t)
  <2>1. /\ pc[t] = "idle" /\ call'[t].op = "signal" /\ pc'[t] = "copy"
        /\ UNCHANGED <<mem, gone, users, db>>
        /\ t \in inited /\ call'[t].step = "signal"
    BY <1>8, CallSignalEffect
  <2>2. t \in inited' <=> "signal" # "final"
    BY <2>1
  <2> QED BY <2>1, <2>2
<1>9. CASE Restart(t)
  BY <1>9, RestartEffect
<1>10. CASE MrapiInitialize(t)
  BY <1>10, MrapiInitializeEffect DEF NoCall
<1>11. CASE Find(t)
  BY <1>11, FindEffect
<1>12. CASE AttachFound(t)
  BY <1>12, AttachFoundEffect
<1>13. CASE Point(t)
  BY <1>13, PointEffect
<1>14. CASE Create(t)
  <2>1. Is(t, "init") /\ pc[t] = "create" /\ t \notin inited
    BY <1>14, CreateEffect, ReadyLocated, WhichCall
  <2>2. CASE mem # NoMem
    <3>1. call'[t].op = "none" /\ pc'[t] = "idle" /\ t \notin inited'
      BY <1>14, <2>1, <2>2, CreateEffect DEF NoCall
    <3> QED BY <3>1
  <2>3. CASE mem = NoMem
    <3>1. mem' \in Mems \ gone
      BY <2>1, <2>3, MadeNext, <1>14, CreateEffect DEF Ready, NodeInvariant
    <3>2. /\ call'[t] = call[t] /\ pc'[t] = "join" /\ t \notin inited' /\ gone' = gone
      BY <1>14, <2>1, <2>3, CreateEffect
    <3> QED BY <2>1, <3>1, <3>2
  <2> QED BY <2>2, <2>3
<1>15. CASE AttachCreated(t)
  BY <1>15, AttachCreatedEffect DEF NoCall
<1>16. CASE Place(t)
  BY <1>16, PlaceEffect
<1>17. CASE Wipe(t)
  BY <1>17, WipeEffect
<1>18. CASE DomainFind(t)
  BY <1>18, DomainFindEffect
<1>19. CASE DomainClaim(t)
  BY <1>19, DomainClaimEffect
<1>20. CASE Scan(t)
  BY <1>20, ScanEffect DEF NoCall
<1>21. CASE SlotRead(t)
  BY <1>21, SlotReadEffect
<1>22. CASE SlotClaim(t)
  BY <1>22, SlotClaimEffect DEF NoCall
<1>23. CASE Own(t)
  BY <1>23, OwnEffect
<1>24. CASE Count(t)
  BY <1>24, CountEffect
<1>25. CASE StartNow(t)
  BY <1>25, StartNowEffect
<1>26. CASE Done(t)
  <2>1. Is(t, "init") \/ Is(t, "start")
    BY <1>26, DoneEffect, ReadyLocated, WhichCall
  <2>2. mem # NoMem /\ Mine(t) = mem /\ mem \notin gone /\ t \in users
    BY <1>26, <2>1, DoneEffect
  <2>3. call'[t].op = "none" /\ pc'[t] = "idle" /\ UNCHANGED <<mem, gone, users, db>>
    BY <1>26, DoneEffect DEF NoCall
  <2> QED BY <2>2, <2>3
<1>27. CASE Copy(t)
  BY <1>27, CopyEffect
<1>28. CASE ExchangeRead(t)
  BY <1>28, ExchangeReadEffect
<1>29. CASE Exchange(t)
  <2>1. pc[t] = "xswap" /\ pc'[t] = After(t) /\ call'[t] = call[t]
        /\ UNCHANGED <<mem, gone, users, inited, db>>
    BY <1>29, ExchangeEffect
  <2>2. pc'[t] \in {"count", "start", "done", "uncount", "detach", "others"}
    BY <2>1 DEF After, Calls
  <2>3. Attached(t)
    BY <2>1 DEF Calls
  <2>4. pc'[t] \notin HeldPCs /\ pc'[t] # "create" /\ pc'[t] # "raise" /\ pc'[t] \notin EarlyPCs
    BY <2>2
  <2> QED BY <2>1, <2>3, <2>4
<1>30. CASE Uncount(t)
  BY <1>30, UncountEffect
<1>31. CASE Any(t)
  BY <1>31, AnyEffect
<1>32. CASE Detach(t)
  <2>1. Is(t, "final") \/ Is(t, "signal")
    BY <1>32, DetachEffect, ReadyLocated, WhichCall
  <2>2. CASE Is(t, "final")
    BY <1>32, <2>2, DetachEffect
  <2>3. CASE Is(t, "signal")
    BY <1>32, <2>3, DetachEffect
  <2> QED BY <2>1, <2>2, <2>3
<1>33. CASE Delete(t)
  <2>1. Is(t, "final") /\ pc[t] = "delete" /\ t \notin inited
    BY <1>33, DeleteEffect, ReadyLocated, PointerThere
  <2> QED BY <1>33, <2>1, DeleteEffect
<1>34. CASE Leave(t)
  <2>1. Is(t, "final") /\ pc[t] = "leave" /\ t \notin inited
    BY <1>34, LeaveEffect, ReadyLocated, PointerThere
  <2> QED BY <1>34, <2>1, LeaveEffect
<1>35. CASE Unpoint(t)
  <2>1. pc[t] = "unpoint" /\ pc'[t] = "idle" /\ call'[t].op = "none" /\ inited' = inited
    BY <1>35, UnpointEffect DEF NoCall
  <2>2. t \notin inited
    BY <2>1, ReadyLocated, PointerThere
  <2> QED BY <2>1, <2>2
<1>36. CASE Others(t)
  BY <1>36, OthersEffect
<1> HIDE DEF Located, CallAt, MemAt, Attached, Is, SameOp, SameAt, SameStep, SameMem,
             SameWords, SameLast, TablePCs, SeatPCs, FinalPCs, WordPCs, InitPCs, EarlyPCs,
             EntryPCs, HeldPCs
<1> QED BY <1>5, <1>6, <1>7, <1>8, <1>9, <1>10, <1>11, <1>12, <1>13, <1>14, <1>15, <1>16,
           <1>17, <1>18, <1>19, <1>20, <1>21, <1>22, <1>23, <1>24, <1>25, <1>26, <1>27,
           <1>28, <1>29, <1>30, <1>31, <1>32, <1>33, <1>34, <1>35, <1>36
        DEF Step, InitStep, WordStep, FinalStep

\* Every step but the end of a process keeps MemInv.
LEMMA MemStep ==
  ASSUME Ready, NEW t \in Threads, Step(t)
  PROVE  MemInv'
BY MemOwn, MemOthers DEF MemInv

-----------------------------------------------------------------------------
(* MRAPI's counts.                                                         *)

\* How a step of a thread changes the references that MRAPI counts.
RefMove(t) ==
  \/ (Attached(t)' => Attached(t)) /\ refs' = refs
  \/ ~Attached(t) /\ Attached(t)' /\ refs' = refs + 1
  \/ Attached(t) /\ ~Attached(t)' /\ refs' = refs - 1
  \/ ~Attached(t)' /\ refs' = 0 /\ pc[t] = "create" /\ mem = NoMem

\* MRAPI counts a thread when it attaches the memory, until it detaches it.
LEMMA RefMoves ==
  ASSUME Ready, NEW t \in Threads, Step(t)
  PROVE  RefMove(t)
<1>1. Located(t) /\ CallAt(t)
  BY ReadyLocated
<1>2. CallAt(t)'
  BY CallOwn
<1> USE <1>1, <1>2 DEF RefMove, Located, CallAt, Attached, Is, SameOp, SameAt, SameStep,
                       SameMem, SameWords, SameLast, TablePCs, SeatPCs, FinalPCs, WordPCs,
                       InitPCs, EarlyPCs, EntryPCs, HeldPCs
<1>3. ASSUME NEW start \in BOOLEAN, CallInitialize(t, start)
      PROVE  RefMove(t)
  <2>1. /\ call'[t].op = "init" /\ pc'[t] = "mrapi" /\ UNCHANGED <<refs, inited>>
    <3> HIDE DEF Located, CallAt, RefMove, Attached
    <3> QED BY <1>3, CallInitializeEffect
  <2> QED BY <2>1
<1>4. CASE CallStart(t)
  BY <1>4, CallStartEffect
<1>5. CASE CallFinalize(t)
  BY <1>5, CallFinalizeEffect
<1>6. CASE CallSignal(t)
  BY <1>6, CallSignalEffect
<1>7. CASE Restart(t)
  BY <1>7, RestartEffect
<1>8. CASE MrapiInitialize(t)
  BY <1>8, MrapiInitializeEffect DEF NoCall
<1>9. CASE Find(t)
  BY <1>9, FindEffect
<1>10. CASE AttachFound(t)
  <2>1. Is(t, "init") /\ t \notin inited /\ ~Attached(t)
    BY <1>10, AttachFoundEffect, ReadyLocated, WhichCall
  <2>2. Attached(t)' /\ refs' = refs + 1
    BY <1>10, <2>1, AttachFoundEffect
  <2> QED BY <2>1, <2>2
<1>11. CASE Point(t)
  BY <1>11, PointEffect
<1>12. CASE Create(t)
  <2>1. Is(t, "init") /\ t \notin inited /\ ~Attached(t)
    BY <1>12, CreateEffect, ReadyLocated, WhichCall
  <2>2. ~Attached(t)' /\ (refs' = refs \/ (refs' = 0 /\ mem = NoMem /\ pc[t] = "create"))
    BY <1>12, <2>1, CreateEffect DEF NoCall
  <2> QED BY <2>1, <2>2
<1>13. CASE AttachCreated(t)
  <2>1. Is(t, "init") /\ t \notin inited /\ ~Attached(t)
    BY <1>13, AttachCreatedEffect, ReadyLocated, WhichCall
  <2>2. \/ Attached(t)' /\ refs' = refs + 1
        \/ ~Attached(t)' /\ refs' = refs
    BY <1>13, <2>1, AttachCreatedEffect DEF NoCall
  <2> QED BY <2>1, <2>2
<1>14. CASE Place(t)
  BY <1>14, PlaceEffect
<1>15. CASE Wipe(t)
  BY <1>15, WipeEffect
<1>16. CASE DomainFind(t)
  BY <1>16, DomainFindEffect
<1>17. CASE DomainClaim(t)
  BY <1>17, DomainClaimEffect
<1>18. CASE Scan(t)
  BY <1>18, ScanEffect DEF NoCall
<1>19. CASE SlotRead(t)
  BY <1>19, SlotReadEffect
<1>20. CASE SlotClaim(t)
  BY <1>20, SlotClaimEffect DEF NoCall
<1>21. CASE Own(t)
  BY <1>21, OwnEffect
<1>22. CASE Count(t)
  BY <1>22, CountEffect
<1>23. CASE StartNow(t)
  BY <1>23, StartNowEffect
<1>24. CASE Done(t)
  <2>1. Attached(t) /\ refs' = refs
    BY <1>24, DoneEffect, ReadyLocated, WhichCall
  <2> QED BY <2>1
<1>25. CASE Copy(t)
  BY <1>25, CopyEffect
<1>26. CASE ExchangeRead(t)
  BY <1>26, ExchangeReadEffect
<1>27. CASE Exchange(t)
  <2>1. Attached(t) /\ refs' = refs
    BY <1>27, ExchangeEffect DEF Calls
  <2> QED BY <2>1
<1>28. CASE Uncount(t)
  BY <1>28, UncountEffect
<1>29. CASE Any(t)
  BY <1>29, AnyEffect
<1>30. CASE Detach(t)
  <2>1. pc[t] = "detach" /\ (Is(t, "final") \/ Is(t, "signal"))
    BY <1>30, DetachEffect, ReadyLocated, WhichCall
  <2>2. Attached(t) /\ t \in users
    BY <2>1, ReadyLocated DEF MemAt
  <2>3. call'[t] = call[t] /\ pc'[t] \in {"raise", "delete"} /\ inited' = inited
    BY <1>30, DetachEffect
  <2>4. ~Attached(t)'
    BY <2>1, <2>3
  <2>5. refs' = refs \/ refs' = refs - 1
    BY <1>30, DetachEffect
  <2> QED BY <2>2, <2>4, <2>5
<1>31. CASE Delete(t)
  BY <1>31, DeleteEffect
<1>32. CASE Leave(t)
  BY <1>32, LeaveEffect
<1>33. CASE Unpoint(t)
  BY <1>33, UnpointEffect DEF NoCall
<1>34. CASE Others(t)
  BY <1>34, OthersEffect
<1> HIDE DEF RefMove, Located, CallAt, Attached, Is, SameOp, SameAt, SameStep, SameMem,
             SameWords, SameLast, TablePCs, SeatPCs, FinalPCs, WordPCs, InitPCs, EarlyPCs,
             EntryPCs, HeldPCs
<1> QED BY <1>3, <1>4, <1>5, <1>6, <1>7, <1>8, <1>9, <1>10, <1>11, <1>12, <1>13, <1>14,
           <1>15, <1>16, <1>17, <1>18, <1>19, <1>20, <1>21, <1>22, <1>23, <1>24, <1>25,
           <1>26, <1>27, <1>28, <1>29, <1>30, <1>31, <1>32, <1>33, <1>34
        DEF Step, InitStep, WordStep, FinalStep

\* Every step but the end of a process keeps RefInv.
LEMMA RefStep ==
  ASSUME Ready, NEW t \in Threads, Step(t)
  PROVE  RefInv'
<1> DEFINE S == {u \in Threads : Attached(u)}
<1>1. TypeInv /\ RefInv /\ MemInv /\ PhaseInv /\ refs \in Nat /\ inited \subseteq Threads
  BY DEF Ready, NodeInvariant, TypeInv, MemType
<1>2. \A u \in Threads \ {t} : Attached(u)' <=> Attached(u)
  BY <1>1, ThreadFrame DEF Attached, Is
<1>3. IsFiniteSet(S) /\ Cardinality(S) \in Nat /\ refs >= Cardinality(S)
  BY <1>1, NodesAssumption, FS_Subset, FS_CardinalityType DEF RefInv
<1>4. RefInv' <=> refs' >= Cardinality(S')
  BY DEF RefInv
<1>5. CASE (Attached(t)' => Attached(t)) /\ refs' = refs
  <2>1. S' \in SUBSET S
    BY <1>2, <1>5
  <2>2. Cardinality(S') <= Cardinality(S) /\ Cardinality(S') \in Nat
    BY <2>1, <1>3, FS_Subset, FS_CardinalityType
  <2> QED BY <2>2, <1>1, <1>3, <1>4, <1>5
<1>6. CASE ~Attached(t) /\ Attached(t)' /\ refs' = refs + 1
  <2>1. S' = S \cup {t} /\ t \notin S
    BY <1>2, <1>6
  <2>2. Cardinality(S') = Cardinality(S) + 1
    BY <2>1, <1>3, FS_AddElement
  <2> QED BY <2>2, <1>1, <1>3, <1>4, <1>6
<1>7. CASE Attached(t) /\ ~Attached(t)' /\ refs' = refs - 1
  <2>1. S' = S \ {t} /\ t \in S
    BY <1>2, <1>7
  <2>2. Cardinality(S') = Cardinality(S) - 1
    BY <2>1, <1>3, FS_RemoveElement
  <2> QED BY <2>2, <1>1, <1>3, <1>4, <1>7
<1>8. CASE ~Attached(t)' /\ refs' = 0 /\ pc[t] = "create" /\ mem = NoMem
  <2>1. Is(t, "init") /\ inited = {}
    BY <1>1, <1>8, ReadyLocated, WhichCall DEF EarlyPCs, MemInv, MemAt
  <2>2. \A u \in Threads \ {t} : ~Attached(u)
    BY <2>1, <1>1 DEF PhaseInv, Attached
  <2>3. S' = {}
    BY <2>2, <1>2, <1>8
  <2> QED BY <2>3, <1>4, <1>8, FS_EmptySet
<1> QED BY <1>5, <1>6, <1>7, <1>8, RefMoves DEF RefMove

\* Only the start of an initialize counts one.
LEMMA InitsMoves ==
  ASSUME Ready, NEW t \in Threads, Step(t)
  PROVE  \/ inits' = inits /\ (call'[t].op = "init" => Is(t, "init"))
         \/ /\ inits' = inits + 1 /\ inits < MaxInits /\ mem' = mem /\ gone' = gone
            /\ pc[t] = "idle"
<1> USE DEF Is, SameOp, SameAt, SameStep, SameMem, SameWords, SameLast
<1>1. ASSUME NEW start \in BOOLEAN, CallInitialize(t, start)
      PROVE  \/ inits' = inits /\ (call'[t].op = "init" => Is(t, "init"))
         \/ /\ inits' = inits + 1 /\ inits < MaxInits /\ mem' = mem /\ gone' = gone
            /\ pc[t] = "idle"
  BY <1>1, CallInitializeEffect
<1>2. CASE CallStart(t)
  BY <1>2, CallStartEffect
<1>3. CASE CallFinalize(t)
  BY <1>3, CallFinalizeEffect
<1>4. CASE CallSignal(t)
  BY <1>4, CallSignalEffect
<1>5. CASE Restart(t)
  BY <1>5, RestartEffect
<1>6. CASE MrapiInitialize(t)
  BY <1>6, MrapiInitializeEffect DEF NoCall
<1>7. CASE Find(t)
  BY <1>7, FindEffect
<1>8. CASE AttachFound(t)
  BY <1>8, AttachFoundEffect
<1>9. CASE Point(t)
  BY <1>9, PointEffect
<1>10. CASE Create(t)
  BY <1>10, CreateEffect DEF NoCall
<1>11. CASE AttachCreated(t)
  BY <1>11, AttachCreatedEffect DEF NoCall
<1>12. CASE Place(t)
  BY <1>12, PlaceEffect
<1>13. CASE Wipe(t)
  BY <1>13, WipeEffect
<1>14. CASE DomainFind(t)
  BY <1>14, DomainFindEffect
<1>15. CASE DomainClaim(t)
  BY <1>15, DomainClaimEffect
<1>16. CASE Scan(t)
  BY <1>16, ScanEffect DEF NoCall
<1>17. CASE SlotRead(t)
  BY <1>17, SlotReadEffect
<1>18. CASE SlotClaim(t)
  BY <1>18, SlotClaimEffect DEF NoCall
<1>19. CASE Own(t)
  BY <1>19, OwnEffect
<1>20. CASE Count(t)
  BY <1>20, CountEffect
<1>21. CASE StartNow(t)
  BY <1>21, StartNowEffect
<1>22. CASE Done(t)
  BY <1>22, DoneEffect DEF NoCall
<1>23. CASE Copy(t)
  BY <1>23, CopyEffect
<1>24. CASE ExchangeRead(t)
  BY <1>24, ExchangeReadEffect
<1>25. CASE Exchange(t)
  BY <1>25, ExchangeEffect
<1>26. CASE Uncount(t)
  BY <1>26, UncountEffect
<1>27. CASE Any(t)
  BY <1>27, AnyEffect
<1>28. CASE Detach(t)
  BY <1>28, DetachEffect
<1>29. CASE Delete(t)
  BY <1>29, DeleteEffect
<1>30. CASE Leave(t)
  BY <1>30, LeaveEffect
<1>31. CASE Unpoint(t)
  BY <1>31, UnpointEffect DEF NoCall
<1>32. CASE Others(t)
  BY <1>32, OthersEffect
<1> HIDE DEF Is, SameOp, SameAt, SameStep, SameMem, SameWords, SameLast
<1> QED BY <1>1, <1>2, <1>3, <1>4, <1>5, <1>6, <1>7, <1>8, <1>9, <1>10, <1>11, <1>12,
           <1>13, <1>14, <1>15, <1>16, <1>17, <1>18, <1>19, <1>20, <1>21, <1>22, <1>23,
           <1>24, <1>25, <1>26, <1>27, <1>28, <1>29, <1>30, <1>31, <1>32
        DEF Step, InitStep, WordStep, FinalStep

\* Every step but the end of a process keeps MadeInv.
LEMMA MadeStep ==
  ASSUME Ready, NEW t \in Threads, Step(t)
  PROVE  MadeInv'
<1>1. TypeInv /\ MadeInv /\ PhaseInv /\ inits \in Nat /\ MaxInits \in Nat /\ MemInv
  BY NodesAssumption DEF Ready, NodeInvariant, TypeInv, MemType
<1>2. \A u \in Threads \ {t} : Is(u, "init")' <=> Is(u, "init")
  BY <1>1, ThreadFrame DEF Is
<1>3. \/ inits' = inits /\ (call'[t].op = "init" => Is(t, "init"))
      \/ /\ inits' = inits + 1 /\ inits < MaxInits /\ mem' = mem /\ gone' = gone
         /\ Is(t, "none")
  BY InitsMoves, ReadyLocated, WhichCall
<1>4. PICK k \in 0 .. inits :
        /\ gone \cup ({mem} \ {NoMem}) = 1 .. k
        /\ mem = NoMem /\ (\E u \in Threads : Is(u, "init")) => k < inits
        /\ inits <= MaxInits
  BY <1>1 DEF MadeInv
<1>5. (\E u \in Threads : Is(u, "init")') /\ inits' = inits => \E u \in Threads : Is(u, "init")
  BY <1>1, <1>2, <1>3 DEF Is
<1>6. inits' \in Nat /\ inits' >= inits /\ inits' <= MaxInits
  BY <1>1, <1>3, <1>4
<1>7. CASE mem' = mem /\ gone' = gone
  BY <1>1, <1>3, <1>4, <1>5, <1>6, <1>7 DEF MadeInv
<1>8. CASE mem = NoMem /\ mem' # NoMem /\ gone' = gone /\ Is(t, "init") /\ pc[t] = "create"
  <2>1. mem' = Cardinality(gone) + 1 /\ inits' = inits
    BY <1>8, CreateEffect, MemoryFrame, DeleteEffect, LeaveEffect DEF FewSteps, MemSteps
  <2>2. \E j \in 0 .. inits : gone \cup {Cardinality(gone) + 1} = 1 .. j
    BY <1>1, <1>8, MadeNext
  <2>3. gone' \cup ({mem'} \ {NoMem}) = gone \cup {Cardinality(gone) + 1}
    BY <2>1, <1>8
  <2> QED BY <2>1, <2>2, <2>3, <1>6, <1>8 DEF MadeInv
<1>9. CASE mem # NoMem /\ gone' = gone \cup {mem} /\ mem' \in {mem, NoMem} /\ Is(t, "final")
  <2>1. gone' \cup ({mem'} \ {NoMem}) = gone \cup ({mem} \ {NoMem})
    BY <1>9
  <2>2. inits' = inits
    BY <1>3, <1>9 DEF Is
  <2>3. ~\E u \in Threads : Is(u, "init")'
    BY <1>1, <1>2, <1>3, <1>9, <2>2 DEF PhaseInv, Is
  <2> QED BY <2>1, <2>2, <2>3, <1>4, <1>6 DEF MadeInv
<1> QED BY <1>7, <1>8, <1>9, MemoryMoves DEF Mems, NoMem

-----------------------------------------------------------------------------
(* The table.                                                              *)

\* Only a few steps change the table.
TableSteps(t) == Wipe(t) \/ DomainClaim(t) \/ SlotClaim(t) \/ Own(t) \/ Exchange(t) \/ Others(t)
FewTableSteps(t) == (dom' = dom /\ node' = node /\ owner' = owner) \/ TableSteps(t)

\* The others leave the words, the domains and the owners alone.
LEMMA TableFrame ==
  ASSUME Ready, NEW t \in Threads, Step(t)
  PROVE  FewTableSteps(t)
<1> USE DEF FewTableSteps, TableSteps
<1>1. ASSUME NEW start \in BOOLEAN, CallInitialize(t, start)
      PROVE  FewTableSteps(t)
  BY <1>1, CallInitializeEffect
<1>2. CASE CallStart(t)
  BY <1>2, CallStartEffect
<1>3. CASE CallFinalize(t)
  BY <1>3, CallFinalizeEffect
<1>4. CASE CallSignal(t)
  BY <1>4, CallSignalEffect
<1>5. CASE Restart(t)
  BY <1>5, RestartEffect
<1>6. CASE MrapiInitialize(t)
  BY <1>6, MrapiInitializeEffect
<1>7. CASE Find(t)
  BY <1>7, FindEffect
<1>8. CASE AttachFound(t)
  BY <1>8, AttachFoundEffect
<1>9. CASE Point(t)
  BY <1>9, PointEffect
<1>10. CASE Create(t)
  BY <1>10, CreateEffect
<1>11. CASE AttachCreated(t)
  BY <1>11, AttachCreatedEffect
<1>12. CASE Place(t)
  BY <1>12, PlaceEffect
<1>13. CASE Wipe(t)
  BY <1>13, WipeEffect
<1>14. CASE DomainFind(t)
  BY <1>14, DomainFindEffect
<1>15. CASE DomainClaim(t)
  BY <1>15, DomainClaimEffect
<1>16. CASE Scan(t)
  BY <1>16, ScanEffect
<1>17. CASE SlotRead(t)
  BY <1>17, SlotReadEffect
<1>18. CASE SlotClaim(t)
  BY <1>18, SlotClaimEffect
<1>19. CASE Own(t)
  BY <1>19, OwnEffect
<1>20. CASE Count(t)
  BY <1>20, CountEffect
<1>21. CASE StartNow(t)
  BY <1>21, StartNowEffect
<1>22. CASE Done(t)
  BY <1>22, DoneEffect
<1>23. CASE Copy(t)
  BY <1>23, CopyEffect
<1>24. CASE ExchangeRead(t)
  BY <1>24, ExchangeReadEffect
<1>25. CASE Exchange(t)
  BY <1>25, ExchangeEffect
<1>26. CASE Uncount(t)
  BY <1>26, UncountEffect
<1>27. CASE Any(t)
  BY <1>27, AnyEffect
<1>28. CASE Detach(t)
  BY <1>28, DetachEffect
<1>29. CASE Delete(t)
  BY <1>29, DeleteEffect
<1>30. CASE Leave(t)
  BY <1>30, LeaveEffect
<1>31. CASE Unpoint(t)
  BY <1>31, UnpointEffect
<1>32. CASE Others(t)
  BY <1>32, OthersEffect
<1> HIDE DEF FewTableSteps, TableSteps
<1> QED BY <1>1, <1>2, <1>3, <1>4, <1>5, <1>6, <1>7, <1>8, <1>9, <1>10, <1>11, <1>12,
           <1>13, <1>14, <1>15, <1>16, <1>17, <1>18, <1>19, <1>20, <1>21, <1>22, <1>23,
           <1>24, <1>25, <1>26, <1>27, <1>28, <1>29, <1>30, <1>31, <1>32
        DEF Step, InitStep, WordStep, FinalStep

\* A signal handler goes on until it ends its process.
LEMMA SignalStays ==
  ASSUME Ready, NEW t \in Threads, Step(t), NEW u \in Threads
  PROVE  /\ Is(u, "signal") => Is(u, "signal")'
         /\ Signalled(Proc[u]) => Signalled(Proc[u])'
<1>1. \A v \in Threads : Is(v, "signal") => Is(v, "signal")'
  <2> SUFFICES ASSUME NEW v \in Threads, Is(v, "signal")
               PROVE  Is(v, "signal")'
    OBVIOUS
  <2>1. CASE v # t
    BY <2>1, ReadyLocated, ThreadFrame DEF Is
  <2>2. CASE v = t
    BY <2>2, OpMoves, ReadyLocated, WhichCall DEF Is, OpMove
  <2> QED BY <2>1, <2>2
<1> QED BY <1>1 DEF Signalled

\* The place of a thread in the table.
LEMMA HolderSeat ==
  ASSUME Ready, NEW u \in Threads, Holds(u)
  PROVE  /\ Anchored(u) /\ Mine(u) \in Mems /\ Seat(u) \in Seats
         /\ Seat(u)[1] \in Domains /\ pc[u] # "dead"
         /\ Seated(u) => /\ node[Mine(u)][Seat(u)].alloc /\ dom[Mine(u)][Seat(u)[1]]
                         /\ pc[u] # "own" => owner[Mine(u)][Seat(u)] = Pid(u)
<1>1. Located(u) /\ CallAt(u) /\ MemAt(u) /\ SeatAt(u)
  BY ReadyLocated
<1>2. Anchored(u)
  BY DEF Holds, Seated, Anchored, Is
<1>3. Mine(u) \in Mems
  <2>1. Mine(u) # NoMem
    BY <1>1, <1>2 DEF Anchored, MemAt, EarlyPCs, TablePCs, SeatPCs, WordPCs
  <2> QED BY <2>1, <1>1 DEF Located
<1>4. Seat(u) \in Seats /\ Seat(u)[1] \in Domains
  BY <1>1 DEF Seat, Located, At
<1>5. pc[u] # "dead"
  BY <1>1, <1>2 DEF Anchored, CallAt, Is, InitPCs, FinalPCs, EarlyPCs, EntryPCs, HeldPCs,
     TablePCs, SeatPCs, WordPCs
<1> QED BY <1>1, <1>2, <1>3, <1>4, <1>5 DEF SeatAt, Seat

\* A step of another thread leaves the slot of a thread alone, but for the flag
\* that a signal handler clears.
LEMMA HolderTable ==
  ASSUME Ready, NEW t \in Threads, Step(t), NEW u \in Threads \ {t}, Holds(u)
  PROVE  LET w == node[Mine(u)][Seat(u)]
             v == node'[Mine(u)][Seat(u)] IN
         /\ v.alloc = w.alloc /\ v.num = w.num /\ v.rundown = w.rundown
         /\ v = w \/ (Is(t, "signal") /\ (Seated(u) => Proc[u] = Proc[t]))
         /\ dom[Mine(u)][Seat(u)[1]] => dom'[Mine(u)][Seat(u)[1]]
         /\ owner'[Mine(u)][Seat(u)] = owner[Mine(u)][Seat(u)]
<1> DEFINE m == Mine(u)
           x == Seat(u)
<1>1. m \in Mems /\ x \in Seats /\ x[1] \in Domains /\ Anchored(u)
  BY HolderSeat
<1>2. Seated(u) => /\ node[m][x].alloc
                   /\ pc[u] # "own" => owner[m][x] = Pid(u)
  BY HolderSeat
<1>3. /\ Located(t) /\ CallAt(t) /\ CallAt(u) /\ PhaseInv /\ SeatInv /\ TypeInv
      /\ dom \in [Mems -> [Domains -> BOOLEAN]] /\ node \in [Mems -> [Seats -> Words]]
      /\ owner \in [Mems -> [Seats -> Owners]]
  BY ReadyLocated DEF Ready, NodeInvariant, TypeInv, TableType
<1>4. node[m][x] \in Words
  BY <1>1, <1>3
<1>5. Holds(t) /\ Mine(t) = m => Seat(t) # x
  BY <1>3 DEF SeatInv
<1>6. ~Is(t, "init") \/ ~Is(u, "final")
  BY <1>3 DEF PhaseInv
<1> HIDE DEF m, x
<1>7. CASE dom' = dom /\ node' = node /\ owner' = owner
  BY <1>7 DEF m, x
<1>8. CASE Wipe(t)
  <2>1. pc[t] = "wipe"
    BY <1>8, WipeEffect
  <2>2. Is(t, "init") /\ inited = {}
    BY <2>1, <1>3, ReadyLocated, PointerThere DEF TablePCs, PhaseInv, CreatePCs
  <2> QED BY <2>2, <1>1, <1>3, <1>6 DEF Anchored, PhaseInv
<1>9. CASE DomainClaim(t)
  <2>1. /\ Mine(t) \in Mems /\ dom' = [dom EXCEPT ![Mine(t)][call[t].d] = TRUE]
        /\ node' = node /\ owner' = owner
    BY <1>9, DomainClaimEffect
  <2>2. dom[m][x[1]] => dom'[m][x[1]]
    BY <2>1, <1>1, <1>3 DEF Located
  <2> QED BY <2>1, <2>2 DEF m, x
<1>10. CASE SlotClaim(t)
  <2>1. pc[t] = "claim" /\ Mine(t) \in Mems /\ dom' = dom /\ owner' = owner
    BY <1>10, SlotClaimEffect
  <2>2. Is(t, "init")
    BY <2>1, ReadyLocated, PointerThere DEF TablePCs
  <2>3. Seated(u)
    BY <2>2, <1>6 DEF Holds
  <2>4. \/ node' = node
        \/ ~Word(t).alloc /\ \E w \in Words : node' = [node EXCEPT ![Mine(t)][At(t)] = w]
    BY <1>10, SlotClaimEffect
  <2>5. ~Word(t).alloc => Mine(t) # m \/ At(t) # x
    BY <2>3, <1>2 DEF Word
  <2>6. node'[m][x] = node[m][x]
    <3>1. CASE ~Word(t).alloc /\ \E w \in Words : node' = [node EXCEPT ![Mine(t)][At(t)] = w]
      <4>1. PICK w \in Words : node' = [node EXCEPT ![Mine(t)][At(t)] = w]
        BY <3>1
      <4>2. Mine(t) # m \/ At(t) # x
        BY <2>5, <3>1
      <4> QED BY <2>1, <4>1, <4>2, <1>1, <1>3, OneEntry DEF Located
    <3> QED BY <2>4, <3>1
  <2> QED BY <2>1, <2>6 DEF m, x
<1>11. CASE Own(t)
  <2>1. /\ pc[t] = "own" /\ Mine(t) \in Mems /\ dom' = dom /\ node' = node
        /\ owner' = [owner EXCEPT ![Mine(t)][At(t)] = Pid(t)]
    BY <1>11, OwnEffect
  <2>2. Is(t, "init")
    BY <2>1, ReadyLocated, PointerThere DEF SeatPCs
  <2>3. Holds(t) /\ Seat(t) = At(t)
    BY <2>1, <2>2 DEF Holds, Seated, SeatPCs, Seat
  <2>4. owner'[m][x] = owner[m][x]
    BY <2>1, <2>3, <1>1, <1>3, <1>5, OneEntry DEF Located
  <2> QED BY <2>1, <2>4 DEF m, x
<1>12. CASE Exchange(t)
  <2>1. /\ pc[t] = "xswap" /\ Mine(t) \in Mems /\ dom' = dom /\ owner' = owner
        /\ node' = node \/ node' = [node EXCEPT ![Mine(t)][At(t)] = call[t].new]
    BY <1>12, ExchangeEffect
  <2>2. Holds(t) /\ Seat(t) = At(t)
    BY <2>1, <1>3 DEF Located, CallAt, Holds, Seated, Seat, Is, Calls, SeatPCs, WordPCs
  <2>3. node'[m][x] = node[m][x]
    <3>1. CASE node' = [node EXCEPT ![Mine(t)][At(t)] = call[t].new]
      <4>1. Mine(t) # m \/ At(t) # x
        BY <2>2, <1>5
      <4> QED BY <2>1, <3>1, <4>1, <1>1, <1>3, OneEntry DEF Located
    <3> QED BY <2>1, <3>1
  <2> QED BY <2>1, <2>3 DEF m, x
<1>13. CASE Others(t)
  <2>1. pc[t] = "others" /\ Mine(t) \in Mems /\ dom' = dom /\ owner' = owner
    BY <1>13, OthersEffect
  <2>2. Is(t, "signal")
    BY <2>1, ReadyLocated, PointerThere
  <2>3. node' = [node EXCEPT ![Mine(t)] = [y \in Seats |-> IF owner[Mine(t)][y] = Pid(t)
                     THEN [node[Mine(t)][y] EXCEPT !.valid = FALSE] ELSE node[Mine(t)][y]]]
    BY <1>13, OthersEffect
  <2>4. \/ node'[m][x] = node[m][x]
        \/ m = Mine(t) /\ owner[m][x] = Pid(t) /\ node'[m][x] = [node[m][x] EXCEPT !.valid = FALSE]
    BY <2>1, <2>3, <1>1, <1>3
  <2>5. CASE node'[m][x] = node[m][x]
    BY <2>1, <2>5 DEF m, x
  <2>6. CASE owner[m][x] = Pid(t) /\ node'[m][x] = [node[m][x] EXCEPT !.valid = FALSE]
    <3>1. /\ node'[m][x].alloc = node[m][x].alloc /\ node'[m][x].num = node[m][x].num
          /\ node'[m][x].rundown = node[m][x].rundown
      BY <2>6, <1>4 DEF Words
    <3>2. Seated(u) => pc[u] # "own"
      BY <2>2, <1>3, ReadyLocated DEF PhaseInv, Seated, CallAt, Is, WordPCs, Located, Calls
    <3>3. Seated(u) => Pid(u) = Pid(t)
      BY <2>6, <3>2, <1>2
    <3>4. Seated(u) => Proc[u] = Proc[t]
      BY <3>3 DEF Pid
    <3> QED BY <2>1, <2>2, <3>1, <3>4 DEF m, x
  <2> QED BY <2>4, <2>5, <2>6
<1> QED BY <1>7, <1>8, <1>9, <1>10, <1>11, <1>12, <1>13, TableFrame DEF FewTableSteps, TableSteps

\* A step of another thread leaves what a thread knows of its slot true.
LEMMA SeatOthers ==
  ASSUME Ready, NEW t \in Threads, Step(t), NEW u \in Threads \ {t}
  PROVE  /\ SeatAt(u)'
         /\ (Holds(u)' <=> Holds(u)) /\ (Seated(u)' <=> Seated(u)) /\ Seat(u)' = Seat(u)
         /\ Holds(u) => Mine(u)' = Mine(u)
<1>1. /\ SeatAt(u) /\ CallAt(u) /\ CallAt(t) /\ PhaseInv /\ TypeInv /\ Located(u) /\ Located(t)
      /\ MemAt(u)
  BY ReadyLocated DEF Ready, NodeInvariant
<1>2. /\ pc'[u] = pc[u] /\ call'[u] = call[u] /\ place'[u] = place[u]
      /\ u \in inited' <=> u \in inited
  BY <1>1, ThreadFrame
<1>3. /\ Holds(u)' <=> Holds(u)
      /\ Seated(u)' <=> Seated(u)
      /\ Running(u)' <=> Running(u)
      /\ Seat(u)' = Seat(u) /\ At(u)' = At(u)
      /\ Anchored(u)' <=> Anchored(u)
      /\ \A op : Is(u, op)' <=> Is(u, op)
  BY <1>2 DEF Holds, Seated, Running, Seat, Anchored, Is, At
<1>4. Anchored(u) => Mine(u)' = Mine(u)
  BY <1>3, PointerKept
<1>5. Holds(u) => /\ Anchored(u)
                  /\ pc[u] # "dead"
  BY HolderSeat
<1>6. Holds(u) => Pid(u)' = Pid(u)
  BY <1>5, CallOthers DEF Pid
<1>7. Holds(u) =>
        LET w == node[Mine(u)][Seat(u)]
            v == node'[Mine(u)][Seat(u)] IN
        /\ v.alloc = w.alloc /\ v.num = w.num /\ v.rundown = w.rundown
        /\ v = w \/ (Is(t, "signal") /\ (Seated(u) => Proc[u] = Proc[t]))
        /\ dom[Mine(u)][Seat(u)[1]] => dom'[Mine(u)][Seat(u)[1]]
        /\ owner'[Mine(u)][Seat(u)] = owner[Mine(u)][Seat(u)]
  BY HolderTable
<1>8. pc[u] \in {"xread", "xswap"} => Holds(u) /\ Seat(u) = At(u)
  BY <1>1 DEF Located, CallAt, Holds, Seated, Seat, Is, Calls, SeatPCs, WordPCs
<1>9. Seated(u) => Holds(u)
  BY DEF Holds
<1>10. Seated(u) /\ pc[u] # "own" => Seat(u) = place[u]
  BY DEF Seat
<1> DEFINE S1(v) == Seated(v) =>
                      LET w == node[Mine(v)][Seat(v)] IN
                      /\ w.alloc /\ w.num = Num[v] /\ dom[Mine(v)][Seat(v)[1]]
                      /\ Running(v) => ~w.rundown
           S2(v) == Seated(v) /\ pc[v] # "own" => owner[Mine(v)][place[v]] = Pid(v)
           S3(v) == pc[v] \in {"xread", "xswap"} =>
                      /\ Seated(v) /\ ~Is(v, "final") => call[v].new.alloc /\ call[v].new.num = Num[v]
                      /\ Running(v) \/ call[v].step = "run" => ~call[v].new.rundown
                      /\ call[v].step = "free" => ~call[v].new.alloc
                      /\ call[v].step = "rundown" => call[v].new.alloc = Word(v).alloc
           S4(v) == pc[v] = "xswap" =>
                      /\ Is(v, "init") => call[v].old = Word(v)
                      /\ call[v].step = "free" => call[v].old = Word(v) \/ Signalled(Proc[v])
           S5(v) == Is(v, "init") /\ pc[v] \in {"scan", "read", "claim"} => dom[Mine(v)][call[v].d]
           S6(v) == Is(v, "init") /\ pc[v] = "dclaim" => \A d \in Domains : ~dom[Mine(v)][d]
<1>11. S1(u) /\ S2(u) /\ S3(u) /\ S4(u) /\ S5(u) /\ S6(u)
  BY <1>1 DEF SeatAt
<1>12. S1(u)'
  BY <1>3, <1>4, <1>5, <1>7, <1>9, <1>11
<1>13. S2(u)'
  BY <1>2, <1>3, <1>4, <1>5, <1>6, <1>7, <1>9, <1>10, <1>11
<1>14. S3(u)'
  <2>1. Holds(u) /\ Seat(u) = At(u) => Word(u)'.alloc = Word(u).alloc
    BY <1>3, <1>4, <1>5, <1>7 DEF Word
  <2> QED BY <2>1, <1>2, <1>3, <1>8, <1>11
<1>15. S4(u)'
  <2> SUFFICES ASSUME pc[u] = "xswap"
               PROVE  S4(u)'
    BY <1>2
  <2>1. Word(u)' = Word(u) \/ (Is(t, "signal") /\ (Seated(u) => Proc[u] = Proc[t]))
    BY <1>3, <1>4, <1>5, <1>7, <1>8 DEF Word
  <2>2. Is(u, "init") => ~Is(t, "signal")
    BY <1>1 DEF PhaseInv
  <2>3. call[u].step = "free" => Seated(u)
    BY <1>1 DEF CallAt, Seated, WordPCs, Located, Calls, Is
  <2>4. Is(t, "signal") /\ Proc[u] = Proc[t] => Signalled(Proc[u])'
    BY SignalStays DEF Signalled
  <2>5. Signalled(Proc[u]) => Signalled(Proc[u])'
    BY SignalStays
  <2> QED BY <2>1, <2>2, <2>3, <2>4, <2>5, <1>2, <1>3, <1>11
<1>16. S5(u)' /\ S6(u)'
  <2> SUFFICES ASSUME Is(u, "init"), pc[u] \in {"scan", "read", "claim", "dclaim"}
               PROVE  S5(u)' /\ S6(u)'
    BY <1>2, <1>3
  <2>1. Mine(u)' = Mine(u) /\ Mine(u) \in Mems /\ call[u].d \in Domains
    BY <1>1, <1>4 DEF Anchored, TablePCs, Located
  <2>2. dom' = dom \/ Wipe(t) \/ DomainClaim(t)
    BY TableFrame, SlotClaimEffect, OwnEffect, ExchangeEffect, OthersEffect
       DEF FewTableSteps, TableSteps
  <2>3. ~Wipe(t)
    <3>1. Wipe(t) => pc[t] = "wipe" /\ Is(t, "init")
      BY WipeEffect, ReadyLocated, PointerThere DEF TablePCs
    <3> QED BY <3>1, <1>1 DEF PhaseInv, CreatePCs
  <2>4. ~DomainClaim(t)
    <3>1. DomainClaim(t) => pc[t] = "dclaim" /\ Is(t, "init")
      BY DomainClaimEffect, ReadyLocated, PointerThere DEF TablePCs
    <3> QED BY <3>1, <1>1 DEF PhaseInv, CreatePCs
  <2> QED BY <2>1, <2>2, <2>3, <2>4, <1>2, <1>3, <1>11
<1>17. SeatAt(u)'
  BY <1>12, <1>13, <1>14, <1>15, <1>16 DEF SeatAt
<1> QED BY <1>3, <1>4, <1>5, <1>17

\* Where a thread uses its slot, or looks for one.
SlotPCs == {"xread", "xswap", "scan", "read", "claim", "dclaim"}

\* A thread that has no slot and does not look for one.
Unplaced(t) ==
  \/ Is(t, "none") /\ t \notin inited
  \/ Is(t, "init") /\ pc[t] \in EarlyPCs \cup EntryPCs \cup HeldPCs \cup {"wipe", "domain"}
  \/ Is(t, "final") /\ (pc[t] \in {"uncount", "any", "detach", "delete", "leave", "unpoint"}
                          \/ (pc[t] = "copy" /\ call[t].step = "rundown"))

\* Such a thread knows nothing of a slot.
LEMMA Unseated ==
  ASSUME NEW t \in Threads, CallAt(t)', Unplaced(t)'
  PROVE  SeatAt(t)'
<1>1. t \notin inited'
  BY DEF Unplaced, CallAt, Is
<1>2. pc'[t] \notin SlotPCs
  BY DEF Unplaced, CallAt, Is, SlotPCs, EarlyPCs, EntryPCs, HeldPCs
<1>3. ~Seated(t)'
  BY <1>1 DEF Unplaced, Seated, Is, SeatPCs, WordPCs, EarlyPCs, EntryPCs, HeldPCs
<1>4. ~Is(t, "init")' \/ pc'[t] \notin {"scan", "read", "claim", "dclaim"}
  BY <1>2 DEF SlotPCs
<1> QED BY <1>2, <1>3, <1>4 DEF SeatAt, SlotPCs

\* A thread that looks for a slot knows the domain that it looks in, or that
\* there is none.
LEMMA Looking ==
  ASSUME NEW t \in Threads, CallAt(t)', Is(t, "init")',
         pc'[t] \in {"scan", "read", "claim", "dclaim"},
         pc'[t] # "dclaim" => (dom[Mine(t)][call[t].d])',
         pc'[t] = "dclaim" => (\A d \in Domains : ~dom[Mine(t)][d])'
  PROVE  SeatAt(t)'
<1>1. ~Seated(t)'
  BY DEF CallAt, Seated, Is, SeatPCs, WordPCs
<1> QED BY <1>1 DEF SeatAt

\* A thread that keeps its slot, and starts no change of it, knows it still.
LEMMA Reseated ==
  ASSUME NEW t \in Threads, SeatAt(t), Seated(t), pc[t] # "own",
         pc'[t] \notin SlotPCs \cup {"own"}, place'[t] = place[t], Mine(t)' = Mine(t),
         Pid(t)' = Pid(t), dom' = dom, owner' = owner, node' = node, Running(t)' => Running(t)
  PROVE  SeatAt(t)'
<1>1. Seat(t)' = Seat(t) /\ Seat(t) = place[t]
  BY DEF Seat
<1> QED BY <1>1 DEF SeatAt, SlotPCs

\* After its own step a thread knows its slot.
LEMMA SeatOwn ==
  ASSUME Ready, NEW t \in Threads, Step(t)
  PROVE  SeatAt(t)'
<1>1. CallAt(t) /\ SeatAt(t) /\ CallAt(t)' /\ call[t] \in Calls
  BY ReadyLocated, CallOwn DEF Located
<1>2. /\ Mine(t)' = db'[Proc[t]] /\ Mine(t) = db[Proc[t]]
      /\ Pid(t) = <<Proc[t], epoch[Proc[t]]>> /\ Pid(t)' = <<Proc[t], epoch'[Proc[t]]>>
      /\ Word(t)' = node'[Mine(t)'][At(t)'] /\ Word(t) = node[Mine(t)][At(t)]
      /\ At(t) = <<call[t].d, call[t].n>> /\ At(t)' = <<call'[t].d, call'[t].n>>
      /\ At(t)[1] = call[t].d /\ (At(t) = place[t] => place[t][1] = call[t].d)
  BY DEF Mine, Pid, Word, At
<1>3. Signalled(Proc[t]) => Signalled(Proc[t])'
  BY SignalStays
<1>4. /\ dom \in [Mems -> [Domains -> BOOLEAN]] /\ node \in [Mems -> [Seats -> Words]]
      /\ owner \in [Mems -> [Seats -> Owners]]
      /\ At(t) \in Seats /\ Pid(t) \in Owners /\ place[t] \in Seats
  BY ReadyLocated DEF TypeInv, TableType, Located
<1>5. SameOp(t) => call'[t].op = call[t].op
  BY DEF SameOp
<1>6. ASSUME NEW start \in BOOLEAN, CallInitialize(t, start)
      PROVE  SeatAt(t)'
  <2>1. call'[t].op = "init" /\ pc'[t] = "mrapi"
    BY <1>6, CallInitializeEffect
  <2>2. Unplaced(t)'
    BY <2>1 DEF Unplaced, Is, EarlyPCs
  <2> QED BY <2>2, <1>1, Unseated
<1>7. CASE CallStart(t)
  <2>1. /\ pc[t] = "idle" /\ pc'[t] = "start" /\ t \in inited
        /\ UNCHANGED <<dom, node, owner, place, db, epoch>>
    BY <1>7, CallStartEffect
  <2>3. Seated(t) /\ (Running(t)' => Running(t))
    BY <2>1 DEF Seated, Running, Is, SeatPCs, WordPCs
  <2>4. /\ Mine(t)' = Mine(t) /\ Pid(t)' = Pid(t) /\ pc[t] # "own"
        /\ pc'[t] \notin SlotPCs \cup {"own"}
    BY <2>1, <1>2 DEF SlotPCs
  <2> QED BY <2>1, <2>3, <2>4, <1>1, Reseated
<1>8. CASE CallFinalize(t)
  <2>1. /\ pc[t] = "idle" /\ pc'[t] = "copy" /\ t \in inited
        /\ UNCHANGED <<dom, node, owner, place, db, epoch>>
    BY <1>8, CallFinalizeEffect
  <2>3. Seated(t) /\ (Running(t)' => Running(t))
    BY <2>1 DEF Seated, Running, Is, SeatPCs, WordPCs
  <2>4. /\ Mine(t)' = Mine(t) /\ Pid(t)' = Pid(t) /\ pc[t] # "own"
        /\ pc'[t] \notin SlotPCs \cup {"own"}
    BY <2>1, <1>2 DEF SlotPCs
  <2> QED BY <2>1, <2>3, <2>4, <1>1, Reseated
<1>9. CASE CallSignal(t)
  <2>1. /\ pc[t] = "idle" /\ pc'[t] = "copy" /\ t \in inited
        /\ UNCHANGED <<dom, node, owner, place, db, epoch>>
    BY <1>9, CallSignalEffect
  <2>3. Seated(t) /\ (Running(t)' => Running(t))
    BY <2>1 DEF Seated, Running, Is, SeatPCs, WordPCs
  <2>4. /\ Mine(t)' = Mine(t) /\ Pid(t)' = Pid(t) /\ pc[t] # "own"
        /\ pc'[t] \notin SlotPCs \cup {"own"}
    BY <2>1, <1>2 DEF SlotPCs
  <2> QED BY <2>1, <2>3, <2>4, <1>1, Reseated
<1>10. CASE Restart(t)
  <2>1. pc[t] = "dead" /\ inited' = inited /\ call'[t] = call[t]
    BY <1>10, RestartEffect
  <2>2. Is(t, "none")
    BY <2>1, ReadyLocated, WhichCall
  <2>3. t \notin inited'
    BY <2>1, <1>1 DEF CallAt
  <2>4. Unplaced(t)'
    BY <2>1, <2>2, <2>3 DEF Unplaced, Is
  <2> QED BY <2>4, <1>1, Unseated
<1>11. CASE MrapiInitialize(t)
  <2>1. /\ pc[t] = "mrapi" /\ inited' = inited
        /\ (pc'[t] = "idle" /\ call'[t].op = "none") \/ (pc'[t] = "find" /\ call'[t] = call[t])
    BY <1>11, MrapiInitializeEffect DEF NoCall
  <2>2. Is(t, "init")
    BY <2>1, ReadyLocated, WhichCall DEF EarlyPCs, EntryPCs, HeldPCs
  <2>3. t \notin inited'
    BY <2>1, <2>2, <1>1 DEF CallAt
  <2>4. Unplaced(t)'
    BY <2>1, <2>2, <2>3, <1>5 DEF Unplaced, Is, EarlyPCs, EntryPCs, HeldPCs
  <2> QED BY <2>4, <1>1, Unseated
<1>12. CASE Find(t)
  <2>1. /\ pc[t] = "find" /\ inited' = inited
        /\ pc'[t] \in {"attach", "create"} /\ call'[t] = call[t]
    BY <1>12, FindEffect
  <2>2. Is(t, "init")
    BY <2>1, ReadyLocated, WhichCall DEF EarlyPCs, EntryPCs, HeldPCs
  <2>3. t \notin inited'
    BY <2>1, <2>2, <1>1 DEF CallAt
  <2>4. Unplaced(t)'
    BY <2>1, <2>2, <2>3, <1>5 DEF Unplaced, Is, EarlyPCs, EntryPCs, HeldPCs
  <2> QED BY <2>4, <1>1, Unseated
<1>13. CASE AttachFound(t)
  <2>1. /\ pc[t] = "attach" /\ inited' = inited
        /\ pc'[t] = "point" /\ SameOp(t)
    BY <1>13, AttachFoundEffect
  <2>2. Is(t, "init")
    BY <2>1, ReadyLocated, WhichCall DEF EarlyPCs, EntryPCs, HeldPCs
  <2>3. t \notin inited'
    BY <2>1, <2>2, <1>1 DEF CallAt
  <2>4. Unplaced(t)'
    BY <2>1, <2>2, <2>3, <1>5 DEF Unplaced, Is, EarlyPCs, EntryPCs, HeldPCs
  <2> QED BY <2>4, <1>1, Unseated
<1>14. CASE Point(t)
  <2>1. /\ pc[t] = "point" /\ inited' = inited
        /\ pc'[t] = "domain" /\ call'[t] = call[t]
    BY <1>14, PointEffect
  <2>2. Is(t, "init")
    BY <2>1, ReadyLocated, WhichCall DEF EarlyPCs, EntryPCs, HeldPCs
  <2>3. t \notin inited'
    BY <2>1, <2>2, <1>1 DEF CallAt
  <2>4. Unplaced(t)'
    BY <2>1, <2>2, <2>3, <1>5 DEF Unplaced, Is, EarlyPCs, EntryPCs, HeldPCs
  <2> QED BY <2>4, <1>1, Unseated
<1>15. CASE Create(t)
  <2>1. /\ pc[t] = "create" /\ inited' = inited
        /\ (pc'[t] = "idle" /\ call'[t].op = "none") \/ (pc'[t] = "join" /\ call'[t] = call[t])
    BY <1>15, CreateEffect DEF NoCall
  <2>2. Is(t, "init")
    BY <2>1, ReadyLocated, WhichCall DEF EarlyPCs, EntryPCs, HeldPCs
  <2>3. t \notin inited'
    BY <2>1, <2>2, <1>1 DEF CallAt
  <2>4. Unplaced(t)'
    BY <2>1, <2>2, <2>3, <1>5 DEF Unplaced, Is, EarlyPCs, EntryPCs, HeldPCs
  <2> QED BY <2>4, <1>1, Unseated
<1>16. CASE AttachCreated(t)
  <2>1. /\ pc[t] = "join" /\ inited' = inited
        /\ (pc'[t] = "idle" /\ call'[t].op = "none") \/ (pc'[t] = "place" /\ SameOp(t))
    BY <1>16, AttachCreatedEffect DEF NoCall
  <2>2. Is(t, "init")
    BY <2>1, ReadyLocated, WhichCall DEF EarlyPCs, EntryPCs, HeldPCs
  <2>3. t \notin inited'
    BY <2>1, <2>2, <1>1 DEF CallAt
  <2>4. Unplaced(t)'
    BY <2>1, <2>2, <2>3, <1>5 DEF Unplaced, Is, EarlyPCs, EntryPCs, HeldPCs
  <2> QED BY <2>4, <1>1, Unseated
<1>17. CASE Place(t)
  <2>1. /\ pc[t] = "place" /\ inited' = inited
        /\ pc'[t] = "wipe" /\ call'[t] = call[t]
    BY <1>17, PlaceEffect
  <2>2. Is(t, "init")
    BY <2>1, ReadyLocated, WhichCall DEF EarlyPCs, EntryPCs, HeldPCs
  <2>3. t \notin inited'
    BY <2>1, <2>2, <1>1 DEF CallAt
  <2>4. Unplaced(t)'
    BY <2>1, <2>2, <2>3, <1>5 DEF Unplaced, Is, EarlyPCs, EntryPCs, HeldPCs
  <2> QED BY <2>4, <1>1, Unseated
<1>18. CASE Wipe(t)
  <2>1. /\ pc[t] = "wipe" /\ inited' = inited
        /\ pc'[t] \in {"wipe", "domain"} /\ SameOp(t)
    BY <1>18, WipeEffect
  <2>2. Is(t, "init")
    BY <2>1, ReadyLocated, PointerThere DEF TablePCs
  <2>3. t \notin inited'
    BY <2>1, <2>2, <1>1 DEF CallAt
  <2>4. Unplaced(t)'
    BY <2>1, <2>2, <2>3, <1>5 DEF Unplaced, Is, EarlyPCs, EntryPCs, HeldPCs
  <2> QED BY <2>4, <1>1, Unseated
<1>19. CASE DomainFind(t)
  <2>1. /\ pc[t] = "domain" /\ Mine(t) \in Mems /\ UNCHANGED <<db, inited>>
        /\ dom' = dom /\ SameOp(t) /\ pc'[t] \in {"scan", "dclaim"}
        /\ pc'[t] = "scan" => dom[Mine(t)][call'[t].d]
        /\ pc'[t] = "dclaim" => \A d \in Domains : ~dom[Mine(t)][d]
    BY <1>19, DomainFindEffect DEF SameOp
  <2>2. Is(t, "init")
    BY <2>1, ReadyLocated, PointerThere DEF TablePCs
  <2>3. Is(t, "init")' /\ Mine(t)' = Mine(t)
    BY <2>1, <2>2, <1>2, <1>5 DEF Is
  <2> QED BY <2>1, <2>3, <1>1, Looking
<1>20. CASE DomainClaim(t)
  <2>1. /\ pc[t] = "dclaim" /\ Mine(t) \in Mems /\ UNCHANGED <<db, inited>>
        /\ dom' = [dom EXCEPT ![Mine(t)][call[t].d] = TRUE] /\ pc'[t] = "scan"
        /\ call'[t] = call[t]
    BY <1>20, DomainClaimEffect
  <2>2. Is(t, "init")
    BY <2>1, ReadyLocated, PointerThere DEF TablePCs
  <2>3. dom'[Mine(t)][call[t].d]
    BY <2>1, <1>1, <1>4 DEF Calls
  <2>4. Is(t, "init")' /\ Mine(t)' = Mine(t)
    BY <2>1, <2>2, <1>2 DEF Is
  <2> QED BY <2>1, <2>3, <2>4, <1>1, Looking
<1>21. CASE Scan(t)
  <2>1. /\ pc[t] = "scan" /\ Mine(t) \in Mems /\ UNCHANGED <<db, inited>>
        /\ dom' = dom
        /\ \/ pc'[t] = "idle" /\ call'[t].op = "none"
           \/ pc'[t] \in {"scan", "read"} /\ SameOp(t) /\ call'[t].d = call[t].d
    BY <1>21, ScanEffect DEF NoCall
  <2>2. Is(t, "init")
    BY <2>1, ReadyLocated, PointerThere DEF TablePCs
  <2>3. Mine(t)' = Mine(t) /\ dom[Mine(t)][call[t].d] /\ t \notin inited
    BY <2>1, <2>2, <1>1, <1>2 DEF SeatAt, CallAt
  <2>4. CASE pc'[t] = "idle"
    <3>1. Unplaced(t)'
      BY <2>1, <2>3, <2>4 DEF Unplaced, Is
    <3> QED BY <3>1, <1>1, Unseated
  <2>5. CASE pc'[t] \in {"scan", "read"}
    <3>1. Is(t, "init")'
      BY <2>1, <2>2, <2>5, <1>5 DEF Is
    <3> QED BY <2>1, <2>3, <2>5, <3>1, <1>1, Looking
  <2> QED BY <2>1, <2>4, <2>5
<1>22. CASE SlotRead(t)
  <2>1. /\ pc[t] = "read" /\ Mine(t) \in Mems /\ UNCHANGED <<db, inited>>
        /\ dom' = dom /\ SameOp(t) /\ pc'[t] = "claim" /\ call'[t].d = call[t].d
    BY <1>22, SlotReadEffect DEF SameAt
  <2>2. Is(t, "init")
    BY <2>1, ReadyLocated, PointerThere DEF TablePCs
  <2>3. Is(t, "init")' /\ Mine(t)' = Mine(t) /\ dom[Mine(t)][call[t].d]
    BY <2>1, <2>2, <1>1, <1>2, <1>5 DEF Is, SeatAt
  <2> QED BY <2>1, <2>3, <1>1, Looking
<1>23. CASE SlotClaim(t)
  <2>1. /\ pc[t] = "claim" /\ Mine(t) \in Mems /\ UNCHANGED <<inited, db, dom, owner, place>>
    BY <1>23, SlotClaimEffect
  <2>2. Is(t, "init")
    BY <2>1, ReadyLocated, PointerThere DEF TablePCs
  <2>3. Mine(t)' = Mine(t) /\ dom[Mine(t)][call[t].d] /\ t \notin inited
    BY <2>1, <2>2, <1>1, <1>2 DEF SeatAt, CallAt
  <2>4. CASE pc'[t] = "own"
    <3>1. call'[t] = call[t] /\ \E w \in Words :
            w.alloc /\ w.num = Num[t] /\ node' = [node EXCEPT ![Mine(t)][At(t)] = w]
      BY <1>23, <2>4, SlotClaimEffect
    <3>2. PICK w \in Words : w.alloc /\ w.num = Num[t] /\ node' = [node EXCEPT ![Mine(t)][At(t)] = w]
      BY <3>1
    <3>3. node'[Mine(t)][At(t)] = w
      BY <3>2, <2>1, <1>4, OneEntry
    <3>4. Seat(t)' = At(t)
      BY <2>4, <3>1, <1>2 DEF Seat
    <3>5. ~Running(t)'
      BY <2>1, <2>3, <2>4 DEF Running, Is, WordPCs
    <3> QED BY <2>1, <2>3, <2>4, <3>2, <3>3, <3>4, <3>5, <1>2 DEF SeatAt
  <2>5. CASE pc'[t] = "read"
    <3>1. SameOp(t) /\ call'[t].d = call[t].d
      BY <1>23, <2>5, SlotClaimEffect
    <3>2. Is(t, "init")'
      BY <3>1, <2>2, <1>5 DEF Is
    <3> QED BY <2>1, <2>3, <2>5, <3>1, <3>2, <1>1, Looking
  <2>6. CASE pc'[t] = "idle"
    <3>1. call'[t].op = "none"
      BY <1>23, <2>6, SlotClaimEffect DEF NoCall
    <3>2. Unplaced(t)'
      BY <2>1, <2>3, <2>6, <3>1 DEF Unplaced, Is
    <3> QED BY <3>2, <1>1, Unseated
  <2>7. pc'[t] \in {"own", "read", "idle"}
    BY <1>23, SlotClaimEffect
  <2> QED BY <2>4, <2>5, <2>6, <2>7
<1>24. CASE Own(t)
  <2>1. /\ pc[t] = "own" /\ Mine(t) \in Mems /\ UNCHANGED <<dom, node, db, epoch, inited>>
        /\ owner' = [owner EXCEPT ![Mine(t)][At(t)] = Pid(t)] /\ place'[t] = At(t)
        /\ pc'[t] = "copy" /\ SameOp(t) /\ call'[t].step = "invalid"
    <3>1. place' = [place EXCEPT ![t] = At(t)]
      BY <1>24, OwnEffect
    <3>2. place \in [Threads -> Seats]
      BY ReadyLocated DEF TypeInv, LocalType
    <3> QED BY <1>24, <3>1, <3>2, OwnEffect
  <2>2. Is(t, "init")
    BY <2>1, ReadyLocated, PointerThere DEF SeatPCs
  <2>3. owner'[Mine(t)][At(t)] = Pid(t)
    BY <2>1, <1>4, OneEntry
  <2>4. t \notin inited
    BY <2>2, <1>1 DEF CallAt
  <2>5. Seated(t)
    BY <2>1, <2>2 DEF Seated, SeatPCs
  <2>6. Seat(t) = At(t) /\ Seat(t)' = At(t)
    BY <2>1 DEF Seat
  <2>7. ~Running(t)'
    BY <2>1, <2>4 DEF Running, Is
  <2>8. Mine(t)' = Mine(t) /\ Pid(t)' = Pid(t)
    BY <2>1, <1>2
  <2> QED BY <2>1, <2>3, <2>5, <2>6, <2>7, <2>8, <1>1 DEF SeatAt
<1>25. CASE Count(t)
  <2>1. /\ pc[t] = "count" /\ pc'[t] = "copy" /\ call'[t].step = "run" /\ inited' = inited
        /\ UNCHANGED <<dom, node, owner, place, db, epoch>>
    BY <1>25, CountEffect
  <2>2. Is(t, "init")
    BY <2>1, ReadyLocated, PointerThere DEF SeatPCs
  <2>3. Seated(t) /\ (Running(t)' => Running(t))
    BY <2>1, <2>2 DEF Seated, Running, Is, SeatPCs, WordPCs
  <2>4. /\ Mine(t)' = Mine(t) /\ Pid(t)' = Pid(t) /\ pc[t] # "own"
        /\ pc'[t] \notin SlotPCs \cup {"own"}
    BY <2>1, <1>2 DEF SlotPCs
  <2> QED BY <2>1, <2>3, <2>4, <1>1, Reseated
<1>26. CASE StartNow(t)
  <2>1. /\ pc[t] = "start" /\ pc'[t] = "copy"
        /\ UNCHANGED <<dom, node, owner, place, db, epoch>>
    BY <1>26, StartNowEffect
  <2>2. Is(t, "init") \/ t \in inited
    BY <2>1, <1>1, ReadyLocated, WhichCall DEF CallAt
  <2>3. Seated(t) /\ (Running(t)' => Running(t))
    BY <2>1, <2>2 DEF Seated, Running, Is, SeatPCs, WordPCs
  <2>4. /\ Mine(t)' = Mine(t) /\ Pid(t)' = Pid(t) /\ pc[t] # "own"
        /\ pc'[t] \notin SlotPCs \cup {"own"}
    BY <2>1, <1>2 DEF SlotPCs
  <2> QED BY <2>1, <2>3, <2>4, <1>1, Reseated
<1>27. CASE Done(t)
  <2>1. /\ pc[t] = "done" /\ pc'[t] = "idle"
        /\ UNCHANGED <<dom, node, owner, place, db, epoch>>
    BY <1>27, DoneEffect
  <2>2. Is(t, "init") \/ t \in inited
    BY <2>1, <1>1, ReadyLocated, WhichCall DEF CallAt
  <2>3. Seated(t) /\ (Running(t)' => Running(t))
    BY <2>1, <2>2 DEF Seated, Running, Is, SeatPCs, WordPCs
  <2>4. /\ Mine(t)' = Mine(t) /\ Pid(t)' = Pid(t) /\ pc[t] # "own"
        /\ pc'[t] \notin SlotPCs \cup {"own"}
    BY <2>1, <1>2 DEF SlotPCs
  <2> QED BY <2>1, <2>3, <2>4, <1>1, Reseated
<1>28. CASE Copy(t)
  <2> DEFINE w == Word(t)
             v == Changed(call[t].step, w)
  <2>1. /\ pc[t] = "copy" /\ pc'[t] = "xread" /\ Mine(t) \in Mems /\ call'[t].new = v
        /\ UNCHANGED <<dom, node, owner, db, epoch, inited, place>>
        /\ call'[t].op = call[t].op /\ call'[t].step = call[t].step
        /\ call'[t].d = call[t].d /\ call'[t].n = call[t].n
    BY <1>28, CopyEffect DEF SameOp, SameStep, SameAt
  <2>2. /\ At(t) = place[t]
        /\ Is(t, "init") => t \notin inited /\ call[t].step \in {"invalid", "run", "start"}
        /\ Is(t, "start") => call[t].step = "start"
        /\ Is(t, "final") => t \notin inited /\ call[t].step \in {"free", "rundown"}
        /\ Is(t, "signal") => call[t].step = "signal"
        /\ ~Is(t, "none")
    BY <2>1, <1>1 DEF CallAt, WordPCs, SeatPCs, Calls, Is
  <2>3. call[t].step \in {"invalid", "run", "start", "free", "rundown", "signal"}
    BY <2>2, <1>1 DEF Calls, Is
  <2>4. /\ call[t].step # "free" => v.alloc = w.alloc /\ v.num = w.num
        /\ call[t].step = "free" => ~v.alloc
        /\ call[t].step = "run" => ~v.rundown
        /\ call[t].step \notin {"run", "rundown"} => v.rundown = w.rundown
    <3>1. w \in Words
      BY <2>1, ReadyLocated DEF Located
    <3> HIDE DEF w
    <3> QED BY <2>3, <3>1, ChangedWord
  <2>5. Mine(t)' = Mine(t) /\ Pid(t)' = Pid(t) /\ Word(t)' = w
    BY <2>1, <1>2
  <2>6. Seat(t) = place[t] /\ Seat(t)' = place[t]
    BY <2>1 DEF Seat
  <2>7. (Seated(t)' <=> Seated(t)) /\ (Running(t)' <=> Running(t))
    BY <2>1 DEF Seated, Running, Is, SeatPCs, WordPCs
  <2>8. w = node[Mine(t)][Seat(t)]
    BY <2>2, <2>6, <1>2
  <2>9. /\ Running(t) => call[t].step # "rundown"
        /\ Seated(t) /\ ~Is(t, "final") => call[t].step # "free"
        /\ Running(t) => Seated(t)
    BY <2>1, <2>2, <1>1 DEF Running, Seated, Is, Calls, SeatPCs, WordPCs
  <2>10. Is(t, "final")' <=> Is(t, "final")
    BY <2>1 DEF Is
  <2> HIDE DEF w, v
  <2> QED BY <2>1, <2>4, <2>5, <2>6, <2>7, <2>8, <2>9, <2>10, <1>1 DEF SeatAt
<1>29. CASE ExchangeRead(t)
  <2>1. /\ pc[t] = "xread" /\ pc'[t] = "xswap" /\ Mine(t) \in Mems
        /\ call'[t].new = call[t].new /\ call'[t].old = Word(t)
        /\ UNCHANGED <<dom, node, owner, db, epoch, inited, place>>
        /\ call'[t].op = call[t].op /\ call'[t].step = call[t].step
        /\ call'[t].d = call[t].d /\ call'[t].n = call[t].n
    BY <1>29, ExchangeReadEffect DEF SameOp, SameStep, SameAt
  <2>2. Mine(t)' = Mine(t) /\ Pid(t)' = Pid(t) /\ Word(t)' = Word(t)
    BY <2>1, <1>2
  <2>3. Seat(t) = place[t] /\ Seat(t)' = place[t]
    BY <2>1 DEF Seat
  <2>4. (Seated(t)' <=> Seated(t)) /\ (Running(t)' <=> Running(t))
    BY <2>1 DEF Seated, Running, Is, SeatPCs, WordPCs
  <2>5. Is(t, "final")' <=> Is(t, "final")
    BY <2>1 DEF Is
  <2> QED BY <2>1, <2>2, <2>3, <2>4, <2>5, <1>1 DEF SeatAt
<1>30. CASE Exchange(t)
  <2>1. /\ pc[t] = "xswap" /\ pc'[t] = After(t) /\ Mine(t) \in Mems
        /\ UNCHANGED <<dom, owner, db, epoch, inited, place>> /\ call'[t] = call[t]
    BY <1>30, ExchangeEffect
  <2>2. \/ Word(t) = call[t].old /\ node' = [node EXCEPT ![Mine(t)][At(t)] = call[t].new]
        \/ Word(t) # call[t].old /\ node' = node
    BY <1>30, ExchangeEffect
  <2>3. /\ At(t) = place[t] /\ ~Is(t, "none")
        /\ Is(t, "init") => call[t].step \in {"invalid", "run", "start"}
        /\ Is(t, "start") => t \in inited /\ call[t].step = "start"
        /\ Is(t, "final") => t \notin inited /\ call[t].step \in {"free", "rundown"}
        /\ Is(t, "signal") => t \in inited /\ call[t].step = "signal"
        /\ call[t].step \in {"invalid", "run", "start", "free", "rundown", "signal"}
    BY <2>1, <1>1 DEF CallAt, WordPCs, SeatPCs, Calls, Is
  <2>4. /\ call[t].step = "invalid" => pc'[t] = "count"
        /\ call[t].step = "run" => pc'[t] = IF call[t].start THEN "start" ELSE "done"
        /\ call[t].step = "start" => pc'[t] = "done"
        /\ call[t].step = "free" => pc'[t] = "uncount"
        /\ call[t].step = "rundown" => pc'[t] = "detach"
        /\ call[t].step = "signal" => pc'[t] = "others"
    BY <2>1 DEF After
  <2>5. pc'[t] \notin SlotPCs \cup {"own"}
    BY <2>3, <2>4 DEF SlotPCs
  <2>6. Seat(t) = place[t] /\ Seat(t)' = place[t] /\ Mine(t)' = Mine(t) /\ Pid(t)' = Pid(t)
    BY <2>1, <2>5, <1>2 DEF Seat
  <2>7. CASE Is(t, "final")
    <3>1. Unplaced(t)'
      BY <2>1, <2>3, <2>4, <2>7 DEF Unplaced, Is
    <3> QED BY <3>1, <1>1, Unseated
  <2>8. CASE ~Is(t, "final")
    <3>1. Seated(t)
      BY <2>1, <2>3, <2>8, <1>1 DEF Seated, Is, Calls, SeatPCs, WordPCs
    <3>2. CASE Word(t) = call[t].old /\ node' = [node EXCEPT ![Mine(t)][At(t)] = call[t].new]
      <4>1. call[t].new \in Words
        BY <1>1 DEF Calls
      <4>2. node'[Mine(t)][place[t]] = call[t].new
        BY <3>2, <2>1, <2>3, <1>4, <4>1, OneEntry
      <4>3. Running(t)' => Running(t) \/ call[t].step = "run"
        BY <2>1, <2>3, <2>4 DEF Running, Is, WordPCs
      <4>4. call[t].new.alloc /\ call[t].new.num = Num[t] /\ (Running(t)' => ~call[t].new.rundown)
        BY <2>1, <2>8, <3>1, <4>3, <1>1 DEF SeatAt
      <4> QED BY <4>2, <4>4, <2>1, <2>5, <2>6, <3>1, <1>1 DEF SeatAt, SlotPCs
    <3>3. CASE Word(t) # call[t].old /\ node' = node
      <4>1. ~Is(t, "init")
        BY <2>1, <3>3, <1>1 DEF SeatAt
      <4>2. t \in inited
        BY <2>3, <2>8, <4>1, <1>1 DEF Calls, Is
      <4>3. Running(t) /\ pc[t] # "own" /\ place'[t] = place[t]
        BY <2>1, <4>2 DEF Running
      <4> QED BY <4>3, <3>1, <3>3, <2>1, <2>5, <2>6, <1>1, Reseated
    <3> QED BY <2>2, <3>2, <3>3
  <2> QED BY <2>7, <2>8
<1>31. CASE Uncount(t)
  <2>1. /\ pc[t] = "uncount" /\ inited' = inited
        /\ pc'[t] = "any" /\ SameOp(t)
    BY <1>31, UncountEffect
  <2>2. Is(t, "final")
    BY <2>1, ReadyLocated, PointerThere DEF FinalPCs
  <2>3. t \notin inited'
    BY <2>1, <2>2, <1>1 DEF CallAt
  <2>4. Unplaced(t)'
    BY <2>1, <2>2, <2>3, <1>5 DEF Unplaced, Is, EarlyPCs, EntryPCs, HeldPCs
  <2> QED BY <2>4, <1>1, Unseated
<1>32. CASE Any(t)
  <2>1. /\ pc[t] = "any" /\ inited' = inited
        /\ pc'[t] \in {"any", "copy"} /\ call'[t].step = "rundown" /\ SameOp(t)
    BY <1>32, AnyEffect
  <2>2. Is(t, "final")
    BY <2>1, ReadyLocated, PointerThere DEF FinalPCs
  <2>3. t \notin inited'
    BY <2>1, <2>2, <1>1 DEF CallAt
  <2>4. Unplaced(t)'
    BY <2>1, <2>2, <2>3, <1>5 DEF Unplaced, Is, EarlyPCs, EntryPCs, HeldPCs
  <2> QED BY <2>4, <1>1, Unseated
<1>33. CASE Detach(t)
  <2>1. /\ pc[t] = "detach" /\ call'[t] = call[t] /\ inited' = inited
        /\ (call[t].op = "signal" /\ pc'[t] = "raise") \/ (call[t].op # "signal" /\ pc'[t] = "delete")
        /\ UNCHANGED <<dom, node, owner, place, db, epoch>>
    BY <1>33, DetachEffect
  <2>2. Is(t, "final") \/ Is(t, "signal")
    BY <2>1, ReadyLocated, WhichCall
  <2>3. CASE Is(t, "final")
    <3>1. Unplaced(t)'
      BY <2>1, <2>3 DEF Unplaced, Is
    <3> QED BY <3>1, <1>1, Unseated
  <2>4. CASE Is(t, "signal")
    <3>1. t \in inited
      BY <2>4, <1>1 DEF CallAt
    <3>2. Seated(t) /\ Running(t)
      BY <3>1 DEF Seated, Running
    <3>3. /\ Mine(t)' = Mine(t) /\ Pid(t)' = Pid(t) /\ pc[t] # "own"
          /\ pc'[t] \notin SlotPCs \cup {"own"}
      BY <2>1, <1>2 DEF SlotPCs
    <3> QED BY <2>1, <3>2, <3>3, <1>1, Reseated
  <2> QED BY <2>2, <2>3, <2>4
<1>34. CASE Delete(t)
  <2>1. /\ pc[t] = "delete" /\ inited' = inited
        /\ pc'[t] = "leave" /\ call'[t] = call[t]
    BY <1>34, DeleteEffect
  <2>2. Is(t, "final")
    BY <2>1, ReadyLocated, PointerThere DEF FinalPCs
  <2>3. t \notin inited'
    BY <2>1, <2>2, <1>1 DEF CallAt
  <2>4. Unplaced(t)'
    BY <2>1, <2>2, <2>3, <1>5 DEF Unplaced, Is, EarlyPCs, EntryPCs, HeldPCs
  <2> QED BY <2>4, <1>1, Unseated
<1>35. CASE Leave(t)
  <2>1. /\ pc[t] = "leave" /\ inited' = inited
        /\ pc'[t] = "unpoint" /\ call'[t] = call[t]
    BY <1>35, LeaveEffect
  <2>2. Is(t, "final")
    BY <2>1, ReadyLocated, PointerThere DEF FinalPCs
  <2>3. t \notin inited'
    BY <2>1, <2>2, <1>1 DEF CallAt
  <2>4. Unplaced(t)'
    BY <2>1, <2>2, <2>3, <1>5 DEF Unplaced, Is, EarlyPCs, EntryPCs, HeldPCs
  <2> QED BY <2>4, <1>1, Unseated
<1>36. CASE Unpoint(t)
  <2>1. /\ pc[t] = "unpoint" /\ inited' = inited
        /\ pc'[t] = "idle" /\ call'[t].op = "none"
    BY <1>36, UnpointEffect DEF NoCall
  <2>2. Is(t, "final")
    BY <2>1, ReadyLocated, PointerThere DEF FinalPCs
  <2>3. t \notin inited'
    BY <2>1, <2>2, <1>1 DEF CallAt
  <2>4. Unplaced(t)'
    BY <2>1, <2>2, <2>3, <1>5 DEF Unplaced, Is, EarlyPCs, EntryPCs, HeldPCs
  <2> QED BY <2>4, <1>1, Unseated
<1>37. CASE Others(t)
  <2>1. /\ pc[t] = "others" /\ pc'[t] = "detach" /\ Mine(t) \in Mems
        /\ UNCHANGED <<dom, owner, db, epoch, inited, place>> /\ call'[t] = call[t]
    BY <1>37, OthersEffect
  <2>2. node' = [node EXCEPT ![Mine(t)] = [y \in Seats |-> IF owner[Mine(t)][y] = Pid(t)
                     THEN [node[Mine(t)][y] EXCEPT !.valid = FALSE] ELSE node[Mine(t)][y]]]
    BY <1>37, OthersEffect
  <2>3. Is(t, "signal")
    BY <2>1, ReadyLocated, PointerThere
  <2>4. t \in inited
    BY <2>3, <1>1 DEF CallAt
  <2>5. Seat(t) = place[t] /\ Seat(t)' = place[t] /\ Mine(t)' = Mine(t) /\ Pid(t)' = Pid(t)
    BY <2>1, <1>2 DEF Seat
  <2>6. Seated(t) /\ Running(t)
    BY <2>4 DEF Seated, Running
  <2> DEFINE w == node[Mine(t)][place[t]]
             v == node'[Mine(t)][place[t]]
  <2>7. v = w \/ v = [w EXCEPT !.valid = FALSE]
    BY <2>1, <2>2, <1>4
  <2>8. w \in Words
    BY <2>1, <1>4
  <2>9. v.alloc = w.alloc /\ v.num = w.num /\ v.rundown = w.rundown
    <3> HIDE DEF v, w
    <3> QED BY <2>7, <2>8 DEF Words
  <2> QED BY <2>1, <2>3, <2>5, <2>6, <2>9, <1>1 DEF SeatAt, Is
<1> QED BY <1>6, <1>7, <1>8, <1>9, <1>10, <1>11, <1>12, <1>13, <1>14, <1>15, <1>16, <1>17,
           <1>18, <1>19, <1>20, <1>21, <1>22, <1>23, <1>24, <1>25, <1>26, <1>27, <1>28,
           <1>29, <1>30, <1>31, <1>32, <1>33, <1>34, <1>35, <1>36, <1>37
        DEF Step, InitStep, WordStep, FinalStep

\* A thread that gets a slot gets one that is not allocated, and keeps it.
SeatMove(t) ==
  Holds(t)' => \/ Holds(t) /\ Seat(t)' = Seat(t)
               \/ /\ Is(t, "init") /\ Mine(t)' = Mine(t) /\ Mine(t) \in Mems
                  /\ Seat(t)' = At(t) /\ ~Word(t).alloc

\* The steps that give a thread a slot, and those that keep it.
LEMMA SeatMoves ==
  ASSUME Ready, NEW t \in Threads, Step(t)
  PROVE  SeatMove(t)
<1>1. Located(t) /\ CallAt(t) /\ CallAt(t)'
  BY ReadyLocated, CallOwn
<1>2. /\ Mine(t)' = db'[Proc[t]] /\ Mine(t) = db[Proc[t]]
      /\ At(t) = <<call[t].d, call[t].n>> /\ At(t)' = <<call'[t].d, call'[t].n>>
  BY DEF Mine, At
<1> USE <1>1, <1>2 DEF Located, CallAt, SeatMove, Holds, Seated, Seat, Is, SameOp, SameAt,
                       SameStep, SameMem, SameWords, SameLast, TablePCs, SeatPCs, FinalPCs,
                       WordPCs, InitPCs, EarlyPCs, EntryPCs, HeldPCs
<1>3. ASSUME NEW start \in BOOLEAN, CallInitialize(t, start)
      PROVE  SeatMove(t)
  <2>1. call'[t].op = "init" /\ pc'[t] = "mrapi" /\ inited' = inited
    <3> HIDE DEF Located, CallAt, SeatMove, Holds, Seated, Seat
    <3> QED BY <1>3, CallInitializeEffect
  <2> QED BY <2>1
<1>4. CASE CallStart(t)
  BY <1>4, CallStartEffect
<1>5. CASE CallFinalize(t)
  BY <1>5, CallFinalizeEffect
<1>6. CASE CallSignal(t)
  BY <1>6, CallSignalEffect
<1>7. CASE Restart(t)
  BY <1>7, RestartEffect
<1>8. CASE MrapiInitialize(t)
  BY <1>8, MrapiInitializeEffect DEF NoCall
<1>9. CASE Find(t)
  BY <1>9, FindEffect
<1>10. CASE AttachFound(t)
  BY <1>10, AttachFoundEffect
<1>11. CASE Point(t)
  BY <1>11, PointEffect
<1>12. CASE Create(t)
  BY <1>12, CreateEffect DEF NoCall
<1>13. CASE AttachCreated(t)
  BY <1>13, AttachCreatedEffect DEF NoCall
<1>14. CASE Place(t)
  BY <1>14, PlaceEffect
<1>15. CASE Wipe(t)
  BY <1>15, WipeEffect
<1>16. CASE DomainFind(t)
  BY <1>16, DomainFindEffect
<1>17. CASE DomainClaim(t)
  BY <1>17, DomainClaimEffect
<1>18. CASE Scan(t)
  BY <1>18, ScanEffect DEF NoCall
<1>19. CASE SlotRead(t)
  BY <1>19, SlotReadEffect
<1>20. CASE SlotClaim(t)
  <2>1. /\ pc[t] = "claim" /\ Mine(t) \in Mems /\ inited' = inited /\ db' = db /\ place' = place
    <3> HIDE DEF Located, CallAt, SeatMove, Holds, Seated, Seat
    <3> QED BY <1>20, SlotClaimEffect
  <2>2. Is(t, "init")
    BY <2>1, ReadyLocated, PointerThere
  <2>3. \/ pc'[t] = "own" /\ call'[t] = call[t] /\ ~Word(t).alloc
        \/ pc'[t] = "read" /\ SameOp(t)
        \/ pc'[t] = "idle" /\ call'[t].op = "none"
    <3> HIDE DEF Located, CallAt, SeatMove, Holds, Seated, Seat
    <3> QED BY <1>20, SlotClaimEffect DEF NoCall
  <2> QED BY <2>1, <2>2, <2>3
<1>21. CASE Own(t)
  BY <1>21, OwnEffect
<1>22. CASE Count(t)
  BY <1>22, CountEffect
<1>23. CASE StartNow(t)
  BY <1>23, StartNowEffect
<1>24. CASE Done(t)
  <2>1. pc[t] = "done" /\ pc'[t] = "idle" /\ place'[t] = place[t]
    BY <1>24, DoneEffect
  <2>2. Is(t, "init") \/ Is(t, "start")
    BY <2>1, ReadyLocated, WhichCall
  <2> QED BY <2>1, <2>2
<1>25. CASE Copy(t)
  BY <1>25, CopyEffect
<1>26. CASE ExchangeRead(t)
  BY <1>26, ExchangeReadEffect
<1>27. CASE Exchange(t)
  <2>1. /\ pc[t] = "xswap" /\ pc'[t] = After(t) /\ inited' = inited
        /\ place'[t] = place[t] /\ call'[t] = call[t]
    <3> HIDE DEF Located, CallAt, SeatMove, Holds, Seated, Seat
    <3> QED BY <1>27, ExchangeEffect
  <2>2. pc'[t] # "own" /\ Seat(t)' = place[t] /\ Seat(t) = place[t]
    BY <2>1 DEF After, Calls
  <2>3. Holds(t)
    BY <2>1 DEF Calls
  <2> QED BY <2>2, <2>3
<1>28. CASE Uncount(t)
  BY <1>28, UncountEffect
<1>29. CASE Any(t)
  BY <1>29, AnyEffect
<1>30. CASE Detach(t)
  BY <1>30, DetachEffect
<1>31. CASE Delete(t)
  BY <1>31, DeleteEffect
<1>32. CASE Leave(t)
  BY <1>32, LeaveEffect
<1>33. CASE Unpoint(t)
  BY <1>33, UnpointEffect DEF NoCall
<1>34. CASE Others(t)
  BY <1>34, OthersEffect
<1> HIDE DEF Located, CallAt, SeatMove, Holds, Seated, Seat, Is, SameOp, SameAt, SameStep,
             SameMem, SameWords, SameLast, TablePCs, SeatPCs, FinalPCs, WordPCs, InitPCs,
             EarlyPCs, EntryPCs, HeldPCs
<1> QED BY <1>3, <1>4, <1>5, <1>6, <1>7, <1>8, <1>9, <1>10, <1>11, <1>12, <1>13, <1>14,
           <1>15, <1>16, <1>17, <1>18, <1>19, <1>20, <1>21, <1>22, <1>23, <1>24, <1>25,
           <1>26, <1>27, <1>28, <1>29, <1>30, <1>31, <1>32, <1>33, <1>34
        DEF Step, InitStep, WordStep, FinalStep

\* Every step but the end of a process keeps SeatInv.
LEMMA SeatStep ==
  ASSUME Ready, NEW t \in Threads, Step(t)
  PROVE  SeatInv'
<1>1. \A u \in Threads : SeatAt(u)'
  BY SeatOwn, SeatOthers
<1>2. SeatInv /\ PhaseInv
  BY DEF Ready, NodeInvariant
<1>3. ASSUME NEW u \in Threads \ {t}, Holds(t)', Holds(u)', Mine(t)' = Mine(u)'
      PROVE  Seat(t)' # Seat(u)'
  <2>1. Holds(u) /\ Seat(u)' = Seat(u) /\ Mine(u)' = Mine(u)
    BY <1>3, SeatOthers
  <2>2. CASE Holds(t) /\ Seat(t)' = Seat(t)
    <3>1. Anchored(t) /\ Anchored(t)'
      BY <1>3, <2>2 DEF Anchored, Holds, Seated
    <3>2. Mine(t)' = Mine(t)
      BY <3>1, PointerKept
    <3> QED BY <2>1, <2>2, <3>2, <1>2, <1>3 DEF SeatInv
  <2>3. CASE /\ Is(t, "init") /\ Mine(t)' = Mine(t) /\ Mine(t) \in Mems
             /\ Seat(t)' = At(t) /\ ~Word(t).alloc
    <3>1. Seated(u)
      BY <2>1, <2>3, <1>2 DEF PhaseInv, Holds
    <3>2. node[Mine(u)][Seat(u)].alloc
      BY <2>1, <3>1, HolderSeat
    <3> QED BY <2>1, <2>3, <3>2, <1>3 DEF Word
  <2> QED BY <2>2, <2>3, <1>3, SeatMoves DEF SeatMove
<1>4. ASSUME NEW u \in Threads \ {t}, NEW v \in Threads \ {t}, u # v,
             Holds(u)', Holds(v)', Mine(u)' = Mine(v)'
      PROVE  Seat(u)' # Seat(v)'
  <2>1. Holds(u) /\ Seat(u)' = Seat(u) /\ Mine(u)' = Mine(u)
    BY <1>4, SeatOthers
  <2>2. Holds(v) /\ Seat(v)' = Seat(v) /\ Mine(v)' = Mine(v)
    BY <1>4, SeatOthers
  <2> QED BY <2>1, <2>2, <1>2, <1>4 DEF SeatInv
<1>5. ASSUME NEW u \in Threads, NEW v \in Threads, u # v,
             Holds(u)', Holds(v)', Mine(u)' = Mine(v)'
      PROVE  Seat(u)' # Seat(v)'
  <2>1. CASE u = t
    BY <2>1, <1>3, <1>5
  <2>2. CASE v = t
    BY <2>2, <1>3, <1>5
  <2> QED BY <2>1, <2>2, <1>4, <1>5
<1> QED BY <1>1, <1>5 DEF SeatInv

-----------------------------------------------------------------------------
(* The loops of a finalize and the counts.                                 *)

\* The loop over the slots passes one slot at a time, and all of them.
LEMMA NextPassed ==
  ASSUME Ready, NEW t \in Threads, NEW x \in Seats
  PROVE  /\ \A s \in Seats :
              s = NextSlot(t) /\ (x[1] < s[1] \/ (x[1] = s[1] /\ x[2] < s[2])) =>
                Passed(t, x) \/ x = At(t)
         /\ NextSlot(t)[1] \notin Domains => Passed(t, x) \/ x = At(t)
<1>1. call[t].d \in Domains /\ call[t].n \in Slots
  BY ReadyLocated DEF Located
<1>2. PICK a \in Domains, b \in Slots : x = <<a, b>>
  BY DEF Seats
<1>3. /\ a \in 0 .. MaxDomains - 1 /\ call[t].d \in 0 .. MaxDomains - 1
      /\ b \in 0 .. MaxNodes - 1 /\ call[t].n \in 0 .. MaxNodes - 1
      /\ MaxDomains \in Nat /\ MaxNodes \in Nat
  BY <1>1, <1>2, NodesAssumption DEF Domains, Slots
<1>4. CASE call[t].n + 1 \in Slots
  <2>1. NextSlot(t) = <<call[t].d, call[t].n + 1>>
    BY <1>4 DEF NextSlot
  <2> QED BY <2>1, <1>1, <1>2, <1>3 DEF Passed, At
<1>5. CASE call[t].n + 1 \notin Slots
  <2>1. NextSlot(t) = <<call[t].d + 1, 0>>
    BY <1>5 DEF NextSlot
  <2>2. b <= call[t].n
    BY <1>3, <1>5 DEF Slots
  <2>3. ~(b < 0)
    BY <1>3
  <2>4. call[t].d + 1 \notin Domains => a <= call[t].d
    BY <1>3 DEF Domains
  <2>5. a <= call[t].d => Passed(t, x) \/ x = At(t)
    BY <2>2, <1>2, <1>3 DEF Passed, At
  <2>6. NextSlot(t)[1] = call[t].d + 1 /\ NextSlot(t)[2] = 0
    BY <2>1
  <2> QED BY <2>3, <2>4, <2>5, <2>6, <1>2, <1>3
<1> QED BY <1>4, <1>5

\* The node that the loop of a finalize comes to is found.
LEMMA FoundThere ==
  ASSUME Ready, NEW t \in Threads, Is(t, "final"), NEW u \in inited
  PROVE  /\ place[u] \in Seats /\ u \in Threads
         /\ node[Mine(t)][place[u]].alloc
         /\ Proc[u] = Proc[t] => owner[Mine(t)][place[u]] = Pid(t)
<1>1. u \in Threads
  BY DEF Ready, NodeInvariant, TypeInv, MemType
<1>2. Located(u) /\ MemAt(u) /\ MemAt(t) /\ CallAt(u)
  BY <1>1, ReadyLocated
<1>3. Mine(t) = Mine(u)
  BY <1>2 DEF MemAt
<1>4. Holds(u) /\ Seated(u) /\ pc[u] # "own"
  BY <1>2 DEF Holds, Seated, CallAt, Located, Calls, Is, WordPCs
<1>5. Seat(u) = place[u]
  BY <1>4 DEF Seat
<1> QED BY <1>1, <1>2, <1>3, <1>4, <1>5, HolderSeat DEF Located, Pid

\* While a thread finalizes, no node comes, and those there are keep their slots.
LEMMA NoneCome ==
  ASSUME Ready, NEW t \in Threads, Step(t), NEW u \in Threads, Is(u, "final")
  PROVE  inited' \subseteq inited /\ \A v \in inited' : place'[v] = place[v]
<1>1. PhaseInv /\ TypeInv /\ CallAt(t) /\ CallAt(t)' /\ inited \subseteq Threads
  BY ReadyLocated, CallOwn DEF Ready, NodeInvariant, TypeInv, MemType
<1>2. ~Is(t, "init")
  BY <1>1 DEF PhaseInv
<1>3. inited' \subseteq inited
  BY <1>1, <1>2, OpMoves DEF OpMove, CallAt
<1>4. ASSUME t \in inited'
      PROVE  place'[t] = place[t]
  <2>1. t \in inited
    BY <1>3, <1>4
  <2>2. Holds(t)'
    BY <1>4 DEF Holds, Seated
  <2>3. Seat(t)' = Seat(t)
    BY <2>2, <1>2, SeatMoves DEF SeatMove
  <2>4. call'[t] \in Calls /\ call[t] \in Calls
    BY ReadyLocated, LocalTypeStep DEF Located, LocalType, Ready, NodeInvariant
  <2>5. pc[t] # "own" /\ pc'[t] # "own"
    BY <2>1, <2>4, <1>1, <1>4 DEF CallAt, Is, Calls, WordPCs
  <2> QED BY <2>3, <2>5 DEF Seat
<1> QED BY <1>1, <1>3, <1>4, ThreadFrame

\* A step of another thread leaves what a finalize has found out true.
LEMMA LastOthers ==
  ASSUME Ready, NEW t \in Threads, Step(t), NEW u \in Threads \ {t}
  PROVE  LastAt(u)'
<1>1. LastAt(u) /\ TypeInv
  BY ReadyLocated
<1>2. pc'[u] = pc[u] /\ call'[u] = call[u]
  BY <1>1, ThreadFrame
<1>3. Is(u, "final") => inited' \subseteq inited /\ \A v \in inited' : place'[v] = place[v]
  BY NoneCome
<1>4. Is(u, "final")' <=> Is(u, "final")
  BY <1>2 DEF Is
<1>5. \A x : Passed(u, x)' <=> Passed(u, x)
  BY <1>2 DEF Passed
<1>6. CASE Is(u, "final")
  <2>1. inited' \subseteq inited /\ \A v \in inited' : place'[v] = place[v]
    BY <1>3, <1>6
  <2>2. \A v \in inited' : Passed(u, place[v])' => Passed(u, place[v])
    BY <2>1, <1>2 DEF Passed
  <2> QED BY <2>1, <2>2, <1>1, <1>2, <1>4, <1>6 DEF LastAt
<1> QED BY <1>4, <1>6 DEF LastAt

\* What a finalize finds out itself is true.
LEMMA LastOwn ==
  ASSUME Ready, NEW t \in Threads, Step(t)
  PROVE  LastAt(t)'
<1>1. Located(t) /\ CallAt(t) /\ LastAt(t) /\ CallAt(t)'
  BY ReadyLocated, CallOwn
<1> USE <1>1 DEF Located, CallAt, LastAt, Is, SameOp, SameAt, SameStep, SameMem, SameWords,
                 SameLast, TablePCs, SeatPCs, FinalPCs, WordPCs, InitPCs, EarlyPCs,
                 EntryPCs, HeldPCs
<1>2. ASSUME NEW start \in BOOLEAN, CallInitialize(t, start)
      PROVE  LastAt(t)'
  <2>1. call'[t].op # "final"
    <3> HIDE DEF Located, CallAt, LastAt
    <3> QED BY <1>2, CallInitializeEffect, ReadyLocated, WhichCall
  <2> QED BY <2>1
<1>3. CASE CallStart(t)
  <2>1. call'[t].op # "final"
    <3> HIDE DEF Located, CallAt, LastAt
    <3> QED BY <1>3, CallStartEffect, ReadyLocated, WhichCall
  <2> QED BY <2>1
<1>4. CASE CallFinalize(t)
  BY <1>4, CallFinalizeEffect
<1>5. CASE CallSignal(t)
  <2>1. call'[t].op # "final"
    <3> HIDE DEF Located, CallAt, LastAt
    <3> QED BY <1>5, CallSignalEffect, ReadyLocated, WhichCall
  <2> QED BY <2>1
<1>6. CASE Restart(t)
  <2>1. call'[t].op # "final"
    <3> HIDE DEF Located, CallAt, LastAt
    <3> QED BY <1>6, RestartEffect, ReadyLocated, WhichCall DEF NoCall
  <2> QED BY <2>1
<1>7. CASE MrapiInitialize(t)
  <2>1. call'[t].op # "final"
    <3> HIDE DEF Located, CallAt, LastAt
    <3> QED BY <1>7, MrapiInitializeEffect, ReadyLocated, WhichCall DEF NoCall
  <2> QED BY <2>1
<1>8. CASE Find(t)
  <2>1. call'[t].op # "final"
    <3> HIDE DEF Located, CallAt, LastAt
    <3> QED BY <1>8, FindEffect, ReadyLocated, WhichCall DEF NoCall
  <2> QED BY <2>1
<1>9. CASE AttachFound(t)
  <2>1. call'[t].op # "final"
    <3> HIDE DEF Located, CallAt, LastAt
    <3> QED BY <1>9, AttachFoundEffect, ReadyLocated, WhichCall DEF NoCall
  <2> QED BY <2>1
<1>10. CASE Point(t)
  <2>1. call'[t].op # "final"
    <3> HIDE DEF Located, CallAt, LastAt
    <3> QED BY <1>10, PointEffect, ReadyLocated, WhichCall DEF NoCall
  <2> QED BY <2>1
<1>11. CASE Create(t)
  <2>1. call'[t].op # "final"
    <3> HIDE DEF Located, CallAt, LastAt
    <3> QED BY <1>11, CreateEffect, ReadyLocated, WhichCall DEF NoCall
  <2> QED BY <2>1
<1>12. CASE AttachCreated(t)
  <2>1. call'[t].op # "final"
    <3> HIDE DEF Located, CallAt, LastAt
    <3> QED BY <1>12, AttachCreatedEffect, ReadyLocated, WhichCall DEF NoCall
  <2> QED BY <2>1
<1>13. CASE Place(t)
  <2>1. call'[t].op # "final"
    <3> HIDE DEF Located, CallAt, LastAt
    <3> QED BY <1>13, PlaceEffect, ReadyLocated, WhichCall DEF NoCall
  <2> QED BY <2>1
<1>14. CASE Wipe(t)
  <2>1. call'[t].op # "final"
    <3> HIDE DEF Located, CallAt, LastAt
    <3> QED BY <1>14, WipeEffect, ReadyLocated, PointerThere DEF NoCall
  <2> QED BY <2>1
<1>15. CASE DomainFind(t)
  <2>1. call'[t].op # "final"
    <3> HIDE DEF Located, CallAt, LastAt
    <3> QED BY <1>15, DomainFindEffect, ReadyLocated, PointerThere DEF NoCall
  <2> QED BY <2>1
<1>16. CASE DomainClaim(t)
  <2>1. call'[t].op # "final"
    <3> HIDE DEF Located, CallAt, LastAt
    <3> QED BY <1>16, DomainClaimEffect, ReadyLocated, PointerThere DEF NoCall
  <2> QED BY <2>1
<1>17. CASE Scan(t)
  <2>1. call'[t].op # "final"
    <3> HIDE DEF Located, CallAt, LastAt
    <3> QED BY <1>17, ScanEffect, ReadyLocated, PointerThere DEF NoCall
  <2> QED BY <2>1
<1>18. CASE SlotRead(t)
  <2>1. call'[t].op # "final"
    <3> HIDE DEF Located, CallAt, LastAt
    <3> QED BY <1>18, SlotReadEffect, ReadyLocated, PointerThere DEF NoCall
  <2> QED BY <2>1
<1>19. CASE SlotClaim(t)
  <2>1. call'[t].op # "final"
    <3> HIDE DEF Located, CallAt, LastAt
    <3> QED BY <1>19, SlotClaimEffect, ReadyLocated, PointerThere DEF NoCall
  <2> QED BY <2>1
<1>20. CASE Own(t)
  <2>1. call'[t].op # "final"
    <3> HIDE DEF Located, CallAt, LastAt
    <3> QED BY <1>20, OwnEffect, ReadyLocated, PointerThere DEF NoCall
  <2> QED BY <2>1
<1>21. CASE Count(t)
  <2>1. call'[t].op # "final"
    <3> HIDE DEF Located, CallAt, LastAt
    <3> QED BY <1>21, CountEffect, ReadyLocated, PointerThere DEF NoCall
  <2> QED BY <2>1
<1>22. CASE StartNow(t)
  <2>1. call'[t].op # "final"
    <3> HIDE DEF Located, CallAt, LastAt
    <3> QED BY <1>22, StartNowEffect, ReadyLocated, WhichCall DEF NoCall
  <2> QED BY <2>1
<1>23. CASE Done(t)
  <2>1. call'[t].op # "final"
    <3> HIDE DEF Located, CallAt, LastAt
    <3> QED BY <1>23, DoneEffect, ReadyLocated, WhichCall DEF NoCall
  <2> QED BY <2>1
<1>24. CASE Copy(t)
  BY <1>24, CopyEffect
<1>25. CASE ExchangeRead(t)
  BY <1>25, ExchangeReadEffect
<1>26. CASE Exchange(t)
  <2>1. pc'[t] = After(t) /\ inited' = inited /\ call'[t] = call[t] /\ pc[t] = "xswap"
    <3> HIDE DEF Located, CallAt, LastAt
    <3> QED BY <1>26, ExchangeEffect
  <2>2. pc'[t] # "any"
    BY <2>1 DEF After, Calls
  <2> QED BY <2>1, <2>2
<1>27. CASE Uncount(t)
  <2>1. pc'[t] = "any" /\ call'[t].d = 0 /\ call'[t].n = 0 /\ inited' = inited /\ place' = place
    <3> HIDE DEF Located, CallAt, LastAt
    <3> QED BY <1>27, UncountEffect
  <2>2. \A u \in inited : place[u] \in Seats
    <3>1. inited \subseteq Threads
      BY ReadyLocated DEF TypeInv, MemType
    <3> QED BY <3>1
  <2>3. \A x \in Seats : ~(x[1] < 0) /\ ~(x[2] < 0)
    BY NodesAssumption DEF Seats, Domains, Slots
  <2>4. \A u \in inited' : ~Passed(t, place[u])'
    BY <2>1, <2>2, <2>3 DEF Passed
  <2> HIDE DEF Located, CallAt
  <2> QED BY <2>1, <2>4
<1>28. CASE Any(t)
  <2>1. /\ pc[t] = "any" /\ inited' = inited /\ place' = place
        /\ call'[t].last => call[t].last /\ ~Word(t).alloc
        /\ call'[t].lastp => call[t].lastp /\ ~(Word(t).alloc /\ owner[Mine(t)][At(t)] = Pid(t))
    <3> HIDE DEF Located, CallAt, LastAt
    <3> QED BY <1>28, AnyEffect
  <2>2. Is(t, "final")
    BY <2>1, ReadyLocated, PointerThere
  <2>3. \/ pc'[t] = "any" /\ \E s \in Seats : s = NextSlot(t) /\ call'[t].d = s[1] /\ call'[t].n = s[2]
        \/ pc'[t] = "copy" /\ call'[t].step = "rundown" /\ NextSlot(t)[1] \notin Domains
    <3> HIDE DEF Located, CallAt, LastAt
    <3> QED BY <1>28, AnyEffect
  <2>4. ASSUME NEW u \in inited, Passed(t, place[u]) \/ place[u] = At(t)
        PROVE  ~call'[t].last /\ (Proc[u] = Proc[t] => ~call'[t].lastp)
    <3>1. /\ node[Mine(t)][place[u]].alloc
          /\ Proc[u] = Proc[t] => owner[Mine(t)][place[u]] = Pid(t)
      BY <2>2, FoundThere
    <3>2. CASE Passed(t, place[u])
      BY <2>1, <2>2, <3>2
    <3>3. CASE place[u] = At(t)
      <4> HIDE DEF Located, CallAt, LastAt
      <4> QED BY <2>1, <3>1, <3>3 DEF Word
    <3> QED BY <2>4, <3>2, <3>3
  <2>5. CASE pc'[t] = "any" /\ \E s \in Seats : s = NextSlot(t) /\ call'[t].d = s[1] /\ call'[t].n = s[2]
    <3>1. PICK s \in Seats : s = NextSlot(t) /\ call'[t].d = s[1] /\ call'[t].n = s[2]
      BY <2>5
    <3>2. ASSUME NEW u \in inited, Passed(t, place[u])'
          PROVE  Passed(t, place[u]) \/ place[u] = At(t)
      <4> HIDE DEF Located, CallAt, LastAt
      <4>1. place[u] \in Seats
        BY <2>2, FoundThere
      <4>2. place[u][1] < s[1] \/ (place[u][1] = s[1] /\ place[u][2] < s[2])
        BY <3>1, <3>2, <2>1 DEF Passed
      <4> QED BY <3>1, <4>1, <4>2, NextPassed
    <3>3. \A u \in inited : Passed(t, place[u])' => ~call'[t].last /\ (Proc[u] = Proc[t] => ~call'[t].lastp)
      BY <3>2, <2>4
    <3>4. place' = place
      BY <2>1
    <3> HIDE DEF Located, CallAt
    <3> QED BY <2>1, <2>5, <3>3, <3>4 DEF Passed
  <2>6. CASE pc'[t] = "copy" /\ call'[t].step = "rundown" /\ NextSlot(t)[1] \notin Domains
    <3>1. ASSUME NEW u \in inited
          PROVE  ~call'[t].last /\ (Proc[u] = Proc[t] => ~call'[t].lastp)
      <4>1. place[u] \in Seats
        BY <2>2, FoundThere
      <4>2. Passed(t, place[u]) \/ place[u] = At(t)
        BY <4>1, <2>6, NextPassed
      <4> QED BY <4>2, <2>4
    <3> QED BY <2>1, <2>6, <3>1
  <2> QED BY <2>3, <2>5, <2>6
<1>29. CASE Detach(t)
  BY <1>29, DetachEffect
<1>30. CASE Delete(t)
  BY <1>30, DeleteEffect
<1>31. CASE Leave(t)
  BY <1>31, LeaveEffect
<1>32. CASE Unpoint(t)
  <2>1. call'[t].op # "final"
    <3> HIDE DEF Located, CallAt, LastAt
    <3> QED BY <1>32, UnpointEffect, ReadyLocated, PointerThere DEF NoCall
  <2> QED BY <2>1
<1>33. CASE Others(t)
  <2>1. call'[t].op # "final"
    <3> HIDE DEF Located, CallAt, LastAt
    <3> QED BY <1>33, OthersEffect, ReadyLocated, PointerThere DEF NoCall
  <2> QED BY <2>1
<1> HIDE DEF Located, CallAt, LastAt, Is, SameOp, SameAt, SameStep, SameMem, SameWords,
             SameLast, TablePCs, SeatPCs, FinalPCs, WordPCs, InitPCs, EarlyPCs, EntryPCs,
             HeldPCs
<1> QED BY <1>2, <1>3, <1>4, <1>5, <1>6, <1>7, <1>8, <1>9, <1>10, <1>11, <1>12, <1>13,
           <1>14, <1>15, <1>16, <1>17, <1>18, <1>19, <1>20, <1>21, <1>22, <1>23, <1>24,
           <1>25, <1>26, <1>27, <1>28, <1>29, <1>30, <1>31, <1>32, <1>33
        DEF Step, InitStep, WordStep, FinalStep

\* Every step but the end of a process keeps LastInv.
LEMMA LastStep ==
  ASSUME Ready, NEW t \in Threads, Step(t)
  PROVE  LastInv'
BY LastOwn, LastOthers DEF LastInv

\* How a step of a thread changes what num_nodes counts.
CountMove(t) ==
  /\ Counted(t) \/ Counted(t)' => place'[t] = place[t]
  /\ \/ (Counted(t)' <=> Counted(t)) /\ count' = count
     \/ /\ ~Counted(t) /\ Counted(t)' /\ Mine(t) \in Mems /\ Mine(t)' = Mine(t)
        /\ count' = [count EXCEPT ![Mine(t)][place[t][1]] = @ + 1]
     \/ /\ Counted(t) /\ ~Counted(t)' /\ Mine(t) \in Mems
        /\ count' = [count EXCEPT ![Mine(t)][place[t][1]] = @ - 1]

\* num_nodes is counted up and down once for each node.
LEMMA CountMoves ==
  ASSUME Ready, NEW t \in Threads, Step(t)
  PROVE  CountMove(t)
<1>1. Located(t) /\ CallAt(t) /\ CallAt(t)' /\ (At(t) = place[t] => call[t].d = place[t][1])
  BY ReadyLocated, CallOwn DEF At
<1> USE <1>1 DEF Located, CallAt, CountMove, Counted, Running, Is, SameOp, SameAt,
                 SameStep, SameMem, SameWords, SameLast, TablePCs, SeatPCs, FinalPCs,
                 WordPCs, InitPCs, EarlyPCs, EntryPCs, HeldPCs
<1>2. ASSUME NEW start \in BOOLEAN, CallInitialize(t, start)
      PROVE  CountMove(t)
  <2>1. /\ pc[t] = "idle" /\ call'[t].op = "init" /\ pc'[t] = "mrapi"
        /\ UNCHANGED <<inited, count, place>>
    <3> HIDE DEF Located, CallAt, CountMove, Counted, Running
    <3> QED BY <1>2, CallInitializeEffect
  <2>2. Is(t, "none")
    BY <2>1, ReadyLocated, WhichCall
  <2> QED BY <2>1, <2>2
<1>3. CASE CallStart(t)
  <2>1. t \in inited /\ t \in inited' /\ UNCHANGED <<count, place>>
    <3> HIDE DEF Located, CallAt, CountMove, Counted, Running
    <3> QED BY <1>3, CallStartEffect
  <2> QED BY <2>1
<1>4. CASE CallFinalize(t)
  <2>1. /\ t \in inited /\ pc'[t] = "copy" /\ call'[t].op = "final" /\ call'[t].step = "free"
        /\ UNCHANGED <<count, place>>
    <3> HIDE DEF Located, CallAt, CountMove, Counted, Running
    <3> QED BY <1>4, CallFinalizeEffect
  <2> QED BY <2>1
<1>5. CASE CallSignal(t)
  <2>1. t \in inited /\ t \in inited' /\ UNCHANGED <<count, place>>
    <3> HIDE DEF Located, CallAt, CountMove, Counted, Running
    <3> QED BY <1>5, CallSignalEffect
  <2> QED BY <2>1
<1>6. CASE Restart(t)
  BY <1>6, RestartEffect
<1>7. CASE MrapiInitialize(t)
  BY <1>7, MrapiInitializeEffect DEF NoCall
<1>8. CASE Find(t)
  BY <1>8, FindEffect
<1>9. CASE AttachFound(t)
  BY <1>9, AttachFoundEffect
<1>10. CASE Point(t)
  BY <1>10, PointEffect
<1>11. CASE Create(t)
  BY <1>11, CreateEffect DEF NoCall
<1>12. CASE AttachCreated(t)
  BY <1>12, AttachCreatedEffect DEF NoCall
<1>13. CASE Place(t)
  BY <1>13, PlaceEffect
<1>14. CASE Wipe(t)
  BY <1>14, WipeEffect
<1>15. CASE DomainFind(t)
  BY <1>15, DomainFindEffect
<1>16. CASE DomainClaim(t)
  BY <1>16, DomainClaimEffect
<1>17. CASE Scan(t)
  BY <1>17, ScanEffect DEF NoCall
<1>18. CASE SlotRead(t)
  BY <1>18, SlotReadEffect
<1>19. CASE SlotClaim(t)
  BY <1>19, SlotClaimEffect DEF NoCall
<1>20. CASE Own(t)
  <2>1. /\ pc[t] = "own" /\ pc'[t] = "copy" /\ SameOp(t) /\ call'[t].step = "invalid"
        /\ UNCHANGED <<inited, count>>
    <3> HIDE DEF Located, CallAt, CountMove, Counted, Running
    <3> QED BY <1>20, OwnEffect
  <2>2. Is(t, "init")
    BY <2>1, ReadyLocated, PointerThere
  <2>3. ~Counted(t) /\ ~Counted(t)'
    BY <2>1, <2>2
  <2> QED BY <2>1, <2>3
<1>21. CASE Count(t)
  <2>1. /\ pc[t] = "count" /\ pc'[t] = "copy" /\ SameOp(t) /\ call'[t].step = "run"
        /\ Mine(t) \in Mems
        /\ UNCHANGED <<inited, place, db>>
        /\ count' = [count EXCEPT ![Mine(t)][call[t].d] = @ + 1]
    <3> HIDE DEF Located, CallAt, CountMove, Counted, Running
    <3> QED BY <1>21, CountEffect
  <2>2. Is(t, "init")
    BY <2>1, ReadyLocated, PointerThere
  <2>3. ~Counted(t) /\ Counted(t)' /\ call[t].d = place[t][1] /\ Mine(t)' = Mine(t)
    BY <2>1, <2>2 DEF Mine
  <2> HIDE DEF Counted, Located, CallAt
  <2> QED BY <2>1, <2>3
<1>22. CASE StartNow(t)
  BY <1>22, StartNowEffect
<1>23. CASE Done(t)
  <2>1. pc[t] = "done" /\ t \in inited' /\ UNCHANGED <<count, place>>
    <3> HIDE DEF Located, CallAt, CountMove, Counted, Running
    <3> QED BY <1>23, DoneEffect
  <2>2. Is(t, "init") \/ Is(t, "start")
    BY <2>1, ReadyLocated, WhichCall
  <2> QED BY <2>1, <2>2
<1>24. CASE Copy(t)
  BY <1>24, CopyEffect
<1>25. CASE ExchangeRead(t)
  BY <1>25, ExchangeReadEffect
<1>26. CASE Exchange(t)
  <2>1. /\ pc[t] = "xswap" /\ pc'[t] = After(t) /\ call'[t] = call[t]
        /\ UNCHANGED <<inited, count, place>>
    <3> HIDE DEF Located, CallAt, CountMove, Counted, Running
    <3> QED BY <1>26, ExchangeEffect
  <2>2. Counted(t)' <=> Counted(t)
    BY <2>1 DEF After, Calls
  <2> QED BY <2>1, <2>2
<1>27. CASE Uncount(t)
  <2>1. /\ pc[t] = "uncount" /\ pc'[t] = "any" /\ SameOp(t) /\ SameStep(t) /\ Mine(t) \in Mems
        /\ UNCHANGED <<inited, place>> /\ count' = [count EXCEPT ![Mine(t)][call[t].d] = @ - 1]
    <3> HIDE DEF Located, CallAt, CountMove, Counted, Running
    <3> QED BY <1>27, UncountEffect
  <2>2. Is(t, "final")
    BY <2>1, ReadyLocated, PointerThere
  <2>3. Counted(t) /\ ~Counted(t)' /\ call[t].d = place[t][1]
    BY <2>1, <2>2
  <2> HIDE DEF Counted, Located, CallAt
  <2> QED BY <2>1, <2>3
<1>28. CASE Any(t)
  BY <1>28, AnyEffect
<1>29. CASE Detach(t)
  BY <1>29, DetachEffect
<1>30. CASE Delete(t)
  BY <1>30, DeleteEffect
<1>31. CASE Leave(t)
  BY <1>31, LeaveEffect
<1>32. CASE Unpoint(t)
  BY <1>32, UnpointEffect DEF NoCall
<1>33. CASE Others(t)
  BY <1>33, OthersEffect
<1> HIDE DEF Located, CallAt, CountMove, Counted, Running, Is, SameOp, SameAt, SameStep,
             SameMem, SameWords, SameLast, TablePCs, SeatPCs, FinalPCs, WordPCs, InitPCs,
             EarlyPCs, EntryPCs, HeldPCs
<1> QED BY <1>2, <1>3, <1>4, <1>5, <1>6, <1>7, <1>8, <1>9, <1>10, <1>11, <1>12, <1>13,
           <1>14, <1>15, <1>16, <1>17, <1>18, <1>19, <1>20, <1>21, <1>22, <1>23, <1>24,
           <1>25, <1>26, <1>27, <1>28, <1>29, <1>30, <1>31, <1>32, <1>33
        DEF Step, InitStep, WordStep, FinalStep

\* Every step but the end of a process keeps CountInv.
LEMMA CountStep ==
  ASSUME Ready, NEW t \in Threads, Step(t)
  PROVE  CountInv'
<1> SUFFICES ASSUME NEW m \in Mems, NEW d \in Domains
             PROVE  /\ count'[m][d] >= Cardinality(Members(m, d)')
                    /\ crashed' = {} => count'[m][d] = Cardinality(Members(m, d)')
  BY DEF CountInv
<1> DEFINE M == Members(m, d)
<1>1. TypeInv /\ CountInv /\ count \in [Mems -> [Domains -> Nat]] /\ Located(t)
  BY ReadyLocated DEF Ready, NodeInvariant, TypeInv, TableType
<1>2. crashed' = crashed
  BY <1>1, ThreadFrame
<1>3. \A u \in Threads : Counted(u) => Anchored(u)
  BY DEF Counted, Running, Anchored, SeatPCs, WordPCs
<1>4. \A u \in Threads : Counted(u)' => Anchored(u)'
  BY DEF Counted, Running, Anchored, SeatPCs, WordPCs
<1>5. ASSUME NEW u \in Threads \ {t}
      PROVE  u \in M' <=> u \in M
  <2>1. /\ pc'[u] = pc[u] /\ call'[u] = call[u] /\ place'[u] = place[u]
        /\ u \in inited' <=> u \in inited
    BY <1>1, ThreadFrame
  <2>2. Counted(u)' <=> Counted(u)
    BY <2>1 DEF Counted, Running, Is
  <2>3. Counted(u) => Mine(u)' = Mine(u)
    BY <2>2, <1>3, <1>4, PointerKept
  <2> QED BY <2>1, <2>2, <2>3 DEF Members
<1>6. IsFiniteSet(M) /\ Cardinality(M) \in Nat
  BY NodesAssumption, FS_Subset, FS_CardinalityType DEF Members
<1>7. /\ count[m][d] >= Cardinality(M) /\ (crashed = {} => count[m][d] = Cardinality(M))
      /\ count[m][d] \in Nat
  BY <1>1 DEF CountInv
<1>8. CASE (Counted(t)' <=> Counted(t)) /\ count' = count /\ (Counted(t) => place'[t] = place[t])
  <2>1. Counted(t) => Mine(t)' = Mine(t)
    BY <1>3, <1>4, <1>8, PointerKept
  <2>2. t \in M' <=> t \in M
    BY <2>1, <1>8 DEF Members
  <2>3. M' = M
    BY <2>2, <1>5 DEF Members
  <2> QED BY <2>3, <1>2, <1>7, <1>8
<1>9. CASE /\ ~Counted(t) /\ Counted(t)' /\ Mine(t) \in Mems /\ place'[t] = place[t]
           /\ Mine(t)' = Mine(t) /\ count' = [count EXCEPT ![Mine(t)][place[t][1]] = @ + 1]
  <2>1. Mine(t)' = Mine(t)
    BY <1>9
  <2>2. CASE Mine(t) = m /\ place[t][1] = d
    <3>1. M' = M \cup {t} /\ t \notin M
      BY <2>1, <2>2, <1>5, <1>9 DEF Members
    <3>2. Cardinality(M') = Cardinality(M) + 1
      BY <3>1, <1>6, FS_AddElement
    <3>3. count'[m][d] = count[m][d] + 1
      BY <2>2, <1>1, <1>9
    <3> QED BY <3>2, <3>3, <1>2, <1>6, <1>7
  <2>3. CASE ~(Mine(t) = m /\ place[t][1] = d)
    <3>1. M' = M
      BY <2>1, <2>3, <1>5, <1>9 DEF Members
    <3>2. count'[m][d] = count[m][d]
      BY <2>3, <1>1, <1>9 DEF Located
    <3> QED BY <3>1, <3>2, <1>2, <1>7
  <2> QED BY <2>2, <2>3
<1>10. CASE /\ Counted(t) /\ ~Counted(t)' /\ Mine(t) \in Mems
            /\ count' = [count EXCEPT ![Mine(t)][place[t][1]] = @ - 1]
  <2>2. CASE Mine(t) = m /\ place[t][1] = d
    <3>1. M' = M \ {t} /\ t \in M
      BY <2>2, <1>5, <1>10 DEF Members
    <3>2. Cardinality(M') = Cardinality(M) - 1
      BY <3>1, <1>6, FS_RemoveElement
    <3>3. count'[m][d] = count[m][d] - 1
      BY <2>2, <1>1, <1>10
    <3> QED BY <3>2, <3>3, <1>2, <1>6, <1>7
  <2>3. CASE ~(Mine(t) = m /\ place[t][1] = d)
    <3>1. M' = M
      BY <2>3, <1>5, <1>10 DEF Members
    <3>2. count'[m][d] = count[m][d]
      BY <2>3, <1>1, <1>10 DEF Located
    <3> QED BY <3>1, <3>2, <1>2, <1>7
  <2> QED BY <2>2, <2>3
<1> QED BY <1>8, <1>9, <1>10, CountMoves DEF CountMove

\* Only a claim allocates a slot, and only its owner is set.
LEMMA AllocMoves ==
  ASSUME Ready, NEW t \in Threads, Step(t), NEW m \in Mems, NEW x \in Seats
  PROVE  /\ node'[m][x].alloc =>
              \/ node[m][x].alloc
              \/ /\ Is(t, "init") /\ pc'[t] = "own" /\ call'[t] = call[t] /\ db' = db
                 /\ m = Mine(t) /\ x = At(t)
         /\ \/ owner'[m][x] = owner[m][x]
            \/ Is(t, "init") /\ pc[t] = "own" /\ m = Mine(t) /\ x = At(t)
<1>1. /\ Located(t) /\ CallAt(t) /\ SeatAt(t) /\ node \in [Mems -> [Seats -> Words]]
      /\ owner \in [Mems -> [Seats -> Owners]] /\ node[m][x] \in Words
  BY ReadyLocated DEF Ready, NodeInvariant, TypeInv, TableType
<1>2. CASE dom' = dom /\ node' = node /\ owner' = owner
  BY <1>2
<1>3. CASE Wipe(t)
  <2>1. owner' = owner /\ Mine(t) \in Mems
        /\ node' = [node EXCEPT ![Mine(t)] = [y \in Seats |-> IF y[1] = call[t].d THEN NoWord ELSE node[Mine(t)][y]]]
    BY <1>3, WipeEffect
  <2>2. node'[m][x] = node[m][x] \/ node'[m][x] = NoWord
    BY <2>1, <1>1
  <2> QED BY <2>1, <2>2 DEF NoWord
<1>4. CASE DomainClaim(t)
  BY <1>4, DomainClaimEffect
<1>5. CASE SlotClaim(t)
  <2>1. pc[t] = "claim" /\ Mine(t) \in Mems /\ owner' = owner /\ db' = db
    BY <1>5, SlotClaimEffect
  <2>2. Is(t, "init")
    BY <2>1, ReadyLocated, PointerThere DEF TablePCs
  <2>3. \/ node' = node
        \/ /\ pc'[t] = "own" /\ call'[t] = call[t]
           /\ \E w \in Words : node' = [node EXCEPT ![Mine(t)][At(t)] = w]
    BY <1>5, SlotClaimEffect
  <2>4. CASE /\ pc'[t] = "own" /\ call'[t] = call[t]
             /\ \E w \in Words : node' = [node EXCEPT ![Mine(t)][At(t)] = w]
    <3>1. PICK w \in Words : node' = [node EXCEPT ![Mine(t)][At(t)] = w]
      BY <2>4
    <3>2. m # Mine(t) \/ x # At(t) => node'[m][x] = node[m][x]
      BY <3>1, <2>1, <1>1, OneEntry DEF Located
    <3> QED BY <3>2, <2>1, <2>2, <2>4
  <2> QED BY <2>1, <2>3, <2>4
<1>6. CASE Own(t)
  <2>1. pc[t] = "own" /\ Mine(t) \in Mems /\ node' = node
        /\ owner' = [owner EXCEPT ![Mine(t)][At(t)] = Pid(t)]
    BY <1>6, OwnEffect
  <2>2. Is(t, "init")
    BY <2>1, ReadyLocated, PointerThere DEF SeatPCs
  <2>3. m # Mine(t) \/ x # At(t) => owner'[m][x] = owner[m][x]
    BY <2>1, <1>1, OneEntry DEF Located
  <2> QED BY <2>1, <2>2, <2>3
<1>7. CASE Exchange(t)
  <2>1. pc[t] = "xswap" /\ Mine(t) \in Mems /\ owner' = owner
        /\ (node' = node \/ node' = [node EXCEPT ![Mine(t)][At(t)] = call[t].new])
    BY <1>7, ExchangeEffect
  <2>2. CASE node' = [node EXCEPT ![Mine(t)][At(t)] = call[t].new]
    <3>1. /\ m # Mine(t) \/ x # At(t) => node'[m][x] = node[m][x]
          /\ m = Mine(t) /\ x = At(t) => node'[m][x] = call[t].new
      BY <2>1, <2>2, <1>1, OneEntry DEF Located
    <3>2. call[t].new.alloc => Word(t).alloc
      <4>1. CASE call[t].step = "free"
        BY <4>1, <2>1, <1>1 DEF SeatAt
      <4>2. CASE call[t].step = "rundown"
        BY <4>2, <2>1, <1>1 DEF SeatAt
      <4>3. CASE call[t].step \notin {"free", "rundown"}
        <5>1. Seated(t) /\ Holds(t) /\ Seat(t) = At(t)
          BY <4>3, <2>1, <1>1 DEF Located, CallAt, Holds, Seated, Seat, Is, Calls, SeatPCs, WordPCs
        <5> QED BY <5>1, HolderSeat DEF Word
      <4> QED BY <4>1, <4>2, <4>3
    <3> QED BY <2>1, <3>1, <3>2 DEF Word
  <2> QED BY <2>1, <2>2
<1>8. CASE Others(t)
  <2>1. Mine(t) \in Mems /\ owner' = owner
    BY <1>8, OthersEffect
  <2>2. node' = [node EXCEPT ![Mine(t)] = [y \in Seats |-> IF owner[Mine(t)][y] = Pid(t)
                     THEN [node[Mine(t)][y] EXCEPT !.valid = FALSE] ELSE node[Mine(t)][y]]]
    BY <1>8, OthersEffect
  <2>3. node'[m][x] = node[m][x] \/ node'[m][x] = [node[m][x] EXCEPT !.valid = FALSE]
    BY <2>1, <2>2, <1>1
  <2>4. node'[m][x].alloc = node[m][x].alloc
    BY <2>3, <1>1 DEF Words
  <2> QED BY <2>1, <2>4
<1> QED BY <1>2, <1>3, <1>4, <1>5, <1>6, <1>7, <1>8, TableFrame DEF FewTableSteps, TableSteps

\* A thread leaves its slot by the exchange of its finalize.
FreeMove(t) ==
  Seated(t) => Seated(t)' \/ (Exchange(t) /\ Is(t, "final") /\ call[t].step = "free")

\* No other step takes the slot of a thread away.
LEMMA FreeMoves ==
  ASSUME Ready, NEW t \in Threads, Step(t)
  PROVE  FreeMove(t)
<1>1. Located(t) /\ CallAt(t) /\ CallAt(t)'
  BY ReadyLocated, CallOwn
<1> USE <1>1 DEF Located, CallAt, FreeMove, Seated, Is, SameOp, SameAt, SameStep, SameMem,
                 SameWords, SameLast, TablePCs, SeatPCs, FinalPCs, WordPCs, InitPCs,
                 EarlyPCs, EntryPCs, HeldPCs
<1>2. ASSUME NEW start \in BOOLEAN, CallInitialize(t, start)
      PROVE  FreeMove(t)
  <2>1. pc[t] = "idle" /\ inited' = inited
    <3> HIDE DEF Located, CallAt, FreeMove, Seated
    <3> QED BY <1>2, CallInitializeEffect
  <2>2. Is(t, "none")
    BY <2>1, ReadyLocated, WhichCall
  <2> QED BY <2>1, <2>2
<1>3. CASE CallStart(t)
  <2>1. t \in inited /\ inited' = inited
    <3> HIDE DEF Located, CallAt, FreeMove, Seated
    <3> QED BY <1>3, CallStartEffect
  <2> QED BY <2>1
<1>4. CASE CallFinalize(t)
  <2>1. pc'[t] = "copy" /\ call'[t].op = "final" /\ call'[t].step = "free"
    <3> HIDE DEF Located, CallAt, FreeMove, Seated
    <3> QED BY <1>4, CallFinalizeEffect
  <2> QED BY <2>1
<1>5. CASE CallSignal(t)
  <2>1. t \in inited /\ inited' = inited
    <3> HIDE DEF Located, CallAt, FreeMove, Seated
    <3> QED BY <1>5, CallSignalEffect
  <2> QED BY <2>1
<1>6. CASE Restart(t)
  BY <1>6, RestartEffect
<1>7. CASE MrapiInitialize(t)
  BY <1>7, MrapiInitializeEffect DEF NoCall
<1>8. CASE Find(t)
  BY <1>8, FindEffect
<1>9. CASE AttachFound(t)
  BY <1>9, AttachFoundEffect
<1>10. CASE Point(t)
  BY <1>10, PointEffect
<1>11. CASE Create(t)
  BY <1>11, CreateEffect DEF NoCall
<1>12. CASE AttachCreated(t)
  BY <1>12, AttachCreatedEffect DEF NoCall
<1>13. CASE Place(t)
  BY <1>13, PlaceEffect
<1>14. CASE Wipe(t)
  BY <1>14, WipeEffect
<1>15. CASE DomainFind(t)
  BY <1>15, DomainFindEffect
<1>16. CASE DomainClaim(t)
  BY <1>16, DomainClaimEffect
<1>17. CASE Scan(t)
  <2>1. pc[t] = "scan" /\ inited' = inited
    <3> HIDE DEF Located, CallAt, FreeMove, Seated
    <3> QED BY <1>17, ScanEffect
  <2>2. Is(t, "init")
    BY <2>1, ReadyLocated, PointerThere
  <2> QED BY <2>1, <2>2
<1>18. CASE SlotRead(t)
  BY <1>18, SlotReadEffect
<1>19. CASE SlotClaim(t)
  <2>1. pc[t] = "claim" /\ inited' = inited
    <3> HIDE DEF Located, CallAt, FreeMove, Seated
    <3> QED BY <1>19, SlotClaimEffect
  <2>2. Is(t, "init")
    BY <2>1, ReadyLocated, PointerThere
  <2> QED BY <2>1, <2>2
<1>20. CASE Own(t)
  BY <1>20, OwnEffect
<1>21. CASE Count(t)
  BY <1>21, CountEffect
<1>22. CASE StartNow(t)
  BY <1>22, StartNowEffect
<1>23. CASE Done(t)
  BY <1>23, DoneEffect DEF NoCall
<1>24. CASE Copy(t)
  BY <1>24, CopyEffect
<1>25. CASE ExchangeRead(t)
  BY <1>25, ExchangeReadEffect
<1>26. CASE Exchange(t)
  <2>1. pc[t] = "xswap" /\ pc'[t] = After(t) /\ call'[t] = call[t] /\ inited' = inited
    <3> HIDE DEF Located, CallAt, FreeMove, Seated
    <3> QED BY <1>26, ExchangeEffect
  <2>2. Is(t, "init") => pc'[t] \in {"count", "start", "done"}
    BY <2>1 DEF After, Calls
  <2> QED BY <2>1, <2>2, <1>26
<1>27. CASE Uncount(t)
  BY <1>27, UncountEffect
<1>28. CASE Any(t)
  BY <1>28, AnyEffect
<1>29. CASE Detach(t)
  BY <1>29, DetachEffect
<1>30. CASE Delete(t)
  BY <1>30, DeleteEffect
<1>31. CASE Leave(t)
  BY <1>31, LeaveEffect
<1>32. CASE Unpoint(t)
  BY <1>32, UnpointEffect DEF NoCall
<1>33. CASE Others(t)
  BY <1>33, OthersEffect
<1> HIDE DEF Located, CallAt, FreeMove, Seated, Is, SameOp, SameAt, SameStep, SameMem,
             SameWords, SameLast, TablePCs, SeatPCs, FinalPCs, WordPCs, InitPCs, EarlyPCs,
             EntryPCs, HeldPCs
<1> QED BY <1>2, <1>3, <1>4, <1>5, <1>6, <1>7, <1>8, <1>9, <1>10, <1>11, <1>12, <1>13,
           <1>14, <1>15, <1>16, <1>17, <1>18, <1>19, <1>20, <1>21, <1>22, <1>23, <1>24,
           <1>25, <1>26, <1>27, <1>28, <1>29, <1>30, <1>31, <1>32, <1>33
        DEF Step, InitStep, WordStep, FinalStep

\* A slot that a thread has, and that stays allocated, stays accounted for.
LEMMA AccOwn ==
  ASSUME Ready, NEW t \in Threads, Step(t), NEW m \in Mems, NEW x \in Seats,
         Seated(t), Mine(t) = m, Seat(t) = x, node'[m][x].alloc
  PROVE  HasThread(m, x)' \/ Ending(m, x)'
<1>1. /\ Located(t) /\ CallAt(t) /\ SeatAt(t) /\ node \in [Mems -> [Seats -> Words]] /\ Holds(t)
  BY ReadyLocated DEF Ready, NodeInvariant, TypeInv, TableType, Holds
<1>2. CASE Seated(t)'
  <2>1. Holds(t)' /\ Anchored(t) /\ Anchored(t)'
    BY <1>1, <1>2 DEF Holds, Anchored, Seated
  <2>2. Is(t, "init") => At(t) = Seat(t)
    BY <1>1 DEF Seated, Seat, CallAt, Is, SeatPCs, WordPCs
  <2>3. Seat(t)' = Seat(t)
    <3>1. node[Mine(t)][Seat(t)].alloc
      BY <1>1, HolderSeat
    <3> QED BY <2>1, <2>2, <3>1, SeatMoves DEF SeatMove, Word
  <2>4. Mine(t)' = Mine(t)
    BY <2>1, PointerKept
  <2> QED BY <2>3, <2>4, <1>2 DEF HasThread
<1>3. CASE Exchange(t) /\ Is(t, "final") /\ call[t].step = "free"
  <2>1. pc[t] = "xswap" /\ owner' = owner /\ epoch' = epoch
    BY <1>3, ExchangeEffect
  <2>2. \/ Word(t) = call[t].old /\ node' = [node EXCEPT ![Mine(t)][At(t)] = call[t].new]
        \/ Word(t) # call[t].old
    BY <1>3, ExchangeEffect
  <2>3. At(t) = place[t] /\ Seat(t) = place[t]
    BY <2>1, <1>1, <1>3 DEF CallAt, WordPCs, Seat
  <2>4. ~call[t].new.alloc
    BY <2>1, <1>1, <1>3 DEF SeatAt
  <2>5. node' # [node EXCEPT ![Mine(t)][At(t)] = call[t].new]
    <3> SUFFICES ASSUME node' = [node EXCEPT ![Mine(t)][At(t)] = call[t].new]
                 PROVE  FALSE
      OBVIOUS
    <3>1. node'[m][x] = call[t].new
      BY <2>3, <1>1, OneEntry DEF Located
    <3> QED BY <3>1, <2>4
  <2>6. Signalled(Proc[t])
    BY <2>1, <2>2, <2>5, <1>1, <1>3 DEF SeatAt
  <2>7. PICK u \in Threads : Is(u, "signal") /\ Proc[u] = Proc[t]
    BY <2>6 DEF Signalled
  <2>8. owner[m][x] = Pid(t)
    BY <2>1, <1>1, HolderSeat
  <2>9. Pid(u)' = Pid(t)
    BY <2>1, <2>7 DEF Pid
  <2>10. Is(u, "signal")'
    BY <2>7, SignalStays
  <2> QED BY <2>1, <2>8, <2>9, <2>10 DEF Ending
<1> QED BY <1>2, <1>3, FreeMoves DEF FreeMove

\* Every step but the end of a process keeps AccInv.
LEMMA AccStep ==
  ASSUME Ready, NEW t \in Threads, Step(t)
  PROVE  AccInv'
<1> SUFFICES ASSUME NEW m \in Mems, NEW x \in Seats, node'[m][x].alloc
             PROVE  HasThread(m, x)' \/ Ended(m, x)' \/ Ending(m, x)'
  BY DEF AccInv
<1>1. AccInv /\ CallInv /\ TypeInv
  BY DEF Ready, NodeInvariant
<1>2. crashed' = crashed
  BY <1>1, ThreadFrame
<1>3. CASE /\ Is(t, "init") /\ pc'[t] = "own" /\ call'[t] = call[t] /\ db' = db
           /\ m = Mine(t) /\ x = At(t)
  BY <1>3 DEF HasThread, Seated, Seat, SeatPCs, Is, Mine, At
<1>4. CASE Seated(t) /\ Mine(t) = m /\ Seat(t) = x
  BY <1>4, AccOwn
<1>5. CASE node[m][x].alloc /\ ~(Seated(t) /\ Mine(t) = m /\ Seat(t) = x)
  <2>1. owner'[m][x] = owner[m][x]
    BY <1>5, AllocMoves DEF Seated, Seat, SeatPCs
  <2>2. CASE HasThread(m, x)
    <3>1. PICK u \in Threads : Seated(u) /\ Mine(u) = m /\ Seat(u) = x
      BY <2>2 DEF HasThread
    <3>2. u \in Threads \ {t} /\ Holds(u)
      BY <3>1, <1>5 DEF Holds
    <3>3. Seated(u)' /\ Mine(u)' = m /\ Seat(u)' = x
      BY <3>1, <3>2, SeatOthers
    <3> QED BY <3>3 DEF HasThread
  <2>3. CASE Ended(m, x)
    BY <2>1, <2>3, <1>2 DEF Ended
  <2>4. CASE Ending(m, x)
    <3>1. PICK u \in Threads : Is(u, "signal") /\ owner[m][x] = Pid(u)
      BY <2>4 DEF Ending
    <3>2. Is(u, "signal")' /\ CallAt(u) /\ CallAt(u)'
      BY <3>1, <1>1, SignalStays, CallStep DEF CallInv
    <3>3. epoch[Proc[u]] = 0 /\ epoch'[Proc[u]] = 0
      BY <3>1, <3>2 DEF CallAt
    <3>4. Pid(u)' = Pid(u)
      BY <3>3 DEF Pid
    <3> QED BY <3>1, <3>2, <3>4, <2>1 DEF Ending
  <2> QED BY <1>1, <1>5, <2>2, <2>3, <2>4 DEF AccInv
<1> QED BY <1>3, <1>4, <1>5, AllocMoves

\* While a thread looks for a slot, no slot is freed.
LEMMA WordKept ==
  ASSUME Ready, NEW t \in Threads, Step(t), NEW u \in Threads \ {t}, Is(u, "init"),
         pc[u] \in {"read", "claim"}, NEW x \in Seats
  PROVE  /\ node'[Mine(u)][x] = node[Mine(u)][x] \/ node'[Mine(u)][x].alloc
         /\ node[Mine(u)][x].alloc => node'[Mine(u)][x].alloc
<1> DEFINE m == Mine(u)
<1>1. /\ Located(t) /\ CallAt(t) /\ SeatAt(t) /\ PhaseInv /\ node \in [Mems -> [Seats -> Words]]
  BY ReadyLocated DEF Ready, NodeInvariant, TypeInv, TableType
<1>2. m \in Mems
  BY ReadyLocated, PointerThere DEF TablePCs
<1>3. ~Is(t, "final") /\ ~Is(t, "signal")
  BY <1>1 DEF PhaseInv
<1>4. ~(Is(t, "init") /\ pc[t] \in CreatePCs)
  BY <1>1 DEF PhaseInv
<1> HIDE DEF m
<1>5. node'[m][x] = node[m][x] \/ node'[m][x].alloc
  <2>1. CASE node' = node
    BY <2>1
  <2>2. CASE Wipe(t)
    <3>1. pc[t] = "wipe"
      BY <2>2, WipeEffect
    <3> QED BY <3>1, <1>4, ReadyLocated, PointerThere DEF TablePCs, CreatePCs
  <2>3. CASE SlotClaim(t)
    <3>1. Mine(t) \in Mems
      BY <2>3, SlotClaimEffect
    <3>2. node' = node \/ \E w \in Words : w.alloc /\ node' = [node EXCEPT ![Mine(t)][At(t)] = w]
      BY <2>3, SlotClaimEffect
    <3>3. CASE \E w \in Words : w.alloc /\ node' = [node EXCEPT ![Mine(t)][At(t)] = w]
      <4>1. PICK w \in Words : w.alloc /\ node' = [node EXCEPT ![Mine(t)][At(t)] = w]
        BY <3>3
      <4>2. node'[m][x] = node[m][x] \/ node'[m][x] = w
        BY <4>1, <3>1, <1>1, <1>2, OneEntry DEF Located
      <4> QED BY <4>1, <4>2
    <3> QED BY <3>2, <3>3
  <2>4. CASE Exchange(t)
    <3>1. pc[t] = "xswap" /\ Mine(t) \in Mems
          /\ (node' = node \/ node' = [node EXCEPT ![Mine(t)][At(t)] = call[t].new])
      BY <2>4, ExchangeEffect
    <3>2. Seated(t)
      BY <3>1, <1>1, <1>3 DEF Located, CallAt, Seated, Is, Calls, SeatPCs, WordPCs
    <3>3. call[t].new.alloc
      BY <3>1, <3>2, <1>1, <1>3 DEF SeatAt
    <3>4. CASE node' = [node EXCEPT ![Mine(t)][At(t)] = call[t].new]
      <4>1. node'[m][x] = node[m][x] \/ node'[m][x] = call[t].new
        BY <3>1, <3>4, <1>1, <1>2, OneEntry DEF Located
      <4> QED BY <4>1, <3>3
    <3> QED BY <3>1, <3>4
  <2>5. CASE Others(t)
    <3>1. pc[t] = "others"
      BY <2>5, OthersEffect
    <3> QED BY <3>1, <1>3, ReadyLocated, PointerThere
  <2> QED BY <2>1, <2>2, <2>3, <2>4, <2>5, TableFrame, DomainClaimEffect, OwnEffect
          DEF FewTableSteps, TableSteps
<1> QED BY <1>5 DEF m

\* A step of another thread leaves what an initialize found allocated so.
LEMMA ClaimOthers ==
  ASSUME Ready, NEW t \in Threads, Step(t), NEW u \in Threads \ {t}
  PROVE  ClaimAt(u)'
<1>1. ClaimAt(u) /\ TypeInv /\ Located(u)
  BY ReadyLocated
<1>2. pc'[u] = pc[u] /\ call'[u] = call[u] /\ (u \in inited' <=> u \in inited)
  BY <1>1, ThreadFrame
<1>3. (Is(u, "init")' <=> Is(u, "init")) /\ At(u)' = At(u)
  BY <1>2 DEF Is, At
<1>4. CASE Is(u, "init") /\ pc[u] \in {"read", "claim"}
  <2>1. Mine(u)' = Mine(u)
    <3>1. Anchored(u) /\ Anchored(u)'
      BY <1>2, <1>3, <1>4 DEF Anchored, TablePCs
    <3> QED BY <3>1, PointerKept
  <2>2. \A x \in Seats : /\ node'[Mine(u)][x] = node[Mine(u)][x] \/ node'[Mine(u)][x].alloc
                         /\ node[Mine(u)][x].alloc => node'[Mine(u)][x].alloc
    BY <1>4, WordKept
  <2>3. \A y \in Slots : <<call[u].d, y>> \in Seats
    BY <1>1 DEF Located, Seats
  <2>4. Word(u)' = Word(u) \/ Word(u)'.alloc
    BY <2>1, <2>2, <1>1, <1>3 DEF Word, Located
  <2>5. \A y \in Slots : y < call[u].n => node'[Mine(u)][<<call[u].d, y>>].alloc
    BY <2>2, <2>3, <1>1, <1>4 DEF ClaimAt
  <2>6. pc[u] = "claim" => Word(u)' = call[u].old \/ Word(u)'.alloc
    <3>1. Word(u).alloc => Word(u)'.alloc
      BY <2>1, <2>2, <1>1, <1>3 DEF Word, Located
    <3> QED BY <2>4, <3>1, <1>1, <1>4 DEF ClaimAt
  <2> QED BY <2>1, <2>5, <2>6, <1>2 DEF ClaimAt
<1> QED BY <1>2, <1>3, <1>4 DEF ClaimAt

\* A claim that fails met a slot that is allocated.
LEMMA ClaimFails ==
  ASSUME Ready, NEW t \in Threads, Is(t, "init"), pc[t] = "claim", Mine(t) \in Mems,
         Word(t) # [call[t].old EXCEPT !.alloc = FALSE]
  PROVE  Word(t).alloc
<1>1. ClaimAt(t) /\ Word(t) \in Words
  BY ReadyLocated DEF Located
<1>2. Word(t) = call[t].old => Word(t).alloc
  <2> DEFINE w == Word(t)
  <2> SUFFICES ASSUME w = call[t].old, ~w.alloc
               PROVE  FALSE
    OBVIOUS
  <2>1. [w EXCEPT !.alloc = FALSE] = w
    <3> HIDE DEF w
    <3> QED BY <1>1 DEF Words, w
  <2> QED BY <2>1
<1> QED BY <1>1, <1>2 DEF ClaimAt

\* A thread goes on to the next slot when one is allocated.
LEMMA ClaimOwn ==
  ASSUME Ready, NEW t \in Threads, Step(t)
  PROVE  ClaimAt(t)'
<1>1. Located(t) /\ CallAt(t) /\ ClaimAt(t) /\ CallAt(t)'
  BY ReadyLocated, CallOwn
<1> USE <1>1 DEF Located, CallAt, ClaimAt, Is, SameOp, SameAt, SameStep, SameMem,
                 SameWords, SameLast, TablePCs, SeatPCs, FinalPCs, WordPCs, InitPCs,
                 EarlyPCs, EntryPCs, HeldPCs
<1>2. ASSUME NEW start \in BOOLEAN, CallInitialize(t, start)
      PROVE  ClaimAt(t)'
  <2>1. pc'[t] \notin {"read", "claim"}
    <3> HIDE DEF Located, CallAt, ClaimAt
    <3> QED BY <1>2, CallInitializeEffect
  <2> QED BY <2>1
<1>3. CASE CallStart(t)
  <2>1. pc'[t] \notin {"read", "claim"}
    <3> HIDE DEF Located, CallAt, ClaimAt
    <3> QED BY <1>3, CallStartEffect
  <2> QED BY <2>1
<1>4. CASE CallFinalize(t)
  <2>1. pc'[t] \notin {"read", "claim"}
    <3> HIDE DEF Located, CallAt, ClaimAt
    <3> QED BY <1>4, CallFinalizeEffect
  <2> QED BY <2>1
<1>5. CASE CallSignal(t)
  <2>1. pc'[t] \notin {"read", "claim"}
    <3> HIDE DEF Located, CallAt, ClaimAt
    <3> QED BY <1>5, CallSignalEffect
  <2> QED BY <2>1
<1>6. CASE Restart(t)
  <2>1. pc'[t] \notin {"read", "claim"}
    <3> HIDE DEF Located, CallAt, ClaimAt
    <3> QED BY <1>6, RestartEffect
  <2> QED BY <2>1
<1>7. CASE MrapiInitialize(t)
  <2>1. pc'[t] \notin {"read", "claim"}
    <3> HIDE DEF Located, CallAt, ClaimAt
    <3> QED BY <1>7, MrapiInitializeEffect
  <2> QED BY <2>1
<1>8. CASE Find(t)
  <2>1. pc'[t] \notin {"read", "claim"}
    <3> HIDE DEF Located, CallAt, ClaimAt
    <3> QED BY <1>8, FindEffect
  <2> QED BY <2>1
<1>9. CASE AttachFound(t)
  <2>1. pc'[t] \notin {"read", "claim"}
    <3> HIDE DEF Located, CallAt, ClaimAt
    <3> QED BY <1>9, AttachFoundEffect
  <2> QED BY <2>1
<1>10. CASE Point(t)
  <2>1. pc'[t] \notin {"read", "claim"}
    <3> HIDE DEF Located, CallAt, ClaimAt
    <3> QED BY <1>10, PointEffect
  <2> QED BY <2>1
<1>11. CASE Create(t)
  <2>1. pc'[t] \notin {"read", "claim"}
    <3> HIDE DEF Located, CallAt, ClaimAt
    <3> QED BY <1>11, CreateEffect
  <2> QED BY <2>1
<1>12. CASE AttachCreated(t)
  <2>1. pc'[t] \notin {"read", "claim"}
    <3> HIDE DEF Located, CallAt, ClaimAt
    <3> QED BY <1>12, AttachCreatedEffect
  <2> QED BY <2>1
<1>13. CASE Place(t)
  <2>1. pc'[t] \notin {"read", "claim"}
    <3> HIDE DEF Located, CallAt, ClaimAt
    <3> QED BY <1>13, PlaceEffect
  <2> QED BY <2>1
<1>14. CASE Wipe(t)
  <2>1. pc'[t] \notin {"read", "claim"}
    <3> HIDE DEF Located, CallAt, ClaimAt
    <3> QED BY <1>14, WipeEffect
  <2> QED BY <2>1
<1>15. CASE DomainFind(t)
  <2>1. pc'[t] \notin {"read", "claim"}
    <3> HIDE DEF Located, CallAt, ClaimAt
    <3> QED BY <1>15, DomainFindEffect
  <2> QED BY <2>1
<1>16. CASE DomainClaim(t)
  <2>1. pc'[t] \notin {"read", "claim"}
    <3> HIDE DEF Located, CallAt, ClaimAt
    <3> QED BY <1>16, DomainClaimEffect
  <2> QED BY <2>1
<1>17. CASE Scan(t)
  <2>1. pc'[t] \in {"idle", "scan"} \/ (pc'[t] = "read" /\ call'[t].n = 0)
    <3> HIDE DEF Located, CallAt, ClaimAt
    <3> QED BY <1>17, ScanEffect
  <2>2. \A y \in Slots : ~(y < 0)
    BY NodesAssumption DEF Slots
  <2> QED BY <2>1, <2>2
<1>18. CASE SlotRead(t)
  <2>1. /\ pc[t] = "read" /\ pc'[t] = "claim" /\ call'[t].old = Word(t) /\ SameOp(t) /\ SameAt(t)
        /\ UNCHANGED <<node, db>>
    <3> HIDE DEF Located, CallAt, ClaimAt
    <3> QED BY <1>18, SlotReadEffect
  <2>2. Mine(t)' = Mine(t) /\ Word(t)' = Word(t)
    BY <2>1 DEF Mine, Word, At
  <2> QED BY <2>1, <2>2
<1>19. CASE SlotClaim(t)
  <2>1. \/ pc'[t] \in {"own", "idle"}
        \/ /\ pc'[t] = "read" /\ call'[t].n = call[t].n + 1 /\ SameOp(t) /\ call'[t].d = call[t].d
           /\ Word(t) # [call[t].old EXCEPT !.alloc = FALSE] /\ node' = node
    <3> HIDE DEF Located, CallAt, ClaimAt
    <3> QED BY <1>19, SlotClaimEffect
  <2>2. pc[t] = "claim" /\ Mine(t) \in Mems /\ db' = db
    <3> HIDE DEF Located, CallAt, ClaimAt
    <3> QED BY <1>19, SlotClaimEffect
  <2>3. CASE pc'[t] \in {"own", "idle"}
    BY <2>3
  <2>4. CASE /\ pc'[t] = "read" /\ call'[t].n = call[t].n + 1 /\ SameOp(t) /\ call'[t].d = call[t].d
             /\ Word(t) # [call[t].old EXCEPT !.alloc = FALSE] /\ node' = node
    <3>1. Is(t, "init")
      BY <2>2, ReadyLocated, PointerThere
    <3>2. node[Mine(t)][<<call[t].d, call[t].n>>].alloc
      <4> HIDE DEF Located, CallAt, ClaimAt
      <4> QED BY <2>2, <2>4, <3>1, ClaimFails DEF Word, At
    <3>3. \A y \in Slots : y < call[t].n + 1 => y < call[t].n \/ y = call[t].n
      BY NodesAssumption DEF Slots
    <3>4. \A y \in Slots : y < call[t].n => node[Mine(t)][<<call[t].d, y>>].alloc
      BY <2>2, <3>1
    <3>5. \A y \in Slots : y < call[t].n + 1 => node[Mine(t)][<<call[t].d, y>>].alloc
      <4> HIDE DEF Located, CallAt, ClaimAt
      <4> QED BY <3>2, <3>3, <3>4
    <3>6. Mine(t)' = Mine(t)
      BY <2>2 DEF Mine
    <3> QED BY <2>4, <3>5, <3>6
  <2> QED BY <2>1, <2>3, <2>4
<1>20. CASE Own(t)
  <2>1. pc'[t] \notin {"read", "claim"}
    <3> HIDE DEF Located, CallAt, ClaimAt
    <3> QED BY <1>20, OwnEffect
  <2> QED BY <2>1
<1>21. CASE Count(t)
  <2>1. pc'[t] \notin {"read", "claim"}
    <3> HIDE DEF Located, CallAt, ClaimAt
    <3> QED BY <1>21, CountEffect
  <2> QED BY <2>1
<1>22. CASE StartNow(t)
  <2>1. pc'[t] \notin {"read", "claim"}
    <3> HIDE DEF Located, CallAt, ClaimAt
    <3> QED BY <1>22, StartNowEffect
  <2> QED BY <2>1
<1>23. CASE Done(t)
  <2>1. pc'[t] \notin {"read", "claim"}
    <3> HIDE DEF Located, CallAt, ClaimAt
    <3> QED BY <1>23, DoneEffect
  <2> QED BY <2>1
<1>24. CASE Copy(t)
  <2>1. pc'[t] \notin {"read", "claim"}
    <3> HIDE DEF Located, CallAt, ClaimAt
    <3> QED BY <1>24, CopyEffect
  <2> QED BY <2>1
<1>25. CASE ExchangeRead(t)
  <2>1. pc'[t] \notin {"read", "claim"}
    <3> HIDE DEF Located, CallAt, ClaimAt
    <3> QED BY <1>25, ExchangeReadEffect
  <2> QED BY <2>1
<1>26. CASE Exchange(t)
  <2>1. pc[t] = "xswap" /\ pc'[t] = After(t)
    <3> HIDE DEF Located, CallAt, ClaimAt
    <3> QED BY <1>26, ExchangeEffect
  <2>2. pc'[t] \notin {"read", "claim"}
    BY <2>1 DEF After, Calls
  <2> QED BY <2>1, <2>2
<1>27. CASE Uncount(t)
  <2>1. pc'[t] \notin {"read", "claim"}
    <3> HIDE DEF Located, CallAt, ClaimAt
    <3> QED BY <1>27, UncountEffect
  <2> QED BY <2>1
<1>28. CASE Any(t)
  <2>1. pc'[t] \notin {"read", "claim"}
    <3> HIDE DEF Located, CallAt, ClaimAt
    <3> QED BY <1>28, AnyEffect
  <2> QED BY <2>1
<1>29. CASE Detach(t)
  <2>1. pc'[t] \notin {"read", "claim"}
    <3> HIDE DEF Located, CallAt, ClaimAt
    <3> QED BY <1>29, DetachEffect
  <2> QED BY <2>1
<1>30. CASE Delete(t)
  <2>1. pc'[t] \notin {"read", "claim"}
    <3> HIDE DEF Located, CallAt, ClaimAt
    <3> QED BY <1>30, DeleteEffect
  <2> QED BY <2>1
<1>31. CASE Leave(t)
  <2>1. pc'[t] \notin {"read", "claim"}
    <3> HIDE DEF Located, CallAt, ClaimAt
    <3> QED BY <1>31, LeaveEffect
  <2> QED BY <2>1
<1>32. CASE Unpoint(t)
  <2>1. pc'[t] \notin {"read", "claim"}
    <3> HIDE DEF Located, CallAt, ClaimAt
    <3> QED BY <1>32, UnpointEffect
  <2> QED BY <2>1
<1>33. CASE Others(t)
  <2>1. pc'[t] \notin {"read", "claim"}
    <3> HIDE DEF Located, CallAt, ClaimAt
    <3> QED BY <1>33, OthersEffect
  <2> QED BY <2>1
<1> HIDE DEF Located, CallAt, ClaimAt, Is, SameOp, SameAt, SameStep, SameMem, SameWords,
             SameLast, TablePCs, SeatPCs, FinalPCs, WordPCs, InitPCs, EarlyPCs, EntryPCs,
             HeldPCs
<1> QED BY <1>2, <1>3, <1>4, <1>5, <1>6, <1>7, <1>8, <1>9, <1>10, <1>11, <1>12, <1>13,
           <1>14, <1>15, <1>16, <1>17, <1>18, <1>19, <1>20, <1>21, <1>22, <1>23, <1>24,
           <1>25, <1>26, <1>27, <1>28, <1>29, <1>30, <1>31, <1>32, <1>33
        DEF Step, InitStep, WordStep, FinalStep

\* Every step but the end of a process keeps ClaimInv.
LEMMA ClaimStep ==
  ASSUME Ready, NEW t \in Threads, Step(t)
  PROVE  ClaimInv'
BY ClaimOwn, ClaimOthers DEF ClaimInv

-----------------------------------------------------------------------------
(* The last node.                                                          *)

\* A thread that keeps the memory from being left behind.
Keeps(t) ==
  \/ t \in inited \/ Deletes(t)
  \/ Is(t, "init") /\ pc[t] \in HeldPCs \cup TablePCs \cup SeatPCs

\* Where a step of a thread stops keeping it.
KeepMove(t) ==
  /\ refs = 0 /\ refs' # 0 => Keeps(t)'
  /\ Keeps(t) => \/ Keeps(t)'
                 \/ ~Seated(t) /\ ~Is(t, "signal") /\ Word(t).alloc /\ Mine(t) \in Mems
                 \/ mem' = NoMem \/ mem' \in gone'

\* A step stops keeping the memory only when a slot is allocated, or the memory
\* is removed.
LEMMA KeepMoves ==
  ASSUME Ready, NEW t \in Threads, Step(t)
  PROVE  KeepMove(t)
<1>1. Located(t) /\ CallAt(t) /\ CallAt(t)'
  BY ReadyLocated, CallOwn
<1>2. refs \in Nat /\ refs' \in Nat
  BY ReadyLocated, MemTypeStep DEF TypeInv, MemType, Ready
<1> USE <1>1, <1>2 DEF Located, CallAt, KeepMove, Keeps, Deletes, Seated, Is, SameOp,
                       SameAt, SameStep, SameMem, SameWords, SameLast, TablePCs, SeatPCs,
                       FinalPCs, WordPCs, InitPCs, EarlyPCs, EntryPCs, HeldPCs
<1>3. ASSUME NEW start \in BOOLEAN, CallInitialize(t, start)
      PROVE  KeepMove(t)
  <2>1. pc[t] = "idle" /\ inited' = inited /\ refs' \in {refs, 0}
    <3> HIDE DEF Located, CallAt, KeepMove, Keeps, Deletes, Seated
    <3> QED BY <1>3, CallInitializeEffect
  <2>2. Is(t, "none")
    BY <2>1, ReadyLocated, WhichCall
  <2> QED BY <2>1, <2>2
<1>4. CASE CallStart(t)
  <2>1. t \in inited /\ UNCHANGED <<inited, refs>>
    <3> HIDE DEF Located, CallAt, KeepMove, Keeps, Deletes, Seated
    <3> QED BY <1>4, CallStartEffect
  <2> QED BY <2>1
<1>5. CASE CallFinalize(t)
  <2>1. t \in inited /\ pc'[t] = "copy" /\ call'[t].op = "final" /\ call'[t].last /\ refs' = refs
    <3> HIDE DEF Located, CallAt, KeepMove, Keeps, Deletes, Seated
    <3> QED BY <1>5, CallFinalizeEffect
  <2> QED BY <2>1
<1>6. CASE CallSignal(t)
  <2>1. t \in inited /\ UNCHANGED <<inited, refs>>
    <3> HIDE DEF Located, CallAt, KeepMove, Keeps, Deletes, Seated
    <3> QED BY <1>6, CallSignalEffect
  <2> QED BY <2>1
<1>7. CASE Restart(t)
  <2>1. pc[t] = "dead" /\ UNCHANGED <<inited, refs>>
    <3> HIDE DEF Located, CallAt, KeepMove, Keeps, Deletes, Seated
    <3> QED BY <1>7, RestartEffect
  <2>2. Is(t, "none")
    BY <2>1, ReadyLocated, WhichCall
  <2> QED BY <2>1, <2>2
<1>8. CASE MrapiInitialize(t)
  <2>1. pc[t] = "mrapi" /\ inited' = inited /\ refs' \in {refs, 0}
    <3> HIDE DEF Located, CallAt, KeepMove, Keeps, Deletes, Seated
    <3> QED BY <1>8, MrapiInitializeEffect
  <2>2. Is(t, "init")
    BY <2>1, ReadyLocated, WhichCall
  <2> QED BY <2>1, <2>2
<1>9. CASE Find(t)
  <2>1. pc[t] = "find" /\ inited' = inited /\ refs' \in {refs, 0}
    <3> HIDE DEF Located, CallAt, KeepMove, Keeps, Deletes, Seated
    <3> QED BY <1>9, FindEffect
  <2>2. Is(t, "init")
    BY <2>1, ReadyLocated, WhichCall
  <2> QED BY <2>1, <2>2
<1>10. CASE AttachFound(t)
  <2>1. pc[t] = "attach" /\ pc'[t] = "point" /\ SameOp(t)
    <3> HIDE DEF Located, CallAt, KeepMove, Keeps, Deletes, Seated
    <3> QED BY <1>10, AttachFoundEffect
  <2>2. Is(t, "init")
    BY <2>1, ReadyLocated, WhichCall
  <2> QED BY <2>1, <2>2
<1>11. CASE Point(t)
  <2>1. pc[t] = "point" /\ pc'[t] = "domain" /\ call'[t] = call[t] /\ UNCHANGED <<inited, refs>>
    <3> HIDE DEF Located, CallAt, KeepMove, Keeps, Deletes, Seated
    <3> QED BY <1>11, PointEffect
  <2>2. Is(t, "init")
    BY <2>1, ReadyLocated, WhichCall
  <2> QED BY <2>1, <2>2
<1>12. CASE Create(t)
  <2>1. pc[t] = "create" /\ inited' = inited /\ refs' \in {refs, 0}
    <3> HIDE DEF Located, CallAt, KeepMove, Keeps, Deletes, Seated
    <3> QED BY <1>12, CreateEffect
  <2>2. Is(t, "init")
    BY <2>1, ReadyLocated, WhichCall
  <2> QED BY <2>1, <2>2
<1>13. CASE AttachCreated(t)
  <2>1. /\ pc[t] = "join" /\ inited' = inited
        /\ (pc'[t] = "place" /\ SameOp(t)) \/ refs' = refs
    <3> HIDE DEF Located, CallAt, KeepMove, Keeps, Deletes, Seated
    <3> QED BY <1>13, AttachCreatedEffect
  <2>2. Is(t, "init")
    BY <2>1, ReadyLocated, WhichCall
  <2> QED BY <2>1, <2>2
<1>14. CASE Place(t)
  <2>1. pc[t] = "place" /\ pc'[t] = "wipe" /\ call'[t] = call[t] /\ UNCHANGED <<inited, refs>>
    <3> HIDE DEF Located, CallAt, KeepMove, Keeps, Deletes, Seated
    <3> QED BY <1>14, PlaceEffect
  <2>2. Is(t, "init")
    BY <2>1, ReadyLocated, WhichCall
  <2> QED BY <2>1, <2>2
<1>15. CASE Wipe(t)
  <2>1. /\ pc[t] = "wipe" /\ pc'[t] \in {"wipe", "domain"} /\ call'[t].op = call[t].op
        /\ UNCHANGED <<inited, refs>>
    <3> HIDE DEF Located, CallAt, KeepMove, Keeps, Deletes, Seated
    <3> QED BY <1>15, WipeEffect DEF SameOp
  <2>2. Is(t, "init")
    BY <2>1, ReadyLocated, PointerThere
  <2> QED BY <2>1, <2>2
<1>16. CASE DomainFind(t)
  <2>1. /\ pc[t] = "domain" /\ pc'[t] \in {"dclaim", "scan"} /\ call'[t].op = call[t].op
        /\ UNCHANGED <<inited, refs>>
    <3> HIDE DEF Located, CallAt, KeepMove, Keeps, Deletes, Seated
    <3> QED BY <1>16, DomainFindEffect DEF SameOp
  <2>2. Is(t, "init")
    BY <2>1, ReadyLocated, PointerThere
  <2> QED BY <2>1, <2>2
<1>17. CASE DomainClaim(t)
  <2>1. /\ pc[t] = "dclaim" /\ pc'[t] \in {"scan"} /\ call'[t].op = call[t].op
        /\ UNCHANGED <<inited, refs>>
    <3> HIDE DEF Located, CallAt, KeepMove, Keeps, Deletes, Seated
    <3> QED BY <1>17, DomainClaimEffect DEF SameOp
  <2>2. Is(t, "init")
    BY <2>1, ReadyLocated, PointerThere
  <2> QED BY <2>1, <2>2
<1>18. CASE Scan(t)
  <2>1. /\ pc[t] = "scan" /\ Mine(t) \in Mems /\ UNCHANGED <<inited, refs>>
        /\ Word(t).alloc \/ (pc'[t] \in {"scan", "read"} /\ call'[t].op = call[t].op)
    <3> HIDE DEF Located, CallAt, KeepMove, Keeps, Deletes, Seated
    <3> QED BY <1>18, ScanEffect DEF SameOp
  <2>2. Is(t, "init")
    BY <2>1, ReadyLocated, PointerThere
  <2> QED BY <2>1, <2>2
<1>19. CASE SlotRead(t)
  <2>1. /\ pc[t] = "read" /\ pc'[t] \in {"claim"} /\ call'[t].op = call[t].op
        /\ UNCHANGED <<inited, refs>>
    <3> HIDE DEF Located, CallAt, KeepMove, Keeps, Deletes, Seated
    <3> QED BY <1>19, SlotReadEffect DEF SameOp
  <2>2. Is(t, "init")
    BY <2>1, ReadyLocated, PointerThere
  <2> QED BY <2>1, <2>2
<1>20. CASE SlotClaim(t)
  <2>1. /\ pc[t] = "claim" /\ Mine(t) \in Mems /\ UNCHANGED <<inited, refs>>
        /\ \/ Word(t) # [call[t].old EXCEPT !.alloc = FALSE]
           \/ pc'[t] \in {"own", "read"} /\ call'[t].op = call[t].op
    <3> HIDE DEF Located, CallAt, KeepMove, Keeps, Deletes, Seated
    <3> QED BY <1>20, SlotClaimEffect DEF SameOp
  <2>2. Is(t, "init")
    BY <2>1, ReadyLocated, PointerThere
  <2>3. Word(t) # [call[t].old EXCEPT !.alloc = FALSE] => Word(t).alloc
    BY <2>1, <2>2, ClaimFails
  <2> QED BY <2>1, <2>2, <2>3
<1>21. CASE Own(t)
  <2>1. /\ pc[t] = "own" /\ pc'[t] \in {"copy"} /\ call'[t].op = call[t].op
        /\ UNCHANGED <<inited, refs>>
    <3> HIDE DEF Located, CallAt, KeepMove, Keeps, Deletes, Seated
    <3> QED BY <1>21, OwnEffect DEF SameOp
  <2>2. Is(t, "init")
    BY <2>1, ReadyLocated, PointerThere
  <2> QED BY <2>1, <2>2
<1>22. CASE Count(t)
  <2>1. /\ pc[t] = "count" /\ pc'[t] \in {"copy"} /\ call'[t].op = call[t].op
        /\ UNCHANGED <<inited, refs>>
    <3> HIDE DEF Located, CallAt, KeepMove, Keeps, Deletes, Seated
    <3> QED BY <1>22, CountEffect DEF SameOp
  <2>2. Is(t, "init")
    BY <2>1, ReadyLocated, PointerThere
  <2> QED BY <2>1, <2>2
<1>23. CASE StartNow(t)
  <2>1. pc[t] = "start" /\ pc'[t] = "copy" /\ SameOp(t) /\ UNCHANGED <<inited, refs>>
    <3> HIDE DEF Located, CallAt, KeepMove, Keeps, Deletes, Seated
    <3> QED BY <1>23, StartNowEffect
  <2>2. Is(t, "init") \/ Is(t, "start")
    BY <2>1, ReadyLocated, WhichCall
  <2> QED BY <2>1, <2>2
<1>24. CASE Done(t)
  <2>1. t \in inited' /\ refs' = refs
    <3> HIDE DEF Located, CallAt, KeepMove, Keeps, Deletes, Seated
    <3> QED BY <1>24, DoneEffect
  <2> QED BY <2>1
<1>25. CASE Copy(t)
  <2>1. /\ pc[t] = "copy" /\ pc'[t] = "xread" /\ SameOp(t) /\ SameLast(t)
        /\ UNCHANGED <<inited, refs>>
    <3> HIDE DEF Located, CallAt, KeepMove, Keeps, Deletes, Seated
    <3> QED BY <1>25, CopyEffect
  <2> QED BY <2>1
<1>26. CASE ExchangeRead(t)
  <2>1. /\ pc[t] = "xread" /\ pc'[t] = "xswap" /\ SameOp(t) /\ SameLast(t)
        /\ UNCHANGED <<inited, refs>>
    <3> HIDE DEF Located, CallAt, KeepMove, Keeps, Deletes, Seated
    <3> QED BY <1>26, ExchangeReadEffect
  <2> QED BY <2>1
<1>27. CASE Exchange(t)
  <2>1. pc[t] = "xswap" /\ pc'[t] = After(t) /\ call'[t] = call[t] /\ UNCHANGED <<inited, refs>>
    <3> HIDE DEF Located, CallAt, KeepMove, Keeps, Deletes, Seated
    <3> QED BY <1>27, ExchangeEffect
  <2>2. pc'[t] \in {"count", "start", "done", "uncount", "detach", "others"}
    BY <2>1 DEF After, Calls
  <2> QED BY <2>1, <2>2
<1>28. CASE Uncount(t)
  <2>1. /\ pc[t] = "uncount" /\ pc'[t] = "any" /\ SameOp(t) /\ SameLast(t)
        /\ UNCHANGED <<inited, refs>>
    <3> HIDE DEF Located, CallAt, KeepMove, Keeps, Deletes, Seated
    <3> QED BY <1>28, UncountEffect
  <2>2. Is(t, "final")
    BY <2>1, ReadyLocated, PointerThere
  <2> QED BY <2>1, <2>2
<1>29. CASE Any(t)
  <2>1. /\ pc[t] = "any" /\ pc'[t] \in {"any", "copy"} /\ SameOp(t) /\ Mine(t) \in Mems
        /\ UNCHANGED <<inited, refs>>
        /\ call'[t].last = (call[t].last /\ ~Word(t).alloc)
    <3> HIDE DEF Located, CallAt, KeepMove, Keeps, Deletes, Seated
    <3> QED BY <1>29, AnyEffect
  <2>2. Is(t, "final")
    BY <2>1, ReadyLocated, PointerThere
  <2> QED BY <2>1, <2>2
<1>30. CASE Detach(t)
  <2>1. /\ pc[t] = "detach" /\ pc'[t] \in {"raise", "delete"} /\ call'[t] = call[t]
        /\ inited' = inited
        /\ refs' = refs \/ refs' = refs - 1
    <3> HIDE DEF Located, CallAt, KeepMove, Keeps, Deletes, Seated
    <3> QED BY <1>30, DetachEffect
  <2> QED BY <2>1
<1>31. CASE Delete(t)
  <2>1. /\ pc[t] = "delete" /\ UNCHANGED <<inited, refs>>
        /\ call[t].last => mem' = NoMem \/ mem' \in gone'
    <3> HIDE DEF Located, CallAt, KeepMove, Keeps, Deletes, Seated
    <3> QED BY <1>31, DeleteEffect
  <2>2. Is(t, "final")
    BY <2>1, ReadyLocated, PointerThere
  <2> QED BY <2>1, <2>2
<1>32. CASE Leave(t)
  <2>1. pc[t] = "leave" /\ UNCHANGED <<inited, refs>>
    <3> HIDE DEF Located, CallAt, KeepMove, Keeps, Deletes, Seated
    <3> QED BY <1>32, LeaveEffect
  <2>2. Is(t, "final")
    BY <2>1, ReadyLocated, PointerThere
  <2> QED BY <2>1, <2>2
<1>33. CASE Unpoint(t)
  <2>1. pc[t] = "unpoint" /\ UNCHANGED <<inited, refs>>
    <3> HIDE DEF Located, CallAt, KeepMove, Keeps, Deletes, Seated
    <3> QED BY <1>33, UnpointEffect
  <2>2. Is(t, "final")
    BY <2>1, ReadyLocated, PointerThere
  <2> QED BY <2>1, <2>2
<1>34. CASE Others(t)
  <2>1. pc[t] = "others" /\ UNCHANGED <<inited, refs>>
    <3> HIDE DEF Located, CallAt, KeepMove, Keeps, Deletes, Seated
    <3> QED BY <1>34, OthersEffect
  <2>2. Is(t, "signal")
    BY <2>1, ReadyLocated, PointerThere
  <2> QED BY <2>1, <2>2
<1> HIDE DEF Located, CallAt, KeepMove, Keeps, Deletes, Seated, Is, SameOp, SameAt,
             SameStep, SameMem, SameWords, SameLast, TablePCs, SeatPCs, FinalPCs, WordPCs,
             InitPCs, EarlyPCs, EntryPCs, HeldPCs
<1> QED BY <1>3, <1>4, <1>5, <1>6, <1>7, <1>8, <1>9, <1>10, <1>11, <1>12, <1>13, <1>14,
           <1>15, <1>16, <1>17, <1>18, <1>19, <1>20, <1>21, <1>22, <1>23, <1>24, <1>25,
           <1>26, <1>27, <1>28, <1>29, <1>30, <1>31, <1>32, <1>33, <1>34
        DEF Step, InitStep, WordStep, FinalStep

\* Every step but the end of a process keeps FreeInv.
LEMMA FreeStep ==
  ASSUME Ready, NEW t \in Threads, Step(t)
  PROVE  FreeInv'
<1>1. /\ FreeInv /\ AccInv /\ LastInv /\ TypeInv /\ PhaseInv /\ crashed' = crashed
      /\ inited \subseteq Threads
  BY ThreadFrame DEF Ready, NodeInvariant, TypeInv, MemType
<1> SUFFICES ASSUME crashed = {}, mem' # NoMem, mem' \notin gone', refs' # 0
             PROVE  \E u \in Threads : Keeps(u)'
  BY <1>1 DEF FreeInv, Keeps
<1>2. \A u \in Threads \ {t} : Keeps(u)' <=> Keeps(u)
  BY <1>1, ThreadFrame DEF Keeps, Deletes, Is
<1>3. CASE refs = 0
  BY <1>3, KeepMoves DEF KeepMove
<1>4. CASE refs # 0
  <2>1. \/ mem # NoMem /\ mem \notin gone
        \/ mem = NoMem /\ Create(t)
    BY MemoryMoves, MemoryFrame, DeleteEffect, LeaveEffect DEF FewSteps, MemSteps
  <2>2. mem # NoMem /\ mem \notin gone
    BY <2>1, CreateEffect
  <2>3. PICK u \in Threads : Keeps(u)
    BY <2>2, <1>1, <1>4 DEF FreeInv, Keeps
  <2>4. CASE u # t
    BY <2>3, <2>4, <1>2
  <2>5. CASE u = t /\ ~Keeps(t)'
    <3>1. ~Seated(t) /\ ~Is(t, "signal") /\ Word(t).alloc /\ Mine(t) \in Mems
      BY <2>3, <2>5, KeepMoves DEF KeepMove
    <3>2. HasThread(Mine(t), At(t)) \/ Ending(Mine(t), At(t))
      BY <3>1, <1>1, ReadyLocated DEF AccInv, Word, Located, Ended
    <3>3. PICK v \in Threads : Seated(v) \/ Is(v, "signal")
      BY <3>2 DEF HasThread, Ending
    <3>4. v # t /\ LastAt(v) /\ CallAt(v)
      BY <3>1, <3>3, ReadyLocated
    <3>5. Keeps(v)
      BY <3>3, <3>4 DEF Keeps, Seated, LastAt, CallAt, Deletes, Is, WordPCs
    <3> QED BY <3>4, <3>5, <1>2
  <2> QED BY <2>3, <2>4, <2>5
<1> QED BY <1>3, <1>4

-----------------------------------------------------------------------------
(* The end of a process.                                                   *)

\* What the end of a process does: its threads are dead, the others stay where
\* they are, and nobody initializes.
Ends(t) ==
  /\ pc[t] = "raise" /\ Is(t, "signal") /\ t \in inited /\ Proc[t] \notin crashed
  /\ epoch[Proc[t]] = 0 /\ \A u \in Threads : ~Is(u, "init")
  /\ \A u \in Threads : Proc[u] = Proc[t] =>
       /\ pc'[u] = "dead" /\ call'[u] = NoCall /\ u \notin inited' /\ u \notin mrapi'
       /\ u \notin users'
  /\ \A u \in Threads : Proc[u] # Proc[t] =>
       /\ pc'[u] = pc[u] /\ call'[u] = call[u] /\ (u \in inited' <=> u \in inited)
       /\ u \in mrapi' <=> u \in mrapi
       /\ u \in users' <=> u \in users
       /\ u \in known' <=> u \in known
       /\ u \in met' <=> u \in met
       /\ Mine(u)' = Mine(u)
  /\ inited' \subseteq inited /\ crashed' = crashed \cup {Proc[t]}
  /\ gone' = IF mem # NoMem /\ refs = 0 THEN gone \cup {mem} ELSE gone
  /\ UNCHANGED <<mem, refs, dom, node, owner, count, place, epoch, inits>>

\* The signal handler ends its process.
LEMMA RaiseEffect ==
  ASSUME Ready, NEW t \in Threads, Raise(t)
  PROVE  Ends(t)
<1>1. /\ CallAt(t) /\ PhaseInv /\ TypeInv /\ db \in [Procs -> Mems \cup {NoMem}]
      /\ \A u \in Threads : Proc[u] \in Procs
  BY ReadyLocated DEF Ready, NodeInvariant, TypeInv, MemType, Procs
<1>2. pc[t] = "raise"
  BY DEF Raise
<1>3. Is(t, "signal")
  BY <1>2, ReadyLocated, PointerThere
<1>4. /\ t \in inited /\ Proc[t] \notin crashed /\ epoch[Proc[t]] = 0
      /\ \A u \in Threads : ~Is(u, "init")
  BY <1>1, <1>3 DEF CallAt, PhaseInv
<1>5. ASSUME NEW u \in Threads, Proc[u] = Proc[t]
      PROVE  /\ pc'[u] = "dead" /\ call'[u] = NoCall /\ u \notin inited' /\ u \notin mrapi'
             /\ u \notin users'
  BY <1>5 DEF Raise, MrapiFinalize
<1>6. ASSUME NEW u \in Threads, Proc[u] # Proc[t]
      PROVE  /\ pc'[u] = pc[u] /\ call'[u] = call[u] /\ (u \in inited' <=> u \in inited)
             /\ u \in mrapi' <=> u \in mrapi
             /\ u \in users' <=> u \in users
             /\ u \in known' <=> u \in known
             /\ u \in met' <=> u \in met
             /\ Mine(u)' = Mine(u)
  BY <1>1, <1>6 DEF Raise, MrapiFinalize, Mine
<1>7. /\ inited' \subseteq inited /\ crashed' = crashed \cup {Proc[t]}
      /\ gone' = (IF mem # NoMem /\ refs = 0 THEN gone \cup {mem} ELSE gone)
      /\ UNCHANGED <<mem, refs, dom, node, owner, count, place, epoch, inits>>
  BY DEF Raise, MrapiFinalize, tableVars
<1> QED BY <1>2, <1>3, <1>4, <1>5, <1>6, <1>7 DEF Ends

\* The end of a process keeps the types.
LEMMA RaiseTypes ==
  ASSUME Ready, NEW t \in Threads, Raise(t)
  PROVE  TypeInv'
<1>1. Ends(t) /\ TypeInv
  BY RaiseEffect DEF Ready, NodeInvariant
<1>2. MemType'
  <2>1. \A u \in Threads : Proc[u] \in Procs
    BY DEF Procs
  <2>2. gone' \subseteq Mems /\ mem' = mem /\ refs' = refs /\ epoch' = epoch /\ inits' = inits
    BY <1>1 DEF Ends, TypeInv, MemType
  <2> QED BY <1>1, <2>1, <2>2 DEF Raise, MrapiFinalize, TypeInv, MemType
<1>3. TableType'
  BY <1>1 DEF Ends, TypeInv, TableType
<1>4. LocalType'
  <2>1. pc' \in [Threads -> PCs]
    BY <1>1 DEF Raise, TypeInv, LocalType, PCs
  <2>2. call' \in [Threads -> Calls]
    BY <1>1, NothingTyped DEF Raise, TypeInv, LocalType
  <2> QED BY <1>1, <2>1, <2>2 DEF Ends, TypeInv, LocalType
<1> QED BY <1>2, <1>3, <1>4 DEF TypeInv

\* The end of a process keeps what is known of each call.
LEMMA RaiseCalls ==
  ASSUME Ready, NEW t \in Threads, Raise(t)
  PROVE  CallInv' /\ PhaseInv' /\ LastInv' /\ ClaimInv' /\ MadeInv'
<1>1. Ends(t) /\ CallInv /\ PhaseInv /\ LastInv /\ MadeInv /\ TypeInv
  BY RaiseEffect DEF Ready, NodeInvariant
<1>2. \A u \in Threads : ~Is(u, "init")'
  BY <1>1 DEF Ends, Is, NoCall
<1>3. ASSUME NEW u \in Threads
      PROVE  CallAt(u)'
  <2>1. CASE Proc[u] = Proc[t]
    BY <2>1, <1>1 DEF Ends, CallAt, Is, NoCall
  <2>2. CASE Proc[u] # Proc[t]
    BY <2>2, <1>1 DEF Ends, CallInv, CallAt, Is, At
  <2> QED BY <2>1, <2>2
<1>4. ASSUME NEW u \in Threads
      PROVE  LastAt(u)'
  <2>1. CASE Proc[u] = Proc[t]
    BY <2>1, <1>1 DEF Ends, LastAt, Is, NoCall
  <2>2. CASE Proc[u] # Proc[t]
    BY <2>2, <1>1 DEF Ends, LastInv, LastAt, Is, Passed
  <2> QED BY <2>1, <2>2
<1>5. PhaseInv'
  BY <1>1, <1>2 DEF Ends, PhaseInv, Is, NoCall
<1>6. ClaimInv'
  BY <1>2 DEF ClaimInv, ClaimAt
<1>7. MadeInv'
  <2>1. gone' \cup ({mem'} \ {NoMem}) = gone \cup ({mem} \ {NoMem}) /\ inits' = inits
    BY <1>1 DEF Ends
  <2> QED BY <2>1, <1>1, <1>2 DEF MadeInv
<1> QED BY <1>3, <1>4, <1>5, <1>6, <1>7 DEF CallInv, LastInv

\* The end of a process keeps the memory of the other threads.
LEMMA RaiseMemory ==
  ASSUME Ready, NEW t \in Threads, Raise(t)
  PROVE  MemInv' /\ RefInv' /\ CountInv' /\ FreeInv'
<1>1. /\ Ends(t) /\ MemInv /\ RefInv /\ CountInv /\ TypeInv /\ refs \in Nat
      /\ count \in [Mems -> [Domains -> Nat]]
  BY RaiseEffect DEF Ready, NodeInvariant, TypeInv, MemType, TableType
<1>2. ASSUME NEW u \in Threads
      PROVE  Attached(u)' => Attached(u) /\ Proc[u] # Proc[t]
  BY <1>1 DEF Ends, Attached, Is, NoCall
<1>3. ASSUME NEW u \in Threads
      PROVE  MemAt(u)'
  <2>1. CASE Proc[u] = Proc[t]
    BY <2>1, <1>1 DEF Ends, MemAt, Is, NoCall, Attached, HeldPCs
  <2>2. CASE Proc[u] # Proc[t]
    <3>1. Attached(u) => gone' = gone
      BY <1>1, AttachedCounts DEF Ends
    <3>2. u \in inited /\ pc[u] # "raise" => Attached(u)
      BY DEF Attached
    <3>3. Attached(u)' <=> Attached(u)
      BY <2>2, <1>1 DEF Ends, Attached, Is
    <3>4. gone \subseteq gone' /\ mem' = mem
      BY <1>1 DEF Ends
    <3>5. /\ pc'[u] = pc[u] /\ call'[u] = call[u] /\ (u \in inited' <=> u \in inited)
          /\ u \in users' <=> u \in users
          /\ Mine(u)' = Mine(u) /\ ~Is(u, "init") /\ MemAt(u)
      BY <2>2, <1>1 DEF Ends, MemInv
    <3> QED BY <3>1, <3>2, <3>3, <3>4, <3>5 DEF MemAt, Is
  <2> QED BY <2>1, <2>2
<1>4. RefInv'
  <2> DEFINE S == {u \in Threads : Attached(u)}
  <2>1. S' \in SUBSET S /\ refs' = refs
    BY <1>1, <1>2 DEF Ends
  <2>2. IsFiniteSet(S) /\ Cardinality(S) \in Nat
    BY NodesAssumption, FS_Subset, FS_CardinalityType
  <2>3. Cardinality(S') <= Cardinality(S) /\ Cardinality(S') \in Nat
    BY <2>1, <2>2, FS_Subset, FS_CardinalityType
  <2> QED BY <2>1, <2>2, <2>3, <1>1 DEF RefInv
<1>5. crashed' # {}
  BY <1>1 DEF Ends
<1>6. CountInv'
  <2> SUFFICES ASSUME NEW m \in Mems, NEW d \in Domains
               PROVE  count'[m][d] >= Cardinality(Members(m, d)')
    BY <1>5 DEF CountInv
  <2>1. \A u \in Threads : Counted(u)' => Counted(u) /\ Mine(u)' = Mine(u) /\ place'[u] = place[u]
    BY <1>1 DEF Ends, Counted, Running, Is, NoCall
  <2>2. Members(m, d)' \in SUBSET Members(m, d) /\ count' = count
    BY <2>1, <1>1 DEF Ends, Members
  <2>3. IsFiniteSet(Members(m, d)) /\ Cardinality(Members(m, d)) \in Nat
    BY NodesAssumption, FS_Subset, FS_CardinalityType DEF Members
  <2>4. /\ Cardinality(Members(m, d)') <= Cardinality(Members(m, d))
        /\ Cardinality(Members(m, d)') \in Nat
    BY <2>2, <2>3, FS_Subset, FS_CardinalityType
  <2>5. count[m][d] >= Cardinality(Members(m, d)) /\ count[m][d] \in Nat
    BY <1>1 DEF CountInv
  <2> QED BY <2>2, <2>3, <2>4, <2>5
<1>7. FreeInv'
  BY <1>5 DEF FreeInv
<1> QED BY <1>3, <1>4, <1>6, <1>7 DEF MemInv

\* The end of a process keeps the slots of the other threads, and leaves its own
\* behind.
LEMMA RaiseSeats ==
  ASSUME Ready, NEW t \in Threads, Raise(t)
  PROVE  SeatInv' /\ AccInv'
<1>1. /\ Ends(t) /\ SeatInv /\ AccInv /\ PhaseInv /\ TypeInv
      /\ UNCHANGED <<node, owner, dom, place, epoch>>
  BY RaiseEffect DEF Ready, NodeInvariant, Ends
<1>2. ASSUME NEW u \in Threads, Proc[u] = Proc[t]
      PROVE  ~Holds(u)' /\ ~Seated(u)' /\ pc'[u] \notin SlotPCs
  BY <1>1, <1>2 DEF Ends, Holds, Seated, Is, NoCall, SlotPCs
<1>3. ASSUME NEW u \in Threads, Proc[u] # Proc[t]
      PROVE  /\ (Holds(u)' <=> Holds(u)) /\ (Seated(u)' <=> Seated(u)) /\ Seat(u)' = Seat(u)
             /\ (Running(u)' <=> Running(u)) /\ Mine(u)' = Mine(u) /\ At(u)' = At(u)
             /\ Pid(u)' = Pid(u) /\ ~Is(u, "init")
             /\ (Is(u, "final")' <=> Is(u, "final")) /\ ~Is(u, "init")'
             /\ pc'[u] = pc[u] /\ call'[u] = call[u]
  BY <1>1, <1>3 DEF Ends, Holds, Seated, Seat, Running, At, Pid, Is
<1>4. ASSUME NEW u \in Threads
      PROVE  SeatAt(u)'
  <2>1. CASE Proc[u] = Proc[t]
    BY <2>1, <1>2 DEF SeatAt, SlotPCs
  <2>2. CASE Proc[u] # Proc[t]
    <3>1. SeatAt(u)
      BY <1>1 DEF SeatInv
    <3>2. Word(u)' = Word(u)
      BY <2>2, <1>1, <1>3 DEF Word
    <3>3. Signalled(Proc[u]) => Signalled(Proc[u])'
      BY <2>2, <1>1 DEF Signalled, Ends, Is
    <3> QED BY <2>2, <3>1, <3>2, <3>3, <1>1, <1>3 DEF SeatAt
  <2> QED BY <2>1, <2>2
<1>5. ASSUME NEW u \in Threads, NEW v \in Threads, u # v, Holds(u)', Holds(v)', Mine(u)' = Mine(v)'
      PROVE  Seat(u)' # Seat(v)'
  <2>1. Proc[u] # Proc[t] /\ Proc[v] # Proc[t]
    BY <1>2, <1>5
  <2> QED BY <2>1, <1>1, <1>3, <1>5 DEF SeatInv
<1>6. ASSUME NEW m \in Mems, NEW x \in Seats, node'[m][x].alloc
      PROVE  HasThread(m, x)' \/ Ended(m, x)' \/ Ending(m, x)'
  <2>1. owner[m][x] = <<Proc[t], 0>> => Ended(m, x)'
    BY <1>1 DEF Ended, Ends
  <2>2. CASE HasThread(m, x)
    <3>1. PICK u \in Threads : Seated(u) /\ Mine(u) = m /\ Seat(u) = x
      BY <2>2 DEF HasThread
    <3>2. CASE Proc[u] = Proc[t]
      <4>1. Holds(u) /\ ~Is(u, "init") /\ CallAt(u)
        BY <3>1, <1>1, ReadyLocated DEF Holds, Ends
      <4>2. pc[u] # "own"
        BY <3>1, <4>1, ReadyLocated DEF Seated, CallAt, Located, Calls, Is, WordPCs
      <4>3. owner[m][x] = Pid(u)
        BY <3>1, <4>1, <4>2, HolderSeat
      <4> QED BY <4>3, <2>1, <3>2, <1>1 DEF Pid, Ends
    <3>3. CASE Proc[u] # Proc[t]
      BY <3>1, <3>3, <1>3 DEF HasThread
    <3> QED BY <3>2, <3>3
  <2>3. CASE Ended(m, x)
    BY <2>3, <1>1 DEF Ended, Ends
  <2>4. CASE Ending(m, x)
    <3>1. PICK u \in Threads : Is(u, "signal") /\ owner[m][x] = Pid(u)
      BY <2>4 DEF Ending
    <3>2. u = t
      BY <3>1, <1>1 DEF PhaseInv, Ends
    <3> QED BY <3>1, <3>2, <2>1, <1>1 DEF Pid, Ends
  <2> QED BY <2>2, <2>3, <2>4, <1>1, <1>6 DEF AccInv
<1> QED BY <1>4, <1>5, <1>6 DEF SeatInv, AccInv

-----------------------------------------------------------------------------
(* The pointers of the processes.                                          *)

\* How a step of a thread changes the pointer of its process, and whether it uses
\* the pointer.
AnchorMove(t) ==
  /\ spoiled \subseteq spoiled'
  /\ \/ db' = db
     \/ db' = [db EXCEPT ![Proc[t]] = NoMem]
     \/ Anchored(t)' /\ db' = [db EXCEPT ![Proc[t]] = mem]
  /\ Anchored(t) => \/ Anchored(t)' \/ Proc[t] \in spoiled' \/ db'[Proc[t]] = NoMem
                    \/ Is(t, "final") /\ ~call[t].lastp /\ inited' = inited

\* Who stops using the pointer clears it, or leaves it to another, or is refused.
LEMMA AnchorMoves ==
  ASSUME Ready, NEW t \in Threads, Step(t)
  PROVE  AnchorMove(t)
<1>1. Located(t) /\ CallAt(t) /\ CallAt(t)' /\ db \in [Procs -> Mems \cup {NoMem}]
  BY ReadyLocated, CallOwn DEF TypeInv, MemType
<1> USE <1>1 DEF Located, CallAt, AnchorMove, Anchored, Is, SameOp, SameAt, SameStep,
                 SameMem, SameWords, SameLast, TablePCs, SeatPCs, FinalPCs, WordPCs,
                 InitPCs, EarlyPCs, EntryPCs, HeldPCs
<1>2. ASSUME NEW start \in BOOLEAN, CallInitialize(t, start)
      PROVE  AnchorMove(t)
  <2>1. pc[t] = "idle" /\ UNCHANGED <<inited, db, spoiled>>
    <3> HIDE DEF Located, CallAt, AnchorMove, Anchored
    <3> QED BY <1>2, CallInitializeEffect
  <2>2. Is(t, "none")
    BY <2>1, ReadyLocated, WhichCall
  <2> QED BY <2>1, <2>2
<1>3. CASE CallStart(t)
  <2>1. t \in inited /\ UNCHANGED <<inited, db, spoiled>>
    <3> HIDE DEF Located, CallAt, AnchorMove, Anchored
    <3> QED BY <1>3, CallStartEffect
  <2> QED BY <2>1
<1>4. CASE CallFinalize(t)
  <2>1. call'[t].op = "final" /\ UNCHANGED <<db, spoiled>>
    <3> HIDE DEF Located, CallAt, AnchorMove, Anchored
    <3> QED BY <1>4, CallFinalizeEffect
  <2> QED BY <2>1
<1>5. CASE CallSignal(t)
  <2>1. t \in inited /\ UNCHANGED <<inited, db, spoiled>>
    <3> HIDE DEF Located, CallAt, AnchorMove, Anchored
    <3> QED BY <1>5, CallSignalEffect
  <2> QED BY <2>1
<1>6. CASE Restart(t)
  <2>1. pc[t] = "dead" /\ UNCHANGED <<inited, db, spoiled>>
    <3> HIDE DEF Located, CallAt, AnchorMove, Anchored
    <3> QED BY <1>6, RestartEffect
  <2>2. Is(t, "none")
    BY <2>1, ReadyLocated, WhichCall
  <2> QED BY <2>1, <2>2
<1>7. CASE MrapiInitialize(t)
  <2>1. pc[t] = "mrapi" /\ UNCHANGED <<inited, db, spoiled>>
    <3> HIDE DEF Located, CallAt, AnchorMove, Anchored
    <3> QED BY <1>7, MrapiInitializeEffect
  <2>2. Is(t, "init")
    BY <2>1, ReadyLocated, WhichCall
  <2> QED BY <2>1, <2>2
<1>8. CASE Find(t)
  <2>1. pc[t] = "find" /\ UNCHANGED <<inited, db, spoiled>>
    <3> HIDE DEF Located, CallAt, AnchorMove, Anchored
    <3> QED BY <1>8, FindEffect
  <2>2. Is(t, "init")
    BY <2>1, ReadyLocated, WhichCall
  <2> QED BY <2>1, <2>2
<1>9. CASE AttachFound(t)
  <2>1. pc[t] = "attach" /\ UNCHANGED <<inited, db, spoiled>>
    <3> HIDE DEF Located, CallAt, AnchorMove, Anchored
    <3> QED BY <1>9, AttachFoundEffect
  <2>2. Is(t, "init")
    BY <2>1, ReadyLocated, WhichCall
  <2> QED BY <2>1, <2>2
<1>10. CASE Point(t)
  <2>1. /\ pc[t] = "point" /\ pc'[t] = "domain" /\ call'[t] = call[t]
        /\ db' = [db EXCEPT ![Proc[t]] = mem] /\ UNCHANGED <<inited, spoiled>>
    <3> HIDE DEF Located, CallAt, AnchorMove, Anchored
    <3> QED BY <1>10, PointEffect
  <2>2. Is(t, "init")
    BY <2>1, ReadyLocated, WhichCall
  <2> QED BY <2>1, <2>2
<1>11. CASE Create(t)
  <2>1. pc[t] = "create" /\ UNCHANGED <<inited, db, spoiled>>
    <3> HIDE DEF Located, CallAt, AnchorMove, Anchored
    <3> QED BY <1>11, CreateEffect
  <2>2. Is(t, "init")
    BY <2>1, ReadyLocated, WhichCall
  <2> QED BY <2>1, <2>2
<1>12. CASE AttachCreated(t)
  <2>1. pc[t] = "join" /\ UNCHANGED <<inited, db>> /\ spoiled \subseteq spoiled'
    <3> HIDE DEF Located, CallAt, AnchorMove, Anchored
    <3> QED BY <1>12, AttachCreatedEffect
  <2>2. Is(t, "init")
    BY <2>1, ReadyLocated, WhichCall
  <2> QED BY <2>1, <2>2
<1>13. CASE Place(t)
  <2>1. /\ pc[t] = "place" /\ pc'[t] = "wipe" /\ call'[t] = call[t]
        /\ db' = [db EXCEPT ![Proc[t]] = mem] /\ UNCHANGED <<inited, spoiled>>
    <3> HIDE DEF Located, CallAt, AnchorMove, Anchored
    <3> QED BY <1>13, PlaceEffect
  <2>2. Is(t, "init")
    BY <2>1, ReadyLocated, WhichCall
  <2> QED BY <2>1, <2>2
<1>14. CASE Wipe(t)
  <2>1. /\ pc[t] = "wipe" /\ pc'[t] \in {"wipe", "domain"} /\ call'[t].op = call[t].op
        /\ UNCHANGED <<inited, db, spoiled>>
    <3> HIDE DEF Located, CallAt, AnchorMove, Anchored
    <3> QED BY <1>14, WipeEffect DEF SameOp
  <2>2. Is(t, "init")
    BY <2>1, ReadyLocated, PointerThere
  <2> QED BY <2>1, <2>2
<1>15. CASE DomainFind(t)
  <2>1. /\ pc[t] = "domain" /\ pc'[t] \in {"dclaim", "scan"} /\ call'[t].op = call[t].op
        /\ UNCHANGED <<inited, db, spoiled>>
    <3> HIDE DEF Located, CallAt, AnchorMove, Anchored
    <3> QED BY <1>15, DomainFindEffect DEF SameOp
  <2>2. Is(t, "init")
    BY <2>1, ReadyLocated, PointerThere
  <2> QED BY <2>1, <2>2
<1>16. CASE DomainClaim(t)
  <2>1. /\ pc[t] = "dclaim" /\ pc'[t] \in {"scan"} /\ call'[t].op = call[t].op
        /\ UNCHANGED <<inited, db, spoiled>>
    <3> HIDE DEF Located, CallAt, AnchorMove, Anchored
    <3> QED BY <1>16, DomainClaimEffect DEF SameOp
  <2>2. Is(t, "init")
    BY <2>1, ReadyLocated, PointerThere
  <2> QED BY <2>1, <2>2
<1>17. CASE Scan(t)
  <2>1. /\ pc[t] = "scan" /\ UNCHANGED <<inited, db>>
        /\ \/ pc'[t] \in {"scan", "read"} /\ call'[t].op = call[t].op /\ spoiled' = spoiled
           \/ spoiled' = spoiled \cup {Proc[t]}
    <3> HIDE DEF Located, CallAt, AnchorMove, Anchored
    <3> QED BY <1>17, ScanEffect DEF SameOp
  <2>2. Is(t, "init")
    BY <2>1, ReadyLocated, PointerThere
  <2> QED BY <2>1, <2>2
<1>18. CASE SlotRead(t)
  <2>1. /\ pc[t] = "read" /\ pc'[t] \in {"claim"} /\ call'[t].op = call[t].op
        /\ UNCHANGED <<inited, db, spoiled>>
    <3> HIDE DEF Located, CallAt, AnchorMove, Anchored
    <3> QED BY <1>18, SlotReadEffect DEF SameOp
  <2>2. Is(t, "init")
    BY <2>1, ReadyLocated, PointerThere
  <2> QED BY <2>1, <2>2
<1>19. CASE SlotClaim(t)
  <2>1. /\ pc[t] = "claim" /\ UNCHANGED <<inited, db>>
        /\ \/ pc'[t] \in {"own", "read"} /\ call'[t].op = call[t].op /\ spoiled' = spoiled
           \/ spoiled' = spoiled \cup {Proc[t]}
    <3> HIDE DEF Located, CallAt, AnchorMove, Anchored
    <3> QED BY <1>19, SlotClaimEffect DEF SameOp
  <2>2. Is(t, "init")
    BY <2>1, ReadyLocated, PointerThere
  <2> QED BY <2>1, <2>2
<1>20. CASE Own(t)
  <2>1. /\ pc[t] = "own" /\ pc'[t] \in {"copy"} /\ call'[t].op = call[t].op
        /\ UNCHANGED <<inited, db, spoiled>>
    <3> HIDE DEF Located, CallAt, AnchorMove, Anchored
    <3> QED BY <1>20, OwnEffect DEF SameOp
  <2>2. Is(t, "init")
    BY <2>1, ReadyLocated, PointerThere
  <2> QED BY <2>1, <2>2
<1>21. CASE Count(t)
  <2>1. /\ pc[t] = "count" /\ pc'[t] \in {"copy"} /\ call'[t].op = call[t].op
        /\ UNCHANGED <<inited, db, spoiled>>
    <3> HIDE DEF Located, CallAt, AnchorMove, Anchored
    <3> QED BY <1>21, CountEffect DEF SameOp
  <2>2. Is(t, "init")
    BY <2>1, ReadyLocated, PointerThere
  <2> QED BY <2>1, <2>2
<1>22. CASE StartNow(t)
  <2>1. pc[t] = "start" /\ pc'[t] = "copy" /\ SameOp(t) /\ UNCHANGED <<inited, db, spoiled>>
    <3> HIDE DEF Located, CallAt, AnchorMove, Anchored
    <3> QED BY <1>22, StartNowEffect
  <2>2. Is(t, "init") \/ Is(t, "start")
    BY <2>1, ReadyLocated, WhichCall
  <2> QED BY <2>1, <2>2
<1>23. CASE Done(t)
  <2>1. t \in inited' /\ UNCHANGED <<db, spoiled>>
    <3> HIDE DEF Located, CallAt, AnchorMove, Anchored
    <3> QED BY <1>23, DoneEffect
  <2> QED BY <2>1
<1>24. CASE Copy(t)
  <2>1. pc[t] = "copy" /\ pc'[t] = "xread" /\ SameOp(t) /\ UNCHANGED <<inited, db, spoiled>>
    <3> HIDE DEF Located, CallAt, AnchorMove, Anchored
    <3> QED BY <1>24, CopyEffect
  <2> QED BY <2>1
<1>25. CASE ExchangeRead(t)
  <2>1. pc[t] = "xread" /\ pc'[t] = "xswap" /\ SameOp(t) /\ UNCHANGED <<inited, db, spoiled>>
    <3> HIDE DEF Located, CallAt, AnchorMove, Anchored
    <3> QED BY <1>25, ExchangeReadEffect
  <2> QED BY <2>1
<1>26. CASE Exchange(t)
  <2>1. /\ pc[t] = "xswap" /\ pc'[t] = After(t) /\ call'[t] = call[t]
        /\ UNCHANGED <<inited, db, spoiled>>
    <3> HIDE DEF Located, CallAt, AnchorMove, Anchored
    <3> QED BY <1>26, ExchangeEffect
  <2>2. pc'[t] \in {"count", "start", "done", "uncount", "detach", "others"}
    BY <2>1 DEF After, Calls
  <2>3. Is(t, "init") => pc'[t] \in {"count", "start", "done"}
    BY <2>1 DEF After, Calls
  <2> QED BY <2>1, <2>2, <2>3
<1>27. CASE Uncount(t)
  <2>1. SameOp(t) /\ pc[t] = "uncount" /\ UNCHANGED <<inited, db, spoiled>>
    <3> HIDE DEF Located, CallAt, AnchorMove, Anchored
    <3> QED BY <1>27, UncountEffect
  <2>2. Is(t, "final")
    BY <2>1, ReadyLocated, PointerThere
  <2> QED BY <2>1, <2>2
<1>28. CASE Any(t)
  <2>1. SameOp(t) /\ pc[t] = "any" /\ UNCHANGED <<inited, db, spoiled>>
    <3> HIDE DEF Located, CallAt, AnchorMove, Anchored
    <3> QED BY <1>28, AnyEffect
  <2>2. Is(t, "final")
    BY <2>1, ReadyLocated, PointerThere
  <2> QED BY <2>1, <2>2
<1>29. CASE Detach(t)
  <2>1. call'[t] = call[t] /\ pc[t] = "detach" /\ UNCHANGED <<inited, db, spoiled>>
    <3> HIDE DEF Located, CallAt, AnchorMove, Anchored
    <3> QED BY <1>29, DetachEffect
  <2>2. Is(t, "final") \/ Is(t, "signal")
    BY <2>1, ReadyLocated, WhichCall
  <2> QED BY <2>1, <2>2
<1>30. CASE Delete(t)
  <2>1. call'[t] = call[t] /\ pc[t] = "delete" /\ UNCHANGED <<inited, db, spoiled>>
    <3> HIDE DEF Located, CallAt, AnchorMove, Anchored
    <3> QED BY <1>30, DeleteEffect
  <2>2. Is(t, "final")
    BY <2>1, ReadyLocated, PointerThere
  <2> QED BY <2>1, <2>2
<1>31. CASE Leave(t)
  <2>1. call'[t] = call[t] /\ pc[t] = "leave" /\ UNCHANGED <<inited, db, spoiled>>
    <3> HIDE DEF Located, CallAt, AnchorMove, Anchored
    <3> QED BY <1>31, LeaveEffect
  <2>2. Is(t, "final")
    BY <2>1, ReadyLocated, PointerThere
  <2> QED BY <2>1, <2>2
<1>32. CASE Unpoint(t)
  <2>1. /\ pc[t] = "unpoint" /\ UNCHANGED <<inited, spoiled>>
        /\ db' = IF call[t].lastp THEN [db EXCEPT ![Proc[t]] = NoMem] ELSE db
    <3> HIDE DEF Located, CallAt, AnchorMove, Anchored
    <3> QED BY <1>32, UnpointEffect
  <2>2. Is(t, "final")
    BY <2>1, ReadyLocated, PointerThere
  <2> QED BY <2>1, <2>2
<1>33. CASE Others(t)
  <2>1. call'[t] = call[t] /\ pc[t] = "others" /\ UNCHANGED <<inited, db, spoiled>>
    <3> HIDE DEF Located, CallAt, AnchorMove, Anchored
    <3> QED BY <1>33, OthersEffect
  <2>2. Is(t, "signal")
    BY <2>1, ReadyLocated, PointerThere
  <2> QED BY <2>1, <2>2
<1> HIDE DEF Located, CallAt, AnchorMove, Anchored, Is, SameOp, SameAt, SameStep, SameMem,
             SameWords, SameLast, TablePCs, SeatPCs, FinalPCs, WordPCs, InitPCs, EarlyPCs,
             EntryPCs, HeldPCs
<1> QED BY <1>2, <1>3, <1>4, <1>5, <1>6, <1>7, <1>8, <1>9, <1>10, <1>11, <1>12, <1>13,
           <1>14, <1>15, <1>16, <1>17, <1>18, <1>19, <1>20, <1>21, <1>22, <1>23, <1>24,
           <1>25, <1>26, <1>27, <1>28, <1>29, <1>30, <1>31, <1>32, <1>33
        DEF Step, InitStep, WordStep, FinalStep

\* How a finalize finds that it is not the last of its process.
FindMove(t) ==
  Is(t, "final")' /\ ~call'[t].lastp =>
    /\ Is(t, "final") /\ inited' = inited
    /\ \/ ~call[t].lastp
       \/ pc[t] = "any" /\ Word(t).alloc /\ owner[Mine(t)][At(t)] = Pid(t) /\ Mine(t) \in Mems

\* Only the loop over the slots finds another node.
LEMMA FindMoves ==
  ASSUME Ready, NEW t \in Threads, Step(t)
  PROVE  FindMove(t)
<1>1. Located(t) /\ CallAt(t) /\ CallAt(t)'
  BY ReadyLocated, CallOwn
<1> USE <1>1 DEF Located, CallAt, FindMove, Is, SameOp, SameAt, SameStep, SameMem,
                 SameWords, SameLast, TablePCs, SeatPCs, FinalPCs, WordPCs, InitPCs,
                 EarlyPCs, EntryPCs, HeldPCs
<1>2. ASSUME NEW start \in BOOLEAN, CallInitialize(t, start)
      PROVE  FindMove(t)
  <2>1. call'[t].op # "final"
    <3> HIDE DEF Located, CallAt, FindMove
    <3> QED BY <1>2, CallInitializeEffect, ReadyLocated, WhichCall
  <2> QED BY <2>1
<1>3. CASE CallStart(t)
  <2>1. call'[t].op # "final"
    <3> HIDE DEF Located, CallAt, FindMove
    <3> QED BY <1>3, CallStartEffect, ReadyLocated, WhichCall
  <2> QED BY <2>1
<1>4. CASE CallFinalize(t)
  <2>1. call'[t].lastp
    <3> HIDE DEF Located, CallAt, FindMove
    <3> QED BY <1>4, CallFinalizeEffect
  <2> QED BY <2>1
<1>5. CASE CallSignal(t)
  <2>1. call'[t].op # "final"
    <3> HIDE DEF Located, CallAt, FindMove
    <3> QED BY <1>5, CallSignalEffect, ReadyLocated, WhichCall
  <2> QED BY <2>1
<1>6. CASE Restart(t)
  <2>1. call'[t].op # "final"
    <3> HIDE DEF Located, CallAt, FindMove
    <3> QED BY <1>6, RestartEffect, ReadyLocated, WhichCall DEF NoCall
  <2> QED BY <2>1
<1>7. CASE MrapiInitialize(t)
  <2>1. call'[t].op # "final"
    <3> HIDE DEF Located, CallAt, FindMove
    <3> QED BY <1>7, MrapiInitializeEffect, ReadyLocated, WhichCall DEF NoCall
  <2> QED BY <2>1
<1>8. CASE Find(t)
  <2>1. call'[t].op # "final"
    <3> HIDE DEF Located, CallAt, FindMove
    <3> QED BY <1>8, FindEffect, ReadyLocated, WhichCall DEF NoCall
  <2> QED BY <2>1
<1>9. CASE AttachFound(t)
  <2>1. call'[t].op # "final"
    <3> HIDE DEF Located, CallAt, FindMove
    <3> QED BY <1>9, AttachFoundEffect, ReadyLocated, WhichCall DEF NoCall
  <2> QED BY <2>1
<1>10. CASE Point(t)
  <2>1. call'[t].op # "final"
    <3> HIDE DEF Located, CallAt, FindMove
    <3> QED BY <1>10, PointEffect, ReadyLocated, WhichCall DEF NoCall
  <2> QED BY <2>1
<1>11. CASE Create(t)
  <2>1. call'[t].op # "final"
    <3> HIDE DEF Located, CallAt, FindMove
    <3> QED BY <1>11, CreateEffect, ReadyLocated, WhichCall DEF NoCall
  <2> QED BY <2>1
<1>12. CASE AttachCreated(t)
  <2>1. call'[t].op # "final"
    <3> HIDE DEF Located, CallAt, FindMove
    <3> QED BY <1>12, AttachCreatedEffect, ReadyLocated, WhichCall DEF NoCall
  <2> QED BY <2>1
<1>13. CASE Place(t)
  <2>1. call'[t].op # "final"
    <3> HIDE DEF Located, CallAt, FindMove
    <3> QED BY <1>13, PlaceEffect, ReadyLocated, WhichCall DEF NoCall
  <2> QED BY <2>1
<1>14. CASE Wipe(t)
  <2>1. call'[t].op # "final"
    <3> HIDE DEF Located, CallAt, FindMove
    <3> QED BY <1>14, WipeEffect, ReadyLocated, PointerThere DEF NoCall
  <2> QED BY <2>1
<1>15. CASE DomainFind(t)
  <2>1. call'[t].op # "final"
    <3> HIDE DEF Located, CallAt, FindMove
    <3> QED BY <1>15, DomainFindEffect, ReadyLocated, PointerThere DEF NoCall
  <2> QED BY <2>1
<1>16. CASE DomainClaim(t)
  <2>1. call'[t].op # "final"
    <3> HIDE DEF Located, CallAt, FindMove
    <3> QED BY <1>16, DomainClaimEffect, ReadyLocated, PointerThere DEF NoCall
  <2> QED BY <2>1
<1>17. CASE Scan(t)
  <2>1. call'[t].op # "final"
    <3> HIDE DEF Located, CallAt, FindMove
    <3> QED BY <1>17, ScanEffect, ReadyLocated, PointerThere DEF NoCall
  <2> QED BY <2>1
<1>18. CASE SlotRead(t)
  <2>1. call'[t].op # "final"
    <3> HIDE DEF Located, CallAt, FindMove
    <3> QED BY <1>18, SlotReadEffect, ReadyLocated, PointerThere DEF NoCall
  <2> QED BY <2>1
<1>19. CASE SlotClaim(t)
  <2>1. call'[t].op # "final"
    <3> HIDE DEF Located, CallAt, FindMove
    <3> QED BY <1>19, SlotClaimEffect, ReadyLocated, PointerThere DEF NoCall
  <2> QED BY <2>1
<1>20. CASE Own(t)
  <2>1. call'[t].op # "final"
    <3> HIDE DEF Located, CallAt, FindMove
    <3> QED BY <1>20, OwnEffect, ReadyLocated, PointerThere DEF NoCall
  <2> QED BY <2>1
<1>21. CASE Count(t)
  <2>1. call'[t].op # "final"
    <3> HIDE DEF Located, CallAt, FindMove
    <3> QED BY <1>21, CountEffect, ReadyLocated, PointerThere DEF NoCall
  <2> QED BY <2>1
<1>22. CASE StartNow(t)
  <2>1. call'[t].op # "final"
    <3> HIDE DEF Located, CallAt, FindMove
    <3> QED BY <1>22, StartNowEffect, ReadyLocated, WhichCall DEF NoCall
  <2> QED BY <2>1
<1>23. CASE Done(t)
  <2>1. call'[t].op # "final"
    <3> HIDE DEF Located, CallAt, FindMove
    <3> QED BY <1>23, DoneEffect, ReadyLocated, WhichCall DEF NoCall
  <2> QED BY <2>1
<1>24. CASE Copy(t)
  BY <1>24, CopyEffect
<1>25. CASE ExchangeRead(t)
  BY <1>25, ExchangeReadEffect
<1>26. CASE Exchange(t)
  BY <1>26, ExchangeEffect
<1>27. CASE Uncount(t)
  BY <1>27, UncountEffect
<1>28. CASE Any(t)
  BY <1>28, AnyEffect
<1>29. CASE Detach(t)
  BY <1>29, DetachEffect
<1>30. CASE Delete(t)
  BY <1>30, DeleteEffect
<1>31. CASE Leave(t)
  BY <1>31, LeaveEffect
<1>32. CASE Unpoint(t)
  <2>1. call'[t].op # "final"
    <3> HIDE DEF Located, CallAt, FindMove
    <3> QED BY <1>32, UnpointEffect, ReadyLocated, PointerThere DEF NoCall
  <2> QED BY <2>1
<1>33. CASE Others(t)
  <2>1. call'[t].op # "final"
    <3> HIDE DEF Located, CallAt, FindMove
    <3> QED BY <1>33, OthersEffect, ReadyLocated, PointerThere DEF NoCall
  <2> QED BY <2>1
<1> HIDE DEF Located, CallAt, FindMove, Is, SameOp, SameAt, SameStep, SameMem, SameWords,
             SameLast, TablePCs, SeatPCs, FinalPCs, WordPCs, InitPCs, EarlyPCs, EntryPCs,
             HeldPCs
<1> QED BY <1>2, <1>3, <1>4, <1>5, <1>6, <1>7, <1>8, <1>9, <1>10, <1>11, <1>12, <1>13,
           <1>14, <1>15, <1>16, <1>17, <1>18, <1>19, <1>20, <1>21, <1>22, <1>23, <1>24,
           <1>25, <1>26, <1>27, <1>28, <1>29, <1>30, <1>31, <1>32, <1>33
        DEF Step, InitStep, WordStep, FinalStep

\* A node of its process that a finalize finds is initialized.
LEMMA FoundOne ==
  ASSUME Ready, NEW t \in Threads, Is(t, "final"), Mine(t) \in Mems, Word(t).alloc,
         owner[Mine(t)][At(t)] = Pid(t), pc[t] = "any"
  PROVE  \E u \in inited : Proc[u] = Proc[t]
<1>1. AccInv /\ PhaseInv /\ Located(t) /\ CallAt(t) /\ TypeInv
  BY ReadyLocated DEF Ready, NodeInvariant
<1>2. HasThread(Mine(t), At(t)) \/ Ended(Mine(t), At(t)) \/ Ending(Mine(t), At(t))
  BY <1>1 DEF AccInv, Word, Located
<1>3. ~Ended(Mine(t), At(t))
  BY <1>1 DEF Ended, Pid, CallAt
<1>4. CASE HasThread(Mine(t), At(t))
  <2>1. PICK u \in Threads : Seated(u) /\ Mine(u) = Mine(t) /\ Seat(u) = At(t)
    BY <1>4 DEF HasThread
  <2>2. Holds(u) /\ CallAt(u) /\ Located(u) /\ ~Is(u, "init")
    BY <2>1, <1>1, ReadyLocated DEF Holds, PhaseInv
  <2>3. pc[u] # "own"
    BY <2>1, <2>2 DEF Seated, CallAt, Located, Calls, Is, WordPCs
  <2>4. owner[Mine(t)][At(t)] = Pid(u)
    BY <2>1, <2>2, <2>3, HolderSeat
  <2>5. Proc[u] = Proc[t]
    BY <2>4 DEF Pid
  <2>6. u \in inited
    BY <2>1, <2>2, <2>5, <1>1 DEF Seated, PhaseInv, WordPCs
  <2> QED BY <2>5, <2>6
<1>5. CASE Ending(Mine(t), At(t))
  BY <1>5, ReadyLocated DEF Ending, Pid, CallAt
<1> QED BY <1>2, <1>3, <1>4, <1>5

\* The first part of PointerInv, and the second.
FoundInv == \A t \in Threads : Is(t, "final") /\ ~call[t].lastp => \E u \in inited : Proc[u] = Proc[t]
LeftInv ==
  \A p \in Procs : db[p] # NoMem => p \in spoiled \/ \E t \in Threads : Proc[t] = p /\ Anchored(t)

\* Every step but the end of a process keeps PointerInv.
LEMMA PointerStep ==
  ASSUME Ready, PointerInv, NEW t \in Threads, Step(t)
  PROVE  PointerInv'
<1>1. /\ TypeInv /\ PhaseInv /\ db \in [Procs -> Mems \cup {NoMem}] /\ inited \subseteq Threads
      /\ Proc[t] \in Procs /\ FoundInv /\ LeftInv /\ CallAt(t)
  BY ReadyLocated DEF Ready, NodeInvariant, TypeInv, MemType, PointerInv, FoundInv, LeftInv, Located
<1>2. \A u \in Threads \ {t} :
        /\ pc'[u] = pc[u] /\ call'[u] = call[u] /\ (u \in inited' <=> u \in inited)
        /\ (Anchored(u)' <=> Anchored(u)) /\ (Is(u, "final")' <=> Is(u, "final"))
  BY <1>1, ThreadFrame DEF Anchored, Is
<1>3. FoundInv'
  <2> SUFFICES ASSUME NEW u \in Threads, Is(u, "final")', ~call'[u].lastp
               PROVE  \E v \in inited' : Proc[v] = Proc[u]
    BY DEF FoundInv
  <2>1. CASE u = t
    <3>1. Is(t, "final") /\ inited' = inited
      BY <2>1, FindMoves DEF FindMove
    <3>2. CASE ~call[t].lastp
      BY <2>1, <3>1, <3>2, <1>1 DEF FoundInv
    <3>3. CASE pc[t] = "any" /\ Word(t).alloc /\ owner[Mine(t)][At(t)] = Pid(t) /\ Mine(t) \in Mems
      BY <2>1, <3>1, <3>3, FoundOne
    <3> QED BY <2>1, <3>2, <3>3, FindMoves DEF FindMove
  <2>2. CASE u # t
    <3>1. Is(u, "final") /\ ~call[u].lastp
      BY <2>2, <1>2
    <3>2. PICK v \in inited : Proc[v] = Proc[u]
      BY <3>1, <1>1 DEF FoundInv
    <3>3. CASE v # t
      BY <3>2, <3>3, <1>1, <1>2
    <3>4. CASE v = t /\ t \notin inited'
      <4>1. /\ inited' = inited \ {t}
            /\ \A w \in Threads : Is(w, "final") \/ Is(w, "signal") => Proc[w] # Proc[t]
        BY <3>4, OpMoves, <1>1 DEF OpMove
      <4> QED BY <4>1, <3>1, <3>2, <3>4
    <3> QED BY <3>2, <3>3, <3>4
  <2> QED BY <2>1, <2>2
<1>4. LeftInv'
  <2> SUFFICES ASSUME NEW p \in Procs, db'[p] # NoMem, p \notin spoiled'
               PROVE  \E u \in Threads : Proc[u] = p /\ Anchored(u)'
    BY DEF LeftInv
  <2>1. CASE db'[p] = db[p]
    <3>1. p \notin spoiled
      BY AnchorMoves DEF AnchorMove
    <3>2. PICK u \in Threads : Proc[u] = p /\ Anchored(u)
      BY <2>1, <3>1, <1>1 DEF LeftInv
    <3>3. CASE u # t
      BY <3>2, <3>3, <1>2
    <3>4. CASE u = t /\ ~Anchored(t)'
      <4>1. Is(t, "final") /\ ~call[t].lastp /\ inited' = inited
        BY <3>2, <3>4, AnchorMoves DEF AnchorMove
      <4>2. PICK v \in inited : Proc[v] = Proc[t]
        BY <4>1, <1>1 DEF FoundInv
      <4> QED BY <4>1, <4>2, <3>2, <3>4, <1>1 DEF Anchored
    <3> QED BY <3>2, <3>3, <3>4
  <2>2. CASE db'[p] # db[p]
    <3>1. p = Proc[t] /\ Anchored(t)'
      <4>1. db' # db
        BY <2>2
      <4>2. db' # [db EXCEPT ![Proc[t]] = NoMem]
        BY <2>2, <1>1
      <4>3. Anchored(t)' /\ db' = [db EXCEPT ![Proc[t]] = mem]
        BY <4>1, <4>2, AnchorMoves DEF AnchorMove
      <4> QED BY <4>3, <2>2, <1>1
    <3> QED BY <3>1
  <2> QED BY <2>1, <2>2
<1> QED BY <1>3, <1>4 DEF PointerInv, FoundInv, LeftInv

\* The end of a process keeps PointerInv.
LEMMA PointerRaise ==
  ASSUME Ready, PointerInv, NEW t \in Threads, Raise(t)
  PROVE  PointerInv'
<1>1. /\ Ends(t) /\ db \in [Procs -> Mems \cup {NoMem}] /\ FoundInv /\ LeftInv
      /\ inited \subseteq Threads
      /\ Proc[t] \in Procs
  BY RaiseEffect, ReadyLocated
     DEF Ready, NodeInvariant, TypeInv, MemType, PointerInv, FoundInv, LeftInv, Located
<1>2. db' = [db EXCEPT ![Proc[t]] = NoMem] /\ spoiled' = spoiled \ {Proc[t]}
  BY DEF Raise
<1>3. FoundInv'
  BY <1>1 DEF Ends, FoundInv, Is, NoCall
<1>4. LeftInv'
  <2> SUFFICES ASSUME NEW p \in Procs, db'[p] # NoMem, p \notin spoiled'
               PROVE  \E u \in Threads : Proc[u] = p /\ Anchored(u)'
    BY DEF LeftInv
  <2>1. p # Proc[t] /\ db'[p] = db[p]
    BY <1>1, <1>2
  <2>2. PICK u \in Threads : Proc[u] = p /\ Anchored(u)
    BY <2>1, <1>1, <1>2 DEF LeftInv
  <2>3. pc'[u] = pc[u] /\ call'[u] = call[u] /\ (u \in inited' <=> u \in inited)
    BY <2>1, <2>2, <1>1 DEF Ends
  <2> QED BY <2>2, <2>3 DEF Anchored, Is
<1> QED BY <1>3, <1>4 DEF PointerInv, FoundInv, LeftInv

-----------------------------------------------------------------------------
(* The whole invariant.                                                    *)

\* All that is known of the nodes.
IInv == NodeInvariant /\ PointerInv

\* Nothing has happened yet.
LEMMA InitInvariant ==
  ASSUME Init
  PROVE  IInv
<1>1. /\ NoCall \in Calls /\ NoWord \in Words /\ 0 \in Domains /\ 0 \in Slots
      /\ \A t \in Threads : Proc[t] \in Procs
  BY NothingTyped DEF Procs
<1>2. /\ \A t \in Threads : pc[t] = "idle" /\ call[t] = NoCall
      /\ inited = {} /\ crashed = {} /\ mem = NoMem /\ gone = {} /\ refs = 0 /\ users = {}
      /\ mrapi = {} /\ inits = 0 /\ \A p \in Procs : epoch[p] = 0 /\ db[p] = NoMem
  BY DEF Init
<1>3. MemType
  BY NodesAssumption DEF Init, MemType, Mems, NoMem
<1>4. TableType
  BY <1>1 DEF Init, TableType, Seats, Owners
<1>5. LocalType
  BY <1>1 DEF Init, LocalType, Seats, PCs
<1>6. \A t \in Threads : Is(t, "none") /\ ~Is(t, "init") /\ ~Is(t, "start") /\ ~Is(t, "final")
                         /\ ~Is(t, "signal")
  BY <1>2 DEF Is, NoCall
<1>7. \A t \in Threads : ~Attached(t) /\ ~Seated(t) /\ ~Holds(t) /\ ~Counted(t)
  BY <1>2, <1>6 DEF Attached, Seated, Holds, Counted, Running
<1>8. CallInv
  BY <1>1, <1>2, <1>6 DEF CallInv, CallAt
<1>9. PhaseInv
  BY <1>6 DEF PhaseInv
<1>10. MemInv
  BY <1>2, <1>6, <1>7 DEF MemInv, MemAt, HeldPCs
<1>11. RefInv
  <2>1. {t \in Threads : Attached(t)} = {}
    BY <1>7
  <2> QED BY <2>1, <1>2, FS_EmptySet DEF RefInv
<1>12. MadeInv
  <2>1. 0 \in 0 .. inits /\ gone \cup ({mem} \ {NoMem}) = 1 .. 0 /\ inits <= MaxInits
    BY <1>2, NodesAssumption
  <2> QED BY <2>1, <1>6 DEF MadeInv
<1>13. SeatInv
  BY <1>2, <1>6, <1>7 DEF SeatInv, SeatAt
<1>14. AccInv
  BY DEF Init, AccInv, NoWord, Seats
<1>15. LastInv
  BY <1>6 DEF LastInv, LastAt
<1>16. FreeInv
  BY <1>2 DEF FreeInv
<1>17. CountInv
  <2> SUFFICES ASSUME NEW m \in Mems, NEW d \in Domains
               PROVE  count[m][d] >= Cardinality(Members(m, d)) /\ count[m][d] = Cardinality(Members(m, d))
    BY DEF CountInv
  <2>1. Members(m, d) = {}
    BY <1>7 DEF Members
  <2>2. count[m][d] = 0
    BY DEF Init
  <2> QED BY <2>1, <2>2, FS_EmptySet
<1>18. ClaimInv
  BY <1>6 DEF ClaimInv, ClaimAt
<1>19. PointerInv
  BY <1>2, <1>6 DEF PointerInv
<1> QED BY <1>3, <1>4, <1>5, <1>8, <1>9, <1>10, <1>11, <1>12, <1>13, <1>14, <1>15, <1>16, <1>17,
           <1>18, <1>19 DEF IInv, NodeInvariant, TypeInv

\* A step that changes nothing keeps the invariant.
LEMMA Stutters ==
  ASSUME IInv, UNCHANGED vars
  PROVE  IInv'
<1>1. UNCHANGED <<mem, gone, users, refs, mrapi, dom, node, owner, count, db, known, met, place,
                  pc, call, epoch, inits, inited, crashed, spoiled>>
  BY DEF vars, memVars, tableVars, tls, histVars
<1>2. TypeInv'
  BY <1>1 DEF IInv, NodeInvariant, TypeInv, MemType, TableType, LocalType
<1>3. CallInv'
  BY <1>1 DEF IInv, NodeInvariant, CallInv, CallAt, Is, At
<1>4. PhaseInv'
  BY <1>1 DEF IInv, NodeInvariant, PhaseInv, Is
<1>5. ASSUME NEW t \in Threads
      PROVE  /\ Attached(t)' <=> Attached(t)
             /\ Seated(t)' <=> Seated(t)
             /\ Holds(t)' <=> Holds(t)
             /\ Running(t)' <=> Running(t)
             /\ Counted(t)' <=> Counted(t)
             /\ Anchored(t)' <=> Anchored(t)
             /\ Deletes(t)' <=> Deletes(t)
             /\ Mine(t)' = Mine(t) /\ Seat(t)' = Seat(t) /\ Pid(t)' = Pid(t) /\ Word(t)' = Word(t)
             /\ At(t)' = At(t)
             /\ \A op : Is(t, op)' <=> Is(t, op)
             /\ \A x : Passed(t, x)' <=> Passed(t, x)
  BY <1>1 DEF Attached, Seated, Holds, Running, Counted, Anchored, Deletes, Mine, Seat, Pid, Word,
     At, Is, Passed
<1>6. \A p : Signalled(p)' <=> Signalled(p)
  BY <1>5 DEF Signalled
<1>7. MemInv'
  BY <1>1, <1>5 DEF IInv, NodeInvariant, MemInv, MemAt
<1>8. RefInv'
  <2>1. {t \in Threads : Attached(t)}' = {t \in Threads : Attached(t)}
    BY <1>5
  <2> QED BY <2>1, <1>1 DEF IInv, NodeInvariant, RefInv
<1>9. MadeInv'
  BY <1>1, <1>5 DEF IInv, NodeInvariant, MadeInv
<1>10. SeatInv'
  <2>1. \A t \in Threads : SeatAt(t)'
    BY <1>1, <1>5, <1>6 DEF IInv, NodeInvariant, SeatInv, SeatAt
  <2> QED BY <2>1, <1>5 DEF IInv, NodeInvariant, SeatInv
<1>11. AccInv'
  <2>1. \A m, x : /\ HasThread(m, x)' <=> HasThread(m, x)
                  /\ Ended(m, x)' <=> Ended(m, x)
                  /\ Ending(m, x)' <=> Ending(m, x)
    BY <1>1, <1>5 DEF HasThread, Ended, Ending
  <2> QED BY <2>1, <1>1 DEF IInv, NodeInvariant, AccInv
<1>12. LastInv'
  <2>1. \A t \in Threads : \A u \in inited : Passed(t, place[u])' <=> Passed(t, place[u])
    BY <1>1 DEF Passed
  <2> QED BY <2>1, <1>1, <1>5 DEF IInv, NodeInvariant, LastInv, LastAt
<1>13. FreeInv'
  BY <1>1, <1>5 DEF IInv, NodeInvariant, FreeInv
<1>14. CountInv'
  <2>1. \A m, d : Members(m, d)' = Members(m, d)
    BY <1>1, <1>5 DEF Members
  <2> QED BY <2>1, <1>1 DEF IInv, NodeInvariant, CountInv
<1>15. ClaimInv'
  BY <1>1, <1>5 DEF IInv, NodeInvariant, ClaimInv, ClaimAt
<1>16. PointerInv'
  BY <1>1, <1>5 DEF IInv, PointerInv
<1> QED BY <1>2, <1>3, <1>4, <1>7, <1>8, <1>9, <1>10, <1>11, <1>12, <1>13, <1>14, <1>15, <1>16
        DEF IInv, NodeInvariant

\* Every step keeps the invariant.
LEMMA NextInvariant ==
  ASSUME Phases, IInv, PointerNull, Next
  PROVE  IInv'
<1>1. Ready /\ PointerInv
  BY DEF Ready, IInv
<1>2. PICK t \in Threads : Step(t) \/ Raise(t)
  BY DEF Next, Step, SignalStep
<1>3. CASE Step(t)
  <2>1. TypeInv'
    BY <1>1, <1>3, MemTypeStep, TableTypeStep, LocalTypeStep DEF Ready, TypeInv
  <2>2. CallInv' /\ PhaseInv' /\ MemInv' /\ RefInv' /\ MadeInv'
    BY <1>1, <1>3, CallStep, PhaseStep, MemStep, RefStep, MadeStep
  <2>3. SeatInv' /\ AccInv' /\ LastInv' /\ FreeInv' /\ CountInv' /\ ClaimInv'
    BY <1>1, <1>3, SeatStep, AccStep, LastStep, FreeStep, CountStep, ClaimStep
  <2>4. PointerInv'
    BY <1>1, <1>3, PointerStep
  <2> QED BY <2>1, <2>2, <2>3, <2>4 DEF IInv, NodeInvariant
<1>4. CASE Raise(t)
  BY <1>1, <1>4, RaiseTypes, RaiseCalls, RaiseMemory, RaiseSeats, PointerRaise
     DEF IInv, NodeInvariant
<1> QED BY <1>2, <1>3, <1>4

\* Where initializes and finalizes keep to their phases, and the node that creates
\* the memory finds its pointer null, all that is known of the nodes stays true.
THEOREM NodesCorrect == Phases => (Spec /\ []PointerNull => []IInv)
<1> SUFFICES ASSUME Phases PROVE Spec /\ []PointerNull => []IInv
  OBVIOUS
<1>1. Init => IInv
  BY InitInvariant
<1>2. IInv /\ PointerNull /\ [Next]_vars => IInv'
  BY NextInvariant, Stutters
<1> QED BY <1>1, <1>2, PTL DEF Spec

-----------------------------------------------------------------------------
(* The properties.                                                         *)

\* What is known of a thread between calls.
LEMMA BetweenCalls ==
  ASSUME NodeInvariant, NEW t \in Threads, pc[t] \in {"idle", "dead"}
  PROVE  /\ Is(t, "none") /\ ~Is(t, "init") /\ ~Is(t, "start") /\ ~Is(t, "final") /\ ~Is(t, "signal")
         /\ Seated(t) <=> t \in inited
         /\ Counted(t) <=> t \in inited
         /\ Seat(t) = place[t] /\ place[t] \in Seats
         /\ t \in inited =>
              /\ Mine(t) = mem /\ mem # NoMem /\ mem \notin gone
              /\ node[mem][place[t]].alloc /\ node[mem][place[t]].num = Num[t]
              /\ ~node[mem][place[t]].rundown
<1>1. TypeInv /\ CallInv /\ MemInv /\ SeatInv
  BY DEF NodeInvariant
<1>2. Is(t, "none") /\ ~Is(t, "init") /\ ~Is(t, "start") /\ ~Is(t, "final") /\ ~Is(t, "signal")
  BY <1>1, WhichCall DEF Is
<1>3. (Seated(t) <=> t \in inited) /\ (Counted(t) <=> t \in inited)
  BY <1>2 DEF Seated, Counted
<1>4. Seat(t) = place[t] /\ place[t] \in Seats
  BY <1>1 DEF Seat, TypeInv, LocalType
<1>5. t \in inited => Mine(t) = mem /\ mem # NoMem /\ mem \notin gone
  BY <1>1 DEF MemInv, MemAt
<1>6. ASSUME t \in inited
      PROVE  /\ node[mem][place[t]].alloc /\ node[mem][place[t]].num = Num[t]
             /\ ~node[mem][place[t]].rundown
  BY <1>1, <1>3, <1>4, <1>5, <1>6 DEF SeatInv, SeatAt, Running
<1> QED BY <1>2, <1>3, <1>4, <1>5, <1>6

\* No thread is where a fault would put it.
LEMMA NoFaultKept == IInv => NoFault
<1> SUFFICES ASSUME IInv PROVE NoFault
  OBVIOUS
<1>1. TypeInv /\ CallInv
  BY DEF IInv, NodeInvariant
<1>2. TypeOK
  BY <1>1 DEF TypeInv, MemType, TableType, Words, Seats, TypeOK
<1>3. ASSUME NEW t \in Threads
      PROVE  pc[t] # "abort"
  <2>1. call[t] \in Calls /\ CallAt(t)
    BY <1>1 DEF TypeInv, LocalType, CallInv
  <2> QED BY <2>1 DEF Calls, CallAt, Is, InitPCs, FinalPCs, SeatPCs, WordPCs, EarlyPCs, EntryPCs,
             HeldPCs, TablePCs
<1> QED BY <1>2, <1>3 DEF NoFault

\* The slots of two nodes are not the same.
LEMMA NodeHasItsSlotKept == IInv => NodeHasItsSlot
<1> SUFFICES ASSUME IInv, NEW t \in Settled
             PROVE  /\ Mine(t) # NoMem
                    /\ node[Mine(t)][place[t]].alloc /\ node[Mine(t)][place[t]].num = Num[t]
                    /\ ~node[Mine(t)][place[t]].rundown
                    /\ \A u \in Settled \ {t} : Mine(u) = Mine(t) => place[u] # place[t]
  BY DEF NodeHasItsSlot
<1>1. NodeInvariant /\ SeatInv /\ inited \subseteq Threads
  BY DEF IInv, NodeInvariant, TypeInv, MemType
<1>2. \A u \in Settled : Holds(u) /\ Seat(u) = place[u] /\ u \in Threads
  BY <1>1, BetweenCalls DEF Settled, Holds
<1>3. /\ Mine(t) = mem /\ mem # NoMem
      /\ node[mem][place[t]].alloc /\ node[mem][place[t]].num = Num[t]
      /\ ~node[mem][place[t]].rundown
  BY <1>1, BetweenCalls DEF Settled
<1>4. \A u \in Settled \ {t} : Mine(u) = Mine(t) => place[u] # place[t]
  BY <1>1, <1>2 DEF SeatInv
<1> QED BY <1>3, <1>4

\* The nodes use the one memory there is.
LEMMA SameDatabaseKept == IInv => SameDatabase
<1> SUFFICES ASSUME IInv, NEW t \in Settled
             PROVE  Mine(t) = mem /\ mem \notin gone
  BY DEF SameDatabase
<1>1. NodeInvariant /\ inited \subseteq Threads
  BY DEF IInv, NodeInvariant, TypeInv, MemType
<1> QED BY <1>1, BetweenCalls DEF Settled

\* Where no process has ended, the places of the nodes of a domain are the slots
\* of it that are allocated, each of one node.
LEMMA TakenByMembers ==
  ASSUME NodeInvariant, Quiet, mem # NoMem, crashed = {}, NEW d \in Domains
  PROVE  Cardinality({x \in {d} \X Slots : node[mem][x].alloc}) = Cardinality(Members(mem, d))
<1> DEFINE M == Members(mem, d)
           T == {x \in {d} \X Slots : node[mem][x].alloc}
           f == [t \in M |-> place[t]]
<1>1. /\ SeatInv /\ AccInv /\ mem \in Mems /\ inited \subseteq Threads
      /\ \A t \in Threads : pc[t] \in {"idle", "dead"}
  BY DEF NodeInvariant, TypeInv, MemType, Quiet
<1>2. \A t \in M : t \in Threads /\ t \in inited /\ Mine(t) = mem /\ place[t][1] = d
  BY <1>1, BetweenCalls DEF Members
<1>3. ASSUME NEW t \in M
      PROVE  place[t] \in T
  <2>1. place[t] \in Seats /\ node[mem][place[t]].alloc /\ place[t][1] = d
    BY <1>1, <1>2, BetweenCalls
  <2> QED BY <2>1 DEF Seats
<1>4. ASSUME NEW t \in M, NEW u \in M, place[t] = place[u]
      PROVE  t = u
  <2>1. t \in Threads /\ u \in Threads /\ Holds(t) /\ Holds(u) /\ Mine(t) = Mine(u)
    BY <1>2 DEF Holds, Seated
  <2>2. Seat(t) = Seat(u)
    BY <2>1, <1>1, <1>4, BetweenCalls
  <2> QED BY <2>1, <2>2, <1>1 DEF SeatInv
<1>5. ASSUME NEW x \in T
      PROVE  \E t \in M : place[t] = x
  <2>1. x \in Seats /\ node[mem][x].alloc /\ x[1] = d
    BY DEF Seats
  <2>2. ~Ended(mem, x) /\ ~Ending(mem, x)
    BY <1>1, BetweenCalls DEF Ended, Ending
  <2>3. PICK t \in Threads : Seated(t) /\ Mine(t) = mem /\ Seat(t) = x
    BY <1>1, <2>1, <2>2 DEF AccInv, HasThread
  <2>4. Counted(t) /\ place[t] = x
    BY <2>3, <1>1, BetweenCalls
  <2> QED BY <2>1, <2>3, <2>4 DEF Members
<1>6. f \in Bijection(M, T)
  <2> HIDE DEF M, T
  <2>1. f \in [M -> T]
    BY <1>3
  <2>2. IsInjective(f)
    BY <1>4 DEF IsInjective
  <2>3. \A x \in T : \E t \in M : f[t] = x
    BY <1>5
  <2> QED BY <2>1, <2>2, <2>3 DEF Bijection, Injection, Surjection
<1>7. IsFiniteSet(M)
  BY NodesAssumption, FS_Subset DEF Members
<1>8. ExistsBijection(M, T)
  BY <1>6 DEF ExistsBijection
<1> HIDE DEF M, T
<1>9. Cardinality(T) = Cardinality(M)
  BY <1>7, <1>8, FS_Bijection
<1> QED BY <1>9 DEF M, T

\* A slot that is allocated is of a node, or of a process that has ended.
LEMMA SlotsAccountedKept == IInv => SlotsAccounted
<1> SUFFICES ASSUME IInv, Quiet, mem # NoMem, NEW d \in Domains
             PROVE  LET taken == {x \in {d} \X Slots : node[mem][x].alloc} IN
                    /\ \A x \in taken : (\E t \in inited : place[t] = x) \/ owner[mem][x][1] \in crashed
                    /\ crashed = {} => count[mem][d] = Cardinality(taken)
  BY DEF SlotsAccounted
<1> DEFINE T == {x \in {d} \X Slots : node[mem][x].alloc}
<1>1. /\ NodeInvariant /\ AccInv /\ CountInv /\ mem \in Mems
      /\ \A t \in Threads : pc[t] \in {"idle", "dead"}
  BY DEF IInv, NodeInvariant, TypeInv, MemType, Quiet
<1>2. ASSUME NEW x \in T
      PROVE  (\E t \in inited : place[t] = x) \/ owner[mem][x][1] \in crashed
  <2>1. x \in Seats /\ node[mem][x].alloc
    BY DEF Seats
  <2>2. HasThread(mem, x) \/ Ended(mem, x) \/ Ending(mem, x)
    BY <1>1, <2>1 DEF AccInv
  <2>3. ~Ending(mem, x)
    BY <1>1, BetweenCalls DEF Ending
  <2>4. HasThread(mem, x) => \E t \in inited : place[t] = x
    BY <1>1, BetweenCalls DEF HasThread
  <2>5. Ended(mem, x) => owner[mem][x][1] \in crashed
    BY DEF Ended
  <2> QED BY <2>2, <2>3, <2>4, <2>5
<1>3. ASSUME crashed = {}
      PROVE  count[mem][d] = Cardinality(T)
  BY <1>1, <1>3, TakenByMembers DEF CountInv
<1> QED BY <1>2, <1>3

\* The last node removes the memory.
LEMMA FreedByLastKept == IInv => FreedByLast
<1> SUFFICES ASSUME IInv, Quiet, inited = {}, crashed = {}, mem # NoMem, mem \notin gone
             PROVE  refs = 0
  BY DEF FreedByLast
<1>1. NodeInvariant /\ FreeInv /\ \A t \in Threads : pc[t] \in {"idle", "dead"}
  BY DEF IInv, NodeInvariant, Quiet
<1>2. \A t \in Threads : t \notin inited /\ ~Deletes(t) /\ ~Is(t, "init")
  BY <1>1, BetweenCalls DEF Deletes
<1> QED BY <1>1, <1>2 DEF FreeInv

\* Why the initialize of t is refused.
Reason(t) ==
  \/ \E u \in mrapi \ {t} : Num[u] = Num[t]
  \/ pc[t] \in {"create", "join"} /\ (t \in users \/ mem \in gone)
  \/ /\ Mine(t) # NoMem
     /\ LET taken == {x \in Domains \X Slots : node[Mine(t)][x].alloc} IN
        \/ \E x \in taken : node[Mine(t)][x].num = Num[t]
        \/ \A x \in Slots : <<call[t].d, x>> \in taken
RefusedRightly(t) == Refused(t) => Reason(t)

\* A step of the thread that refuses its initialize has a reason.
LEMMA RefusalOwn ==
  ASSUME Ready, NEW t \in Threads, Step(t)
  PROVE  RefusedRightly(t)
<1>1. ASSUME NEW start \in BOOLEAN, CallInitialize(t, start)
      PROVE  RefusedRightly(t)
  <2>1. pc'[t] # "idle"
    BY <1>1, CallInitializeEffect
  <2> QED BY <2>1 DEF RefusedRightly, Refused
<1>2. CASE CallStart(t)
  <2>1. pc'[t] # "idle"
    BY <1>2, CallStartEffect
  <2> QED BY <2>1 DEF RefusedRightly, Refused
<1>3. CASE CallFinalize(t)
  <2>1. pc'[t] # "idle"
    BY <1>3, CallFinalizeEffect
  <2> QED BY <2>1 DEF RefusedRightly, Refused
<1>4. CASE CallSignal(t)
  <2>1. pc'[t] # "idle"
    BY <1>4, CallSignalEffect
  <2> QED BY <2>1 DEF RefusedRightly, Refused
<1>5. CASE Restart(t)
  <2>1. pc[t] = "dead"
    BY <1>5, RestartEffect
  <2>2. call[t].op # "init"
    BY <2>1, ReadyLocated, WhichCall DEF Is
  <2> QED BY <2>2 DEF RefusedRightly, Refused
<1>6. CASE MrapiInitialize(t)
  <2>1. pc'[t] = "idle" => t \notin mrapi /\ \E u \in mrapi : Num[u] = Num[t]
    BY <1>6, MrapiInitializeEffect
  <2> QED BY <2>1 DEF RefusedRightly, Refused, Reason
<1>7. CASE Find(t)
  <2>1. pc'[t] # "idle"
    BY <1>7, FindEffect
  <2> QED BY <2>1 DEF RefusedRightly, Refused
<1>8. CASE AttachFound(t)
  <2>1. pc'[t] # "idle"
    BY <1>8, AttachFoundEffect
  <2> QED BY <2>1 DEF RefusedRightly, Refused
<1>9. CASE Point(t)
  <2>1. pc'[t] # "idle"
    BY <1>9, PointEffect
  <2> QED BY <2>1 DEF RefusedRightly, Refused
<1>10. CASE Create(t)
  <2>1. pc[t] = "create" /\ (pc'[t] = "idle" => mem # NoMem)
    BY <1>10, CreateEffect
  <2>2. mem # NoMem => t \in users \/ mem \in gone
    BY <2>1, ReadyLocated DEF MemAt
  <2> QED BY <2>1, <2>2 DEF RefusedRightly, Refused, Reason
<1>11. CASE AttachCreated(t)
  <2>1. pc[t] = "join" /\ (pc'[t] = "idle" => t \in users)
    BY <1>11, AttachCreatedEffect
  <2> QED BY <2>1 DEF RefusedRightly, Refused, Reason
<1>12. CASE Place(t)
  <2>1. pc'[t] # "idle"
    BY <1>12, PlaceEffect
  <2> QED BY <2>1 DEF RefusedRightly, Refused
<1>13. CASE Wipe(t)
  <2>1. pc'[t] # "idle"
    BY <1>13, WipeEffect
  <2> QED BY <2>1 DEF RefusedRightly, Refused
<1>14. CASE DomainFind(t)
  <2>1. pc'[t] # "idle"
    BY <1>14, DomainFindEffect
  <2> QED BY <2>1 DEF RefusedRightly, Refused
<1>15. CASE DomainClaim(t)
  <2>1. pc'[t] # "idle"
    BY <1>15, DomainClaimEffect
  <2> QED BY <2>1 DEF RefusedRightly, Refused
<1>16. CASE Scan(t)
  <2>1. pc[t] = "scan" /\ (pc'[t] = "idle" => Word(t).alloc /\ Word(t).num = Num[t])
    BY <1>16, ScanEffect
  <2>2. At(t) \in Domains \X Slots /\ Mine(t) # NoMem
    BY <2>1, ReadyLocated DEF Located, Seats, TablePCs
  <2> QED BY <2>1, <2>2 DEF RefusedRightly, Refused, Reason, Word
<1>17. CASE SlotRead(t)
  <2>1. pc'[t] # "idle"
    BY <1>17, SlotReadEffect
  <2> QED BY <2>1 DEF RefusedRightly, Refused
<1>18. CASE SlotClaim(t)
  <2>1. /\ pc[t] = "claim" /\ Mine(t) \in Mems
        /\ pc'[t] = "idle" => /\ Word(t) # [call[t].old EXCEPT !.alloc = FALSE]
                              /\ call[t].n + 1 \notin Slots
    BY <1>18, SlotClaimEffect
  <2>2. /\ Is(t, "init") /\ ClaimAt(t) /\ call[t].d \in Domains /\ call[t].n \in Slots
        /\ Mine(t) # NoMem
    BY <2>1, ReadyLocated, PointerThere DEF Located, TablePCs
  <2>3. ASSUME pc'[t] = "idle", NEW y \in Slots
        PROVE  node[Mine(t)][<<call[t].d, y>>].alloc
    <3>1. y < call[t].n \/ y = call[t].n
      BY <2>1, <2>2, <2>3, NodesAssumption DEF Slots
    <3>2. node[Mine(t)][<<call[t].d, call[t].n>>].alloc
      BY <2>1, <2>2, <2>3, ClaimFails DEF Word, At
    <3>3. y < call[t].n => node[Mine(t)][<<call[t].d, y>>].alloc
      BY <2>1, <2>2 DEF ClaimAt
    <3> QED BY <3>1, <3>2, <3>3
  <2>4. pc'[t] = "idle" =>
         \A y \in Slots : <<call[t].d, y>> \in {x \in Domains \X Slots : node[Mine(t)][x].alloc}
    BY <2>2, <2>3
  <2> QED BY <2>2, <2>4 DEF RefusedRightly, Refused, Reason
<1>19. CASE Own(t)
  <2>1. pc'[t] # "idle"
    BY <1>19, OwnEffect
  <2> QED BY <2>1 DEF RefusedRightly, Refused
<1>20. CASE Count(t)
  <2>1. pc'[t] # "idle"
    BY <1>20, CountEffect
  <2> QED BY <2>1 DEF RefusedRightly, Refused
<1>21. CASE StartNow(t)
  <2>1. pc'[t] # "idle"
    BY <1>21, StartNowEffect
  <2> QED BY <2>1 DEF RefusedRightly, Refused
<1>22. CASE Done(t)
  <2>1. t \in inited'
    BY <1>22, DoneEffect
  <2> QED BY <2>1 DEF RefusedRightly, Refused
<1>23. CASE Copy(t)
  <2>1. pc'[t] # "idle"
    BY <1>23, CopyEffect
  <2> QED BY <2>1 DEF RefusedRightly, Refused
<1>24. CASE ExchangeRead(t)
  <2>1. pc'[t] # "idle"
    BY <1>24, ExchangeReadEffect
  <2> QED BY <2>1 DEF RefusedRightly, Refused
<1>25. CASE Exchange(t)
  <2>1. pc[t] = "xswap" /\ pc'[t] = After(t)
    BY <1>25, ExchangeEffect
  <2>2. call[t].step \in {"invalid", "run", "start", "free", "rundown", "signal"}
    BY <2>1, ReadyLocated DEF CallAt, Located, Calls, Is, WordPCs, InitPCs, SeatPCs,
       EarlyPCs,
       EntryPCs, HeldPCs, TablePCs, FinalPCs
  <2>3. pc'[t] # "idle"
    BY <2>1, <2>2 DEF After
  <2> QED BY <2>3 DEF RefusedRightly, Refused
<1>26. CASE Uncount(t)
  <2>1. pc'[t] # "idle"
    BY <1>26, UncountEffect
  <2> QED BY <2>1 DEF RefusedRightly, Refused
<1>27. CASE Any(t)
  <2>1. pc'[t] # "idle"
    BY <1>27, AnyEffect
  <2> QED BY <2>1 DEF RefusedRightly, Refused
<1>28. CASE Detach(t)
  <2>1. pc'[t] # "idle"
    BY <1>28, DetachEffect
  <2> QED BY <2>1 DEF RefusedRightly, Refused
<1>29. CASE Delete(t)
  <2>1. pc'[t] # "idle"
    BY <1>29, DeleteEffect
  <2> QED BY <2>1 DEF RefusedRightly, Refused
<1>30. CASE Leave(t)
  <2>1. pc'[t] # "idle"
    BY <1>30, LeaveEffect
  <2> QED BY <2>1 DEF RefusedRightly, Refused
<1>31. CASE Unpoint(t)
  <2>1. pc[t] = "unpoint"
    BY <1>31, UnpointEffect
  <2>2. call[t].op # "init"
    BY <2>1, ReadyLocated, PointerThere DEF Is, FinalPCs
  <2> QED BY <2>2 DEF RefusedRightly, Refused
<1>32. CASE Others(t)
  <2>1. pc'[t] # "idle"
    BY <1>32, OthersEffect
  <2> QED BY <2>1 DEF RefusedRightly, Refused
<1> QED BY <1>1, <1>2, <1>3, <1>4, <1>5, <1>6, <1>7, <1>8, <1>9, <1>10, <1>11, <1>12,
           <1>13, <1>14, <1>15, <1>16, <1>17, <1>18, <1>19, <1>20, <1>21, <1>22, <1>23,
           <1>24, <1>25, <1>26, <1>27, <1>28, <1>29, <1>30, <1>31, <1>32
        DEF Step, InitStep, WordStep, FinalStep

\* And no other thread refuses it.
LEMMA RefusalStep ==
  ASSUME Ready, NEW t \in Threads, Step(t), NEW u \in Threads
  PROVE  RefusedRightly(u)
<1>1. CASE u = t
  BY <1>1, RefusalOwn
<1>2. CASE u # t
  <2>1. TypeInv /\ CallInv /\ pc'[u] = pc[u]
    BY <1>2, ReadyLocated, ThreadFrame
  <2>2. pc[u] = "idle" => call[u].op # "init"
    BY <2>1, WhichCall DEF Is
  <2> QED BY <2>1, <2>2 DEF RefusedRightly, Refused
<1> QED BY <1>1, <1>2

\* The end of a process refuses none: nobody initializes while a signal is handled.
LEMMA RefusalRaise ==
  ASSUME Ready, NEW t \in Threads, Raise(t), NEW u \in Threads
  PROVE  RefusedRightly(u)
<1>1. TypeInv /\ CallInv /\ MemInv /\ PhaseInv
  BY ReadyLocated DEF Ready, NodeInvariant
<1>2. Is(t, "signal")
  BY <1>1, PointerThere DEF Raise
<1>3. call[u].op # "init"
  BY <1>1, <1>2 DEF PhaseInv, Is
<1> QED BY <1>3 DEF RefusedRightly, Refused

\* What holds of one step, for the theorem.
LEMMA RefusalNext ==
  ASSUME Phases, IInv, PointerNull, [Next]_vars, NEW u \in Threads
  PROVE  RefusedRightly(u)
<1>1. Ready
  BY DEF Ready, IInv
<1>2. CASE UNCHANGED vars
  <2>1. pc'[u] = pc[u] /\ TypeInv /\ CallInv
    BY <1>1, <1>2, ReadyLocated DEF vars
  <2>2. pc[u] = "idle" => call[u].op # "init"
    BY <2>1, WhichCall DEF Is
  <2> QED BY <2>1, <2>2 DEF RefusedRightly, Refused
<1>3. CASE Next
  <2>1. PICK t \in Threads : Step(t) \/ Raise(t)
    BY <1>3 DEF Next, Step, SignalStep
  <2> QED BY <2>1, <1>1, RefusalStep, RefusalRaise
<1> QED BY <1>2, <1>3

\* No step of a node goes through a pointer that is null or attaches an entry that
\* is deleted: in the code that would be a segmentation fault or a failed attach.
THEOREM NoFaultProved == Phases => (Spec /\ []PointerNull => []NoFault)
<1> SUFFICES ASSUME Phases PROVE Spec /\ []PointerNull => []NoFault
  OBVIOUS
<1>1. Spec /\ []PointerNull => []IInv
  BY NodesCorrect
<1> QED BY <1>1, NoFaultKept, PTL

\* A node that mcapi_initialize has accepted keeps a slot of its own, whatever
\* nodes come and go and whatever processes end.
THEOREM NodeHasItsSlotProved == Phases => (Spec /\ []PointerNull => []NodeHasItsSlot)
<1> SUFFICES ASSUME Phases PROVE Spec /\ []PointerNull => []NodeHasItsSlot
  OBVIOUS
<1>1. Spec /\ []PointerNull => []IInv
  BY NodesCorrect
<1> QED BY <1>1, NodeHasItsSlotKept, PTL

\* All nodes use the shared memory that a new node would find.
THEOREM SameDatabaseProved == Phases => (Spec /\ []PointerNull => []SameDatabase)
<1> SUFFICES ASSUME Phases PROVE Spec /\ []PointerNull => []SameDatabase
  OBVIOUS
<1>1. Spec /\ []PointerNull => []IInv
  BY NodesCorrect
<1> QED BY <1>1, SameDatabaseKept, PTL

\* Between calls every allocated slot has a node or a process that a signal ended,
\* and num_nodes is their number.
THEOREM SlotsAccountedProved == Phases => (Spec /\ []PointerNull => []SlotsAccounted)
<1> SUFFICES ASSUME Phases PROVE Spec /\ []PointerNull => []SlotsAccounted
  OBVIOUS
<1>1. Spec /\ []PointerNull => []IInv
  BY NodesCorrect
<1> QED BY <1>1, SlotsAccountedKept, PTL

\* The last mcapi_finalize removes the shared memory.
THEOREM FreedByLastProved == Phases => (Spec /\ []PointerNull => []FreedByLast)
<1> SUFFICES ASSUME Phases PROVE Spec /\ []PointerNull => []FreedByLast
  OBVIOUS
<1>1. Spec /\ []PointerNull => []IInv
  BY NodesCorrect
<1> QED BY <1>1, FreedByLastKept, PTL

\* mcapi_initialize refuses a node only where its number or all the slots are taken,
\* or where an earlier refused call of it, or a removed memory, is left.
THEOREM RefusedForReasonProved == Phases => (Spec /\ []PointerNull => RefusedForReason)
<1> SUFFICES ASSUME Phases PROVE Spec /\ []PointerNull => RefusedForReason
  OBVIOUS
<1>1. Spec /\ []PointerNull => []IInv
  BY NodesCorrect
<1>2. IInv /\ PointerNull /\ [Next]_vars =>
        [\A t \in Threads : Refused(t) =>
           \/ \E u \in mrapi \ {t} : Num[u] = Num[t]
           \/ pc[t] \in {"create", "join"} /\ (t \in users \/ mem \in gone)
           \/ /\ Mine(t) # NoMem
              /\ LET taken == {x \in Domains \X Slots : node[Mine(t)][x].alloc} IN
                 \/ \E x \in taken : node[Mine(t)][x].num = Num[t]
                 \/ \A x \in Slots : <<call[t].d, x>> \in taken]_vars
  BY RefusalNext DEF RefusedRightly, Reason
<1> QED BY <1>1, <1>2, PTL DEF Spec, RefusedForReason

-----------------------------------------------------------------------------
(* Where the creator finds its pointer null.                               *)

\* No process in which an initialize was refused once it was attached creates the
\* memory: what the refused one left in mcapi_db does not stay there.
Unspoiled == \A t \in Threads : pc[t] = "place" => Proc[t] \notin spoiled

\* Where no refused initialize has left one, the pointer is null when the memory
\* is created: a thread that still uses it would have kept the memory.
LEMMA PointerIsNull ==
  ASSUME IInv, Unspoiled
  PROVE  PointerNull
<1> SUFFICES ASSUME NEW t \in Threads, pc[t] = "place", Mine(t) # NoMem
             PROVE  FALSE
  BY DEF PointerNull
<1>1. PhaseInv /\ PointerInv /\ TypeInv /\ CallInv /\ Proc[t] \in Procs
  BY DEF IInv, NodeInvariant, Procs
<1>2. Is(t, "init") /\ Proc[t] \notin spoiled
  BY <1>1, WhichCall DEF HeldPCs, Unspoiled
<1>3. inited = {}
  BY <1>1, <1>2 DEF PhaseInv, CreatePCs
<1>4. PICK u \in Threads : Proc[u] = Proc[t] /\ Anchored(u)
  BY <1>1, <1>2 DEF PointerInv, Mine
<1>5. Is(u, "init") /\ u = t
  BY <1>1, <1>2, <1>3, <1>4 DEF Anchored, PhaseInv
<1> QED BY <1>3, <1>4, <1>5, <1>2, <1>1 DEF Anchored, PhaseInv, TablePCs, SeatPCs, WordPCs

\* Each process has one node.
Apart == \A t, u \in Threads : Proc[t] = Proc[u] => t = u

\* The thread of such a process that was refused stays a user of the memory, which
\* has every later initialize of it refused before that sets mcapi_db.
SpoiledAt(t) ==
  Proc[t] \in spoiled =>
    /\ t \in users /\ t \notin inited
    /\ Is(t, "none") \/ (Is(t, "init") /\ pc[t] \in EarlyPCs \cup {"join"})
SpoiledInv == \A t \in Threads : SpoiledAt(t)
SpoiledMove(t) == SpoiledAt(t)' /\ spoiled' \subseteq spoiled \cup {Proc[t]}

\* After its own step the thread that was refused is where it can be.
LEMMA SpoiledOwn ==
  ASSUME Ready, SpoiledInv, NEW t \in Threads, Step(t)
  PROVE  SpoiledMove(t)
<1>1. SpoiledAt(t) /\ CallAt(t) /\ MemAt(t) /\ Located(t)
  BY ReadyLocated DEF SpoiledInv
<1> USE <1>1 DEF SpoiledMove, SpoiledAt, Is, EarlyPCs, SameOp, SameAt, SameStep, SameMem,
                 SameWords, SameLast
<1>2. ASSUME NEW start \in BOOLEAN, CallInitialize(t, start)
      PROVE  SpoiledMove(t)
  BY <1>2, CallInitializeEffect, ReadyLocated, WhichCall DEF NoCall
<1>3. CASE CallStart(t)
  <2>1. spoiled' = spoiled
    BY <1>3, CallStartEffect
  <2>2. Proc[t] \notin spoiled
    BY <1>3, CallStartEffect DEF CallAt
  <2> QED BY <2>1, <2>2
<1>4. CASE CallFinalize(t)
  <2>1. spoiled' = spoiled
    BY <1>4, CallFinalizeEffect
  <2>2. Proc[t] \notin spoiled
    BY <1>4, CallFinalizeEffect DEF CallAt
  <2> QED BY <2>1, <2>2
<1>5. CASE CallSignal(t)
  <2>1. spoiled' = spoiled
    BY <1>5, CallSignalEffect
  <2>2. Proc[t] \notin spoiled
    BY <1>5, CallSignalEffect DEF CallAt
  <2> QED BY <2>1, <2>2
<1>6. CASE Restart(t)
  <2>1. Is(t, "none")
    BY <1>6, RestartEffect, ReadyLocated, WhichCall
  <2> QED BY <1>6, <2>1, RestartEffect
<1>7. CASE MrapiInitialize(t)
  BY <1>7, MrapiInitializeEffect DEF NoCall
<1>8. CASE Find(t)
  BY <1>8, FindEffect
<1>9. CASE AttachFound(t)
  BY <1>9, AttachFoundEffect
<1>10. CASE Point(t)
  BY <1>10, PointEffect
<1>11. CASE Create(t)
  BY <1>11, CreateEffect DEF NoCall
<1>12. CASE AttachCreated(t)
  <2>1. pc[t] = "join" /\ Is(t, "init") /\ t \notin inited
    BY <1>12, AttachCreatedEffect, ReadyLocated, WhichCall, PointerThere
    DEF CallAt, EntryPCs
  <2> QED BY <1>12, <2>1, AttachCreatedEffect DEF NoCall
<1>13. CASE Place(t)
  BY <1>13, PlaceEffect
<1>14. CASE Wipe(t)
  BY <1>14, WipeEffect
<1>15. CASE DomainFind(t)
  BY <1>15, DomainFindEffect
<1>16. CASE DomainClaim(t)
  BY <1>16, DomainClaimEffect
<1>17. CASE Scan(t)
  <2>1. Is(t, "init") /\ Attached(t)
    BY <1>17, ScanEffect, ReadyLocated, PointerThere DEF Attached, TablePCs
  <2>2. t \in users /\ t \notin inited
    BY <2>1 DEF MemAt, CallAt
  <2> QED BY <1>17, <2>1, <2>2, ScanEffect DEF NoCall
<1>18. CASE SlotRead(t)
  BY <1>18, SlotReadEffect
<1>19. CASE SlotClaim(t)
  <2>1. Is(t, "init") /\ Attached(t)
    BY <1>19, SlotClaimEffect, ReadyLocated, PointerThere DEF Attached, TablePCs
  <2>2. t \in users /\ t \notin inited
    BY <2>1 DEF MemAt, CallAt
  <2> QED BY <1>19, <2>1, <2>2, SlotClaimEffect DEF NoCall
<1>20. CASE Own(t)
  BY <1>20, OwnEffect
<1>21. CASE Count(t)
  BY <1>21, CountEffect
<1>22. CASE StartNow(t)
  <2>1. spoiled' = spoiled
    BY <1>22, StartNowEffect
  <2>2. Proc[t] \notin spoiled
    BY <1>22, StartNowEffect, ReadyLocated, PointerThere, WhichCall
    DEF FinalPCs, WordPCs, SeatPCs, InitPCs
  <2> QED BY <2>1, <2>2
<1>23. CASE Done(t)
  <2>1. spoiled' = spoiled
    BY <1>23, DoneEffect
  <2>2. Proc[t] \notin spoiled
    BY <1>23, DoneEffect, ReadyLocated, PointerThere, WhichCall
    DEF FinalPCs, WordPCs, SeatPCs, InitPCs
  <2> QED BY <2>1, <2>2
<1>24. CASE Copy(t)
  <2>1. spoiled' = spoiled /\ pc[t] = "copy"
    BY <1>24, CopyEffect
  <2>2. ~Is(t, "none") /\ call[t] \in Calls /\ pc[t] \notin EarlyPCs \cup {"join"}
    BY <2>1, <1>1 DEF CallAt, Located
  <2>3. Proc[t] \notin spoiled
    BY <2>2
  <2> QED BY <2>1, <2>3
<1>25. CASE ExchangeRead(t)
  <2>1. spoiled' = spoiled /\ pc[t] = "xread"
    BY <1>25, ExchangeReadEffect
  <2>2. ~Is(t, "none") /\ call[t] \in Calls /\ pc[t] \notin EarlyPCs \cup {"join"}
    BY <2>1, <1>1 DEF CallAt, Located
  <2>3. Proc[t] \notin spoiled
    BY <2>2
  <2> QED BY <2>1, <2>3
<1>26. CASE Exchange(t)
  <2>1. spoiled' = spoiled /\ pc[t] = "xswap"
    BY <1>26, ExchangeEffect
  <2>2. ~Is(t, "none") /\ call[t] \in Calls /\ pc[t] \notin EarlyPCs \cup {"join"}
    BY <2>1, <1>1 DEF CallAt, Located
  <2>3. Proc[t] \notin spoiled
    BY <2>2
  <2> QED BY <2>1, <2>3
<1>27. CASE Uncount(t)
  <2>1. spoiled' = spoiled
    BY <1>27, UncountEffect
  <2>2. Proc[t] \notin spoiled
    BY <1>27, UncountEffect, ReadyLocated, PointerThere, WhichCall
    DEF FinalPCs, WordPCs, SeatPCs, InitPCs
  <2> QED BY <2>1, <2>2
<1>28. CASE Any(t)
  <2>1. spoiled' = spoiled
    BY <1>28, AnyEffect
  <2>2. Proc[t] \notin spoiled
    BY <1>28, AnyEffect, ReadyLocated, PointerThere, WhichCall
    DEF FinalPCs, WordPCs, SeatPCs, InitPCs
  <2> QED BY <2>1, <2>2
<1>29. CASE Detach(t)
  <2>1. spoiled' = spoiled
    BY <1>29, DetachEffect
  <2>2. Proc[t] \notin spoiled
    BY <1>29, DetachEffect, ReadyLocated, PointerThere, WhichCall
    DEF FinalPCs, WordPCs, SeatPCs, InitPCs
  <2> QED BY <2>1, <2>2
<1>30. CASE Delete(t)
  <2>1. spoiled' = spoiled
    BY <1>30, DeleteEffect
  <2>2. Proc[t] \notin spoiled
    BY <1>30, DeleteEffect, ReadyLocated, PointerThere, WhichCall
    DEF FinalPCs, WordPCs, SeatPCs, InitPCs
  <2> QED BY <2>1, <2>2
<1>31. CASE Leave(t)
  <2>1. spoiled' = spoiled
    BY <1>31, LeaveEffect
  <2>2. Proc[t] \notin spoiled
    BY <1>31, LeaveEffect, ReadyLocated, PointerThere, WhichCall
    DEF FinalPCs, WordPCs, SeatPCs, InitPCs
  <2> QED BY <2>1, <2>2
<1>32. CASE Unpoint(t)
  <2>1. spoiled' = spoiled
    BY <1>32, UnpointEffect
  <2>2. Proc[t] \notin spoiled
    BY <1>32, UnpointEffect, ReadyLocated, PointerThere, WhichCall
    DEF FinalPCs, WordPCs, SeatPCs, InitPCs
  <2> QED BY <2>1, <2>2
<1>33. CASE Others(t)
  <2>1. spoiled' = spoiled
    BY <1>33, OthersEffect
  <2>2. Proc[t] \notin spoiled
    BY <1>33, OthersEffect, ReadyLocated, PointerThere, WhichCall
    DEF FinalPCs, WordPCs, SeatPCs, InitPCs
  <2> QED BY <2>1, <2>2
<1> HIDE DEF SpoiledMove, SpoiledAt, Is, EarlyPCs, SameOp, SameAt, SameStep, SameMem,
             SameWords, SameLast
<1> QED BY <1>2, <1>3, <1>4, <1>5, <1>6, <1>7, <1>8, <1>9, <1>10, <1>11, <1>12, <1>13,
           <1>14, <1>15, <1>16, <1>17, <1>18, <1>19, <1>20, <1>21, <1>22, <1>23, <1>24,
           <1>25, <1>26, <1>27, <1>28, <1>29, <1>30, <1>31, <1>32, <1>33
        DEF Step, InitStep, WordStep, FinalStep

\* Every step keeps it so, where each process has one node.
LEMMA SpoiledNext ==
  ASSUME Apart, Phases, IInv, PointerNull, SpoiledInv, [Next]_vars
  PROVE  SpoiledInv'
<1>1. Ready /\ inited \subseteq Threads
  BY DEF Ready, IInv, NodeInvariant, TypeInv, MemType
<1>2. CASE UNCHANGED vars
  BY <1>2 DEF vars, memVars, tls, histVars, SpoiledInv, SpoiledAt, Is
<1>3. CASE Next
  <2>1. PICK t \in Threads : Step(t) \/ Raise(t)
    BY <1>3 DEF Next, Step, SignalStep
  <2>2. ASSUME Step(t), NEW u \in Threads
        PROVE  SpoiledAt(u)'
    <3>1. SpoiledMove(t) /\ TypeInv
      BY <1>1, <2>2, SpoiledOwn, ReadyLocated
    <3>2. CASE u = t
      BY <3>1, <3>2 DEF SpoiledMove
    <3>3. CASE u # t
      <4>1. Proc[u] \in spoiled' => Proc[u] \in spoiled
        BY <3>1, <3>3 DEF SpoiledMove, Apart
      <4>2. /\ pc'[u] = pc[u] /\ call'[u] = call[u]
            /\ u \in inited' <=> u \in inited
            /\ u \in users' <=> u \in users
        BY <2>2, <3>1, <3>3, ThreadFrame
      <4> QED BY <4>1, <4>2 DEF SpoiledInv, SpoiledAt, Is
    <3> QED BY <3>2, <3>3
  <2>3. ASSUME Raise(t), NEW u \in Threads
        PROVE  SpoiledAt(u)'
    <3>1. Proc[u] \in spoiled' => Proc[u] # Proc[t] /\ Proc[u] \in spoiled
      BY <2>3 DEF Raise
    <3>2. Ends(t)
      BY <1>1, <2>3, RaiseEffect
    <3>3. Proc[u] # Proc[t] => /\ pc'[u] = pc[u] /\ call'[u] = call[u]
                               /\ u \in inited' <=> u \in inited
                               /\ u \in users' <=> u \in users
      BY <3>2 DEF Ends
    <3> QED BY <3>1, <3>3 DEF SpoiledInv, SpoiledAt, Is
  <2> QED BY <2>1, <2>2, <2>3 DEF SpoiledInv
<1> QED BY <1>2, <1>3

\* Such a thread does not create the memory.
LEMMA SpoiledCreatesNot == IInv /\ SpoiledInv => PointerNull
<1> SUFFICES ASSUME IInv, SpoiledInv PROVE PointerNull
  OBVIOUS
<1>1. ASSUME NEW t \in Threads, pc[t] = "place"
      PROVE  Proc[t] \notin spoiled
  <2>1. Is(t, "init") /\ SpoiledAt(t)
    BY <1>1, WhichCall DEF IInv, NodeInvariant, HeldPCs, SpoiledInv
  <2> QED BY <1>1, <2>1 DEF SpoiledAt, Is, EarlyPCs
<1> QED BY <1>1, PointerIsNull DEF Unspoiled

\* Where each process has one node, the node that creates the memory always finds
\* its pointer null, and all that is known of the nodes stays true.
THEOREM ApartCorrect == Phases /\ Apart => (Spec => [](IInv /\ PointerNull))
<1> SUFFICES ASSUME Phases, Apart PROVE Spec => [](IInv /\ PointerNull)
  OBVIOUS
<1> DEFINE Inv == IInv /\ SpoiledInv
<1>1. Init => Inv
  <2>1. Init => SpoiledInv
    BY DEF Init, SpoiledInv, SpoiledAt
  <2> QED BY <2>1, InitInvariant
<1>2. Inv /\ [Next]_vars => Inv'
  BY SpoiledCreatesNot, SpoiledNext, NextInvariant, Stutters
<1>3. Inv => IInv /\ PointerNull
  BY SpoiledCreatesNot
<1> HIDE DEF Inv
<1> QED BY <1>1, <1>2, <1>3, PTL DEF Spec

\* So in processes of one node every node keeps a slot of its own in the one memory
\* there is, the slots are accounted for and the last node frees the memory.
THEOREM ApartSafe ==
  Phases /\ Apart =>
    (Spec => [](NoFault /\ NodeHasItsSlot /\ SameDatabase /\ SlotsAccounted /\ FreedByLast))
<1> DEFINE Safe == NoFault /\ NodeHasItsSlot /\ SameDatabase /\ SlotsAccounted /\ FreedByLast
<1> SUFFICES ASSUME Phases, Apart PROVE Spec => []Safe
  OBVIOUS
<1>1. IInv /\ PointerNull => Safe
  BY NoFaultKept, NodeHasItsSlotKept, SameDatabaseKept, SlotsAccountedKept, FreedByLastKept
<1>2. Spec => [](IInv /\ PointerNull)
  BY ApartCorrect
<1> HIDE DEF Safe
<1> QED BY <1>1, <1>2, PTL

\* Every node has a number of its own, the table a slot for each, and no signal
\* ends a process.
Roomy ==
  /\ \A t, u \in Threads : Num[t] = Num[u] => t = u
  /\ Cardinality(Threads) <= MaxNodes /\ MaxCrashes = 0

\* Then MRAPI counts as users only the threads that are attached or leave.
UserAt(t) == t \in users => Attached(t) \/ (Is(t, "final") /\ pc[t] # "unpoint")
RoomyInv ==
  /\ spoiled = {} /\ crashed = {}
  /\ \A t \in Threads : ~Is(t, "signal") /\ UserAt(t)
RoomyMove(t) == UserAt(t)' /\ ~Is(t, "signal")' /\ spoiled' = {}

\* The slots of the memory that an initialize looks through have threads.
LEMMA RoomyTaken ==
  ASSUME Ready, RoomyInv, NEW t \in Threads, Is(t, "init"), pc[t] \in {"scan", "claim"},
         NEW x \in Seats, node[Mine(t)][x].alloc
  PROVE  \E u \in Threads \ {t} :
           Seated(u) /\ Mine(u) = Mine(t) /\ Seat(u) = x /\ node[Mine(t)][x].num = Num[u]
<1>1. AccInv /\ crashed = {} /\ Mine(t) \in Mems /\ t \notin inited
  BY ReadyLocated DEF Ready, NodeInvariant, RoomyInv, Located, TablePCs, CallAt
<1>2. ~Ended(Mine(t), x) /\ ~Ending(Mine(t), x)
  BY <1>1 DEF Ended, Ending, RoomyInv
<1>3. PICK u \in Threads : Seated(u) /\ Mine(u) = Mine(t) /\ Seat(u) = x
  BY <1>1, <1>2 DEF AccInv, HasThread
<1>4. ~Seated(t)
  BY <1>1 DEF Seated, Is, SeatPCs, WordPCs
<1>5. node[Mine(u)][Seat(u)].num = Num[u]
  BY <1>3, ReadyLocated DEF SeatAt
<1> QED BY <1>3, <1>4, <1>5

\* No other node has the number.
LEMMA RoomyScan ==
  ASSUME Roomy, Ready, RoomyInv, NEW t \in Threads, Is(t, "init"), pc[t] = "scan", Word(t).alloc
  PROVE  Word(t).num # Num[t]
<1>1. At(t) \in Seats
  BY ReadyLocated DEF Located
<1>2. PICK u \in Threads \ {t} : Word(t).num = Num[u]
  BY <1>1, RoomyTaken DEF Word
<1> QED BY <1>2 DEF Roomy

\* A slot is left: the other threads have one each at most.
LEMMA RoomyClaim ==
  ASSUME Roomy, Ready, RoomyInv, NEW t \in Threads, Is(t, "init"), pc[t] = "claim"
  PROVE  \E y \in Slots : ~node[Mine(t)][<<call[t].d, y>>].alloc
<1> SUFFICES ASSUME \A y \in Slots : node[Mine(t)][<<call[t].d, y>>].alloc
             PROVE  FALSE
  OBVIOUS
<1> DEFINE S == {u \in Threads \ {t} : Seat(u) \in {call[t].d} \X Slots}
           f == [u \in S |-> Seat(u)[2]]
<1>1. call[t].d \in Domains
  BY ReadyLocated DEF Located
<1>2. ASSUME NEW y \in Slots
      PROVE  \E u \in S : f[u] = y
  <2>1. <<call[t].d, y>> \in Seats
    BY <1>1 DEF Seats
  <2>2. PICK u \in Threads \ {t} : Seat(u) = <<call[t].d, y>>
    BY <2>1, RoomyTaken
  <2> QED BY <2>2
<1>3. f \in [S -> Slots]
  OBVIOUS
<1>4. f \in Surjection(S, Slots)
  <2> HIDE DEF S, f
  <2> QED BY <1>2, <1>3 DEF Surjection
<1>5. IsFiniteSet(Threads) /\ S \subseteq Threads \ {t}
  BY NodesAssumption
<1>6. /\ IsFiniteSet(Threads \ {t}) /\ IsFiniteSet(S)
      /\ Cardinality(Threads \ {t}) = Cardinality(Threads) - 1 /\ Cardinality(Threads) \in Nat
  BY <1>5, FS_RemoveElement, FS_Subset, FS_CardinalityType
<1>7. Cardinality(S) <= Cardinality(Threads) - 1 /\ Cardinality(S) \in Nat
  BY <1>5, <1>6, FS_Subset, FS_CardinalityType
<1>8. Cardinality(Slots) <= Cardinality(S)
  BY <1>4, <1>6, FS_Surjection
<1>9. Cardinality(Slots) = MaxNodes
  <2>1. MaxNodes \in Nat \ {0} /\ 0 <= MaxNodes - 1
    BY NodesAssumption
  <2>2. Cardinality(0 .. (MaxNodes - 1)) = IF 0 > MaxNodes - 1 THEN 0 ELSE (MaxNodes - 1) - 0 + 1
    BY <2>1, FS_Interval
  <2> QED BY <2>1, <2>2 DEF Slots
<1> QED BY <1>6, <1>7, <1>8, <1>9, NodesAssumption DEF Roomy

\* A step of a thread keeps it counted so, and is refused nowhere once attached.
LEMMA RoomyOwn ==
  ASSUME Roomy, Ready, RoomyInv, NEW t \in Threads, Step(t)
  PROVE  RoomyMove(t)
<1>1. /\ UserAt(t) /\ ~Is(t, "signal") /\ spoiled = {} /\ crashed = {}
      /\ CallAt(t) /\ MemAt(t) /\ Located(t)
  BY ReadyLocated DEF RoomyInv
<1> USE <1>1 DEF RoomyMove, UserAt, SameOp, SameAt, SameStep, SameMem, SameWords, SameLast
<1>2. ASSUME NEW start \in BOOLEAN, CallInitialize(t, start)
      PROVE  RoomyMove(t)
  <2>1. pc[t] = "idle" /\ Is(t, "none")
    BY <1>2, CallInitializeEffect, ReadyLocated, WhichCall
  <2>2. t \in users => t \in inited
    BY <2>1 DEF Attached, Is
  <2> QED BY <1>2, <2>1, <2>2, CallInitializeEffect DEF Is, Attached
<1>3. CASE CallStart(t)
  <2>1. pc'[t] = "start" /\ t \in inited' /\ call'[t].op = "start" /\ spoiled' = spoiled
    BY <1>3, CallStartEffect
  <2> QED BY <2>1 DEF Is, Attached
<1>4. CASE CallFinalize(t)
  <2>1. pc'[t] = "copy" /\ call'[t].op = "final" /\ spoiled' = spoiled
    BY <1>4, CallFinalizeEffect
  <2> QED BY <2>1 DEF Is, Attached
<1>5. CASE CallSignal(t)
  <2>1. Cardinality(crashed) < 0
    BY <1>5 DEF CallSignal, Roomy
  <2> QED BY <2>1, FS_EmptySet
<1>6. CASE Restart(t)
  <2>1. pc[t] = "dead"
    BY <1>6, RestartEffect
  <2> QED BY <2>1 DEF CallAt
<1>7. CASE MrapiInitialize(t)
  <2>1. pc[t] \in EarlyPCs /\ Is(t, "init") /\ t \notin inited
    BY <1>7, MrapiInitializeEffect, ReadyLocated, WhichCall DEF EarlyPCs, CallAt
  <2>2. t \notin users
    BY <2>1 DEF Attached, Is, EarlyPCs, HeldPCs, TablePCs, SeatPCs, WordPCs
  <2> QED BY <1>7, <2>1, <2>2, MrapiInitializeEffect DEF Is, NoCall
<1>8. CASE Find(t)
  <2>1. pc[t] \in EarlyPCs /\ Is(t, "init") /\ t \notin inited
    BY <1>8, FindEffect, ReadyLocated, WhichCall DEF EarlyPCs, CallAt
  <2>2. t \notin users
    BY <2>1 DEF Attached, Is, EarlyPCs, HeldPCs, TablePCs, SeatPCs, WordPCs
  <2> QED BY <1>8, <2>1, <2>2, FindEffect DEF Is, NoCall
<1>9. CASE AttachFound(t)
  <2>1. Is(t, "init")
    BY <1>9, AttachFoundEffect, ReadyLocated, PointerThere, WhichCall
    DEF EntryPCs, HeldPCs, TablePCs, SeatPCs
  <2>2. /\ Is(t, "init")' /\ spoiled' = spoiled
        /\ pc'[t] \in {"point", "wipe", "domain", "dclaim", "scan", "claim", "copy"}
    BY <1>9, <2>1, AttachFoundEffect DEF Is
  <2> QED BY <2>2 DEF Is, Attached, HeldPCs, TablePCs, SeatPCs, WordPCs
<1>10. CASE Point(t)
  <2>1. Is(t, "init")
    BY <1>10, PointEffect, ReadyLocated, PointerThere, WhichCall
    DEF EntryPCs, HeldPCs, TablePCs, SeatPCs
  <2>2. /\ Is(t, "init")' /\ spoiled' = spoiled
        /\ pc'[t] \in {"point", "wipe", "domain", "dclaim", "scan", "claim", "copy"}
    BY <1>10, <2>1, PointEffect DEF Is
  <2> QED BY <2>2 DEF Is, Attached, HeldPCs, TablePCs, SeatPCs, WordPCs
<1>11. CASE Create(t)
  <2>1. pc[t] \in EarlyPCs /\ Is(t, "init") /\ t \notin inited
    BY <1>11, CreateEffect, ReadyLocated, WhichCall DEF EarlyPCs, CallAt
  <2>2. t \notin users
    BY <2>1 DEF Attached, Is, EarlyPCs, HeldPCs, TablePCs, SeatPCs, WordPCs
  <2> QED BY <1>11, <2>1, <2>2, CreateEffect DEF Is, NoCall
<1>12. CASE AttachCreated(t)
  <2>1. pc[t] = "join" /\ Is(t, "init") /\ t \notin inited
    BY <1>12, AttachCreatedEffect, ReadyLocated, WhichCall, PointerThere
    DEF CallAt, EntryPCs
  <2>2. t \notin users
    BY <2>1 DEF Attached, Is, HeldPCs, TablePCs, SeatPCs, WordPCs
  <2> QED BY <1>12, <2>1, <2>2, AttachCreatedEffect DEF Attached, Is, HeldPCs
<1>13. CASE Place(t)
  <2>1. Is(t, "init")
    BY <1>13, PlaceEffect, ReadyLocated, PointerThere, WhichCall
    DEF EntryPCs, HeldPCs, TablePCs, SeatPCs
  <2>2. /\ Is(t, "init")' /\ spoiled' = spoiled
        /\ pc'[t] \in {"point", "wipe", "domain", "dclaim", "scan", "claim", "copy"}
    BY <1>13, <2>1, PlaceEffect DEF Is
  <2> QED BY <2>2 DEF Is, Attached, HeldPCs, TablePCs, SeatPCs, WordPCs
<1>14. CASE Wipe(t)
  <2>1. Is(t, "init")
    BY <1>14, WipeEffect, ReadyLocated, PointerThere, WhichCall
    DEF EntryPCs, HeldPCs, TablePCs, SeatPCs
  <2>2. /\ Is(t, "init")' /\ spoiled' = spoiled
        /\ pc'[t] \in {"point", "wipe", "domain", "dclaim", "scan", "claim", "copy"}
    BY <1>14, <2>1, WipeEffect DEF Is
  <2> QED BY <2>2 DEF Is, Attached, HeldPCs, TablePCs, SeatPCs, WordPCs
<1>15. CASE DomainFind(t)
  <2>1. Is(t, "init")
    BY <1>15, DomainFindEffect, ReadyLocated, PointerThere, WhichCall
    DEF EntryPCs, HeldPCs, TablePCs, SeatPCs
  <2>2. /\ Is(t, "init")' /\ spoiled' = spoiled
        /\ pc'[t] \in {"point", "wipe", "domain", "dclaim", "scan", "claim", "copy"}
    BY <1>15, <2>1, DomainFindEffect DEF Is
  <2> QED BY <2>2 DEF Is, Attached, HeldPCs, TablePCs, SeatPCs, WordPCs
<1>16. CASE DomainClaim(t)
  <2>1. Is(t, "init")
    BY <1>16, DomainClaimEffect, ReadyLocated, PointerThere, WhichCall
    DEF EntryPCs, HeldPCs, TablePCs, SeatPCs
  <2>2. /\ Is(t, "init")' /\ spoiled' = spoiled
        /\ pc'[t] \in {"point", "wipe", "domain", "dclaim", "scan", "claim", "copy"}
    BY <1>16, <2>1, DomainClaimEffect DEF Is
  <2> QED BY <2>2 DEF Is, Attached, HeldPCs, TablePCs, SeatPCs, WordPCs
<1>17. CASE Scan(t)
  <2>1. pc[t] = "scan" /\ Is(t, "init")
    BY <1>17, ScanEffect, ReadyLocated, PointerThere DEF TablePCs
  <2>2. ~(Word(t).alloc /\ Word(t).num = Num[t])
    BY <2>1, RoomyScan
  <2>3. Is(t, "init")' /\ pc'[t] \in {"scan", "read"} /\ spoiled' = {}
    BY <1>17, <2>1, <2>2, ScanEffect DEF Is
  <2> QED BY <2>3 DEF Attached, Is, TablePCs
<1>18. CASE SlotRead(t)
  <2>1. Is(t, "init")
    BY <1>18, SlotReadEffect, ReadyLocated, PointerThere, WhichCall
    DEF EntryPCs, HeldPCs, TablePCs, SeatPCs
  <2>2. /\ Is(t, "init")' /\ spoiled' = spoiled
        /\ pc'[t] \in {"point", "wipe", "domain", "dclaim", "scan", "claim", "copy"}
    BY <1>18, <2>1, SlotReadEffect DEF Is
  <2> QED BY <2>2 DEF Is, Attached, HeldPCs, TablePCs, SeatPCs, WordPCs
<1>19. CASE SlotClaim(t)
  <2>1. pc[t] = "claim" /\ Is(t, "init")
    BY <1>19, SlotClaimEffect, ReadyLocated, PointerThere DEF TablePCs
  <2>2. pc'[t] # "idle"
    <3> SUFFICES ASSUME pc'[t] = "idle"
                 PROVE  FALSE
      OBVIOUS
    <3>1. /\ Mine(t) \in Mems /\ Word(t) # [call[t].old EXCEPT !.alloc = FALSE]
          /\ call[t].n + 1 \notin Slots
      BY <1>19, SlotClaimEffect
    <3>2. ASSUME NEW y \in Slots
          PROVE  node[Mine(t)][<<call[t].d, y>>].alloc
      <4>1. y < call[t].n \/ y = call[t].n
        BY <3>1, NodesAssumption DEF Slots, Located
      <4>2. node[Mine(t)][<<call[t].d, call[t].n>>].alloc
        BY <2>1, <3>1, ClaimFails DEF Word, At
      <4>3. y < call[t].n => node[Mine(t)][<<call[t].d, y>>].alloc
        BY <2>1, ReadyLocated DEF ClaimAt
      <4> QED BY <4>1, <4>2, <4>3
    <3> QED BY <2>1, <3>2, RoomyClaim
  <2>3. Is(t, "init")' /\ pc'[t] \in {"own", "read"} /\ spoiled' = {}
    BY <1>19, <2>1, <2>2, SlotClaimEffect DEF Is
  <2> QED BY <2>3 DEF Attached, Is, TablePCs, SeatPCs
<1>20. CASE Own(t)
  <2>1. Is(t, "init")
    BY <1>20, OwnEffect, ReadyLocated, PointerThere, WhichCall
    DEF EntryPCs, HeldPCs, TablePCs, SeatPCs
  <2>2. /\ Is(t, "init")' /\ spoiled' = spoiled
        /\ pc'[t] \in {"point", "wipe", "domain", "dclaim", "scan", "claim", "copy"}
    BY <1>20, <2>1, OwnEffect DEF Is
  <2> QED BY <2>2 DEF Is, Attached, HeldPCs, TablePCs, SeatPCs, WordPCs
<1>21. CASE Count(t)
  <2>1. Is(t, "init")
    BY <1>21, CountEffect, ReadyLocated, PointerThere, WhichCall
    DEF EntryPCs, HeldPCs, TablePCs, SeatPCs
  <2>2. /\ Is(t, "init")' /\ spoiled' = spoiled
        /\ pc'[t] \in {"point", "wipe", "domain", "dclaim", "scan", "claim", "copy"}
    BY <1>21, <2>1, CountEffect DEF Is
  <2> QED BY <2>2 DEF Is, Attached, HeldPCs, TablePCs, SeatPCs, WordPCs
<1>22. CASE StartNow(t)
  <2>1. /\ pc[t] \in {"start", "copy", "xread", "xswap"} /\ users' = users /\ SameOp(t)
        /\ spoiled' = spoiled /\ inited' = inited
    BY <1>22, StartNowEffect
  <2>2. CASE Is(t, "init")
    <3>1. Is(t, "init")' /\ pc'[t] \in SeatPCs
      BY <1>22, <2>1, <2>2, StartNowEffect DEF CallAt, Is, SeatPCs, WordPCs
    <3> QED BY <2>1, <3>1 DEF Is, Attached
  <2>3. CASE Is(t, "start")
    <3>1. t \in inited' /\ pc'[t] # "raise"
      BY <1>22, <2>1, <2>3, StartNowEffect DEF CallAt, Is, SeatPCs, WordPCs
    <3> QED BY <2>1, <2>3, <3>1 DEF Is, Attached
  <2>4. CASE Is(t, "final")
    <3>1. Is(t, "final")' /\ pc'[t] # "unpoint"
      BY <1>22, <2>1, <2>4, StartNowEffect DEF CallAt, Is, SeatPCs, WordPCs
    <3> QED BY <2>1, <3>1 DEF Is
  <2>5. Is(t, "init") \/ Is(t, "start") \/ Is(t, "final")
    BY <2>1 DEF CallAt, Located, Calls, Is
  <2> QED BY <2>2, <2>3, <2>4, <2>5
<1>23. CASE Done(t)
  <2>1. pc'[t] = "idle" /\ t \in inited' /\ call'[t] = NoCall /\ spoiled' = spoiled
    BY <1>23, DoneEffect
  <2> QED BY <2>1 DEF Is, Attached, NoCall
<1>24. CASE Copy(t)
  <2>1. /\ pc[t] \in {"start", "copy", "xread", "xswap"} /\ users' = users /\ SameOp(t)
        /\ spoiled' = spoiled /\ inited' = inited
    BY <1>24, CopyEffect
  <2>2. CASE Is(t, "init")
    <3>1. Is(t, "init")' /\ pc'[t] \in SeatPCs
      BY <1>24, <2>1, <2>2, CopyEffect DEF CallAt, Is, SeatPCs, WordPCs
    <3> QED BY <2>1, <3>1 DEF Is, Attached
  <2>3. CASE Is(t, "start")
    <3>1. t \in inited' /\ pc'[t] # "raise"
      BY <1>24, <2>1, <2>3, CopyEffect DEF CallAt, Is, SeatPCs, WordPCs
    <3> QED BY <2>1, <2>3, <3>1 DEF Is, Attached
  <2>4. CASE Is(t, "final")
    <3>1. Is(t, "final")' /\ pc'[t] # "unpoint"
      BY <1>24, <2>1, <2>4, CopyEffect DEF CallAt, Is, SeatPCs, WordPCs
    <3> QED BY <2>1, <3>1 DEF Is
  <2>5. Is(t, "init") \/ Is(t, "start") \/ Is(t, "final")
    BY <2>1 DEF CallAt, Located, Calls, Is
  <2> QED BY <2>2, <2>3, <2>4, <2>5
<1>25. CASE ExchangeRead(t)
  <2>1. /\ pc[t] \in {"start", "copy", "xread", "xswap"} /\ users' = users /\ SameOp(t)
        /\ spoiled' = spoiled /\ inited' = inited
    BY <1>25, ExchangeReadEffect
  <2>2. CASE Is(t, "init")
    <3>1. Is(t, "init")' /\ pc'[t] \in SeatPCs
      BY <1>25, <2>1, <2>2, ExchangeReadEffect DEF CallAt, Is, SeatPCs, WordPCs
    <3> QED BY <2>1, <3>1 DEF Is, Attached
  <2>3. CASE Is(t, "start")
    <3>1. t \in inited' /\ pc'[t] # "raise"
      BY <1>25, <2>1, <2>3, ExchangeReadEffect DEF CallAt, Is, SeatPCs, WordPCs
    <3> QED BY <2>1, <2>3, <3>1 DEF Is, Attached
  <2>4. CASE Is(t, "final")
    <3>1. Is(t, "final")' /\ pc'[t] # "unpoint"
      BY <1>25, <2>1, <2>4, ExchangeReadEffect DEF CallAt, Is, SeatPCs, WordPCs
    <3> QED BY <2>1, <3>1 DEF Is
  <2>5. Is(t, "init") \/ Is(t, "start") \/ Is(t, "final")
    BY <2>1 DEF CallAt, Located, Calls, Is
  <2> QED BY <2>2, <2>3, <2>4, <2>5
<1>26. CASE Exchange(t)
  <2>1. /\ pc[t] \in {"start", "copy", "xread", "xswap"} /\ users' = users /\ SameOp(t)
        /\ spoiled' = spoiled /\ inited' = inited
    BY <1>26, ExchangeEffect
  <2>2. CASE Is(t, "init")
    <3>1. Is(t, "init")' /\ pc'[t] \in SeatPCs
      BY <1>26, <2>1, <2>2, ExchangeEffect DEF CallAt, Is, SeatPCs, WordPCs, After
    <3> QED BY <2>1, <3>1 DEF Is, Attached
  <2>3. CASE Is(t, "start")
    <3>1. t \in inited' /\ pc'[t] # "raise"
      BY <1>26, <2>1, <2>3, ExchangeEffect DEF CallAt, Is, SeatPCs, WordPCs, After
    <3> QED BY <2>1, <2>3, <3>1 DEF Is, Attached
  <2>4. CASE Is(t, "final")
    <3>1. Is(t, "final")' /\ pc'[t] # "unpoint"
      BY <1>26, <2>1, <2>4, ExchangeEffect DEF CallAt, Is, SeatPCs, WordPCs, After
    <3> QED BY <2>1, <3>1 DEF Is
  <2>5. Is(t, "init") \/ Is(t, "start") \/ Is(t, "final")
    BY <2>1 DEF CallAt, Located, Calls, Is
  <2> QED BY <2>2, <2>3, <2>4, <2>5
<1>27. CASE Uncount(t)
  <2>1. Is(t, "final")' /\ pc'[t] # "unpoint" /\ spoiled' = spoiled
    BY <1>27, UncountEffect, ReadyLocated, PointerThere DEF Is, FinalPCs
  <2> QED BY <2>1 DEF Is
<1>28. CASE Any(t)
  <2>1. Is(t, "final")' /\ pc'[t] # "unpoint" /\ spoiled' = spoiled
    BY <1>28, AnyEffect, ReadyLocated, PointerThere DEF Is, FinalPCs
  <2> QED BY <2>1 DEF Is
<1>29. CASE Detach(t)
  <2>1. Is(t, "final")
    BY <1>29, DetachEffect, ReadyLocated, WhichCall
  <2>2. Is(t, "final")' /\ pc'[t] # "unpoint" /\ spoiled' = spoiled
    BY <1>29, <2>1, DetachEffect DEF Is
  <2> QED BY <2>2 DEF Is
<1>30. CASE Delete(t)
  <2>1. Is(t, "final")' /\ pc'[t] # "unpoint" /\ spoiled' = spoiled
    BY <1>30, DeleteEffect, ReadyLocated, PointerThere DEF Is, FinalPCs
  <2> QED BY <2>1 DEF Is
<1>31. CASE Leave(t)
  <2>1. t \notin users' /\ Is(t, "final")' /\ spoiled' = spoiled
    BY <1>31, LeaveEffect, ReadyLocated, PointerThere DEF Is, FinalPCs
  <2> QED BY <2>1 DEF Is
<1>32. CASE Unpoint(t)
  <2>1. pc[t] = "unpoint" /\ Is(t, "final")
    BY <1>32, UnpointEffect, ReadyLocated, PointerThere DEF FinalPCs
  <2>2. t \notin users
    BY <2>1 DEF Attached, CallAt, Is, WordPCs
  <2> QED BY <1>32, <2>1, <2>2, UnpointEffect DEF Is, NoCall
<1>33. CASE Others(t)
  <2>1. Is(t, "signal")
    BY <1>33, OthersEffect, ReadyLocated, PointerThere
  <2> QED BY <2>1
<1> HIDE DEF RoomyMove, UserAt, SameOp, SameAt, SameStep, SameMem, SameWords, SameLast
<1> QED BY <1>2, <1>3, <1>4, <1>5, <1>6, <1>7, <1>8, <1>9, <1>10, <1>11, <1>12, <1>13,
           <1>14, <1>15, <1>16, <1>17, <1>18, <1>19, <1>20, <1>21, <1>22, <1>23, <1>24,
           <1>25, <1>26, <1>27, <1>28, <1>29, <1>30, <1>31, <1>32, <1>33
        DEF Step, InitStep, WordStep, FinalStep

\* Every step keeps it so.
LEMMA RoomyNext ==
  ASSUME Roomy, Phases, IInv, PointerNull, RoomyInv, [Next]_vars
  PROVE  RoomyInv'
<1>1. Ready /\ TypeInv /\ CallInv /\ MemInv
  BY DEF Ready, IInv, NodeInvariant
<1>2. CASE UNCHANGED vars
  BY <1>2 DEF vars, memVars, tls, histVars, RoomyInv, UserAt, Attached, Is
<1>3. CASE Next
  <2>1. PICK t \in Threads : Step(t) \/ Raise(t)
    BY <1>3 DEF Next, Step, SignalStep
  <2>2. ~Raise(t)
    BY <1>1, PointerThere DEF Raise, RoomyInv
  <2>3. RoomyMove(t) /\ crashed' = crashed
    BY <1>1, <2>1, <2>2, RoomyOwn, ThreadFrame
  <2>4. ASSUME NEW u \in Threads
        PROVE  ~Is(u, "signal")' /\ UserAt(u)'
    <3>1. CASE u = t
      BY <2>3, <3>1 DEF RoomyMove
    <3>2. CASE u # t
      <4>1. /\ pc'[u] = pc[u] /\ call'[u] = call[u]
            /\ u \in inited' <=> u \in inited
            /\ u \in users' <=> u \in users
        BY <1>1, <2>1, <2>2, <3>2, ThreadFrame
      <4> QED BY <4>1 DEF RoomyInv, UserAt, Attached, Is
    <3> QED BY <3>1, <3>2
  <2> QED BY <2>3, <2>4 DEF RoomyInv, RoomyMove
<1> QED BY <1>2, <1>3

\* No refused initialize has left a pointer.
LEMMA RoomyCreates == IInv /\ RoomyInv => PointerNull
BY PointerIsNull DEF RoomyInv, Unspoiled

\* Initially nothing is counted.
LEMMA RoomyInit == Init => RoomyInv
BY DEF Init, RoomyInv, UserAt, Is, NoCall

\* Where the nodes have numbers of their own and the table a slot for each, the
\* node that creates the memory always finds its pointer null.
THEOREM RoomyCorrect == Phases /\ Roomy => (Spec => [](IInv /\ RoomyInv /\ PointerNull))
<1> SUFFICES ASSUME Phases, Roomy PROVE Spec => [](IInv /\ RoomyInv /\ PointerNull)
  OBVIOUS
<1> DEFINE Inv == IInv /\ RoomyInv
<1>1. Init => Inv
  BY RoomyInit, InitInvariant
<1>2. Inv /\ [Next]_vars => Inv'
  BY RoomyCreates, RoomyNext, NextInvariant, Stutters
<1>3. Inv => IInv /\ RoomyInv /\ PointerNull
  BY RoomyCreates
<1> HIDE DEF Inv
<1> QED BY <1>1, <1>2, <1>3, PTL DEF Spec

\* Where an initialize that is refused before it is attached returns.
LEMMA RefusalSite ==
  ASSUME Roomy, Ready, RoomyInv, spoiled' = {}, NEW t \in Threads, Step(t)
  PROVE  (Is(t, "init") /\ pc'[t] = "idle" /\ t \notin inited') => (pc[t] = "create" /\ mem # NoMem)
<1> SUFFICES ASSUME Is(t, "init"), pc'[t] = "idle", t \notin inited'
             PROVE  pc[t] = "create" /\ mem # NoMem
  OBVIOUS
<1>1. CallAt(t) /\ Located(t)
  BY ReadyLocated
<1>2. ASSUME NEW start \in BOOLEAN, CallInitialize(t, start)
      PROVE  pc[t] = "create" /\ mem # NoMem
  BY <1>2, CallInitializeEffect
<1>3. CASE CallStart(t)
  BY <1>3, CallStartEffect
<1>4. CASE CallFinalize(t)
  BY <1>4, CallFinalizeEffect
<1>5. CASE CallSignal(t)
  BY <1>5, CallSignalEffect
<1>6. CASE Restart(t)
  <2>1. pc[t] = "dead"
    BY <1>6, RestartEffect
  <2> QED BY <2>1, ReadyLocated, WhichCall DEF Is
<1>7. CASE MrapiInitialize(t)
  <2>1. t \notin mrapi /\ \E u \in mrapi : Num[u] = Num[t]
    BY <1>7, MrapiInitializeEffect
  <2>2. mrapi \subseteq Threads
    BY DEF Ready, NodeInvariant, TypeInv, MemType
  <2> QED BY <2>1, <2>2 DEF Roomy
<1>8. CASE Find(t)
  BY <1>8, FindEffect
<1>9. CASE AttachFound(t)
  BY <1>9, AttachFoundEffect
<1>10. CASE Point(t)
  BY <1>10, PointEffect
<1>11. CASE Create(t)
  BY <1>11, CreateEffect
<1>12. CASE AttachCreated(t)
  <2>1. spoiled' = spoiled \cup {Proc[t]}
    BY <1>12, AttachCreatedEffect
  <2> QED BY <2>1
<1>13. CASE Place(t)
  BY <1>13, PlaceEffect
<1>14. CASE Wipe(t)
  BY <1>14, WipeEffect
<1>15. CASE DomainFind(t)
  BY <1>15, DomainFindEffect
<1>16. CASE DomainClaim(t)
  BY <1>16, DomainClaimEffect
<1>17. CASE Scan(t)
  <2>1. spoiled' = spoiled \cup {Proc[t]}
    BY <1>17, ScanEffect
  <2> QED BY <2>1
<1>18. CASE SlotRead(t)
  BY <1>18, SlotReadEffect
<1>19. CASE SlotClaim(t)
  <2>1. spoiled' = spoiled \cup {Proc[t]}
    BY <1>19, SlotClaimEffect
  <2> QED BY <2>1
<1>20. CASE Own(t)
  BY <1>20, OwnEffect
<1>21. CASE Count(t)
  BY <1>21, CountEffect
<1>22. CASE StartNow(t)
  BY <1>22, StartNowEffect
<1>23. CASE Done(t)
  BY <1>23, DoneEffect
<1>24. CASE Copy(t)
  BY <1>24, CopyEffect
<1>25. CASE ExchangeRead(t)
  BY <1>25, ExchangeReadEffect
<1>26. CASE Exchange(t)
  <2>1. pc[t] = "xswap" /\ pc'[t] = After(t)
    BY <1>26, ExchangeEffect
  <2>2. call[t].step \in {"invalid", "run", "start"}
    BY <2>1, <1>1 DEF CallAt, WordPCs
  <2> QED BY <2>1, <2>2 DEF After
<1>27. CASE Uncount(t)
  BY <1>27, UncountEffect
<1>28. CASE Any(t)
  BY <1>28, AnyEffect
<1>29. CASE Detach(t)
  BY <1>29, DetachEffect
<1>30. CASE Delete(t)
  BY <1>30, DeleteEffect
<1>31. CASE Leave(t)
  BY <1>31, LeaveEffect
<1>32. CASE Unpoint(t)
  <2>1. pc[t] = "unpoint"
    BY <1>32, UnpointEffect
  <2> QED BY <2>1, ReadyLocated, PointerThere DEF Is, FinalPCs
<1>33. CASE Others(t)
  BY <1>33, OthersEffect
<1> QED BY <1>2, <1>3, <1>4, <1>5, <1>6, <1>7, <1>8, <1>9, <1>10, <1>11, <1>12, <1>13,
           <1>14, <1>15, <1>16, <1>17, <1>18, <1>19, <1>20, <1>21, <1>22, <1>23, <1>24,
           <1>25, <1>26, <1>27, <1>28, <1>29, <1>30, <1>31, <1>32, <1>33
        DEF Step, InitStep, WordStep, FinalStep

\* Then an initialize is refused for one reason only: the memory is removed, by a
\* finalize that has left its entry.
Accepted(t) == Refused(t) => pc[t] = "create" /\ mem \in gone

\* Every reason but that is out of question.
LEMMA AcceptedNext ==
  ASSUME Roomy, Phases, IInv, RoomyInv, PointerNull, [Next]_vars, NEW t \in Threads
  PROVE  Accepted(t)
<1> SUFFICES ASSUME Refused(t)
             PROVE  pc[t] = "create" /\ mem \in gone
  BY DEF Accepted
<1>1. Ready /\ TypeInv /\ CallInv /\ MemInv /\ mrapi \subseteq Threads
  BY DEF Ready, IInv, NodeInvariant, TypeInv, MemType
<1>2. Is(t, "init") /\ pc'[t] = "idle" /\ t \notin inited'
  BY DEF Refused, Is
<1>3. pc[t] # "idle"
  BY <1>1, <1>2, WhichCall DEF Is
<1>4. ~UNCHANGED vars
  BY <1>2, <1>3 DEF vars
<1>5. PICK u \in Threads : Step(u)
  <2>1. PICK u \in Threads : Step(u) \/ Raise(u)
    BY <1>4 DEF Next, Step, SignalStep
  <2>2. ~Raise(u)
    BY <1>1, PointerThere DEF Raise, RoomyInv
  <2> QED BY <2>1, <2>2
<1>6. Step(t)
  BY <1>1, <1>2, <1>3, <1>5, ThreadFrame
<1>7. spoiled' = spoiled
  BY <1>1, <1>6, RoomyOwn DEF RoomyMove, RoomyInv
<1>8. pc[t] = "create" /\ mem # NoMem
  BY <1>1, <1>2, <1>3, <1>6, <1>7, RefusalSite DEF RoomyInv
<1>9. t \notin users
  BY <1>2, <1>8, <1>1, ReadyLocated DEF RoomyInv, UserAt, Attached, Is, CallAt, HeldPCs, TablePCs,
     SeatPCs, WordPCs
<1> QED BY <1>1, <1>8, <1>9, ReadyLocated DEF MemAt

\* So with numbers of their own and room for all every node keeps a slot of its own
\* in the one memory there is, the slots are accounted for and the last node frees
\* the memory.
THEOREM RoomySafe ==
  Phases /\ Roomy =>
    (Spec => [](NoFault /\ NodeHasItsSlot /\ SameDatabase /\ SlotsAccounted /\ FreedByLast))
<1> DEFINE Safe == NoFault /\ NodeHasItsSlot /\ SameDatabase /\ SlotsAccounted /\ FreedByLast
<1> SUFFICES ASSUME Phases, Roomy PROVE Spec => []Safe
  OBVIOUS
<1>1. IInv /\ PointerNull => Safe
  BY NoFaultKept, NodeHasItsSlotKept, SameDatabaseKept, SlotsAccountedKept, FreedByLastKept
<1>2. Spec => [](IInv /\ RoomyInv /\ PointerNull)
  BY RoomyCorrect
<1> HIDE DEF Safe
<1> QED BY <1>1, <1>2, PTL

\* A node whose number is its own, and for which a slot is free, is refused by
\* mcapi_initialize only where a finalize has removed the memory and left its entry.
THEOREM RoomyAccepted == Phases /\ Roomy => (Spec => [][\A t \in Threads : Accepted(t)]_vars)
<1> SUFFICES ASSUME Phases, Roomy PROVE Spec => [][\A t \in Threads : Accepted(t)]_vars
  OBVIOUS
<1>1. IInv /\ RoomyInv /\ PointerNull /\ [Next]_vars => [\A t \in Threads : Accepted(t)]_vars
  BY AcceptedNext
<1> QED BY <1>1, RoomyCorrect, PTL DEF Spec
=============================================================================
