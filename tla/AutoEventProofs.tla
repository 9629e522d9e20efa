--------------------------- MODULE AutoEventProofs ---------------------------
(***************************************************************************)
(* Proofs about AutoEvent, for any device objects and any finite pool: the *)
(* references to an ai are counted exactly, no schedule outlives its ai,   *)
(* nothing is left when the pool is idle, and only readings that were sent *)
(* are remembered.                                                         *)
(***************************************************************************)
EXTENDS AutoEvent, FiniteSetTheorems, TLAPS

-----------------------------------------------------------------------------
(* The inductive invariant.                                                *)

Jobs == [job : {"start", "stop", "run"}, ai : Ais]

AiRec == [state : {"unused", "live", "freed"}, refs : Int,
          last : Readings \cup {NULL}, handle : BOOLEAN]

\* Where a thread has a reference to a device, and where only to an ai.
WithDevice == {"get", "push", "store", "putdev"}
Alone == {"start", "started", "stop", "run", "lookup", "release"}

WorkerOK(r) ==
  /\ r = [pc |-> r.pc, ai |-> r.ai, dev |-> r.dev, val |-> r.val]
  /\ r = Idle \/ (r.ai \in Ais /\ r.pc \in WithDevice \cup Alone)
  /\ r.dev \in (IF r.pc \in WithDevice THEN Ais ELSE {NULL})
  /\ r.val \in Readings \cup {NULL}

Typed ==
  /\ ai \in [Ais -> AiRec] /\ current \in Ais \cup {NULL} /\ held \subseteq Ais
  /\ sched \subseteq Ais /\ queue \in Seq(Jobs)
  /\ worker = [w \in Workers |-> worker[w]] /\ \A w \in Workers : WorkerOK(worker[w])
  /\ sent = [a \in Ais |-> sent[a]]
  /\ stage \in DOMAIN Rank /\ managed \in BOOLEAN

\* Nothing refers to an object that has not been made.
Fresh(a) ==
  /\ current # a /\ a \notin held /\ a \notin sched
  /\ \A i \in DOMAIN queue : queue[i].ai # a
  /\ \A w \in Workers : worker[w].ai # a /\ worker[w].dev # a

\* ai->refs, as it should be, and 0 once the ai is freed.
Pins(a) == Cardinality(Users(a)) + Cardinality(StopsQueued(a))
             + (IF Refs(a) > 0 THEN 1 ELSE 0)

Counted(a) ==
  IF ai[a].state = "unused" THEN Fresh(a)
  ELSE ai[a].refs = Pins(a) /\ (ai[a].state = "live" <=> ai[a].refs # 0)

\* Somebody is still to stop what is scheduled for a: those who refer to the
\* object, a stopper in the queue, or one that has been taken from it.
Stoppers(a) == {w \in Workers : worker[w].ai = a /\ worker[w].pc = "stop"}
Owned(a) == Refs(a) > 0 \/ StopsQueued(a) # {} \/ Stoppers(a) # {}

\* What is or will be remembered has been sent.
Recalled ==
  /\ \A a \in Ais : ai[a].last \in sent[a] \cup {NULL}
  /\ \A w \in Workers : worker[w].pc = "store" => worker[w].val \in sent[worker[w].ai]

IInv == /\ Typed /\ Recalled
        /\ \A a \in Ais : Counted(a)
        /\ \A a \in sched : Owned(a)
        /\ managed => sched = {}

-----------------------------------------------------------------------------
(* Counting.                                                               *)

LEMMA Clearing ==
  ASSUME stage \in DOMAIN Rank
  PROVE  /\ Before("clearing") <=> stage \in {"up", "scheduler", "daemon"}
         /\ Before("daemon") => stage \in {"up", "scheduler"}
         /\ DOMAIN Rank = {"up", "scheduler", "daemon", "clearing", "cleared", "freed", "done"}
BY DEF Before, Rank

\* Cardinality of a set of threads that w is put into, or taken out of.
LEMMA CountThreads ==
  ASSUME NEW S \in SUBSET Workers, NEW w \in Workers
  PROVE  /\ Cardinality(S) \in Nat /\ (Cardinality(S) = 0 <=> S = {})
         /\ Cardinality(S \cup {w}) = IF w \in S THEN Cardinality(S) ELSE Cardinality(S) + 1
         /\ Cardinality(S \ {w}) = IF w \in S THEN Cardinality(S) - 1 ELSE Cardinality(S)
<1>1. IsFiniteSet(S)
  BY AutoEventAssumption, FS_Subset
<1> QED
  BY Zenon, <1>1, FS_CardinalityType, FS_EmptySet, FS_AddElement, FS_RemoveElement

\* The stoppers of a in a queue.
StopsIn(q, a) == {i \in DOMAIN q : q[i] = Job("stop", a)}

LEMMA StopsFinite ==
  ASSUME NEW q \in Seq(Jobs), NEW a
  PROVE  /\ IsFiniteSet(StopsIn(q, a)) /\ Cardinality(StopsIn(q, a)) \in Nat
         /\ Cardinality(StopsIn(q, a)) = 0 <=> StopsIn(q, a) = {}
<1>1. Len(q) \in Nat /\ DOMAIN q = 1..Len(q)
  OBVIOUS
<1>2. IsFiniteSet(1..Len(q))
  BY <1>1, FS_Interval
<1>3. StopsIn(q, a) \subseteq 1..Len(q)
  BY <1>1 DEF StopsIn
<1>4. IsFiniteSet(StopsIn(q, a))
  BY <1>2, <1>3, FS_Subset
<1> QED
  BY <1>4, FS_CardinalityType, FS_EmptySet

LEMMA StopsAppend ==
  ASSUME NEW q \in Seq(Jobs), NEW j \in Jobs, NEW a
  PROVE  /\ Append(q, j) \in Seq(Jobs)
         /\ Cardinality(StopsIn(Append(q, j), a))
              = Cardinality(StopsIn(q, a)) + (IF j = Job("stop", a) THEN 1 ELSE 0)
         /\ \A i \in DOMAIN Append(q, j) : Append(q, j)[i] = j \/ \E k \in DOMAIN q : Append(q, j)[i] = q[k]
<1>1. /\ Append(q, j) \in Seq(Jobs) /\ Len(q) \in Nat /\ DOMAIN q = 1..Len(q)
      /\ DOMAIN Append(q, j) = 1..(Len(q) + 1) /\ Append(q, j)[Len(q) + 1] = j
      /\ \A i \in 1..Len(q) : Append(q, j)[i] = q[i]
  OBVIOUS
<1>2. StopsIn(Append(q, j), a)
        = IF j = Job("stop", a) THEN StopsIn(q, a) \cup {Len(q) + 1} ELSE StopsIn(q, a)
  BY <1>1 DEF StopsIn
<1>3. Len(q) + 1 \notin StopsIn(q, a)
  BY <1>1 DEF StopsIn
<1>4. Cardinality(StopsIn(q, a) \cup {Len(q) + 1}) = Cardinality(StopsIn(q, a)) + 1
  BY Zenon, <1>3, StopsFinite, FS_AddElement
<1>5. \A i \in DOMAIN Append(q, j) : Append(q, j)[i] = j \/ \E k \in DOMAIN q : Append(q, j)[i] = q[k]
  <2> SUFFICES ASSUME NEW i \in 1..(Len(q) + 1)
               PROVE  Append(q, j)[i] = j \/ \E k \in 1..Len(q) : Append(q, j)[i] = q[k]
    BY <1>1
  <2>1. i = Len(q) + 1 \/ i \in 1..Len(q)
    BY <1>1
  <2> QED
    BY <1>1, <2>1
<1> QED
  BY <1>1, <1>2, <1>4, <1>5, StopsFinite

LEMMA StopsTail ==
  ASSUME NEW q \in Seq(Jobs), q # <<>>, NEW a
  PROVE  /\ Tail(q) \in Seq(Jobs) /\ Head(q) \in Jobs
         /\ Cardinality(StopsIn(Tail(q), a))
              = Cardinality(StopsIn(q, a)) - (IF Head(q) = Job("stop", a) THEN 1 ELSE 0)
         /\ \A i \in DOMAIN Tail(q) : \E k \in DOMAIN q : Tail(q)[i] = q[k]
         /\ \E k \in DOMAIN q : Head(q) = q[k]
<1>1. /\ Tail(q) \in Seq(Jobs) /\ Head(q) \in Jobs /\ Head(q) = q[1]
      /\ Len(q) \in Nat /\ Len(q) >= 1 /\ DOMAIN q = 1..Len(q) /\ DOMAIN Tail(q) = 1..(Len(q) - 1)
      /\ \A i \in 1..(Len(q) - 1) : Tail(q)[i] = q[i + 1]
  OBVIOUS
<1> DEFINE S == StopsIn(q, a) \ {1}
           T == StopsIn(Tail(q), a)
<1>2. \A i : i \in T <=> i \in 1..(Len(q) - 1) /\ i + 1 \in S
  BY <1>1 DEF StopsIn
<1>3. \A i \in S : i \in 2..Len(q)
  BY <1>1 DEF StopsIn
<1>4. IsFiniteSet(S) /\ IsFiniteSet(T)
  BY Zenon, <1>1, StopsFinite, FS_Subset
<1>5. Cardinality(S) = Cardinality(T)
  <2> DEFINE f == [i \in T |-> i + 1]
  <2>1. f \in [T -> S]
    BY <1>2
  <2>2. \A x, y \in T : f[x] = f[y] => x = y
    BY <1>2
  <2>3. \A s \in S : \E x \in T : f[x] = s
    <3> SUFFICES ASSUME NEW s \in S PROVE \E x \in T : f[x] = s
      OBVIOUS
    <3>1. s \in 2..Len(q) /\ s - 1 \in 1..(Len(q) - 1) /\ (s - 1) + 1 = s
      BY <1>1, <1>3
    <3>2. s - 1 \in T
      BY <1>2, <3>1
    <3> QED
      BY <3>1, <3>2
  <2>4. f \in Bijection(T, S)
    BY <2>1, <2>2, <2>3 DEF Bijection, Injection, Surjection, IsInjective
  <2>5. ExistsBijection(T, S)
    BY Zenon, <2>4 DEF ExistsBijection
  <2> HIDE DEF S, T
  <2> QED
    BY Zenon, <1>4, <2>5, FS_Bijection
<1>6. Cardinality(S) = Cardinality(StopsIn(q, a)) - (IF 1 \in StopsIn(q, a) THEN 1 ELSE 0)
  <2>1. IsFiniteSet(StopsIn(q, a)) /\ Cardinality(StopsIn(q, a)) \in Nat
    BY StopsFinite
  <2>2. Cardinality(S) = IF 1 \in StopsIn(q, a) THEN Cardinality(StopsIn(q, a)) - 1
                         ELSE Cardinality(StopsIn(q, a))
    BY Zenon, <2>1, FS_RemoveElement
  <2> QED
    BY <2>1, <2>2
<1>7. 1 \in StopsIn(q, a) <=> Head(q) = Job("stop", a)
  BY <1>1 DEF StopsIn
<1>8. \A i \in DOMAIN Tail(q) : \E k \in DOMAIN q : Tail(q)[i] = q[k]
  BY <1>1
<1> QED
  BY <1>1, <1>5, <1>6, <1>7, <1>8

\* A thread in this state has a reference to the ai of a.
InUse(r, a) == r.ai = a /\ r.pc \notin {"start", "started", "run"}
Holders(a) == {w \in Workers : worker[w].dev = a}

LEMMA Numbers ==
  ASSUME Typed, NEW a
  PROVE  /\ Cardinality(Users(a)) \in Nat /\ (Cardinality(Users(a)) = 0 <=> Users(a) = {})
         /\ Cardinality(Holders(a)) \in Nat /\ (Cardinality(Holders(a)) = 0 <=> Holders(a) = {})
         /\ Cardinality(StopsQueued(a)) \in Nat
         /\ Cardinality(StopsQueued(a)) = 0 <=> StopsQueued(a) = {}
         /\ StopsQueued(a) = StopsIn(queue, a)
         /\ Refs(a) \in Nat
         /\ Refs(a) = Cardinality(Holders(a)) + (IF a \in held THEN 1 ELSE 0)
                        + (IF current = a /\ Before("clearing") THEN 1 ELSE 0)
<1>1. IsFiniteSet(Users(a)) /\ IsFiniteSet(Holders(a))
  BY AutoEventAssumption, FS_Subset DEF Users, Holders
<1>2. Cardinality(Users(a)) \in Nat /\ (Cardinality(Users(a)) = 0 <=> Users(a) = {})
  BY <1>1, FS_CardinalityType, FS_EmptySet
<1>3. Cardinality(Holders(a)) \in Nat /\ (Cardinality(Holders(a)) = 0 <=> Holders(a) = {})
  BY <1>1, FS_CardinalityType, FS_EmptySet
<1>4. StopsQueued(a) = StopsIn(queue, a)
  BY DEF StopsQueued, StopsIn
<1>5. /\ Cardinality(StopsQueued(a)) \in Nat
      /\ Cardinality(StopsQueued(a)) = 0 <=> StopsQueued(a) = {}
  BY <1>4, StopsFinite DEF Typed
<1>6. Refs(a) = Cardinality(Holders(a)) + (IF a \in held THEN 1 ELSE 0)
                  + (IF current = a /\ Before("clearing") THEN 1 ELSE 0)
  BY DEF Refs, Holders
<1>7. Refs(a) \in Nat
  BY <1>3, <1>6
<1> QED
  BY <1>2, <1>3, <1>4, <1>5, <1>6, <1>7

\* What the counts become when the thread w goes into the state r.
LEMMA WorkerMoves ==
  ASSUME Typed, NEW w \in Workers, NEW r, worker' = [worker EXCEPT ![w] = r], NEW a
  PROVE  Cardinality(Users(a)') = Cardinality(Users(a))
           + (IF InUse(r, a) THEN 1 ELSE 0) - (IF InUse(worker[w], a) THEN 1 ELSE 0)
<1>1. \A x \in Workers : worker'[x] = IF x = w THEN r ELSE worker[x]
  BY DEF Typed
<1>2. /\ Users(a)' = IF InUse(r, a) THEN Users(a) \cup {w} ELSE Users(a) \ {w}
      /\ w \in Users(a) <=> InUse(worker[w], a)
      /\ Users(a) \in SUBSET Workers
  BY <1>1 DEF Users, InUse
<1>3. /\ Cardinality(Users(a)) \in Nat
      /\ Cardinality(Users(a) \cup {w})
           = IF w \in Users(a) THEN Cardinality(Users(a)) ELSE Cardinality(Users(a)) + 1
      /\ Cardinality(Users(a) \ {w})
           = IF w \in Users(a) THEN Cardinality(Users(a)) - 1 ELSE Cardinality(Users(a))
  BY Zenon, <1>2, CountThreads
<1> QED
  BY <1>2, <1>3

LEMMA HolderMoves ==
  ASSUME Typed, NEW w \in Workers, NEW r, worker' = [worker EXCEPT ![w] = r], NEW a
  PROVE  Cardinality(Holders(a)') = Cardinality(Holders(a))
           + (IF r.dev = a THEN 1 ELSE 0) - (IF worker[w].dev = a THEN 1 ELSE 0)
<1>1. \A x \in Workers : worker'[x] = IF x = w THEN r ELSE worker[x]
  BY DEF Typed
<1>2. /\ Holders(a)' = IF r.dev = a THEN Holders(a) \cup {w} ELSE Holders(a) \ {w}
      /\ w \in Holders(a) <=> worker[w].dev = a
      /\ Holders(a) \in SUBSET Workers
  BY <1>1 DEF Holders
<1>3. /\ Cardinality(Holders(a)) \in Nat
      /\ Cardinality(Holders(a) \cup {w})
           = IF w \in Holders(a) THEN Cardinality(Holders(a)) ELSE Cardinality(Holders(a)) + 1
      /\ Cardinality(Holders(a) \ {w})
           = IF w \in Holders(a) THEN Cardinality(Holders(a)) - 1 ELSE Cardinality(Holders(a))
  BY Zenon, <1>2, CountThreads
<1> QED
  BY <1>2, <1>3

-----------------------------------------------------------------------------
(* Steps of a thread that leave devices and jobs alone.                    *)

LEMMA InitIInv == Init => IInv
<1> SUFFICES ASSUME Init PROVE IInv
  OBVIOUS
<1> USE AutoEventAssumption
<1>1. WorkerOK(Idle)
  BY DEF WorkerOK, Idle, WithDevice
<1>2. Typed
  <2>1. Unused \in AiRec
    BY DEF Unused, AiRec
  <2>2. stage \in DOMAIN Rank
    BY DEF Init, Rank
  <2> QED
    BY <1>1, <2>1, <2>2 DEF Init, Typed, Jobs
<1>3. Recalled
  BY DEF Init, Recalled, Unused, Idle
<1>4. \A a \in Ais : Counted(a)
  BY DEF Init, Counted, Fresh, Unused, Idle
<1> QED
  BY <1>2, <1>3, <1>4 DEF IInv, Init

\* A thread that works on an ai works on one that has been made.
LEMMA Made ==
  ASSUME IInv, NEW w \in Workers, worker[w] # Idle
  PROVE  /\ worker[w].ai \in Ais /\ ai[worker[w].ai].state # "unused"
         /\ ai[worker[w].ai].refs = Pins(worker[w].ai)
         /\ ai[worker[w].ai].state = "live" <=> ai[worker[w].ai].refs # 0
<1>1. worker[w].ai \in Ais
  BY DEF IInv, Typed, WorkerOK
<1>2. Counted(worker[w].ai) /\ ~Fresh(worker[w].ai)
  BY <1>1 DEF IInv, Fresh
<1> QED
  BY <1>1, <1>2 DEF Counted

LEMMA LocalStep ==
  ASSUME IInv, NEW w \in Workers, worker[w] # Idle, NEW r, WorkerOK(r),
         r = Idle \/ r.ai = worker[w].ai, r.dev = worker[w].dev,
         worker' = [worker EXCEPT ![w] = r],
         UNCHANGED <<current, held, queue, stage, managed>>, sched' \subseteq sched,
         ai' \in [Ais -> AiRec], sent' = [a \in Ais |-> sent'[a]], Recalled',
         \A a \in Ais \ {worker[w].ai} : ai'[a].state = ai[a].state /\ ai'[a].refs = ai[a].refs,
         ai'[worker[w].ai].state # "unused",
         ai'[worker[w].ai].state = "live" <=> ai'[worker[w].ai].refs # 0,
         ai'[worker[w].ai].refs = ai[worker[w].ai].refs
           + (IF InUse(r, worker[w].ai) THEN 1 ELSE 0)
           - (IF InUse(worker[w], worker[w].ai) THEN 1 ELSE 0),
         worker[w].pc = "stop" => worker[w].ai \notin sched'
  PROVE  IInv'
<1>1. PICK b \in Ais : b = worker[w].ai /\ ai[b].state # "unused" /\ ai[b].refs = Pins(b)
  BY Made
<1>2. \A x \in Workers : worker'[x] = IF x = w THEN r ELSE worker[x]
  BY DEF IInv, Typed
<1>3. Typed'
  BY <1>2 DEF IInv, Typed
<1>4. Typed /\ NULL \notin Ais
  BY AutoEventAssumption DEF IInv
<1>5. \A a \in Ais : /\ StopsQueued(a)' = StopsQueued(a)
                     /\ Refs(a)' = Refs(a)
  <2> SUFFICES ASSUME NEW a \in Ais
               PROVE  StopsQueued(a)' = StopsQueued(a) /\ Refs(a)' = Refs(a)
    OBVIOUS
  <2>1. StopsQueued(a)' = StopsQueued(a)
    BY DEF StopsQueued
  <2>2. {x \in Workers : worker'[x].dev = a} = {x \in Workers : worker[x].dev = a}
    BY <1>2
  <2>3. Before("clearing")' <=> Before("clearing")
    BY DEF Before
  <2> QED
    BY ZenonT(60), <2>1, <2>2, <2>3 DEF Refs
<1>6. \A a \in Ais : /\ Cardinality(Users(a)) \in Nat /\ Cardinality(StopsQueued(a)) \in Nat
                     /\ Cardinality(Users(a))' = Cardinality(Users(a))
                          + (IF InUse(r, a) THEN 1 ELSE 0) - (IF InUse(worker[w], a) THEN 1 ELSE 0)
  BY ZenonT(60), <1>4, WorkerMoves, Numbers
<1>7. ASSUME NEW a \in Ais
      PROVE  Counted(a)'
  <2>1. CASE a = b
    <3>1. Pins(b)' = Pins(b) + (IF InUse(r, b) THEN 1 ELSE 0) - (IF InUse(worker[w], b) THEN 1 ELSE 0)
      BY SMTT(60), <1>5, <1>6 DEF Pins
    <3> QED
      BY SMTT(60), <1>1, <2>1, <3>1 DEF Counted
  <2>2. CASE a # b
    <3>1. ~InUse(r, a) /\ ~InUse(worker[w], a) /\ r.ai # a
      BY SMTT(60), <1>1, <1>4, <2>2 DEF InUse, Idle
    <3>2. Pins(a)' = Pins(a)
      BY SMTT(60), <1>5, <1>6, <3>1 DEF Pins
    <3>3. Fresh(a) => Fresh(a)'
      BY <1>2, <3>1 DEF Fresh
    <3> QED
      BY SMTT(60), <1>1, <2>2, <3>2, <3>3 DEF IInv, Counted
  <2> QED
    BY SMTT(60), <2>1, <2>2
<1>8. ASSUME NEW a \in sched'
      PROVE  Owned(a)'
  <2>1. a \in Ais /\ Owned(a)
    BY DEF IInv, Typed
  <2>2. Stoppers(a) \subseteq Stoppers(a)'
    BY <1>2, <1>8 DEF Stoppers
  <2> QED
    BY SMTT(60), <1>5, <2>1, <2>2 DEF Owned
<1> QED
  BY SMTT(60), <1>3, <1>7, <1>8 DEF IInv

\* The state of a thread that does a job for a.
ThreadAt(pc, a, d, v) == [pc |-> pc, ai |-> a, dev |-> d, val |-> v]

LEMMA Moves ==
  ASSUME Typed, NEW w \in Workers, NEW pc, NEW d, NEW v
  PROVE  /\ Goto(w, pc) => worker' = [worker EXCEPT ![w] =
                              ThreadAt(pc, worker[w].ai, worker[w].dev, worker[w].val)]
         /\ Become(w, pc, d, v) => worker' = [worker EXCEPT ![w] = ThreadAt(pc, worker[w].ai, d, v)]
<1>1. PICK r : r = worker[w] /\ WorkerOK(r)
  BY DEF Typed
<1>2. [r EXCEPT !.pc = pc] = ThreadAt(pc, r.ai, r.dev, r.val)
  BY <1>1 DEF WorkerOK, ThreadAt
<1>3. [r EXCEPT !.pc = pc, !.dev = d, !.val = v] = ThreadAt(pc, r.ai, d, v)
  <2>1. [ThreadAt(pc, r.ai, r.dev, r.val) EXCEPT !.dev = d] = ThreadAt(pc, r.ai, d, r.val)
    BY DEF ThreadAt
  <2>2. [ThreadAt(pc, r.ai, d, r.val) EXCEPT !.val = v] = ThreadAt(pc, r.ai, d, v)
    BY DEF ThreadAt
  <2> QED
    BY Zenon, <1>2, <2>1, <2>2
<1> QED
  BY <1>1, <1>2, <1>3 DEF Goto, Become, Typed

\* A thread that is not idle, and the fields of its state.
LEMMA Busy ==
  ASSUME IInv, NEW w \in Workers, NEW pc \in WithDevice \cup Alone, worker[w].pc = pc
  PROVE  /\ worker[w] # Idle /\ worker[w].ai \in Ais
         /\ worker[w].dev \in (IF pc \in WithDevice THEN Ais ELSE {NULL})
         /\ worker[w].val \in Readings \cup {NULL}
BY DEF IInv, Typed, WorkerOK, Idle, WithDevice, Alone

LEMMA MoveOK ==
  ASSUME NEW pc \in WithDevice \cup Alone, NEW a \in Ais, NEW v \in Readings \cup {NULL},
         NEW d \in (IF pc \in WithDevice THEN Ais ELSE {NULL})
  PROVE  /\ WorkerOK(ThreadAt(pc, a, d, v)) /\ ThreadAt(pc, a, d, v).ai = a /\ ThreadAt(pc, a, d, v).pc = pc
         /\ ThreadAt(pc, a, d, v).dev = d /\ ThreadAt(pc, a, d, v).val = v
         /\ \A b : InUse(ThreadAt(pc, a, d, v), b) <=> b = a /\ pc \notin {"start", "started", "run"}
BY DEF WorkerOK, ThreadAt, InUse

\* Steps that change neither the reference count nor what is remembered.
LEMMA GotoIInv ==
  ASSUME IInv, NEW w \in Workers, NEW pc \in WithDevice \cup Alone, worker[w].pc = pc,
         NEW new \in WithDevice \cup Alone, new # "store", pc \in WithDevice <=> new \in WithDevice,
         pc \in {"start", "started", "run"} <=> new \in {"start", "started", "run"},
         NEW v \in Readings \cup {NULL},
         worker' = [worker EXCEPT ![w] = ThreadAt(new, worker[w].ai, worker[w].dev, v)],
         UNCHANGED <<ai, current, held, queue, stage, sent, managed>>,
         sched' \subseteq sched, pc = "stop" => worker[w].ai \notin sched'
  PROVE  IInv'
<1>1. /\ worker[w] # Idle /\ worker[w].ai \in Ais
      /\ worker[w].dev \in (IF new \in WithDevice THEN Ais ELSE {NULL})
  BY Busy
<1>2. PICK r : r = ThreadAt(new, worker[w].ai, worker[w].dev, v)
  BY SMTT(60)
<1>3. /\ WorkerOK(r) /\ r.ai = worker[w].ai /\ r.dev = worker[w].dev /\ r.pc = new
      /\ InUse(r, worker[w].ai) <=> InUse(worker[w], worker[w].ai)
  BY SMTT(60), <1>1, <1>2, MoveOK DEF InUse
<1>4. /\ ai'[worker[w].ai].state # "unused"
      /\ ai'[worker[w].ai].state = "live" <=> ai'[worker[w].ai].refs # 0
      /\ ai'[worker[w].ai].refs = ai[worker[w].ai].refs
           + (IF InUse(r, worker[w].ai) THEN 1 ELSE 0)
           - (IF InUse(worker[w], worker[w].ai) THEN 1 ELSE 0)
  BY SMTT(60), <1>1, <1>3, Made DEF IInv, Typed, AiRec
<1>5. Recalled'
  <2>1. \A x \in Workers : worker'[x] = IF x = w THEN r ELSE worker[x]
    BY <1>2 DEF IInv, Typed
  <2> QED
    BY <1>3, <2>1 DEF IInv, Recalled
<1>6. /\ ai' \in [Ais -> AiRec] /\ sent' = [a \in Ais |-> sent'[a]]
      /\ \A a \in Ais \ {worker[w].ai} : ai'[a].state = ai[a].state /\ ai'[a].refs = ai[a].refs
      /\ UNCHANGED <<current, held, queue, stage, managed>>
      /\ worker' = [worker EXCEPT ![w] = r]
      /\ worker[w].pc = "stop" => worker[w].ai \notin sched'
      /\ r = Idle \/ r.ai = worker[w].ai
  BY <1>2, <1>3 DEF IInv, Typed
<1> QED
  BY ZenonT(60), <1>1, <1>3, <1>4, <1>5, <1>6, LocalStep

\* A step that changes the ai of the thread, or ends the job.
LEMMA OwnStep ==
  ASSUME IInv, NEW w \in Workers, worker[w] # Idle, worker[w].pc # "stop",
         NEW r, WorkerOK(r), r = Idle \/ r.ai = worker[w].ai, r.dev = worker[w].dev,
         worker' = [worker EXCEPT ![w] = r],
         UNCHANGED <<current, held, queue, sched, stage, sent, managed>>,
         NEW i \in AiRec, ai' = [ai EXCEPT ![worker[w].ai] = i],
         i.state # "unused", i.state = "live" <=> i.refs # 0,
         i.refs = ai[worker[w].ai].refs + (IF InUse(r, worker[w].ai) THEN 1 ELSE 0)
                    - (IF InUse(worker[w], worker[w].ai) THEN 1 ELSE 0),
         r.pc # "store", i.last \in sent[worker[w].ai] \cup {NULL}
  PROVE  IInv'
<1>1. worker[w].ai \in Ais
  BY Made
<1>2. \A a \in Ais : ai'[a] = IF a = worker[w].ai THEN i ELSE ai[a]
  BY <1>1 DEF IInv, Typed
<1>3. \A x \in Workers : worker'[x] = IF x = w THEN r ELSE worker[x]
  BY SMTT(60) DEF IInv, Typed
<1>4. Recalled'
  BY SMTT(60), <1>1, <1>2, <1>3 DEF IInv, Recalled
<1>5. ai' \in [Ais -> AiRec] /\ sent' = [a \in Ais |-> sent'[a]]
  BY <1>1 DEF IInv, Typed
<1> QED
  BY ZenonT(60), <1>1, <1>2, <1>4, <1>5, LocalStep

LEMMA SetHandle ==
  ASSUME NEW o \in AiRec, NEW x \in BOOLEAN, NEW i, i = [o EXCEPT !.handle = x]
  PROVE  i \in AiRec /\ i.state = o.state /\ i.refs = o.refs /\ i.last = o.last
BY DEF AiRec

LEMMA SetRefs ==
  ASSUME NEW o \in AiRec, NEW x \in Int, NEW i, i = [o EXCEPT !.refs = x]
  PROVE  i \in AiRec /\ i.state = o.state /\ i.refs = x /\ i.last = o.last
BY DEF AiRec

LEMMA SetLast ==
  ASSUME NEW o \in AiRec, NEW x \in Readings \cup {NULL}, NEW i, i = [o EXCEPT !.last = x]
  PROVE  i \in AiRec /\ i.state = o.state /\ i.refs = o.refs /\ i.last = x
BY DEF AiRec

LEMMA SetState ==
  ASSUME NEW o \in AiRec, NEW x \in {"unused", "live", "freed"}, NEW i, i = [o EXCEPT !.state = x]
  PROVE  i \in AiRec /\ i.state = x /\ i.refs = o.refs /\ i.last = o.last
BY DEF AiRec

LEMMA UnusedOK == Unused \in AiRec /\ Unused.refs = 0 /\ Unused.last = NULL
<1>1. Unused \in AiRec
  BY DEF Unused, AiRec
<1>2. Unused.refs = 0 /\ Unused.last = NULL
  BY DEF Unused
<1> QED
  BY <1>1, <1>2

\* Idle is the state of a thread without a job.
LEMMA IdleOK ==
  /\ WorkerOK(Idle) /\ Idle.dev = NULL /\ Idle.pc # "store"
  /\ \A a \in Ais : ~InUse(Idle, a) /\ Idle.ai # a /\ Idle.dev # a
BY AutoEventAssumption DEF WorkerOK, Idle, WithDevice, InUse

LEMMA StarterIInv ==
  ASSUME IInv, NEW w \in Workers, StarterCall(w) \/ StarterStore(w)
  PROVE  IInv'
<1>1. CASE StarterCall(w)
  BY SMTT(30), <1>1, Moves, GotoIInv, Busy DEF StarterCall, At, WithDevice, Alone, IInv, env
<1>2. CASE StarterStore(w)
  <2>1. worker[w].pc = "started" /\ worker[w] # Idle /\ worker[w].ai \in Ais /\ worker[w].dev = NULL
    BY <1>2, Busy DEF StarterStore, At, WithDevice, Alone
  <2>2. PICK o \in AiRec : o = ai[worker[w].ai]
    BY <2>1 DEF IInv, Typed
  <2>3. PICK h \in BOOLEAN : ai' = [ai EXCEPT ![worker[w].ai] = [o EXCEPT !.handle = h]]
    BY Zenon, <1>2, <2>2 DEF StarterStore
  <2>4. PICK i : i = [o EXCEPT !.handle = h]
    BY Zenon
  <2>5. i \in AiRec /\ i.state = o.state /\ i.refs = o.refs /\ i.last = o.last
    BY SMTT(60), <2>4, SetHandle
  <2>6. i.last \in sent[worker[w].ai] \cup {NULL}
    BY SMTT(60), <2>1, <2>2, <2>5 DEF IInv, Recalled
  <2>7. i.state # "unused" /\ (i.state = "live" <=> i.refs # 0)
    BY SMTT(60), <2>1, <2>2, <2>5, Made
  <2>8. i.refs = ai[worker[w].ai].refs + (IF InUse(Idle, worker[w].ai) THEN 1 ELSE 0)
                   - (IF InUse(worker[w], worker[w].ai) THEN 1 ELSE 0)
    BY <2>1, <2>2, <2>5, IdleOK DEF InUse, AiRec
  <2>9. PICK r : r = Idle
    OBVIOUS
  <2>10. /\ UNCHANGED <<current, held, queue, sched, stage, sent, managed>>
         /\ worker' = [worker EXCEPT ![w] = r] /\ ai' = [ai EXCEPT ![worker[w].ai] = i]
         /\ WorkerOK(r) /\ r.dev = worker[w].dev /\ r.pc # "store" /\ worker[w].pc # "stop"
    BY ZenonT(60), <1>2, <2>1, <2>3, <2>4, <2>9, IdleOK DEF StarterStore, env
  <2> QED
    BY Zenon, <2>1, <2>5, <2>6, <2>7, <2>8, <2>9, <2>10, OwnStep
<1> QED
  BY SMTT(60), <1>1, <1>2

LEMMA StopperIInv ==
  ASSUME IInv, NEW w \in Workers, StopperCall(w)
  PROVE  IInv'
<1>1. sched' \subseteq sched /\ worker[w].ai \notin sched'
  BY DEF StopperCall, IInv
<1> QED
  BY SMTT(60), <1>1, Moves, GotoIInv, Busy DEF StopperCall, At, WithDevice, Alone, IInv, env

LEMMA ReleaseIInv ==
  ASSUME IInv, NEW w \in Workers, Release(w)
  PROVE  IInv'
<1>1. /\ worker[w].pc = "release" /\ worker[w] # Idle /\ worker[w].ai \in Ais
      /\ worker[w].dev = NULL /\ ai[worker[w].ai].state = "live"
  BY Busy DEF Release, At, Live, WithDevice, Alone
<1>2. PICK o \in AiRec : o = ai[worker[w].ai]
  BY <1>1 DEF IInv, Typed
<1>3. PICK i : i = IF o.refs = 1 THEN [Unused EXCEPT !.state = "freed"]
                   ELSE [o EXCEPT !.refs = o.refs - 1]
  BY Zenon
<1>4. ai' = [ai EXCEPT ![worker[w].ai] = i]
  BY <1>2, <1>3 DEF Release, Unref
<1>6. /\ i \in AiRec /\ i.refs = o.refs - 1 /\ i.state = (IF o.refs = 1 THEN "freed" ELSE "live")
      /\ i.last \in {o.last, NULL} /\ o.refs \in Int
  <2>1. o.refs \in Int /\ o.refs - 1 \in Int /\ o.state = "live"
    BY <1>1, <1>2 DEF AiRec
  <2>2. CASE o.refs = 1
    BY <1>3, <2>1, <2>2, SetState, UnusedOK
  <2>3. CASE o.refs # 1
    BY SMTT(60), <1>3, <2>1, <2>3, SetRefs
  <2> QED
    BY <2>2, <2>3
<1>7. i.last \in sent[worker[w].ai] \cup {NULL}
  BY <1>1, <1>2, <1>6 DEF IInv, Recalled
<1>8. i.state # "unused" /\ (i.state = "live" <=> i.refs # 0)
  BY SMTT(60), <1>6
<1>9. i.refs = ai[worker[w].ai].refs + (IF InUse(Idle, worker[w].ai) THEN 1 ELSE 0)
                 - (IF InUse(worker[w], worker[w].ai) THEN 1 ELSE 0)
  BY <1>1, <1>2, <1>6, IdleOK DEF InUse
<1>10. PICK r : r = Idle
  OBVIOUS
<1>11. /\ UNCHANGED <<current, held, queue, sched, stage, sent, managed>>
       /\ worker' = [worker EXCEPT ![w] = r]
       /\ WorkerOK(r) /\ r.dev = worker[w].dev /\ r.pc # "store" /\ worker[w].pc # "stop"
  BY <1>1, <1>10, IdleOK DEF Release, env
<1> QED
  BY ZenonT(60), <1>1, <1>4, <1>6, <1>7, <1>8, <1>9, <1>10, <1>11, OwnStep

LEMMA BeginIInv ==
  ASSUME IInv, NEW w \in Workers, RunnerBegin(w)
  PROVE  IInv'
<1>1. /\ worker[w].pc = "run" /\ worker[w] # Idle /\ worker[w].ai \in Ais
      /\ worker[w].dev = NULL /\ ai[worker[w].ai].state = "live" /\ worker[w].val \in Readings \cup {NULL}
  BY Busy DEF RunnerBegin, At, Live, WithDevice, Alone
<1>2. PICK o \in AiRec : o = ai[worker[w].ai]
  BY <1>1 DEF IInv, Typed
<1>3. PICK i : i = [o EXCEPT !.refs = o.refs + 1]
  BY Zenon
<1>4. ai' = [ai EXCEPT ![worker[w].ai] = i]
  BY <1>1, <1>2, <1>3 DEF RunnerBegin, IInv, Typed
<1>5. o.refs \in Nat
  <2>1. o.refs = Pins(worker[w].ai)
    BY SMTT(60), <1>1, <1>2, Made
  <2>2. Pins(worker[w].ai) \in Nat
    BY Numbers DEF IInv, Pins
  <2> QED
    BY SMTT(60), <2>1, <2>2
<1>6. i \in AiRec /\ i.refs = o.refs + 1 /\ i.state = "live" /\ i.last = o.last
  <2>1. o.refs + 1 \in Int
    BY <1>5
  <2> QED
    BY <1>1, <1>2, <1>3, <2>1, SetRefs
<1>7. PICK r : r = ThreadAt("lookup", worker[w].ai, NULL, worker[w].val)
  OBVIOUS
<1>8. worker' = [worker EXCEPT ![w] = r]
  BY SMTT(60), <1>1, <1>7, Moves DEF RunnerBegin, IInv
<1>9. /\ WorkerOK(r) /\ r.dev = NULL /\ r.pc = "lookup" /\ InUse(r, worker[w].ai)
      /\ ~InUse(worker[w], worker[w].ai) /\ r.ai = worker[w].ai
  BY SMTT(60), <1>1, <1>7, MoveOK DEF WithDevice, Alone, InUse
<1>10. i.last \in sent[worker[w].ai] \cup {NULL}
  BY SMTT(60), <1>1, <1>2, <1>6 DEF IInv, Recalled
<1>11. /\ i.refs # 0 /\ i.state # "unused"
       /\ i.refs = ai[worker[w].ai].refs + (IF InUse(r, worker[w].ai) THEN 1 ELSE 0)
                     - (IF InUse(worker[w], worker[w].ai) THEN 1 ELSE 0)
  BY <1>2, <1>5, <1>6, <1>9
<1> QED
  BY ZenonT(60), <1>1, <1>4, <1>6, <1>8, <1>9, <1>10, <1>11, OwnStep DEF RunnerBegin, env

LEMMA GetIInv ==
  ASSUME IInv, NEW w \in Workers, RunnerGet(w)
  PROVE  IInv'
<1>1. worker[w].pc = "get" /\ worker[w].val \in Readings \cup {NULL} /\ Typed
  BY SMTT(60), Busy DEF RunnerGet, At, WithDevice, IInv
<1>2. PICK new \in {"putdev", "push"}, v \in Readings \cup {NULL} :
        worker' = [worker EXCEPT ![w] = ThreadAt(new, worker[w].ai, worker[w].dev, v)]
  BY SMTT(60), <1>1, Moves DEF RunnerGet
<1>3. UNCHANGED <<ai, current, held, queue, stage, sent, managed>> /\ sched' = sched
  BY DEF RunnerGet, env
<1> QED
  BY ZenonT(60), <1>1, <1>2, <1>3, GotoIInv DEF WithDevice, Alone

LEMMA PushIInv ==
  ASSUME IInv, NEW w \in Workers, RunnerPush(w)
  PROVE  IInv'
<1>1. /\ worker[w].pc = "push" /\ worker[w] # Idle /\ worker[w].ai \in Ais /\ worker[w].dev \in Ais
      /\ worker[w].val \in Readings \cup {NULL} /\ Typed
  BY Busy DEF RunnerPush, At, WithDevice, IInv
<1>2. UNCHANGED <<ai, current, held, queue, stage, managed, sched>>
  BY SMTT(60) DEF RunnerPush, env
<1>3. PICK new \in {"putdev", "store"} :
        /\ worker' = [worker EXCEPT ![w] = ThreadAt(new, worker[w].ai, worker[w].dev, worker[w].val)]
        /\ \/ UNCHANGED sent /\ new = "putdev"
           \/ sent' = [sent EXCEPT ![worker[w].ai] = @ \cup {worker[w].val}]
  BY SMTT(60), <1>1, Moves DEF RunnerPush
<1>4. PICK r : r = ThreadAt(new, worker[w].ai, worker[w].dev, worker[w].val)
  OBVIOUS
<1>5. /\ WorkerOK(r) /\ r.ai = worker[w].ai /\ r.dev = worker[w].dev /\ r.pc = new
      /\ r.val = worker[w].val /\ InUse(r, worker[w].ai) /\ InUse(worker[w], worker[w].ai)
  BY <1>1, <1>4 DEF InUse, WithDevice, WorkerOK, ThreadAt
<1>6. /\ sent' = [a \in Ais |-> sent'[a]] /\ \A a \in Ais : sent[a] \subseteq sent'[a]
      /\ new = "store" => worker[w].val \in sent'[worker[w].ai]
  BY ZenonT(40), <1>1, <1>3 DEF Typed
<1>7. Recalled'
  <2>1. \A x \in Workers : worker'[x] = IF x = w THEN r ELSE worker[x]
    BY <1>3, <1>4 DEF IInv, Typed
  <2>2. \A x \in Workers : worker[x].pc = "store" => worker[x].ai \in Ais
    BY Busy DEF WithDevice
  <2> QED
    BY <1>2, <1>5, <1>6, <2>1, <2>2 DEF IInv, Recalled
<1>8. /\ ai'[worker[w].ai].state # "unused"
      /\ ai'[worker[w].ai].state = "live" <=> ai'[worker[w].ai].refs # 0
      /\ ai'[worker[w].ai].refs = ai[worker[w].ai].refs
           + (IF InUse(r, worker[w].ai) THEN 1 ELSE 0)
           - (IF InUse(worker[w], worker[w].ai) THEN 1 ELSE 0)
  BY SMTT(60), <1>1, <1>2, <1>5, Made DEF IInv, Typed, AiRec
<1>9. /\ ai' \in [Ais -> AiRec] /\ worker' = [worker EXCEPT ![w] = r] /\ worker[w].pc # "stop"
      /\ \A a \in Ais \ {worker[w].ai} : ai'[a].state = ai[a].state /\ ai'[a].refs = ai[a].refs
  BY SMTT(60), <1>1, <1>2, <1>3, <1>4 DEF Typed
<1> QED
  BY ZenonT(60), <1>1, <1>2, <1>5, <1>6, <1>7, <1>8, <1>9, LocalStep

LEMMA StoreIInv ==
  ASSUME IInv, NEW w \in Workers, RunnerStore(w)
  PROVE  IInv'
<1>1. /\ worker[w].pc = "store" /\ worker[w] # Idle /\ worker[w].ai \in Ais /\ worker[w].dev \in Ais
      /\ worker[w].val \in Readings \cup {NULL} /\ Typed
  BY Busy DEF RunnerStore, At, WithDevice, IInv
<1>2. PICK o \in AiRec : o = ai[worker[w].ai]
  BY <1>1 DEF Typed
<1>3. PICK i : i = [o EXCEPT !.last = worker[w].val]
  BY Zenon
<1>4. i \in AiRec /\ i.state = o.state /\ i.refs = o.refs /\ i.last = worker[w].val
  BY SMTT(60), <1>1, <1>3, SetLast
<1>5. PICK r : r = ThreadAt("putdev", worker[w].ai, worker[w].dev, worker[w].val)
  BY SMTT(60)
<1>6. /\ WorkerOK(r) /\ r.ai = worker[w].ai /\ r.dev = worker[w].dev /\ r.pc = "putdev"
      /\ InUse(r, worker[w].ai) /\ InUse(worker[w], worker[w].ai)
  BY SMTT(60), <1>1, <1>5 DEF InUse, WithDevice, WorkerOK, ThreadAt
<1>7. /\ worker' = [worker EXCEPT ![w] = r] /\ ai' = [ai EXCEPT ![worker[w].ai] = i]
      /\ UNCHANGED <<current, held, queue, sched, stage, sent, managed>>
  BY SMTT(60), <1>1, <1>2, <1>3, <1>5, Moves DEF RunnerStore, env
<1>8. i.last \in sent[worker[w].ai] \cup {NULL}
  BY SMTT(60), <1>1, <1>4 DEF IInv, Recalled
<1>9. /\ i.state # "unused" /\ (i.state = "live" <=> i.refs # 0)
      /\ i.refs = ai[worker[w].ai].refs + (IF InUse(r, worker[w].ai) THEN 1 ELSE 0)
                    - (IF InUse(worker[w], worker[w].ai) THEN 1 ELSE 0)
  BY SMTT(60), <1>1, <1>2, <1>4, <1>6, Made DEF AiRec
<1> QED
  BY ZenonT(60), <1>1, <1>4, <1>6, <1>7, <1>8, <1>9, OwnStep

-----------------------------------------------------------------------------
(* Steps that change who refers to a device object.                        *)

\* What is enough: the counts add up as before, objects that have not been made
\* stay unknown, and somebody is still to stop what is scheduled.
LEMMA Referrers ==
  ASSUME IInv, Typed', Recalled',
         ai' = ai, managed' = managed, sched' \subseteq sched,
         \A a \in Ais : Cardinality(Users(a))' + Cardinality(StopsQueued(a))'
                          + (IF Refs(a)' > 0 THEN 1 ELSE 0) = Pins(a),
         \A a \in Ais : Fresh(a) => Fresh(a)',
         \A a \in Ais : Owned(a) => Owned(a)'
  PROVE  IInv'
<1>1. \A a \in Ais : Pins(a)' = Pins(a)
  BY DEF Pins
<1>2. \A a \in Ais : Counted(a)'
  BY <1>1 DEF IInv, Counted
<1>3. \A a \in sched' : Owned(a)'
  BY DEF IInv, Typed
<1> QED
  BY <1>2, <1>3 DEF IInv

\* What edgex_device_release leaves in the queue.
LEMMA Released ==
  ASSUME IInv, NEW d \in Ais
  PROVE  /\ AfterRelease(d) \in Seq(Jobs)
         /\ \A a \in Ais : Cardinality(StopsIn(AfterRelease(d), a))
              = Cardinality(StopsQueued(a)) + (IF a = d /\ Refs(d) = 1 THEN 1 ELSE 0)
         /\ \A i \in DOMAIN AfterRelease(d) :
              AfterRelease(d)[i].ai = d \/ \E k \in DOMAIN queue : AfterRelease(d)[i] = queue[k]
<1>1. /\ Job("stop", d) \in Jobs /\ Job("stop", d).ai = d
      /\ \A a \in Ais : Job("stop", d) = Job("stop", a) <=> a = d
  BY DEF Job, Jobs
<1>2. /\ queue \in Seq(Jobs)
      /\ \A a \in Ais : StopsQueued(a) = StopsIn(queue, a) /\ Cardinality(StopsQueued(a)) \in Nat
  BY SMTT(60), Numbers DEF IInv, Typed
<1>3. CASE Refs(d) = 1
  <2>1. AfterRelease(d) = Append(queue, Job("stop", d))
    BY <1>3 DEF AfterRelease
  <2>2. Append(queue, Job("stop", d)) \in Seq(Jobs)
    BY <1>1, <1>2
  <2>3. \A i \in DOMAIN AfterRelease(d) :
          AfterRelease(d)[i] = Job("stop", d) \/ \E k \in DOMAIN queue : AfterRelease(d)[i] = queue[k]
    BY SMTT(60), <1>1, <1>2, <2>1, StopsAppend
  <2>4. \A a \in Ais : Cardinality(StopsIn(AfterRelease(d), a))
          = Cardinality(StopsIn(queue, a)) + (IF Job("stop", d) = Job("stop", a) THEN 1 ELSE 0)
    BY SMTT(60), <1>1, <1>2, <2>1, StopsAppend
  <2> QED
    BY SMTT(60), <1>1, <1>2, <1>3, <2>1, <2>2, <2>3, <2>4
<1>4. CASE Refs(d) # 1
  BY SMTT(60), <1>2, <1>4 DEF AfterRelease
<1> QED
  BY <1>3, <1>4

\* A reference to d is given back: the stopper takes over from the last one.
LEMMA Drop ==
  ASSUME IInv, Typed', NEW d \in Ais, Refs(d) >= 1, NEW a \in Ais,
         Cardinality(StopsQueued(a)') = Cardinality(StopsIn(AfterRelease(d), a)),
         Refs(a)' = Refs(a) - (IF a = d THEN 1 ELSE 0),
         Cardinality(Users(a)') = Cardinality(Users(a)), Stoppers(a) \subseteq Stoppers(a)'
  PROVE  /\ Cardinality(Users(a))' + Cardinality(StopsQueued(a))'
              + (IF Refs(a)' > 0 THEN 1 ELSE 0) = Pins(a)
         /\ Owned(a) => Owned(a)'
<1>1. /\ Cardinality(Users(a)) \in Nat /\ Cardinality(StopsQueued(a)) \in Nat /\ Refs(a) \in Nat
      /\ Cardinality(StopsQueued(a)) = 0 <=> StopsQueued(a) = {}
      /\ Typed
  BY SMTT(60), Numbers DEF IInv
<1>2. Cardinality(StopsQueued(a))'
        = Cardinality(StopsQueued(a)) + (IF a = d /\ Refs(d) = 1 THEN 1 ELSE 0)
  BY Released
<1>3. Cardinality(StopsQueued(a))' = 0 <=> StopsQueued(a)' = {}
  <2>1. StopsQueued(a)' = StopsIn(queue', a) /\ queue' \in Seq(Jobs)
    BY DEF StopsQueued, StopsIn, Typed
  <2> QED
    BY SMTT(60), <2>1, StopsFinite
<1>4. Refs(a)' = Refs(a) - (IF a = d THEN 1 ELSE 0)
  OBVIOUS
<1>5. Cardinality(Users(a))' + Cardinality(StopsQueued(a))' + (IF Refs(a)' > 0 THEN 1 ELSE 0) = Pins(a)
  BY SMTT(60), <1>1, <1>2, <1>4 DEF Pins
<1>6. ASSUME Owned(a) PROVE Owned(a)'
  <2>1. Refs(a)' > 0 \/ Cardinality(StopsQueued(a))' # 0 \/ Stoppers(a)' # {}
    BY SMTT(60), <1>1, <1>2, <1>4, <1>6 DEF Owned
  <2> QED
    BY SMTT(60), <1>3, <2>1 DEF Owned
<1> QED
  BY SMTT(60), <1>5, <1>6

\* The parts of the reference count of a device object, before and after a step.
LEMMA RefsParts ==
  ASSUME NEW a
  PROVE  /\ Refs(a) = Cardinality(Holders(a)) + (IF a \in held THEN 1 ELSE 0)
                        + (IF current = a /\ Before("clearing") THEN 1 ELSE 0)
         /\ Refs(a)' = Cardinality(Holders(a)') + (IF a \in held' THEN 1 ELSE 0)
                         + (IF current' = a /\ Before("clearing")' THEN 1 ELSE 0)
BY SMTT(60) DEF Refs, Holders

\* A step that only adds the stopper of d, if anything, to the queue.
LEMMA DropIInv ==
  ASSUME IInv, NEW d \in Ais, Refs(d) >= 1, queue' = AfterRelease(d),
         UNCHANGED <<ai, sched, sent, managed>>, stage' \in DOMAIN Rank,
         current' \in {current, NULL}, held' \subseteq held,
         worker' = [w \in Workers |-> worker'[w]],
         \A w \in Workers : /\ WorkerOK(worker'[w]) /\ worker'[w].ai = worker[w].ai
                            /\ worker'[w].dev \in {worker[w].dev, NULL}
                            /\ worker'[w].pc = worker[w].pc
                                 \/ (worker[w].pc = "putdev" /\ worker'[w].pc = "release")
                            /\ worker'[w].pc = "store" => worker'[w].val = worker[w].val,
         \A a \in Ais : Refs(a)' = Refs(a) - (IF a = d THEN 1 ELSE 0)
  PROVE  IInv'
<1>1. Typed'
  BY SMTT(60), Released DEF IInv, Typed
<1>2. Recalled'
  BY DEF IInv, Recalled
<1>3. \A a \in Ais : Users(a)' = Users(a) /\ Stoppers(a)' = Stoppers(a)
  BY DEF Users, Stoppers
<1>4. \A a \in Ais : StopsQueued(a)' = StopsIn(AfterRelease(d), a)
  BY DEF StopsQueued, StopsIn
<1>5. ASSUME NEW a \in Ais, Fresh(a)
      PROVE  Fresh(a)'
  <2>1. a # d
    <3>1. Refs(a) = 0
      <4>1. Holders(a) = {} /\ a \notin held /\ current # a
        BY SMTT(60), <1>5 DEF Fresh, Holders
      <4> QED
        BY SMTT(60), <4>1, Numbers DEF IInv
    <3> QED
      BY SMTT(60), <3>1
  <2>2. \A i \in DOMAIN AfterRelease(d) : AfterRelease(d)[i].ai # a
    BY SMTT(60), <1>5, <2>1, Released DEF Fresh
  <2> QED
    BY SMTT(60), <1>5, <2>2, AutoEventAssumption DEF Fresh
<1>6. \A a \in Ais : /\ Cardinality(Users(a)') = Cardinality(Users(a))
                     /\ Cardinality(StopsQueued(a)') = Cardinality(StopsIn(AfterRelease(d), a))
                     /\ Stoppers(a) \subseteq Stoppers(a)'
  BY SMTT(60), <1>3, <1>4
<1>7. \A a \in Ais : /\ Cardinality(Users(a))' + Cardinality(StopsQueued(a))'
                          + (IF Refs(a)' > 0 THEN 1 ELSE 0) = Pins(a)
                     /\ Owned(a) => Owned(a)'
  BY SMTT(60), <1>1, <1>6, Drop
<1> QED
  BY SMTT(60), <1>1, <1>2, <1>5, <1>7, Referrers

LEMMA RemoveIInv ==
  ASSUME IInv, Remove
  PROVE  IInv'
<1>1. /\ Typed /\ current \in Ais /\ Before("clearing") /\ NULL \notin Ais
  BY Clearing, AutoEventAssumption DEF Remove, Serving, IInv, Typed
<1>2. PICK d \in Ais : d = current
  BY <1>1
<1>3. \A a \in Ais : Refs(a)' = Refs(a) - (IF a = d THEN 1 ELSE 0)
  <2> SUFFICES ASSUME NEW a \in Ais PROVE Refs(a)' = Refs(a) - (IF a = d THEN 1 ELSE 0)
    OBVIOUS
  <2>1. Holders(a)' = Holders(a) /\ (Before("clearing")' <=> Before("clearing"))
    BY DEF Remove, Holders, Before
  <2>2. Cardinality(Holders(a)) \in Nat
    BY <1>1, Numbers
  <2> QED
    BY SMTT(60), <1>1, <1>2, <2>1, <2>2, RefsParts DEF Remove
<1>4. Refs(d) >= 1
  BY SMTT(60), <1>1, <1>2, Numbers
<1> QED
  BY SMTT(60), <1>1, <1>2, <1>3, <1>4, DropIInv DEF Remove, env, Typed

LEMMA UnholdIInv ==
  ASSUME IInv, NEW d \in Ais, Unhold(d)
  PROVE  IInv'
<1>1. \A a \in Ais : Refs(a)' = Refs(a) - (IF a = d THEN 1 ELSE 0)
  <2> SUFFICES ASSUME NEW a \in Ais PROVE Refs(a)' = Refs(a) - (IF a = d THEN 1 ELSE 0)
    OBVIOUS
  <2>1. Holders(a)' = Holders(a) /\ (Before("clearing")' <=> Before("clearing"))
    BY DEF Unhold, Holders, Before
  <2>2. Cardinality(Holders(a)) \in Nat
    BY SMTT(60), Numbers DEF IInv
  <2> QED
    BY <2>1, <2>2, RefsParts DEF Unhold
<1>2. Refs(d) >= 1 /\ Typed
  BY Numbers DEF IInv, Unhold
<1> QED
  BY SMTT(60), <1>1, <1>2, DropIInv DEF Unhold, env, Typed

\* A step that leaves the objects that are referred to, and the jobs.
LEMMA SameOwners ==
  ASSUME IInv, Typed', Recalled', UNCHANGED <<ai, queue, managed>>, sched' \subseteq sched,
         \A a \in Ais : /\ Refs(a)' > 0 <=> Refs(a) > 0
                        /\ Cardinality(Users(a)') = Cardinality(Users(a))
                        /\ Stoppers(a) \subseteq Stoppers(a)' /\ (Fresh(a) => Fresh(a)')
  PROVE  IInv'
<1>1. \A a \in Ais : StopsQueued(a)' = StopsQueued(a)
  BY DEF StopsQueued
<1>2. \A a \in Ais : /\ Cardinality(Users(a))' + Cardinality(StopsQueued(a))'
                          + (IF Refs(a)' > 0 THEN 1 ELSE 0) = Pins(a)
                     /\ Owned(a) => Owned(a)'
  BY SMTT(60), <1>1 DEF Pins, Owned
<1> QED
  BY SMTT(60), <1>2, Referrers

\* A step of devsdk_service_stop that releases no device.
LEMMA Quiet ==
  ASSUME IInv, UNCHANGED <<ai, held, queue, worker, sent, managed>>, sched' \subseteq sched,
         stage' \in DOMAIN Rank, current' \in {current, NULL},
         \A a \in Ais : Refs(a)' = Refs(a)
  PROVE  IInv'
<1>1. Typed' /\ Recalled'
  BY SMTT(60) DEF IInv, Typed, Recalled
<1>2. \A a \in Ais : /\ Users(a)' = Users(a) /\ Stoppers(a)' = Stoppers(a)
                     /\ Fresh(a) => Fresh(a)'
  BY AutoEventAssumption DEF Users, Stoppers, Fresh
<1> QED
  BY SMTT(60), <1>1, <1>2, SameOwners

LEMMA ClearReleaseIInv ==
  ASSUME IInv, ClearRelease
  PROVE  IInv'
<1>1. /\ Typed /\ Before("clearing") /\ ~Before("clearing")' /\ NULL \notin Ais
      /\ stage' \in DOMAIN Rank
  BY SMTT(60), AutoEventAssumption DEF ClearRelease, Advance, IInv, Before, Rank
<1>2. \A a \in Ais : /\ Refs(a)' = Refs(a) - (IF a = current THEN 1 ELSE 0)
                     /\ a = current => Refs(a) >= 1
  <2> SUFFICES ASSUME NEW a \in Ais
               PROVE  Refs(a)' = Refs(a) - (IF a = current THEN 1 ELSE 0) /\ (a = current => Refs(a) >= 1)
    OBVIOUS
  <2>1. Holders(a)' = Holders(a)
    BY DEF ClearRelease, Holders
  <2>2. Cardinality(Holders(a)) \in Nat
    BY SMTT(60), <1>1, Numbers
  <2> QED
    BY SMTT(60), <1>1, <2>1, <2>2, RefsParts DEF ClearRelease
<1>3. CASE current \in Ais
  <2>1. PICK d \in Ais : d = current
    BY <1>3
  <2>2. queue' = AfterRelease(d)
    BY SMTT(60), <1>1, <2>1 DEF ClearRelease
  <2> QED
    BY SMTT(60), <1>1, <1>2, <2>1, <2>2, DropIInv DEF ClearRelease, env, Typed
<1>4. CASE current = NULL
  <2>1. /\ UNCHANGED <<ai, current, held, sched, queue, worker, sent, managed>>
        /\ \A a \in Ais : Refs(a)' = Refs(a)
    <3>1. UNCHANGED <<ai, current, held, sched, queue, worker, sent, managed>>
      BY SMTT(60), <1>4 DEF ClearRelease, env
    <3>2. ASSUME NEW a \in Ais PROVE Refs(a)' = Refs(a)
      BY SMTT(60), <1>1, <1>2, <1>4, Numbers
    <3> QED
      BY <3>1, <3>2
  <2> QED
    BY SMTT(60), <1>1, <2>1, Quiet
<1> QED
  BY SMTT(60), <1>1, <1>3, <1>4 DEF Typed

LEMMA PutDeviceIInv ==
  ASSUME IInv, NEW w \in Workers, RunnerPutDevice(w)
  PROVE  IInv'
<1>1. /\ worker[w].pc = "putdev" /\ worker[w].ai \in Ais /\ worker[w].dev \in Ais
      /\ Typed /\ NULL \notin Ais
  BY SMTT(60), Busy, AutoEventAssumption DEF RunnerPutDevice, At, WithDevice, IInv
<1>2. PICK d \in Ais : d = worker[w].dev
  BY <1>1
<1>3. PICK r : r = ThreadAt("release", worker[w].ai, NULL, NULL)
  BY SMTT(60)
<1>4. worker' = [worker EXCEPT ![w] = r]
  BY SMTT(60), <1>1, <1>3, Moves DEF RunnerPutDevice
<1>5. WorkerOK(r) /\ r.ai = worker[w].ai /\ r.dev = NULL /\ r.pc = "release"
  BY SMTT(60), <1>1, <1>3 DEF WorkerOK, ThreadAt, WithDevice, Alone
<1>6. \A x \in Workers : worker'[x] = IF x = w THEN r ELSE worker[x]
  BY SMTT(60), <1>1, <1>4 DEF Typed
<1>7. \A a \in Ais : Refs(a)' = Refs(a) - (IF a = d THEN 1 ELSE 0)
  <2> SUFFICES ASSUME NEW a \in Ais PROVE Refs(a)' = Refs(a) - (IF a = d THEN 1 ELSE 0)
    BY SMTT(60)
  <2>1. Cardinality(Holders(a)') = Cardinality(Holders(a)) - (IF d = a THEN 1 ELSE 0)
    <3>1. Cardinality(Holders(a)') = Cardinality(Holders(a))
            + (IF r.dev = a THEN 1 ELSE 0) - (IF worker[w].dev = a THEN 1 ELSE 0)
      BY ZenonT(40), <1>1, <1>4, HolderMoves
    <3>2. Cardinality(Holders(a)) \in Nat /\ r.dev # a
      BY <1>1, <1>5, Numbers
    <3> QED
      BY SMTT(60), <1>2, <3>1, <3>2
  <2>2. Cardinality(Holders(a)) \in Nat /\ (Before("clearing")' <=> Before("clearing"))
    BY SMTT(60), <1>1, Numbers DEF RunnerPutDevice, Before
  <2> QED
    BY SMTT(60), <2>1, <2>2, RefsParts DEF RunnerPutDevice
<1>8. Refs(d) >= 1
  <2>1. w \in Holders(d)
    BY <1>2 DEF Holders
  <2> QED
    BY SMTT(60), <1>1, <2>1, Numbers
<1>9. worker' = [x \in Workers |-> worker'[x]]
  BY SMTT(60), <1>1, <1>4 DEF Typed
<1>10. \A x \in Workers : /\ WorkerOK(worker'[x]) /\ worker'[x].ai = worker[x].ai
                          /\ worker'[x].dev \in {worker[x].dev, NULL}
                          /\ worker'[x].pc = worker[x].pc
                               \/ (worker[x].pc = "putdev" /\ worker'[x].pc = "release")
                          /\ worker'[x].pc = "store" => worker'[x].val = worker[x].val
  BY SMTT(60), <1>1, <1>5, <1>6 DEF Typed
<1>11. /\ queue' = AfterRelease(d) /\ UNCHANGED <<ai, sched, sent, managed>>
       /\ stage' \in DOMAIN Rank /\ current' \in {current, NULL} /\ held' \subseteq held
  BY SMTT(60), <1>1, <1>2 DEF RunnerPutDevice, env, Typed
<1> QED
  BY SMTT(60), <1>7, <1>8, <1>9, <1>10, <1>11, DropIInv

LEMMA LookupIInv ==
  ASSUME IInv, NEW w \in Workers, RunnerLookup(w)
  PROVE  IInv'
<1>1. /\ worker[w].pc = "lookup" /\ worker[w] # Idle /\ worker[w].ai \in Ais /\ worker[w].dev = NULL
      /\ worker[w].val \in Readings \cup {NULL} /\ Typed /\ NULL \notin Ais
  BY Zenon, Busy, AutoEventAssumption DEF RunnerLookup, At, WithDevice, Alone, IInv
<1>2. CASE Goto(w, "release") /\ sched' = sched \ {worker[w].ai}
  <2>1. worker' = [worker EXCEPT ![w] = ThreadAt("release", worker[w].ai, worker[w].dev, worker[w].val)]
    BY SMTT(60), <1>1, <1>2, Moves
  <2>2. UNCHANGED <<ai, current, held, queue, stage, sent, managed>>
    BY SMTT(60) DEF RunnerLookup, env
  <2> QED
    BY ZenonT(40), <1>1, <1>2, <2>1, <2>2, GotoIInv DEF WithDevice, Alone
<1>3. CASE /\ current # NULL /\ (Before("clearing") \/ Refs(current) > 0) /\ UNCHANGED sched
           /\ \E pc \in {"get", "putdev"} : Become(w, pc, current, NULL)
  <2>1. PICK pc \in {"get", "putdev"} : Become(w, pc, current, NULL)
    BY SMTT(60), <1>3
  <2>2. PICK d \in Ais : d = current
    BY <1>1, <1>3 DEF Typed
  <2>3. PICK r : r = ThreadAt(pc, worker[w].ai, d, NULL)
    BY SMTT(60)
  <2>4. worker' = [worker EXCEPT ![w] = r]
    BY SMTT(60), <1>1, <2>1, <2>2, <2>3, Moves
  <2>5. /\ WorkerOK(r) /\ r.ai = worker[w].ai /\ r.dev = d /\ r.pc = pc
        /\ InUse(r, worker[w].ai) /\ InUse(worker[w], worker[w].ai)
    BY SMTT(60), <1>1, <2>3 DEF WorkerOK, ThreadAt, WithDevice, Alone, InUse
  <2>6. \A x \in Workers : worker'[x] = IF x = w THEN r ELSE worker[x]
    BY SMTT(60), <1>1, <2>4 DEF Typed
  <2>7. UNCHANGED <<ai, current, held, queue, stage, sent, managed>>
    BY SMTT(60) DEF RunnerLookup, env
  <2>8. Typed'
    BY SMTT(60), <1>1, <1>3, <2>4, <2>5, <2>6, <2>7 DEF Typed
  <2>9. Recalled'
    BY SMTT(60), <2>5, <2>6, <2>7 DEF IInv, Recalled
  <2>10. Refs(d) > 0
    BY SMTT(60), <1>1, <1>3, <2>2, Numbers
  <2>11. \A a \in Ais : Refs(a)' > 0 <=> Refs(a) > 0
    <3> SUFFICES ASSUME NEW a \in Ais PROVE Refs(a)' > 0 <=> Refs(a) > 0
      OBVIOUS
    <3>1. Cardinality(Holders(a)') = Cardinality(Holders(a))
            + (IF r.dev = a THEN 1 ELSE 0) - (IF worker[w].dev = a THEN 1 ELSE 0)
      <4>1. Typed
        BY DEF IInv
      <4> QED
        BY ZenonT(40), <2>4, <4>1, HolderMoves
    <3>2. Cardinality(Holders(a)) \in Nat /\ worker[w].dev # a
      BY SMTT(60), <1>1, Numbers
    <3>3. Before("clearing")' <=> Before("clearing")
      BY SMTT(60), <2>7 DEF Before
    <3>4. Refs(a) = Cardinality(Holders(a)) + (IF a \in held THEN 1 ELSE 0)
                     + (IF current = a /\ Before("clearing") THEN 1 ELSE 0)
      BY SMTT(60), RefsParts
    <3>5. Refs(a)' = Cardinality(Holders(a)') + (IF a \in held THEN 1 ELSE 0)
                      + (IF current = a /\ Before("clearing") THEN 1 ELSE 0)
      BY SMTT(60), <2>7, <3>3, RefsParts
    <3>6. Refs(a)' = Refs(a) + (IF a = d THEN 1 ELSE 0) /\ Refs(a) \in Nat
      BY SMTT(60), <2>5, <3>1, <3>2, <3>4, <3>5
    <3> QED
      BY SMTT(60), <2>10, <3>6
  <2>12. \A a \in Ais : Cardinality(Users(a)') = Cardinality(Users(a))
    <3> SUFFICES ASSUME NEW a \in Ais PROVE Cardinality(Users(a)') = Cardinality(Users(a))
      OBVIOUS
    <3>1. Cardinality(Users(a)') = Cardinality(Users(a))
            + (IF InUse(r, a) THEN 1 ELSE 0) - (IF InUse(worker[w], a) THEN 1 ELSE 0)
      BY ZenonT(60), <1>1, <2>4, WorkerMoves
    <3>2. Cardinality(Users(a)) \in Nat /\ (InUse(r, a) <=> InUse(worker[w], a))
      BY SMTT(60), <1>1, <2>5, Numbers DEF InUse
    <3> QED
      BY SMTT(60), <3>1, <3>2
  <2>13. \A a \in Ais : Stoppers(a) \subseteq Stoppers(a)' /\ (Fresh(a) => Fresh(a)')
    BY SMTT(60), <1>1, <1>3, <2>2, <2>5, <2>6, <2>7 DEF Stoppers, Fresh
  <2> QED
    BY SMTT(60), <1>3, <2>7, <2>8, <2>9, <2>11, <2>12, <2>13, SameOwners
<1> QED
  BY <1>2, <1>3 DEF RunnerLookup

LEMMA HoldIInv ==
  ASSUME IInv, Hold
  PROVE  IInv'
<1>1. /\ Typed /\ current \in Ais /\ Before("clearing") /\ NULL \notin Ais
  BY SMTT(60), Clearing, AutoEventAssumption DEF Hold, Serving, IInv, Typed
<1>2. Typed' /\ Recalled'
  BY SMTT(60), <1>1 DEF Hold, IInv, Typed, Recalled, env
<1>3. \A a \in Ais : Refs(a)' > 0 <=> Refs(a) > 0
  <2> SUFFICES ASSUME NEW a \in Ais PROVE Refs(a)' > 0 <=> Refs(a) > 0
    OBVIOUS
  <2>1. Holders(a)' = Holders(a) /\ (Before("clearing")' <=> Before("clearing"))
    BY DEF Hold, Holders, Before
  <2>2. Cardinality(Holders(a)) \in Nat
    BY SMTT(60), <1>1, Numbers
  <2> QED
    BY SMTT(60), <1>1, <2>1, <2>2, RefsParts DEF Hold
<1>4. \A a \in Ais : /\ Users(a)' = Users(a) /\ Stoppers(a)' = Stoppers(a)
                     /\ Fresh(a) => Fresh(a)'
  BY SMTT(60) DEF Hold, Users, Stoppers, Fresh
<1> QED
  BY SMTT(60), <1>2, <1>3, <1>4, SameOwners DEF Hold, env

LEMMA TickIInv ==
  ASSUME IInv, NEW b \in Ais, Tick(b)
  PROVE  IInv'
<1>1. /\ Typed /\ b \in sched /\ Job("run", b) \in Jobs /\ Job("run", b).ai = b
      /\ \A a \in Ais : Job("run", b) # Job("stop", a)
  BY SMTT(60) DEF Tick, IInv, Job, Jobs
<1>2. /\ queue' = Append(queue, Job("run", b)) /\ queue \in Seq(Jobs)
      /\ UNCHANGED <<ai, current, held, sched, worker, sent, stage, managed>>
  BY SMTT(60), <1>1 DEF Tick, Typed, env
<1>3. Typed' /\ Recalled'
  BY SMTT(60), <1>1, <1>2, StopsAppend DEF IInv, Typed, Recalled
<1>4. \A a \in Ais : /\ Users(a)' = Users(a) /\ Stoppers(a)' = Stoppers(a)
                     /\ Refs(a)' = Refs(a)
  BY SMTT(60), <1>2 DEF Users, Stoppers, Refs, Before
<1>5. \A a \in Ais : Cardinality(StopsQueued(a)') = Cardinality(StopsQueued(a))
  <2> SUFFICES ASSUME NEW a \in Ais
               PROVE  Cardinality(StopsQueued(a)') = Cardinality(StopsQueued(a))
    BY SMTT(60)
  <2>1. StopsQueued(a)' = StopsIn(Append(queue, Job("run", b)), a)
    BY SMTT(60), <1>2 DEF StopsQueued, StopsIn
  <2>2. Cardinality(StopsIn(Append(queue, Job("run", b)), a)) = Cardinality(StopsIn(queue, a)) + 0
    BY SMTT(60), <1>1, <1>2, StopsAppend
  <2> QED
    BY SMTT(60), <1>1, <2>1, <2>2, Numbers
<1>6. \A a \in Ais : Fresh(a) => Fresh(a)'
  <2>1. \A i \in DOMAIN queue' : queue'[i] = Job("run", b) \/ \E k \in DOMAIN queue : queue'[i] = queue[k]
    BY SMTT(60), <1>1, <1>2, StopsAppend
  <2> QED
    BY SMTT(60), <1>1, <1>2, <2>1 DEF Fresh
<1>7. \A a \in Ais : Owned(a) => Owned(a)'
  <2> SUFFICES ASSUME NEW a \in Ais, Owned(a) PROVE Owned(a)'
    BY SMTT(60)
  <2>1. Cardinality(StopsQueued(a)) = 0 <=> StopsQueued(a) = {}
    BY SMTT(60), <1>1, Numbers
  <2>2. Cardinality(StopsQueued(a)') = 0 <=> StopsQueued(a)' = {}
    <3>1. StopsQueued(a)' = StopsIn(queue', a) /\ queue' \in Seq(Jobs)
      BY SMTT(60), <1>3 DEF StopsQueued, StopsIn, Typed
    <3> QED
      BY SMTT(60), <3>1, StopsFinite
  <2> QED
    BY SMTT(60), <1>4, <1>5, <2>1, <2>2 DEF Owned
<1>8. \A a \in Ais : Cardinality(Users(a))' + Cardinality(StopsQueued(a))'
                       + (IF Refs(a)' > 0 THEN 1 ELSE 0) = Pins(a)
  BY SMTT(60), <1>4, <1>5 DEF Pins
<1> QED
  BY SMTT(60), <1>2, <1>3, <1>6, <1>7, <1>8, Referrers

LEMMA TakeIInv ==
  ASSUME IInv, NEW w \in Workers, Take(w)
  PROVE  IInv'
<1>1. /\ Typed /\ queue \in Seq(Jobs) /\ queue # <<>> /\ queue' = Tail(queue) /\ worker[w] = Idle
      /\ UNCHANGED <<ai, current, held, sched, sent, stage, managed>> /\ NULL \notin Ais
  BY SMTT(60), AutoEventAssumption DEF Take, IInv, Typed, env
<1>2. PICK j \in Jobs : j = Head(queue)
  BY SMTT(60), <1>1, StopsTail
<1>3. j.job \in {"start", "stop", "run"} /\ j.ai \in Ais /\ \A a : j = Job("stop", a) <=> j.job = "stop" /\ j.ai = a
  BY <1>2 DEF Jobs, Job
<1>4. PICK r : r = ThreadAt(j.job, j.ai, NULL, NULL)
  OBVIOUS
<1>5. worker' = [worker EXCEPT ![w] = r]
  <2>1. [Idle EXCEPT !.pc = j.job] = ThreadAt(j.job, NULL, NULL, NULL)
    BY DEF Idle, ThreadAt
  <2>2. [ThreadAt(j.job, NULL, NULL, NULL) EXCEPT !.ai = j.ai] = ThreadAt(j.job, j.ai, NULL, NULL)
    BY SMTT(60) DEF ThreadAt
  <2> QED
    BY ZenonT(60), <1>2, <1>4, <2>1, <2>2 DEF Take
<1>6. /\ WorkerOK(r) /\ r.ai = j.ai /\ r.dev = NULL /\ r.pc = j.job
      /\ \A a : InUse(r, a) <=> j = Job("stop", a)
  BY SMTT(60), <1>3, <1>4 DEF WorkerOK, ThreadAt, WithDevice, Alone, InUse
<1>7. \A x \in Workers : worker'[x] = IF x = w THEN r ELSE worker[x]
  BY SMTT(60), <1>1, <1>5 DEF Typed
<1>8. Typed' /\ Recalled'
  <2>1. Typed'
    BY SMTT(60), <1>1, <1>5, <1>6, <1>7, StopsTail DEF Typed
  <2>2. Recalled'
    BY ZenonT(60), <1>1, <1>3, <1>6, <1>7 DEF IInv, Recalled
  <2> QED
    BY SMTT(60), <2>1, <2>2
<1>9. \A a \in Ais : Refs(a)' = Refs(a)
  <2>1. \A a \in Ais : Holders(a)' = Holders(a)
    BY SMTT(60), <1>1, <1>6, <1>7, IdleOK DEF Holders
  <2>2. Before("clearing")' <=> Before("clearing")
    BY SMTT(60), <1>1 DEF Before
  <2> QED
    BY SMTT(60), <1>1, <2>1, <2>2, RefsParts
<1>10. ASSUME NEW a \in Ais
       PROVE  /\ Cardinality(StopsQueued(a)')
                   = Cardinality(StopsQueued(a)) - (IF j = Job("stop", a) THEN 1 ELSE 0)
              /\ Cardinality(StopsQueued(a)') = 0 <=> StopsQueued(a)' = {}
              /\ Cardinality(StopsQueued(a)) = 0 <=> StopsQueued(a) = {}
              /\ Cardinality(StopsQueued(a)) \in Nat
  <2>1. StopsQueued(a)' = StopsIn(Tail(queue), a)
    BY SMTT(60), <1>1 DEF StopsQueued, StopsIn
  <2>2. /\ Cardinality(StopsIn(Tail(queue), a))
             = Cardinality(StopsIn(queue, a)) - (IF Head(queue) = Job("stop", a) THEN 1 ELSE 0)
        /\ Tail(queue) \in Seq(Jobs)
    BY <1>1, StopsTail
  <2>3. Cardinality(StopsIn(Tail(queue), a)) = 0 <=> StopsIn(Tail(queue), a) = {}
    BY ZenonT(60), <2>2, StopsFinite
  <2> QED
    BY SMTT(60), <1>1, <1>2, <2>1, <2>2, <2>3, Numbers
<1>11. \A a \in Ais : Cardinality(Users(a))' + Cardinality(StopsQueued(a))'
                        + (IF Refs(a)' > 0 THEN 1 ELSE 0) = Pins(a)
  <2> SUFFICES ASSUME NEW a \in Ais
               PROVE  Cardinality(Users(a)') + Cardinality(StopsQueued(a)')
                        + (IF Refs(a)' > 0 THEN 1 ELSE 0) = Pins(a)
    OBVIOUS
  <2>1. Cardinality(Users(a)') = Cardinality(Users(a))
          + (IF InUse(r, a) THEN 1 ELSE 0) - (IF InUse(worker[w], a) THEN 1 ELSE 0)
    BY ZenonT(60), <1>1, <1>5, WorkerMoves
  <2>2. Cardinality(Users(a)) \in Nat /\ ~InUse(worker[w], a)
    BY SMTT(60), <1>1, Numbers, IdleOK
  <2> QED
    BY SMTT(60), <1>6, <1>9, <1>10, <2>1, <2>2 DEF Pins
<1>12. ASSUME NEW a \in Ais, Owned(a)
       PROVE  Owned(a)'
  <2>1. Stoppers(a) \subseteq Stoppers(a)'
    BY <1>1, <1>7 DEF Stoppers, Idle
  <2>2. CASE j = Job("stop", a)
    <3>1. w \in Stoppers(a)'
      BY SMTT(60), <1>3, <1>6, <1>7, <2>2 DEF Stoppers
    <3> QED
      BY SMTT(60), <3>1 DEF Owned
  <2>3. CASE j # Job("stop", a)
    BY SMTT(60), <1>9, <1>10, <1>12, <2>1, <2>3 DEF Owned
  <2> QED
    BY SMTT(60), <2>2, <2>3
<1>13. \A a \in Ais : Fresh(a) => Fresh(a)'
  <2>1. /\ \A i \in DOMAIN queue' : \E k \in DOMAIN queue : queue'[i] = queue[k]
        /\ \E k \in DOMAIN queue : j = queue[k]
    BY ZenonT(60), <1>1, <1>2, StopsTail
  <2> SUFFICES ASSUME NEW a \in Ais, Fresh(a) PROVE Fresh(a)'
    OBVIOUS
  <2>2. (\A i \in DOMAIN queue' : queue'[i].ai # a) /\ j.ai # a
    BY ZenonT(60), <2>1 DEF Fresh
  <2>3. \A x \in Workers : worker'[x].ai # a /\ worker'[x].dev # a
    BY SMTT(60), <1>1, <1>6, <1>7, <2>2 DEF Fresh
  <2> QED
    BY <1>1, <2>2, <2>3 DEF Fresh
<1> QED
  BY SMTT(60), <1>1, <1>8, <1>11, <1>12, <1>13, Referrers

\* A device object is made, and d, if anything, is released before.
LEMMA NewDevice ==
  ASSUME IInv, NEW a \in Ais, NEW q \in Seq(Jobs), Start(a, q), current' = a, Before("clearing"),
         UNCHANGED <<held, worker, sent, stage, managed>>,
         \A i \in DOMAIN q : q[i].ai = current \/ \E k \in DOMAIN queue : q[i] = queue[k],
         \A x \in Ais \ {a} : Cardinality(StopsQueued(x)') = Cardinality(StopsIn(q, x)) =>
           /\ Cardinality(Users(x))' + Cardinality(StopsQueued(x))'
                + (IF Refs(x)' > 0 THEN 1 ELSE 0) = Pins(x)
           /\ Owned(x) => Owned(x)'
  PROVE  IInv'
<1>1. Typed /\ NULL \notin Ais /\ Fresh(a)
  BY AutoEventAssumption DEF IInv, Start, Counted
<1>2. PICK h \in BOOLEAN : h = ~managed
  BY Zenon
<1>3. PICK i : i = [state |-> "live", refs |-> 1, last |-> NULL, handle |-> h]
  BY ZenonT(60)
<1>4. i \in AiRec /\ i.state = "live" /\ i.refs = 1 /\ i.last = NULL
  BY SMTT(60), <1>3 DEF AiRec
<1>5. ai' = [ai EXCEPT ![a] = i]
  BY SMTT(60), <1>2, <1>3 DEF Start
<1>6. \A x \in Ais : ai'[x] = IF x = a THEN i ELSE ai[x]
  BY SMTT(60), <1>1, <1>5 DEF Typed
<1>7. /\ Job("start", a) \in Jobs /\ Job("start", a).ai = a
      /\ \A x \in Ais : Job("start", a) # Job("stop", x)
  BY SMTT(60) DEF Job, Jobs
<1>8. /\ queue' \in Seq(Jobs)
      /\ \A k \in DOMAIN queue' : \/ queue'[k].ai \in {a, current}
                                  \/ \E l \in DOMAIN queue : queue'[k] = queue[l]
      /\ \A x \in Ais : Cardinality(StopsQueued(x)') = Cardinality(StopsIn(q, x))
  <2>1. \A x \in Ais : StopsQueued(x)' = StopsIn(queue', x)
    BY SMTT(60) DEF StopsQueued, StopsIn
  <2>2. CASE managed
    <3>1. queue' = Append(q, Job("start", a))
      BY SMTT(60), <2>2 DEF Start
    <3>2. \A x \in Ais : Cardinality(StopsIn(queue', x)) = Cardinality(StopsIn(q, x))
      <4> SUFFICES ASSUME NEW x \in Ais
                   PROVE  Cardinality(StopsIn(queue', x)) = Cardinality(StopsIn(q, x))
        BY SMTT(60)
      <4>1. Cardinality(StopsIn(queue', x)) = Cardinality(StopsIn(q, x)) + 0
        BY SMTT(60), <1>7, <3>1, StopsAppend
      <4>2. Cardinality(StopsIn(q, x)) \in Nat
        BY SMTT(60), StopsFinite
      <4> QED
        BY SMTT(60), <4>1, <4>2
    <3>3. \A k \in DOMAIN queue' : queue'[k] = Job("start", a) \/ \E l \in DOMAIN q : queue'[k] = q[l]
      BY SMTT(60), <1>7, <3>1, StopsAppend
    <3>4. queue' \in Seq(Jobs)
      BY SMTT(60), <1>7, <3>1
    <3>5. \A k \in DOMAIN queue' : \/ queue'[k].ai \in {a, current}
                                   \/ \E l \in DOMAIN queue : queue'[k] = queue[l]
      BY SMTT(60), <1>7, <3>3
    <3> QED
      BY SMTT(60), <2>1, <3>2, <3>4, <3>5
  <2>3. CASE ~managed
    <3>1. queue' = q
      BY SMTT(60), <2>3 DEF Start
    <3> QED
      BY SMTT(60), <2>1, <3>1
  <2> QED
    BY SMTT(60), <2>2, <2>3
<1>9. sched' \subseteq sched \cup {a} /\ (managed => sched' = {})
  BY SMTT(60) DEF Start, IInv
<1>10. Typed' /\ Recalled'
  <2>1. Typed'
    BY SMTT(60), <1>1, <1>4, <1>5, <1>8, <1>9 DEF Typed
  <2>2. Recalled'
    BY SMTT(60), <1>4, <1>6 DEF IInv, Recalled
  <2> QED
    BY SMTT(60), <2>1, <2>2
<1>11. ASSUME NEW x \in Ais \ {a}, Fresh(x)
       PROVE  Fresh(x)'
  BY SMTT(60), <1>8, <1>9, <1>11 DEF Fresh
<1>12. Refs(a)' = 1
  <2>1. Holders(a)' = {} /\ (Before("clearing")' <=> Before("clearing")) /\ a \notin held'
    BY SMTT(60), <1>1 DEF Holders, Fresh, Before
  <2>2. Cardinality(Holders(a)') = 0
    BY SMTT(60), <2>1, FS_EmptySet
  <2>3. Refs(a)' = Cardinality(Holders(a)') + (IF a \in held' THEN 1 ELSE 0)
                     + (IF current' = a /\ Before("clearing")' THEN 1 ELSE 0)
    BY SMTT(60), RefsParts
  <2> QED
    BY SMTT(60), <2>1, <2>2, <2>3
<1>13. Users(a)' = {} /\ StopsIn(q, a) = {}
  <2>1. Users(a)' = {}
    BY SMTT(60), <1>1 DEF Users, Fresh
  <2>2. StopsIn(q, a) = {}
    <3>1. \A i1 \in DOMAIN q : q[i1].ai # a
      BY SMTT(60), <1>1 DEF Fresh
    <3> QED
      BY SMTT(60), <3>1 DEF StopsIn, Job
  <2> QED
    BY SMTT(60), <2>1, <2>2
<1>14. Counted(a)' /\ Owned(a)'
  <2>1. Cardinality(Users(a)') = 0 /\ Cardinality(StopsQueued(a)') = 0
    <3>1. Cardinality(StopsQueued(a)') = Cardinality({}) /\ Cardinality(Users(a)') = Cardinality({})
      BY ZenonT(60), <1>8, <1>13
    <3> QED
      BY ZenonT(60), <3>1, FS_EmptySet
  <2>2. Pins(a)' = 1
    BY <1>12, <2>1 DEF Pins
  <2> QED
    BY SMTT(60), <1>4, <1>6, <1>12, <2>2 DEF Counted, Owned
<1>15. ASSUME NEW x \in Ais \ {a}
       PROVE  Counted(x)' /\ (Owned(x) => Owned(x)')
  <2>1. Pins(x)' = Pins(x) /\ (Owned(x) => Owned(x)')
    BY ZenonT(60), <1>8 DEF Pins
  <2> QED
    BY ZenonT(60), <1>6, <1>11, <2>1 DEF IInv, Counted
<1> QED
  BY SMTT(60), <1>9, <1>10, <1>14, <1>15 DEF IInv, Typed

LEMMA CreateIInv ==
  ASSUME IInv, NEW a \in Ais, Create(a)
  PROVE  IInv'
<1>1. /\ Typed /\ Start(a, queue) /\ current = NULL /\ current' = a /\ Before("clearing")
      /\ UNCHANGED <<held, worker, sent, stage, managed>> /\ NULL \notin Ais
  BY SMTT(60), Clearing, AutoEventAssumption DEF Create, Serving, IInv, Typed, env
<1>2. ASSUME NEW x \in Ais \ {a}, Cardinality(StopsQueued(x)') = Cardinality(StopsIn(queue, x))
      PROVE  /\ Cardinality(Users(x))' + Cardinality(StopsQueued(x))'
                  + (IF Refs(x)' > 0 THEN 1 ELSE 0) = Pins(x)
             /\ Owned(x) => Owned(x)'
  <2>1. /\ Users(x)' = Users(x) /\ Stoppers(x)' = Stoppers(x) /\ Holders(x)' = Holders(x)
        /\ Before("clearing")' <=> Before("clearing")
    BY SMTT(60), <1>1 DEF Users, Stoppers, Holders, Before
  <2>2. Refs(x)' = Refs(x)
    BY SMTT(60), <1>1, <2>1, RefsParts
  <2>3. Cardinality(StopsQueued(x)') = Cardinality(StopsQueued(x))
    BY SMTT(60), <1>1, <1>2, Numbers
  <2>4. (StopsQueued(x)' = {}) => (StopsQueued(x) = {})
    <3>1. Cardinality(StopsQueued(x)) = 0 <=> StopsQueued(x) = {}
      BY SMTT(60), <1>1, Numbers
    <3> QED
      BY SMTT(60), <2>3, <3>1, FS_EmptySet
  <2> QED
    BY SMTT(60), <2>1, <2>2, <2>3, <2>4 DEF Pins, Owned
<1>3. queue \in Seq(Jobs)
  BY <1>1 DEF Typed
<1> QED
  BY SMTT(60), <1>1, <1>2, <1>3, NewDevice

LEMMA ReplaceIInv ==
  ASSUME IInv, NEW a \in Ais, Replace(a)
  PROVE  IInv'
<1>1. /\ Typed /\ Start(a, AfterRelease(current)) /\ current \in Ais /\ current' = a
      /\ Before("clearing") /\ UNCHANGED <<held, worker, sent, stage, managed>>
  BY Clearing DEF Replace, Serving, IInv, Typed, env
<1>2. PICK d \in Ais : d = current
  BY <1>1
<1>3. Fresh(a) /\ a # d
  BY ZenonT(60), <1>1, <1>2 DEF Start, IInv, Counted, Fresh
<1>4. /\ AfterRelease(d) \in Seq(Jobs)
      /\ \A i \in DOMAIN AfterRelease(d) :
           AfterRelease(d)[i].ai = d \/ \E k \in DOMAIN queue : AfterRelease(d)[i] = queue[k]
  BY SMTT(60), Released
<1>5. Refs(d) >= 1
  BY SMTT(60), <1>1, <1>2, Numbers
<1>6. ASSUME NEW x \in Ais \ {a},
             Cardinality(StopsQueued(x)') = Cardinality(StopsIn(AfterRelease(d), x))
      PROVE  /\ Cardinality(Users(x))' + Cardinality(StopsQueued(x))'
                  + (IF Refs(x)' > 0 THEN 1 ELSE 0) = Pins(x)
             /\ Owned(x) => Owned(x)'
  <2>1. /\ Users(x)' = Users(x) /\ Stoppers(x)' = Stoppers(x) /\ Holders(x)' = Holders(x)
        /\ Before("clearing")' <=> Before("clearing")
    BY SMTT(60), <1>1 DEF Users, Stoppers, Holders, Before
  <2>2. Refs(x)' = Refs(x) - (IF x = d THEN 1 ELSE 0)
    <3>1. Cardinality(Holders(x)) \in Nat
      BY SMTT(60), <1>1, Numbers
    <3> QED
      BY SMTT(60), <1>1, <1>2, <1>3, <2>1, <3>1, RefsParts
  <2>3. /\ Refs(x) \in Nat /\ Cardinality(Users(x)) \in Nat /\ Cardinality(StopsQueued(x)) \in Nat
        /\ Cardinality(StopsQueued(x)) = 0 <=> StopsQueued(x) = {}
    BY SMTT(60), <1>1, Numbers
  <2>4. Cardinality(StopsQueued(x)')
          = Cardinality(StopsQueued(x)) + (IF x = d /\ Refs(d) = 1 THEN 1 ELSE 0)
    BY SMTT(60), <1>6, Released
  <2>5. Cardinality(StopsQueued(x)') # 0 => StopsQueued(x)' # {}
    BY SMTT(60), FS_EmptySet
  <2>6. Cardinality(Users(x)') + Cardinality(StopsQueued(x)')
          + (IF Refs(x)' > 0 THEN 1 ELSE 0) = Pins(x)
    BY SMTT(60), <1>5, <2>1, <2>2, <2>3, <2>4 DEF Pins
  <2>7. Owned(x) => Owned(x)'
    BY SMTT(60), <1>5, <2>1, <2>2, <2>3, <2>4, <2>5 DEF Owned
  <2> QED
    BY SMTT(60), <2>6, <2>7
<1> QED
  BY ZenonT(60), <1>1, <1>2, <1>4, <1>6, NewDevice

LEMMA StopIInv ==
  ASSUME IInv, StopCalls \/ ClearRemove \/ FreeScheduler \/ Wait
  PROVE  IInv'
<1>1. /\ UNCHANGED <<ai, held, queue, worker, sent, managed>> /\ sched' \subseteq sched
      /\ current' \in {current, NULL} /\ (current' # current => ~Before("clearing"))
      /\ stage' \in DOMAIN Rank /\ (Before("clearing")' <=> Before("clearing"))
  BY SMTT(60) DEF StopCalls, ClearRemove, FreeScheduler, Wait, Advance, env, Before, Rank
<1>2. \A a \in Ais : Refs(a)' = Refs(a)
  <2>1. \A a \in Ais : Holders(a)' = Holders(a)
    BY SMTT(60), <1>1 DEF Holders
  <2> QED
    BY SMTT(60), <1>1, <2>1, RefsParts
<1> QED
  BY SMTT(60), <1>1, <1>2, Quiet

\* A step that changes nothing IInv speaks of.
LEMMA SameIInv ==
  ASSUME IInv, UNCHANGED <<ai, current, held, sched, queue, worker, sent, stage, managed>>
  PROVE  IInv'
<1>1. \A a \in Ais : Refs(a)' = Refs(a)
  BY DEF Refs, Before
<1> QED
  BY SMTT(60), <1>1, Quiet DEF IInv, Typed

LEMMA NextIInv == IInv /\ [Next]_vars => IInv'
<1> SUFFICES ASSUME IInv, [Next]_vars PROVE IInv'
  OBVIOUS
<1>1. ASSUME NEW a \in Ais, Create(a) \/ Replace(a) \/ Unhold(a) \/ Tick(a)
      PROVE  IInv'
  BY SMTT(60), <1>1, CreateIInv, ReplaceIInv, UnholdIInv, TickIInv
<1>2. CASE Remove \/ Hold
  BY SMTT(60), <1>2, RemoveIInv, HoldIInv
<1>3. ASSUME NEW w \in Workers, Work(w)
      PROVE  IInv'
  <2>1. CASE UseAfterFree(w)
    BY SMTT(60), <2>1, SameIInv DEF UseAfterFree, Corrupt, env
  <2>2. CASE Take(w) \/ StarterCall(w) \/ StarterStore(w) \/ StopperCall(w) \/ Release(w)
    BY SMTT(60), <2>2, TakeIInv, StarterIInv, StopperIInv, ReleaseIInv
  <2>3. CASE RunnerBegin(w) \/ RunnerLookup(w) \/ RunnerGet(w)
    BY SMTT(60), <2>3, BeginIInv, LookupIInv, GetIInv
  <2>4. CASE RunnerPush(w) \/ RunnerStore(w) \/ RunnerPutDevice(w)
    BY SMTT(60), <2>4, PushIInv, StoreIInv, PutDeviceIInv
  <2> QED
    BY SMTT(60), <1>3, <2>1, <2>2, <2>3, <2>4 DEF Work
<1>4. CASE Stop
  BY SMTT(60), <1>4, StopIInv, ClearReleaseIInv DEF Stop
<1>5. CASE UNCHANGED vars
  BY <1>5, SameIInv DEF vars, env
<1> QED
  BY SMTT(60), <1>1, <1>2, <1>3, <1>4, <1>5 DEF Next

LEMMA Always == Spec => []IInv
<1> QED
  BY InitIInv, NextIInv, PTL DEF Spec

-----------------------------------------------------------------------------
(* Results.                                                                *)

\* ai->refs is the number of the threads that use the ai, its stoppers in the
\* queue and the device object if anybody refers to it, for any pool and any
\* devices: the atomic counter of edgex_autoimpl_release reaches 0 with the last
\* of them.
THEOREM RefsCounted == Spec => []AiRefsExact
<1>1. IInv => AiRefsExact
  BY DEF IInv, Counted, Pins, AiRefsExact
<1> QED
  BY <1>1, Always, PTL

\* No schedule outlives the ai whose address it passes to ae_runner: somebody
\* is still to run the stopper, whose reference keeps the ai.
THEOREM SchedulesOwned == Spec => []ScheduleOwned
<1>1. ASSUME IInv PROVE ScheduleOwned
  <2> SUFFICES ASSUME NEW a \in sched PROVE ai[a].state = "live"
    BY SMTT(60) DEF ScheduleOwned
  <2>1. a \in Ais /\ Counted(a) /\ Owned(a) /\ Typed
    BY SMTT(60), <1>1 DEF IInv, Typed
  <2>2. ai[a].state # "unused"
    BY SMTT(60), <2>1 DEF Counted, Fresh
  <2>3. /\ Cardinality(Users(a)) \in Nat /\ (Cardinality(Users(a)) = 0 <=> Users(a) = {})
        /\ Cardinality(StopsQueued(a)) \in Nat
        /\ Cardinality(StopsQueued(a)) = 0 <=> StopsQueued(a) = {}
    BY SMTT(60), <2>1, Numbers
  <2>4. Stoppers(a) \subseteq Users(a)
    BY SMTT(60) DEF Stoppers, Users
  <2>5. Pins(a) # 0
    BY SMTT(60), <2>1, <2>3, <2>4 DEF Owned, Pins
  <2> QED
    BY SMTT(60), <2>1, <2>2, <2>5 DEF Counted
<1> QED
  BY <1>1, Always, PTL

\* An idle pool leaves neither an ai nor a schedule without a device object
\* that somebody refers to (the stopper of edgex_device_release frees both).
THEOREM IdleLeavesNothing == Spec => []NothingLeft
<1>1. ASSUME IInv PROVE NothingLeft
  <2> SUFFICES ASSUME queue = <<>>, \A w \in Workers : worker[w] = Idle,
                      NEW a \in Ais, ai[a].state = "live" \/ a \in sched
               PROVE  Refs(a) > 0
    BY SMTT(60) DEF NothingLeft
  <2>1. Counted(a) /\ (a \in sched => Owned(a)) /\ Typed /\ NULL \notin Ais
    BY SMTT(60), <1>1, AutoEventAssumption DEF IInv
  <2>2. Users(a) = {} /\ Stoppers(a) = {} /\ StopsQueued(a) = {}
    BY SMTT(60), <2>1 DEF Users, Stoppers, StopsQueued, Idle
  <2>3. Cardinality({}) = 0
    BY SMTT(60), FS_EmptySet
  <2>4. CASE ai[a].state = "live"
    <3>1. Pins(a) # 0
      BY SMTT(60), <2>1, <2>4 DEF Counted
    <3> QED
      BY SMTT(60), <2>1, <2>2, <2>3, <3>1, Numbers DEF Pins
  <2>5. CASE a \in sched
    BY SMTT(60), <2>1, <2>2, <2>5 DEF Owned
  <2> QED
    BY SMTT(60), <2>4, <2>5
<1> QED
  BY <1>1, Always, PTL

\* A reading is compared only with one whose push succeeded.
THEOREM OnlySentRemembered == Spec => []RememberedWasSent
<1>1. IInv => RememberedWasSent
  BY DEF IInv, Recalled, RememberedWasSent
<1> QED
  BY <1>1, Always, PTL
=============================================================================
