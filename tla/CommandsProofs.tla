--------------------------- MODULE CommandsProofs ---------------------------
(***************************************************************************)
(* Proofs about Commands: for any devices, profiles, requests and any      *)
(* finite set of connection threads, references are balanced, locked       *)
(* devices are left alone, a command for all reaches every operational     *)
(* device, the status tells whether the command succeeded anywhere, and    *)
(* the reply to a GET has an event for every device that was read.         *)
(***************************************************************************)
EXTENDS Commands, FiniteSetTheorems, TLAPS

\* What a thread has done and has still to do.
Progress(t) ==
  /\ thread[t].cur \in thread[t].left \cup {NULL}
  /\ thread[t].pc \in {"call", "release"} => thread[t].cur # NULL
  /\ thread[t].pc \in {"idle", "done"} => thread[t].left = {}
  /\ thread[t].pc = "release" => thread[t].cur \in good[t] \cup bad[t]
  /\ thread[t].pc # "idle" => (thread[t].ret = 200 <=> good[t] # {})

\* A device that is operational, has been so since the request for all came
\* and has the command, is waiting for its turn or has had it.
Reached(t) ==
  thread[t].pc # "idle" /\ thread[t].req.all =>
    \A d \in steady[t] :
      up[d] /\ Command(d, thread[t].req) # NULL =>
        d \in thread[t].left \cup good[t] \cup bad[t]

\* LockedUntouched for one thread.
Untouched(t) ==
  \A d \in steady[t] : ~up[d] =>
    d \notin good[t] /\ ~(thread[t].pc = "call" /\ thread[t].cur = d)

\* The inductive invariant.
IInv == TypeOK /\ RefsBalanced /\ \A t \in Threads : Progress(t) /\ Reached(t) /\ Untouched(t)

\* The status codes that runOne can come to before it calls the driver.
LEMMA CheckCodes ==
  ASSUME NEW d, NEW r
  PROVE  /\ CheckStatus(d, r) \in {200, 400, 405, 423, 500}
         /\ CheckStatus(d, r) = 200 => up[d]
BY DEF CheckStatus, GetStatus, PutStatus, EntryStatus

\* Cardinality of a set of threads that one thread joins or leaves.
LEMMA CountStep ==
  ASSUME NEW S \in SUBSET Threads, NEW t \in Threads
  PROVE  /\ Cardinality(S) \in Nat
         /\ Cardinality(S \cup {t}) = IF t \in S THEN Cardinality(S) ELSE Cardinality(S) + 1
         /\ Cardinality(S \ {t}) = IF t \in S THEN Cardinality(S) - 1 ELSE Cardinality(S)
<1>1. IsFiniteSet(S)
  BY CommandsAssumption, FS_Subset
<1> QED
  BY <1>1, FS_CardinalityType, FS_AddElement, FS_RemoveElement

LEMMA Concat ==
  ASSUME NEW x \in Seq(Encodings), NEW y \in Seq(Encodings)
  PROVE  x \o y \in Seq(Encodings)
OBVIOUS

LEMMA InitInv == Init => IInv
<1> SUFFICES ASSUME Init PROVE IInv
  OBVIOUS
<1> USE CommandsAssumption
<1>1. Idle \in ThreadRec
  BY DEF Idle, State, ThreadRec
<1>2. TypeOK
  BY <1>1 DEF Init, TypeOK, Idle, State
<1>3. RefsBalanced
  <2>1. \A d \in Devices : {t \in Threads : d \in thread[t].left} = {}
    BY DEF Init, Idle, State
  <2> QED
    BY Zenon, <2>1, FS_EmptySet DEF Init, RefsBalanced
<1> QED
  BY <1>2, <1>3 DEF Init, IInv, Progress, Reached, Untouched, Idle, State

\* A step of thread t, seen from outside: it changes only what belongs to t,
\* and the count of the devices that t takes or gives back.
StepOf(t) ==
  /\ UNCHANGED devs
  /\ thread' \in [Threads -> ThreadRec] /\ steady' \in [Threads -> SUBSET Devices]
  /\ good' \in [Threads -> SUBSET Devices] /\ bad' \in [Threads -> SUBSET Devices]
  /\ \A u \in Threads \ {t} : /\ thread'[u] = thread[u] /\ good'[u] = good[u]
                              /\ bad'[u] = bad[u] /\ steady'[u] = steady[u]
  /\ refs' \in [Devices -> Int]
  /\ \A d \in Devices :
       refs'[d] = IF d \in thread'[t].left /\ d \notin thread[t].left THEN refs[d] + 1
                  ELSE IF d \notin thread'[t].left /\ d \in thread[t].left THEN refs[d] - 1
                  ELSE refs[d]

LEMMA ThreadStep ==
  ASSUME IInv, NEW t \in Threads, StepOf(t), Progress(t)', Reached(t)', Untouched(t)'
  PROVE  IInv'
<1>1. /\ UNCHANGED devs
      /\ thread' \in [Threads -> ThreadRec] /\ steady' \in [Threads -> SUBSET Devices]
      /\ good' \in [Threads -> SUBSET Devices] /\ bad' \in [Threads -> SUBSET Devices]
      /\ refs' \in [Devices -> Int]
  BY DEF StepOf
<1>2. \A u \in Threads \ {t} : /\ thread'[u] = thread[u] /\ good'[u] = good[u]
                               /\ bad'[u] = bad[u] /\ steady'[u] = steady[u]
  BY DEF StepOf
<1>3. ASSUME NEW d \in Devices
      PROVE  /\ refs'[d] \in Nat
             /\ refs'[d] = Cardinality({u \in Threads : d \in thread'[u].left})
  <2> DEFINE S == {u \in Threads : d \in thread[u].left}
             T == {u \in Threads : d \in thread'[u].left}
  <2>1. refs[d] = Cardinality(S) /\ S \in SUBSET Threads /\ T \in SUBSET Threads
    BY DEF IInv, RefsBalanced
  <2>2. T = IF d \in thread'[t].left THEN S \cup {t} ELSE S \ {t}
    BY <1>2
  <2>3. /\ t \in S <=> d \in thread[t].left
        /\ refs'[d] = IF d \in thread'[t].left /\ d \notin thread[t].left THEN refs[d] + 1
                      ELSE IF d \notin thread'[t].left /\ d \in thread[t].left THEN refs[d] - 1
                      ELSE refs[d]
    BY DEF StepOf
  <2> HIDE DEF S, T
  <2>4. /\ Cardinality(T) \in Nat /\ Cardinality(S) \in Nat
        /\ Cardinality(S \cup {t}) = IF t \in S THEN Cardinality(S) ELSE Cardinality(S) + 1
        /\ Cardinality(S \ {t}) = IF t \in S THEN Cardinality(S) - 1 ELSE Cardinality(S)
    BY Zenon, <2>1, CountStep
  <2>5. refs'[d] = Cardinality(T)
    BY <2>1, <2>2, <2>3, <2>4
  <2> QED
    BY <2>4, <2>5 DEF T
<1>4. TypeOK' /\ RefsBalanced'
  <2>1. refs' \in [Devices -> Nat]
    BY Zenon, <1>1, <1>3
  <2>2. \A u \in Threads : thread'[u].cur \in thread'[u].left \cup {NULL}
    BY <1>2 DEF IInv, TypeOK, Progress
  <2>3. TypeOK'
    BY <1>1, <2>1, <2>2 DEF IInv, TypeOK, devs
  <2> QED
    BY <1>3, <2>3 DEF RefsBalanced
<1>5. ASSUME NEW u \in Threads \ {t}
      PROVE  Progress(u)' /\ Reached(u)' /\ Untouched(u)'
  <2>1. Progress(u)'
    BY <1>2, <1>5 DEF IInv, Progress
  <2>2. Reached(u)'
    BY <1>1, <1>2, <1>5 DEF IInv, Reached, Command, devs
  <2>3. Untouched(u)'
    BY <1>1, <1>2, <1>5 DEF IInv, Untouched, devs
  <2> QED
    BY SMTT(60), <2>1, <2>2, <2>3
<1> QED
  BY <1>4, <1>5 DEF IInv

\* A callback takes a device out of the steady ones of every thread.
LEMMA CallbackStep ==
  ASSUME IInv, NEW d \in Devices, Unsteady(d),
         UNCHANGED <<prof, refs, thread, good, bad>>,
         up' \in [Devices -> BOOLEAN], \A e \in Devices : e # d => up'[e] = up[e],
         present' \subseteq Devices, changes' \in 0..MaxChanges
  PROVE  IInv'
<1>1. /\ steady' \in [Threads -> SUBSET Devices]
      /\ \A u \in Threads : steady'[u] = steady[u] \ {d} /\ steady[u] \subseteq Devices
  BY DEF IInv, TypeOK, Unsteady
<1>2. TypeOK' /\ RefsBalanced'
  BY <1>1 DEF IInv, TypeOK, RefsBalanced
<1>3. ASSUME NEW u \in Threads
      PROVE  Progress(u)' /\ Reached(u)' /\ Untouched(u)'
  <2>1. Progress(u)'
    BY DEF IInv, Progress
  <2>2. Reached(u)'
    BY <1>1 DEF IInv, Reached, Command
  <2>3. Untouched(u)'
    BY <1>1 DEF IInv, Untouched
  <2> QED
    BY <2>1, <2>2, <2>3
<1> QED
  BY <1>2, <1>3 DEF IInv

LEMMA BeginStep ==
  ASSUME IInv, NEW t \in Threads, NEW q \in Requests, Begin(t, q)
  PROVE  IInv'
<1> DEFINE F == Found(q)
           r == State(IF F = {} THEN "done" ELSE "check", q, F, NULL, NoCommand(q), <<>>)
<1>1. /\ thread[t] \in ThreadRec /\ thread[t].pc = "idle" /\ thread[t].left = {}
      /\ present \subseteq Devices /\ refs \in [Devices -> Nat]
      /\ good \in [Threads -> SUBSET Devices] /\ bad \in [Threads -> SUBSET Devices]
  BY DEF Begin, IInv, TypeOK, Progress
<1>2. F \subseteq Devices
  BY <1>1 DEF Found
<1>3. NoCommand(q) \in {404, 405}
  BY DEF NoCommand
<1>4. /\ thread' = [thread EXCEPT ![t] = r] /\ UNCHANGED devs
      /\ good' = [good EXCEPT ![t] = {}] /\ bad' = [bad EXCEPT ![t] = {}]
      /\ steady' = [steady EXCEPT ![t] = present]
      /\ refs' = [d \in Devices |-> refs[d] + (IF d \in F THEN 1 ELSE 0)]
  BY DEF Begin
<1>5. /\ r \in ThreadRec /\ r.left = F /\ r.req = q /\ r.cur = NULL
      /\ r.ret # 200 /\ r.pc = IF F = {} THEN "done" ELSE "check"
  BY <1>2, <1>3 DEF Idle, State, ThreadRec
<1>7. thread'[t] = r /\ good'[t] = {} /\ bad'[t] = {} /\ steady'[t] = present
  BY <1>4 DEF IInv, TypeOK
<1>8. q.all => \A d \in present : up[d] /\ Command(d, q) # NULL => d \in F
  BY DEF Found
<1>9. UNCHANGED <<up, prof>>
  BY <1>4 DEF devs
<1> HIDE DEF r, F
<1>10. Progress(t)'
  BY <1>5, <1>7 DEF Progress
<1>11. Reached(t)'
  BY <1>5, <1>7, <1>8, <1>9 DEF Reached, Command
<1>12. Untouched(t)'
  BY <1>5, <1>7 DEF Untouched
<1>13. StepOf(t)
  BY <1>1, <1>4, <1>5, <1>7 DEF StepOf, IInv, TypeOK
<1> QED
  BY SMTT(60), <1>10, <1>11, <1>12, <1>13, ThreadStep

LEMMA CheckStep ==
  ASSUME IInv, NEW t \in Threads, NEW d \in Devices, Check(t, d)
  PROVE  IInv'
<1>1. PICK c \in {200, 400, 405, 423, 500} :
        c = CheckStatus(d, thread[t].req) /\ (c = 200 => up[d])
  BY CheckCodes
<1>2. PICK me \in ThreadRec : me = thread[t]
  BY DEF IInv, TypeOK
<1>3. PICK k \in {0, 200, 400, 404, 405, 423, 500} : k = Ret(me.ret, c)
  BY SMTT(60) DEF Ret, ThreadRec
<1> DEFINE r == IF c = 200 THEN State("call", me.req, me.left, d, me.ret, me.events)
                ELSE State("release", me.req, me.left, d, k, me.events)
           b == IF c = 200 THEN bad[t] ELSE bad[t] \cup {d}
<1>4. /\ me.pc = "check" /\ d \in me.left
      /\ thread' = [thread EXCEPT ![t] = r] /\ UNCHANGED <<devs, refs, good, steady>>
      /\ bad' = [bad EXCEPT ![t] = b]
  BY <1>1, <1>2, <1>3 DEF Check, IInv, TypeOK
<1>5. /\ r \in ThreadRec /\ r.left = me.left /\ r.cur = d /\ r.req = me.req
      /\ c = 200 => r.pc = "call" /\ r.ret = me.ret
      /\ c # 200 => r.pc = "release" /\ r.ret = k
  BY DEF ThreadRec, State
<1>6. c # 200 => (k = 200 <=> me.ret = 200)
  BY SMTT(60), <1>3 DEF Ret
<1>7. /\ thread'[t] = r /\ good'[t] = good[t] /\ bad'[t] = b /\ steady'[t] = steady[t]
      /\ good[t] \in SUBSET Devices /\ b \in SUBSET Devices /\ steady[t] \in SUBSET Devices
      /\ UNCHANGED <<up, prof>>
      /\ good' = [good EXCEPT ![t] = good[t]] /\ steady' = [steady EXCEPT ![t] = steady[t]]
      /\ refs' \in [Devices -> Int]
  BY <1>4 DEF IInv, TypeOK, devs
<1>8. /\ bad[t] \subseteq b /\ (c # 200 => d \in b)
      /\ Progress(t) /\ Reached(t) /\ Untouched(t)
  BY DEF IInv
<1> HIDE DEF r, b
<1>9. Progress(t)'
  BY SMTT(60), CommandsAssumption, <1>2, <1>4, <1>5, <1>6, <1>7, <1>8 DEF Progress
<1>10. Reached(t)'
  BY SMTT(60), <1>2, <1>4, <1>5, <1>7, <1>8 DEF Reached, Command
<1>11. Untouched(t)'
  BY SMTT(60), <1>1, <1>2, <1>5, <1>7, <1>8 DEF Untouched
<1>12. StepOf(t)
  BY <1>2, <1>4, <1>5, <1>7 DEF StepOf, IInv, TypeOK
<1> QED
  BY <1>9, <1>10, <1>11, <1>12, ThreadStep

\* The driver was called, and returned: c is the status of the device, e the
\* events it adds to the reply.
Returned(t, c, e) ==
  /\ thread[t].pc = "call"
  /\ thread' = [thread EXCEPT ![t] =
       State("release", thread[t].req, thread[t].left, thread[t].cur,
             Ret(thread[t].ret, c), thread[t].events \o e)]
  /\ good' = [good EXCEPT ![t] = IF c = 200 THEN @ \cup {thread[t].cur} ELSE @]
  /\ bad' = [bad EXCEPT ![t] = IF c = 200 THEN @ ELSE @ \cup {thread[t].cur}]
  /\ UNCHANGED <<devs, refs, steady>>

LEMMA CallStep ==
  ASSUME IInv, NEW t \in Threads, NEW c \in {200, 500}, NEW e \in Seq(Encodings),
         Returned(t, c, e)
  PROVE  IInv'
<1>1. PICK me \in ThreadRec : me = thread[t]
  BY DEF IInv, TypeOK
<1>2. PICK d \in Devices : d = me.cur /\ d \in me.left
  BY <1>1 DEF Returned, IInv, Progress, ThreadRec
<1>3. PICK k \in {0, 200, 400, 404, 405, 423, 500} : k = Ret(me.ret, c)
  BY DEF Ret, ThreadRec
<1>4. PICK ev \in Seq(Encodings) : ev = me.events \o e
  <2>1. me.events \in Seq(Encodings)
    BY DEF ThreadRec
  <2>2. me.events \o e \in Seq(Encodings)
    BY <2>1, Concat
  <2> QED
    BY ZenonT(40), <2>2
<1> DEFINE r == State("release", me.req, me.left, d, k, ev)
           g == IF c = 200 THEN good[t] \cup {d} ELSE good[t]
           b == IF c = 200 THEN bad[t] ELSE bad[t] \cup {d}
<1>5. /\ thread' = [thread EXCEPT ![t] = r]
      /\ good' = [good EXCEPT ![t] = g] /\ bad' = [bad EXCEPT ![t] = b]
  BY <1>1, <1>2, <1>3, <1>4 DEF Returned, IInv, TypeOK
<1>6. /\ r \in ThreadRec /\ r.left = me.left /\ r.cur = d /\ r.req = me.req
      /\ r.pc = "release" /\ r.ret = k
  BY DEF ThreadRec, State
<1>7. k = 200 <=> (c = 200 \/ me.ret = 200)
  BY <1>3 DEF Ret
<1>8. /\ thread'[t] = r /\ good'[t] = g /\ bad'[t] = b /\ steady'[t] = steady[t]
      /\ g \in SUBSET Devices /\ b \in SUBSET Devices /\ steady[t] \in SUBSET Devices
      /\ UNCHANGED <<up, prof>> /\ steady' = [steady EXCEPT ![t] = steady[t]]
      /\ refs' \in [Devices -> Int] /\ refs' = refs
  <2>1. /\ thread \in [Threads -> ThreadRec] /\ steady \in [Threads -> SUBSET Devices]
        /\ good \in [Threads -> SUBSET Devices] /\ bad \in [Threads -> SUBSET Devices]
        /\ refs \in [Devices -> Nat] /\ refs' = refs /\ steady' = steady
        /\ UNCHANGED <<up, prof>>
    BY DEF Returned, IInv, TypeOK, devs
  <2>2. thread'[t] = r /\ good'[t] = g /\ bad'[t] = b
    BY <1>5, <2>1
  <2>3. g \in SUBSET Devices /\ b \in SUBSET Devices
    BY <2>1
  <2> QED
    BY SMTT(60), <2>1, <2>2, <2>3
<1>9. /\ good[t] \subseteq g /\ bad[t] \subseteq b /\ d \in g \cup b
      /\ thread[t].pc = "call"
      /\ g \subseteq good[t] \cup {d} /\ (c = 200 => d \in g) /\ (c # 200 => g = good[t])
      /\ Progress(t) /\ Reached(t) /\ Untouched(t)
  BY DEF IInv, Returned
<1> HIDE DEF r, g, b
<1>10. Progress(t)'
  BY SMTT(60), CommandsAssumption, <1>1, <1>2, <1>6, <1>7, <1>8, <1>9 DEF Progress
<1>11. Reached(t)'
  BY SMTT(60), <1>1, <1>2, <1>6, <1>8, <1>9 DEF Reached, Command
<1>12. Untouched(t)'
  BY SMTT(60), <1>1, <1>2, <1>6, <1>8, <1>9 DEF Untouched
<1>13. StepOf(t)
  <2>1. UNCHANGED devs
    BY DEF Returned
  <2> QED
    BY SMTT(60), <1>1, <1>5, <1>6, <1>8, <2>1 DEF StepOf, IInv, TypeOK
<1> QED
  BY SMTT(60), <1>10, <1>11, <1>12, <1>13, ThreadStep

LEMMA ReleaseStep ==
  ASSUME IInv, NEW t \in Threads, Release(t)
  PROVE  IInv'
<1>1. PICK me \in ThreadRec : me = thread[t]
  BY DEF IInv, TypeOK
<1>2. PICK d \in Devices : d = me.cur /\ d \in me.left /\ d \in good[t] \cup bad[t]
  BY <1>1 DEF Release, IInv, Progress, ThreadRec
<1>3. PICK rest \in SUBSET Devices : rest = me.left \ {d}
  BY ZenonT(40) DEF ThreadRec
<1> DEFINE r == State(IF rest = {} THEN "done" ELSE "check", me.req, rest, NULL,
                      me.ret, me.events)
<1>4. /\ me.pc = "release" /\ thread' = [thread EXCEPT ![t] = r]
      /\ refs' = [refs EXCEPT ![d] = @ - 1] /\ UNCHANGED <<devs, good, bad, steady>>
  BY <1>1, <1>2, <1>3 DEF Release, hist
<1>5. /\ r \in ThreadRec /\ r.left = rest /\ r.cur = NULL /\ r.req = me.req
      /\ r.pc = (IF rest = {} THEN "done" ELSE "check") /\ r.ret = me.ret
  BY DEF ThreadRec, State
<1>6. /\ thread'[t] = r /\ UNCHANGED <<up, prof>>
      /\ refs \in [Devices -> Nat] /\ refs' \in [Devices -> Int]
      /\ Progress(t) /\ Reached(t) /\ Untouched(t)
  BY <1>4 DEF IInv, TypeOK, devs
<1> HIDE DEF r
<1>7. Progress(t)'
  BY <1>1, <1>4, <1>5, <1>6 DEF Progress
<1>8. Reached(t)'
  BY <1>1, <1>2, <1>3, <1>4, <1>5, <1>6 DEF Reached, Command
<1>9. Untouched(t)'
  BY SMTT(60), <1>1, <1>4, <1>5, <1>6 DEF Untouched
<1>10. StepOf(t)
  <2>1. \A x \in Devices :
          refs'[x] = IF x \in r.left /\ x \notin me.left THEN refs[x] + 1
                     ELSE IF x \notin r.left /\ x \in me.left THEN refs[x] - 1
                     ELSE refs[x]
    BY <1>2, <1>3, <1>4, <1>5, <1>6
  <2> QED
    BY SMTT(60), <1>1, <1>4, <1>5, <1>6, <2>1 DEF StepOf, IInv, TypeOK
<1> QED
  BY SMTT(60), <1>7, <1>8, <1>9, <1>10, ThreadStep

LEMMA AnswerStep ==
  ASSUME IInv, NEW t \in Threads, Answer(t)
  PROVE  IInv'
<1>1. PICK me \in ThreadRec : me = thread[t]
  BY DEF IInv, TypeOK
<1>2. /\ me.pc = "done" /\ me.left = {}
      /\ thread' = [thread EXCEPT ![t] = Idle] /\ UNCHANGED <<devs, refs>>
      /\ good' = [good EXCEPT ![t] = {}] /\ bad' = [bad EXCEPT ![t] = {}]
      /\ steady' = [steady EXCEPT ![t] = {}]
  BY <1>1 DEF Answer, IInv, Progress
<1>3. Idle \in ThreadRec /\ Idle.left = {} /\ Idle.pc = "idle" /\ Idle.cur = NULL
  BY SMTT(60) DEF Idle, State, ThreadRec
<1>4. /\ thread'[t] = Idle /\ good'[t] = {} /\ steady'[t] = {}
      /\ UNCHANGED <<up, prof>> /\ refs' \in [Devices -> Int]
  BY <1>2 DEF IInv, TypeOK, devs
<1>5. Progress(t)' /\ Reached(t)' /\ Untouched(t)'
  BY SMTT(60), <1>1, <1>2, <1>3, <1>4 DEF Progress, Reached, Untouched
<1>6. StepOf(t)
  BY <1>1, <1>2, <1>3, <1>4 DEF StepOf, IInv, TypeOK
<1> QED
  BY SMTT(60), <1>5, <1>6, ThreadStep

\* Every step preserves the invariant.
LEMMA NextInv == IInv /\ [Next]_vars => IInv'
<1> SUFFICES ASSUME IInv, [Next]_vars PROVE IInv'
  OBVIOUS
<1>1. ASSUME NEW d \in Devices, SetState(d)
      PROVE  IInv'
  <2>1. /\ up' \in [Devices -> BOOLEAN] /\ \A e \in Devices : e # d => up'[e] = up[e]
        /\ present' \subseteq Devices /\ changes' \in 0..MaxChanges
    BY <1>1, CommandsAssumption DEF SetState, IInv, TypeOK
  <2> QED
    BY SMTT(60), <1>1, <2>1, CallbackStep DEF SetState
<1>2. ASSUME NEW d \in Devices, RemoveDevice(d)
      PROVE  IInv'
  <2>1. /\ up' \in [Devices -> BOOLEAN] /\ \A e \in Devices : e # d => up'[e] = up[e]
        /\ present' \subseteq Devices /\ changes' \in 0..MaxChanges
    BY <1>2, CommandsAssumption DEF RemoveDevice, IInv, TypeOK
  <2> QED
    BY SMTT(60), <1>2, <2>1, CallbackStep DEF RemoveDevice
<1>3. ASSUME NEW t \in Threads, CallOK(t)
      PROVE  IInv'
  <2>1. thread[t].cur \in Devices
    BY <1>3 DEF CallOK, IInv, TypeOK, Progress, ThreadRec
  <2>2. PICK e \in Seq(Encodings) :
          e = IF thread[t].req.get THEN <<prof[thread[t].cur].enc>> ELSE <<>>
    <3>1. prof[thread[t].cur].enc \in Encodings
      BY <2>1, CommandsAssumption DEF IInv, TypeOK
    <3>2. <<prof[thread[t].cur].enc>> \in Seq(Encodings) /\ <<>> \in Seq(Encodings)
      BY <3>1
    <3> QED
      BY Zenon, <3>2
  <2>3. PICK c \in {200, 500} : c = 200
    BY SMTT(60)
  <2>4. Returned(t, c, e)
    BY <1>3, <2>2, <2>3 DEF CallOK, Returned, IInv, TypeOK
  <2> QED
    BY ZenonT(40), <2>4, CallStep
<1>4. ASSUME NEW t \in Threads, CallFails(t)
      PROVE  IInv'
  <2>1. thread[t].events \in Seq(Encodings)
    BY DEF IInv, TypeOK, ThreadRec
  <2>2. thread[t].events \o <<>> = thread[t].events
    BY <2>1
  <2>3. PICK c \in {200, 500} : c = 500
    OBVIOUS
  <2>4. PICK e \in Seq(Encodings) : e = <<>>
    <3>1. <<>> \in Seq(Encodings)
      OBVIOUS
    <3> QED
      BY ZenonT(60), <3>1
  <2>5. Returned(t, c, e)
    BY <1>4, <2>2, <2>3, <2>4 DEF CallFails, Returned, IInv, TypeOK
  <2> QED
    BY ZenonT(40), <2>5, CallStep
<1>5. CASE UNCHANGED vars
  <2>1. TypeOK'
    BY <1>5 DEF vars, devs, hist, IInv, TypeOK
  <2>2. RefsBalanced'
    BY SMTT(60), <1>5 DEF vars, devs, hist, IInv, RefsBalanced
  <2>3. ASSUME NEW t \in Threads PROVE (Progress(t) /\ Reached(t) /\ Untouched(t))'
    BY <1>5 DEF vars, devs, hist, IInv, Progress, Reached, Untouched, Command
  <2> QED
    BY SMTT(60), <2>1, <2>2, <2>3 DEF IInv
<1> QED
  BY SMTT(60), <1>1, <1>2, <1>3, <1>4, <1>5, BeginStep, CheckStep, ReleaseStep, AnswerStep
     DEF Next, Step

\* Every behaviour keeps the invariant.
LEMMA InvAlways == Spec => []IInv
BY InitInv, NextInv, PTL DEF Spec

\* Every variable has its type, whatever requests and callbacks come.
THEOREM TypeCorrect == Spec => []TypeOK
<1>1. IInv => TypeOK
  BY DEF IInv
<1> QED
  BY <1>1, InvAlways, PTL

\* Requests give back exactly the references they took.
THEOREM Balanced == Spec => []RefsBalanced
<1>1. IInv => RefsBalanced
  BY SMTT(60) DEF IInv
<1> QED
  BY <1>1, InvAlways, PTL

\* A command for all reaches every operational device.
THEOREM EveryDeviceReached == Spec => []AllReached
<1>1. IInv => AllReached
  BY DEF IInv, AllReached, Reached, Progress, Done
<1> QED
  BY <1>1, InvAlways, PTL

\* The driver is not called for a device that is locked.
THEOREM LockedLeftAlone == Spec => []LockedUntouched
<1>1. IInv => LockedUntouched
  BY SMTT(60) DEF IInv, LockedUntouched, Untouched
<1> QED
  BY <1>1, InvAlways, PTL

\* 200 is answered exactly if the command succeeded somewhere.
THEOREM HonestStatus == Spec => []StatusHonest
<1>1. IInv => StatusHonest
  BY DEF IInv, StatusHonest, Progress, Done
<1> QED
  BY <1>1, InvAlways, PTL
-----------------------------------------------------------------------------
(* The reply to a GET.                                                     *)

\* A device is read at most once: it is no longer among those left, except
\* while it is being released, so each event in the reply is of another one.
Counted(t) ==
  /\ IsFiniteSet(good[t])
  /\ \A d \in good[t] \cap thread[t].left : thread[t].pc = "release" /\ d = thread[t].cur
  /\ thread[t].pc # "idle" /\ thread[t].req.get =>
       Len(thread[t].events) = Cardinality(good[t])

RInv == \A t \in Threads : Counted(t)

\* A device that was not read before counts once more.
LEMMA OneMore ==
  ASSUME NEW S, IsFiniteSet(S), NEW d, d \notin S
  PROVE  IsFiniteSet(S \cup {d}) /\ Cardinality(S \cup {d}) = Cardinality(S) + 1
BY FS_AddElement

\* One event more in the reply.
LEMMA OneLonger ==
  ASSUME NEW s \in Seq(Encodings), NEW e \in Encodings
  PROVE  Len(s \o <<e>>) = Len(s) + 1
BY SMTT(60)

\* Only a step of a thread changes what the thread has counted.
LEMMA OthersCounted ==
  ASSUME RInv, NEW t \in Threads, Counted(t)',
         \A u \in Threads \ {t} : thread'[u] = thread[u] /\ good'[u] = good[u]
  PROVE  RInv'
<1> SUFFICES ASSUME NEW u \in Threads, u # t PROVE Counted(u)'
  BY DEF RInv
<1>1. thread'[u] = thread[u] /\ good'[u] = good[u] /\ Counted(u)
  BY SMTT(60) DEF RInv
<1> QED
  BY <1>1 DEF Counted

LEMMA CheckCounted ==
  ASSUME IInv, RInv, NEW t \in Threads, NEW d \in Devices, Check(t, d)
  PROVE  RInv'
<1>1. PICK me \in ThreadRec : me = thread[t]
  BY DEF IInv, TypeOK
<1>2. /\ me.pc = "check" /\ good' = good
      /\ \E pc, k : /\ pc \in {"call", "release"}
                    /\ thread' = [thread EXCEPT ![t] =
                                    State(pc, me.req, me.left, d, k, me.events)]
  BY <1>1 DEF Check
<1>3. PICK pc, k : /\ pc \in {"call", "release"}
                   /\ thread' = [thread EXCEPT ![t] =
                                   State(pc, me.req, me.left, d, k, me.events)]
  BY Zenon, <1>2
<1>4. /\ thread'[t].pc = pc /\ thread'[t].req = me.req /\ thread'[t].left = me.left
      /\ thread'[t].events = me.events
      /\ \A u \in Threads \ {t} : thread'[u] = thread[u]
  BY SMTT(60), <1>3 DEF State, IInv, TypeOK
<1>5. Counted(t)'
  BY <1>1, <1>2, <1>4 DEF RInv, Counted
<1> QED
  BY SMTT(60), <1>2, <1>4, <1>5, OthersCounted

LEMMA BeginCounted ==
  ASSUME IInv, RInv, NEW t \in Threads, NEW q \in Requests, Begin(t, q)
  PROVE  RInv'
<1>1. /\ thread'[t].events = <<>> /\ good'[t] = {}
      /\ \A u \in Threads \ {t} : thread'[u] = thread[u] /\ good'[u] = good[u]
  BY DEF Begin, State, IInv, TypeOK
<1>2. IsFiniteSet({}) /\ Cardinality({}) = 0
  BY FS_EmptySet
<1>3. Counted(t)'
  BY <1>1, <1>2 DEF Counted
<1> QED
  BY SMTT(60), <1>1, <1>3, OthersCounted

LEMMA AnswerCounted ==
  ASSUME IInv, RInv, NEW t \in Threads, Answer(t)
  PROVE  RInv'
<1>1. /\ thread'[t].pc = "idle" /\ good'[t] = {}
      /\ \A u \in Threads \ {t} : thread'[u] = thread[u] /\ good'[u] = good[u]
  BY DEF Answer, Idle, State, IInv, TypeOK
<1>2. Counted(t)'
  BY <1>1, FS_EmptySet DEF Counted
<1> QED
  BY SMTT(60), <1>1, <1>2, OthersCounted

LEMMA ReleaseCounted ==
  ASSUME IInv, RInv, NEW t \in Threads, Release(t)
  PROVE  RInv'
<1>1. PICK me \in ThreadRec : me = thread[t]
  BY SMTT(60) DEF IInv, TypeOK
<1>2. /\ me.pc = "release" /\ good' = good
      /\ thread'[t].req = me.req /\ thread'[t].left = me.left \ {me.cur}
      /\ thread'[t].events = me.events
      /\ \A u \in Threads \ {t} : thread'[u] = thread[u]
  BY <1>1 DEF Release, State, IInv, TypeOK, hist
<1>3. Counted(t)'
  BY SMTT(60), <1>1, <1>2 DEF RInv, Counted
<1> QED
  BY <1>2, <1>3, OthersCounted

LEMMA CallOKCounted ==
  ASSUME IInv, RInv, NEW t \in Threads, CallOK(t)
  PROVE  RInv'
<1>1. PICK me \in ThreadRec : me = thread[t]
  BY DEF IInv, TypeOK
<1>2. PICK d \in Devices : d = me.cur /\ d \in me.left
  BY SMTT(60), <1>1 DEF CallOK, IInv, Progress, ThreadRec
<1>3. PICK e \in Encodings : e = prof[d].enc
  BY CommandsAssumption DEF IInv, TypeOK
<1>4. /\ me.pc = "call" /\ good'[t] = good[t] \cup {d}
      /\ thread'[t].pc = "release" /\ thread'[t].cur = d
      /\ thread'[t].req = me.req /\ thread'[t].left = me.left
      /\ me.req.get => thread'[t].events = me.events \o <<e>>
      /\ \A u \in Threads \ {t} : thread'[u] = thread[u] /\ good'[u] = good[u]
  BY ZenonT(40), <1>1, <1>2, <1>3 DEF CallOK, State, IInv, TypeOK
<1>5. /\ IsFiniteSet(good[t]) /\ d \notin good[t] /\ good[t] \cap me.left = {}
      /\ me.req.get => Len(me.events) = Cardinality(good[t])
  BY SMTT(60), <1>1, <1>2, <1>4 DEF RInv, Counted
<1>6. IsFiniteSet(good'[t]) /\ Cardinality(good'[t]) = Cardinality(good[t]) + 1
  BY <1>4, <1>5, OneMore
<1>7. me.req.get => Len(thread'[t].events) = Len(me.events) + 1
  <2>1. me.events \in Seq(Encodings)
    BY SMTT(60) DEF ThreadRec
  <2> QED
    BY <1>4, <2>1, OneLonger
<1>8. Counted(t)'
  BY <1>4, <1>5, <1>6, <1>7 DEF Counted
<1> QED
  BY SMTT(60), <1>4, <1>8, OthersCounted

LEMMA CallFailsCounted ==
  ASSUME IInv, RInv, NEW t \in Threads, CallFails(t)
  PROVE  RInv'
<1>1. PICK me \in ThreadRec : me = thread[t]
  BY DEF IInv, TypeOK
<1>2. /\ me.pc = "call" /\ good' = good /\ thread'[t].req = me.req
      /\ thread'[t].left = me.left /\ thread'[t].events = me.events
      /\ \A u \in Threads \ {t} : thread'[u] = thread[u]
  BY SMTT(60), <1>1 DEF CallFails, State, IInv, TypeOK
<1>3. Counted(t)'
  BY <1>1, <1>2 DEF RInv, Counted
<1> QED
  BY SMTT(60), <1>2, <1>3, OthersCounted

LEMMA NextCounted == IInv /\ RInv /\ [Next]_vars => RInv'
<1> SUFFICES ASSUME IInv, RInv, [Next]_vars PROVE RInv'
  OBVIOUS
<1>1. ASSUME UNCHANGED <<thread, good>> PROVE RInv'
  BY <1>1 DEF RInv, Counted
<1>2. ASSUME NEW d \in Devices, SetState(d) \/ RemoveDevice(d) PROVE RInv'
  BY <1>1, <1>2 DEF SetState, RemoveDevice
<1>3. CASE UNCHANGED vars
  BY <1>1, <1>3 DEF vars, hist
<1> QED
  BY SMTT(60), <1>2, <1>3, BeginCounted, CheckCounted, CallOKCounted, CallFailsCounted,
     ReleaseCounted, AnswerCounted DEF Next, Step

\* The reply to a GET has one event for every device that was read.
THEOREM NoEventLost == Spec => []ReplyComplete
<1>1. Init => RInv
  <2>1. IsFiniteSet({})
    BY FS_EmptySet
  <2> QED
    BY <2>1 DEF Init, RInv, Counted, Idle, State
<1>2. IInv /\ RInv => ReplyComplete
  BY DEF RInv, Counted, ReplyComplete, Done
<1>3. Spec => [](IInv /\ RInv)
  BY <1>1, InitInv, NextInv, NextCounted, PTL DEF Spec
<1> QED
  BY <1>2, <1>3, PTL
=============================================================================
