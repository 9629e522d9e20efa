-------------------------- MODULE RadosGraceProofs --------------------------
(***************************************************************************)
(* Proofs about RadosGrace, for any number of members and callers: epochs  *)
(* stay adjacent, and every call amounts to one step on the object, so     *)
(* that GraceCluster may use calls as steps.                               *)
(***************************************************************************)
EXTENDS RadosGrace, FiniteSetTheorems, TLAPS

-----------------------------------------------------------------------------
(* Maps from members to flags.                                             *)

LEMMA FlagMapsElim ==
  ASSUME NEW f \in FlagMaps
  PROVE  /\ DOMAIN f \subseteq Nodes
         /\ f = [n \in DOMAIN f |-> f[n]]
         /\ \A n \in DOMAIN f : f[n] \in Flags
BY DEF FlagMaps

LEMMA FlagMapsIntro ==
  ASSUME NEW S, S \subseteq Nodes, NEW f \in [S -> Flags]
  PROVE  f \in FlagMaps
BY DEF FlagMaps

LEMMA OverTyped ==
  ASSUME NEW f \in FlagMaps, NEW g \in FlagMaps
  PROVE  /\ Over(f, g) \in FlagMaps
         /\ DOMAIN Over(f, g) = DOMAIN f \cup DOMAIN g
         /\ \A n \in DOMAIN g : Over(f, g)[n] = g[n]
<1>1. Over(f, g) \in [DOMAIN f \cup DOMAIN g -> Flags]
  BY FlagMapsElim DEF Over
<1>2. DOMAIN f \cup DOMAIN g \subseteq Nodes
  BY FlagMapsElim
<1>. QED  BY <1>1, <1>2, FlagMapsIntro DEF Over

LEMMA OnlyTyped ==
  ASSUME NEW f \in FlagMaps, NEW S
  PROVE  /\ Only(f, S) \in FlagMaps
         /\ DOMAIN Only(f, S) = DOMAIN f \cap S
         /\ \A n \in DOMAIN f \cap S : Only(f, S)[n] = f[n]
<1>1. Only(f, S) \in [DOMAIN f \cap S -> Flags]
  BY FlagMapsElim DEF Only
<1>2. DOMAIN f \cap S \subseteq Nodes
  BY FlagMapsElim
<1>. QED  BY <1>1, <1>2, FlagMapsIntro DEF Only

LEMMA NoFlagsTyped == NoFlags \in FlagMaps /\ DOMAIN NoFlags = {} /\ NewDb.omap \in FlagMaps
<1>1. NewDb.omap \in [{} -> Flags]
  BY DEF NewDb, Db
<1>2. NewDb.omap \in FlagMaps
  BY <1>1, FlagMapsIntro
<1>3. /\ Only(NewDb.omap, {}) \in FlagMaps
      /\ DOMAIN Only(NewDb.omap, {}) = DOMAIN NewDb.omap \cap {}
  BY Zenon, <1>2, OnlyTyped
<1>. QED  BY <1>2, <1>3 DEF NoFlags

-----------------------------------------------------------------------------
(* What a call writes.                                                     *)

\* The invariant of a database.
DbOK(d) == /\ d = Db(d.cur, d.rec, d.omap)
           /\ d.cur \in Nat \ {0}
           /\ d.rec \in {0, d.cur - 1}
           /\ d.omap \in FlagMaps

LEMMA WrittenOK ==
  ASSUME NEW d, DbOK(d), NEW op \in Ops, NEW S \in SUBSET Nodes,
         NEW seen \in FlagMaps, Writes(d, op, S, seen)
  PROVE  DbOK(Written(d, op, S, seen))
<1>1. CASE op \in {"start", "join"}
  <2>. DEFINE o == Over(d.omap, [n \in S |-> [need |-> TRUE, enforcing |-> TRUE]])
  <2>1. o \in FlagMaps
    <3>1. [n \in S |-> [need |-> TRUE, enforcing |-> TRUE]] \in FlagMaps
      BY Zenon, FlagMapsIntro DEF Flags
    <3>. QED  BY Zenon, <3>1, OverTyped DEF DbOK
  <2>2. Written(d, op, S, seen) = IF d.rec = 0 THEN Db(d.cur + 1, d.cur, o) ELSE Db(d.cur, d.rec, o)
    BY <1>1 DEF Written, JoinDb
  <2>. QED  BY <2>1, <2>2 DEF DbOK, Db
<1>2. CASE op \in {"enforce", "noenforce"}
  <2>. DEFINE g == [n \in S |-> [need |-> seen[n].need, enforcing |-> (op = "enforce")]]
  <2>1. S \subseteq DOMAIN seen
    BY Zenon, <1>2 DEF Writes
  <2>2. g \in [S -> Flags]
    BY <2>1, FlagMapsElim DEF Flags
  <2>3. Over(d.omap, g) \in FlagMaps
    BY Zenon, <2>2, FlagMapsIntro, OverTyped DEF DbOK
  <2>4. Written(d, op, S, seen) = Db(d.cur, d.rec, Over(d.omap, g))
    BY <1>2 DEF Written, ToggleDb
  <2>. QED  BY <2>3, <2>4 DEF DbOK, Db
<1>3. CASE op \in {"lift", "remove"}
  <2>. DEFINE keys == LiftKeys(d, S, op = "remove")
              g == [n \in keys |-> [need |-> FALSE, enforcing |-> d.omap[n].enforcing]]
              o == IF op = "remove" THEN Only(d.omap, Members(d) \ keys) ELSE Over(d.omap, g)
  <2>1. keys \subseteq DOMAIN d.omap
    BY DEF LiftKeys, Members
  <2>2. g \in [keys -> Flags] /\ keys \subseteq Nodes
    BY <2>1, FlagMapsElim DEF DbOK, Flags
  <2>3. Over(d.omap, g) \in FlagMaps
    BY Zenon, <2>2, FlagMapsIntro, OverTyped DEF DbOK
  <2>4. Only(d.omap, Members(d) \ keys) \in FlagMaps
    BY Zenon, OnlyTyped DEF DbOK
  <2>5. o \in FlagMaps
    BY <2>3, <2>4
  <2>6. \E r \in {0, d.rec} : Written(d, op, S, seen) = Db(d.cur, r, o)
    BY <1>3 DEF Written, LiftDb
  <2>. QED  BY <2>5, <2>6 DEF DbOK, Db
<1>4. CASE op = "add"
  <2>1. [n \in S |-> [need |-> FALSE, enforcing |-> TRUE]] \in FlagMaps
    BY Zenon, FlagMapsIntro DEF Flags
  <2>2. Written(d, op, S, seen)
          = Db(d.cur, d.rec, Over(d.omap, [n \in S |-> [need |-> FALSE, enforcing |-> TRUE]]))
    BY <1>4 DEF Written, AddDb
  <2>3. Over(d.omap, [n \in S |-> [need |-> FALSE, enforcing |-> TRUE]]) \in FlagMaps
    BY Zenon, <2>1, OverTyped DEF DbOK
  <2>. QED  BY <2>2, <2>3 DEF DbOK, Db
<1>. QED  BY <1>1, <1>2, <1>3, <1>4 DEF Ops

-----------------------------------------------------------------------------
(* The inductive invariant.                                                *)

\* A call under way matched nodes that are members or have been removed. If
\* the version is still the one it read, what it is about to write follows
\* from what the object holds now.
CallOK(k) ==
  /\ k.op \in Ops /\ k.S \in Groups
  /\ k.seen \in FlagMaps /\ DOMAIN k.seen \subseteq k.S \cap (gone \cup DOMAIN omap)
  /\ k.fresh \in BOOLEAN
  /\ k.fresh => /\ \A n \in DOMAIN omap \cap k.S : n \in DOMAIN k.seen /\ k.seen[n] = omap[n]
                /\ Writes(obj, k.op, k.S, k.seen)
                /\ k.out = Written(obj, k.op, k.S, k.seen)

IInv == /\ blob = <<blob[1], blob[2]>> /\ DbOK(obj) /\ gone \subseteq Nodes
        /\ call = [c \in Callers |-> call[c]]
        /\ \A c \in Callers : call[c].op # NULL => CallOK(call[c])

LEMMA InitIInv == Init => IInv
<1>. SUFFICES ASSUME Init PROVE IInv
  OBVIOUS
<1>1. obj = NewDb
  BY DEF Init, obj, NewDb, Db
<1>2. DbOK(obj)
  BY <1>1, NoFlagsTyped DEF DbOK, NewDb, Db
<1>3. \A c \in Callers : call[c].op = NULL
  BY DEF Init, Idle, Call
<1>. QED  BY <1>2, <1>3 DEF Init, IInv

\* An attempt leaves the object alone, and its caller idle or with a call that
\* is up to date.
LEMMA AttemptIInv ==
  ASSUME IInv, NEW c \in Callers, NEW op \in Ops, NEW S \in Groups,
         NEW old \in FlagMaps, DOMAIN old \subseteq S \cap (gone \cup DOMAIN omap),
         Attempt(c, op, S, old)
  PROVE  IInv'
<1>. DEFINE seen == Over(old, Only(omap, S))
            new == Call(op, S, seen, Written(obj, op, S, seen), TRUE)
<1>1. omap \in FlagMaps
  BY DEF IInv, DbOK, obj, Db
<1>2. /\ Only(omap, S) \in FlagMaps
      /\ DOMAIN Only(omap, S) = DOMAIN omap \cap S
      /\ \A n \in DOMAIN omap \cap S : Only(omap, S)[n] = omap[n]
  BY Zenon, <1>1, OnlyTyped
<1>3. /\ seen \in FlagMaps
      /\ DOMAIN seen = DOMAIN old \cup (DOMAIN omap \cap S)
      /\ \A n \in DOMAIN omap \cap S : seen[n] = omap[n]
  BY ZenonT(60), <1>2, OverTyped
<1>4. UNCHANGED <<blob, omap, gone>> /\ obj' = obj
  BY DEF Attempt, object, obj
<1>5. CASE ~Writes(obj, op, S, seen)
  <2>1. call' = [call EXCEPT ![c] = Idle]
    BY <1>5 DEF Attempt
  <2>2. \A x \in Callers : call'[x] = IF x = c THEN Idle ELSE call[x]
    BY <2>1 DEF IInv
  <2>3. Idle.op = NULL
    BY DEF Idle, Call
  <2>. QED  BY <2>1, <2>2, <2>3, <1>4 DEF IInv, CallOK
<1>6. CASE Writes(obj, op, S, seen)
  <2>. HIDE DEF seen
  <2>1. call' = [call EXCEPT ![c] = new]
    BY <1>6 DEF Attempt, seen
  <2>2. \A x \in Callers : call'[x] = IF x = c THEN new ELSE call[x]
    BY Zenon, <2>1 DEF IInv
  <2>3. CallOK(new)
    BY <1>3, <1>6 DEF CallOK, Call
  <2>4. \A k : CallOK(k) => CallOK(k)'
    BY <1>4 DEF CallOK
  <2>. QED  BY Zenon, <2>1, <2>2, <2>3, <2>4, <1>4 DEF IInv
<1>. QED  BY <1>5, <1>6

\* What the write of a call does, seen from the object.
LEMMA CommitEffect ==
  ASSUME IInv, NEW c \in Callers, Commit(c)
  PROVE  /\ CallOK(call[c]) /\ call[c].fresh
         /\ DbOK(call[c].out)
         /\ obj' = call[c].out
         /\ blob' = <<obj'.cur, obj'.rec>> /\ omap' = obj'.omap
         /\ gone' = gone \cup (Members(obj) \ Members(obj'))
<1>1. CallOK(call[c]) /\ call[c].fresh
  BY DEF Commit, IInv
<1>2. call[c].S \in SUBSET Nodes
  BY <1>1, RadosGraceAssumption DEF CallOK
<1>3. DbOK(call[c].out)
  BY <1>1, <1>2, WrittenOK DEF CallOK, IInv
<1>4. obj' = Db(call[c].out.cur, call[c].out.rec, call[c].out.omap)
  BY DEF Commit, obj
<1>5. obj' = call[c].out
  BY <1>3, <1>4 DEF DbOK
<1>6. blob' = <<obj'.cur, obj'.rec>> /\ omap' = obj'.omap
  BY <1>5 DEF Commit
<1>7. obj.omap = omap
  BY DEF obj, Db
<1>8. gone' = gone \cup (Members(obj) \ Members(obj'))
  BY <1>6, <1>7 DEF Commit, Members
<1>. QED  BY <1>1, <1>3, <1>5, <1>6, <1>8

LEMMA CommitIInv ==
  ASSUME IInv, NEW c \in Callers, Commit(c)
  PROVE  IInv'
<1>1. /\ DbOK(call[c].out) /\ obj' = call[c].out
      /\ blob' = <<obj'.cur, obj'.rec>> /\ omap' = obj'.omap
      /\ gone' = gone \cup (Members(obj) \ Members(obj'))
  BY CommitEffect
<1>2. DbOK(obj)' /\ blob' = <<blob'[1], blob'[2]>>
  BY <1>1 DEF DbOK
<1>3. gone' = gone \cup (DOMAIN omap \ DOMAIN omap')
  BY DEF Commit
<1>4. gone' \subseteq Nodes
  <2>1. omap \in FlagMaps
    BY DEF IInv, DbOK, obj, Db
  <2>. QED  BY <1>3, <2>1, FlagMapsElim DEF IInv
<1>5. call' = [x \in Callers |-> call'[x]]
  BY DEF Commit
<1>6. ASSUME NEW x \in Callers, call'[x].op # NULL
      PROVE  CallOK(call[x])'
  <2>1. x # c
    BY <1>6 DEF Commit, Idle, Call
  <2>2. call'[x] = Call(call[x].op, call[x].S, call[x].seen, NULL, FALSE)
    BY <2>1 DEF Commit
  <2>3. CallOK(call[x])
    BY <1>6, <2>2 DEF IInv, Call
  <2>4. gone \cup DOMAIN omap \subseteq gone' \cup DOMAIN omap'
    BY <1>3
  <2>. QED  BY <2>2, <2>3, <2>4 DEF CallOK, Call
<1>. QED  BY <1>2, <1>4, <1>5, <1>6 DEF IInv

LEMMA NextIInv == IInv /\ [Next]_vars => IInv'
<1>. SUFFICES ASSUME IInv, [Next]_vars PROVE IInv'
  OBVIOUS
<1>1. ASSUME NEW c \in Callers, NEW op \in Ops, NEW S \in Groups, Begin(c, op, S)
      PROVE  IInv'
  BY <1>1, NoFlagsTyped, AttemptIInv DEF Begin
<1>2. ASSUME NEW c \in Callers, Commit(c)
      PROVE  IInv'
  BY <1>2, CommitIInv
<1>3. ASSUME NEW c \in Callers, Again(c)
      PROVE  IInv'
  <2>1. CallOK(call[c])
    BY <1>3 DEF Again, IInv
  <2>. QED  BY <1>3, <2>1, AttemptIInv DEF Again, CallOK
<1>4. ASSUME NEW c \in Callers, Abort(c)
      PROVE  IInv'
  <2>1. UNCHANGED <<blob, omap, gone>> /\ obj' = obj
    BY <1>4 DEF Abort, object, obj
  <2>2. \A x \in Callers : call'[x] = IF x = c THEN Idle ELSE call[x]
    BY <1>4 DEF Abort, IInv
  <2>3. Idle.op = NULL
    BY DEF Idle, Call
  <2>. QED  BY <1>4, <2>1, <2>2, <2>3 DEF Abort, IInv, CallOK
<1>5. CASE UNCHANGED vars
  <2>1. UNCHANGED <<blob, omap, gone, call>> /\ obj' = obj
    BY <1>5 DEF vars, object, obj
  <2>. QED  BY <2>1 DEF IInv, CallOK
<1>. QED  BY <1>1, <1>2, <1>3, <1>4, <1>5 DEF Next

\* The inductive invariant holds, whatever the callers do and wherever they stop.
LEMMA Invariant == Spec => []IInv
BY InitIInv, NextIInv, PTL DEF Spec

-----------------------------------------------------------------------------

\* The epoch to recover from is the one before the current one, or there is
\* none, for any number of members and of callers that overlap
\* (rados_grace_join_bulk).
THEOREM Adjacent == Spec => []EpochsAdjacent
<1>1. IInv => EpochsAdjacent
  BY DEF IInv, DbOK, obj, Db, EpochsAdjacent
<1>. QED  BY <1>1, Invariant, PTL

-----------------------------------------------------------------------------
(* RadosGrace implements GraceDb.                                          *)

\* GraceDb uses the same operators.
LEMMA SameOps ==
  ASSUME NEW d, NEW op, NEW S, NEW seen
  PROVE  /\ Atomic!Written(d, op, S, seen) = Written(d, op, S, seen)
         /\ Atomic!Writes(d, op, S, seen) <=> Writes(d, op, S, seen)
         /\ Atomic!Members(d) = Members(d)
         /\ Atomic!Only(d, S) = Only(d, S) /\ Atomic!Over(d, S) = Over(d, S)
         /\ Atomic!Flags = Flags /\ Atomic!NewDb = NewDb /\ Atomic!Ops = Ops
<1>1. Atomic!Written(d, op, S, seen) = Written(d, op, S, seen)
  BY Zenon DEF Atomic!Written, Written, Atomic!JoinDb, JoinDb, Atomic!ToggleDb, ToggleDb,
     Atomic!LiftDb, LiftDb, Atomic!AddDb, AddDb, Atomic!Db, Db, Atomic!Over, Over,
     Atomic!Only, Only, Atomic!LiftKeys, LiftKeys, Atomic!Members, Members,
     Atomic!Needing, Needing, Atomic!Cardinality, Cardinality
<1>2. Atomic!Writes(d, op, S, seen) <=> Writes(d, op, S, seen)
  BY Zenon DEF Atomic!Writes, Writes, Atomic!Members, Members, Atomic!AllEnforcing,
     AllEnforcing, Atomic!LiftKeys, LiftKeys, Atomic!Cardinality, Cardinality
<1>3. Atomic!Members(d) = Members(d) /\ Atomic!Flags = Flags /\ Atomic!NewDb = NewDb
  BY DEF Atomic!Members, Members, Atomic!Flags, Flags, Atomic!NewDb, NewDb, Atomic!Db, Db
<1>4. Atomic!Only(d, S) = Only(d, S) /\ Atomic!Over(d, S) = Over(d, S) /\ Atomic!Ops = Ops
  BY DEF Atomic!Only, Only, Atomic!Over, Over, Atomic!Ops, Ops
<1>. QED  BY <1>1, <1>2, <1>3, <1>4

LEMMA CommitDoes ==
  ASSUME IInv, NEW c \in Callers, Commit(c)
  PROVE  Atomic!Do(call[c].op, call[c].S)
<1>. DEFINE op == call[c].op
            S == call[c].S
            seen == call[c].seen
            T == DOMAIN seen \ DOMAIN omap
            old == [n \in T |-> seen[n]]
<1>1. /\ CallOK(call[c]) /\ call[c].fresh
      /\ obj' = call[c].out
      /\ gone' = gone \cup (Members(obj) \ Members(obj'))
  BY CommitEffect
<1>2. obj.omap = omap /\ omap \in FlagMaps
  BY DEF IInv, DbOK, obj, Db
<1>3. seen \in FlagMaps /\ \A n \in DOMAIN seen : seen[n] \in Flags
  BY <1>1, FlagMapsElim DEF CallOK
<1>4. T \subseteq gone \cap S /\ old \in [T -> Flags]
  BY <1>1, <1>3 DEF CallOK
<1>5. Over(old, Only(omap, S)) = seen
  <2>1. DOMAIN Only(omap, S) = DOMAIN omap \cap S
    BY DEF Only
  <2>2. DOMAIN seen = T \cup (DOMAIN omap \cap S)
    BY <1>1 DEF CallOK
  <2>3. Over(old, Only(omap, S)) = [n \in DOMAIN seen |->
          IF n \in DOMAIN omap \cap S THEN Only(omap, S)[n] ELSE old[n]]
    BY <2>1, <2>2 DEF Over
  <2>4. \A n \in DOMAIN omap \cap S : Only(omap, S)[n] = seen[n]
    BY <1>1 DEF CallOK, Only
  <2>5. \A n \in DOMAIN seen : n \notin DOMAIN omap \cap S => old[n] = seen[n]
    BY <2>2
  <2>6. seen = [n \in DOMAIN seen |-> seen[n]]
    BY <1>3, FlagMapsElim
  <2>. HIDE DEF old, seen, S, T
  <2>. QED  BY <2>3, <2>4, <2>5, <2>6
<1>6. Writes(obj, op, S, seen) /\ obj' = Written(obj, op, S, seen)
  BY <1>1 DEF CallOK
<1>7. old \in UNION {[U -> Atomic!Flags] : U \in SUBSET (gone \cap S)}
  BY Zenon, <1>4, SameOps
<1>8. Atomic!Over(old, Atomic!Only(obj.omap, S)) = seen
  BY <1>2, <1>5, SameOps
<1>. HIDE DEF old, seen, S, T, op
<1>9. /\ Atomic!Writes(obj, op, S, seen)
      /\ obj' = Atomic!Written(obj, op, S, seen)
      /\ gone' = gone \cup (Atomic!Members(obj) \ Atomic!Members(obj'))
  BY <1>1, <1>6, SameOps
<1>10. Atomic!Do(op, S)
  BY <1>7, <1>8, <1>9 DEF Atomic!Do
<1>. QED  BY <1>10 DEF op, S

\* Reading and writing back amount to one step: whichever way the calls of any
\* number of servers and administrators overlap, start again or stop, the
\* object changes as if each call were a single step (rados_grace.c).
THEOREM Atomicity == Spec => CallsAtomic
<1>1. Init => Atomic!Init
  BY SameOps DEF Init, Atomic!Init, obj, NewDb, Db
<1>2. IInv /\ [Next]_vars => [Atomic!Next]_<<obj, gone>>
  <2>. SUFFICES ASSUME IInv, [Next]_vars
                PROVE  Atomic!Next \/ UNCHANGED <<obj, gone>>
    OBVIOUS
  <2>1. ASSUME NEW c \in Callers, Commit(c)
        PROVE  Atomic!Next
    <3>1. call[c].op \in Ops /\ call[c].S \in (SUBSET Nodes) \ {{}}
      BY <2>1, CommitEffect, RadosGraceAssumption DEF CallOK
    <3>2. Atomic!Do(call[c].op, call[c].S)
      BY <2>1, CommitDoes
    <3>. QED  BY SMTT(60), <3>1, <3>2, SameOps DEF Atomic!Next
  <2>2. ASSUME NEW c \in Callers,
               (\E op \in Ops, S \in Groups : Begin(c, op, S)) \/ Again(c) \/ Abort(c)
        PROVE  UNCHANGED <<obj, gone>>
    BY Zenon, <2>2 DEF Begin, Again, Abort, Attempt, object, obj
  <2>3. CASE UNCHANGED vars
    BY <2>3 DEF vars, object, obj
  <2>. QED  BY <2>1, <2>2, <2>3 DEF Next
<1>. QED  BY <1>1, <1>2, Invariant, PTL DEF Spec, CallsAtomic, Atomic!Spec

-----------------------------------------------------------------------------
(* The end of a grace period.                                              *)

\* When as many keys are written as there are members in need, and each of
\* them is one, all are.
LEMMA LiftEnds ==
  ASSUME NEW d, DbOK(d), NEW op \in Ops, NEW S \in SUBSET Nodes, NEW seen \in FlagMaps,
         Writes(d, op, S, seen), d.rec # 0, Written(d, op, S, seen).rec = 0
  PROVE  AllEnforcing(d) /\ (op = "lift" => Needing(Written(d, op, S, seen)) = {})
<1>1. CASE op \in {"start", "join"}
  <2>1. Written(d, op, S, seen) = JoinDb(d, S)
    BY <1>1 DEF Written
  <2>. QED  BY <2>1 DEF JoinDb, Db
<1>2. CASE op \in {"enforce", "noenforce"}
  <2>1. Written(d, op, S, seen) = ToggleDb(d, S, seen, op = "enforce")
    BY <1>2 DEF Written
  <2>. QED  BY <2>1 DEF ToggleDb, Db
<1>3. CASE op = "add"
  <2>1. Written(d, op, S, seen) = AddDb(d, S)
    BY <1>3 DEF Written
  <2>. QED  BY <2>1 DEF AddDb, Db
<1>4. CASE op \in {"lift", "remove"}
  <2>1. AllEnforcing(d)
    BY Zenon, <1>4 DEF Writes
  <2>2. ASSUME op = "lift"
        PROVE  Needing(Written(d, op, S, seen)) = {}
    <3>. DEFINE keys == LiftKeys(d, S, FALSE)
                g == [n \in keys |-> [need |-> FALSE, enforcing |-> d.omap[n].enforcing]]
                o == Over(d.omap, g)
                r == IF Cardinality(Needing(d)) = Cardinality(keys) THEN 0 ELSE d.rec
    <3>1. Written(d, op, S, seen) = LiftDb(d, S, FALSE)
      BY Zenon, <2>2 DEF Written
    <3>2. LiftDb(d, S, FALSE).rec = r
      BY DEF LiftDb, Db
    <3>3. LiftDb(d, S, FALSE).omap = o
      BY DEF LiftDb, Db
    <3>4. Cardinality(Needing(d)) = Cardinality(keys)
      BY Zenon, <3>1, <3>2
    <3>5. IsFiniteSet(Needing(d)) /\ keys \subseteq Needing(d)
      <4>1. Needing(d) \subseteq Nodes
        BY FlagMapsElim DEF Needing, Members, DbOK
      <4>. QED  BY <4>1, GraceDbAssumption, FS_Subset DEF LiftKeys, Needing, Members
    <3>6. keys = Needing(d)
      BY Zenon, <3>4, <3>5, FS_Subset
    <3>7. \A n \in DOMAIN o : ~o[n].need
      <4>. SUFFICES ASSUME NEW n \in DOMAIN o PROVE ~o[n].need
        BY Zenon
      <4>1. n \in DOMAIN d.omap \cup keys
        BY Zenon DEF Over
      <4>2. CASE n \in keys
        BY <4>2 DEF Over
      <4>3. CASE n \notin keys
        BY Zenon, <4>1, <4>3, <3>6 DEF Over, Needing, Members
      <4>. QED  BY Zenon, <4>2, <4>3
    <3>. QED  BY Zenon, <3>1, <3>3, <3>7 DEF Needing, Members
  <2>. QED  BY <2>1, <2>2
<1>. QED  BY <1>1, <1>2, <1>3, <1>4 DEF Ops

\* A grace period ends only while every member enforces it, and a server that
\* ends it leaves no member behind that needs it, however many there are
\* (rados_grace_lift_bulk).
THEOREM LiftSound == Spec => LiftedWhenDone
<1>1. IInv /\ [Next]_vars =>
        [blob[2] # 0 /\ blob[2]' = 0 =>
           /\ AllEnforcing(obj)
           /\ \A c \in Callers :
                call[c].op = "lift" /\ call[c]'.op = NULL => Needing(obj') = {}]_vars
  <2>. SUFFICES ASSUME IInv, [Next]_vars, blob[2] # 0, blob'[2] = 0
                PROVE  /\ AllEnforcing(obj)
                       /\ \A c \in Callers :
                            call[c].op = "lift" /\ call'[c].op = NULL => Needing(obj') = {}
    OBVIOUS
  <2>1. PICK c \in Callers : Commit(c)
    BY Zenon DEF Next, Begin, Again, Abort, Attempt, vars, object
  <2>2. CallOK(call[c]) /\ call[c].fresh /\ obj' = call[c].out
        /\ blob' = <<obj'.cur, obj'.rec>>
    BY <2>1, CommitEffect
  <2>3. obj'.rec = 0 /\ obj.rec # 0
    BY <2>2 DEF obj, Db
  <2>4. /\ AllEnforcing(obj)
        /\ call[c].op = "lift" => Needing(obj') = {}
    <3>1. /\ call[c].op \in Ops /\ call[c].S \in SUBSET Nodes /\ call[c].seen \in FlagMaps
          /\ Writes(obj, call[c].op, call[c].S, call[c].seen)
          /\ obj' = Written(obj, call[c].op, call[c].S, call[c].seen)
      BY <2>2, RadosGraceAssumption DEF CallOK
    <3>. QED  BY Zenon, <2>3, <3>1, LiftEnds DEF IInv
  <2>5. ASSUME NEW x \in Callers, call[x].op = "lift", call'[x].op = NULL
        PROVE  x = c
    <3>1. NULL # "lift"
      BY RadosGraceAssumption DEF Ops
    <3>2. x # c => call'[x].op = call[x].op
      BY <2>1 DEF Commit, Call
    <3>. QED  BY <2>5, <3>1, <3>2
  <2>. QED  BY <2>4, <2>5
<1>. QED  BY <1>1, Invariant, PTL DEF Spec, LiftedWhenDone

=============================================================================
