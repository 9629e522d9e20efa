------------------------- MODULE GraceClusterProofs -------------------------
(***************************************************************************)
(* Proofs about GraceCluster, for any number of servers and clients: a     *)
(* server that is marked as enforcing blocks new state, the state of grace *)
(* does not change under requests, and nobody recovers without a grace     *)
(* period.                                                                 *)
(***************************************************************************)
EXTENDS GraceCluster, FiniteSetTheorems, TLAPS

-----------------------------------------------------------------------------
(* The grace database.                                                     *)

\* No member is in need without a period.
DbOK(d) == /\ d.cur \in Nat \ {0} /\ d.rec \in Nat
           /\ d.omap \in [Nodes -> Flags]
           /\ \A n \in Nodes : d.omap[n].need => d.rec # 0

LEMMA DbIntro ==
  ASSUME NEW c \in Nat \ {0}, NEW r \in Nat, NEW o \in [Nodes -> Flags],
         \A n \in Nodes : o[n].need => r # 0
  PROVE  DbOK(Db(c, r, o))
<1>1. Db(c, r, o).cur = c /\ Db(c, r, o).rec = r /\ Db(c, r, o).omap = o
  BY DEF Db
<1>. QED  BY <1>1 DEF DbOK

\* Writing flags to some members.
LEMMA OverFlags ==
  ASSUME NEW o \in [Nodes -> Flags], NEW S \in SUBSET Nodes, NEW g \in [S -> Flags]
  PROVE  /\ Over(o, g) \in [Nodes -> Flags]
         /\ \A m \in S : Over(o, g)[m] = g[m]
         /\ \A m \in Nodes \ S : Over(o, g)[m] = o[m]
<1>1. Over(o, g) = [m \in Nodes |-> IF m \in S THEN g[m] ELSE o[m]]
  BY DEF Over
<1>. QED  BY <1>1

LEMMA ToggleOK ==
  ASSUME NEW d, DbOK(d), NEW n \in Nodes, NEW b \in BOOLEAN
  PROVE  /\ DbOK(ToggleDb(d, {n}, d.omap, b))
         /\ ToggleDb(d, {n}, d.omap, b).omap[n].enforcing = b
         /\ \A m \in Nodes \ {n} : ToggleDb(d, {n}, d.omap, b).omap[m] = d.omap[m]
<1>. DEFINE g == [x \in {n} |-> [need |-> d.omap[x].need, enforcing |-> b]]
            o == Over(d.omap, g)
<1>1. d.omap \in [Nodes -> Flags] /\ d.cur \in Nat \ {0} /\ d.rec \in Nat
  BY DEF DbOK
<1>2. d.omap[n].need \in BOOLEAN
  BY <1>1 DEF Flags
<1>3. g \in [{n} -> Flags] /\ g[n].need = d.omap[n].need /\ g[n].enforcing = b
  BY <1>2 DEF Flags
<1>4. ToggleDb(d, {n}, d.omap, b) = Db(d.cur, d.rec, o)
  BY DEF ToggleDb
<1>. HIDE DEF g
<1>5. o \in [Nodes -> Flags] /\ o[n] = g[n] /\ \A m \in Nodes \ {n} : o[m] = d.omap[m]
  <2>1. {n} \in SUBSET Nodes
    OBVIOUS
  <2>. QED  BY <1>1, <1>3, <2>1, OverFlags, ZenonT(60)
<1>. HIDE DEF o
<1>6. \A m \in Nodes : o[m].need => d.rec # 0
  BY <1>3, <1>5 DEF DbOK
<1>7. Db(d.cur, d.rec, o).omap = o
  BY DEF Db
<1>. QED  BY Zenon, <1>1, <1>3, <1>4, <1>5, <1>6, <1>7, DbIntro

LEMMA JoinOK ==
  ASSUME NEW d, DbOK(d), NEW n \in Nodes
  PROVE  /\ DbOK(JoinDb(d, {n})) /\ JoinDb(d, {n}).rec # 0
         /\ \A m \in Nodes \ {n} : JoinDb(d, {n}).omap[m] = d.omap[m]
<1>. DEFINE g == [x \in {n} |-> [need |-> TRUE, enforcing |-> TRUE]]
            o == Over(d.omap, g)
<1>1. d.omap \in [Nodes -> Flags] /\ d.cur \in Nat \ {0} /\ d.rec \in Nat
  BY DEF DbOK
<1>2. g \in [{n} -> Flags]
  BY DEF Flags
<1>3. JoinDb(d, {n}) = IF d.rec = 0 THEN Db(d.cur + 1, d.cur, o) ELSE Db(d.cur, d.rec, o)
  BY DEF JoinDb
<1>. HIDE DEF g
<1>4. o \in [Nodes -> Flags] /\ \A m \in Nodes \ {n} : o[m] = d.omap[m]
  <2>1. {n} \in SUBSET Nodes
    OBVIOUS
  <2>. QED  BY <1>1, <1>2, <2>1, OverFlags, Zenon
<1>. HIDE DEF o
<1>5. /\ Db(d.cur + 1, d.cur, o).omap = o /\ Db(d.cur + 1, d.cur, o).rec = d.cur
      /\ Db(d.cur, d.rec, o).omap = o /\ Db(d.cur, d.rec, o).rec = d.rec
  BY DEF Db
<1>6. CASE d.rec = 0
  <2>1. DbOK(Db(d.cur + 1, d.cur, o))
    BY <1>1, <1>4, DbIntro
  <2>. QED  BY <1>1, <1>3, <1>4, <1>5, <1>6, <2>1
<1>7. CASE d.rec # 0
  <2>1. DbOK(Db(d.cur, d.rec, o))
    BY <1>1, <1>4, <1>7, DbIntro
  <2>. QED  BY <1>3, <1>4, <1>5, <1>7, <2>1
<1>. QED  BY <1>6, <1>7

\* The period ends only when n is the one member in need.
LEMMA LiftOK ==
  ASSUME NEW d, DbOK(d), NEW n \in Nodes
  PROVE  /\ DbOK(LiftDb(d, {n}, FALSE))
         /\ \A m \in Nodes : LiftDb(d, {n}, FALSE).omap[m].enforcing = d.omap[m].enforcing
<1>. DEFINE keys == LiftKeys(d, {n}, FALSE)
            g == [x \in keys |-> [need |-> FALSE, enforcing |-> d.omap[x].enforcing]]
            o == Over(d.omap, g)
            r == IF Cardinality(Needing(d)) = Cardinality(keys) THEN 0 ELSE d.rec
<1>1. d.omap \in [Nodes -> Flags] /\ d.cur \in Nat \ {0} /\ d.rec \in Nat
  BY DEF DbOK
<1>2. LiftDb(d, {n}, FALSE) = Db(d.cur, r, o)
  BY DEF LiftDb
<1>3. /\ keys = {m \in {n} : d.omap[m].need} /\ keys \in SUBSET Nodes
      /\ Needing(d) = {m \in Nodes : d.omap[m].need}
  BY <1>1 DEF LiftKeys, Needing, Members
<1>4. r \in Nat
  BY Zenon, <1>1
<1>. HIDE DEF keys
<1>5. \A m \in Nodes : d.omap[m].enforcing \in BOOLEAN
  BY <1>1 DEF Flags
<1>6. /\ g \in [keys -> Flags]
      /\ \A m \in keys : ~g[m].need /\ g[m].enforcing = d.omap[m].enforcing
  BY <1>3, <1>5 DEF Flags
<1>. HIDE DEF g
<1>7. /\ o \in [Nodes -> Flags]
      /\ \A m \in keys : o[m] = g[m]
      /\ \A m \in Nodes \ keys : o[m] = d.omap[m]
  <2>1. d.omap \in [Nodes -> Flags]
    BY <1>1
  <2>2. keys \in SUBSET Nodes
    BY <1>3
  <2>3. g \in [keys -> Flags]
    BY <1>6
  <2>. QED  BY <2>1, <2>2, <2>3, OverFlags, Zenon
<1>. HIDE DEF o
<1>8. ASSUME NEW m \in Nodes, o[m].need
      PROVE  r # 0
  <2>1. m \notin keys /\ d.omap[m].need
    BY <1>6, <1>7, <1>8
  <2>2. keys \in SUBSET Needing(d) /\ keys # Needing(d)
    BY <1>3, <2>1
  <2>3. IsFiniteSet(Needing(d))
    BY <1>3, GraceDbAssumption, FS_Subset
  <2>4. Cardinality(Needing(d)) # Cardinality(keys)
    BY <2>2, <2>3, FS_Subset
  <2>. QED  BY <2>1, <2>4 DEF DbOK
<1>. HIDE DEF r
<1>9. Db(d.cur, r, o).omap = o
  BY DEF Db
<1>10. DbOK(Db(d.cur, r, o))
  BY <1>1, <1>4, <1>7, <1>8, DbIntro
<1>. QED  BY ZenonT(60), <1>2, <1>6, <1>7, <1>9, <1>10

LEMMA InitDbOK == DbOK(AddDb(NewDb, Nodes))
<1>1. Over(NewDb.omap, [n \in Nodes |-> [need |-> FALSE, enforcing |-> TRUE]])
        = [n \in Nodes |-> [need |-> FALSE, enforcing |-> TRUE]]
  BY DEF Over, NewDb, Db
<1>2. AddDb(NewDb, Nodes) = Db(1, 0, [n \in Nodes |-> [need |-> FALSE, enforcing |-> TRUE]])
  BY Zenon, <1>1 DEF AddDb, NewDb, Db
<1>. QED  BY <1>2 DEF DbOK, Db, Flags


-----------------------------------------------------------------------------
(* The inductive invariant.                                                *)

\* A server s, the mark e it has in the database, and its requests R. The grace
\* period is active from the start until it is cleared, and rados_recov_old_oid
\* is set whenever end_grace may run, so that end_grace takes the mark back
\* before the period is cleared. Requests keep out while a change is pending.
ServerOK(s, e, R) ==
  /\ s.pc = "down" => R = {}
  /\ s.pc \in {"enforce", "join", "create", "load", "wait", "lift", "end", "rmdb", "clear"}
       => s.active
  /\ s.pc \in {"snap", "write", "start"} => ~s.active /\ s.old # 0
  /\ s.pc # "down" /\ ~s.active => ~e
  /\ s.pc \in {"rmdb", "clear"} => ~e
  /\ s.pc \in {"create", "load"} => s.rec # 0
  /\ s.active /\ (s.pc \in {"wait", "check", "idle", "lift", "end"}
                    \/ (s.pc = "enforce" /\ ~s.boot))
       => s.old # 0
  /\ s.active => \A c \in Clients : <<c, FALSE>> \notin R
  /\ s.pc \in {"lift", "end", "rmdb", "clear"} => R = {} /\ s.change

Fields == {"pc", "boot", "active", "change", "recov", "old", "rec", "snap", "clids"}

\* srv holds a record for each server, of which only the flags need types.
Typed == /\ srv = [n \in Nodes |-> srv[n]]
         /\ \A n \in Nodes : /\ srv[n] = [f \in Fields |-> srv[n][f]]
                             /\ srv[n].active \in BOOLEAN
         /\ req = [n \in Nodes |-> req[n]]

IInv == /\ Typed /\ DbOK(db)
        /\ \A n \in Nodes : ServerOK(srv[n], db.omap[n].enforcing, req[n])

LEMMA DownOK ==
  ASSUME NEW e
  PROVE  /\ ServerOK(Down, e, {}) /\ Down = [f \in Fields |-> Down[f]]
         /\ Down.pc = "down" /\ Down.active = FALSE
<1>1. Down.pc = "down" /\ Down.active = FALSE
  BY DEF Down, Server
<1>2. Down = [f \in Fields |-> Down[f]]
  BY DEF Down, Server, Fields
<1>. QED  BY <1>1, <1>2 DEF ServerOK

LEMMA InitIInv == Init => IInv
<1>. SUFFICES ASSUME Init PROVE IInv
  OBVIOUS
<1>1. \A n \in Nodes : srv[n] = Down /\ req[n] = {}
  BY DEF Init
<1>2. Typed
  BY Zenon, <1>1 DEF Init, Typed, Down, Server, Fields
<1>3. \A n \in Nodes : ServerOK(srv[n], db.omap[n].enforcing, req[n])
  BY Zenon, <1>1, DownOK
<1>4. DbOK(db)
  BY InitDbOK DEF Init
<1>. QED  BY <1>2, <1>3, <1>4 DEF IInv

\* A step of server n, or of its clients, concerns n only.
LEMMA Local ==
  ASSUME IInv, NEW n \in Nodes, NEW s, NEW R,
         srv' = [srv EXCEPT ![n] = s], req' = [req EXCEPT ![n] = R],
         s = [f \in Fields |-> s[f]], s.active \in BOOLEAN,
         DbOK(db'), \A m \in Nodes \ {n} : db'.omap[m].enforcing = db.omap[m].enforcing,
         ServerOK(s, db'.omap[n].enforcing, R)
  PROVE  IInv'
<1>1. /\ srv'[n] = s /\ req'[n] = R
      /\ \A m \in Nodes \ {n} : srv'[m] = srv[m] /\ req'[m] = req[m]
  BY DEF IInv, Typed
<1>2. Typed'
  BY Zenon, <1>1 DEF IInv, Typed
<1>3. \A m \in Nodes : ServerOK(srv'[m], db'.omap[m].enforcing, req'[m])
  BY <1>1 DEF IInv
<1>. QED  BY <1>2, <1>3 DEF IInv

-----------------------------------------------------------------------------
(* The steps of a server that leave the database alone.                    *)

LEMMA BootIInv ==
  ASSUME IInv, NEW n \in Nodes, Boot(n)
  PROVE  IInv'
<1>. DEFINE s == Server("enforce", TRUE, TRUE)
<1>1. s.pc = "enforce" /\ s.boot = TRUE /\ s.active = TRUE /\ s = [f \in Fields |-> s[f]]
  BY DEF Server, Fields
<1>2. srv' = [srv EXCEPT ![n] = s] /\ req' = [req EXCEPT ![n] = {}] /\ db' = db
  BY ZenonT(40) DEF Boot, At, IInv, ServerOK, Typed, store
<1>. HIDE DEF s
<1>3. ServerOK(s, db'.omap[n].enforcing, {})
  BY <1>1 DEF ServerOK
<1>. QED  BY Zenon, <1>1, <1>2, <1>3, Local DEF IInv

\* The fields of a server that ServerOK does not look at may change as well.
LEMMA Quiet ==
  ASSUME IInv, NEW n \in Nodes, NEW s,
         srv' = [srv EXCEPT ![n] = s], UNCHANGED <<db, req>>,
         s = [f \in Fields |-> s[f]], s.active \in BOOLEAN,
         ServerOK(s, db.omap[n].enforcing, req[n])
  PROVE  IInv'
<1>1. req' = [req EXCEPT ![n] = req[n]]
  BY DEF IInv, Typed
<1>. QED  BY Zenon, <1>1, Local DEF IInv

LEMMA CreateIInv ==
  ASSUME IInv, NEW n \in Nodes, Create(n) \/ RemoveDb(n)
  PROVE  IInv'
<1>1. PICK pc : /\ srv' = [srv EXCEPT ![n] = [srv[n] EXCEPT !.pc = pc]] /\ UNCHANGED <<db, req>>
                /\ <<srv[n].pc, pc>> \in {<<"create", "load">>, <<"rmdb", "clear">>}
  BY DEF Create, RemoveDb, Go, At
<1>. DEFINE s == [srv[n] EXCEPT !.pc = pc]
<1>2. /\ s.pc = pc /\ s.boot = srv[n].boot /\ s.active = srv[n].active /\ s.change = srv[n].change
      /\ s.old = srv[n].old /\ s.rec = srv[n].rec
      /\ s = [f \in Fields |-> s[f]] /\ s.active \in BOOLEAN
  BY DEF IInv, Typed, Fields
<1>. HIDE DEF s
<1>3. ServerOK(s, db.omap[n].enforcing, req[n])
  BY Zenon, <1>1, <1>2 DEF IInv, ServerOK
<1>. QED  BY Zenon, <1>1, <1>2, <1>3, Quiet DEF s

LEMMA LoadIInv ==
  ASSUME IInv, NEW n \in Nodes, Load(n)
  PROVE  IInv'
<1>. DEFINE s == [srv[n] EXCEPT !.pc = "wait", !.old = srv[n].rec, !.clids = recdb[n][srv[n].rec]]
<1>1. srv' = [srv EXCEPT ![n] = s] /\ UNCHANGED <<db, req>>
  BY Zenon DEF Load, store
<1>2. /\ s.pc = "wait" /\ s.boot = srv[n].boot /\ s.active = srv[n].active
      /\ s.change = srv[n].change /\ s.old = srv[n].rec /\ s.rec = srv[n].rec
      /\ s = [f \in Fields |-> s[f]] /\ s.active \in BOOLEAN
  BY ZenonT(40) DEF IInv, Typed, Fields
<1>. HIDE DEF s
<1>3. ServerOK(s, db.omap[n].enforcing, req[n])
  BY Zenon, <1>2 DEF IInv, ServerOK, At, Load
<1>. QED  BY <1>1, <1>2, <1>3, Quiet

LEMMA CheckIInv ==
  ASSUME IInv, NEW n \in Nodes, Check(n)
  PROVE  IInv'
<1>1. CASE srv[n].active /\ ~AllEnforcing(db)
  <2>. DEFINE s == [srv[n] EXCEPT !.pc = "wait"]
  <2>1. srv' = [srv EXCEPT ![n] = s] /\ UNCHANGED <<db, req>>
    BY <1>1 DEF Check, Go, store
  <2>2. /\ s.pc = "wait" /\ s.boot = srv[n].boot /\ s.active = srv[n].active
        /\ s.change = srv[n].change /\ s.old = srv[n].old /\ s.rec = srv[n].rec
        /\ s = [f \in Fields |-> s[f]] /\ s.active \in BOOLEAN
    BY DEF IInv, Typed, Fields
  <2>. HIDE DEF s
  <2>3. ServerOK(s, db.omap[n].enforcing, req[n])
    BY Zenon, <1>1, <2>2 DEF IInv, ServerOK, At, Check
  <2>. QED  BY <2>1, <2>2, <2>3, Quiet
<1>2. CASE ~(srv[n].active /\ ~AllEnforcing(db))
  <2>. DEFINE s == [srv[n] EXCEPT !.pc = "idle", !.boot = FALSE]
  <2>1. srv' = [srv EXCEPT ![n] = s] /\ UNCHANGED <<db, req>>
    BY Zenon, <1>2 DEF Check, Go, store
  <2>2. /\ s.pc = "idle" /\ s.boot = FALSE /\ s.active = srv[n].active
        /\ s.change = srv[n].change /\ s.old = srv[n].old /\ s.rec = srv[n].rec
        /\ s = [f \in Fields |-> s[f]] /\ s.active \in BOOLEAN
    BY ZenonT(40) DEF IInv, Typed, Fields
  <2>. HIDE DEF s
  <2>3. ServerOK(s, db.omap[n].enforcing, req[n])
    BY Zenon, <1>2, <2>2 DEF IInv, ServerOK, At, Check
  <2>. QED  BY <2>1, <2>2, <2>3, Quiet
<1>. QED  BY <1>1, <1>2

LEMMA MaybeStartIInv ==
  ASSUME IInv, NEW n \in Nodes, MaybeStart(n)
  PROVE  IInv'
<1>. DEFINE s == [srv[n] EXCEPT !.pc = "snap", !.recov = db.cur, !.old = db.rec]
<1>1. srv' = [srv EXCEPT ![n] = s] /\ UNCHANGED <<db, req>>
  BY Zenon DEF MaybeStart, store
<1>2. /\ s.pc = "snap" /\ s.boot = srv[n].boot /\ s.active = srv[n].active
      /\ s.change = srv[n].change /\ s.old = db.rec /\ s.rec = srv[n].rec
      /\ s = [f \in Fields |-> s[f]] /\ s.active \in BOOLEAN
  BY ZenonT(40) DEF IInv, Typed, Fields
<1>. HIDE DEF s
<1>3. ServerOK(s, db.omap[n].enforcing, req[n])
  BY Zenon, <1>2 DEF IInv, ServerOK, At, MaybeStart
<1>. QED  BY <1>1, <1>2, <1>3, Quiet

LEMMA SnapIInv ==
  ASSUME IInv, NEW n \in Nodes, Snap(n)
  PROVE  IInv'
<1>. DEFINE s == [srv[n] EXCEPT !.pc = "write", !.snap = {c \in Clients : conf[n][c] # "none"}]
<1>1. srv' = [srv EXCEPT ![n] = s] /\ UNCHANGED <<db, req>>
  BY Zenon DEF Snap, store
<1>2. /\ s.pc = "write" /\ s.boot = srv[n].boot /\ s.active = srv[n].active
      /\ s.change = srv[n].change /\ s.old = srv[n].old /\ s.rec = srv[n].rec
      /\ s = [f \in Fields |-> s[f]] /\ s.active \in BOOLEAN
  BY ZenonT(40) DEF IInv, Typed, Fields
<1>. HIDE DEF s
<1>3. ServerOK(s, db.omap[n].enforcing, req[n])
  BY Zenon, <1>2 DEF IInv, ServerOK, At, Snap
<1>. QED  BY <1>1, <1>2, <1>3, Quiet

LEMMA WriteDbIInv ==
  ASSUME IInv, NEW n \in Nodes, WriteDb(n)
  PROVE  IInv'
<1>. DEFINE s == [srv[n] EXCEPT !.pc = "start", !.snap = {}]
<1>1. srv' = [srv EXCEPT ![n] = s] /\ UNCHANGED <<db, req>>
  BY Zenon DEF WriteDb
<1>2. /\ s.pc = "start" /\ s.boot = srv[n].boot /\ s.active = srv[n].active
      /\ s.change = srv[n].change /\ s.old = srv[n].old /\ s.rec = srv[n].rec
      /\ s = [f \in Fields |-> s[f]] /\ s.active \in BOOLEAN
  BY ZenonT(40) DEF IInv, Typed, Fields
<1>. HIDE DEF s
<1>3. ServerOK(s, db.omap[n].enforcing, req[n])
  BY Zenon, <1>2 DEF IInv, ServerOK, At, WriteDb
<1>. QED  BY <1>1, <1>2, <1>3, Quiet

LEMMA StartGraceIInv ==
  ASSUME IInv, NEW n \in Nodes, StartGrace(n)
  PROVE  IInv'
<1>1. CASE req[n] # {}
  <2>. DEFINE s == [srv[n] EXCEPT !.pc = "idle", !.change = TRUE]
  <2>1. srv' = [srv EXCEPT ![n] = s] /\ UNCHANGED <<db, req>>
    BY Zenon, <1>1 DEF StartGrace, store
  <2>2. /\ s.pc = "idle" /\ s.boot = srv[n].boot /\ s.active = srv[n].active
        /\ s.change = TRUE /\ s.old = srv[n].old /\ s.rec = srv[n].rec
        /\ s = [f \in Fields |-> s[f]] /\ s.active \in BOOLEAN
    BY ZenonT(40) DEF IInv, Typed, Fields
  <2>. HIDE DEF s
  <2>3. ServerOK(s, db.omap[n].enforcing, req[n])
    BY Zenon, <1>1, <2>2 DEF IInv, ServerOK, At, StartGrace
  <2>. QED  BY <2>1, <2>2, <2>3, Quiet
<1>2. CASE req[n] = {}
  <2>. DEFINE s == [srv[n] EXCEPT !.pc = "enforce", !.active = TRUE, !.change = FALSE]
  <2>1. srv' = [srv EXCEPT ![n] = s] /\ UNCHANGED <<db, req>>
    BY Zenon, <1>2 DEF StartGrace, store
  <2>2. /\ s.pc = "enforce" /\ s.boot = srv[n].boot /\ s.active = TRUE
        /\ s.change = FALSE /\ s.old = srv[n].old /\ s.rec = srv[n].rec
        /\ s = [f \in Fields |-> s[f]] /\ s.active \in BOOLEAN
    BY ZenonT(40) DEF IInv, Typed, Fields
  <2>. HIDE DEF s
  <2>3. ServerOK(s, db.omap[n].enforcing, req[n])
    BY Zenon, <1>2, <2>2 DEF IInv, ServerOK, At, StartGrace
  <2>. QED  BY <2>1, <2>2, <2>3, Quiet
<1>. QED  BY <1>1, <1>2

LEMMA ClearIInv ==
  ASSUME IInv, NEW n \in Nodes, Clear(n)
  PROVE  IInv'
<1>. DEFINE s == [srv[n] EXCEPT !.pc = Back(n), !.active = FALSE, !.change = FALSE]
<1>1. srv' = [srv EXCEPT ![n] = s] /\ UNCHANGED <<db, req>>
  BY Zenon DEF Clear, store
<1>2. /\ s.pc = Back(n) /\ s.boot = srv[n].boot /\ s.active = FALSE
      /\ s.change = FALSE /\ s.old = srv[n].old /\ s.rec = srv[n].rec
      /\ s = [f \in Fields |-> s[f]] /\ s.active \in BOOLEAN
  BY ZenonT(40) DEF IInv, Typed, Fields
<1>. HIDE DEF s
<1>3. ServerOK(s, db.omap[n].enforcing, req[n])
  BY Zenon, <1>2 DEF IInv, ServerOK, At, Clear, Back
<1>. QED  BY <1>1, <1>2, <1>3, Quiet

LEMMA TryLiftIInv ==
  ASSUME IInv, NEW n \in Nodes, TryLift(n)
  PROVE  IInv'
<1>1. Back(n) \in {"check", "idle"}
  BY DEF Back
<1>2. /\ UNCHANGED <<db, req>> /\ srv[n].pc \in {"idle", "wait"} /\ srv[n].active
      /\ \/ srv' = [srv EXCEPT ![n] = [srv[n] EXCEPT !.pc = Back(n)]]
         \/ srv' = [srv EXCEPT ![n] = [srv[n] EXCEPT !.change = TRUE,
                                         !.pc = IF req[n] = {} THEN "lift" ELSE Back(n)]]
  BY Zenon DEF TryLift, Go, At, store, IInv, ServerOK
<1>3. CASE srv' = [srv EXCEPT ![n] = [srv[n] EXCEPT !.pc = Back(n)]]
  <2>. DEFINE s == [srv[n] EXCEPT !.pc = Back(n)]
  <2>1. srv' = [srv EXCEPT ![n] = s] /\ UNCHANGED <<db, req>>
    BY <1>2, <1>3
  <2>2. /\ s.pc = Back(n) /\ s.boot = srv[n].boot /\ s.active = srv[n].active
        /\ s.change = srv[n].change /\ s.old = srv[n].old /\ s.rec = srv[n].rec
        /\ s = [f \in Fields |-> s[f]] /\ s.active \in BOOLEAN
    BY DEF IInv, Typed, Fields
  <2>. HIDE DEF s
  <2>3. ServerOK(s, db.omap[n].enforcing, req[n])
    BY Zenon, <1>1, <1>2, <2>2 DEF IInv, ServerOK
  <2>. QED  BY <2>1, <2>2, <2>3, Quiet
<1>4. CASE srv' = [srv EXCEPT ![n] = [srv[n] EXCEPT !.change = TRUE,
                                      !.pc = IF req[n] = {} THEN "lift" ELSE Back(n)]]
  <2>. DEFINE s == [srv[n] EXCEPT !.change = TRUE,
                                  !.pc = IF req[n] = {} THEN "lift" ELSE Back(n)]
  <2>1. srv' = [srv EXCEPT ![n] = s] /\ UNCHANGED <<db, req>>
    BY <1>2, <1>4
  <2>2. /\ s.pc = (IF req[n] = {} THEN "lift" ELSE Back(n)) /\ s.boot = srv[n].boot
        /\ s.active = srv[n].active
        /\ s.change = TRUE /\ s.old = srv[n].old /\ s.rec = srv[n].rec
        /\ s = [f \in Fields |-> s[f]] /\ s.active \in BOOLEAN
    BY ZenonT(40) DEF IInv, Typed, Fields
  <2>. HIDE DEF s
  <2>3. ServerOK(s, db.omap[n].enforcing, req[n])
    BY Zenon, <1>1, <1>2, <2>2 DEF IInv, ServerOK
  <2>. QED  BY <2>1, <2>2, <2>3, Quiet
<1>. QED  BY <1>2, <1>3, <1>4

-----------------------------------------------------------------------------
(* The steps that write to the database.                                   *)

\* A server writes, and requests are left alone.
LEMMA Writing ==
  ASSUME IInv, NEW n \in Nodes, NEW s,
         srv' = [srv EXCEPT ![n] = s], req' = req,
         s = [f \in Fields |-> s[f]], s.active \in BOOLEAN,
         DbOK(db'), \A m \in Nodes \ {n} : db'.omap[m].enforcing = db.omap[m].enforcing,
         ServerOK(s, db'.omap[n].enforcing, req[n])
  PROVE  IInv'
<1>1. req' = [req EXCEPT ![n] = req[n]]
  BY DEF IInv, Typed
<1>. QED  BY Zenon, <1>1, Local

LEMMA SetEnforcingIInv ==
  ASSUME IInv, NEW n \in Nodes, SetEnforcing(n)
  PROVE  IInv'
<1>. DEFINE pc == IF srv[n].boot THEN "join" ELSE "idle"
            s == [srv[n] EXCEPT !.pc = pc]
<1>1. srv' = [srv EXCEPT ![n] = s] /\ req' = req /\ db' = ToggleDb(db, {n}, db.omap, TRUE)
  BY DEF SetEnforcing, Go, Toggle
<1>2. /\ s.pc = pc /\ s.boot = srv[n].boot /\ s.active = srv[n].active
      /\ s.change = srv[n].change /\ s.old = srv[n].old /\ s.rec = srv[n].rec
      /\ s = [f \in Fields |-> s[f]] /\ s.active \in BOOLEAN
  BY DEF IInv, Typed, Fields
<1>. HIDE DEF s
<1>3. DbOK(db') /\ \A m \in Nodes \ {n} : db'.omap[m].enforcing = db.omap[m].enforcing
  <2>1. DbOK(db) /\ TRUE \in BOOLEAN
    BY DEF IInv
  <2>2. /\ DbOK(ToggleDb(db, {n}, db.omap, TRUE))
        /\ \A m \in Nodes \ {n} : ToggleDb(db, {n}, db.omap, TRUE).omap[m] = db.omap[m]
    BY <2>1, ToggleOK, Zenon
  <2>. QED  BY Zenon, <1>1, <2>2
<1>4. ServerOK(s, db'.omap[n].enforcing, req[n])
  BY ZenonT(60), <1>2 DEF IInv, ServerOK, SetEnforcing, At
<1>. QED  BY Zenon, <1>1, <1>2, <1>3, <1>4, Writing

LEMMA JoinIInv ==
  ASSUME IInv, NEW n \in Nodes, Join(n)
  PROVE  IInv'
<1>. DEFINE s == [srv[n] EXCEPT !.pc = "create", !.recov = db'.cur, !.rec = db'.rec]
<1>1. srv' = [srv EXCEPT ![n] = s] /\ req' = req /\ db' = JoinDb(db, {n})
  BY Zenon DEF Join
<1>2. /\ s.pc = "create" /\ s.boot = srv[n].boot /\ s.active = srv[n].active
      /\ s.change = srv[n].change /\ s.old = srv[n].old /\ s.rec = db'.rec
      /\ s = [f \in Fields |-> s[f]] /\ s.active \in BOOLEAN
  BY ZenonT(40) DEF IInv, Typed, Fields
<1>. HIDE DEF s
<1>3. /\ DbOK(db') /\ db'.rec # 0
      /\ \A m \in Nodes \ {n} : db'.omap[m].enforcing = db.omap[m].enforcing
  BY <1>1, JoinOK DEF IInv
<1>4. ServerOK(s, db'.omap[n].enforcing, req[n])
  BY Zenon, <1>2, <1>3 DEF IInv, ServerOK, Join, At
<1>. QED  BY SMTT(30), <1>1, <1>2, <1>3, <1>4, Writing

LEMMA LiftIInv ==
  ASSUME IInv, NEW n \in Nodes, Lift(n)
  PROVE  IInv'
<1>. DEFINE pc == IF db'.rec = 0 THEN "end" ELSE Back(n)
            s == [srv[n] EXCEPT !.pc = pc]
<1>1. /\ srv' = [srv EXCEPT ![n] = s] /\ req' = req
      /\ db' = db \/ db' = LiftDb(db, {n}, FALSE)
  BY Zenon DEF Lift, Go
<1>2. /\ s.pc = pc /\ s.boot = srv[n].boot /\ s.active = srv[n].active
      /\ s.change = srv[n].change /\ s.old = srv[n].old /\ s.rec = srv[n].rec
      /\ s = [f \in Fields |-> s[f]] /\ s.active \in BOOLEAN
  BY DEF IInv, Typed, Fields
<1>3. pc \in {"end", "check", "idle"}
  BY DEF Back
<1>. HIDE DEF s, pc
<1>4. DbOK(db') /\ \A m \in Nodes : db'.omap[m].enforcing = db.omap[m].enforcing
  BY ZenonT(60), <1>1, LiftOK DEF IInv
<1>5. ServerOK(s, db'.omap[n].enforcing, req[n])
  BY ZenonT(60), <1>2, <1>3, <1>4 DEF IInv, ServerOK, Lift, At
<1>. QED  BY <1>1, <1>2, <1>4, <1>5, Writing

\* The epoch of rados_recov_old_oid is there, so the mark is taken back.
LEMMA EndGraceIInv ==
  ASSUME IInv, NEW n \in Nodes, EndGrace(n)
  PROVE  IInv'
<1>. DEFINE s == [srv[n] EXCEPT !.pc = "rmdb", !.old = 0, !.rec = srv[n].old]
<1>1. srv[n].old # 0
  BY Zenon DEF EndGrace, At, IInv, ServerOK
<1>2. srv' = [srv EXCEPT ![n] = s] /\ req' = req /\ db' = ToggleDb(db, {n}, db.omap, FALSE)
  BY Zenon, <1>1 DEF EndGrace, Toggle
<1>3. /\ s.pc = "rmdb" /\ s.boot = srv[n].boot /\ s.active = srv[n].active
      /\ s.change = srv[n].change
      /\ s = [f \in Fields |-> s[f]] /\ s.active \in BOOLEAN
  BY ZenonT(40) DEF IInv, Typed, Fields
<1>. HIDE DEF s
<1>4. /\ DbOK(db') /\ db'.omap[n].enforcing = FALSE
      /\ \A m \in Nodes \ {n} : db'.omap[m].enforcing = db.omap[m].enforcing
  <2>1. DbOK(db) /\ FALSE \in BOOLEAN
    BY DEF IInv
  <2>2. /\ DbOK(ToggleDb(db, {n}, db.omap, FALSE))
        /\ ToggleDb(db, {n}, db.omap, FALSE).omap[n].enforcing = FALSE
        /\ \A m \in Nodes \ {n} : ToggleDb(db, {n}, db.omap, FALSE).omap[m] = db.omap[m]
    BY <2>1, ToggleOK, Zenon
  <2>. QED  BY Zenon, <1>2, <2>2
<1>5. ServerOK(s, db'.omap[n].enforcing, req[n])
  BY Zenon, <1>3, <1>4 DEF IInv, ServerOK, EndGrace, At
<1>. QED  BY Zenon, <1>2, <1>3, <1>4, <1>5, Writing

-----------------------------------------------------------------------------
(* Crashes, shutdowns and requests.                                        *)

LEMMA StopIInv ==
  ASSUME IInv, NEW n \in Nodes, Crash(n) \/ Shutdown(n)
  PROVE  IInv'
<1>1. srv' = [srv EXCEPT ![n] = Down] /\ req' = [req EXCEPT ![n] = {}]
  BY DEF Crash, Shutdown, Stop
<1>2. DbOK(db') /\ \A m \in Nodes \ {n} : db'.omap[m].enforcing = db.omap[m].enforcing
  BY JoinOK DEF Crash, Shutdown, IInv
<1>3. /\ ServerOK(Down, db'.omap[n].enforcing, {})
      /\ Down = [f \in Fields |-> Down[f]] /\ Down.active \in BOOLEAN
  BY ZenonT(60), DownOK
<1>. QED  BY Zenon, <1>1, <1>2, <1>3, Local

\* A request begins, or ends.
LEMMA Requesting ==
  ASSUME IInv, NEW n \in Nodes, NEW R, UNCHANGED <<srv, db>>, req' = [req EXCEPT ![n] = R],
         ServerOK(srv[n], db.omap[n].enforcing, R)
  PROVE  IInv'
<1>1. srv' = [srv EXCEPT ![n] = srv[n]]
  BY DEF IInv, Typed
<1>. QED  BY SMTT(60), <1>1, Local DEF IInv, Typed

LEMMA RequestIInv ==
  ASSUME IInv, NEW n \in Nodes, NEW c \in Clients, NEW reclaim \in BOOLEAN,
         Request(n, c, reclaim)
  PROVE  IInv'
<1>. DEFINE R == req[n] \cup {<<c, reclaim>>}
<1>1. req' = [req EXCEPT ![n] = R] /\ UNCHANGED <<srv, db>>
  BY DEF Request, store
<1>2. srv[n].pc # "down" /\ srv[n].active = reclaim /\ ~srv[n].change
  BY DEF Request, Serving, At
<1>3. srv[n].active => \A d \in Clients : <<d, FALSE>> \notin R
  BY Zenon, <1>2 DEF IInv, ServerOK
<1>. HIDE DEF R
<1>4. ServerOK(srv[n], db.omap[n].enforcing, R)
  BY Zenon, <1>2, <1>3 DEF IInv, ServerOK
<1>. QED  BY Zenon, <1>1, <1>4, Requesting

LEMMA FinishIInv ==
  ASSUME IInv, NEW n \in Nodes, NEW r \in req[n], Finish(n, r)
  PROVE  IInv'
<1>1. req' = [req EXCEPT ![n] = req[n] \ {r}] /\ UNCHANGED <<srv, db>>
  BY DEF Finish, store
<1>2. ServerOK(srv[n], db.omap[n].enforcing, req[n] \ {r})
  BY Zenon DEF IInv, ServerOK
<1>. QED  BY Zenon, <1>1, <1>2, Requesting

LEMMA Still ==
  ASSUME IInv, UNCHANGED <<srv, db, req>>
  PROVE  IInv'
BY ZenonT(60) DEF IInv, Typed, DbOK, ServerOK

LEMMA NextIInv == IInv /\ [Next]_vars => IInv'
<1>. SUFFICES ASSUME IInv, [Next]_vars PROVE IInv'
  OBVIOUS
<1>1. ASSUME NEW n \in Nodes, ServerStep(n)
      PROVE  IInv'
  BY SMTT(60), <1>1, BootIInv, SetEnforcingIInv, JoinIInv, CreateIInv, LoadIInv, CheckIInv,
     MaybeStartIInv, SnapIInv, WriteDbIInv, StartGraceIInv, TryLiftIInv, LiftIInv,
     EndGraceIInv, ClearIInv DEF ServerStep
<1>2. ASSUME NEW n \in Nodes, NEW c \in Clients, ClientStep(n, c)
      PROVE  IInv'
  <2>1. CASE Insert(n, c) \/ Confirm(n, c) \/ ReclaimComplete(n, c) \/ Expire(n, c)
    BY Zenon, <2>1, Still DEF Insert, Confirm, ReclaimComplete, Expire, store
  <2>. QED  BY <1>2, <2>1, RequestIInv DEF ClientStep
<1>3. CASE UNCHANGED vars
  BY <1>3, Still DEF vars, store
<1>. QED  BY Zenon, <1>1, <1>2, <1>3, FinishIInv, StopIInv DEF Next

LEMMA Invariant == Spec => []IInv
BY InitIInv, NextIInv, PTL DEF Spec

-----------------------------------------------------------------------------
(* The theorems.                                                           *)

\* In every cluster a server that is marked as enforcing blocks new state
\* (rados_cluster_set_enforcing, rados_cluster_end_grace).
THEOREM Blocked == Spec => []EnforcingMeansBlocked
<1>1. IInv => EnforcingMeansBlocked
  BY Zenon DEF IInv, ServerOK, EnforcingMeansBlocked, At
<1>. QED  BY <1>1, Invariant, PTL

\* In every cluster nobody is in need of grace without a period
\* (rados_grace_join_bulk, rados_grace_lift_bulk).
THEOREM Recovering == Spec => []RecoveryInGrace
<1>1. IInv => RecoveryInGrace
  BY SMTT(60) DEF IInv, DbOK, RecoveryInGrace
<1>. QED  BY <1>1, Invariant, PTL

\* The steps that begin or end a grace period, and those that leave it alone.
LEMMA ServerStepStable ==
  ASSUME IInv, NEW n \in Nodes, ServerStep(n)
  PROVE  /\ \A m \in Nodes \ {n} : srv'[m] = srv[m]
         /\ srv'[n].active # srv[n].active => req[n] = {}
<1>1. srv = [m \in Nodes |-> srv[m]] /\ srv[n] = [f \in Fields |-> srv[n][f]]
  BY DEF IInv, Typed
<1>2. ServerOK(srv[n], db.omap[n].enforcing, req[n])
  BY DEF IInv
<1>3. CASE Boot(n)
  BY Zenon, <1>1, <1>2, <1>3 DEF Boot, At, ServerOK
<1>4. CASE StartGrace(n)
  BY <1>1, <1>4 DEF StartGrace, Fields
<1>5. CASE Clear(n)
  BY Zenon, <1>1, <1>2, <1>5 DEF Clear, At, ServerOK
<1>6. ASSUME NEW pc, Go(n, pc)
      PROVE  (\A m \in Nodes \ {n} : srv'[m] = srv[m]) /\ srv'[n].active = srv[n].active
  BY <1>1, <1>6 DEF Go, Fields
<1>7. CASE SetEnforcing(n) \/ Create(n) \/ Lift(n) \/ RemoveDb(n)
  BY Zenon, <1>7, <1>6 DEF SetEnforcing, Create, Lift, RemoveDb
<1>8. CASE Check(n)
  <2>1. CASE srv' = [srv EXCEPT ![n].pc = "idle", ![n].boot = FALSE]
    BY Zenon, <1>1, <2>1 DEF Fields
  <2>. QED  BY <1>8, <1>6, <2>1 DEF Check
<1>9. CASE Join(n) \/ Load(n) \/ MaybeStart(n) \/ Snap(n) \/ WriteDb(n)
  BY <1>1, <1>9 DEF Join, Load, MaybeStart, Snap, WriteDb, Fields
<1>10. CASE TryLift(n)
  BY <1>1, <1>10 DEF TryLift, Go, Fields
<1>11. CASE EndGrace(n)
  <2>1. CASE srv' = [srv EXCEPT ![n].pc = "rmdb", ![n].old = 0, ![n].rec = srv[n].old]
    BY Zenon, <1>1, <2>1 DEF Fields
  <2>. QED  BY Zenon, <1>11, <1>6, <2>1 DEF EndGrace
<1>. QED  BY SMTT(60), <1>3, <1>4, <1>5, <1>7, <1>8, <1>9, <1>10, <1>11 DEF ServerStep

\* In every cluster the state of grace of a server does not change while a
\* request holds a reference on it (nfs_start_grace, nfs_lift_grace_locked).
THEOREM Stable == Spec => GraceStable
<1>. DEFINE Kept == \A n \in Nodes : srv'[n].active # srv[n].active
                                      => req[n] = {} \/ srv'[n].pc = "down"
<1>1. IInv /\ [Next]_vars => [Kept]_vars
  <2>. SUFFICES ASSUME IInv, Next PROVE Kept
    OBVIOUS
  <2>1. ASSUME NEW n \in Nodes, ServerStep(n)
        PROVE  Kept
    BY <2>1, ServerStepStable
  <2>2. ASSUME NEW n \in Nodes, Crash(n) \/ Shutdown(n)
        PROVE  Kept
    <3>1. srv' = [srv EXCEPT ![n] = Down]
      BY <2>2 DEF Crash, Shutdown, Stop
    <3>. QED  BY Zenon, <3>1, DownOK DEF IInv, Typed
  <2>3. CASE srv' = srv
    BY <2>3
  <2>4. ASSUME NEW n \in Nodes, NEW c \in Clients, ClientStep(n, c)
        PROVE  srv' = srv
    BY Zenon, <2>4 DEF ClientStep, Insert, Confirm, ReclaimComplete, Expire, Request
  <2>5. ASSUME NEW n \in Nodes, NEW r \in req[n], Finish(n, r)
        PROVE  srv' = srv
    BY <2>5 DEF Finish
  <2>. HIDE DEF Kept
  <2>. QED  BY Zenon, <2>1, <2>2, <2>3, <2>4, <2>5 DEF Next
<1>. QED  BY <1>1, Invariant, PTL DEF Spec, GraceStable

=============================================================================
