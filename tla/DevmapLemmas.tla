---------------------------- MODULE DevmapLemmas ----------------------------
(***************************************************************************)
(* The inductive invariant of the device map, and what each helper of      *)
(* devmap.c does to its parts.                                             *)
(*                                                                         *)
(* The parts are stated over a heap and maps that are parameters, because  *)
(* replacing a device passes through an intermediate state (the old device *)
(* removed, the new one not yet added) inside one critical section: each   *)
(* helper gets a lemma, and an action that calls two of them cites both.   *)
(***************************************************************************)
EXTENDS Devmap, TLAPS, FiniteSetTheorems

\* The threads that hold the cell o according to h.
OwnersIn(h, o) == {t \in Threads : o \in h[t]}

\* Heap, device map and held references fit together.
MapOK(heap, byid, h) ==
  /\ heap \in [Objs -> DeviceObj \cup {NULL}]
  /\ byid \in [Ids -> Objs \cup {NULL}]
  /\ h \in [Threads -> SUBSET Objs]
  /\ \A i \in Ids : byid[i] # NULL =>
       heap[byid[i]] # NULL /\ heap[byid[i]].id = i
  /\ \A t \in Threads : \A o \in h[t] : heap[o] # NULL
  /\ \A o \in Objs : heap[o] # NULL =>
       /\ heap[o].refs > 0
       /\ heap[o].refs = Cardinality(OwnersIn(h, o))
                           + (IF byid[heap[o].id] = o THEN 1 ELSE 0)

\* The name index points into the device map.
NameOK(heap, byid, byname) ==
  /\ byname \in [Names -> Objs \cup {NULL}]
  /\ \A n \in Names : byname[n] # NULL =>
       /\ heap[byname[n]] # NULL
       /\ heap[byname[n]].name = n
       /\ byid[heap[byname[n]].id] = byname[n]

\* Devices in the map point to live profiles, and so does the profile map.
ProfOK(heap, byid, pr, prs) ==
  /\ pr \in [ProfObjs -> ProfileObj \cup {NULL}]
  /\ prs \in [ProfNames -> ProfObjs \cup {NULL}]
  /\ \A i \in Ids : byid[i] # NULL => pr[heap[byid[i]].prof] # NULL
  /\ \A n \in ProfNames : prs[n] # NULL =>
       pr[prs[n]] # NULL /\ pr[prs[n]].name = n

\* What is left of the listing is not in the map yet.
TodoOK ==
  /\ todo \in Seq(Fetched)
  /\ \A j \in 1..Len(todo) : devices[todo[j].id] = NULL
  /\ \A j, k \in 1..Len(todo) : j # k => todo[j].id # todo[k].id

\* The inductive invariant.
IInv ==
  /\ MapOK(dev, devices, held)
  /\ clearing \/ NameOK(dev, devices, name_to_id)
  /\ ProfOK(dev, devices, prof, profiles)
  /\ TodoOK
  /\ name_to_id \in [Names -> Objs \cup {NULL}]
  /\ heldprof \in [Threads -> ProfObjs \cup {NULL}]
  /\ wanted \in [Threads -> ProfNames \cup {NULL}]
  /\ clearing \in BOOLEAN

-----------------------------------------------------------------------------
(* Heap and device map.                                                    *)

\* The owners of a cell are finitely many, and they are counted by a natural
\* number that is zero exactly when there is none.
LEMMA OwnersCount ==
  ASSUME NEW h, NEW o
  PROVE  /\ IsFiniteSet(OwnersIn(h, o))
         /\ Cardinality(OwnersIn(h, o)) \in Nat
         /\ Cardinality(OwnersIn(h, o)) = 0 <=> OwnersIn(h, o) = {}
<1>1. OwnersIn(h, o) \in SUBSET Threads
  BY DEF OwnersIn
<1>2. IsFiniteSet(OwnersIn(h, o))
  BY <1>1, FS_Subset, DevmapAssumption
<1> QED
  BY <1>2, FS_CardinalityType, FS_EmptySet

\* remove_locked: dropping the map's reference together with the entry.
LEMMA DropMapped ==
  ASSUME NEW heap, NEW byid, NEW h, MapOK(heap, byid, h),
         NEW i \in Ids, byid[i] # NULL
  PROVE  MapOK(Unref(heap, byid[i]), [byid EXCEPT ![i] = NULL], h)
<1> DEFINE o == byid[i]
           heap2 == Unref(heap, o)
           byid2 == [byid EXCEPT ![i] = NULL]
<1> USE DevmapAssumption
<1>1. o \in Objs /\ heap[o] \in DeviceObj /\ heap[o].id = i
  BY DEF MapOK
<1>2. /\ heap[o].refs = Cardinality(OwnersIn(h, o)) + 1
      /\ heap[o].refs \in Nat
  BY <1>1 DEF MapOK, DeviceObj
<1>3. heap2 \in [Objs -> DeviceObj \cup {NULL}]
  <2>1. CASE heap[o].refs = 1
    BY <2>1, <1>1 DEF MapOK, Unref
  <2>2. CASE heap[o].refs # 1
    <3>1. [heap[o] EXCEPT !.refs = @ - 1] \in DeviceObj
      BY <1>1, <1>2, <2>2, OwnersCount DEF DeviceObj
    <3>2. heap2 = [heap EXCEPT ![o] = [heap[o] EXCEPT !.refs = @ - 1]]
      BY <1>1, <2>2 DEF Unref, MapOK
    <3> QED
      BY <3>1, <3>2, <1>1 DEF MapOK
  <2> QED
    BY <2>1, <2>2
<1>4. byid2 \in [Ids -> Objs \cup {NULL}]
  BY DEF MapOK
<1>5. \A x \in Objs : x # o => heap2[x] = heap[x]
  BY <1>1 DEF Unref, MapOK
<1>6. heap2[o] # NULL => /\ heap2[o].id = i
                         /\ heap2[o].refs = heap[o].refs - 1
                         /\ heap[o].refs # 1
  BY <1>1 DEF Unref, MapOK, DeviceObj
<1>7. \A j \in Ids : byid2[j] # NULL => byid2[j] = byid[j] /\ byid[j] # o
  BY <1>1 DEF MapOK
<1>8. \A j \in Ids : byid2[j] # NULL =>
        heap2[byid2[j]] # NULL /\ heap2[byid2[j]].id = j
  BY <1>5, <1>7 DEF MapOK
<1>9. \A t \in Threads : \A x \in h[t] : heap2[x] # NULL
  <2> SUFFICES ASSUME NEW t \in Threads, o \in h[t]
               PROVE  heap2[o] # NULL
    BY <1>5 DEF MapOK
  <2>1. OwnersIn(h, o) # {}
    BY DEF OwnersIn
  <2>2. heap[o].refs # 1
    BY <2>1, <1>2, OwnersCount
  <2>3. heap2 = [heap EXCEPT ![o] = [heap[o] EXCEPT !.refs = @ - 1]]
    BY <2>2, <1>1 DEF Unref, MapOK
  <2>4. [heap[o] EXCEPT !.refs = @ - 1] \in DeviceObj
    BY SMTT(60), <1>1, <1>2, <2>2, OwnersCount DEF DeviceObj
  <2> QED
    BY <2>3, <2>4, <1>1 DEF MapOK
<1>10. ASSUME NEW x \in Objs, heap2[x] # NULL
       PROVE  /\ heap2[x].refs > 0
              /\ heap2[x].refs = Cardinality(OwnersIn(h, x))
                                  + (IF byid2[heap2[x].id] = x THEN 1 ELSE 0)
  <2>1. CASE x = o
    BY SMTT(60), <2>1, <1>10, <1>6, <1>2, <1>1, OwnersCount DEF MapOK
  <2>2. CASE x # o
    <3>1. heap[x] \in DeviceObj /\ heap2[x] = heap[x]
      BY <2>2, <1>5, <1>10 DEF MapOK
    <3>2. byid2[heap[x].id] = x <=> byid[heap[x].id] = x
      BY SMTT(60), <3>1, <2>2, <1>1 DEF MapOK, DeviceObj
    <3> QED
      BY <3>1, <3>2, <1>10 DEF MapOK
  <2> QED
    BY <2>1, <2>2
<1> QED
  BY <1>3, <1>4, <1>8, <1>9, <1>10 DEF MapOK

\* add_locked: a new cell with one reference, entered under a free id.
LEMMA InsertNew ==
  ASSUME NEW heap, NEW byid, NEW h, MapOK(heap, byid, h),
         NEW d \in Fetched, byid[d.id] = NULL,
         NEW o \in Objs, heap[o] = NULL, NEW p \in ProfObjs
  PROVE  MapOK([heap EXCEPT ![o] = NewDev(d, p)], [byid EXCEPT ![d.id] = o], h)
<1> DEFINE heap2 == [heap EXCEPT ![o] = NewDev(d, p)]
           byid2 == [byid EXCEPT ![d.id] = o]
<1> USE DevmapAssumption
<1>1. /\ NewDev(d, p) \in DeviceObj
      /\ NewDev(d, p).id = d.id
      /\ NewDev(d, p).refs = 1
      /\ d.id \in Ids
  BY DEF NewDev, DeviceObj, DeviceRec
<1>2. heap2 \in [Objs -> DeviceObj \cup {NULL}]
  BY <1>1 DEF MapOK
<1>3. byid2 \in [Ids -> Objs \cup {NULL}]
  BY Zenon DEF MapOK
<1>4. heap2[o] = NewDev(d, p) /\ \A x \in Objs : x # o => heap2[x] = heap[x]
  BY DEF MapOK
<1>5. \A i \in Ids : byid[i] # o
  BY DEF MapOK
<1>6. byid2[d.id] = o /\ \A i \in Ids : i # d.id => byid2[i] = byid[i]
  BY <1>1 DEF MapOK
<1>7. \A i \in Ids : byid2[i] # NULL =>
        heap2[byid2[i]] # NULL /\ heap2[byid2[i]].id = i
  <2> SUFFICES ASSUME NEW i \in Ids, byid2[i] # NULL
               PROVE  heap2[byid2[i]] # NULL /\ heap2[byid2[i]].id = i
    OBVIOUS
  <2>1. CASE i = d.id
    BY SMTT(60), <2>1, <1>1, <1>4, <1>6
  <2>2. CASE i # d.id
    BY SMTT(60), <2>2, <1>4, <1>5, <1>6 DEF MapOK
  <2> QED
    BY <2>1, <2>2
<1>8. \A t \in Threads : \A x \in h[t] : x # o /\ heap2[x] # NULL
  BY <1>4 DEF MapOK
<1>9. ASSUME NEW x \in Objs, heap2[x] # NULL
      PROVE  /\ heap2[x].refs > 0
             /\ heap2[x].refs = Cardinality(OwnersIn(h, x))
                                  + (IF byid2[heap2[x].id] = x THEN 1 ELSE 0)
  <2>1. CASE x = o
    <3>1. OwnersIn(h, o) = {}
      BY <1>8 DEF OwnersIn
    <3>2. Cardinality(OwnersIn(h, o)) = 0
      BY <3>1, OwnersCount
    <3> QED
      BY <2>1, <3>2, <1>1, <1>4, <1>6
  <2>2. CASE x # o
    <3>1. heap[x] \in DeviceObj /\ heap2[x] = heap[x]
      BY <2>2, <1>4, <1>9 DEF MapOK
    <3>2. byid2[heap[x].id] = x <=> byid[heap[x].id] = x
      <4>1. heap[x].id \in Ids
        BY <3>1 DEF DeviceObj
      <4> QED
        BY <4>1, <2>2, <1>6
    <3> QED
      BY <3>1, <3>2, <1>9 DEF MapOK
  <2> QED
    BY <2>1, <2>2
<1> QED
  BY SMTT(60), <1>2, <1>3, <1>7, <1>8, <1>9 DEF MapOK

\* A lookup adds a reference to each device of a set S of mapped devices.
LEMMA TakeRefs ==
  ASSUME NEW heap, NEW byid, NEW h, MapOK(heap, byid, h),
         NEW t \in Threads, h[t] = {}, NEW S \in SUBSET Objs,
         \A o \in S : heap[o] # NULL
  PROVE  MapOK([o \in Objs |-> IF o \in S THEN [heap[o] EXCEPT !.refs = @ + 1]
                                          ELSE heap[o]],
               byid, [h EXCEPT ![t] = S])
<1> DEFINE up(o) == [heap[o] EXCEPT !.refs = @ + 1]
           heap2 == [o \in Objs |-> IF o \in S THEN up(o) ELSE heap[o]]
           h2 == [h EXCEPT ![t] = S]
<1> USE DevmapAssumption
<1>1. \A o \in S : /\ heap[o] \in DeviceObj
                   /\ up(o) \in DeviceObj
                   /\ up(o).id = heap[o].id
                   /\ up(o).refs = heap[o].refs + 1
  BY DEF MapOK, DeviceObj
<1>2. heap2 \in [Objs -> DeviceObj \cup {NULL}]
  BY <1>1 DEF MapOK
<1>3. h2 \in [Threads -> SUBSET Objs]
  BY DEF MapOK
<1>4. \A o \in Objs : heap2[o] # NULL <=> heap[o] # NULL
  BY <1>1 DEF MapOK
<1>5. \A o \in Objs : heap[o] # NULL => heap2[o].id = heap[o].id
  BY <1>1
<1>6. \A i \in Ids : byid[i] # NULL =>
        heap2[byid[i]] # NULL /\ heap2[byid[i]].id = i
  BY <1>4, <1>5 DEF MapOK
<1>7. \A u \in Threads : \A o \in h2[u] : heap2[o] # NULL
  BY <1>4 DEF MapOK
<1>8. ASSUME NEW x \in Objs, heap2[x] # NULL
      PROVE  /\ heap2[x].refs > 0
             /\ heap2[x].refs = Cardinality(OwnersIn(h2, x))
                                  + (IF byid[heap2[x].id] = x THEN 1 ELSE 0)
  <2>1. heap[x] # NULL /\ heap[x] \in DeviceObj /\ heap2[x].id = heap[x].id
    BY <1>4, <1>5, <1>8 DEF MapOK
  <2>2. CASE x \in S
    <3>1. OwnersIn(h2, x) = OwnersIn(h, x) \cup {t} /\ t \notin OwnersIn(h, x)
      BY <2>2 DEF OwnersIn, MapOK
    <3>2. Cardinality(OwnersIn(h2, x)) = Cardinality(OwnersIn(h, x)) + 1
      BY Zenon, <3>1, OwnersCount, FS_AddElement
    <3>3. heap2[x].refs = heap[x].refs + 1
      BY Zenon, <2>2, <1>1
    <3> QED
      BY <2>1, <3>2, <3>3, OwnersCount DEF MapOK
  <2>3. CASE x \notin S
    <3>1. OwnersIn(h2, x) = OwnersIn(h, x)
      BY <2>3 DEF OwnersIn, MapOK
    <3> QED
      BY <2>1, <2>3, <3>1 DEF MapOK
  <2> QED
    BY <2>2, <2>3
<1> QED
  BY Zenon, <1>2, <1>3, <1>6, <1>7, <1>8 DEF MapOK

\* edgex_device_release by a thread that owns a reference.
LEMMA DropHeld ==
  ASSUME NEW heap, NEW byid, NEW h, MapOK(heap, byid, h),
         NEW t \in Threads, NEW o \in h[t]
  PROVE  MapOK(Unref(heap, o), byid, [h EXCEPT ![t] = @ \ {o}])
<1> DEFINE heap2 == Unref(heap, o)
           h2 == [h EXCEPT ![t] = @ \ {o}]
           down == [heap[o] EXCEPT !.refs = @ - 1]
<1> USE DevmapAssumption
<1>1. o \in Objs /\ heap[o] \in DeviceObj /\ heap[o].refs \in Nat
  BY SMTT(60) DEF MapOK, DeviceObj
<1>2. heap[o].refs > 0
      /\ heap[o].refs = Cardinality(OwnersIn(h, o))
                          + (IF byid[heap[o].id] = o THEN 1 ELSE 0)
  BY SMTT(60), <1>1 DEF MapOK
<1>3. OwnersIn(h2, o) = OwnersIn(h, o) \ {t} /\ t \in OwnersIn(h, o)
  BY DEF OwnersIn, MapOK
<1>4. Cardinality(OwnersIn(h2, o)) = Cardinality(OwnersIn(h, o)) - 1
  BY ZenonT(40), <1>3, OwnersCount, FS_RemoveElement
<1>5. \A x \in Objs : x # o => heap2[x] = heap[x]
  BY <1>1 DEF Unref, MapOK
<1>6. heap[o].refs # 1 => /\ heap2[o] = down
                          /\ down \in DeviceObj
                          /\ down.id = heap[o].id
                          /\ down.refs = heap[o].refs - 1
  BY <1>1, <1>2 DEF Unref, MapOK, DeviceObj
<1>7. heap[o].refs = 1 => /\ heap2[o] = NULL
                          /\ OwnersIn(h2, o) = {}
                          /\ \A i \in Ids : byid[i] # o
  <2> SUFFICES ASSUME heap[o].refs = 1
               PROVE  /\ heap2[o] = NULL
                      /\ OwnersIn(h2, o) = {}
                      /\ \A i \in Ids : byid[i] # o
    BY Zenon
  <2>1. Cardinality(OwnersIn(h2, o)) = 0 /\ byid[heap[o].id] # o
    BY <1>2, <1>4, OwnersCount
  <2>2. heap2[o] = NULL
    BY SMTT(60), <1>1 DEF Unref, MapOK
  <2>3. \A i \in Ids : byid[i] # o
    BY SMTT(60), <2>1 DEF MapOK
  <2> QED
    BY <2>1, <2>2, <2>3, OwnersCount
<1>8. heap2 \in [Objs -> DeviceObj \cup {NULL}]
  <2>1. heap2 = [heap EXCEPT ![o] = heap2[o]]
    BY Zenon, <1>1 DEF Unref, MapOK
  <2>2. heap2[o] \in DeviceObj \cup {NULL}
    BY SMTT(60), <1>6, <1>7
  <2> QED
    BY <2>1, <2>2, <1>1 DEF MapOK
<1>9. h2 \in [Threads -> SUBSET Objs]
  BY SMTT(60) DEF MapOK
<1>10. \A i \in Ids : byid[i] # NULL =>
         heap2[byid[i]] # NULL /\ heap2[byid[i]].id = i
  <2> SUFFICES ASSUME NEW i \in Ids, byid[i] # NULL
               PROVE  heap2[byid[i]] # NULL /\ heap2[byid[i]].id = i
    BY SMTT(60)
  <2>1. byid[i] \in Objs /\ heap[byid[i]] # NULL /\ heap[byid[i]].id = i
    BY DEF MapOK
  <2>2. CASE byid[i] = o
    BY ZenonT(60), <2>1, <2>2, <1>6, <1>7
  <2>3. CASE byid[i] # o
    BY SMTT(60), <2>1, <2>3, <1>5
  <2> QED
    BY SMTT(60), <2>2, <2>3
<1>11. \A u \in Threads : \A x \in h2[u] : heap2[x] # NULL
  <2> SUFFICES ASSUME NEW u \in Threads, NEW x \in h2[u]
               PROVE  heap2[x] # NULL
    BY SMTT(60)
  <2>1. x \in h[u]
    BY SMTT(60) DEF MapOK
  <2>2. CASE x # o
    BY <2>1, <2>2, <1>5 DEF MapOK
  <2>3. CASE x = o
    <3>1. u \in OwnersIn(h2, o)
      BY SMTT(60), <2>3 DEF OwnersIn
    <3> QED
      BY ZenonT(60), <3>1, <2>3, <1>6, <1>7
  <2> QED
    BY SMTT(60), <2>2, <2>3
<1>12. ASSUME NEW x \in Objs, heap2[x] # NULL
       PROVE  /\ heap2[x].refs > 0
              /\ heap2[x].refs = Cardinality(OwnersIn(h2, x))
                                   + (IF byid[heap2[x].id] = x THEN 1 ELSE 0)
  <2>1. CASE x = o
    <3>1. heap[o].refs # 1
      BY <2>1, <1>7, <1>12
    <3>2. heap2[o].id = heap[o].id /\ heap2[o].refs = heap[o].refs - 1
      BY ZenonT(60), <3>1, <1>6
    <3>3. Cardinality(OwnersIn(h, o)) \in Nat
      BY SMTT(60), OwnersCount
    <3> QED
      BY SMTT(60), <2>1, <3>1, <3>2, <3>3, <1>1, <1>2, <1>4
  <2>2. CASE x # o
    <3>1. OwnersIn(h2, x) = OwnersIn(h, x)
      BY <2>2 DEF OwnersIn, MapOK
    <3> QED
      BY SMTT(60), <2>2, <3>1, <1>5, <1>12 DEF MapOK
  <2> QED
    BY SMTT(60), <2>1, <2>2
<1> QED
  BY ZenonT(60), <1>8, <1>9, <1>10, <1>11, <1>12 DEF MapOK

\* update_in_place: only the two states of a device change.
LEMMA SetStates ==
  ASSUME NEW heap, NEW byid, NEW h, MapOK(heap, byid, h),
         NEW o \in Objs, heap[o] # NULL,
         NEW a \in AdminStates, NEW s \in OpStates
  PROVE  /\ MapOK([heap EXCEPT ![o].admin = a, ![o].op = s], byid, h)
         /\ MapOK([heap EXCEPT ![o].admin = a], byid, h)
<1> DEFINE x1 == [heap[o] EXCEPT !.admin = a]
           x2 == [heap[o] EXCEPT !.admin = a, !.op = s]
           heap1 == [heap EXCEPT ![o] = x1]
           heap2 == [heap EXCEPT ![o] = x2]
<1> USE DevmapAssumption
<1>1. /\ [heap EXCEPT ![o].admin = a] = heap1
      /\ [heap EXCEPT ![o].admin = a, ![o].op = s] = heap2
  BY ZenonT(60) DEF MapOK
<1>2. heap[o] \in DeviceObj
  BY DEF MapOK
<1>3. /\ x1 \in DeviceObj /\ x1.id = heap[o].id /\ x1.refs = heap[o].refs
      /\ x2 \in DeviceObj /\ x2.id = heap[o].id /\ x2.refs = heap[o].refs
  BY ZenonT(60), <1>2 DEF DeviceObj
<1>4. ASSUME NEW x \in DeviceObj, x.id = heap[o].id, x.refs = heap[o].refs
      PROVE  MapOK([heap EXCEPT ![o] = x], byid, h)
  <2> DEFINE g == [heap EXCEPT ![o] = x]
  <2>1. \A y \in Objs : /\ g[y] # NULL <=> heap[y] # NULL
                        /\ g[y] # NULL => /\ g[y].id = heap[y].id
                                          /\ g[y].refs = heap[y].refs
    BY SMTT(60), <1>2, <1>4 DEF MapOK
  <2>2. g \in [Objs -> DeviceObj \cup {NULL}]
    BY SMTT(60) DEF MapOK
  <2>3. MapOK(g, byid, h)
    <3> HIDE DEF g
    <3>1. \A i \in Ids : byid[i] # NULL =>
            g[byid[i]] # NULL /\ g[byid[i]].id = i
      BY SMTT(60), <2>1 DEF MapOK
    <3>2. \A t \in Threads : \A y \in h[t] : g[y] # NULL
      BY SMTT(60), <2>1 DEF MapOK
    <3>3. \A y \in Objs : g[y] # NULL =>
            /\ g[y].refs > 0
            /\ g[y].refs = Cardinality(OwnersIn(h, y))
                             + (IF byid[g[y].id] = y THEN 1 ELSE 0)
      BY <2>1 DEF MapOK
    <3> QED
      BY SMTT(60), <2>2, <3>1, <3>2, <3>3 DEF MapOK
  <2> QED
    BY SMTT(60), <2>3
<1> QED
  BY Zenon, <1>1, <1>3, <1>4
=============================================================================
