---------------------------- MODULE DevmapProofs ----------------------------
(***************************************************************************)
(* Proofs that the device map keeps its reference counts exact, its name   *)
(* index consistent, the profiles of its devices alive and the devices in  *)
(* use unchanged, for any number of threads, devices, names and profiles.  *)
(* The inductive invariant IInv is in DevmapLemmas, with the lemmas about  *)
(* reference counts; those about the name index come first here.           *)
(***************************************************************************)
EXTENDS DevmapLemmas

\* The name index and the profiles do not depend on the reference counts and
\* the states of the devices.
LEMMA SameIdentity ==
  ASSUME NEW heap, NEW heap2, NEW byid,
         byid \in [Ids -> Objs \cup {NULL}],
         \A i \in Ids : byid[i] # NULL =>
           /\ heap2[byid[i]] # NULL
           /\ heap[byid[i]] # NULL /\ heap[byid[i]].id = i
           /\ heap2[byid[i]].id = heap[byid[i]].id
           /\ heap2[byid[i]].name = heap[byid[i]].name
           /\ heap2[byid[i]].prof = heap[byid[i]].prof
  PROVE  /\ \A byname : NameOK(heap, byid, byname) /\ heap \in [Objs -> DeviceObj \cup {NULL}]
                          => NameOK(heap2, byid, byname)
         /\ \A pr, prs : ProfOK(heap, byid, pr, prs) => ProfOK(heap2, byid, pr, prs)
<1> USE DevmapAssumption
<1>1. ASSUME NEW byname, NameOK(heap, byid, byname),
             heap \in [Objs -> DeviceObj \cup {NULL}]
      PROVE  NameOK(heap2, byid, byname)
  <2> SUFFICES ASSUME NEW n \in Names, byname[n] # NULL
               PROVE  /\ heap2[byname[n]] # NULL
                      /\ heap2[byname[n]].name = n
                      /\ byid[heap2[byname[n]].id] = byname[n]
    BY <1>1 DEF NameOK
  <2>1. byname[n] \in Objs /\ heap[byname[n]] \in DeviceObj
    BY <1>1 DEF NameOK
  <2>2. heap[byname[n]].id \in Ids
    BY <2>1 DEF DeviceObj
  <2> QED
    BY SMTT(60), <1>1, <2>1, <2>2 DEF NameOK
<1>2. ASSUME NEW pr, NEW prs, ProfOK(heap, byid, pr, prs)
      PROVE  ProfOK(heap2, byid, pr, prs)
  BY <1>2 DEF ProfOK
<1> QED
  BY <1>1, <1>2

\* remove_locked keeps the name index and the profiles.
LEMMA DropNames ==
  ASSUME NEW heap, NEW byid, NEW byname, NEW h, NEW pr, NEW prs,
         MapOK(heap, byid, h), ProfOK(heap, byid, pr, prs),
         NEW i \in Ids, byid[i] # NULL
  PROVE  LET o == byid[i]
             byid2 == [byid EXCEPT ![i] = NULL]
         IN  /\ ProfOK(Unref(heap, o), byid2, pr, prs)
             /\ NameOK(heap, byid, byname) =>
                  NameOK(Unref(heap, o), byid2,
                         [byname EXCEPT ![heap[o].name] = NULL])
<1> DEFINE o == byid[i]
           heap2 == Unref(heap, o)
           byid2 == [byid EXCEPT ![i] = NULL]
           byname2 == [byname EXCEPT ![heap[o].name] = NULL]
<1> USE DevmapAssumption
<1>1. o \in Objs /\ heap[o] \in DeviceObj /\ heap[o].id = i
  BY DEF MapOK
<1>2. \A x \in Objs : x # o => heap2[x] = heap[x]
  BY <1>1 DEF Unref, MapOK
<1>3. \A j \in Ids : byid2[j] # NULL => byid2[j] = byid[j] /\ byid[j] # o
  BY <1>1 DEF MapOK
<1>4. ProfOK(heap2, byid2, pr, prs)
  BY SMTT(60), <1>2, <1>3 DEF ProfOK, MapOK
<1>5. ASSUME NameOK(heap, byid, byname)
      PROVE  NameOK(heap2, byid2, byname2)
  <2>1. heap[o].name \in Names
    BY <1>1 DEF DeviceObj
  <2>2. byname2 \in [Names -> Objs \cup {NULL}]
    BY ZenonT(60), <1>5 DEF NameOK
  <2> SUFFICES ASSUME NEW n \in Names, byname2[n] # NULL
               PROVE  /\ heap2[byname2[n]] # NULL
                      /\ heap2[byname2[n]].name = n
                      /\ byid2[heap2[byname2[n]].id] = byname2[n]
    BY <2>2 DEF NameOK
  <2>3. byname2[n] = byname[n] /\ n # heap[o].name
    BY <2>1, <1>5 DEF NameOK
  <2>4. byname[n] # o /\ byname[n] \in Objs /\ heap[byname[n]] \in DeviceObj
    BY <2>3, <1>5 DEF NameOK, MapOK
  <2>5. heap[byname[n]].id \in Ids /\ heap[byname[n]].id # i
    BY <2>3, <2>4, <1>5 DEF NameOK, DeviceObj
  <2> QED
    BY SMTT(60), <2>3, <2>4, <2>5, <1>2, <1>5 DEF NameOK, MapOK
<1> QED
  BY <1>4, <1>5

\* add_locked keeps the name index and the profiles.
LEMMA AddNames ==
  ASSUME NEW heap, NEW byid, NEW byname, NEW h, NEW pr, NEW prs,
         MapOK(heap, byid, h), ProfOK(heap, byid, pr, prs),
         NEW d \in Fetched, byid[d.id] = NULL,
         NEW o \in Objs, heap[o] = NULL,
         NEW p \in ProfObjs, pr[p] # NULL
  PROVE  LET heap2 == [heap EXCEPT ![o] = NewDev(d, p)]
             byid2 == [byid EXCEPT ![d.id] = o]
         IN  /\ ProfOK(heap2, byid2, pr, prs)
             /\ NameOK(heap, byid, byname) =>
                  NameOK(heap2, byid2, [byname EXCEPT ![d.name] = o])
<1> DEFINE heap2 == [heap EXCEPT ![o] = NewDev(d, p)]
           byid2 == [byid EXCEPT ![d.id] = o]
           byname2 == [byname EXCEPT ![d.name] = o]
<1> USE DevmapAssumption
<1>1. /\ NewDev(d, p) \in DeviceObj
      /\ NewDev(d, p).id = d.id
      /\ NewDev(d, p).name = d.name
      /\ NewDev(d, p).prof = p
      /\ d.id \in Ids /\ d.name \in Names
  BY DEF NewDev, DeviceObj, DeviceRec
<1>2. heap2[o] = NewDev(d, p) /\ \A x \in Objs : x # o => heap2[x] = heap[x]
  BY DEF MapOK
<1>3. byid2[d.id] = o /\ \A i \in Ids : i # d.id => byid2[i] = byid[i]
  BY <1>1 DEF MapOK
<1>4. \A i \in Ids : byid[i] # o
  BY SMTT(60) DEF MapOK
<1>5. ProfOK(heap2, byid2, pr, prs)
  <2> SUFFICES ASSUME NEW i \in Ids, byid2[i] # NULL
               PROVE  pr[heap2[byid2[i]].prof] # NULL
    BY DEF ProfOK
  <2>1. CASE i = d.id
    BY SMTT(60), <2>1, <1>1, <1>2, <1>3
  <2>2. CASE i # d.id
    BY SMTT(60), <2>2, <1>2, <1>3, <1>4 DEF ProfOK, MapOK
  <2> QED
    BY SMTT(60), <2>1, <2>2
<1>6. ASSUME NameOK(heap, byid, byname)
      PROVE  NameOK(heap2, byid2, byname2)
  <2>1. byname2 \in [Names -> Objs \cup {NULL}]
    BY ZenonT(60), <1>6 DEF NameOK
  <2> SUFFICES ASSUME NEW n \in Names, byname2[n] # NULL
               PROVE  /\ heap2[byname2[n]] # NULL
                      /\ heap2[byname2[n]].name = n
                      /\ byid2[heap2[byname2[n]].id] = byname2[n]
    BY SMTT(60), <2>1 DEF NameOK
  <2>2. CASE n = d.name
    BY SMTT(60), <2>2, <1>1, <1>2, <1>3, <1>6 DEF NameOK
  <2>3. CASE n # d.name
    <3>1. byname2[n] = byname[n] /\ byname[n] # o
      BY SMTT(60), <2>3, <1>6 DEF NameOK
    <3>2. byname[n] \in Objs /\ heap[byname[n]] \in DeviceObj
      BY SMTT(60), <3>1, <1>6 DEF NameOK, MapOK
    <3>3. heap[byname[n]].id \in Ids /\ heap[byname[n]].id # d.id
      BY SMTT(60), <3>1, <3>2, <1>6 DEF NameOK, DeviceObj
    <3> QED
      BY SMTT(60), <3>1, <3>2, <3>3, <1>2, <1>3, <1>6 DEF NameOK
  <2> QED
    BY <2>2, <2>3
<1> QED
  BY SMTT(60), <1>5, <1>6

\* add_locked as a step, from the maps that precede it in the same critical
\* section.
LEMMA AddLockedStep ==
  ASSUME NEW heap, NEW byid, NEW byname,
         MapOK(heap, byid, held), ProfOK(heap, byid, prof, profiles),
         byname \in [Names -> Objs \cup {NULL}],
         NEW d \in Fetched, byid[d.id] = NULL,
         AddLocked(heap, byid, byname, d)
  PROVE  /\ MapOK(dev', devices', held)
         /\ ProfOK(dev', devices', prof', profiles')
         /\ NameOK(heap, byid, byname) => NameOK(dev', devices', name_to_id')
         /\ name_to_id' \in [Names -> Objs \cup {NULL}]
         /\ \A i \in Ids : i # d.id => devices'[i] = byid[i]
<1> USE DevmapAssumption
<1>1. PICK o \in Objs, p \in ProfObjs :
        /\ heap[o] = NULL
        /\ AttachProfile(d, p)
        /\ dev' = [heap EXCEPT ![o] = NewDev(d, p)]
        /\ devices' = [byid EXCEPT ![d.id] = o]
        /\ name_to_id' = [byname EXCEPT ![d.name] = o]
  BY Zenon DEF AddLocked
<1>2. d.pname \in ProfNames /\ d.pid \in ProfIds
  BY DEF DeviceRec
<1>3. ProfOK(heap, byid, prof', profiles') /\ prof'[p] # NULL
  <2>1. CASE profiles[d.pname] # NULL
    BY SMTT(60), <1>1, <1>2, <2>1 DEF AttachProfile, ProfOK
  <2>2. CASE profiles[d.pname] = NULL
    <3> DEFINE r == [name |-> d.pname, pid |-> d.pid]
    <3>1. r \in ProfileObj /\ r.name = d.pname
      BY <1>2 DEF ProfileObj
    <3>2. /\ prof[p] = NULL
          /\ prof' = [prof EXCEPT ![p] = r]
          /\ profiles' = [profiles EXCEPT ![d.pname] = p]
      BY SMTT(60), <1>1, <2>2 DEF AttachProfile
    <3> HIDE DEF r
    <3>3. /\ prof' \in [ProfObjs -> ProfileObj \cup {NULL}]
          /\ profiles' \in [ProfNames -> ProfObjs \cup {NULL}]
          /\ prof'[p] = r /\ r # NULL
          /\ \A x \in ProfObjs : x # p => prof'[x] = prof[x]
      BY SMTT(60), <3>1, <3>2, <1>2 DEF ProfOK
    <3>4. \A i \in Ids : byid[i] # NULL => prof'[heap[byid[i]].prof] # NULL
      <4> SUFFICES ASSUME NEW i \in Ids, byid[i] # NULL
                   PROVE  prof'[heap[byid[i]].prof] # NULL
        BY SMTT(60)
      <4>1. heap[byid[i]] \in DeviceObj
        BY DEF MapOK
      <4>2. heap[byid[i]].prof \in ProfObjs
        BY SMTT(60), <4>1 DEF DeviceObj
      <4> QED
        BY SMTT(60), <4>2, <3>3 DEF ProfOK
    <3>5. \A n \in ProfNames : profiles'[n] # NULL =>
            prof'[profiles'[n]] # NULL /\ prof'[profiles'[n]].name = n
      BY SMTT(60), <3>1, <3>2, <3>3, <1>2 DEF ProfOK
    <3> QED
      BY SMTT(60), <3>3, <3>4, <3>5 DEF ProfOK
  <2> QED
    BY SMTT(60), <2>1, <2>2
<1>4. MapOK(dev', devices', held)
  BY ZenonT(60), <1>1, InsertNew
<1>5. /\ ProfOK(dev', devices', prof', profiles')
      /\ NameOK(heap, byid, byname) => NameOK(dev', devices', name_to_id')
  BY ZenonT(60), <1>1, <1>3, AddNames
<1>6. name_to_id' \in [Names -> Objs \cup {NULL}]
  BY ZenonT(60), <1>1
<1>7. \A i \in Ids : i # d.id => devices'[i] = byid[i]
  BY <1>1 DEF MapOK
<1> QED
  BY SMTT(60), <1>4, <1>5, <1>6, <1>7

-----------------------------------------------------------------------------
(* The invariant.                                                          *)

\* The service starts with an empty map and a listing without duplicates.
LEMMA InitInv == Init => IInv
<1> SUFFICES ASSUME Init PROVE IInv
  OBVIOUS
<1> USE DevmapAssumption DEF Init
<1>1. MapOK(dev, devices, held)
  BY DEF MapOK
<1>2. NameOK(dev, devices, name_to_id) /\ ProfOK(dev, devices, prof, profiles)
  BY DEF NameOK, ProfOK
<1>3. TodoOK
  <2>1. PICK n \in 0..Cardinality(Ids) : todo \in [1..n -> Fetched]
    BY Zenon DEF Listing
  <2>2. n \in Nat /\ todo \in Seq(Fetched) /\ DOMAIN todo = 1..n /\ Len(todo) = n
    BY <2>1
  <2>3. \A j \in 1..n : todo[j] \in DeviceRec /\ todo[j].id \in Ids
    BY <2>1 DEF DeviceRec
  <2>4. \A i, j \in DOMAIN todo : i # j => todo[i].id # todo[j].id
    BY ZenonT(60) DEF Listing
  <2>5. \A j \in 1..n : devices[todo[j].id] = NULL
    BY <2>3
  <2> QED
    BY <2>2, <2>4, <2>5, ZenonT(60) DEF TodoOK
<1> QED
  BY ZenonT(60), <1>1, <1>2, <1>3 DEF IInv

\* The invariant in the next state, from its conjuncts.
LEMMA InvPrime ==
  ASSUME MapOK(dev', devices', held'),
         clearing' \/ NameOK(dev', devices', name_to_id'),
         ProfOK(dev', devices', prof', profiles'),
         TodoOK',
         name_to_id' \in [Names -> Objs \cup {NULL}],
         heldprof' \in [Threads -> ProfObjs \cup {NULL}],
         wanted' \in [Threads -> ProfNames \cup {NULL}],
         clearing' \in BOOLEAN
  PROVE  IInv'
BY Zenon DEF IInv, MapOK, NameOK, ProfOK, OwnersIn

\* Actions that leave heap, maps and references alone.
LEMMA IdleStep ==
  ASSUME IInv, UNCHANGED <<dev, devices, name_to_id, prof, profiles, held, todo>>,
         clearing' = clearing,
         heldprof' \in [Threads -> ProfObjs \cup {NULL}],
         wanted' \in [Threads -> ProfNames \cup {NULL}]
  PROVE  IInv'
<1>1. /\ MapOK(dev', devices', held')
      /\ clearing' \/ NameOK(dev', devices', name_to_id')
      /\ ProfOK(dev', devices', prof', profiles')
      /\ name_to_id' \in [Names -> Objs \cup {NULL}]
      /\ clearing' \in BOOLEAN
  BY SMTT(60) DEF IInv
<1>2. TodoOK'
  BY DEF IInv, TodoOK
<1> QED
  BY SMTT(60), <1>1, <1>2, InvPrime

\* Actions that run while the service is up and change only the heap, the
\* maps and the references.
LEMMA UpStep ==
  ASSUME IInv, Running, UNCHANGED <<heldprof, wanted, todo, clearing>>,
         MapOK(dev', devices', held'),
         NameOK(dev', devices', name_to_id'),
         ProfOK(dev', devices', prof', profiles')
  PROVE  IInv'
<1>1. todo' = <<>> /\ TodoOK'
  BY SMTT(60) DEF Running, TodoOK, IInv
<1>2. /\ name_to_id' \in [Names -> Objs \cup {NULL}]
      /\ heldprof' \in [Threads -> ProfObjs \cup {NULL}]
      /\ wanted' \in [Threads -> ProfNames \cup {NULL}]
      /\ clearing' \in BOOLEAN
  BY SMTT(60) DEF IInv, NameOK
<1> QED
  BY SMTT(60), <1>1, <1>2, InvPrime

\* The device in one cell is the same as in the other, but for its states
\* and the reference count.
SameDevice(a, b) ==
  /\ a.id = b.id /\ a.name = b.name /\ a.prot = b.prot
  /\ a.prof = b.prof /\ a.autos = b.autos

\* The devices are the same but for the reference count.
SameContents(a, b) == SameDevice(a, b) /\ a.admin = b.admin /\ a.op = b.op

\* edgex_device_release changes nothing but the count, unless it frees.
LEMMA UnrefKeeps ==
  ASSUME NEW heap \in [Objs -> DeviceObj \cup {NULL}],
         NEW o \in Objs, heap[o] # NULL, NEW x \in Objs, Unref(heap, o)[x] # NULL
  PROVE  /\ heap[x] # NULL
         /\ SameContents(Unref(heap, o)[x], heap[x])
         /\ x # o => Unref(heap, o)[x] = heap[x]
<1> DEFINE y == [heap[o] EXCEPT !.refs = @ - 1]
<1>1. heap[o] \in DeviceObj
  BY DevmapAssumption
<1>2. SameContents(y, heap[o])
  BY <1>1 DEF SameContents, SameDevice, DeviceObj
<1>3. CASE heap[o].refs = 1
  BY SMTT(60), <1>3 DEF Unref, SameContents, SameDevice
<1>4. CASE heap[o].refs # 1
  <2>1. Unref(heap, o) = [heap EXCEPT ![o] = y]
    BY <1>4 DEF Unref
  <2> HIDE DEF y
  <2> QED
    BY SMTT(60), <2>1, <1>2 DEF SameContents, SameDevice
<1> QED
  BY SMTT(60), <1>3, <1>4

\* The first half of a replacement: the old device is gone from the map, and
\* nothing else has changed but its administrative state.
LEMMA SwapRemoves ==
  ASSUME IInv, NEW d \in Fetched, ReplaceSwap(d)
  PROVE  \E heap, byid, byname :
           /\ MapOK(heap, byid, held)
           /\ ProfOK(heap, byid, prof, profiles)
           /\ NameOK(heap, byid, byname)
           /\ byid = [devices EXCEPT ![d.id] = NULL]
           /\ AddLocked(heap, byid, byname, d)
           /\ \A x \in Objs : heap[x] # NULL =>
                /\ dev[x] # NULL /\ SameDevice(heap[x], dev[x])
                /\ x # devices[d.id] => heap[x] = dev[x]
<1> DEFINE o == devices[d.id]
           adm == IF SameAddress(dev[o], d) THEN d.admin ELSE dev[o].admin
           heap0 == [dev EXCEPT ![o].admin = adm]
           heap == Unref(heap0, o)
           byid == [devices EXCEPT ![d.id] = NULL]
           byname == [name_to_id EXCEPT ![dev[o].name] = NULL]
<1>a. /\ MapOK(dev, devices, held)
      /\ ProfOK(dev, devices, prof, profiles)
      /\ name_to_id \in [Names -> Objs \cup {NULL}]
      /\ devices \in [Ids -> Objs \cup {NULL}]
      /\ dev \in [Objs -> DeviceObj \cup {NULL}]
  BY SMTT(60) DEF IInv, MapOK
<1>1. /\ Running /\ o # NULL
      /\ AddLocked(heap, byid, byname, d)
  BY SMTT(60) DEF ReplaceSwap
<1>b. NameOK(dev, devices, name_to_id)
  BY SMTT(60), <1>1 DEF IInv, Running
<1>2. /\ d.id \in Ids /\ o \in Objs /\ dev[o] \in DeviceObj /\ dev[o] # NULL
      /\ adm \in AdminStates /\ dev[o].op \in OpStates
  BY SMTT(60), DevmapAssumption, <1>1, <1>a DEF DeviceObj, DeviceRec, MapOK
<1> HIDE DEF adm
<1>3. MapOK(heap0, devices, held)
  BY ZenonT(60), <1>2, <1>a, SetStates
<1>4. /\ heap0[o] # NULL /\ heap0[o].name = dev[o].name
      /\ heap0 \in [Objs -> DeviceObj \cup {NULL}]
      /\ \A x \in Objs : dev[x] # NULL => heap0[x] # NULL /\ SameDevice(heap0[x], dev[x])
      /\ \A x \in Objs : x # o => heap0[x] = dev[x]
  <2> DEFINE y == [dev[o] EXCEPT !.admin = adm]
  <2>1. heap0 = [dev EXCEPT ![o] = y]
    BY SMTT(60), <1>2, <1>a
  <2>2. y \in DeviceObj /\ SameDevice(y, dev[o])
    BY <1>2 DEF DeviceObj, SameDevice
  <2> HIDE DEF y
  <2> QED
    BY SMTT(60), DevmapAssumption, <2>1, <2>2, <1>2, <1>a DEF SameDevice
<1>5. /\ NameOK(heap0, devices, name_to_id)
      /\ ProfOK(heap0, devices, prof, profiles)
  <2>1. \A i \in Ids : devices[i] # NULL =>
          /\ heap0[devices[i]] # NULL
          /\ dev[devices[i]] # NULL /\ dev[devices[i]].id = i
          /\ heap0[devices[i]].id = dev[devices[i]].id
          /\ heap0[devices[i]].name = dev[devices[i]].name
          /\ heap0[devices[i]].prof = dev[devices[i]].prof
    BY SMTT(60), <1>4, <1>a DEF MapOK, SameDevice
  <2> HIDE DEF heap0
  <2> QED
    BY ZenonT(60), <2>1, <1>a, <1>b, SameIdentity
<1> HIDE DEF heap0
<1>6. MapOK(heap, byid, held)
  BY SMTT(60), <1>1, <1>2, <1>3, DropMapped
<1>7. /\ ProfOK(heap, byid, prof, profiles)
      /\ NameOK(heap, byid, byname)
  <2>1. /\ ProfOK(heap, byid, prof, profiles)
        /\ NameOK(heap, byid, [name_to_id EXCEPT ![heap0[o].name] = NULL])
    BY ZenonT(60), <1>1, <1>2, <1>3, <1>5, DropNames
  <2> QED
    BY ZenonT(60), <2>1, <1>4
<1>8. ASSUME NEW x \in Objs, heap[x] # NULL
      PROVE  /\ dev[x] # NULL /\ SameDevice(heap[x], dev[x])
             /\ x # o => heap[x] = dev[x]
  <2>1. /\ heap0[x] # NULL /\ SameContents(heap[x], heap0[x])
        /\ x # o => heap[x] = heap0[x]
    BY SMTT(60), <1>8, <1>2, <1>4, UnrefKeeps
  <2>2. dev[x] # NULL
    BY SMTT(60), <2>1, <1>2, <1>4
  <2> QED
    BY SMTT(60), <2>1, <2>2, <1>4 DEF SameContents, SameDevice
<1> HIDE DEF heap, byname
<1> QED
  BY ZenonT(60), <1>1, <1>6, <1>7, <1>8

\* Every step preserves the invariant.
LEMMA NextInv == IInv /\ [Next]_vars => IInv'
<1> SUFFICES ASSUME IInv, [Next]_vars PROVE IInv'
  BY SMTT(60)
<1>a. /\ MapOK(dev, devices, held)
      /\ ProfOK(dev, devices, prof, profiles)
      /\ Running => NameOK(dev, devices, name_to_id)
      /\ name_to_id \in [Names -> Objs \cup {NULL}]
      /\ devices \in [Ids -> Objs \cup {NULL}]
      /\ dev \in [Objs -> DeviceObj \cup {NULL}]
  BY SMTT(60) DEF IInv, Running, MapOK
<1>b. ASSUME NEW i \in Ids, devices[i] # NULL
      PROVE  /\ devices[i] \in Objs
             /\ dev[devices[i]] \in DeviceObj
             /\ dev[devices[i]].id = i
             /\ dev[devices[i]].name \in Names
             /\ dev[devices[i]].prof \in ProfObjs
             /\ dev[devices[i]].admin \in AdminStates
  BY SMTT(60), <1>a, <1>b, DevmapAssumption DEF MapOK, DeviceObj
<1>c. ASSUME NEW n \in Names, name_to_id[n] # NULL, Running
      PROVE  /\ name_to_id[n] \in Objs
             /\ dev[name_to_id[n]].id \in Ids
             /\ devices[dev[name_to_id[n]].id] = name_to_id[n]
  BY SMTT(60), <1>a, <1>c, DevmapAssumption DEF NameOK, DeviceObj
<1>d. \A d \in Fetched : d.id \in Ids /\ d.name \in Names
                         /\ d.admin \in AdminStates /\ d.op \in OpStates
  BY SMTT(60), DevmapAssumption DEF DeviceRec
<1>1. CASE PopulateDevices
  <2> DEFINE d == Head(todo)
  <2>1. /\ todo \in Seq(Fetched) /\ todo # <<>>
        /\ d \in Fetched /\ d = todo[1] /\ Len(todo) >= 1
        /\ todo' = Tail(todo) /\ todo' \in Seq(Fetched)
        /\ Len(todo') = Len(todo) - 1
        /\ \A j \in 1..Len(todo') : todo'[j] = todo[j + 1]
    BY SMTT(60), <1>1 DEF PopulateDevices, IInv, TodoOK
  <2>2. Len(todo) \in Nat /\ \A j \in 1..Len(todo') : j + 1 \in 1..Len(todo) /\ j + 1 # 1
    BY SMTT(60), <2>1
  <2>3. devices[d.id] = NULL /\ \A j \in 1..Len(todo') : todo'[j].id # d.id
    BY SMTT(60), <2>1, <2>2 DEF IInv, TodoOK
  <2>4. \A j \in 1..Len(todo') : todo'[j] \in Fetched /\ devices[todo'[j].id] = NULL
    BY SMTT(60), <2>1, <2>2 DEF IInv, TodoOK
  <2>5. \A j, k \in 1..Len(todo') : j # k => todo'[j].id # todo'[k].id
    <3> SUFFICES ASSUME NEW j \in 1..Len(todo'), NEW k \in 1..Len(todo'), j # k
                 PROVE  todo'[j].id # todo'[k].id
      BY SMTT(60)
    <3>1. j + 1 \in 1..Len(todo) /\ k + 1 \in 1..Len(todo) /\ j + 1 # k + 1
      BY SMTT(60), <2>1, <2>2
    <3> QED
      BY SMTT(60), <3>1, <2>1 DEF IInv, TodoOK
  <2>6. UNCHANGED <<held, heldprof, wanted, clearing>>
    BY SMTT(60), <1>1 DEF PopulateDevices
  <2>9. /\ heldprof' \in [Threads -> ProfObjs \cup {NULL}]
        /\ wanted' \in [Threads -> ProfNames \cup {NULL}]
        /\ clearing' \in BOOLEAN
    BY SMTT(60), <2>6 DEF IInv
  <2>7. CASE name_to_id[d.name] # NULL
    <3>1. UNCHANGED <<dev, devices, name_to_id, prof, profiles>>
      BY SMTT(60), <1>1, <2>7 DEF PopulateDevices
    <3>2. TodoOK'
      BY SMTT(60), <3>1, <2>1, <2>4, <2>5 DEF TodoOK
    <3>3. /\ MapOK(dev', devices', held')
          /\ clearing' \/ NameOK(dev', devices', name_to_id')
          /\ ProfOK(dev', devices', prof', profiles')
          /\ name_to_id' \in [Names -> Objs \cup {NULL}]
      BY SMTT(60), <3>1, <2>6 DEF IInv
    <3> QED
      BY SMTT(60), <3>2, <3>3, <2>9, InvPrime
  <2>8. CASE name_to_id[d.name] = NULL
    <3>1. AddLocked(dev, devices, name_to_id, d)
      BY SMTT(60), <1>1, <2>8 DEF PopulateDevices
    <3>2. /\ MapOK(dev', devices', held)
          /\ ProfOK(dev', devices', prof', profiles')
          /\ NameOK(dev, devices, name_to_id) => NameOK(dev', devices', name_to_id')
          /\ name_to_id' \in [Names -> Objs \cup {NULL}]
          /\ \A i \in Ids : i # d.id => devices'[i] = devices[i]
      BY SMTT(60), <3>1, <2>1, <2>3, <1>a, AddLockedStep
    <3>3. \A j \in 1..Len(todo') : devices'[todo'[j].id] = NULL
      BY SMTT(60), <3>2, <2>3, <2>4, <1>d
    <3>4. TodoOK'
      BY SMTT(60), <3>3, <2>1, <2>5 DEF TodoOK
    <3>5. /\ MapOK(dev', devices', held')
          /\ clearing' \/ NameOK(dev', devices', name_to_id')
      BY SMTT(60), <3>2, <2>6 DEF IInv
    <3> QED
      BY SMTT(60), <3>2, <3>4, <3>5, <2>9, InvPrime
  <2> QED
    BY SMTT(60), <2>7, <2>8
<1>2. ASSUME NEW d \in Fetched, ReplaceCreate(d)
      PROVE  IInv'
  <2>1. Running /\ UNCHANGED <<held, heldprof, wanted, todo, clearing>>
    BY SMTT(60), <1>2 DEF ReplaceCreate
  <2>2. devices[d.id] = NULL /\ AddLocked(dev, devices, name_to_id, d)
    BY SMTT(60), <1>2 DEF ReplaceCreate
  <2>3. /\ MapOK(dev', devices', held)
        /\ ProfOK(dev', devices', prof', profiles')
        /\ NameOK(dev', devices', name_to_id')
    BY SMTT(60), <2>1, <2>2, <1>a, AddLockedStep
  <2> QED
    BY SMTT(60), <2>1, <2>3, UpStep
<1>3. ASSUME NEW d \in Fetched, ReplaceInPlace(d)
      PROVE  IInv'
  <2> DEFINE o == devices[d.id]
  <2>1. /\ Running /\ o # NULL
        /\ dev' = [dev EXCEPT ![o].admin = d.admin, ![o].op = d.op]
        /\ UNCHANGED <<devices, name_to_id, prof, profiles, held>>
        /\ UNCHANGED <<heldprof, wanted, todo, clearing>>
    BY SMTT(60), <1>3 DEF ReplaceInPlace
  <2>2. o \in Objs /\ dev[o] \in DeviceObj /\ dev[o] # NULL
    BY SMTT(60), DevmapAssumption, <2>1, <1>b, <1>d
  <2>3. MapOK(dev', devices', held')
    BY ZenonT(60), <2>1, <2>2, <1>a, <1>d, SetStates
  <2>4. \A x \in Objs : dev[x] # NULL =>
          /\ dev'[x] # NULL /\ dev'[x].id = dev[x].id
          /\ dev'[x].name = dev[x].name /\ dev'[x].prof = dev[x].prof
    <3> DEFINE y == [dev[o] EXCEPT !.admin = d.admin, !.op = d.op]
    <3>1. dev' = [dev EXCEPT ![o] = y]
      BY ZenonT(60), <2>1, <2>2, <1>a
    <3>2. /\ y \in DeviceObj /\ y.id = dev[o].id
          /\ y.name = dev[o].name /\ y.prof = dev[o].prof
      BY ZenonT(60), <2>2, <1>d DEF DeviceObj
    <3> QED
      BY SMTT(60), DevmapAssumption, <3>1, <3>2, <2>2, <1>a
  <2>5. NameOK(dev', devices', name_to_id') /\ ProfOK(dev', devices', prof', profiles')
    <3>1. \A i \in Ids : devices[i] # NULL =>
            /\ dev'[devices[i]] # NULL
            /\ dev[devices[i]] # NULL /\ dev[devices[i]].id = i
            /\ dev'[devices[i]].id = dev[devices[i]].id
            /\ dev'[devices[i]].name = dev[devices[i]].name
            /\ dev'[devices[i]].prof = dev[devices[i]].prof
      BY SMTT(60), DevmapAssumption, <2>4, <1>b, <1>a
    <3>2. /\ NameOK(dev, devices, name_to_id) => NameOK(dev', devices, name_to_id)
          /\ ProfOK(dev', devices, prof, profiles)
      BY ZenonT(60), <3>1, <1>a, SameIdentity
    <3> QED
      BY SMTT(60), <3>2, <2>1, <1>a
  <2> QED
    BY SMTT(60), <2>1, <2>3, <2>5, UpStep
<1>4. ASSUME NEW d \in Fetched, ReplaceSwap(d)
      PROVE  IInv'
  <2>1. PICK heap, byid, byname :
          /\ MapOK(heap, byid, held)
          /\ ProfOK(heap, byid, prof, profiles)
          /\ NameOK(heap, byid, byname)
          /\ byid = [devices EXCEPT ![d.id] = NULL]
          /\ AddLocked(heap, byid, byname, d)
    BY ZenonT(60), <1>4, SwapRemoves
  <2>2. Running /\ UNCHANGED <<held, heldprof, wanted, todo, clearing>>
    BY SMTT(60), <1>4 DEF ReplaceSwap
  <2>3. byid[d.id] = NULL /\ byname \in [Names -> Objs \cup {NULL}]
    BY SMTT(60), <2>1, <1>a, <1>d DEF NameOK
  <2>4. /\ MapOK(dev', devices', held)
        /\ ProfOK(dev', devices', prof', profiles')
        /\ NameOK(dev', devices', name_to_id')
    <3>1. /\ MapOK(heap, byid, held) /\ ProfOK(heap, byid, prof, profiles)
          /\ NameOK(heap, byid, byname) /\ AddLocked(heap, byid, byname, d)
      BY ZenonT(60), <2>1
    <3> QED
      BY SMTT(60), <3>1, <2>3, AddLockedStep
  <2> QED
    BY SMTT(60), <2>2, <2>4, UpStep
<1>5. ASSUME NEW i \in Ids, Running, devices[i] # NULL, RemoveLocked(devices[i]),
             UNCHANGED <<prof, profiles, held, heldprof, wanted, todo, clearing>>
      PROVE  IInv'
  <2>1. /\ name_to_id' = [name_to_id EXCEPT ![dev[devices[i]].name] = NULL]
        /\ devices' = [devices EXCEPT ![i] = NULL]
        /\ dev' = Unref(dev, devices[i])
    BY ZenonT(60), <1>5, <1>b DEF RemoveLocked
  <2>2. MapOK(dev', devices', held')
    BY ZenonT(60), <2>1, <1>5, <1>a, DropMapped
  <2>3. NameOK(dev', devices', name_to_id') /\ ProfOK(dev', devices', prof', profiles')
    BY ZenonT(60), <2>1, <1>5, <1>a, DropNames
  <2> QED
    BY SMTT(60), <2>2, <2>3, <1>5, UpStep
<1>6. ASSUME NEW i \in Ids, RemoveDeviceById(i)
      PROVE  IInv'
  BY SMTT(60), <1>5, <1>6 DEF RemoveDeviceById
<1>7. ASSUME NEW n \in Names, RemoveDeviceByName(n)
      PROVE  IInv'
  <2> DEFINE i == dev[name_to_id[n]].id
  <2>1. Running /\ name_to_id[n] # NULL
    BY SMTT(60), <1>7 DEF RemoveDeviceByName
  <2>2. i \in Ids /\ devices[i] # NULL
    BY SMTT(60), <2>1, <1>c
  <2> QED
    BY SMTT(60), <2>1, <2>2, <1>5, <1>7 DEF RemoveDeviceByName
<1>8. ASSUME NEW i \in Ids, ClearDevice(i)
      PROVE  IInv'
  <2>1. /\ todo = <<>> /\ clearing' = TRUE /\ devices[i] # NULL
        /\ dev' = Unref(dev, devices[i])
        /\ devices' = [devices EXCEPT ![i] = NULL]
        /\ UNCHANGED <<name_to_id, prof, profiles, held, heldprof, wanted, todo>>
    BY <1>8 DEF ClearDevice
  <2>2. MapOK(dev', devices', held')
    BY ZenonT(60), <2>1, <1>a, DropMapped
  <2>3. ProfOK(dev', devices', prof', profiles')
    BY ZenonT(60), <2>1, <1>a, DropNames
  <2>4. TodoOK'
    BY SMTT(60), <2>1 DEF IInv, TodoOK
  <2>5. /\ name_to_id' \in [Names -> Objs \cup {NULL}]
        /\ heldprof' \in [Threads -> ProfObjs \cup {NULL}]
        /\ wanted' \in [Threads -> ProfNames \cup {NULL}]
    BY <2>1 DEF IInv
  <2> QED
    BY SMTT(60), <2>1, <2>2, <2>3, <2>4, <2>5, InvPrime
<1>9. ASSUME NEW t \in Threads, NEW S \in SUBSET Objs, Running, Take(t, S),
             \A o \in S : \E i \in Ids : devices[i] = o
      PROVE  IInv'
  <2>1. /\ held[t] = {} /\ held' = [held EXCEPT ![t] = S]
        /\ dev' = [o \in Objs |-> IF o \in S THEN [dev[o] EXCEPT !.refs = @ + 1]
                                             ELSE dev[o]]
        /\ UNCHANGED <<devices, name_to_id, prof, profiles>>
        /\ UNCHANGED <<heldprof, wanted, todo, clearing>>
    BY SMTT(60), <1>9 DEF Take
  <2>2. \A o \in S : dev[o] # NULL
    BY SMTT(60), DevmapAssumption, <1>9, <1>b
  <2>3. MapOK(dev', devices', held')
    BY ZenonT(60), <2>1, <2>2, <1>9, <1>a, TakeRefs
  <2>4. \A x \in Objs : dev[x] # NULL =>
          /\ dev'[x] # NULL /\ dev'[x].id = dev[x].id
          /\ dev'[x].name = dev[x].name /\ dev'[x].prof = dev[x].prof
    <3> SUFFICES ASSUME NEW x \in Objs, dev[x] # NULL
                 PROVE  /\ dev'[x] # NULL /\ dev'[x].id = dev[x].id
                        /\ dev'[x].name = dev[x].name /\ dev'[x].prof = dev[x].prof
      OBVIOUS
    <3> DEFINE y == [dev[x] EXCEPT !.refs = @ + 1]
    <3>1. /\ y \in DeviceObj /\ y.id = dev[x].id
          /\ y.name = dev[x].name /\ y.prof = dev[x].prof
      BY <1>a DEF DeviceObj
    <3>2. dev'[x] = y \/ dev'[x] = dev[x]
      BY <2>1
    <3> QED
      BY ZenonT(60), DevmapAssumption, <3>1, <3>2
  <2>5. NameOK(dev', devices, name_to_id) /\ ProfOK(dev', devices, prof, profiles)
    <3>1. \A i \in Ids : devices[i] # NULL =>
            /\ dev'[devices[i]] # NULL
            /\ dev[devices[i]] # NULL /\ dev[devices[i]].id = i
            /\ dev'[devices[i]].id = dev[devices[i]].id
            /\ dev'[devices[i]].name = dev[devices[i]].name
            /\ dev'[devices[i]].prof = dev[devices[i]].prof
      BY SMTT(60), DevmapAssumption, <2>4, <1>b, <1>a
    <3> QED
      BY ZenonT(60), <3>1, <1>a, <1>9, SameIdentity
  <2> QED
    BY SMTT(60), <2>1, <2>3, <2>5, <1>9, UpStep
<1>10. ASSUME NEW t \in Threads, NEW i \in Ids, DeviceById(t, i)
       PROVE  IInv'
  BY SMTT(60), <1>9, <1>10, <1>b DEF DeviceById
<1>11. ASSUME NEW t \in Threads, NEW n \in Names, DeviceByName(t, n)
       PROVE  IInv'
  BY SMTT(60), <1>9, <1>11, <1>c DEF DeviceByName
<1>12. ASSUME NEW t \in Threads, NEW C \in SUBSET ProfNames, DeviceForCmd(t, C)
       PROVE  IInv'
  BY SMTT(60), <1>9, <1>12 DEF DeviceForCmd
<1>13. ASSUME NEW t \in Threads, NEW o \in Objs, Release(t, o)
       PROVE  IInv'
  <2>1. /\ o \in held[t] /\ held' = [held EXCEPT ![t] = @ \ {o}]
        /\ dev' = Unref(dev, o)
        /\ UNCHANGED <<devices, name_to_id, prof, profiles>>
        /\ UNCHANGED <<heldprof, wanted, todo, clearing>>
    BY <1>13 DEF Release
  <2>2. MapOK(dev', devices', held')
    BY ZenonT(60), <2>1, <1>a, DropHeld
  <2>3. \A i \in Ids : devices[i] # NULL =>
          /\ dev'[devices[i]] # NULL
          /\ dev[devices[i]] # NULL /\ dev[devices[i]].id = i
          /\ dev'[devices[i]].id = dev[devices[i]].id
          /\ dev'[devices[i]].name = dev[devices[i]].name
          /\ dev'[devices[i]].prof = dev[devices[i]].prof
    <3> SUFFICES ASSUME NEW i \in Ids, devices[i] # NULL
                 PROVE  /\ dev'[devices[i]] # NULL
                        /\ dev[devices[i]] # NULL /\ dev[devices[i]].id = i
                        /\ dev'[devices[i]].id = dev[devices[i]].id
                        /\ dev'[devices[i]].name = dev[devices[i]].name
                        /\ dev'[devices[i]].prof = dev[devices[i]].prof
      BY SMTT(60)
    <3> DEFINE x == devices[i]
               y == [dev[x] EXCEPT !.refs = @ - 1]
    <3>1. x \in Objs /\ dev[x] \in DeviceObj /\ dev[x].id = i
      BY SMTT(60), <1>b
    <3>2. /\ y.id = dev[x].id /\ y.name = dev[x].name /\ y.prof = dev[x].prof
      BY SMTT(60), <3>1 DEF DeviceObj
    <3>3. dev'[x] # NULL
      BY SMTT(60), <2>1, <2>2 DEF MapOK
    <3>4. dev'[x] = dev[x] \/ dev'[x] = y
      BY SMTT(60), <2>1, <3>1, <3>3, <1>a DEF Unref
    <3> QED
      BY ZenonT(60), DevmapAssumption, <3>1, <3>2, <3>3, <3>4
  <2>4. /\ ProfOK(dev', devices, prof, profiles)
        /\ NameOK(dev, devices, name_to_id) => NameOK(dev', devices, name_to_id)
    BY ZenonT(60), <2>3, <1>a, SameIdentity
  <2>5. /\ clearing' \/ NameOK(dev', devices', name_to_id')
        /\ ProfOK(dev', devices', prof', profiles')
        /\ name_to_id' \in [Names -> Objs \cup {NULL}]
        /\ heldprof' \in [Threads -> ProfObjs \cup {NULL}]
        /\ wanted' \in [Threads -> ProfNames \cup {NULL}]
        /\ clearing' \in BOOLEAN
    BY SMTT(60), <2>1, <2>4 DEF IInv
  <2>6. TodoOK'
    BY SMTT(60), <2>1 DEF IInv, TodoOK
  <2> QED
    BY SMTT(60), <2>2, <2>5, <2>6, InvPrime
<1>14. ASSUME NEW k \in ProfIds, RemoveProfile(k)
       PROVE  IInv'
  <2>1. /\ Running
        /\ \A i \in Ids : devices[i] # NULL => prof[dev[devices[i]].prof].pid # k
        /\ UNCHANGED <<dev, devices, name_to_id, held, heldprof, wanted, todo, clearing>>
    BY <1>14 DEF RemoveProfile
  <2>2. PICK n \in ProfNames :
          /\ profiles[n] # NULL
          /\ prof[profiles[n]].pid = k
          /\ prof' = [prof EXCEPT ![profiles[n]] = NULL]
          /\ profiles' = [profiles EXCEPT ![n] = NULL]
    BY ZenonT(60), <1>14 DEF RemoveProfile
  <2>3. \A m \in ProfNames : m # n /\ profiles[m] # NULL => profiles[m] # profiles[n]
    BY SMTT(60), <2>2, <1>a DEF ProfOK
  <2>4. ProfOK(dev, devices, prof', profiles')
    <3>1. /\ prof \in [ProfObjs -> ProfileObj \cup {NULL}]
          /\ profiles \in [ProfNames -> ProfObjs \cup {NULL}]
          /\ \A i \in Ids : devices[i] # NULL => prof[dev[devices[i]].prof] # NULL
          /\ \A m \in ProfNames : profiles[m] # NULL =>
               prof[profiles[m]] # NULL /\ prof[profiles[m]].name = m
      BY <1>a, ZenonT(60) DEF ProfOK
    <3>2. PICK q \in ProfObjs : q = profiles[n]
      BY SMTT(60), <3>1, <2>2
    <3>3. prof' = [prof EXCEPT ![q] = NULL] /\ prof[q].pid = k
      BY SMTT(60), <2>2, <3>2
    <3>4. /\ prof' \in [ProfObjs -> ProfileObj \cup {NULL}]
          /\ \A p \in ProfObjs : p # q => prof'[p] = prof[p]
      BY SMTT(60), <3>1, <3>3
    <3>5. /\ profiles' \in [ProfNames -> ProfObjs \cup {NULL}]
          /\ profiles'[n] = NULL
          /\ \A m \in ProfNames : m # n => profiles'[m] = profiles[m]
      BY SMTT(60), <3>1, <2>2
    <3>6. ASSUME NEW i \in Ids, devices[i] # NULL
          PROVE  prof'[dev[devices[i]].prof] # NULL
      <4>1. dev[devices[i]].prof \in ProfObjs /\ dev[devices[i]].prof # q
        BY SMTT(60), <3>6, <3>3, <2>1, <1>b
      <4> QED
        BY SMTT(60), <4>1, <3>6, <3>4, <3>1
    <3>7. ASSUME NEW m \in ProfNames, profiles'[m] # NULL
          PROVE  prof'[profiles'[m]] # NULL /\ prof'[profiles'[m]].name = m
      <4>1. m # n /\ profiles'[m] = profiles[m] /\ profiles[m] # NULL
        BY SMTT(60), <3>7, <3>5
      <4>2. profiles[m] \in ProfObjs /\ profiles[m] # q
        BY SMTT(60), <4>1, <3>1, <3>2, <2>3
      <4> QED
        BY SMTT(60), <4>1, <4>2, <3>1, <3>4
    <3> QED
      BY <3>4, <3>5, <3>6, <3>7, ZenonT(60) DEF ProfOK
  <2> QED
    BY SMTT(60), <2>1, <2>4, <1>a, UpStep
<1>15. ASSUME NEW t \in Threads, NEW n \in ProfNames, GetProfile(t, n)
       PROVE  IInv'
  <2>1. /\ UNCHANGED <<dev, devices, name_to_id, prof, profiles, held, todo>>
        /\ clearing' = clearing
    BY SMTT(60), <1>15 DEF GetProfile
  <2>2. profiles[n] \in ProfObjs \cup {NULL}
    BY SMTT(60), <1>a DEF ProfOK
  <2>3. /\ heldprof' \in [Threads -> ProfObjs \cup {NULL}]
        /\ wanted' \in [Threads -> ProfNames \cup {NULL}]
    BY SMTT(60), <2>2, <1>15 DEF GetProfile, IInv
  <2> QED
    BY SMTT(60), <2>1, <2>3, IdleStep
<1>16. ASSUME NEW t \in Threads, NEW k \in ProfIds, AddProfile(t, k)
       PROVE  IInv'
  <2> DEFINE n == wanted[t]
             r == [name |-> n, pid |-> k]
  <2>1. /\ Running /\ n # NULL
        /\ UNCHANGED <<dev, devices, name_to_id, held, todo, clearing>>
        /\ wanted' = [wanted EXCEPT ![t] = NULL]
    BY <1>16 DEF AddProfile
  <2>2. PICK p \in ProfObjs :
          /\ prof[p] = NULL
          /\ prof' = [prof EXCEPT ![p] = r]
          /\ profiles' = [profiles EXCEPT ![n] = p]
          /\ heldprof' = [heldprof EXCEPT ![t] = p]
    BY ZenonT(60), <1>16 DEF AddProfile
  <2>3. n \in ProfNames
    BY SMTT(60), <2>1 DEF IInv
  <2>4. r \in ProfileObj /\ r # NULL /\ r.name = n
    BY SMTT(60), DevmapAssumption, <2>3 DEF ProfileObj
  <2> HIDE DEF n, r
  <2>5. ProfOK(dev, devices, prof', profiles')
    <3>1. \A i \in Ids : devices[i] # NULL => dev[devices[i]].prof # p
      BY SMTT(60), <2>2, <1>a DEF ProfOK
    <3>2. /\ prof' \in [ProfObjs -> ProfileObj \cup {NULL}]
          /\ profiles' \in [ProfNames -> ProfObjs \cup {NULL}]
          /\ prof'[p] = r
          /\ \A x \in ProfObjs : x # p => prof'[x] = prof[x]
      BY SMTT(60), <2>2, <2>3, <2>4, <1>a DEF ProfOK
    <3>3. \A i \in Ids : devices[i] # NULL => prof'[dev[devices[i]].prof] # NULL
      BY SMTT(60), <3>1, <3>2, <1>a, <1>b DEF ProfOK
    <3>4. \A m \in ProfNames : profiles'[m] # NULL =>
            prof'[profiles'[m]] # NULL /\ prof'[profiles'[m]].name = m
      BY SMTT(60), <3>2, <2>2, <2>3, <2>4, <1>a DEF ProfOK
    <3> QED
      BY SMTT(60), <3>2, <3>3, <3>4 DEF ProfOK
  <2>6. /\ heldprof' \in [Threads -> ProfObjs \cup {NULL}]
        /\ wanted' \in [Threads -> ProfNames \cup {NULL}]
    BY SMTT(60), <2>1, <2>2 DEF IInv
  <2>7. /\ MapOK(dev', devices', held')
        /\ clearing' \/ NameOK(dev', devices', name_to_id')
        /\ ProfOK(dev', devices', prof', profiles')
        /\ name_to_id' \in [Names -> Objs \cup {NULL}]
        /\ clearing' \in BOOLEAN
    BY SMTT(60), <2>1, <2>5 DEF IInv
  <2>8. TodoOK'
    BY SMTT(60), <2>1 DEF IInv, TodoOK
  <2> QED
    BY SMTT(60), <2>6, <2>7, <2>8, InvPrime
<1>17. ASSUME NEW t \in Threads, NoProfile(t) \/ DupProfile(t)
       PROVE  IInv'
  <2>1. /\ UNCHANGED <<dev, devices, name_to_id, prof, profiles, held, todo>>
        /\ clearing' = clearing
    BY SMTT(60), <1>17 DEF NoProfile, DupProfile
  <2>2. /\ heldprof' \in [Threads -> ProfObjs \cup {NULL}]
        /\ wanted' \in [Threads -> ProfNames \cup {NULL}]
    BY SMTT(60), <1>17 DEF NoProfile, DupProfile, IInv
  <2> QED
    BY SMTT(60), <2>1, <2>2, IdleStep
<1>18. CASE UNCHANGED vars
  <2>1. /\ UNCHANGED <<dev, devices, name_to_id, prof, profiles, held, todo>>
        /\ clearing' = clearing
        /\ heldprof' \in [Threads -> ProfObjs \cup {NULL}]
        /\ wanted' \in [Threads -> ProfNames \cup {NULL}]
    BY SMTT(60), <1>18 DEF vars, IInv
  <2> QED
    BY SMTT(60), <2>1, IdleStep
<1> QED
  BY SMTT(60), <1>1, <1>2, <1>3, <1>4, <1>6, <1>7, <1>8, <1>10, <1>11, <1>12, <1>13,
     <1>14, <1>15, <1>16, <1>17, <1>18 DEF Next, ReplaceDevice

\* The invariant implies the properties that the runs check.
LEMMA InvImplies ==
  IInv => TypeOK /\ RefsExact /\ NoDanglingDevice /\ NameIndexSound /\ MappedProfileLive
<1> SUFFICES ASSUME IInv
             PROVE  TypeOK /\ RefsExact /\ NoDanglingDevice /\ NameIndexSound
                      /\ MappedProfileLive
  BY SMTT(60)
<1> USE DevmapAssumption
<1>1. TypeOK
  BY SMTT(60) DEF IInv, MapOK, ProfOK, TodoOK, TypeOK
<1>2. \A o \in Objs : dev[o] # NULL => (Mapped(o) <=> devices[dev[o].id] = o)
  BY SMTT(60) DEF IInv, MapOK, Mapped, DeviceObj
<1>3. \A o \in Objs : Owners(o) = OwnersIn(held, o)
  BY SMTT(60) DEF Owners, OwnersIn
<1>4. RefsExact
  BY SMTT(60), <1>2, <1>3 DEF RefsExact, IInv, MapOK
<1>5. NoDanglingDevice
  <2>1. ASSUME NEW o \in Objs, dev[o] # NULL
        PROVE  Mapped(o) \/ Owners(o) # {}
    <3>1. dev[o].refs > 0
      BY SMTT(60), <2>1 DEF IInv, MapOK
    <3> QED
      BY SMTT(60), <3>1, <2>1, <1>3, <1>4, OwnersCount DEF RefsExact
  <2>2. ASSUME NEW o \in Objs, Mapped(o) \/ Owners(o) # {}
        PROVE  dev[o] # NULL
    BY SMTT(60), <2>2 DEF IInv, MapOK, Mapped, Owners
  <2> QED
    BY SMTT(60), <2>1, <2>2 DEF NoDanglingDevice, IInv, MapOK
<1>6. NameIndexSound
  BY SMTT(60) DEF IInv, NameOK, NameIndexSound
<1>7. MappedProfileLive
  BY DEF IInv, ProfOK, MappedProfileLive
<1> QED
  BY SMTT(60), <1>1, <1>4, <1>5, <1>6, <1>7

\* The invariant holds in every reachable state.
LEMMA InvAlways == Spec => []IInv
BY InitInv, NextInv, PTL DEF Spec

\* The device that a thread holds stays what it is while it is held.
HeldSame ==
  \A t \in Threads : \A o \in held[t] \cap held'[t] : SameDevice(dev'[o], dev[o])

LEMMA NextHeldSame == IInv /\ IInv' /\ [Next]_vars => HeldSame
<1> SUFFICES ASSUME IInv, IInv', [Next]_vars,
                    NEW t \in Threads, NEW o \in held[t] \cap held'[t]
             PROVE  SameDevice(dev'[o], dev[o])
  BY SMTT(60) DEF HeldSame
<1>1. /\ o \in Objs /\ dev[o] # NULL /\ dev[o] \in DeviceObj
      /\ dev \in [Objs -> DeviceObj \cup {NULL}]
      /\ devices \in [Ids -> Objs \cup {NULL}]
      /\ \A i \in Ids : devices[i] # NULL => devices[i] \in Objs /\ dev[devices[i]] # NULL
  BY SMTT(60) DEF IInv, MapOK
<1>2. dev'[o] # NULL
  BY SMTT(60) DEF IInv, MapOK
<1>3. dev'[o] = dev[o] => SameDevice(dev'[o], dev[o])
  BY SMTT(60) DEF SameDevice
<1>4. ASSUME NEW c \in Objs, dev[c] # NULL, dev' = Unref(dev, c)
      PROVE  SameDevice(dev'[o], dev[o])
  BY SMTT(60), <1>1, <1>2, <1>4, UnrefKeeps DEF SameContents
<1>5. ASSUME NEW heap \in [Objs -> DeviceObj \cup {NULL}], heap[o] # NULL,
             NEW byid, NEW byname, NEW d, AddLocked(heap, byid, byname, d)
      PROVE  dev'[o] = heap[o]
  BY SMTT(60), <1>5, <1>1 DEF AddLocked
<1>6. CASE PopulateDevices
  BY SMTT(60), <1>6, <1>5, <1>3, <1>1 DEF PopulateDevices
<1>7. ASSUME NEW d \in Fetched, ReplaceDevice(d)
      PROVE  SameDevice(dev'[o], dev[o])
  <2>1. CASE ReplaceCreate(d)
    BY SMTT(60), <2>1, <1>5, <1>3, <1>1 DEF ReplaceCreate
  <2>2. CASE ReplaceInPlace(d)
    <3> DEFINE c == devices[d.id]
               y == [dev[c] EXCEPT !.admin = d.admin, !.op = d.op]
    <3>1. dev' = [dev EXCEPT ![c].admin = d.admin, ![c].op = d.op] /\ c # NULL
      BY SMTT(60), <2>2 DEF ReplaceInPlace
    <3>2. d.id \in Ids
      BY SMTT(60), DevmapAssumption DEF DeviceRec
    <3>3. c \in Objs /\ dev[c] \in DeviceObj
      BY SMTT(60), <3>1, <3>2, <1>1
    <3>4. dev' = [dev EXCEPT ![c] = y]
      BY ZenonT(60), <3>1, <3>3, <1>1
    <3>5. SameDevice(y, dev[c])
      BY ZenonT(60), <3>3 DEF SameDevice, DeviceObj
    <3> HIDE DEF y
    <3>6. (dev'[o] = y /\ o = c) \/ dev'[o] = dev[o]
      BY SMTT(60), <3>3, <3>4, <1>1
    <3> QED
      BY ZenonT(60), <3>5, <3>6, <1>3
  <2>3. CASE ReplaceSwap(d)
    <3>1. PICK heap, byid, byname :
            /\ MapOK(heap, byid, held)
            /\ AddLocked(heap, byid, byname, d)
            /\ \A x \in Objs : heap[x] # NULL => SameDevice(heap[x], dev[x])
      BY ZenonT(60), <2>3, SwapRemoves
    <3>2. heap[o] # NULL /\ heap \in [Objs -> DeviceObj \cup {NULL}]
      BY SMTT(60), <3>1 DEF MapOK
    <3> QED
      BY SMTT(60), <3>1, <3>2, <1>5, <1>1
  <2> QED
    BY SMTT(60), <1>7, <2>1, <2>2, <2>3 DEF ReplaceDevice
<1>8. ASSUME NEW i \in Ids, RemoveDeviceById(i) \/ ClearDevice(i)
      PROVE  SameDevice(dev'[o], dev[o])
  BY SMTT(60), <1>8, <1>4, <1>1 DEF RemoveDeviceById, RemoveLocked, ClearDevice
<1>9. ASSUME NEW n \in Names, RemoveDeviceByName(n)
      PROVE  SameDevice(dev'[o], dev[o])
  <2>1. /\ Running /\ name_to_id[n] # NULL
        /\ dev' = Unref(dev, devices[dev[name_to_id[n]].id])
    BY ZenonT(60), <1>9 DEF RemoveDeviceByName, RemoveLocked
  <2>2. NameOK(dev, devices, name_to_id)
    BY SMTT(60), <2>1 DEF IInv, Running
  <2>3. dev[name_to_id[n]] \in DeviceObj
    BY SMTT(60), <2>1, <2>2, <1>1 DEF NameOK
  <2>4. dev[name_to_id[n]].id \in Ids /\ devices[dev[name_to_id[n]].id] # NULL
    BY SMTT(60), <2>1, <2>2, <2>3 DEF NameOK, DeviceObj
  <2> QED
    BY SMTT(60), <2>1, <2>4, <1>1, <1>4
<1>10. ASSUME NEW u \in Threads, NEW S, Take(u, S)
       PROVE  SameDevice(dev'[o], dev[o])
  <2> DEFINE y == [dev[o] EXCEPT !.refs = @ + 1]
  <2>1. dev'[o] = y \/ dev'[o] = dev[o]
    BY SMTT(60), <1>10, <1>1 DEF Take
  <2>2. SameDevice(y, dev[o])
    BY SMTT(60), <1>1 DEF SameDevice, DeviceObj
  <2> QED
    BY ZenonT(60), <2>1, <2>2, <1>3
<1>11. ASSUME NEW u \in Threads, NEW c \in Objs, Release(u, c)
       PROVE  SameDevice(dev'[o], dev[o])
  <2>1. c \in held[u] /\ dev' = Unref(dev, c)
    BY SMTT(60), <1>11 DEF Release
  <2>2. dev[c] # NULL
    BY SMTT(60), <2>1 DEF IInv, MapOK
  <2> QED
    BY SMTT(60), <2>1, <2>2, <1>4
<1>12. dev' = dev => SameDevice(dev'[o], dev[o])
  BY SMTT(60), <1>3
<1>13. \A k \in ProfIds : RemoveProfile(k) => dev' = dev
  BY SMTT(60) DEF RemoveProfile
<1>14. \A u \in Threads : /\ \A n \in ProfNames : GetProfile(u, n) => dev' = dev
                          /\ \A k \in ProfIds : AddProfile(u, k) => dev' = dev
                          /\ NoProfile(u) \/ DupProfile(u) => dev' = dev
  BY SMTT(60) DEF GetProfile, AddProfile, NoProfile, DupProfile
<1>15. UNCHANGED vars => dev' = dev
  BY DEF vars
<1>16. ASSUME NEW u \in Threads,
              \/ \E i \in Ids : DeviceById(u, i)
              \/ \E n \in Names : DeviceByName(u, n)
              \/ \E C \in SUBSET ProfNames : DeviceForCmd(u, C)
       PROVE  SameDevice(dev'[o], dev[o])
  BY ZenonT(60), <1>16, <1>10 DEF DeviceById, DeviceByName, DeviceForCmd
<1> QED
  BY ZenonT(60), <1>6, <1>7, <1>8, <1>9, <1>11, <1>12, <1>13, <1>14, <1>15, <1>16 DEF Next

-----------------------------------------------------------------------------
(* The theorems.                                                           *)

\* The variables of the device map keep their types.
THEOREM TypeCorrect == Spec => []TypeOK
BY InvAlways, InvImplies, PTL

\* Reference counts are exact in every reachable state, for any number of
\* threads, devices and interleaved updates.
THEOREM RefCounting == Spec => []RefsExact
BY InvAlways, InvImplies, PTL

\* No dangling device pointer and no leaked device.
THEOREM NoDangling == Spec => []NoDanglingDevice
BY InvAlways, InvImplies, PTL

\* The name index never leads outside the device map.
THEOREM NameIndex == Spec => []NameIndexSound
BY InvAlways, InvImplies, PTL

\* A device in the map always has a live profile.
THEOREM ProfilesLive == Spec => []MappedProfileLive
BY InvAlways, InvImplies, PTL

\* An update never changes a device under a thread that holds it, but for its
\* two states.
THEOREM HeldStable == Spec => HeldDeviceStable
<1>1. IInv /\ IInv' /\ [Next]_vars =>
        [\A t \in Threads : \A o \in held[t] \cap held'[t] :
           /\ dev'[o].id = dev[o].id /\ dev'[o].name = dev[o].name
           /\ dev'[o].prot = dev[o].prot /\ dev'[o].prof = dev[o].prof
           /\ dev'[o].autos = dev[o].autos]_vars
  BY Zenon, NextHeldSame DEF HeldSame, SameDevice
<1> QED
  BY <1>1, InvAlways, PTL DEF Spec, HeldDeviceStable
=============================================================================
