-------------------------- MODULE DeviceSyncProofs --------------------------
(***************************************************************************)
(* Proofs about the metadata callbacks over the device map, for any number *)
(* of handlers, devices and changes in core-metadata: the handlers use the *)
(* map only as Devmap allows, in a calm world the map converges to what    *)
(* core-metadata has, and the driver is told of it.                        *)
(*                                                                         *)
(* The proofs do not look into the map: they follow Seen(i), what the map  *)
(* shows for the id i, and the first section says what each operation of   *)
(* the map does to it.                                                     *)
(***************************************************************************)
EXTENDS DeviceSync, DevmapProofs, SequenceTheorems

-----------------------------------------------------------------------------
(* What the map shows.                                                     *)

\* What a record says of a device, as far as the map and core-metadata can
\* disagree.
Contents(d) == <<d.name, d.prot, d.admin, d.op, d.autos, d.pname>>

\* What a map shows for the id i: nothing, or the contents of one device.
ShownBy(heap, byid, pr, i) ==
  IF byid[i] = NULL THEN {}
  ELSE LET o == heap[byid[i]] IN
       {<<o.name, o.prot, o.admin, o.op, o.autos, pr[o.prof].name>>}

Seen(i) == ShownBy(dev, devices, prof, i)

\* Only the contents of the device and the name of its profile matter.
LEMMA SameShown ==
  ASSUME NEW heap, NEW byid, NEW pr, NEW heap2, NEW byid2, NEW pr2, NEW i,
         byid2[i] = byid[i],
         byid[i] # NULL =>
           /\ SameContents(heap2[byid[i]], heap[byid[i]])
           /\ pr2[heap[byid[i]].prof].name = pr[heap[byid[i]].prof].name
  PROVE  ShownBy(heap2, byid2, pr2, i) = ShownBy(heap, byid, pr, i)
<1>1. CASE byid[i] = NULL
  BY ZenonT(60), <1>1 DEF ShownBy
<1>2. CASE byid[i] # NULL
  <2> DEFINE o == heap[byid[i]]
             o2 == heap2[byid[i]]
  <2>1. /\ o2.name = o.name /\ o2.prot = o.prot /\ o2.admin = o.admin
        /\ o2.op = o.op /\ o2.autos = o.autos /\ o2.prof = o.prof
        /\ pr2[o2.prof].name = pr[o.prof].name
    BY ZenonT(60), <1>2 DEF SameContents, SameDevice
  <2>2. /\ ShownBy(heap, byid, pr, i) =
             {<<o.name, o.prot, o.admin, o.op, o.autos, pr[o.prof].name>>}
        /\ ShownBy(heap2, byid2, pr2, i) =
             {<<o2.name, o2.prot, o2.admin, o2.op, o2.autos, pr2[o2.prof].name>>}
    BY ZenonT(60), <1>2 DEF ShownBy
  <2> HIDE DEF o, o2
  <2> QED
    BY ZenonT(60), <2>1, <2>2
<1> QED
  BY ZenonT(60), <1>1, <1>2

\* What a map shows for a device that is in it.
LEMMA ShownIs ==
  ASSUME NEW heap, NEW byid, NEW pr, NEW i, NEW d, byid[i] # NULL,
         LET o == byid[i] IN
           /\ heap[o].name = d.name /\ heap[o].prot = d.prot
           /\ heap[o].admin = d.admin /\ heap[o].op = d.op
           /\ heap[o].autos = d.autos /\ pr[heap[o].prof].name = d.pname
  PROVE  ShownBy(heap, byid, pr, i) = {Contents(d)}
BY ZenonT(60) DEF ShownBy, Contents

\* add_locked: the map shows the new device, and the others as before.
LEMMA AddShown ==
  ASSUME NEW heap, NEW byid, NEW byname,
         MapOK(heap, byid, held), ProfOK(heap, byid, prof, profiles),
         NEW d \in Fetched, AddLocked(heap, byid, byname, d), NEW i \in Ids
  PROVE  ShownBy(dev', devices', prof', i) =
           IF i = d.id THEN {Contents(d)} ELSE ShownBy(heap, byid, prof, i)
<1> USE DevmapAssumption
<1>1. PICK o \in Objs, p \in ProfObjs :
        /\ heap[o] = NULL
        /\ AttachProfile(d, p)
        /\ dev' = [heap EXCEPT ![o] = NewDev(d, p)]
        /\ devices' = [byid EXCEPT ![d.id] = o]
  BY Zenon DEF AddLocked
<1>2. CASE i = d.id
  <2>1. devices'[i] = o /\ o # NULL /\ dev'[o] = NewDev(d, p) /\ d.pname \in ProfNames
    BY ZenonT(60), <1>1, <1>2 DEF MapOK, DeviceRec
  <2>2. prof'[p].name = d.pname
    BY SMTT(60), <1>1, <2>1 DEF AttachProfile, ProfOK
  <2>3. /\ dev'[o].name = d.name /\ dev'[o].prot = d.prot
        /\ dev'[o].admin = d.admin /\ dev'[o].op = d.op
        /\ dev'[o].autos = d.autos /\ prof'[dev'[o].prof].name = d.pname
    BY SMTT(60), <2>1, <2>2 DEF NewDev
  <2>5. LET c == devices'[i] IN
          /\ dev'[c].name = d.name /\ dev'[c].prot = d.prot
          /\ dev'[c].admin = d.admin /\ dev'[c].op = d.op
          /\ dev'[c].autos = d.autos /\ prof'[dev'[c].prof].name = d.pname
    BY ZenonT(60), <2>1, <2>3
  <2>4. ShownBy(dev', devices', prof', i) = {Contents(d)}
    BY SMTT(60), <2>1, <2>5, ShownIs
  <2> QED
    BY ZenonT(60), <1>2, <2>4
<1>3. CASE i # d.id
  <2>1. devices'[i] = byid[i]
    BY ZenonT(60), <1>1, <1>3 DEF MapOK
  <2>2. CASE byid[i] = NULL
    <3>1. ShownBy(dev', devices', prof', i) = ShownBy(heap, byid, prof, i)
      BY ZenonT(60), <2>1, <2>2 DEF ShownBy
    <3> QED
      BY ZenonT(60), <1>3, <3>1
  <2>3. CASE byid[i] # NULL
    <3>1. byid[i] # o /\ dev'[byid[i]] = heap[byid[i]] /\ heap[byid[i]] \in DeviceObj
      BY SMTT(60), <1>1, <2>3 DEF MapOK
    <3>2. \A q \in ProfObjs : prof[q] # NULL => prof'[q] = prof[q]
      BY ZenonT(60), <1>1 DEF AttachProfile, ProfOK
    <3>3. heap[byid[i]].prof \in ProfObjs /\ prof[heap[byid[i]].prof] # NULL
      BY ZenonT(60), <3>1, <2>3 DEF DeviceObj, ProfOK
    <3>4. prof'[heap[byid[i]].prof].name = prof[heap[byid[i]].prof].name
      BY ZenonT(60), <3>2, <3>3
    <3>5. SameContents(dev'[byid[i]], heap[byid[i]])
      BY ZenonT(60), <3>1 DEF SameContents, SameDevice
    <3>6. ShownBy(dev', devices', prof', i) = ShownBy(heap, byid, prof, i)
      BY SMTT(60), <2>1, <3>4, <3>5, SameShown
    <3> QED
      BY Zenon, <1>3, <3>6
  <2> QED
    BY ZenonT(60), <2>2, <2>3
<1> QED
  BY ZenonT(60), <1>2, <1>3

\* The cells of mapped devices.
LEMMA MappedCells ==
  ASSUME IInv
  PROVE  /\ dev \in [Objs -> DeviceObj \cup {NULL}]
         /\ devices \in [Ids -> Objs \cup {NULL}]
         /\ \A i \in Ids : devices[i] # NULL =>
              /\ devices[i] \in Objs /\ dev[devices[i]] \in DeviceObj
              /\ dev[devices[i]] # NULL /\ dev[devices[i]].id = i
BY DEF IInv, MapOK

\* edgex_devmap_replace_device: the map shows the new contents, whether the
\* device was created, updated in place or replaced.
LEMMA ReplaceSeen ==
  ASSUME IInv, NEW d \in Fetched, ReplaceDevice(d), NEW i \in Ids
  PROVE  Seen(i)' = IF i = d.id THEN {Contents(d)} ELSE Seen(i)
<1> USE DevmapAssumption
<1>1. /\ MapOK(dev, devices, held) /\ ProfOK(dev, devices, prof, profiles)
      /\ d.id \in Ids
  BY ZenonT(60) DEF IInv, DeviceRec
<1>2. CASE ReplaceCreate(d)
  <2>1. AddLocked(dev, devices, name_to_id, d)
    BY ZenonT(60), <1>2 DEF ReplaceCreate
  <2> QED
    BY ZenonT(60), <2>1, <1>1, AddShown DEF Seen
<1>3. CASE ReplaceInPlace(d)
  <2> DEFINE o == devices[d.id]
             y == [dev[o] EXCEPT !.admin = d.admin, !.op = d.op]
  <2>1. /\ o # NULL /\ InPlace(dev[o], d)
        /\ dev' = [dev EXCEPT ![o].admin = d.admin, ![o].op = d.op]
        /\ devices' = devices /\ prof' = prof
    BY ZenonT(60), <1>3 DEF ReplaceInPlace
  <2>2. o \in Objs /\ dev[o] \in DeviceObj
    BY ZenonT(60), <2>1, <1>1, MappedCells
  <2>3. dev' = [dev EXCEPT ![o] = y]
    BY ZenonT(60), <2>1, <2>2, MappedCells
  <2>4. /\ y.name = dev[o].name /\ y.prot = dev[o].prot /\ y.autos = dev[o].autos
        /\ y.prof = dev[o].prof /\ y.admin = d.admin /\ y.op = d.op
    BY ZenonT(60), <2>2 DEF DeviceObj
  <2> HIDE DEF y
  <2>5. /\ dev'[o] = y
        /\ i # d.id /\ devices[i] # NULL => dev'[devices[i]] = dev[devices[i]]
    <3>1. dev \in [Objs -> DeviceObj \cup {NULL}] /\ dev[o].id = d.id
      BY ZenonT(60), <2>1, <1>1, MappedCells
    <3>2. i # d.id /\ devices[i] # NULL => devices[i] # o /\ devices[i] \in Objs
      BY ZenonT(60), <3>1, MappedCells
    <3> HIDE DEF o
    <3> QED
      BY ZenonT(60), <2>2, <2>3, <3>1, <3>2
  <2>6. CASE i = d.id
    <3>1. LET c == devices'[i] IN
            /\ dev'[c].name = d.name /\ dev'[c].prot = d.prot
            /\ dev'[c].admin = d.admin /\ dev'[c].op = d.op
            /\ dev'[c].autos = d.autos /\ prof'[dev'[c].prof].name = d.pname
      BY ZenonT(60), <2>1, <2>4, <2>5, <2>6 DEF InPlace, SameAddress
    <3>2. devices'[i] # NULL
      BY ZenonT(60), <2>1, <2>6
    <3>3. ShownBy(dev', devices', prof', i) = {Contents(d)}
      BY SMTT(60), <3>1, <3>2, ShownIs
    <3> QED
      BY ZenonT(60), <3>3, <2>6 DEF Seen
  <2>7. CASE i # d.id
    <3>1. devices[i] # NULL => SameContents(dev'[devices[i]], dev[devices[i]])
      BY ZenonT(60), <2>5, <2>7 DEF SameContents, SameDevice
    <3>2. ShownBy(dev', devices, prof, i) = ShownBy(dev, devices, prof, i)
      BY SMTT(60), <3>1, SameShown
    <3> QED
      BY ZenonT(60), <3>2, <2>1, <2>7 DEF Seen
  <2> QED
    BY ZenonT(60), <2>6, <2>7
<1>4. CASE ReplaceSwap(d)
  <2>1. PICK heap, byid, byname :
          /\ MapOK(heap, byid, held)
          /\ ProfOK(heap, byid, prof, profiles)
          /\ byid = [devices EXCEPT ![d.id] = NULL]
          /\ AddLocked(heap, byid, byname, d)
          /\ \A x \in Objs : heap[x] # NULL /\ x # devices[d.id] => heap[x] = dev[x]
    BY SMTT(60), <1>4, SwapRemoves
  <2>2. ShownBy(dev', devices', prof', i) =
          IF i = d.id THEN {Contents(d)} ELSE ShownBy(heap, byid, prof, i)
    BY ZenonT(60), <2>1, AddShown
  <2>3. CASE i = d.id
    BY ZenonT(60), <2>2, <2>3 DEF Seen
  <2>4. CASE i # d.id
    <3>1. byid[i] = devices[i]
      BY ZenonT(60), <2>1, <2>4, <1>1, MappedCells
    <3>2. devices[d.id] # NULL
      BY ZenonT(60), <1>4 DEF ReplaceSwap
    <3>3. devices[i] # NULL => heap[devices[i]] = dev[devices[i]]
      BY SMTT(60), <2>1, <2>4, <3>1, <3>2, <1>1, MappedCells DEF MapOK
    <3>4. devices[i] # NULL => SameContents(heap[devices[i]], dev[devices[i]])
      BY ZenonT(60), <3>3 DEF SameContents, SameDevice
    <3>5. ShownBy(heap, byid, prof, i) = ShownBy(dev, devices, prof, i)
      BY SMTT(60), <3>1, <3>4, SameShown
    <3> QED
      BY ZenonT(60), <3>5, <2>2, <2>4 DEF Seen
  <2> QED
    BY ZenonT(60), <2>3, <2>4
<1> QED
  BY ZenonT(60), <1>2, <1>3, <1>4 DEF ReplaceDevice

\* Removal: the map shows nothing for the id any more.
LEMMA RemoveSeen ==
  ASSUME IInv, IInv', NEW k \in Ids, RemoveDeviceById(k), NEW i \in Ids
  PROVE  Seen(i)' = IF i = k THEN {} ELSE Seen(i)
<1>1. /\ devices[k] # NULL /\ devices[k] \in Objs /\ dev[devices[k]] # NULL
      /\ dev[devices[k]].id = k
      /\ dev \in [Objs -> DeviceObj \cup {NULL}]
      /\ devices \in [Ids -> Objs \cup {NULL}]
  BY ZenonT(60), MappedCells DEF RemoveDeviceById
<1>2. /\ devices' = [devices EXCEPT ![k] = NULL]
      /\ dev' = Unref(dev, devices[k]) /\ prof' = prof
  BY ZenonT(60), <1>1 DEF RemoveDeviceById, RemoveLocked
<1>3. CASE i = k
  <2>1. devices'[i] = NULL
    BY ZenonT(60), <1>1, <1>2, <1>3
  <2> QED
    BY ZenonT(60), <2>1, <1>3 DEF Seen, ShownBy
<1>4. CASE i # k
  <2>1. devices'[i] = devices[i]
    BY ZenonT(60), <1>1, <1>2, <1>4
  <2>2. devices[i] # NULL => devices[i] \in Objs /\ dev'[devices[i]] # NULL
    BY SMTT(60), <2>1, <1>1 DEF IInv, MapOK
  <2>3. devices[i] # NULL => SameContents(dev'[devices[i]], dev[devices[i]])
    BY ZenonT(60), <2>2, <1>1, <1>2, UnrefKeeps
  <2>4. ShownBy(dev', devices', prof, i) = ShownBy(dev, devices, prof, i)
    BY SMTT(60), <2>1, <2>3, SameShown
  <2> QED
    BY ZenonT(60), <2>4, <1>2, <1>4 DEF Seen
<1> QED
  BY ZenonT(60), <1>3, <1>4

\* References and profiles make no difference to what the map shows.
LEMMA QuietSeen ==
  ASSUME IInv, IInv', NEW t \in Threads,
         \/ \E i \in Ids : DeviceById(t, i)
         \/ \E o \in Objs : Release(t, o)
         \/ \E k \in ProfIds : RemoveProfile(k)
         \/ UNCHANGED vars,
         NEW i \in Ids
  PROVE  Seen(i)' = Seen(i)
<1>1. /\ dev \in [Objs -> DeviceObj \cup {NULL}]
      /\ devices[i] # NULL => devices[i] \in Objs /\ dev[devices[i]] \in DeviceObj
  BY ZenonT(60), MappedCells
<1>2. CASE \E j \in Ids : DeviceById(t, j)
  <2> DEFINE y == [dev[devices[i]] EXCEPT !.refs = @ + 1]
  <2>1. /\ devices' = devices /\ prof' = prof
        /\ devices[i] # NULL => dev'[devices[i]] = y \/ dev'[devices[i]] = dev[devices[i]]
    BY ZenonT(60), <1>2, <1>1 DEF DeviceById, Take
  <2>2. devices[i] # NULL => SameContents(y, dev[devices[i]])
    BY ZenonT(60), <1>1 DEF SameContents, SameDevice, DeviceObj
  <2> HIDE DEF y
  <2>3. devices[i] # NULL => SameContents(dev'[devices[i]], dev[devices[i]])
    BY ZenonT(60), <2>1, <2>2 DEF SameContents, SameDevice
  <2>4. ShownBy(dev', devices, prof, i) = ShownBy(dev, devices, prof, i)
    BY SMTT(60), <2>3, SameShown
  <2> QED
    BY ZenonT(60), <2>1, <2>4 DEF Seen
<1>3. CASE \E o \in Objs : Release(t, o)
  <2>1. PICK o \in Objs : Release(t, o)
    BY ZenonT(60), <1>3
  <2>2. /\ devices' = devices /\ prof' = prof /\ dev' = Unref(dev, o) /\ o \in held[t]
    BY ZenonT(60), <2>1 DEF Release
  <2>3. dev[o] # NULL /\ (devices[i] # NULL => dev'[devices[i]] # NULL)
    BY ZenonT(60), <2>2 DEF IInv, MapOK
  <2>4. devices[i] # NULL => SameContents(dev'[devices[i]], dev[devices[i]])
    BY ZenonT(60), <2>2, <2>3, <1>1, UnrefKeeps
  <2>5. ShownBy(dev', devices, prof, i) = ShownBy(dev, devices, prof, i)
    BY SMTT(60), <2>4, SameShown
  <2> QED
    BY ZenonT(60), <2>2, <2>5 DEF Seen
<1>4. CASE \E k \in ProfIds : RemoveProfile(k)
  <2>1. PICK k \in ProfIds, n \in ProfNames :
          /\ devices' = devices /\ dev' = dev
          /\ \A j \in Ids : devices[j] # NULL => prof[dev[devices[j]].prof].pid # k
          /\ profiles[n] # NULL
          /\ prof[profiles[n]].pid = k
          /\ prof' = [prof EXCEPT ![profiles[n]] = NULL]
    BY ZenonT(60), <1>4 DEF RemoveProfile
  <2>2. devices[i] # NULL => prof'[dev[devices[i]].prof] = prof[dev[devices[i]].prof]
    <3> SUFFICES ASSUME devices[i] # NULL
                 PROVE  prof'[dev[devices[i]].prof] = prof[dev[devices[i]].prof]
      BY ZenonT(60)
    <3>1. PICK q : q = dev[devices[i]].prof
      BY ZenonT(60)
    <3>2. q \in ProfObjs /\ q # profiles[n]
      BY ZenonT(60), <2>1, <3>1, <1>1 DEF DeviceObj
    <3>3. prof'[q] = prof[q]
      BY ZenonT(60), <2>1, <3>2 DEF IInv, ProfOK
    <3> QED
      BY ZenonT(60), <3>1, <3>3
  <2>3. SameContents(dev[devices[i]], dev[devices[i]])
    BY ZenonT(60) DEF SameContents, SameDevice
  <2>4. ShownBy(dev, devices, prof', i) = ShownBy(dev, devices, prof, i)
    BY SMTT(60), <2>2, <2>3, SameShown
  <2> QED
    BY ZenonT(60), <2>1, <2>4 DEF Seen
<1>5. CASE UNCHANGED vars
  BY ZenonT(60), <1>5 DEF vars, Seen
<1> QED
  BY ZenonT(60), <1>2, <1>3, <1>4, <1>5

\* The listing at startup: the first device of what is left is entered.
LEMMA PopulateSeen ==
  ASSUME IInv, PopulateDevices, name_to_id[todo[1].name] = NULL, NEW i \in Ids
  PROVE  /\ todo[1] \in Fetched
         /\ Seen(i)' = IF i = todo[1].id THEN {Contents(todo[1])} ELSE Seen(i)
<1>1. /\ MapOK(dev, devices, held) /\ ProfOK(dev, devices, prof, profiles)
      /\ todo \in Seq(Fetched)
  BY ZenonT(60) DEF IInv, TodoOK
<1>2. Head(todo) \in Fetched /\ Head(todo) = todo[1]
  BY SMTT(60), <1>1 DEF PopulateDevices
<1>3. PICK d \in Fetched : d = todo[1]
  BY ZenonT(60), <1>2
<1>4. AddLocked(dev, devices, name_to_id, d)
  BY ZenonT(60), <1>2, <1>3 DEF PopulateDevices
<1>5. Seen(i)' = IF i = d.id THEN {Contents(d)} ELSE Seen(i)
  BY ZenonT(60), <1>1, <1>4, AddShown DEF Seen
<1> QED
  BY ZenonT(60), <1>3, <1>5

-----------------------------------------------------------------------------
(* Types of the composed system.                                           *)

\* What a handler can be doing.
CbOK(c) ==
  \/ c = Idle
  \/ \E p \in {"POST", "PUT", "DELETE", "remove", "tellgone"}, i \in Ids :
       c = [pc |-> p, id |-> i]
  \/ \E p \in {"mine", "other", "tell", "tellmoved"}, d \in Fetched :
       c = [pc |-> p, id |-> d.id, rec |-> d]

\* What core-metadata can have for the id i.
MetaOK(i, m) ==
  \/ m \in {Unused, Deleted}
  \/ \E d \in Fetched, s \in {"mine", "other"} :
       d.id = i /\ m = [rec |-> d, svc |-> s]

Call == [method : {"POST", "PUT", "DELETE"}, id : Ids]

\* Types, and the order of startup.
STyped ==
  /\ DOMAIN meta = Ids /\ \A i \in Ids : MetaOK(i, meta[i])
  /\ calls \in Seq(Call)
  /\ DOMAIN cb = Handlers /\ \A h \in Handlers : CbOK(cb[h])
  /\ serving => todo = <<>>
  /\ ~clearing

\* A handler that is idle, and an id that was deleted, in one field.
LEMMA IdleIs == \A c : c = Idle => c.pc = "idle"
BY DEF Idle

LEMMA DeletedIs ==
  /\ \A m : m = Deleted => m.svc = "deleted" /\ m.svc # "unused"
  /\ \A d, s : s \in {"mine", "other"} =>
       [rec |-> d, svc |-> s] # Deleted /\ [rec |-> d, svc |-> s].svc = s
  /\ \A i : meta[i] = Unused \/ Present(i) => meta[i] # Deleted
BY SMT DEF Deleted, Unused, Present

\* The fields of what a handler is doing, and how it goes on.
LEMMA CbParts ==
  ASSUME NEW c, CbOK(c)
  PROVE  /\ c.pc \in {"POST", "PUT", "DELETE", "remove", "tellgone"} =>
              c.id \in Ids /\ \A p : [c EXCEPT !.pc = p] = [pc |-> p, id |-> c.id]
         /\ c.pc \in {"mine", "other", "tell", "tellmoved"} =>
              /\ c.rec \in Fetched /\ c.id = c.rec.id /\ c.id \in Ids
              /\ \A p : [c EXCEPT !.pc = p] = [pc |-> p, id |-> c.id, rec |-> c.rec]
         /\ c.pc \in {"idle", "POST", "PUT", "DELETE", "remove", "tellgone",
                      "mine", "other", "tell", "tellmoved"}
         /\ c.pc = "idle" <=> c = Idle
<1>1. CASE c = Idle
  BY ZenonT(60), <1>1 DEF Idle
<1>2. ASSUME NEW p \in {"POST", "PUT", "DELETE", "remove", "tellgone"},
             NEW i \in Ids, c = [pc |-> p, id |-> i]
      PROVE  /\ c.pc = p /\ c.id = i /\ c # Idle
             /\ \A q : [c EXCEPT !.pc = q] = [pc |-> q, id |-> c.id]
  BY SMTT(60), <1>2 DEF Idle
<1>3. ASSUME NEW p \in {"mine", "other", "tell", "tellmoved"}, NEW d \in Fetched,
             c = [pc |-> p, id |-> d.id, rec |-> d]
      PROVE  /\ c.pc = p /\ c.id = d.id /\ c.rec = d /\ d.id \in Ids /\ c # Idle
             /\ \A q : [c EXCEPT !.pc = q] = [pc |-> q, id |-> c.id, rec |-> c.rec]
  BY SMTT(60), <1>3, DevmapAssumption DEF Idle, DeviceRec
<1> QED
  BY ZenonT(60), <1>1, <1>2, <1>3 DEF CbOK

\* A callback that goes on keeps the id it is about.
LEMMA CbNext ==
  ASSUME NEW c, NEW p, CbOK(c), c.pc # "idle"
  PROVE  [c EXCEPT !.pc = p].pc = p /\ [c EXCEPT !.pc = p].id = c.id
BY SMTT(60), CbParts

\* Both invariants hold initially.
LEMMA SyncInitOK == SyncInit => IInv /\ STyped
<1> SUFFICES ASSUME SyncInit PROVE IInv /\ STyped
  BY ZenonT(60)
<1>1. IInv
  BY ZenonT(60), InitInv DEF SyncInit
<1> DEFINE L == {todo[j] : j \in DOMAIN todo}
<1>2. L \subseteq Fetched
  BY SMTT(60), <1>1 DEF IInv, TodoOK
<1>3. meta = [i \in Ids |->
        IF \E d \in L : d.id = i
          THEN [rec |-> CHOOSE d \in L : d.id = i, svc |-> "mine"] ELSE Unused]
  BY ZenonT(60) DEF SyncInit
<1> HIDE DEF L
<1>4. ASSUME NEW i \in Ids PROVE MetaOK(i, meta[i])
  <2>1. CASE \E d \in L : d.id = i
    <3>1. PICK d : d = CHOOSE x \in L : x.id = i
      BY ZenonT(60)
    <3>2. d \in L /\ d.id = i
      BY Zenon, <2>1, <3>1
    <3>3. meta[i] = [rec |-> d, svc |-> "mine"]
      BY ZenonT(60), <1>3, <2>1, <3>1
    <3> QED
      BY ZenonT(60), <3>2, <3>3, <1>2 DEF MetaOK
  <2>2. CASE ~\E d \in L : d.id = i
    BY ZenonT(60), <1>3, <2>2 DEF MetaOK
  <2> QED
    BY ZenonT(60), <2>1, <2>2
<1>5. calls \in Seq(Call) /\ DOMAIN cb = Handlers /\ \A h \in Handlers : CbOK(cb[h])
  BY SMTT(60) DEF SyncInit, CbOK
<1> QED
  BY ZenonT(60), <1>1, <1>3, <1>4, <1>5 DEF STyped, SyncInit, Init

\* The elements of a sequence t that is s without its j-th element.
Without(t, s, j, n) ==
  /\ \A k \in 1..(j - 1) : t[k] = s[k]
  /\ \A k \in j..(n - 1) : t[k] = s[k + 1]

\* Such a sequence has the same elements but one.
SameButOne(t, s, j, n) ==
  /\ \A k \in 1..(n - 1) : \E m \in 1..n : t[k] = s[m]
  /\ \A m \in 1..n : m = j \/ \E k \in 1..(n - 1) : t[k] = s[m]

LEMMA WithoutSame ==
  ASSUME NEW n \in Nat, NEW j \in 1..n, NEW s, NEW t, Without(t, s, j, n)
  PROVE  SameButOne(t, s, j, n)
<1>1. ASSUME NEW k \in 1..(n - 1) PROVE \E m \in 1..n : t[k] = s[m]
  <2>1. k \in 1..n /\ k + 1 \in 1..n /\ (k \in 1..(j - 1) \/ k \in j..(n - 1))
    BY SMTT(60)
  <2> QED
    BY Zenon, <2>1 DEF Without
<1>2. ASSUME NEW m \in 1..n, m # j PROVE \E k \in 1..(n - 1) : t[k] = s[m]
  <2>1. CASE m < j
    <3>1. m \in 1..(n - 1) /\ m \in 1..(j - 1)
      BY SMTT(60), <2>1
    <3> QED
      BY ZenonT(60), <3>1 DEF Without
  <2>2. CASE m > j
    <3>1. PICK k \in Int : k = m - 1
      BY SMTT(60)
    <3>2. k \in 1..(n - 1) /\ k \in j..(n - 1) /\ k + 1 = m
      BY SMTT(60), <3>1, <2>2
    <3> QED
      BY ZenonT(60), <3>2 DEF Without
  <2> QED
    BY SMTT(60), <1>2, <2>1, <2>2
<1> QED
  BY ZenonT(60), <1>1, <1>2 DEF SameButOne

\* What is appended comes last.
Appended(t, s, x, n) ==
  /\ DOMAIN s = 1..n /\ DOMAIN t = 1..(n + 1) /\ t[n + 1] = x
  /\ \A j \in 1..n : t[j] = s[j]

LEMMA AppendIs ==
  ASSUME NEW S, NEW s \in Seq(S), NEW x
  PROVE  Len(s) \in Nat /\ Appended(Append(s, x), s, x, Len(s))
BY SMT DEF Appended

\* Begin makes it of the part before and the part after.
LEMMA WithoutCat ==
  ASSUME NEW S, NEW s, NEW n \in Nat, NEW j \in 1..n,
         NEW a \in Seq(S), Len(a) = j - 1, \A k \in 1..(j - 1) : a[k] = s[k],
         NEW b \in Seq(S), Len(b) = n - j, \A k \in 1..(n - j) : b[k] = s[j + k]
  PROVE  a \o b \in Seq(S) /\ Len(a \o b) = n - 1 /\ Without(a \o b, s, j, n)
<1>1. PICK t : t = a \o b
  BY ZenonT(60)
<1>2. /\ t \in Seq(S) /\ Len(t) = Len(a) + Len(b)
      /\ \A i \in 1 .. Len(a) + Len(b) :
           t[i] = IF i <= Len(a) THEN a[i] ELSE b[i - Len(a)]
  BY ZenonT(60), <1>1, ConcatProperties
<1>3. ASSUME NEW k \in j..(n - 1) PROVE t[k] = s[k + 1]
  <2>1. PICK x \in Int : x = k - (j - 1)
    BY SMTT(60)
  <2>2. x \in 1..(n - j) /\ j + x = k + 1 /\ k \in 1..(Len(a) + Len(b)) /\ ~(k <= Len(a))
    BY SMTT(60), <2>1
  <2>3. t[k] = b[x]
    BY ZenonT(60), <1>2, <2>1, <2>2
  <2> QED
    BY ZenonT(60), <2>2, <2>3
<1>4. ASSUME NEW k \in 1..(j - 1) PROVE t[k] = s[k]
  BY SMTT(60), <1>2
<1> QED
  BY SMTT(60), <1>1, <1>2, <1>3, <1>4 DEF Without

\* What is left of the queue when Begin takes the j-th callback.
LEMMA WithoutOne ==
  ASSUME NEW S, NEW s \in Seq(S), NEW j \in 1..Len(s)
  PROVE  LET t == SubSeq(s, 1, j - 1) \o SubSeq(s, j + 1, Len(s)) IN
         /\ t \in Seq(S) /\ Len(t) = Len(s) - 1
         /\ Without(t, s, j, Len(s))
<1>1. PICK n \in Nat : n = Len(s)
  BY SMTT(60)
<1>2. j \in 1..n /\ j \in Int /\ \A k \in 1..n : s[k] \in S
  BY SMTT(60), <1>1
<1>3. PICK a : a = SubSeq(s, 1, j - 1)
  BY ZenonT(60)
<1>4. PICK b : b = SubSeq(s, j + 1, n)
  BY ZenonT(60)
<1>5. /\ a \in Seq(S) /\ Len(a) = j - 1
      /\ \A k \in 1..(j - 1) : a[k] = s[k]
  <2>1. /\ 1 \in Int /\ j - 1 \in Int /\ \A i \in 1..(j - 1) : s[i] \in S
    BY SMTT(60), <1>1, <1>2
  <2>2. /\ a \in Seq(S) /\ Len(a) = IF 1 <= j - 1 THEN j - 1 - 1 + 1 ELSE 0
        /\ \A i \in 1 .. (j - 1 - 1 + 1) : a[i] = s[1 + i - 1]
    BY SMTT(60), <2>1, <1>3, SubSeqProperties
  <2> QED
    BY <2>2, <1>1, <1>2
<1>6. /\ b \in Seq(S) /\ Len(b) = n - j
      /\ \A k \in 1..(n - j) : b[k] = s[j + k]
  <2>1. /\ j + 1 \in Int /\ n \in Int /\ \A i \in (j + 1)..n : s[i] \in S
    BY SMTT(60), <1>1, <1>2
  <2>2. /\ b \in Seq(S) /\ Len(b) = IF j + 1 <= n THEN n - (j + 1) + 1 ELSE 0
        /\ \A i \in 1 .. (n - (j + 1) + 1) : b[i] = s[(j + 1) + i - 1]
    BY SMTT(60), <2>1, <1>4, SubSeqProperties
  <2> QED
    BY SMTT(60), <2>2, <1>1, <1>2
<1>7. a \o b \in Seq(S) /\ Len(a \o b) = n - 1 /\ Without(a \o b, s, j, n)
  <2>1. n \in Nat
    BY ZenonT(60), <1>1
  <2> QED
    BY ZenonT(60), <2>1, <1>2, <1>5, <1>6, WithoutCat
<1> QED
  BY ZenonT(60), <1>1, <1>3, <1>4, <1>7

\* The steps of a handler after it began leave it doing something it can be
\* doing, and leave core-metadata and the queue alone.
HandlerStep(h) ==
  \/ Fetch(h) \/ Replace(h) \/ Moved(h) \/ Tell(h)
  \/ Delete(h) \/ DeleteSilently(h) \/ Remove(h) \/ Gone(h)

\* What the steps of a handler leave alone.
LEMMA MapFrame ==
  ASSUME NEW h \in Handlers, HandlerStep(h)
  PROVE  /\ UNCHANGED <<meta, calls, serving, registered, changes, world>>
         /\ todo' = todo /\ clearing' = clearing
<1>1. ASSUME NEW i, RemoveDeviceById(i) PROVE todo' = todo /\ clearing' = clearing
  BY ZenonT(60), <1>1 DEF RemoveDeviceById
<1>2. ASSUME NEW d, ReplaceDevice(d) PROVE todo' = todo /\ clearing' = clearing
  BY ZenonT(60), <1>2 DEF ReplaceDevice, ReplaceCreate, ReplaceInPlace, ReplaceSwap
<1>3. CASE Fetch(h) \/ Tell(h)
  BY ZenonT(60), <1>3 DEF Fetch, Tell, vars
<1>4. CASE Replace(h)
  BY ZenonT(60), <1>2, <1>4 DEF Replace
<1>5. CASE Moved(h)
  BY ZenonT(60), <1>1, <1>5 DEF Moved, vars
<1>6. CASE Delete(h)
  BY ZenonT(60), <1>6 DEF Delete, vars, DeviceById, Take
<1>7. CASE DeleteSilently(h) \/ Remove(h)
  BY ZenonT(60), <1>1, <1>7 DEF DeleteSilently, Remove, vars
<1>8. CASE Gone(h)
  BY ZenonT(60), <1>8 DEF Gone, Release
<1> QED
  BY ZenonT(60), <1>3, <1>4, <1>5, <1>6, <1>7, <1>8 DEF HandlerStep

\* What core-metadata has of a device that is present.
LEMMA PresentIs ==
  ASSUME NEW i \in Ids, MetaOK(i, meta[i]), Present(i)
  PROVE  \E d \in Fetched, s \in {"mine", "other"} :
           d.id = i /\ meta[i] = [rec |-> d, svc |-> s]
<1>1. meta[i] # Unused /\ meta[i] # Deleted
  BY SMTT(60) DEF Present, Unused, Deleted
<1> QED
  BY ZenonT(60), <1>1 DEF MetaOK

\* Where the steps of a handler lead.
LEMMA HandlerGoes ==
  ASSUME STyped, NEW h \in Handlers, HandlerStep(h)
  PROVE  \E c : CbOK(c) /\ cb' = [cb EXCEPT ![h] = c]
<1>1. CbOK(cb[h])
  BY ZenonT(60) DEF STyped
<1>2. ASSUME NEW c, Goto(h, c), CbOK(c)
      PROVE  \E x : CbOK(x) /\ cb' = [cb EXCEPT ![h] = x]
  BY ZenonT(60), <1>2 DEF Goto
<1>3. CbOK(Idle)
  BY ZenonT(60) DEF CbOK
<1>4. ASSUME NEW p \in {"tell", "tellmoved"}, cb[h].pc \in {"mine", "other"}
      PROVE  CbOK([cb[h] EXCEPT !.pc = p])
  <2>1. /\ [cb[h] EXCEPT !.pc = p] = [pc |-> p, id |-> cb[h].rec.id, rec |-> cb[h].rec]
        /\ cb[h].rec \in Fetched
    BY SMTT(60), <1>1, <1>4, CbParts
  <2> QED
    BY ZenonT(60), <2>1 DEF CbOK
<1>5. ASSUME NEW p \in {"remove", "tellgone"}, cb[h].pc \in {"DELETE", "remove"}
      PROVE  CbOK([cb[h] EXCEPT !.pc = p])
  <2>1. [cb[h] EXCEPT !.pc = p] = [pc |-> p, id |-> cb[h].id] /\ cb[h].id \in Ids
    BY ZenonT(60), <1>1, <1>5, CbParts
  <2> QED
    BY ZenonT(60), <2>1 DEF CbOK
<1>6. CASE Fetch(h)
  <2>1. CASE Goto(h, Idle)
    BY ZenonT(60), <2>1, <1>2, <1>3
  <2>2. CASE Present(cb[h].id) /\ Goto(h, [pc |-> meta[cb[h].id].svc, id |-> cb[h].id,
                                           rec |-> meta[cb[h].id].rec])
    <3>1. cb[h].id \in Ids /\ MetaOK(cb[h].id, meta[cb[h].id])
      BY ZenonT(60), <1>1, <1>6, CbParts DEF Fetch, STyped
    <3>2. PICK d \in Fetched, s \in {"mine", "other"} :
            d.id = cb[h].id /\ meta[cb[h].id] = [rec |-> d, svc |-> s]
      BY ZenonT(60), <2>2, <3>1, PresentIs
    <3>3. meta[cb[h].id].svc = s /\ meta[cb[h].id].rec = d
      BY <3>2
    <3>4. Goto(h, [pc |-> s, id |-> d.id, rec |-> d])
      BY Zenon, <2>2, <3>2, <3>3
    <3>5. CbOK([pc |-> s, id |-> d.id, rec |-> d])
      BY Zenon DEF CbOK
    <3> QED
      BY ZenonT(60), <3>4, <3>5, <1>2
  <2> QED
    BY ZenonT(60), <1>6, <2>1, <2>2 DEF Fetch
<1>7. CASE Replace(h)
  <2>1. cb[h].pc = "mine" /\ (Goto(h, [cb[h] EXCEPT !.pc = "tell"]) \/ Goto(h, Idle))
    BY ZenonT(60), <1>7 DEF Replace
  <2> QED
    BY ZenonT(60), <2>1, <1>2, <1>3, <1>4
<1>8. CASE Moved(h)
  <2>1. cb[h].pc = "other" /\ (Goto(h, [cb[h] EXCEPT !.pc = "tellmoved"]) \/ Goto(h, Idle))
    BY ZenonT(60), <1>8 DEF Moved
  <2> QED
    BY ZenonT(60), <2>1, <1>2, <1>3, <1>4
<1>9. CASE Delete(h) \/ Remove(h)
  <2>1. /\ cb[h].pc \in {"DELETE", "remove"}
        /\ \/ \E p \in {"remove", "tellgone"} : Goto(h, [cb[h] EXCEPT !.pc = p])
           \/ Goto(h, Idle)
    BY ZenonT(60), <1>9 DEF Delete, Remove
  <2> QED
    BY ZenonT(60), <2>1, <1>2, <1>3, <1>5
<1>10. CASE Tell(h) \/ DeleteSilently(h) \/ Gone(h)
  <2>1. Goto(h, Idle)
    BY ZenonT(60), <1>10 DEF Tell, DeleteSilently, Gone
  <2> QED
    BY ZenonT(60), <2>1, <1>2, <1>3
<1> QED
  BY ZenonT(60), <1>6, <1>7, <1>8, <1>9, <1>10 DEF HandlerStep

\* Begin takes one callback and leaves the others.
LEMMA BeginIs ==
  ASSUME STyped, NEW h \in Handlers, NEW j \in DOMAIN calls, Begin(h, j)
  PROVE  /\ calls' \in Seq(Call) /\ calls[j] \in Call
         /\ \A k \in DOMAIN calls' : \E m \in DOMAIN calls : calls'[k] = calls[m]
         /\ \A m \in DOMAIN calls : m = j \/ \E k \in DOMAIN calls' : calls'[k] = calls[m]
         /\ cb' = [cb EXCEPT ![h] = [pc |-> calls[j].method, id |-> calls[j].id]]
         /\ CbOK([pc |-> calls[j].method, id |-> calls[j].id])
         /\ UNCHANGED <<vars, meta, serving, registered, driver, world>>
<1>1. calls \in Seq(Call)
  BY ZenonT(60) DEF STyped
<1>2. calls[j] \in Call /\ j \in 1..Len(calls) /\ DOMAIN calls = 1..Len(calls)
  BY SMTT(60), <1>1
<1>3. calls' = SubSeq(calls, 1, j - 1) \o SubSeq(calls, j + 1, Len(calls))
  BY ZenonT(60) DEF Begin
<1>4. /\ calls' \in Seq(Call) /\ Len(calls') = Len(calls) - 1
      /\ Without(calls', calls, j, Len(calls))
  BY ZenonT(60), <1>1, <1>2, <1>3, WithoutOne
<1>6. /\ \A k \in DOMAIN calls' : \E m \in DOMAIN calls : calls'[k] = calls[m]
      /\ \A m \in DOMAIN calls : m = j \/ \E k \in DOMAIN calls' : calls'[k] = calls[m]
  <2>1. Len(calls) \in Nat /\ DOMAIN calls' = 1..(Len(calls) - 1)
    BY SMTT(60), <1>1, <1>4
  <2>2. /\ \A k \in 1..(Len(calls) - 1) : \E m \in 1..Len(calls) : calls'[k] = calls[m]
        /\ \A m \in 1..Len(calls) :
             m = j \/ \E k \in 1..(Len(calls) - 1) : calls'[k] = calls[m]
    <3>1. Len(calls) \in Nat
      BY ZenonT(60), <2>1
    <3>2. j \in 1..Len(calls)
      BY ZenonT(60), <1>2
    <3>3. Without(calls', calls, j, Len(calls))
      BY ZenonT(60), <1>4
    <3>4. SameButOne(calls', calls, j, Len(calls))
      BY ZenonT(60), <3>1, <3>2, <3>3, WithoutSame
    <3> QED
      BY ZenonT(60), <3>4 DEF SameButOne
  <2> QED
    BY ZenonT(60), <2>1, <2>2, <1>2
<1>5. CbOK([pc |-> calls[j].method, id |-> calls[j].id])
  <2>1. calls[j].method \in {"POST", "PUT", "DELETE"} /\ calls[j].id \in Ids
    BY ZenonT(60), <1>2 DEF Call
  <2> QED
    BY ZenonT(60), <2>1 DEF CbOK
<1> QED
  BY ZenonT(60), <1>2, <1>4, <1>5, <1>6 DEF Begin, Goto

\* The types are kept.
LEMMA STypedNext == STyped /\ [SyncNext]_allvars => STyped'
<1> SUFFICES ASSUME STyped, [SyncNext]_allvars PROVE STyped'
  BY ZenonT(60)
<1>1. CASE UNCHANGED allvars
  BY ZenonT(60), <1>1 DEF allvars, syncvars, vars, STyped, Present
<1>2. ASSUME NEW i \in Ids, NEW m, NEW method \in {"POST", "PUT", "DELETE"},
             MetaOK(i, m), MetaChange(i, m, method)
      PROVE  STyped'
  <2>1. /\ meta' = [meta EXCEPT ![i] = m] /\ cb' = cb /\ todo' = todo
        /\ clearing' = clearing /\ serving' = serving
        /\ calls' = IF serving THEN Append(calls, [method |-> method, id |-> i]) ELSE calls
    BY ZenonT(60), <1>2 DEF MetaChange, vars
  <2>2. calls' \in Seq(Call)
    <3>1. [method |-> method, id |-> i] \in Call
      BY ZenonT(60) DEF Call
    <3> QED
      BY SMTT(60), <2>1, <3>1 DEF STyped
  <2>3. DOMAIN meta' = Ids /\ \A k \in Ids : MetaOK(k, meta'[k])
    BY ZenonT(60), <1>2, <2>1 DEF STyped
  <2> QED
    BY ZenonT(60), <2>1, <2>2, <2>3 DEF STyped
<1>3. ASSUME NEW d \in Fetched, MetaAdd(d) PROVE STyped'
  <2>1. d.id \in Ids /\ MetaOK(d.id, [rec |-> d, svc |-> "mine"])
    BY ZenonT(60), DevmapAssumption DEF MetaOK, DeviceRec
  <2> QED
    BY ZenonT(60), <1>2, <1>3, <2>1 DEF MetaAdd
<1>4. ASSUME NEW d \in Fetched, NEW s \in {"mine", "other"}, MetaUpdate(d, s)
      PROVE  STyped'
  <2>1. d.id \in Ids /\ MetaOK(d.id, [rec |-> d, svc |-> s])
    BY ZenonT(60), DevmapAssumption DEF MetaOK, DeviceRec
  <2> QED
    BY ZenonT(60), <1>2, <1>4, <2>1 DEF MetaUpdate
<1>5. ASSUME NEW i \in Ids, MetaDelete(i) PROVE STyped'
  <2>1. MetaOK(i, Deleted)
    BY ZenonT(60) DEF MetaOK
  <2> QED
    BY ZenonT(60), <1>2, <1>5, <2>1 DEF MetaDelete
<1>6. CASE Populate
  BY ZenonT(60), <1>6 DEF Populate, PopulateDevices, syncvars, STyped
<1>7. CASE Serve
  BY ZenonT(60), <1>7 DEF Serve, vars, STyped
<1>8. ASSUME NEW h \in Handlers, NEW k \in ProfIds, ForgetProfile(h, k) PROVE STyped'
  BY ZenonT(60), <1>8 DEF ForgetProfile, RemoveProfile, syncvars, STyped
<1>9. ASSUME NEW h \in Handlers, HandlerStep(h) PROVE STyped'
  <2>1. PICK c : CbOK(c) /\ cb' = [cb EXCEPT ![h] = c]
    BY ZenonT(60), <1>9, HandlerGoes
  <2>2. DOMAIN cb' = Handlers /\ \A g \in Handlers : CbOK(cb'[g])
    BY ZenonT(60), <2>1 DEF STyped
  <2>3. UNCHANGED <<meta, calls, serving, todo, clearing>>
    BY ZenonT(60), <1>9, MapFrame
  <2> QED
    BY ZenonT(60), <2>2, <2>3 DEF STyped
<1>10. ASSUME NEW h \in Handlers, NEW j \in DOMAIN calls, Begin(h, j) PROVE STyped'
  <2>1. PICK c : CbOK(c) /\ cb' = [cb EXCEPT ![h] = c]
    BY ZenonT(60), <1>10, BeginIs
  <2>2. DOMAIN cb' = Handlers /\ \A g \in Handlers : CbOK(cb'[g])
    BY ZenonT(60), <2>1 DEF STyped
  <2>3. UNCHANGED <<meta, serving, todo, clearing>> /\ calls' \in Seq(Call)
    BY ZenonT(60), <1>10, BeginIs DEF vars
  <2> QED
    BY ZenonT(60), <2>2, <2>3 DEF STyped
<1> QED
  BY Zenon, <1>1, <1>3, <1>4, <1>5, <1>6, <1>7, <1>8, <1>9, <1>10
     DEF SyncNext, Handle, HandlerStep

-----------------------------------------------------------------------------
(* The composed system implements Devmap.                                  *)

\* Every step is a step of Devmap or leaves the map alone.
LEMMA StepRefines ==
  ASSUME IInv, STyped, [SyncNext]_allvars
  PROVE  [Next]_vars
<1>1. CASE UNCHANGED allvars
  BY ZenonT(60), <1>1 DEF allvars
<1>2. CASE SyncNext
  <2>1. ASSUME NEW h \in Handlers, NEW k \in ProfIds, ForgetProfile(h, k)
        PROVE  Next
    BY ZenonT(60), <2>1 DEF ForgetProfile, Next
  <2>2. CASE Populate
    BY ZenonT(60), <2>2 DEF Populate, Next
  <2>3. ASSUME NEW h \in Handlers, Handle(h)
        PROVE  Next \/ UNCHANGED vars
    <3>1. /\ h \in Threads /\ CbOK(cb[h])
          /\ cb[h].pc \in {"DELETE", "remove", "other"} => cb[h].id \in Ids
          /\ cb[h].pc = "mine" => cb[h].rec \in Fetched
      BY ZenonT(60), <2>3, SyncAssumption, CbParts DEF STyped
    <3>2. CASE Replace(h)
      BY ZenonT(60), <3>1, <3>2 DEF Replace, Next
    <3>3. CASE Moved(h) \/ Remove(h) \/ DeleteSilently(h)
      BY ZenonT(60), <3>1, <3>3 DEF Moved, Remove, DeleteSilently, Next
    <3>4. CASE Delete(h)
      BY ZenonT(60), <3>1, <3>4 DEF Delete, Next
    <3>5. CASE Gone(h)
      <4>1. PICK o \in held[h] : Release(h, o)
        BY ZenonT(60), <3>5 DEF Gone
      <4>2. o \in Objs
        BY ZenonT(60), <3>1 DEF IInv, MapOK
      <4> QED
        BY ZenonT(60), <3>1, <4>1, <4>2 DEF Next
    <3>6. CASE Fetch(h) \/ Tell(h) \/ \E j \in DOMAIN calls : Begin(h, j)
      BY ZenonT(60), <3>6 DEF Fetch, Tell, Begin
    <3> QED
      BY ZenonT(60), <2>3, <3>2, <3>3, <3>4, <3>5, <3>6 DEF Handle
  <2>4. CASE \/ \E d \in Fetched : MetaAdd(d)
             \/ \E d \in Fetched, s \in {"mine", "other"} : MetaUpdate(d, s)
             \/ \E i \in Ids : MetaDelete(i)
             \/ Serve
    BY ZenonT(60), <2>4 DEF MetaAdd, MetaUpdate, MetaDelete, MetaChange, Serve
  <2> QED
    BY ZenonT(60), <1>2, <2>1, <2>2, <2>3, <2>4 DEF SyncNext
<1> QED
  BY ZenonT(60), <1>1, <1>2

\* The invariant of Devmap and the types hold always.
LEMMA SyncAlways == SyncSpec => [](IInv /\ STyped)
<1>1. IInv /\ STyped /\ [SyncNext]_allvars => (IInv /\ STyped)'
  BY ZenonT(60), StepRefines, NextInv, STypedNext
<1> QED
  BY <1>1, SyncInitOK, PTL DEF SyncSpec

\* The handlers of callback.c use the map only through its operations: the
\* composed system implements Devmap, so that all that is proved of Devmap
\* holds with any number of callbacks in flight.
THEOREM MapUsedAsPromised == SyncSpec => ImplementsDevmap
<1>1. SyncInit => Init
  BY ZenonT(60) DEF SyncInit
<1>2. IInv /\ STyped /\ [SyncNext]_allvars => [Next]_vars
  BY ZenonT(60), StepRefines
<1> QED
  BY <1>1, <1>2, SyncAlways, PTL DEF SyncSpec, ImplementsDevmap, Spec

-----------------------------------------------------------------------------
(* The map follows core-metadata.                                          *)

\* What the map should show for the id i.
Wanted(i) == IF Mine(i) THEN {Contents(meta[i].rec)} ELSE {}

\* A callback on its way that will make a handler look at the id i again.
Due(i) ==
  \E j \in DOMAIN calls :
    /\ calls[j].id = i
    /\ IF calls[j].method = "DELETE" THEN meta[i] = Deleted ELSE Present(i)

\* What a handler in the state c fetched is what core-metadata still has.
Current(c) == meta[c.id] = [rec |-> c.rec, svc |-> c.pc]

\* A handler in the state c is about to set the id i right.
Mends(c, i) ==
  /\ c # Idle
  /\ c.id = i
  /\ \/ c.pc \in {"POST", "PUT"} /\ Present(i)
     \/ c.pc \in {"mine", "other"} /\ Current(c)
     \/ c.pc \in {"DELETE", "remove"}

\* A handler in the state c has not been overtaken, or a callback is due.
CbSound(c) ==
  /\ c.pc \in {"DELETE", "remove"} => meta[c.id] = Deleted
  /\ c.pc \in {"mine", "other"} => Current(c) \/ Due(c.id)

\* The device i is still to be entered from the listing.
Listed(i) == \E j \in DOMAIN todo : todo[j].id = i

\* Before the callback handler is registered nothing happens but the listing.
Starting ==
  /\ calls = <<>>
  /\ \A h \in Handlers : cb[h] = Idle
  /\ \A j \in DOMAIN todo :
       /\ meta[todo[j].id] = [rec |-> todo[j], svc |-> "mine"]
       /\ name_to_id[todo[j].name] = NULL
       /\ driver[todo[j].name] = Told(todo[j])
  /\ \A j, k \in DOMAIN todo : j # k => todo[j].name # todo[k].name

\* The map shows what it should for i, or something is about to repair that.
Follows(i) ==
  \/ Seen(i) = Wanted(i) \/ Due(i) \/ Listed(i)
  \/ \E h \in Handlers : Mends(cb[h], i)

\* The inductive invariant of a calm world.
CInv ==
  /\ \A g, h \in Handlers : cb[g] # Idle /\ cb[h] # Idle => g = h
  /\ ~serving => Starting
  /\ \A j \in DOMAIN calls : calls[j].method = "DELETE" => meta[calls[j].id] = Deleted
  /\ \A h \in Handlers : CbSound(cb[h])
  /\ \A i \in Ids : Follows(i)

\* Nothing is said of an idle handler.
LEMMA IdleSound == \A c : c = Idle => CbSound(c) /\ CbSound(c)'
BY SMT DEF CbSound, Idle

\* Nothing due, wanted or current depends on more than core-metadata and the
\* queue.
LEMMA SameMeta ==
  ASSUME meta' = meta, calls' = calls
  PROVE  /\ \A i : Wanted(i)' = Wanted(i) /\ (Due(i)' <=> Due(i))
         /\ \A c, i : CbSound(c)' <=> CbSound(c)
         /\ \A c, i : Mends(c, i)' <=> Mends(c, i)
<1>1. ASSUME NEW i PROVE Wanted(i)' = Wanted(i) /\ (Due(i)' <=> Due(i))
  BY ZenonT(60) DEF Wanted, Mine, Due, Present
<1>2. ASSUME NEW c PROVE CbSound(c)' <=> CbSound(c)
  BY ZenonT(60) DEF CbSound, Current, Due, Present
<1>3. ASSUME NEW c, NEW i PROVE Mends(c, i)' <=> Mends(c, i)
  BY ZenonT(60) DEF Mends, Current, Present
<1> QED
  BY ZenonT(60), <1>1, <1>2, <1>3

\* A step of the one active handler that mends the id it is about, or has
\* nothing to mend.
LEMMA HandlerKeeps ==
  ASSUME STyped, CInv, NEW h \in Handlers, cb[h] # Idle,
         NEW k \in Ids, k = cb[h].id,
         NEW c, cb' = [cb EXCEPT ![h] = c],
         UNCHANGED <<meta, calls, serving, todo>>,
         CbSound(c),
         \A i \in Ids : i # k => Seen(i)' = Seen(i),
         \/ Seen(k)' = Wanted(k)
         \/ Due(k)
         \/ Mends(c, k)
         \/ Seen(k)' = Seen(k) /\ ~Mends(cb[h], k)
  PROVE  CInv'
<1>1. DOMAIN cb = Handlers /\ cb'[h] = c /\ \A g \in Handlers \ {h} : cb'[g] = cb[g]
  BY ZenonT(60) DEF STyped
<1>2. \A g \in Handlers \ {h} : cb[g] = Idle /\ cb'[g] = Idle
  BY ZenonT(60), <1>1 DEF CInv
<1>3. serving /\ serving'
  BY ZenonT(60) DEF CInv, Starting
<1>4. \A f, g \in Handlers : cb'[f] # Idle /\ cb'[g] # Idle => f = g
  BY ZenonT(60), <1>2
<1>5. ASSUME NEW j \in DOMAIN calls', calls'[j].method = "DELETE"
      PROVE  meta'[calls'[j].id] = Deleted
  BY ZenonT(60), <1>5 DEF CInv
<1>6. ASSUME NEW g \in Handlers PROVE CbSound(cb[g])'
  <2>1. PICK x : x = cb'[g]
    BY ZenonT(60)
  <2>2. CbSound(x)
    <3>1. CASE g = h
      BY ZenonT(60), <3>1, <2>1, <1>1
    <3>2. CASE g # h
      BY ZenonT(60), <3>2, <2>1, <1>1 DEF CInv
    <3> QED
      BY ZenonT(60), <3>1, <3>2
  <2>3. CbSound(x)'
    BY ZenonT(60), <2>2, SameMeta
  <2> QED
    BY ZenonT(60), <2>1, <2>3 DEF CbSound, Current, Due, Present
<1>7. ASSUME NEW i \in Ids PROVE Follows(i)'
  <2>1. CASE i # k
    <3>1. ASSUME NEW g \in Handlers, Mends(cb[g], i) PROVE FALSE
      BY ZenonT(60), <3>1, <2>1, <1>2 DEF Mends
    <3>2. Seen(i) = Wanted(i) \/ Due(i) \/ Listed(i)
      BY ZenonT(60), <3>1 DEF CInv, Follows
    <3> QED
      BY ZenonT(60), <3>2, <2>1, SameMeta DEF Follows, Listed
  <2>2. CASE i = k
    <3>1. CASE Mends(c, i)
      <4>1. Mends(c, i)'
        BY ZenonT(60), <3>1, SameMeta
      <4>2. Mends(cb[h], i)'
        BY ZenonT(60), <4>1, <1>1 DEF Mends, Current, Present
      <4> QED
        BY ZenonT(60), <4>2 DEF Follows
    <3>2. CASE Seen(i)' = Wanted(i) \/ Due(i)
      BY ZenonT(60), <3>2, SameMeta DEF Follows
    <3>3. CASE Seen(i)' = Seen(i) /\ ~Mends(cb[h], i)
      <4>1. ASSUME NEW g \in Handlers, Mends(cb[g], i) PROVE FALSE
        BY ZenonT(60), <4>1, <3>3, <1>2 DEF Mends
      <4>2. Seen(i) = Wanted(i) \/ Due(i) \/ Listed(i)
        BY ZenonT(60), <4>1 DEF CInv, Follows
      <4> QED
        BY ZenonT(60), <4>2, <3>3, SameMeta DEF Follows, Listed
    <3> QED
      BY ZenonT(60), <2>2, <3>1, <3>2, <3>3
  <2> QED
    BY ZenonT(60), <2>1, <2>2
<1> QED
  BY ZenonT(60), <1>3, <1>4, <1>5, <1>6, <1>7 DEF CInv

\* An id that is not mapped shows nothing.
LEMMA NotMapped ==
  ASSUME NEW i \in Ids, devices[i] = NULL
  PROVE  Seen(i) = {}
BY ZenonT(60) DEF Seen, ShownBy

\* A step that leaves the map alone changes nothing that it shows.
LEMMA SameSeen ==
  ASSUME UNCHANGED vars, NEW i
  PROVE  Seen(i)' = Seen(i)
BY ZenonT(60) DEF vars, Seen

\* What the steps of a handler do to what the map shows.
LEMMA HandlerShows ==
  ASSUME IInv, IInv', STyped, NEW h \in Handlers, HandlerStep(h),
         NEW k, k = cb[h].id
  PROVE  /\ k \in Ids /\ cb[h] # Idle
         /\ \A i \in Ids : i # k => Seen(i)' = Seen(i)
         /\ Fetch(h) \/ Tell(h) \/ Delete(h) \/ Gone(h) => Seen(k)' = Seen(k)
         /\ Replace(h) => Seen(k)' = {Contents(cb[h].rec)}
         /\ Moved(h) \/ DeleteSilently(h) \/ Remove(h) => Seen(k)' = {}
<1>1. CbOK(cb[h]) /\ h \in Threads
  BY ZenonT(60), SyncAssumption DEF STyped
<1>2. cb[h].pc \in {"POST", "PUT", "mine", "other", "tell", "tellmoved", "DELETE",
                    "remove", "tellgone"}
  BY ZenonT(60) DEF HandlerStep, Fetch, Replace, Moved, Tell, Delete, DeleteSilently, Remove, Gone
<1>3. k \in Ids /\ cb[h] # Idle
  BY ZenonT(60), <1>1, <1>2, CbParts
<1>4. CASE Fetch(h) \/ Tell(h) \/ Delete(h) \/ Gone(h)
  <2>1. \/ \E j \in Ids : DeviceById(h, j)
        \/ \E o \in Objs : Release(h, o)
        \/ UNCHANGED vars
    <3>1. ASSUME Gone(h) PROVE \E o \in Objs : Release(h, o)
      <4>1. PICK o \in held[h] : Release(h, o)
        BY ZenonT(60), <3>1 DEF Gone
      <4>2. o \in Objs
        BY ZenonT(60), <1>1 DEF IInv, MapOK
      <4> QED
        BY ZenonT(60), <4>1, <4>2
    <3> QED
      BY ZenonT(60), <1>3, <1>4, <3>1 DEF Fetch, Tell, Delete
  <2>2. ASSUME NEW i \in Ids PROVE Seen(i)' = Seen(i)
    BY ZenonT(60), <2>1, <1>1, QuietSeen
  <2>3. ~Replace(h) /\ ~(Moved(h) \/ DeleteSilently(h) \/ Remove(h))
    BY ZenonT(60), <1>4 DEF Fetch, Tell, Delete, Gone, Replace, Moved, DeleteSilently, Remove
  <2> QED
    BY ZenonT(60), <1>3, <2>2, <2>3
<1>5. CASE Replace(h)
  <2>1. PICK d : d = cb[h].rec
    BY ZenonT(60)
  <2>2. ReplaceDevice(d) /\ d \in Fetched /\ d.id = k
    BY ZenonT(60), <1>1, <1>5, <2>1, CbParts DEF Replace
  <2>3. \A i \in Ids : Seen(i)' = IF i = d.id THEN {Contents(d)} ELSE Seen(i)
    BY ZenonT(60), <2>2, ReplaceSeen
  <2>4. ~(Fetch(h) \/ Tell(h) \/ Delete(h) \/ Gone(h))
        /\ ~(Moved(h) \/ DeleteSilently(h) \/ Remove(h))
    BY ZenonT(60), <1>5 DEF Fetch, Tell, Delete, Gone, Replace, Moved, DeleteSilently, Remove
  <2> QED
    BY ZenonT(60), <1>3, <2>1, <2>2, <2>3, <2>4
<1>6. CASE Moved(h) \/ DeleteSilently(h) \/ Remove(h)
  <2>1. RemoveDeviceById(k) \/ (devices[k] = NULL /\ UNCHANGED vars)
    BY ZenonT(60), <1>6 DEF Moved, DeleteSilently, Remove
  <2>2. \A i \in Ids : Seen(i)' = IF i = k THEN {} ELSE Seen(i)
    <3>1. CASE RemoveDeviceById(k)
      BY ZenonT(60), <3>1, <1>3, RemoveSeen
    <3>2. CASE devices[k] = NULL /\ UNCHANGED vars
      <4>1. Seen(k) = {} /\ \A i \in Ids : Seen(i)' = Seen(i)
        BY ZenonT(60), <3>2, <1>3, NotMapped, SameSeen
      <4> QED
        BY ZenonT(60), <4>1
    <3> QED
      BY ZenonT(60), <2>1, <3>1, <3>2
  <2>3. ~(Fetch(h) \/ Tell(h) \/ Delete(h) \/ Gone(h)) /\ ~Replace(h)
    BY ZenonT(60), <1>6 DEF Fetch, Tell, Delete, Gone, Replace, Moved, DeleteSilently, Remove
  <2> QED
    BY ZenonT(60), <1>3, <2>2, <2>3
<1> QED
  BY ZenonT(60), <1>4, <1>5, <1>6 DEF HandlerStep

\* Handlers keep the map following core-metadata.
LEMMA HandlerFollows ==
  ASSUME IInv, IInv', STyped, CInv, ~world.faulty, NEW h \in Handlers, HandlerStep(h)
  PROVE  CInv'
<1>1. PICK k : k = cb[h].id
  BY ZenonT(60)
<1>2. /\ k \in Ids /\ cb[h] # Idle
      /\ \A i \in Ids : i # k => Seen(i)' = Seen(i)
      /\ Fetch(h) \/ Tell(h) \/ Delete(h) \/ Gone(h) => Seen(k)' = Seen(k)
      /\ Replace(h) => Seen(k)' = {Contents(cb[h].rec)}
      /\ Moved(h) \/ DeleteSilently(h) \/ Remove(h) => Seen(k)' = {}
  BY ZenonT(60), <1>1, HandlerShows
<1>3. UNCHANGED <<meta, calls, serving, todo>>
  BY ZenonT(60), MapFrame
<1>4. ASSUME NEW c, cb' = [cb EXCEPT ![h] = c], CbSound(c),
             \/ Seen(k)' = Wanted(k)
             \/ Due(k)
             \/ Mends(c, k)
             \/ Seen(k)' = Seen(k) /\ ~Mends(cb[h], k)
      PROVE  CInv'
  BY ZenonT(60), <1>1, <1>2, <1>3, <1>4, HandlerKeeps
<1>5. CbOK(cb[h]) /\ CbSound(cb[h])
  BY ZenonT(60) DEF STyped, CInv
<1>6. CbSound(Idle)
  BY ZenonT(60) DEF CbSound, Idle
<1>7. CASE Fetch(h)
  <2>0. cb[h].pc \in {"POST", "PUT"}
    BY ZenonT(60), <1>7 DEF Fetch
  <2>1. CASE Present(k) /\ Goto(h, [pc |-> meta[k].svc, id |-> k, rec |-> meta[k].rec])
    <3>1. PICK d \in Fetched, s \in {"mine", "other"} :
            d.id = k /\ meta[k] = [rec |-> d, svc |-> s]
      BY ZenonT(60), <2>1, <1>2, PresentIs DEF STyped
    <3>2. PICK c : c = [pc |-> s, id |-> k, rec |-> d]
      BY ZenonT(60)
    <3>3. cb' = [cb EXCEPT ![h] = c]
      <4>1. meta[k].svc = s /\ meta[k].rec = d
        BY <3>1
      <4> QED
        BY Zenon, <2>1, <3>2, <4>1 DEF Goto
    <3>4. Current(c) /\ c.id = k /\ c.pc \in {"mine", "other"} /\ c # Idle
      BY ZenonT(60), <3>1, <3>2 DEF Current, Idle
    <3>5. CbSound(c) /\ Mends(c, k)
      BY ZenonT(60), <3>4 DEF CbSound, Mends
    <3> QED
      BY ZenonT(60), <1>4, <3>3, <3>5
  <2>2. CASE ~Present(k) /\ Goto(h, Idle)
    <3>1. ~Mends(cb[h], k)
      BY ZenonT(60), <2>0, <2>2 DEF Mends
    <3>2. cb' = [cb EXCEPT ![h] = Idle]
      BY ZenonT(60), <2>2 DEF Goto
    <3> QED
      BY ZenonT(60), <1>2, <1>4, <1>6, <1>7, <3>1, <3>2
  <2> QED
    BY Zenon, <1>1, <1>7, <2>1, <2>2 DEF Fetch
<1>8. CASE Replace(h)
  <2>1. PICK c : cb' = [cb EXCEPT ![h] = c] /\ CbSound(c)
    <3>1. CASE Goto(h, Idle)
      BY ZenonT(60), <1>6, <3>1 DEF Goto
    <3>2. CASE Goto(h, [cb[h] EXCEPT !.pc = "tell"])
      <4>1. [cb[h] EXCEPT !.pc = "tell"].pc = "tell"
        BY <1>5, <1>8, CbParts DEF Replace
      <4>2. CbSound([cb[h] EXCEPT !.pc = "tell"])
        BY ZenonT(60), <4>1 DEF CbSound
      <4> QED
        BY Zenon, <4>2, <3>2 DEF Goto
    <3> QED
      BY ZenonT(60), <1>8, <3>1, <3>2 DEF Replace
  <2>2. Seen(k)' = Wanted(k) \/ Due(k)
    <3>1. CASE Current(cb[h])
      <4>1. meta[k].svc = "mine" /\ meta[k].rec = cb[h].rec
        BY SMTT(60), <3>1, <1>1, <1>8 DEF Current, Replace
      <4> QED
        BY ZenonT(60), <4>1, <1>2, <1>8 DEF Wanted, Mine
    <3>2. CASE Due(cb[h].id)
      BY ZenonT(60), <3>2, <1>1
    <3> QED
      BY ZenonT(60), <3>1, <3>2, <1>5, <1>8 DEF CbSound, Replace
  <2> QED
    BY ZenonT(60), <1>4, <2>1, <2>2
<1>9. CASE Moved(h)
  <2>1. PICK c : cb' = [cb EXCEPT ![h] = c] /\ CbSound(c)
    <3>1. CASE Goto(h, Idle)
      BY ZenonT(60), <1>6, <3>1 DEF Goto
    <3>2. CASE Goto(h, [cb[h] EXCEPT !.pc = "tellmoved"])
      <4>1. [cb[h] EXCEPT !.pc = "tellmoved"].pc = "tellmoved"
        BY SMTT(60), <1>5, <1>9, CbParts DEF Moved
      <4>2. CbSound([cb[h] EXCEPT !.pc = "tellmoved"])
        BY ZenonT(60), <4>1 DEF CbSound
      <4> QED
        BY ZenonT(60), <4>2, <3>2 DEF Goto
    <3> QED
      BY ZenonT(60), <1>9, <3>1, <3>2 DEF Moved
  <2>2. Seen(k)' = Wanted(k) \/ Due(k)
    <3>1. CASE Current(cb[h])
      <4>1. meta[k].svc # "mine"
        BY SMTT(60), <3>1, <1>1, <1>9 DEF Current, Moved
      <4> QED
        BY ZenonT(60), <4>1, <1>2, <1>9 DEF Wanted, Mine
    <3>2. CASE Due(cb[h].id)
      BY ZenonT(60), <3>2, <1>1
    <3> QED
      BY ZenonT(60), <3>1, <3>2, <1>5, <1>9 DEF CbSound, Moved
  <2> QED
    BY ZenonT(60), <1>4, <2>1, <2>2
<1>10. CASE Tell(h) \/ Gone(h)
  <2>1. ~Mends(cb[h], k) /\ cb' = [cb EXCEPT ![h] = Idle]
    BY ZenonT(60), <1>10 DEF Tell, Gone, Mends, Goto
  <2> QED
    BY ZenonT(60), <1>2, <1>4, <1>6, <1>10, <2>1
<1>11. CASE Delete(h) \/ DeleteSilently(h) \/ Remove(h)
  <2>1. meta[k] = Deleted /\ Wanted(k) = {} /\ cb[h].pc \in {"DELETE", "remove"}
    <3>1. meta[k] = Deleted /\ cb[h].pc \in {"DELETE", "remove"}
      BY ZenonT(60), <1>1, <1>5, <1>11 DEF Delete, DeleteSilently, Remove, CbSound
    <3> QED
      BY ZenonT(60), <3>1, DeletedIs DEF Wanted, Mine
  <2>2. CASE Goto(h, Idle) /\ devices[k] = NULL /\ Delete(h)
    <3>1. Seen(k)' = Wanted(k) /\ cb' = [cb EXCEPT ![h] = Idle]
      BY Zenon, <2>1, <2>2, <1>2, NotMapped DEF Goto
    <3> QED
      BY ZenonT(60), <1>4, <1>6, <3>1
  <2>3. CASE Goto(h, [cb[h] EXCEPT !.pc = "remove"]) /\ Delete(h)
    <3>1. PICK c : c = [pc |-> "remove", id |-> k]
      BY ZenonT(60)
    <3>2. c = [cb[h] EXCEPT !.pc = "remove"]
      BY ZenonT(60), <3>1, <2>1, <1>1, <1>5, CbParts
    <3>3. Mends(c, k) /\ CbSound(c)
      BY ZenonT(60), <3>1, <2>1 DEF Mends, CbSound, Idle
    <3>4. cb' = [cb EXCEPT ![h] = c]
      BY ZenonT(60), <3>2, <2>3 DEF Goto
    <3> QED
      BY ZenonT(60), <1>4, <3>3, <3>4
  <2>4. CASE DeleteSilently(h)
    <3>1. cb' = [cb EXCEPT ![h] = Idle] /\ Seen(k)' = Wanted(k)
      BY Zenon, <2>1, <2>4, <1>2 DEF DeleteSilently, Goto
    <3> QED
      BY ZenonT(60), <1>4, <1>6, <3>1
  <2>5. CASE Remove(h)
    <3>1. PICK c : c = [pc |-> "tellgone", id |-> k]
      BY ZenonT(60)
    <3>2. c = [cb[h] EXCEPT !.pc = "tellgone"]
      BY ZenonT(60), <3>1, <2>1, <1>1, <1>5, CbParts
    <3>3. CbSound(c)
      BY ZenonT(60), <3>1 DEF CbSound
    <3>4. cb' = [cb EXCEPT ![h] = c] /\ Seen(k)' = Wanted(k)
      BY ZenonT(60), <2>1, <2>5, <1>2, <3>2 DEF Remove, Goto
    <3> QED
      BY ZenonT(60), <1>4, <3>3, <3>4
  <2> QED
    BY ZenonT(60), <1>1, <1>11, <2>2, <2>3, <2>4, <2>5 DEF Delete
<1> QED
  BY ZenonT(60), <1>7, <1>8, <1>9, <1>10, <1>11 DEF HandlerStep

\* When the service starts everything is in the listing.
LEMMA CInvInit ==
  ASSUME SyncInit
  PROVE  CInv
<1> DEFINE L == {todo[j] : j \in DOMAIN todo}
<1>1. IInv /\ todo \in Seq(Fetched)
  BY ZenonT(60), SyncInitOK DEF IInv, TodoOK
<1>2. \A j, k \in DOMAIN todo : j # k => todo[j].id # todo[k].id /\ todo[j].name # todo[k].name
  BY ZenonT(60) DEF SyncInit, Init, Listing
<1>3. /\ meta = [i \in Ids |->
           IF \E d \in L : d.id = i
             THEN [rec |-> CHOOSE d \in L : d.id = i, svc |-> "mine"] ELSE Unused]
      /\ driver = [n \in Names |->
           IF \E d \in L : d.name = n
             THEN Told(CHOOSE d \in L : d.name = n) ELSE NULL]
  BY ZenonT(60) DEF SyncInit
<1>4. ASSUME NEW j \in DOMAIN todo
      PROVE  /\ todo[j] \in L /\ todo[j].id \in Ids /\ todo[j].name \in Names
             /\ \A d \in L : d.id = todo[j].id \/ d.name = todo[j].name => d = todo[j]
  <2>1. todo[j] \in Fetched
    BY SMTT(60), <1>1
  <2>2. todo[j].id \in Ids /\ todo[j].name \in Names
    BY ZenonT(60), <2>1, DevmapAssumption DEF DeviceRec
  <2> QED
    BY ZenonT(60), <1>2, <2>2
<1> HIDE DEF L
<1>5. ASSUME NEW j \in DOMAIN todo
      PROVE  /\ meta[todo[j].id] = [rec |-> todo[j], svc |-> "mine"]
             /\ name_to_id[todo[j].name] = NULL
             /\ driver[todo[j].name] = Told(todo[j])
  <2>1. PICK x : x = todo[j]
    BY ZenonT(60)
  <2>2. x \in L /\ x.id \in Ids /\ x.name \in Names
        /\ \A d \in L : d.id = x.id \/ d.name = x.name => d = x
    BY ZenonT(60), <2>1, <1>4
  <2>3. (CHOOSE d \in L : d.id = x.id) = x /\ (CHOOSE d \in L : d.name = x.name) = x
    BY ZenonT(60), <2>2
  <2>4. meta[x.id] = [rec |-> x, svc |-> "mine"]
    BY ZenonT(60), <1>3, <2>2, <2>3
  <2>5. driver[x.name] = Told(x)
    BY ZenonT(60), <1>3, <2>2, <2>3
  <2>6. name_to_id[x.name] = NULL
    BY ZenonT(60), <2>2 DEF SyncInit, Init
  <2> QED
    BY ZenonT(60), <2>1, <2>4, <2>5, <2>6
<1>6. calls = <<>> /\ \A h \in Handlers : cb[h] = Idle
  BY ZenonT(60) DEF SyncInit
<1>7. Starting
  BY ZenonT(60), <1>2, <1>5, <1>6 DEF Starting
<1>8. ASSUME NEW i \in Ids PROVE Follows(i)
  <2>1. CASE \E d \in L : d.id = i
    <3>1. Listed(i)
      BY ZenonT(60), <2>1 DEF Listed, L
    <3> QED
      BY ZenonT(60), <3>1 DEF Follows
  <2>2. CASE ~\E d \in L : d.id = i
    <3>1. Wanted(i) = {}
      BY ZenonT(60), <1>3, <2>2 DEF Wanted, Mine, Unused
    <3>2. Seen(i) = {}
      BY ZenonT(60), NotMapped DEF SyncInit, Init
    <3> QED
      BY ZenonT(60), <3>1, <3>2 DEF Follows
  <2> QED
    BY ZenonT(60), <2>1, <2>2
<1>9. \A h \in Handlers : CbSound(cb[h])
  BY ZenonT(60), <1>6, IdleSound
<1>10. DOMAIN calls = {}
  BY <1>6
<1> QED
  BY ZenonT(60), <1>6, <1>7, <1>8, <1>9, <1>10 DEF CInv

\* A change in core-metadata is followed by a callback that is due.
LEMMA MetaFollows ==
  ASSUME STyped, CInv, world.quiet, NEW i \in Ids, NEW m, NEW method,
         MetaChange(i, m, method), meta[i] # Deleted,
         \/ method = "DELETE" /\ m = Deleted
         \/ method # "DELETE" /\ m.svc \in {"mine", "other"}
  PROVE  CInv'
<1>1. /\ serving /\ serving' /\ cb' = cb /\ todo' = todo /\ UNCHANGED vars
      /\ meta' = [meta EXCEPT ![i] = m]
      /\ calls' = Append(calls, [method |-> method, id |-> i])
  BY ZenonT(60) DEF MetaChange, vars
<1>2. /\ meta'[i] = m
      /\ \A k \in Ids \ {i} : meta'[k] = meta[k]
      /\ \A k \in Ids : meta[k] = Deleted => meta'[k] = Deleted
  BY ZenonT(60), <1>1 DEF STyped
<1>3. PICK n \in Nat :
        /\ DOMAIN calls = 1..n /\ DOMAIN calls' = 1..(n + 1)
        /\ calls'[n + 1] = [method |-> method, id |-> i]
        /\ \A j \in 1..n : calls'[j] = calls[j] /\ calls[j].id \in Ids
  <2>1. calls \in Seq(Call)
    BY ZenonT(60) DEF STyped
  <2>2. ASSUME NEW j \in 1..Len(calls) PROVE calls[j].id \in Ids
    <3>1. calls[j] \in Call
      BY SMTT(60), <2>1
    <3> QED
      BY ZenonT(60), <3>1 DEF Call
  <2>3. PICK x : x = [method |-> method, id |-> i]
    BY Zenon
  <2>4. calls' = Append(calls, x)
    BY Zenon, <1>1, <2>3
  <2>5. Len(calls) \in Nat /\ Appended(calls', calls, x, Len(calls))
    BY ZenonT(60), <2>1, <2>4, AppendIs
  <2> QED
    BY ZenonT(60), <2>2, <2>3, <2>5 DEF Appended
<1>4. n + 1 \in DOMAIN calls' /\ \A j \in DOMAIN calls : j \in DOMAIN calls'
  BY SMTT(60), <1>3
<1>5. Due(i)'
  <2>1. calls'[n + 1].id = i /\ calls'[n + 1].method = method
    BY SMTT(60), <1>3
  <2>2. IF method = "DELETE" THEN meta'[i] = Deleted ELSE meta'[i].svc \in {"mine", "other"}
    BY ZenonT(60), <1>2
  <2> QED
    BY ZenonT(60), <1>4, <2>1, <2>2 DEF Due, Present
<1>6. ASSUME NEW k \in Ids, Due(k) PROVE Due(k)'
  <2>1. CASE k = i
    BY ZenonT(60), <2>1, <1>5
  <2>2. CASE k # i
    <3>1. PICK j \in DOMAIN calls : /\ calls[j].id = k
                                    /\ IF calls[j].method = "DELETE" THEN meta[k] = Deleted
                                                                     ELSE Present(k)
      BY ZenonT(60), <1>6 DEF Due
    <3>2. calls'[j] = calls[j] /\ j \in DOMAIN calls' /\ meta'[k] = meta[k]
      BY ZenonT(60), <1>2, <1>3, <1>4, <2>2, <3>1
    <3> QED
      BY ZenonT(60), <3>1, <3>2 DEF Due, Present
  <2> QED
    BY ZenonT(60), <2>1, <2>2
<1>7. ASSUME NEW j \in DOMAIN calls', calls'[j].method = "DELETE"
      PROVE  meta'[calls'[j].id] = Deleted
  <2>1. CASE j = n + 1
    <3>1. calls'[j].id = i /\ method = "DELETE"
      BY SMTT(60), <1>3, <1>7, <2>1
    <3> QED
      BY ZenonT(60), <3>1, <1>2
  <2>2. CASE j # n + 1
    <3>1. j \in DOMAIN calls /\ calls'[j] = calls[j] /\ calls[j].id \in Ids
      BY SMTT(60), <1>3, <2>2
    <3>2. meta[calls[j].id] = Deleted
      BY ZenonT(60), <3>1, <1>7 DEF CInv
    <3> QED
      BY ZenonT(60), <3>1, <3>2, <1>2
  <2> QED
    BY ZenonT(60), <2>1, <2>2
<1>8. ASSUME NEW h \in Handlers PROVE CbSound(cb[h])'
  <2>1. PICK c : c = cb[h]
    BY ZenonT(60)
  <2>2. CbOK(c) /\ CbSound(c)
    BY ZenonT(60), <2>1 DEF STyped, CInv
  <2>3. c.pc \in {"DELETE", "remove"} => meta'[c.id] = Deleted
    <3> SUFFICES ASSUME c.pc \in {"DELETE", "remove"} PROVE meta'[c.id] = Deleted
      BY ZenonT(60)
    <3>1. c.id \in Ids /\ meta[c.id] = Deleted
      BY ZenonT(60), <2>2, CbParts DEF CbSound
    <3> QED
      BY ZenonT(60), <3>1, <1>2
  <2>4. c.pc \in {"mine", "other"} => Current(c)' \/ Due(c.id)'
    <3> SUFFICES ASSUME c.pc \in {"mine", "other"} PROVE Current(c)' \/ Due(c.id)'
      BY ZenonT(60)
    <3>1. PICK k : k = c.id
      BY ZenonT(60)
    <3>2. k \in Ids
      BY ZenonT(60), <2>2, <3>1, CbParts
    <3>3. CASE k = i
      BY ZenonT(60), <3>1, <3>3, <1>5
    <3>4. CASE Due(k)
      BY ZenonT(60), <3>1, <3>2, <3>4, <1>6
    <3>5. CASE Current(c) /\ k # i
      BY ZenonT(60), <3>1, <3>2, <3>5, <1>2 DEF Current
    <3> QED
      BY ZenonT(60), <2>2, <3>1, <3>3, <3>4, <3>5 DEF CbSound
  <2>5. CbSound(c)'
    BY ZenonT(60), <2>3, <2>4 DEF CbSound
  <2> QED
    BY ZenonT(60), <1>1, <2>1, <2>5 DEF CbSound, Current, Due, Present
<1>9. ASSUME NEW k \in Ids PROVE Follows(k)'
  <2>1. CASE k = i
    BY ZenonT(60), <2>1, <1>5 DEF Follows
  <2>2. CASE k # i
    <3>1. Seen(k)' = Seen(k)
      BY ZenonT(60), <1>1, SameSeen
    <3>2. meta'[k] = meta[k]
      BY ZenonT(60), <1>2, <2>2
    <3>3. Wanted(k)' = Wanted(k)
      BY ZenonT(60), <3>2 DEF Wanted, Mine
    <3>4. ASSUME NEW h \in Handlers, Mends(cb[h], k) PROVE Mends(cb[h], k)'
      <4>1. PICK c : c = cb[h]
        BY ZenonT(60)
      <4>2. Mends(c, k)'
        BY ZenonT(60), <3>2, <3>4, <4>1 DEF Mends, Current, Present
      <4> QED
        BY ZenonT(60), <4>1, <4>2, <1>1 DEF Mends, Current, Present
    <3> QED
      BY ZenonT(60), <3>1, <3>3, <3>4, <1>1, <1>6 DEF CInv, Follows, Listed
  <2> QED
    BY ZenonT(60), <2>1, <2>2
<1>10. \A f, g \in Handlers : cb'[f] # Idle /\ cb'[g] # Idle => f = g
  BY ZenonT(60), <1>1 DEF CInv
<1> QED
  BY ZenonT(60), <1>1, <1>7, <1>8, <1>9, <1>10 DEF CInv

\* The first of the devices to be listed, and the rest of them.
LEMMA TodoRest ==
  ASSUME NEW s \in Seq(Fetched), s # <<>>
  PROVE  /\ 1 \in DOMAIN s /\ Head(s) = s[1] /\ s[1] \in Fetched
         /\ \A j \in DOMAIN Tail(s) : /\ j + 1 \in DOMAIN s /\ j + 1 # 1
                                      /\ Tail(s)[j] = s[j + 1] /\ s[j + 1] \in Fetched
         /\ \A j \in DOMAIN s : j = 1 \/ \E k \in DOMAIN Tail(s) : Tail(s)[k] = s[j]
         /\ \A j, k \in DOMAIN Tail(s) : j # k => j + 1 # k + 1
<1>1. PICK n \in Nat : n = Len(s) /\ n > 0 /\ DOMAIN s = 1..n
  BY SMTT(60)
<1>2. /\ Tail(s) \in Seq(Fetched) /\ Len(Tail(s)) = n - 1
      /\ \A i \in 1..(n - 1) : Tail(s)[i] = s[i + 1]
  BY ZenonT(60), <1>1, HeadTailProperties
<1>3. DOMAIN Tail(s) = 1..(n - 1)
  BY SMTT(60), <1>2
<1>4. ASSUME NEW j \in 1..n, j # 1 PROVE \E k \in 1..(n - 1) : Tail(s)[k] = s[j]
  <2>1. PICK k \in 1..(n - 1) : k + 1 = j
    BY SMTT(60), <1>1, <1>4
  <2>2. Tail(s)[k] = s[j]
    BY ZenonT(60), <1>2, <2>1
  <2> QED
    BY ZenonT(60), <2>1, <2>2
<1>5. \A j \in 1..(n - 1) : j + 1 \in 1..n /\ j + 1 # 1
  BY SMTT(60), <1>1
<1>6. \A j \in 1..n : s[j] \in Fetched
  BY SMTT(60), <1>1
<1>7. 1 \in DOMAIN s /\ Head(s) = s[1] /\ s[1] \in Fetched
  BY SMTT(60), <1>1, <1>6
<1>8. \A j, k \in 1..(n - 1) : j # k => j + 1 # k + 1
  BY SMTT(60), <1>1
<1> QED
  BY ZenonT(60), <1>1, <1>2, <1>3, <1>4, <1>5, <1>6, <1>7, <1>8

\* One device is entered from the listing, as core-metadata has it.
LEMMA PopulateFollows ==
  ASSUME IInv, STyped, CInv, Populate
  PROVE  CInv' /\ \A i \in Ids : Seen(i)' = IF i = todo[1].id THEN {Contents(todo[1])}
                                                              ELSE Seen(i)
<1>1. /\ PopulateDevices /\ UNCHANGED syncvars /\ todo # <<>> /\ todo' = Tail(todo)
      /\ ~serving /\ Starting
  BY ZenonT(60) DEF Populate, PopulateDevices, STyped, CInv
<1>2. todo \in Seq(Fetched)
  BY ZenonT(60) DEF IInv, TodoOK
<1>3. PICK d \in Fetched : d = todo[1] /\ Head(todo) = d /\ 1 \in DOMAIN todo
  BY ZenonT(60), <1>1, <1>2, TodoRest
<1>4. /\ meta[d.id] = [rec |-> d, svc |-> "mine"] /\ name_to_id[d.name] = NULL
      /\ d.name \in Names /\ d.id \in Ids
  <2>1. d.name \in Names /\ d.id \in Ids
    BY ZenonT(60), DevmapAssumption DEF DeviceRec
  <2> QED
    BY ZenonT(60), <2>1, <1>1, <1>3 DEF Starting
<1>5. \A i \in Ids : Seen(i)' = IF i = todo[1].id THEN {Contents(todo[1])} ELSE Seen(i)
  BY ZenonT(60), <1>1, <1>3, <1>4, PopulateSeen
<1>6. \A n \in Names \ {d.name} : name_to_id'[n] = name_to_id[n]
  BY SMTT(60), <1>1, <1>3, <1>4 DEF PopulateDevices, AddLocked, IInv
<1>7. ASSUME NEW j \in DOMAIN todo'
      PROVE  /\ meta'[todo'[j].id] = [rec |-> todo'[j], svc |-> "mine"]
             /\ name_to_id'[todo'[j].name] = NULL
             /\ driver'[todo'[j].name] = Told(todo'[j])
  <2>1. PICK x \in Fetched : x = todo[j + 1] /\ todo'[j] = x /\ j + 1 \in DOMAIN todo
                             /\ j + 1 # 1
    BY ZenonT(60), <1>1, <1>2, TodoRest
  <2>2. /\ meta[x.id] = [rec |-> x, svc |-> "mine"] /\ name_to_id[x.name] = NULL
        /\ driver[x.name] = Told(x) /\ x.name # d.name
    BY ZenonT(60), <2>1, <1>1, <1>3 DEF Starting
  <2>3. x.name \in Names
    BY ZenonT(60), DevmapAssumption DEF DeviceRec
  <2>4. name_to_id'[x.name] = NULL
    BY ZenonT(60), <2>2, <2>3, <1>6
  <2> QED
    BY ZenonT(60), <2>1, <2>2, <2>4, <1>1 DEF syncvars
<1>8. ASSUME NEW j \in DOMAIN todo', NEW k \in DOMAIN todo', j # k
      PROVE  todo'[j].name # todo'[k].name
  <2>1. /\ todo'[j] = todo[j + 1] /\ j + 1 \in DOMAIN todo
        /\ todo'[k] = todo[k + 1] /\ k + 1 \in DOMAIN todo /\ j + 1 # k + 1
    BY ZenonT(60), <1>1, <1>2, <1>8, TodoRest
  <2> QED
    BY ZenonT(60), <2>1, <1>1 DEF Starting
<1>9. calls' = <<>> /\ \A h \in Handlers : cb'[h] = Idle /\ cb[h] = Idle
  BY ZenonT(60), <1>1 DEF Starting, syncvars
<1>10. Starting'
  BY ZenonT(60), <1>7, <1>8, <1>9 DEF Starting
<1>11. meta' = meta /\ calls' = calls /\ ~serving' /\ cb' = cb /\ calls = <<>>
  BY ZenonT(60), <1>1 DEF syncvars, Starting
<1>14. DOMAIN calls' = {} /\ DOMAIN calls = {}
  BY SMTT(60), <1>9, <1>11
<1>12. ASSUME NEW i \in Ids PROVE Follows(i)'
  <2>1. Wanted(i)' = Wanted(i)
    BY ZenonT(60), <1>11, SameMeta
  <2>2. CASE i = d.id
    <3>1. Wanted(i) = {Contents(d)}
      BY SMTT(60), <1>4, <2>2 DEF Wanted, Mine
    <3>2. Seen(i)' = {Contents(d)}
      BY ZenonT(60), <1>3, <1>5, <2>2
    <3> QED
      BY ZenonT(60), <2>1, <3>1, <3>2 DEF Follows
  <2>3. CASE i # d.id
    <3>1. Seen(i)' = Seen(i)
      BY ZenonT(60), <1>3, <1>5, <2>3
    <3>2. Listed(i) => Listed(i)'
      <4> SUFFICES ASSUME NEW j \in DOMAIN todo, todo[j].id = i PROVE Listed(i)'
        BY ZenonT(60) DEF Listed
      <4>1. j # 1
        BY ZenonT(60), <1>3, <2>3
      <4>2. PICK k \in DOMAIN Tail(todo) : Tail(todo)[k] = todo[j]
        BY ZenonT(60), <1>1, <1>2, <4>1, TodoRest
      <4> QED
        BY ZenonT(60), <1>1, <4>2 DEF Listed
    <3>3. ~Due(i) /\ \A h \in Handlers : ~Mends(cb[h], i)
      BY ZenonT(60), <1>9, <1>11, <1>14 DEF Due, Mends
    <3> QED
      BY ZenonT(60), <2>1, <3>1, <3>2, <3>3 DEF CInv, Follows
  <2> QED
    BY ZenonT(60), <2>2, <2>3
<1>13. \A h \in Handlers : CbSound(cb[h])'
  BY ZenonT(60), <1>9, IdleSound
<1> QED
  BY ZenonT(60), <1>5, <1>9, <1>10, <1>12, <1>13, <1>14 DEF CInv

\* Steps that leave core-metadata, the queue and the handlers alone.
LEMMA QuietFollows ==
  ASSUME CInv, UNCHANGED <<meta, calls, cb, todo>>, serving' \/ Starting',
         \A i \in Ids : Seen(i)' = Seen(i)
  PROVE  CInv'
<1>1. ASSUME NEW h \in Handlers PROVE CbSound(cb[h])'
  BY ZenonT(60) DEF CInv, CbSound, Current, Due, Present
<1>2. ASSUME NEW i \in Ids PROVE Follows(i)'
  <2>1. Wanted(i)' = Wanted(i) /\ (Due(i)' <=> Due(i))
    BY ZenonT(60), SameMeta
  <2>2. ASSUME NEW h \in Handlers, Mends(cb[h], i) PROVE Mends(cb[h], i)'
    BY ZenonT(60), <2>2 DEF Mends, Current, Present
  <2>3. Listed(i) => Listed(i)'
    BY ZenonT(60) DEF Listed
  <2> QED
    BY ZenonT(60), <2>1, <2>2, <2>3 DEF CInv, Follows
<1>3. \A j \in DOMAIN calls' : calls'[j].method = "DELETE" => meta'[calls'[j].id] = Deleted
  BY ZenonT(60) DEF CInv
<1>4. \A f, g \in Handlers : cb'[f] # Idle /\ cb'[g] # Idle => f = g
  BY ZenonT(60) DEF CInv
<1> QED
  BY ZenonT(60), <1>1, <1>2, <1>3, <1>4 DEF CInv

\* What was due is now being mended.
LEMMA BeginFollows ==
  ASSUME STyped, CInv, world.serial, NEW h \in Handlers, NEW j \in DOMAIN calls, Begin(h, j)
  PROVE  CInv'
<1>1. \A g \in Handlers : cb[g] = Idle
  BY ZenonT(60) DEF Begin
<1>2. PICK c : c = [pc |-> calls[j].method, id |-> calls[j].id]
  BY ZenonT(60)
<1>3. /\ calls[j] \in Call
      /\ \A k \in DOMAIN calls' : \E m \in DOMAIN calls : calls'[k] = calls[m]
      /\ \A m \in DOMAIN calls : m = j \/ \E k \in DOMAIN calls' : calls'[k] = calls[m]
      /\ cb' = [cb EXCEPT ![h] = c]
      /\ UNCHANGED <<vars, meta, serving>>
  BY Zenon, <1>2, BeginIs
<1>4. serving /\ serving' /\ cb'[h] = c /\ \A g \in Handlers \ {h} : cb'[g] = Idle
  BY SMTT(60), <1>1, <1>3 DEF Begin, STyped
<1>5. /\ c.pc = calls[j].method /\ c.id = calls[j].id /\ c # Idle
      /\ c.pc \in {"POST", "PUT", "DELETE"}
  BY ZenonT(60), <1>2, <1>3 DEF Call, Idle
<1>6. ASSUME NEW i \in Ids, Due(i) PROVE Due(i)' \/ Mends(c, i)
  <2>1. PICK m \in DOMAIN calls : /\ calls[m].id = i
                                  /\ IF calls[m].method = "DELETE" THEN meta[i] = Deleted
                                                                   ELSE Present(i)
    BY ZenonT(60), <1>6 DEF Due
  <2>2. CASE m = j
    <3>1. Mends(c, i)
      BY ZenonT(60), <2>1, <2>2, <1>5 DEF Mends
    <3> QED
      BY ZenonT(60), <3>1
  <2>3. CASE m # j
    <3>1. PICK k \in DOMAIN calls' : calls'[k] = calls[m]
      BY ZenonT(60), <2>3, <1>3
    <3>2. Due(i)'
      BY ZenonT(60), <2>1, <3>1, <1>3 DEF Due, Present
    <3> QED
      BY ZenonT(60), <3>2
  <2> QED
    BY ZenonT(60), <2>2, <2>3
<1>7. ASSUME NEW i \in Ids PROVE Follows(i)'
  <2>1. Seen(i)' = Seen(i)
    BY ZenonT(60), <1>3, SameSeen
  <2>2. Wanted(i)' = Wanted(i) /\ (Listed(i) => Listed(i)')
    BY ZenonT(60), <1>3 DEF Wanted, Mine, Listed, vars
  <2>3. Mends(c, i) => Mends(cb[h], i)'
    BY ZenonT(60), <1>3, <1>4 DEF Mends, Current, Present
  <2>4. \A g \in Handlers : ~Mends(cb[g], i)
    BY ZenonT(60), <1>1 DEF Mends
  <2> QED
    BY ZenonT(60), <2>1, <2>2, <2>3, <2>4, <1>6 DEF CInv, Follows
<1>8. ASSUME NEW g \in Handlers PROVE CbSound(cb[g])'
  <2>1. CASE g = h
    <3>1. c.pc = "DELETE" => meta'[c.id] = Deleted
      BY ZenonT(60), <1>3, <1>5 DEF CInv
    <3>2. cb'[g].pc \notin {"mine", "other", "remove"} /\ cb'[g] = c
      BY ZenonT(60), <2>1, <1>4, <1>5
    <3> QED
      BY ZenonT(60), <3>1, <3>2 DEF CbSound
  <2>2. CASE g # h
    BY ZenonT(60), <2>2, <1>4, IdleSound
  <2> QED
    BY ZenonT(60), <2>1, <2>2
<1>9. ASSUME NEW k \in DOMAIN calls', calls'[k].method = "DELETE"
      PROVE  meta'[calls'[k].id] = Deleted
  <2>1. PICK m \in DOMAIN calls : calls'[k] = calls[m]
    BY ZenonT(60), <1>3
  <2>2. calls[m].method = "DELETE" => meta[calls[m].id] = Deleted
    BY ZenonT(60) DEF CInv
  <2> QED
    BY ZenonT(60), <1>3, <1>9, <2>1, <2>2
<1>10. \A f, g \in Handlers : cb'[f] # Idle /\ cb'[g] # Idle => f = g
  BY ZenonT(60), <1>4
<1> QED
  BY ZenonT(60), <1>4, <1>7, <1>8, <1>9, <1>10 DEF CInv

\* Every step of a calm system keeps the map following.
LEMMA CInvNext ==
  ASSUME IInv, IInv', STyped, CInv, Calm, [SyncNext]_allvars
  PROVE  CInv'
<1> USE DEF Calm
<1>1. CASE UNCHANGED allvars
  <2>1. /\ UNCHANGED <<meta, calls, cb, todo, serving, name_to_id, driver>>
        /\ UNCHANGED vars
    BY ZenonT(60), <1>1 DEF allvars, vars, syncvars
  <2>2. serving' \/ Starting'
    BY ZenonT(60), <2>1 DEF CInv, Starting
  <2> QED
    BY ZenonT(60), <2>1, <2>2, SameSeen, QuietFollows
<1>2. ASSUME NEW d \in Fetched, MetaAdd(d) PROVE CInv'
  <2>1. PICK m : m = [rec |-> d, svc |-> "mine"]
    BY ZenonT(60)
  <2>2. /\ MetaChange(d.id, m, "POST") /\ meta[d.id] # Deleted /\ d.id \in Ids
        /\ m.svc \in {"mine", "other"}
    BY ZenonT(60), <1>2, <2>1, DevmapAssumption, DeletedIs DEF MetaAdd, DeviceRec
  <2> QED
    BY ZenonT(60), <2>2, MetaFollows
<1>3. ASSUME NEW d \in Fetched, NEW s \in {"mine", "other"}, MetaUpdate(d, s) PROVE CInv'
  <2>1. PICK m : m = [rec |-> d, svc |-> s]
    BY ZenonT(60)
  <2>2. /\ MetaChange(d.id, m, "PUT") /\ meta[d.id] # Deleted /\ d.id \in Ids
        /\ m.svc \in {"mine", "other"}
    BY ZenonT(60), <1>3, <2>1, DevmapAssumption, DeletedIs DEF MetaUpdate, DeviceRec
  <2> QED
    BY ZenonT(60), <2>2, MetaFollows
<1>4. ASSUME NEW i \in Ids, MetaDelete(i) PROVE CInv'
  <2>1. MetaChange(i, Deleted, "DELETE") /\ meta[i] # Deleted
    BY ZenonT(60), <1>4, DeletedIs DEF MetaDelete, Mine, Present
  <2> QED
    BY ZenonT(60), <2>1, MetaFollows
<1>5. CASE Populate
  BY ZenonT(60), <1>5, PopulateFollows
<1>6. CASE Serve
  <2>1. UNCHANGED <<meta, calls, cb, todo>> /\ serving' /\ UNCHANGED vars
    BY ZenonT(60), <1>6 DEF Serve, vars
  <2> QED
    BY ZenonT(60), <2>1, SameSeen, QuietFollows
<1>7. ASSUME NEW h \in Handlers, NEW k \in ProfIds, ForgetProfile(h, k) PROVE CInv'
  <2>1. UNCHANGED <<meta, calls, cb, todo>> /\ serving' /\ RemoveProfile(k)
    BY ZenonT(60), <1>7 DEF ForgetProfile, syncvars, RemoveProfile
  <2>2. h \in Threads
    BY ZenonT(60), SyncAssumption
  <2>3. ASSUME NEW i \in Ids PROVE Seen(i)' = Seen(i)
    BY ZenonT(60), <2>1, <2>2, QuietSeen
  <2> QED
    BY ZenonT(60), <2>1, <2>3, QuietFollows
<1>8. ASSUME NEW h \in Handlers, HandlerStep(h) PROVE CInv'
  BY ZenonT(60), <1>8, HandlerFollows
<1>9. ASSUME NEW h \in Handlers, NEW j \in DOMAIN calls, Begin(h, j) PROVE CInv'
  BY ZenonT(60), <1>9, BeginFollows
<1> QED
  BY ZenonT(60), <1>1, <1>2, <1>3, <1>4, <1>5, <1>6, <1>7, <1>8, <1>9
     DEF SyncNext, Handle, HandlerStep

\* What the map shows decides whether it agrees with core-metadata.
LEMMA SeenAgrees ==
  ASSUME NEW i \in Ids, Seen(i) = Wanted(i)
  PROVE  Agrees(i)
<1>1. CASE ~Mine(i)
  BY ZenonT(60), <1>1 DEF Wanted, Seen, ShownBy, Agrees
<1>2. CASE Mine(i)
  <2> DEFINE o == dev[devices[i]]
             d == meta[i].rec
  <2>1. Seen(i) = {Contents(d)}
    BY ZenonT(60), <1>2 DEF Wanted
  <2>2. devices[i] # NULL
    BY Zenon, <2>1, NotMapped
  <2>3. Seen(i) = {<<o.name, o.prot, o.admin, o.op, o.autos, prof[o.prof].name>>}
    BY ZenonT(60), <2>2 DEF Seen, ShownBy
  <2>4. <<o.name, o.prot, o.admin, o.op, o.autos, prof[o.prof].name>> =
          <<d.name, d.prot, d.admin, d.op, d.autos, d.pname>>
    BY ZenonT(60), <2>1, <2>3 DEF Contents
  <2>5. /\ o.name = d.name /\ o.prot = d.prot /\ o.admin = d.admin
        /\ o.op = d.op /\ o.autos = d.autos /\ prof[o.prof].name = d.pname
    BY ZenonT(60), <2>4
  <2>6. Told(o) = Told(d)
    BY ZenonT(60), <2>5 DEF Told
  <2> HIDE DEF d
  <2> QED
    BY Zenon, <1>2, <2>2, <2>5, <2>6 DEF Agrees, d
<1> QED
  BY ZenonT(60), <1>1, <1>2

\* What the world is like and whether the driver listens never changes.
LEMMA WorldFixed ==
  ASSUME [SyncNext]_allvars
  PROVE  world' = world /\ registered' = registered
<1>1. ASSUME NEW h \in Handlers, HandlerStep(h)
      PROVE  world' = world /\ registered' = registered
  BY ZenonT(60), <1>1, MapFrame
<1>2. ASSUME NEW i, NEW m, NEW method, MetaChange(i, m, method)
      PROVE  world' = world /\ registered' = registered
  BY ZenonT(60), <1>2 DEF MetaChange
<1> QED
  BY ZenonT(60), <1>1, <1>2 DEF SyncNext, Handle, HandlerStep, MetaAdd, MetaUpdate, MetaDelete,
     Begin, Populate, Serve, ForgetProfile, syncvars, allvars

\* In a calm world the invariant holds always.
LEMMA CalmAlways == SyncSpec => [](Calm => CInv)
<1>1. SyncInit => (Calm => CInv)
  BY ZenonT(60), CInvInit
<1>2. /\ IInv /\ STyped /\ (IInv /\ STyped)' /\ (Calm => CInv) /\ [SyncNext]_allvars
      => (Calm => CInv)'
  <2> SUFFICES ASSUME IInv, STyped, IInv', Calm => CInv, [SyncNext]_allvars, Calm'
               PROVE  CInv'
    BY ZenonT(60)
  <2>1. Calm
    BY ZenonT(60), WorldFixed DEF Calm
  <2> QED
    BY ZenonT(60), <2>1, CInvNext
<1> QED
  BY <1>1, <1>2, SyncAlways, PTL DEF SyncSpec

\* Whenever every callback that was sent has been handled, one at a time but
\* in any order, the devices in the map are those that core-metadata has for
\* the service, with the same contents.
THEOREM MapConverges == SyncSpec => []Converged
<1>1. STyped /\ (Calm => CInv) => Converged
  <2> SUFFICES ASSUME STyped, CInv, Settled, NEW i \in Ids PROVE Agrees(i)
    BY ZenonT(60) DEF Converged
  <2>1. ~Due(i) /\ ~Listed(i) /\ \A h \in Handlers : ~Mends(cb[h], i)
    BY SMTT(60) DEF Settled, STyped, Due, Listed, Mends
  <2>2. Seen(i) = Wanted(i)
    BY ZenonT(60), <2>1 DEF CInv, Follows
  <2> QED
    BY ZenonT(60), <2>2, SeenAgrees
<1> QED
  BY <1>1, SyncAlways, CalmAlways, PTL

-----------------------------------------------------------------------------
(* The driver is informed.                                                 *)

\* A device with the id i may have the name n.
Named(i, n) == \E d \in Fetched : d.id = i /\ d.name = n

\* The driver knows what the map shows, S, of the device i.
Knows(S, i, drv) ==
  \A c \in S : OwnName(c[1], i) => drv[c[1]] = [prot |-> c[2], admin |-> c[3]]

\* The map shows only names that the device i may have.
NamesOf(S, i) == \A c \in S : Named(i, c[1])

Informed(i) == Knows(Seen(i), i, driver)

\* A handler in the state c that holds the devices H: the map shows what it is
\* about to tell, and the device it holds, if any, is the one it removes.
Telling(c, H) ==
  /\ c.pc = "tell" => Seen(c.id) = {Contents(c.rec)}
  /\ c.pc \in {"tellmoved", "tellgone"} => Seen(c.id) = {}
  /\ \/ H = {}
     \/ /\ c.pc \in {"remove", "tellgone"}
        /\ \E o \in Objs : H = {o} /\ Named(c.id, dev[o].name)

\* The inductive invariant of a calm world with a driver that wants to know.
DInv ==
  /\ DOMAIN driver = Names
  /\ \A i \in Ids : NamesOf(Seen(i), i)
  /\ \A h \in Handlers : Telling(cb[h], held[h])
  /\ \A i \in Ids : Informed(i) \/ \E h \in Handlers : cb[h].pc = "tell" /\ cb[h].id = i

\* An idle handler has no references, and that is all that is said of it.
LEMMA IdleTelling ==
  \A c, H : c = Idle => /\ Telling(c, H) <=> H = {}
                       /\ Telling(c, H)' <=> H = {}
BY SMT DEF Telling, Idle

LEMMA IdleHolds == \A h : cb[h] = Idle /\ Telling(cb[h], held[h]) => held[h] = {}
BY SMT DEF Telling, Idle

\* What it means to know the device d.
LEMMA KnowsContents ==
  ASSUME NEW d \in Fetched, NEW drv
  PROVE  /\ NamesOf({Contents(d)}, d.id)
         /\ Knows({Contents(d)}, d.id, drv) <=>
              (OwnName(d.name, d.id) => drv[d.name] = Told(d))
<1>1. PICK c : c = Contents(d)
  BY ZenonT(60)
<1>2. c[1] = d.name /\ c[2] = d.prot /\ c[3] = d.admin
  BY ZenonT(60), <1>1 DEF Contents
<1> QED
  BY ZenonT(60), <1>1, <1>2 DEF NamesOf, Named, Knows, Told

\* There is nothing to know of a device that is not in the map.
LEMMA KnowsNothing ==
  ASSUME NEW i, NEW drv
  PROVE  NamesOf({}, i) /\ Knows({}, i, drv)
BY ZenonT(60) DEF NamesOf, Knows

\* What the driver is told of the device k is no news of another device.
LEMMA StillKnows ==
  ASSUME NEW S, NEW i \in Ids, NEW k \in Ids \ {i}, NEW n, NEW x, NEW drv, NEW drv2,
         DOMAIN drv = Names, NamesOf(S, i), Named(k, n),
         Knows(S, i, drv), drv2 = [drv EXCEPT ![n] = x]
  PROVE  Knows(S, i, drv2)
<1> SUFFICES ASSUME NEW c \in S, OwnName(c[1], i)
             PROVE  drv2[c[1]] = [prot |-> c[2], admin |-> c[3]]
  BY ZenonT(60) DEF Knows
<1>1. c[1] \in Names
  BY ZenonT(60), DevmapAssumption DEF NamesOf, Named, DeviceRec
<1>2. c[1] # n
  BY ZenonT(60) DEF OwnName, Named
<1>3. drv2[c[1]] = drv[c[1]]
  BY ZenonT(60), <1>1, <1>2
<1> QED
  BY ZenonT(60), <1>3 DEF Knows

\* When the service starts the map is empty.
LEMMA DInvInit ==
  ASSUME SyncInit
  PROVE  DInv
<1>1. \A i \in Ids : Seen(i) = {}
  BY ZenonT(60), NotMapped DEF SyncInit, Init
<1>2. \A h \in Handlers : cb[h] = Idle /\ held[h] = {}
  BY ZenonT(60), SyncAssumption DEF SyncInit, Init
<1>3. DOMAIN driver = Names
  BY ZenonT(60) DEF SyncInit
<1>4. \A h \in Handlers : Telling(cb[h], held[h])
  BY ZenonT(60), <1>2, IdleTelling
<1> QED
  BY ZenonT(60), <1>1, <1>3, <1>4, KnowsNothing DEF DInv, Informed

\* Steps that leave the map, the handlers and the driver alone.
LEMMA QuietKnows ==
  ASSUME DInv, UNCHANGED <<cb, driver>>, \A h \in Handlers : held'[h] = held[h],
         \A h \in Handlers : \A o \in held[h] : dev'[o].name = dev[o].name,
         \A i \in Ids : Seen(i)' = Seen(i), STyped
  PROVE  DInv'
<1>1. ASSUME NEW h \in Handlers PROVE Telling(cb[h], held[h])'
  <2>1. PICK c : c = cb[h]
    BY ZenonT(60)
  <2>2. PICK H : H = held[h]
    BY ZenonT(60)
  <2>3. Telling(c, H) /\ CbOK(c)
    BY ZenonT(60), <2>1, <2>2 DEF DInv, STyped
  <2>4. c.pc \in {"tell", "tellmoved", "tellgone"} => Seen(c.id)' = Seen(c.id)
    BY ZenonT(60), <2>3, CbParts
  <2>5. Telling(c, H)'
    BY ZenonT(60), <2>2, <2>3, <2>4 DEF Telling
  <2> QED
    BY ZenonT(60), <2>1, <2>2, <2>5 DEF Telling
<1>2. \A i \in Ids : NamesOf(Seen(i)', i)
  BY ZenonT(60) DEF DInv
<1>3. ASSUME NEW i \in Ids
      PROVE  Informed(i)' \/ \E h \in Handlers : cb'[h].pc = "tell" /\ cb'[h].id = i
  BY ZenonT(60) DEF DInv, Informed
<1>4. DOMAIN driver' = Names
  BY ZenonT(60) DEF DInv
<1> QED
  BY ZenonT(60), <1>1, <1>2, <1>3, <1>4 DEF DInv

\* A step of the one active handler, which is about the device k.
LEMMA HandlerTells ==
  ASSUME STyped, CInv, DInv, NEW h \in Handlers, cb[h] # Idle,
         NEW k \in Ids, k = cb[h].id,
         NEW c, cb' = [cb EXCEPT ![h] = c],
         \A g \in Handlers : g # h => held'[g] = held[g],
         \A i \in Ids : i # k => Seen(i)' = Seen(i),
         \/ driver' = driver
         \/ \E n, x : Named(k, n) /\ driver' = [driver EXCEPT ![n] = x],
         NamesOf(Seen(k)', k),
         Informed(k)' \/ (c.pc = "tell" /\ c.id = k),
         Telling(c, held[h])'
  PROVE  DInv'
<1>1. DOMAIN cb = Handlers /\ cb'[h] = c /\ \A g \in Handlers \ {h} : cb'[g] = cb[g]
  BY ZenonT(60) DEF STyped
<1>2. \A g \in Handlers \ {h} : cb[g] = Idle /\ cb'[g] = Idle /\ held'[g] = {}
  <2>1. ASSUME NEW g \in Handlers \ {h} PROVE cb[g] = Idle /\ cb'[g] = Idle
    BY ZenonT(60), <1>1 DEF CInv
  <2>2. ASSUME NEW g \in Handlers \ {h} PROVE held[g] = {}
    <3>1. Telling(cb[g], held[g])
      BY ZenonT(60) DEF DInv
    <3> QED
      BY ZenonT(60), <2>1, <3>1, IdleHolds
  <2> QED
    BY ZenonT(60), <2>1, <2>2
<1>3. DOMAIN driver' = Names
  BY ZenonT(60) DEF DInv
<1>4. ASSUME NEW i \in Ids PROVE NamesOf(Seen(i)', i)
  BY ZenonT(60) DEF DInv
<1>5. ASSUME NEW i \in Ids
      PROVE  Informed(i)' \/ \E g \in Handlers : cb'[g].pc = "tell" /\ cb'[g].id = i
  <2>1. CASE i = k
    BY ZenonT(60), <2>1, <1>1
  <2>2. CASE i # k
    <3>1. ASSUME NEW g \in Handlers, cb[g].pc = "tell", cb[g].id = i PROVE FALSE
      <4>1. g = h
        BY ZenonT(60), <1>2, <3>1, IdleIs
      <4> QED
        BY ZenonT(60), <4>1, <3>1, <2>2
    <3>2. Knows(Seen(i), i, driver) /\ NamesOf(Seen(i), i) /\ DOMAIN driver = Names
      BY ZenonT(60), <3>1 DEF DInv, Informed
    <3>3. Knows(Seen(i), i, driver')
      <4>1. CASE driver' = driver
        BY ZenonT(60), <3>2, <4>1
      <4>2. CASE \E n, x : Named(k, n) /\ driver' = [driver EXCEPT ![n] = x]
        <5>1. PICK n, x : Named(k, n) /\ driver' = [driver EXCEPT ![n] = x]
          BY ZenonT(60), <4>2
        <5> QED
          BY ZenonT(60), <2>2, <3>2, <5>1, StillKnows
      <4> QED
        BY ZenonT(60), <4>1, <4>2
    <3> QED
      BY ZenonT(60), <2>2, <3>3 DEF Informed
  <2> QED
    BY ZenonT(60), <2>1, <2>2
<1>6. ASSUME NEW g \in Handlers PROVE Telling(cb[g], held[g])'
  <2>1. CASE g = h
    BY ZenonT(60), <2>1, <1>1 DEF Telling
  <2>2. CASE g # h
    BY ZenonT(60), <2>2, <1>2, IdleTelling
  <2> QED
    BY ZenonT(60), <2>1, <2>2
<1> QED
  BY ZenonT(60), <1>3, <1>4, <1>5, <1>6 DEF DInv

\* Before it tells, a handler has what the driver was told before.
LEMMA BeforeTelling ==
  ASSUME CInv, DInv, NEW h \in Handlers, cb[h] # Idle, cb[h].pc # "tell"
  PROVE  \A i \in Ids : Informed(i)
<1>1. ASSUME NEW g \in Handlers PROVE cb[g].pc # "tell"
  <2>1. CASE g = h
    BY ZenonT(60), <2>1
  <2>2. CASE g # h
    <3>1. cb[g] = Idle
      BY ZenonT(60), <2>2 DEF CInv
    <3> QED
      BY ZenonT(60), <3>1, IdleIs
  <2> QED
    BY ZenonT(60), <2>1, <2>2
<1> QED
  BY Zenon, <1>1 DEF DInv

\* Only DELETE takes and gives back references.
LEMMA HandlerHolds ==
  ASSUME NEW h \in Handlers, HandlerStep(h)
  PROVE  /\ Fetch(h) \/ Replace(h) \/ Moved(h) \/ Tell(h) \/ Remove(h) => held' = held
         /\ Fetch(h) \/ Replace(h) \/ Moved(h) \/ Delete(h) \/ Remove(h) => driver' = driver
<1>1. ASSUME NEW i, RemoveDeviceById(i) PROVE held' = held
  BY ZenonT(60), <1>1 DEF RemoveDeviceById
<1>2. ASSUME NEW d, ReplaceDevice(d) PROVE held' = held
  BY ZenonT(60), <1>2 DEF ReplaceDevice, ReplaceCreate, ReplaceInPlace, ReplaceSwap
<1>3. Fetch(h) \/ Replace(h) \/ Moved(h) \/ Tell(h) \/ Remove(h) => held' = held
  BY ZenonT(60), <1>1, <1>2 DEF Fetch, Replace, Moved, Tell, Remove, vars
<1>4. Fetch(h) \/ Replace(h) \/ Moved(h) \/ Delete(h) \/ Remove(h) => driver' = driver
  BY ZenonT(60) DEF Fetch, Replace, Moved, Delete, Remove
<1> QED
  BY ZenonT(60), <1>3, <1>4

\* An update that only the SDK sees leaves the driver's knowledge right.
LEMMA QuietUpdate ==
  ASSUME NEW d \in Fetched, Outcome(d) = "UPDATED_SDK", Informed(d.id)
  PROVE  Knows({Contents(d)}, d.id, driver)
<1> DEFINE o == dev[devices[d.id]]
<1>1. devices[d.id] # NULL /\ o.prot = d.prot /\ o.name = d.name /\ o.admin = d.admin
  BY ZenonT(60) DEF Outcome
<1>2. PICK c : c = <<o.name, o.prot, o.admin, o.op, o.autos, prof[o.prof].name>>
  BY ZenonT(60)
<1>3. Seen(d.id) = {c}
  BY Zenon, <1>1, <1>2 DEF Seen, ShownBy
<1>4. c[1] = o.name /\ c[2] = o.prot /\ c[3] = o.admin
  BY ZenonT(60), <1>2
<1>5. c[1] = d.name /\ c[2] = d.prot /\ c[3] = d.admin
  BY ZenonT(60), <1>1, <1>4
<1>6. OwnName(c[1], d.id) => driver[c[1]] = [prot |-> c[2], admin |-> c[3]]
  BY ZenonT(60), <1>3 DEF Informed, Knows
<1>7. OwnName(d.name, d.id) => driver[d.name] = Told(d)
  BY ZenonT(60), <1>5, <1>6 DEF Told
<1> QED
  BY ZenonT(60), <1>7, KnowsContents

\* Handlers keep the driver informed.
LEMMA HandlerInforms ==
  ASSUME IInv, IInv', [Next]_vars, STyped, CInv, DInv, registered,
         NEW h \in Handlers, HandlerStep(h)
  PROVE  DInv'
<1>1. PICK k : k = cb[h].id
  BY ZenonT(60)
<1>2. /\ k \in Ids /\ cb[h] # Idle
      /\ \A i \in Ids : i # k => Seen(i)' = Seen(i)
      /\ Fetch(h) \/ Tell(h) \/ Delete(h) \/ Gone(h) => Seen(k)' = Seen(k)
      /\ Replace(h) => Seen(k)' = {Contents(cb[h].rec)}
      /\ Moved(h) \/ DeleteSilently(h) \/ Remove(h) => Seen(k)' = {}
  BY ZenonT(60), <1>1, HandlerShows
<1>3. ASSUME NEW c, cb' = [cb EXCEPT ![h] = c],
             \A g \in Handlers : g # h => held'[g] = held[g],
             \/ driver' = driver
             \/ \E n, x : Named(k, n) /\ driver' = [driver EXCEPT ![n] = x],
             NamesOf(Seen(k)', k),
             Informed(k)' \/ (c.pc = "tell" /\ c.id = k),
             Telling(c, held[h])'
      PROVE  DInv'
  BY ZenonT(60), <1>1, <1>2, <1>3, HandlerTells
<1>4. /\ CbOK(cb[h]) /\ Telling(cb[h], held[h]) /\ h \in Threads
      /\ NamesOf(Seen(k), k) /\ DOMAIN driver = Names
  BY ZenonT(60), <1>2, SyncAssumption DEF STyped, DInv
<1>5. cb[h].pc \notin {"remove", "tellgone"} => held[h] = {}
  BY ZenonT(60), <1>4 DEF Telling
<1>6. ASSUME NEW c, c.pc \notin {"tell", "tellmoved", "tellgone"}, held'[h] = {}
      PROVE  Telling(c, held[h])'
  BY ZenonT(60), <1>6 DEF Telling
<1>7. Idle.pc \notin {"tell", "tellmoved", "tellgone"}
  BY ZenonT(60) DEF Idle
<1>8. CASE Fetch(h)
  <2>1. held' = held /\ driver' = driver /\ Seen(k)' = Seen(k) /\ held'[h] = {}
    BY ZenonT(60), <1>2, <1>5, <1>8, HandlerHolds DEF Fetch
  <2>2. Informed(k)'
    <3>1. Informed(k)
      BY ZenonT(60), <1>2, <1>8, BeforeTelling DEF Fetch
    <3> QED
      BY ZenonT(60), <2>1, <3>1 DEF Informed
  <2>3. PICK c : cb' = [cb EXCEPT ![h] = c] /\ c.pc \notin {"tell", "tellmoved", "tellgone"}
    <3>1. CASE Goto(h, Idle)
      BY ZenonT(60), <1>7, <3>1 DEF Goto
    <3>2. CASE Present(k) /\ Goto(h, [pc |-> meta[k].svc, id |-> k, rec |-> meta[k].rec])
      <4>1. PICK c : c = [pc |-> meta[k].svc, id |-> k, rec |-> meta[k].rec]
        BY ZenonT(60)
      <4>2. c.pc \notin {"tell", "tellmoved", "tellgone"}
        BY ZenonT(60), <3>2, <4>1 DEF Present
      <4> QED
        BY Zenon, <3>2, <4>1, <4>2 DEF Goto
    <3> QED
      BY ZenonT(60), <1>1, <1>8, <3>1, <3>2 DEF Fetch
  <2>4. Telling(c, held[h])'
    BY ZenonT(60), <2>1, <2>3, <1>6
  <2>5. NamesOf(Seen(k)', k)
    BY ZenonT(60), <2>1, <1>4
  <2> QED
    BY ZenonT(60), <1>3, <2>1, <2>2, <2>3, <2>4, <2>5
<1>9. CASE Replace(h)
  <2>1. PICK d \in Fetched : d = cb[h].rec /\ d.id = k
    BY ZenonT(60), <1>1, <1>4, <1>9, CbParts DEF Replace
  <2>2. /\ held' = held /\ driver' = driver /\ Seen(k)' = {Contents(d)} /\ held'[h] = {}
    BY ZenonT(60), <1>2, <1>5, <1>9, <2>1, HandlerHolds DEF Replace
  <2>3. NamesOf(Seen(k)', k)
    BY ZenonT(60), <2>1, <2>2, KnowsContents
  <2>4. CASE Outcome(d) = "UPDATED_SDK" /\ Goto(h, Idle)
    <3>1. Informed(d.id)
      BY ZenonT(60), <1>2, <1>9, <2>1, BeforeTelling DEF Replace
    <3>2. Knows({Contents(d)}, k, driver)
      BY ZenonT(60), <3>1, <2>1, <2>4, QuietUpdate
    <3>3. Informed(k)'
      BY ZenonT(60), <3>2, <2>2 DEF Informed
    <3>4. Telling(Idle, held[h])'
      BY ZenonT(60), <2>2, <1>6, <1>7
    <3>5. cb' = [cb EXCEPT ![h] = Idle]
      BY ZenonT(60), <2>4 DEF Goto
    <3> QED
      BY ZenonT(60), <1>3, <2>2, <2>3, <3>3, <3>4, <3>5
  <2>5. CASE Goto(h, [cb[h] EXCEPT !.pc = "tell"])
    <3>1. PICK c : c = [pc |-> "tell", id |-> k, rec |-> d]
      BY ZenonT(60)
    <3>2. c = [cb[h] EXCEPT !.pc = "tell"]
      BY <3>1, <2>1, <1>1, <1>4, <1>9, CbParts DEF Replace
    <3>3. c.pc = "tell" /\ c.id = k /\ c.rec = d
      BY ZenonT(60), <3>1
    <3>4. Telling(c, held[h])'
      BY ZenonT(60), <2>2, <3>3 DEF Telling
    <3>5. cb' = [cb EXCEPT ![h] = c]
      BY ZenonT(60), <3>2, <2>5 DEF Goto
    <3> QED
      BY ZenonT(60), <1>3, <2>2, <2>3, <3>3, <3>4, <3>5
  <2> QED
    BY ZenonT(60), <1>9, <2>1, <2>4, <2>5 DEF Replace
<1>10. CASE Moved(h) \/ Remove(h)
  <2>1. held' = held /\ driver' = driver /\ Seen(k)' = {}
    BY ZenonT(60), <1>2, <1>10, HandlerHolds
  <2>2. NamesOf(Seen(k)', k) /\ Informed(k)'
    BY ZenonT(60), <2>1, KnowsNothing DEF Informed
  <2>3. CASE Moved(h)
    <3>1. PICK c : c = [cb[h] EXCEPT !.pc = "tellmoved"]
      BY ZenonT(60)
    <3>2. c.pc = "tellmoved" /\ c.id = k
      BY ZenonT(60), <3>1, <2>3, <1>1, <1>4, CbNext DEF Moved
    <3>3. held'[h] = {}
      BY ZenonT(60), <2>1, <2>3, <1>5 DEF Moved
    <3>4. Telling(c, held[h])'
      BY ZenonT(60), <2>1, <3>2, <3>3 DEF Telling
    <3>5. cb' = [cb EXCEPT ![h] = c]
      BY ZenonT(60), <2>3, <3>1 DEF Moved, Goto
    <3> QED
      BY ZenonT(60), <1>3, <2>1, <2>2, <3>4, <3>5
  <2>4. CASE Remove(h)
    <3>1. PICK c : c = [cb[h] EXCEPT !.pc = "tellgone"]
      BY ZenonT(60)
    <3>2. c.pc = "tellgone" /\ c.id = k
      BY ZenonT(60), <3>1, <2>4, <1>1, <1>4, CbNext DEF Remove
    <3>3. ASSUME NEW o \in Objs, held[h] = {o}, Named(k, dev[o].name)
          PROVE  held'[h] = {o} /\ Named(k, dev'[o].name)
      <4>1. o \in held[h] \cap held'[h]
        BY ZenonT(60), <2>1, <3>3
      <4>2. SameDevice(dev'[o], dev[o])
        BY ZenonT(60), <4>1, <1>4, NextHeldSame DEF HeldSame
      <4>3. dev'[o].name = dev[o].name
        BY ZenonT(60), <4>2 DEF SameDevice
      <4> QED
        BY Zenon, <2>1, <3>3, <4>3
    <3>4. held'[h] = {} \/ \E o \in Objs : held'[h] = {o} /\ Named(k, dev'[o].name)
      <4>1. held[h] = {} \/ \E o \in Objs : held[h] = {o} /\ Named(k, dev[o].name)
        BY ZenonT(60), <1>1, <1>4 DEF Telling
      <4> QED
        BY ZenonT(60), <4>1, <3>3, <2>1
    <3>5. Telling(c, held[h])'
      BY ZenonT(60), <2>1, <3>2, <3>4 DEF Telling
    <3>6. cb' = [cb EXCEPT ![h] = c]
      BY ZenonT(60), <2>4, <3>1 DEF Remove, Goto
    <3> QED
      BY Zenon, <1>3, <2>1, <2>2, <3>5, <3>6
  <2> QED
    BY ZenonT(60), <1>10, <2>3, <2>4
<1>11. CASE Tell(h)
  <2>1. PICK d \in Fetched : d = cb[h].rec /\ d.id = k
    BY ZenonT(60), <1>1, <1>4, <1>11, CbParts DEF Tell
  <2>2. PICK x : /\ driver' = [driver EXCEPT ![d.name] = x]
                 /\ cb[h].pc = "tell" => x = Told(d)
    BY ZenonT(60), <1>11, <2>1 DEF Tell
  <2>3. held' = held /\ Seen(k)' = Seen(k) /\ held'[h] = {} /\ d.name \in Names
    BY ZenonT(60), <1>2, <1>5, <1>11, HandlerHolds, DevmapAssumption DEF Tell, DeviceRec
  <2>4. Named(k, d.name)
    BY ZenonT(60), <2>1 DEF Named
  <2>5. Informed(k)'
    <3>1. CASE cb[h].pc = "tell"
      <4>1. Seen(k) = {Contents(d)}
        BY ZenonT(60), <3>1, <1>1, <1>4, <2>1 DEF Telling
      <4>2. driver'[d.name] = Told(d)
        BY ZenonT(60), <2>2, <2>3, <3>1, <1>4
      <4>3. Knows({Contents(d)}, k, driver')
        BY ZenonT(60), <4>2, <2>1, KnowsContents
      <4> QED
        BY ZenonT(60), <4>1, <4>3, <2>3 DEF Informed
    <3>2. CASE cb[h].pc = "tellmoved"
      <4>1. Seen(k) = {}
        BY ZenonT(60), <3>2, <1>1, <1>4 DEF Telling
      <4> QED
        BY ZenonT(60), <4>1, <2>3, KnowsNothing DEF Informed
    <3> QED
      BY ZenonT(60), <3>1, <3>2, <1>11 DEF Tell
  <2>6. Telling(Idle, held[h])'
    BY ZenonT(60), <2>3, <1>6, <1>7
  <2>7. cb' = [cb EXCEPT ![h] = Idle] /\ NamesOf(Seen(k)', k)
    BY ZenonT(60), <1>4, <1>11, <2>3 DEF Tell, Goto
  <2> QED
    BY ZenonT(60), <1>3, <2>2, <2>3, <2>4, <2>5, <2>6, <2>7
<1>12. CASE Delete(h)
  <2>1. driver' = driver /\ Seen(k)' = Seen(k) /\ held[h] = {} /\ cb[h].pc = "DELETE"
    BY ZenonT(60), <1>2, <1>5, <1>12, HandlerHolds DEF Delete
  <2>2. NamesOf(Seen(k)', k) /\ Informed(k)'
    <3>1. Informed(k)
      BY ZenonT(60), <1>2, <2>1, BeforeTelling
    <3> QED
      BY ZenonT(60), <3>1, <2>1, <1>4 DEF Informed
  <2>3. CASE Goto(h, Idle) /\ UNCHANGED vars
    <3>1. held' = held /\ held'[h] = {}
      BY ZenonT(60), <2>1, <2>3 DEF vars
    <3>2. Telling(Idle, held[h])'
      BY ZenonT(60), <3>1, <1>6, <1>7
    <3>3. cb' = [cb EXCEPT ![h] = Idle]
      BY ZenonT(60), <2>3 DEF Goto
    <3> QED
      BY ZenonT(60), <1>3, <2>1, <2>2, <3>1, <3>2, <3>3
  <2>4. CASE DeviceById(h, k) /\ Goto(h, [cb[h] EXCEPT !.pc = "remove"])
    <3>1. PICK c : c = [cb[h] EXCEPT !.pc = "remove"]
      BY ZenonT(60)
    <3>2. c.pc = "remove" /\ c.id = k
      BY ZenonT(60), <3>1, <2>1, <1>1, <1>4, CbNext
    <3>3. PICK o \in Objs : o = devices[k] /\ o # NULL /\ devices[k] # NULL
      BY ZenonT(60), <2>4, <1>2, MappedCells DEF DeviceById
    <3>4. held' = [held EXCEPT ![h] = {o}] /\ dev'[o] = [dev[o] EXCEPT !.refs = @ + 1]
      BY ZenonT(60), <2>4, <3>3 DEF DeviceById, Take
    <3>5. dev'[o].name = dev[o].name
      <4>1. dev[o] \in DeviceObj
        BY ZenonT(60), <3>3, <1>2, MappedCells
      <4> QED
        BY ZenonT(60), <3>4, <4>1 DEF DeviceObj
    <3>6. Named(k, dev[o].name)
      <4>1. PICK x : x = <<dev[o].name, dev[o].prot, dev[o].admin, dev[o].op, dev[o].autos,
                           prof[dev[o].prof].name>>
        BY ZenonT(60)
      <4>2. Seen(k) = {x}
        BY Zenon, <3>3, <4>1 DEF Seen, ShownBy
      <4>3. x[1] = dev[o].name
        BY ZenonT(60), <4>1
      <4> QED
        BY ZenonT(60), <4>2, <4>3, <1>4 DEF NamesOf
    <3>7. held'[h] = {o} /\ \A g \in Handlers : g # h => held'[g] = held[g]
      BY ZenonT(60), <3>4, <1>4, SyncAssumption DEF IInv, MapOK
    <3>8. Telling(c, held[h])'
      BY ZenonT(60), <3>2, <3>5, <3>6, <3>7 DEF Telling
    <3>9. cb' = [cb EXCEPT ![h] = c]
      BY ZenonT(60), <2>4, <3>1 DEF Goto
    <3> QED
      BY ZenonT(60), <1>3, <2>1, <2>2, <3>7, <3>8, <3>9
  <2> QED
    BY ZenonT(60), <1>1, <1>12, <2>3, <2>4 DEF Delete
<1>13. CASE Gone(h)
  <2>1. PICK o \in held[h] : driver' = [driver EXCEPT ![dev[o].name] = NULL] /\ Release(h, o)
    BY ZenonT(60), <1>13 DEF Gone
  <2>2. held[h] = {o} /\ Named(k, dev[o].name) /\ Seen(k) = {}
    BY ZenonT(60), <2>1, <1>1, <1>4, <1>13 DEF Telling, Gone
  <2>3. held'[h] = {} /\ \A g \in Handlers : g # h => held'[g] = held[g]
    BY ZenonT(60), <2>1, <2>2, <1>4, SyncAssumption DEF Release, IInv, MapOK
  <2>4. Seen(k)' = {}
    BY Zenon, <2>2, <1>2, <1>13
  <2>5. NamesOf(Seen(k)', k) /\ Informed(k)'
    BY Zenon, <2>4, KnowsNothing DEF Informed
  <2>6. Telling(Idle, held[h])'
    BY ZenonT(60), <2>3, <1>6, <1>7
  <2>7. cb' = [cb EXCEPT ![h] = Idle]
    BY ZenonT(60), <1>13 DEF Gone, Goto
  <2> QED
    BY ZenonT(60), <1>3, <2>1, <2>2, <2>3, <2>5, <2>6, <2>7
<1>14. ~DeleteSilently(h)
  BY ZenonT(60) DEF DeleteSilently
<1> QED
  BY ZenonT(60), <1>8, <1>9, <1>10, <1>11, <1>12, <1>13, <1>14 DEF HandlerStep

\* Every step of a calm system keeps the driver informed.
LEMMA DInvNext ==
  ASSUME IInv, IInv', STyped, CInv, DInv, Calm, registered, [SyncNext]_allvars
  PROVE  DInv'
<1>1. Handlers \subseteq Threads
  BY ZenonT(60), SyncAssumption
<1>2. ASSUME UNCHANGED <<vars, cb, driver>> PROVE DInv'
  <2>1. UNCHANGED <<cb, driver, held, dev>> /\ UNCHANGED vars
    BY ZenonT(60), <1>2 DEF vars
  <2>2. \A i \in Ids : Seen(i)' = Seen(i)
    BY ZenonT(60), <2>1, SameSeen
  <2> QED
    BY ZenonT(60), <2>1, <2>2, QuietKnows
<1>3. ASSUME NEW i, NEW m, NEW method, MetaChange(i, m, method) PROVE DInv'
  BY ZenonT(60), <1>2, <1>3 DEF MetaChange
<1>4. CASE Populate
  <2>1. /\ PopulateDevices /\ todo # <<>> /\ cb' = cb /\ driver' = driver /\ held' = held
        /\ ~serving /\ Starting
    BY ZenonT(60), <1>4 DEF Populate, PopulateDevices, STyped, CInv, syncvars
  <2>2. \A i \in Ids : Seen(i)' = IF i = todo[1].id THEN {Contents(todo[1])} ELSE Seen(i)
    BY ZenonT(60), <1>4, PopulateFollows
  <2>3. PICK d \in Fetched : d = todo[1] /\ 1 \in DOMAIN todo
    BY ZenonT(60), <2>1, TodoRest DEF IInv, TodoOK
  <2>4. driver[d.name] = Told(d)
    BY ZenonT(60), <2>1, <2>3 DEF Starting
  <2>5. ASSUME NEW h \in Handlers
        PROVE  cb[h] = Idle /\ held[h] = {} /\ Telling(cb[h], held[h])'
    <3>1. cb[h] = Idle /\ Telling(cb[h], held[h])
      BY ZenonT(60), <2>1 DEF Starting, DInv
    <3>2. held[h] = {}
      BY ZenonT(60), <3>1, IdleHolds
    <3> QED
      BY ZenonT(60), <2>1, <3>1, <3>2, IdleTelling
  <2>6. ASSUME NEW i \in Ids PROVE NamesOf(Seen(i)', i) /\ Informed(i)'
    <3>1. CASE i = d.id
      <4>1. Seen(i)' = {Contents(d)}
        BY Zenon, <2>2, <2>3, <3>1
      <4>2. NamesOf({Contents(d)}, i) /\ Knows({Contents(d)}, i, driver)
        BY ZenonT(60), <2>4, <3>1, KnowsContents
      <4> QED
        BY Zenon, <2>1, <4>1, <4>2 DEF Informed
    <3>2. CASE i # d.id
      <4>1. Seen(i)' = Seen(i)
        BY ZenonT(60), <2>2, <2>3, <3>2
      <4>2. \A h \in Handlers : cb[h].pc # "tell"
        BY ZenonT(60), <2>5, IdleIs
      <4>3. NamesOf(Seen(i), i) /\ Informed(i)
        BY ZenonT(60), <4>2 DEF DInv
      <4> QED
        BY ZenonT(60), <2>1, <4>1, <4>3 DEF Informed
    <3> QED
      BY ZenonT(60), <3>1, <3>2
  <2>7. DOMAIN driver' = Names
    BY ZenonT(60), <2>1 DEF DInv
  <2> QED
    BY ZenonT(60), <2>5, <2>6, <2>7 DEF DInv
<1>5. CASE Serve
  BY ZenonT(60), <1>2, <1>5 DEF Serve
<1>6. ASSUME NEW h \in Handlers, NEW k \in ProfIds, ForgetProfile(h, k) PROVE DInv'
  <2>1. RemoveProfile(k) /\ UNCHANGED <<cb, driver, held, dev>>
    BY ZenonT(60), <1>6 DEF ForgetProfile, RemoveProfile, syncvars
  <2>2. h \in Threads
    BY ZenonT(60), <1>1
  <2>3. ASSUME NEW i \in Ids PROVE Seen(i)' = Seen(i)
    BY ZenonT(60), <2>1, <2>2, QuietSeen
  <2> QED
    BY ZenonT(60), <2>1, <2>3, QuietKnows
<1>7. ASSUME NEW h \in Handlers, HandlerStep(h) PROVE DInv'
  <2>1. [Next]_vars
    BY ZenonT(60), StepRefines
  <2> QED
    BY ZenonT(60), <1>7, <2>1, HandlerInforms
<1>8. ASSUME NEW h \in Handlers, NEW j \in DOMAIN calls, Begin(h, j) PROVE DInv'
  <2>1. \A g \in Handlers : cb[g] = Idle
    BY ZenonT(60), <1>8 DEF Begin, Calm
  <2>2. PICK c : c = [pc |-> calls[j].method, id |-> calls[j].id]
    BY ZenonT(60)
  <2>3. /\ calls[j] \in Call /\ cb' = [cb EXCEPT ![h] = c]
        /\ UNCHANGED vars /\ held' = held /\ driver' = driver
    BY Zenon, <1>8, <2>2, BeginIs DEF vars
  <2>4. c.pc \in {"POST", "PUT", "DELETE"}
    BY ZenonT(60), <2>2, <2>3 DEF Call
  <2>5. ASSUME NEW g \in Handlers PROVE Telling(cb[g], held[g])'
    <3>1. held'[g] = {}
      <4>1. cb[g] = Idle /\ Telling(cb[g], held[g]) /\ held'[g] = held[g]
        BY ZenonT(60), <2>1, <2>3 DEF DInv
      <4> QED
        BY ZenonT(60), <4>1, IdleHolds
    <3>2. cb'[g] = c \/ cb'[g] = Idle
      BY ZenonT(60), <2>1, <2>3 DEF STyped
    <3>3. cb'[g].pc \notin {"tell", "tellmoved", "tellgone"}
      BY ZenonT(60), <2>4, <3>2, IdleIs
    <3> QED
      BY ZenonT(60), <3>1, <3>3 DEF Telling
  <2>6. ASSUME NEW i \in Ids PROVE NamesOf(Seen(i)', i) /\ Informed(i)'
    <3>1. Seen(i)' = Seen(i)
      BY ZenonT(60), <2>3, SameSeen
    <3>2. \A g \in Handlers : cb[g].pc # "tell"
      BY ZenonT(60), <2>1, IdleIs
    <3>3. NamesOf(Seen(i), i) /\ Informed(i)
      BY ZenonT(60), <3>2 DEF DInv
    <3> QED
      BY Zenon, <2>3, <3>1, <3>3 DEF Informed
  <2>7. DOMAIN driver' = Names
    BY ZenonT(60), <2>3 DEF DInv
  <2> QED
    BY ZenonT(60), <2>5, <2>6, <2>7 DEF DInv
<1>9. CASE UNCHANGED allvars
  BY ZenonT(60), <1>2, <1>9 DEF allvars, syncvars
<1> QED
  BY ZenonT(60), <1>3, <1>4, <1>5, <1>6, <1>7, <1>8, <1>9
     DEF SyncNext, Handle, HandlerStep, MetaAdd, MetaUpdate, MetaDelete

\* What the invariant says when everything is settled.
LEMMA SettledInformed ==
  ASSUME DInv, Settled
  PROVE  \A i \in Ids : devices[i] # NULL =>
           LET o == dev[devices[i]] IN
           OwnName(o.name, i) => driver[o.name] = Told(o)
<1> SUFFICES ASSUME NEW i \in Ids, devices[i] # NULL,
                    OwnName(dev[devices[i]].name, i)
             PROVE  driver[dev[devices[i]].name] = Told(dev[devices[i]])
  BY ZenonT(60)
<1>1. PICK o : o = dev[devices[i]]
  BY ZenonT(60)
<1>2. PICK c : c = <<o.name, o.prot, o.admin, o.op, o.autos, prof[o.prof].name>>
  BY ZenonT(60)
<1>3. Seen(i) = {c}
  BY Zenon, <1>1, <1>2 DEF Seen, ShownBy
<1>4. c[1] = o.name /\ c[2] = o.prot /\ c[3] = o.admin
  BY ZenonT(60), <1>2
<1>5. \A h \in Handlers : cb[h].pc # "tell"
  BY ZenonT(60), IdleIs DEF Settled
<1>6. Informed(i)
  BY ZenonT(60), <1>5 DEF DInv
<1>7. OwnName(c[1], i)
  BY ZenonT(60), <1>1, <1>4
<1>8. driver[c[1]] = [prot |-> c[2], admin |-> c[3]]
  BY ZenonT(60), <1>3, <1>6, <1>7 DEF Informed, Knows
<1> QED
  BY ZenonT(60), <1>1, <1>4, <1>8 DEF Told

\* By then the driver has also been told the address and administrative state
\* of every device in the map whose name no other device can have.
THEOREM KeepsDriverInformed == SyncSpec => []DriverInformed
<1> DEFINE D == Calm /\ registered => DInv
<1>1. SyncInit => D
  BY ZenonT(60), DInvInit
<1>2. /\ IInv /\ STyped /\ (IInv /\ STyped)' /\ (Calm => CInv) /\ D /\ [SyncNext]_allvars
      => D'
  <2> SUFFICES ASSUME IInv, STyped, IInv', Calm => CInv, Calm /\ registered => DInv,
                      [SyncNext]_allvars, Calm', registered'
               PROVE  DInv'
    BY ZenonT(60)
  <2>1. Calm /\ registered
    BY ZenonT(60), WorldFixed DEF Calm
  <2> QED
    BY ZenonT(60), <2>1, DInvNext
<1>3. D => DriverInformed
  <2> SUFFICES ASSUME DInv, Settled
               PROVE  \A i \in Ids : devices[i] # NULL =>
                        LET o == dev[devices[i]] IN
                        OwnName(o.name, i) => driver[o.name] = Told(o)
    BY Zenon DEF DriverInformed
  <2> QED
    BY Zenon, SettledInformed
<1> HIDE DEF D
<1> QED
  BY <1>1, <1>2, <1>3, SyncAlways, CalmAlways, PTL DEF SyncSpec
=============================================================================
