------------------------------- MODULE Devmap -------------------------------
(***************************************************************************)
(* The device registry of the C device SDK: the maps from device id to     *)
(* device, from device name to id and from profile name to profile, the    *)
(* reference counts of the devices, and the heap cells they live in.       *)
(*                                                                         *)
(* A device is a heap cell.  The map owns one reference to each device it  *)
(* holds; a thread that looked a device up owns another until it releases  *)
(* it.  Profiles are heap cells too, but they are not reference counted:   *)
(* the profile map owns them and devices share them.  A value of           *)
(* name_to_id is a pointer to the id string inside a device, so it is      *)
(* modelled as the cell that owns the string.                              *)
(*                                                                         *)
(* Every action that the code runs under the map's read/write lock is one  *)
(* step; releasing a reference is one atomic fetch-and-add.                *)
(***************************************************************************)
EXTENDS Integers, Sequences, FiniteSets

CONSTANTS Objs,       \* heap cells for devices
          ProfObjs,   \* heap cells for device profiles
          Ids,        \* device ids assigned by core-metadata
          Names,      \* device names
          Protocols,  \* device addresses
          ProfNames,  \* profile names
          ProfIds,    \* profile ids assigned by core-metadata
          Autos,      \* lists of autoevents, compared as a whole
          Fetched,    \* device records that core-metadata may return
          Threads,    \* threads that use devices: REST connections, the pool
          NULL

AdminStates == {"LOCKED", "UNLOCKED"}
OpStates == {"ENABLED", "DISABLED"}

\* A device as core-metadata reports it, its profile embedded.
DeviceRec == [id : Ids, name : Names, prot : Protocols, admin : AdminStates,
              op : OpStates, pname : ProfNames, pid : ProfIds, autos : Autos]

\* A device in the heap: the profile is a pointer.
DeviceObj == [id : Ids, name : Names, prot : Protocols, admin : AdminStates,
              op : OpStates, prof : ProfObjs, autos : Autos, refs : Nat]

ProfileObj == [name : ProfNames, pid : ProfIds]

ASSUME DevmapAssumption ==
  /\ Fetched \subseteq DeviceRec
  /\ IsFiniteSet(Threads)
  /\ NULL \notin DeviceObj /\ NULL \notin ProfileObj
  /\ NULL \notin Objs /\ NULL \notin ProfObjs

VARIABLES dev,         \* the device heap: NULL or a DeviceObj in every cell
          devices,     \* map->devices
          name_to_id,  \* map->name_to_id
          prof,        \* the profile heap
          profiles,    \* map->profiles
          held,        \* devices each thread has a reference to
          heldprof,    \* the unreferenced profile pointer each thread uses
          wanted,      \* the profile name each thread is fetching
          todo,        \* what is left of the list passed to populate_devices
          clearing     \* edgex_devmap_clear has begun

vars == <<dev, devices, name_to_id, prof, profiles, held, heldprof, wanted,
          todo, clearing>>

\* populate_devices is given all devices of this service in one listing, so
\* no two of them share an id or a name.
Listing == {s \in UNION {[1..n -> Fetched] : n \in 0..Cardinality(Ids)} :
              \A i, j \in DOMAIN s : i # j => /\ s[i].id # s[j].id
                                              /\ s[i].name # s[j].name}

Init ==
  /\ dev = [o \in Objs |-> NULL]
  /\ devices = [i \in Ids |-> NULL]
  /\ name_to_id = [n \in Names |-> NULL]
  /\ prof = [p \in ProfObjs |-> NULL]
  /\ profiles = [n \in ProfNames |-> NULL]
  /\ held = [t \in Threads |-> {}]
  /\ heldprof = [t \in Threads |-> NULL]
  /\ wanted = [t \in Threads |-> NULL]
  /\ todo \in Listing
  /\ clearing = FALSE

-----------------------------------------------------------------------------
(* Helpers on the heap and the maps.                                       *)

\* edgex_device_release: the last reference frees the cell.
Unref(heap, o) ==
  IF heap[o].refs = 1 THEN [heap EXCEPT ![o] = NULL]
                      ELSE [heap EXCEPT ![o].refs = @ - 1]

\* edgex_device_dup of a fetched device, attached to profile cell p.
NewDev(d, p) ==
  [id |-> d.id, name |-> d.name, prot |-> d.prot, admin |-> d.admin,
   op |-> d.op, prof |-> p, autos |-> d.autos, refs |-> 1]

\* A profile of that name is shared if the map has one, otherwise the copy
\* that came with the device is entered in the profile map.
AttachProfile(d, p) ==
  \/ /\ profiles[d.pname] # NULL
     /\ p = profiles[d.pname]
     /\ UNCHANGED <<prof, profiles>>
  \/ /\ profiles[d.pname] = NULL
     /\ prof[p] = NULL
     /\ prof' = [prof EXCEPT ![p] = [name |-> d.pname, pid |-> d.pid]]
     /\ profiles' = [profiles EXCEPT ![d.pname] = p]

\* Mutant: the name index points at the id string of the caller's record.
AddLockedForeignId(heap, byid, byname, d) ==
  \E o \in Objs, p \in ProfObjs :
    /\ heap[o] = NULL
    /\ AttachProfile(d, p)
    /\ dev' = [heap EXCEPT ![o] = NewDev(d, p)]
    /\ devices' = [byid EXCEPT ![d.id] = o]
    /\ name_to_id' = [byname EXCEPT ![d.name] = d.id]

\* add_locked, applied to a heap and to maps that remove_locked may already
\* have changed; o is the cell the allocator returns.
AddLocked(heap, byid, byname, d) ==
  \E o \in Objs, p \in ProfObjs :
    /\ heap[o] = NULL
    /\ AttachProfile(d, p)
    /\ dev' = [heap EXCEPT ![o] = NewDev(d, p)]
    /\ devices' = [byid EXCEPT ![d.id] = o]
    /\ name_to_id' = [byname EXCEPT ![d.name] = o]

\* Mutant: the name index is left alone.
RemoveLockedKeepName(o) ==
  /\ UNCHANGED name_to_id
  /\ devices' = [devices EXCEPT ![dev[o].id] = NULL]
  /\ dev' = Unref(dev, o)

\* Mutant: the map's reference is not released.
RemoveLockedLeak(o) ==
  /\ name_to_id' = [name_to_id EXCEPT ![dev[o].name] = NULL]
  /\ devices' = [devices EXCEPT ![dev[o].id] = NULL]
  /\ UNCHANGED dev

\* remove_locked on the cell o.
RemoveLocked(o) ==
  /\ name_to_id' = [name_to_id EXCEPT ![dev[o].name] = NULL]
  /\ devices' = [devices EXCEPT ![dev[o].id] = NULL]
  /\ dev' = Unref(dev, o)

\* The lock is free: populate_devices holds it for its whole loop, and
\* nothing changes the map from outside once the service is stopping.
Running == todo = <<>> /\ ~clearing

-----------------------------------------------------------------------------
(* edgex_devmap_populate_devices, one iteration of its loop at a time.     *)

PopulateDevices ==
  /\ todo # <<>>
  /\ todo' = Tail(todo)
  /\ IF name_to_id[Head(todo).name] = NULL
       THEN AddLocked(dev, devices, name_to_id, Head(todo))
       ELSE UNCHANGED <<dev, devices, name_to_id, prof, profiles>>
  /\ UNCHANGED <<held, heldprof, wanted, clearing>>

(* edgex_devmap_replace_device.                                            *)

\* The result of edgex_devmap_replace_device.
Outcome(d) ==
  IF devices[d.id] = NULL THEN "CREATED"
  ELSE LET dest == dev[devices[d.id]] IN
    IF dest.prot # d.prot \/ dest.name # d.name \/ dest.admin # d.admin
      THEN "UPDATED_DRIVER" ELSE "UPDATED_SDK"

\* update_in_place gets past the protocols and the name, and so assigns the
\* administrative state.
SameAddress(dest, d) == dest.prot = d.prot /\ dest.name = d.name

\* update_in_place succeeds.
InPlace(dest, d) ==
  /\ SameAddress(dest, d)
  /\ prof[dest.prof].name = d.pname
  /\ dest.autos = d.autos

\* The id is new.
ReplaceCreate(d) ==
  /\ Running
  /\ devices[d.id] = NULL
  /\ AddLocked(dev, devices, name_to_id, d)
  /\ UNCHANGED <<held, heldprof, wanted, todo, clearing>>

\* The device is known and can be updated where it is.
ReplaceInPlace(d) ==
  LET o == devices[d.id] IN
  /\ Running
  /\ o # NULL
  /\ InPlace(dev[o], d)
  /\ dev' = [dev EXCEPT ![o].admin = d.admin, ![o].op = d.op]
  /\ UNCHANGED <<devices, name_to_id, prof, profiles, held, heldprof, wanted,
                 todo, clearing>>

\* Mutant: the device is overwritten where it is, whatever changed.
ReplaceSwapOverwrite(d) ==
  LET o == devices[d.id] IN
  /\ Running
  /\ o # NULL
  /\ ~InPlace(dev[o], d)
  /\ dev' = [dev EXCEPT ![o].prot = d.prot, ![o].autos = d.autos]
  /\ UNCHANGED <<devices, name_to_id, prof, profiles, held, heldprof, wanted,
                 todo, clearing>>

\* update_in_place fails: the device is removed and a new one added.
ReplaceSwap(d) ==
  LET o == devices[d.id]
      admin == IF SameAddress(dev[o], d) THEN d.admin ELSE dev[o].admin
      heap == Unref([dev EXCEPT ![o].admin = admin], o)
  IN
  /\ Running
  /\ o # NULL
  /\ ~InPlace(dev[o], d)
  /\ AddLocked(heap, [devices EXCEPT ![d.id] = NULL],
               [name_to_id EXCEPT ![dev[o].name] = NULL], d)
  /\ UNCHANGED <<held, heldprof, wanted, todo, clearing>>

ReplaceDevice(d) == ReplaceCreate(d) \/ ReplaceInPlace(d) \/ ReplaceSwap(d)

(* Removal.                                                                *)

RemoveDeviceById(i) ==
  /\ Running
  /\ devices[i] # NULL
  /\ RemoveLocked(devices[i])
  /\ UNCHANGED <<prof, profiles, held, heldprof, wanted, todo, clearing>>

RemoveDeviceByName(n) ==
  /\ Running
  /\ name_to_id[n] # NULL
  /\ RemoveLocked(devices[dev[name_to_id[n]].id])
  /\ UNCHANGED <<prof, profiles, held, heldprof, wanted, todo, clearing>>

-----------------------------------------------------------------------------
(* Lookups and releases.                                                   *)

\* Mutant: the lookup does not count the new reference.
TakeUncounted(t, S) ==
  /\ held[t] = {}
  /\ held' = [held EXCEPT ![t] = S]
  /\ UNCHANGED <<dev, devices, name_to_id, prof, profiles, heldprof, wanted,
                 todo, clearing>>

\* Thread t obtains a reference to each device in S, and owned none before.
Take(t, S) ==
  /\ held[t] = {}
  /\ held' = [held EXCEPT ![t] = S]
  /\ dev' = [o \in Objs |-> IF o \in S THEN [dev[o] EXCEPT !.refs = @ + 1]
                                       ELSE dev[o]]
  /\ UNCHANGED <<devices, name_to_id, prof, profiles, heldprof, wanted, todo,
                 clearing>>

DeviceById(t, i) ==
  /\ Running
  /\ devices[i] # NULL
  /\ Take(t, {devices[i]})

DeviceByName(t, n) ==
  /\ Running
  /\ name_to_id[n] # NULL
  /\ Take(t, {devices[dev[name_to_id[n]].id]})

\* edgex_devmap_device_forcmd: C is the set of profiles that define the
\* command.
DeviceForCmd(t, C) ==
  /\ Running
  /\ Take(t, {o \in Objs : \E i \in Ids :
                /\ devices[i] = o
                /\ dev[o].op = "ENABLED"
                /\ dev[o].admin = "UNLOCKED"
                /\ prof[dev[o].prof].name \in C})

Release(t, o) ==
  /\ o \in held[t]
  /\ held' = [held EXCEPT ![t] = @ \ {o}]
  /\ dev' = Unref(dev, o)
  /\ UNCHANGED <<devices, name_to_id, prof, profiles, heldprof, wanted, todo,
                 clearing>>

-----------------------------------------------------------------------------
(* Profiles.                                                               *)

\* Mutant: the devices are not consulted.
RemoveProfileAlways(k) ==
  /\ Running
  /\ \E n \in ProfNames :
       /\ profiles[n] # NULL
       /\ prof[profiles[n]].pid = k
       /\ prof' = [prof EXCEPT ![profiles[n]] = NULL]
       /\ profiles' = [profiles EXCEPT ![n] = NULL]
  /\ UNCHANGED <<dev, devices, name_to_id, held, heldprof, wanted, todo,
                 clearing>>

\* edgex_devmap_remove_profile: refused while a device in the map uses the
\* profile; otherwise the first profile with that id is freed.
RemoveProfile(k) ==
  /\ Running
  /\ \A i \in Ids : devices[i] # NULL => prof[dev[devices[i]].prof].pid # k
  /\ \E n \in ProfNames :
       /\ profiles[n] # NULL
       /\ prof[profiles[n]].pid = k
       /\ prof' = [prof EXCEPT ![profiles[n]] = NULL]
       /\ profiles' = [profiles EXCEPT ![n] = NULL]
  /\ UNCHANGED <<dev, devices, name_to_id, held, heldprof, wanted, todo,
                 clearing>>

\* edgex_deviceprofile_get_internal: look in the map first ...
GetProfile(t, n) ==
  /\ Running
  /\ heldprof[t] = NULL /\ wanted[t] = NULL
  /\ \/ /\ profiles[n] # NULL
        /\ heldprof' = [heldprof EXCEPT ![t] = profiles[n]]
        /\ UNCHANGED wanted
     \/ /\ profiles[n] = NULL
        /\ wanted' = [wanted EXCEPT ![t] = n]
        /\ UNCHANGED heldprof
  /\ UNCHANGED <<dev, devices, name_to_id, prof, profiles, held, todo,
                 clearing>>

\* ... and if it is not there fetch it from core-metadata and enter it, over
\* whatever the map has by then.
AddProfile(t, k) ==
  /\ Running
  /\ wanted[t] # NULL
  /\ \E p \in ProfObjs :
       /\ prof[p] = NULL
       /\ prof' = [prof EXCEPT ![p] = [name |-> wanted[t], pid |-> k]]
       /\ profiles' = [profiles EXCEPT ![wanted[t]] = p]
       /\ heldprof' = [heldprof EXCEPT ![t] = p]
  /\ wanted' = [wanted EXCEPT ![t] = NULL]
  /\ UNCHANGED <<dev, devices, name_to_id, held, todo, clearing>>

\* core-metadata does not have it.
NoProfile(t) ==
  /\ wanted[t] # NULL
  /\ wanted' = [wanted EXCEPT ![t] = NULL]
  /\ UNCHANGED <<dev, devices, name_to_id, prof, profiles, held, heldprof,
                 todo, clearing>>

\* edgex_get_deviceprofile_byname copies the profile and forgets the pointer.
DupProfile(t) ==
  /\ heldprof[t] # NULL
  /\ heldprof' = [heldprof EXCEPT ![t] = NULL]
  /\ UNCHANGED <<dev, devices, name_to_id, prof, profiles, held, wanted, todo,
                 clearing>>

-----------------------------------------------------------------------------
(* edgex_devmap_clear, one iteration of its loop at a time.  It takes no    *)
(* lock and leaves name_to_id as it is, so it relies on its caller that     *)
(* nobody looks a device up any more; references taken earlier are fine.    *)

ClearDevice(i) ==
  /\ todo = <<>>
  /\ clearing' = TRUE
  /\ devices[i] # NULL
  /\ dev' = Unref(dev, devices[i])
  /\ devices' = [devices EXCEPT ![i] = NULL]
  /\ UNCHANGED <<name_to_id, prof, profiles, held, heldprof, wanted, todo>>

-----------------------------------------------------------------------------
Next ==
  \/ PopulateDevices
  \/ \E d \in Fetched : ReplaceDevice(d)
  \/ \E i \in Ids : RemoveDeviceById(i) \/ ClearDevice(i)
  \/ \E n \in Names : RemoveDeviceByName(n)
  \/ \E k \in ProfIds : RemoveProfile(k)
  \/ \E t \in Threads :
       \/ \E i \in Ids : DeviceById(t, i)
       \/ \E n \in Names : DeviceByName(t, n)
       \/ \E C \in SUBSET ProfNames : DeviceForCmd(t, C)
       \/ \E o \in Objs : Release(t, o)
       \/ \E n \in ProfNames : GetProfile(t, n)
       \/ \E k \in ProfIds : AddProfile(t, k)
       \/ NoProfile(t)
       \/ DupProfile(t)

Spec == Init /\ [][Next]_vars
-----------------------------------------------------------------------------
(* Properties.                                                             *)

\* Types of the variables.
TypeOK ==
  /\ dev \in [Objs -> DeviceObj \cup {NULL}]
  /\ devices \in [Ids -> Objs \cup {NULL}]
  /\ name_to_id \in [Names -> Objs \cup {NULL}]
  /\ prof \in [ProfObjs -> ProfileObj \cup {NULL}]
  /\ profiles \in [ProfNames -> ProfObjs \cup {NULL}]
  /\ held \in [Threads -> SUBSET Objs]
  /\ heldprof \in [Threads -> ProfObjs \cup {NULL}]
  /\ wanted \in [Threads -> ProfNames \cup {NULL}]
  /\ todo \in Seq(Fetched)
  /\ clearing \in BOOLEAN

\* The threads that own a reference to the cell o.
Owners(o) == {t \in Threads : o \in held[t]}

\* The map holds the device in cell o.
Mapped(o) == \E i \in Ids : devices[i] = o

\* Reference counting is exact (devmap.h: "The device is freed when its
\* reference count hits zero"): the count of an allocated device is the
\* number of threads that looked it up and have not released it, plus one if
\* the map holds it.  So no replacement, removal or clearing of a device that
\* commands are still using loses or leaks a reference.
RefsExact ==
  \A o \in Objs : dev[o] # NULL =>
    dev[o].refs = Cardinality(Owners(o)) + (IF Mapped(o) THEN 1 ELSE 0)

\* No thread and no map entry points to a freed device, no freed device is
\* left in a map, and nothing is leaked: a device is allocated exactly as
\* long as the map or some thread refers to it, and it is filed under its id.
NoDanglingDevice ==
  /\ \A o \in Objs : dev[o] # NULL <=> (Mapped(o) \/ Owners(o) # {})
  /\ \A i \in Ids : devices[i] # NULL => dev[devices[i]].id = i

\* Until the map is cleared the name index agrees with the device map, even
\* when updates rename devices or give one name to two ids in turn: an entry
\* points into a device that has that name and that the device map holds, so
\* that edgex_devmap_device_byname never dereferences a missing entry.
NameIndexSound ==
  ~clearing =>
    \A n \in Names : LET o == name_to_id[n] IN
      o # NULL => dev[o] # NULL /\ dev[o].name = n /\ devices[dev[o].id] = o

\* A device in the map always has its profile: remove_profile never frees
\* one that a device in the map points to, whatever profiles were entered
\* twice in the meantime.
MappedProfileLive ==
  /\ \A i \in Ids : devices[i] # NULL => prof[dev[devices[i]].prof] # NULL
  /\ \A n \in ProfNames : profiles[n] # NULL =>
       prof[profiles[n]] # NULL /\ prof[profiles[n]].name = n

\* What update_in_place promises in its comment: an update has no effect on
\* the operations in progress.  A device a thread goes on holding keeps its
\* identity, its address, its profile and its autoevents; only the two
\* states may change under it.
HeldDeviceStable ==
  [][\A t \in Threads : \A o \in held[t] \cap held'[t] :
       /\ dev'[o].id = dev[o].id /\ dev'[o].name = dev[o].name
       /\ dev'[o].prot = dev[o].prot /\ dev'[o].prof = dev[o].prof
       /\ dev'[o].autos = dev[o].autos]_vars
=============================================================================
