----------------------------- MODULE DeviceSync -----------------------------
(***************************************************************************)
(* How the device map follows core-metadata: the listing at startup, the   *)
(* callback handlers of callback.c running over the map of Devmap, and     *)
(* what the driver is told.                                                *)
(*                                                                         *)
(* core-metadata is external.  It owns the devices, gives every device a   *)
(* fresh id and keeps names unique; after each change it sends the service *)
(* a callback that carries only a method and an id.  The handler of a POST *)
(* or a PUT then fetches the device, applies it to the map and calls the   *)
(* driver, in separate steps between which other handlers may run: the     *)
(* REST server has a thread per connection.                                *)
(***************************************************************************)
EXTENDS Devmap

CONSTANTS Handlers,    \* connection threads that serve callbacks
          Worlds       \* what the environment may be like

ASSUME SyncAssumption ==
  /\ Handlers \subseteq Threads
  /\ Worlds \subseteq [ordered : BOOLEAN, serial : BOOLEAN,
                     quiet : BOOLEAN, faulty : BOOLEAN, most : Nat]

VARIABLES meta,     \* core-metadata: what it has for each id
          calls,    \* callbacks on their way to the service
          cb,       \* what each handler is doing
          registered,  \* the driver registered the device callbacks
          driver,   \* what the driver was last told, by device name
          serving,  \* the callback handler is registered
          changes,  \* changes made so far in core-metadata
          world     \* ordered: callbacks arrive in the order they were sent
                    \* serial: they are handled one at a time
                    \* quiet: core-metadata does not change while the service
                    \*   starts
                    \* faulty: a request to core-metadata may fail
                    \* most: bound on the number of changes in core-metadata

syncvars == <<meta, calls, cb, registered, driver, serving, changes, world>>
allvars == <<vars, syncvars>>

Idle == [pc |-> "idle"]
Unused == [svc |-> "unused"]
Deleted == [svc |-> "deleted"]

\* core-metadata has the device i; it belongs to this service.
Present(i) == meta[i].svc \in {"mine", "other"}
Mine(i) == meta[i].svc = "mine"

\* What the driver learns of a device.
Told(d) == [prot |-> d.prot, admin |-> d.admin]

\* The service starts with a listing of its devices.  The driver is not told
\* of those; it reads them from the map when it is initialized.
SyncInit ==
  /\ Init
  /\ LET Listed == {todo[j] : j \in DOMAIN todo} IN
       /\ meta = [i \in Ids |->
            IF \E d \in Listed : d.id = i
              THEN [rec |-> CHOOSE d \in Listed : d.id = i, svc |-> "mine"]
              ELSE Unused]
       /\ driver = [n \in Names |->
            IF \E d \in Listed : d.name = n
              THEN Told(CHOOSE d \in Listed : d.name = n) ELSE NULL]
  /\ calls = <<>>
  /\ cb = [h \in Handlers |-> Idle]
  /\ registered \in BOOLEAN
  /\ serving = FALSE
  /\ changes = 0
  /\ world \in Worlds

-----------------------------------------------------------------------------
(* core-metadata.                                                          *)

\* core-metadata changes the device i to m and sends a callback.  Nobody is
\* listening before the callback handler is registered.
MetaChange(i, m, method) ==
  /\ changes < world.most
  /\ world.quiet => serving
  /\ changes' = changes + 1
  /\ meta' = [meta EXCEPT ![i] = m]
  /\ calls' = IF serving THEN Append(calls, [method |-> method, id |-> i])
                         ELSE calls
  /\ UNCHANGED <<vars, cb, registered, driver, serving, world>>

NameFree(n, i) == \A j \in Ids \ {i} : Present(j) => meta[j].rec.name # n

MetaAdd(d) ==
  /\ meta[d.id] = Unused
  /\ NameFree(d.name, d.id)
  /\ MetaChange(d.id, [rec |-> d, svc |-> "mine"], "POST")

\* An update, which may move the device to another service or back.
MetaUpdate(d, s) ==
  /\ Present(d.id)
  /\ meta[d.id] # [rec |-> d, svc |-> s]
  /\ NameFree(d.name, d.id)
  /\ "mine" \in {meta[d.id].svc, s}
  /\ MetaChange(d.id, [rec |-> d, svc |-> s], "PUT")

MetaDelete(i) ==
  /\ Mine(i)
  /\ MetaChange(i, Deleted, "DELETE")

-----------------------------------------------------------------------------
(* Startup: populate the map from the listing, then register the handler.  *)

Populate == PopulateDevices /\ UNCHANGED syncvars

Serve ==
  /\ todo = <<>>
  /\ ~serving
  /\ serving' = TRUE
  /\ UNCHANGED <<vars, meta, calls, cb, registered, driver, changes, world>>

-----------------------------------------------------------------------------
(* updateDevice.                                                           *)

Goto(h, c) == cb' = [cb EXCEPT ![h] = c]

\* A callback reaches handler h.
Begin(h, j) ==
  /\ cb[h] = Idle
  /\ serving
  /\ j \in DOMAIN calls
  /\ world.ordered => j = 1
  /\ world.serial => \A g \in Handlers : cb[g] = Idle
  /\ calls' = SubSeq(calls, 1, j - 1) \o SubSeq(calls, j + 1, Len(calls))
  /\ Goto(h, [pc |-> calls[j].method, id |-> calls[j].id])
  /\ UNCHANGED <<vars, meta, registered, driver, serving, changes, world>>

\* Mutant: the request is repeated until core-metadata has the device.
FetchRetry(h) ==
  /\ cb[h].pc \in {"POST", "PUT"}
  /\ Present(cb[h].id)
  /\ Goto(h, [pc |-> meta[cb[h].id].svc, id |-> cb[h].id,
              rec |-> meta[cb[h].id].rec])
  /\ UNCHANGED <<vars, meta, calls, registered, driver, serving, changes, world>>

\* POST and PUT: edgex_metadata_client_get_device.  If that fails, or if the
\* device is gone, the handler ends and still answers 200.
Fetch(h) ==
  /\ cb[h].pc \in {"POST", "PUT"}
  /\ \/ /\ Present(cb[h].id)
        /\ Goto(h, [pc |-> meta[cb[h].id].svc, id |-> cb[h].id,
                    rec |-> meta[cb[h].id].rec])
     \/ (Present(cb[h].id) => world.faulty) /\ Goto(h, Idle)
  /\ UNCHANGED <<vars, meta, calls, registered, driver, serving, changes, world>>

\* Mutant: an update that the map made in place is not passed on.
ReplaceQuiet(h) ==
  /\ cb[h].pc = "mine"
  /\ ReplaceDevice(cb[h].rec)
  /\ Goto(h, IF registered /\ Outcome(cb[h].rec) = "CREATED"
               THEN [cb[h] EXCEPT !.pc = "tell"] ELSE Idle)
  /\ UNCHANGED <<meta, calls, registered, driver, serving, changes, world>>

\* The device is ours: replace it in the map, then call device_added or
\* device_updated unless only fields of the SDK changed.
Replace(h) ==
  /\ cb[h].pc = "mine"
  /\ ReplaceDevice(cb[h].rec)
  /\ Goto(h, IF registered /\ Outcome(cb[h].rec) # "UPDATED_SDK"
               THEN [cb[h] EXCEPT !.pc = "tell"] ELSE Idle)
  /\ UNCHANGED <<meta, calls, registered, driver, serving, changes, world>>

\* Mutant: a device that moved to another service is ignored.
MovedIgnored(h) ==
  /\ cb[h].pc = "other"
  /\ Goto(h, Idle)
  /\ UNCHANGED <<vars, meta, calls, registered, driver, serving, changes, world>>

\* The device moved to another service: remove it, if it is in the map, and
\* call device_removed in any case.
Moved(h) ==
  /\ cb[h].pc = "other"
  /\ \/ RemoveDeviceById(cb[h].id)
     \/ devices[cb[h].id] = NULL /\ UNCHANGED vars
  /\ Goto(h, IF registered THEN [cb[h] EXCEPT !.pc = "tellmoved"] ELSE Idle)
  /\ UNCHANGED <<meta, calls, registered, driver, serving, changes, world>>

\* device_added, device_updated; device_removed for a device that moved.
Tell(h) ==
  /\ cb[h].pc \in {"tell", "tellmoved"}
  /\ driver' = [driver EXCEPT ![cb[h].rec.name] =
                  IF cb[h].pc = "tell" THEN Told(cb[h].rec) ELSE NULL]
  /\ Goto(h, Idle)
  /\ UNCHANGED <<vars, meta, calls, registered, serving, changes, world>>

\* DELETE: take a reference, or give up if the device is not in the map.
Delete(h) ==
  /\ cb[h].pc = "DELETE"
  /\ registered
  /\ \/ /\ DeviceById(h, cb[h].id)
        /\ Goto(h, [cb[h] EXCEPT !.pc = "remove"])
     \/ /\ devices[cb[h].id] = NULL
        /\ Goto(h, Idle)
        /\ UNCHANGED vars
  /\ UNCHANGED <<meta, calls, registered, driver, serving, changes, world>>

\* DELETE without a device_removed to call.
DeleteSilently(h) ==
  /\ cb[h].pc = "DELETE"
  /\ ~registered
  /\ \/ RemoveDeviceById(cb[h].id)
     \/ devices[cb[h].id] = NULL /\ UNCHANGED vars
  /\ Goto(h, Idle)
  /\ UNCHANGED <<meta, calls, registered, driver, serving, changes, world>>

\* Mutant: the device leaves the id map only.
RemoveIdOnly(h) ==
  /\ cb[h].pc = "remove"
  /\ devices[cb[h].id] # NULL
  /\ devices' = [devices EXCEPT ![cb[h].id] = NULL]
  /\ dev' = Unref(dev, devices[cb[h].id])
  /\ Goto(h, [cb[h] EXCEPT !.pc = "tellgone"])
  /\ UNCHANGED <<name_to_id, prof, profiles, held, heldprof, wanted, todo,
                 clearing, meta, calls, registered, driver, serving, changes, world>>

\* Remove it, unless another handler was faster.
Remove(h) ==
  /\ cb[h].pc = "remove"
  /\ \/ RemoveDeviceById(cb[h].id)
     \/ devices[cb[h].id] = NULL /\ UNCHANGED vars
  /\ Goto(h, [cb[h] EXCEPT !.pc = "tellgone"])
  /\ UNCHANGED <<meta, calls, registered, driver, serving, changes, world>>

\* device_removed with the name in the device that was looked up, then
\* release it.
Gone(h) ==
  /\ cb[h].pc = "tellgone"
  /\ \E o \in held[h] :
       /\ driver' = [driver EXCEPT ![dev[o].name] = NULL]
       /\ Release(h, o)
  /\ Goto(h, Idle)
  /\ UNCHANGED <<meta, calls, registered, serving, changes, world>>

-----------------------------------------------------------------------------
(* updateProfile: a PUT or a DELETE for a profile, at any time.  The       *)
(* refusal, while the profile has devices, changes nothing.                *)

ForgetProfile(h, k) ==
  /\ serving
  /\ cb[h] = Idle
  /\ RemoveProfile(k)
  /\ UNCHANGED syncvars

Handle(h) == \/ \E j \in DOMAIN calls : Begin(h, j)
             \/ Fetch(h) \/ Replace(h) \/ Moved(h) \/ Tell(h)
             \/ Delete(h) \/ DeleteSilently(h) \/ Remove(h) \/ Gone(h)

SyncNext ==
  \/ \E d \in Fetched : MetaAdd(d)
  \/ \E d \in Fetched, s \in {"mine", "other"} : MetaUpdate(d, s)
  \/ \E i \in Ids : MetaDelete(i)
  \/ Populate
  \/ Serve
  \/ \E h \in Handlers : Handle(h)
  \/ \E h \in Handlers, k \in ProfIds : ForgetProfile(h, k)

\* Startup proceeds and the connection threads run; core-metadata need not
\* change.
SyncSpec ==
  /\ SyncInit
  /\ [][SyncNext]_allvars
  /\ WF_allvars(Populate \/ Serve)
  /\ \A h \in Handlers : WF_allvars(Handle(h))

-----------------------------------------------------------------------------
(* Properties.                                                             *)

\* Every callback sent has been dealt with.
Settled == serving /\ calls = <<>> /\ \A h \in Handlers : cb[h] = Idle

\* The map has the device i exactly as core-metadata has it.
Agrees(i) ==
  IF Mine(i)
    THEN /\ devices[i] # NULL
         /\ LET o == dev[devices[i]] IN
              /\ o.name = meta[i].rec.name
              /\ Told(o) = Told(meta[i].rec)
              /\ o.op = meta[i].rec.op
              /\ o.autos = meta[i].rec.autos
              /\ prof[o.prof].name = meta[i].rec.pname
    ELSE devices[i] = NULL

\* What the next two properties and EventuallySynced need.
Calm == world.serial /\ world.quiet /\ ~world.faulty

\* The map follows core-metadata: when all callbacks have been dealt with,
\* the devices in the map are those that core-metadata has for this service,
\* with the same contents.
Converged == Calm /\ Settled => \A i \in Ids : Agrees(i)

\* No device but i can have the name n.
OwnName(n, i) == \A d \in Fetched : d.name = n => d.id = i

\* The driver was told the address and administrative state of every device
\* in the map (devsdk.h: "indicating that a device's address or adminstate
\* has been updated"), renamed or not.  The driver knows devices by name
\* only, so this is said of names that do not pass from one device to
\* another: the removal of the former owner may be told last.
DriverInformed ==
  Calm /\ Settled /\ registered =>
    \A i \in Ids : devices[i] # NULL =>
      LET o == dev[devices[i]] IN
      OwnName(o.name, i) => driver[o.name] = Told(o)

\* The handlers use the map only through its operations: the composed system
\* implements Devmap, and so inherits what is proved of it.
ImplementsDevmap == Spec

\* Once core-metadata stops changing the map catches up with it for good.
EventuallySynced == Calm => <>[](\A i \in Ids : Agrees(i))

\* devices.h on edgex_remove_device: "The device will be deleted from the
\* device service and from core-metadata."
DeletedIsGone == Settled => \A i \in Ids : meta[i] = Deleted => devices[i] = NULL
=============================================================================
