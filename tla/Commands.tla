----------------------------- MODULE Commands -------------------------------
(***************************************************************************)
(* Device commands (device.c): requests for one device or for all devices  *)
(* that have a command, answered by connection threads while callbacks     *)
(* lock, disable and remove the devices.                                   *)
(*                                                                         *)
(* A request runs in the steps of the code that others can come between:   *)
(* the lookup under the map's read lock, which takes references, then for  *)
(* each device the checks of runOne, the call of the driver, and the       *)
(* release of the device.                                                  *)
(***************************************************************************)
EXTENDS Integers, Sequences, FiniteSets, FiniteSetsExt

CONSTANTS Devices,
          Profiles,   \* profiles that a device may have
          Requests,   \* what may be asked
          Threads,    \* connection threads
          MaxCmdOps,  \* svc->config.device.maxcmdops
          MaxChanges, \* bound: changes of devices by callbacks
          NULL

\* edgex_event_encoding.
Encodings == {"JSON", "CBOR"}

ASSUME CommandsAssumption ==
  /\ \A p \in Profiles : p.enc \in Encodings
  /\ MaxChanges \in Nat
  /\ IsFiniteSet(Threads)
  /\ NULL \notin Devices

VARIABLES prof,     \* the profile of each device
          up,       \* whether each device is unlocked and enabled
          present,  \* devices in the map
          refs,     \* references of requests to each device
          thread,   \* what each thread is doing
          changes,
          good, bad, \* history: where the command of each thread succeeded, failed
          steady    \* history: devices that did not change meanwhile

devs == <<prof, up, present, changes>>
hist == <<good, bad, steady>>
vars == <<devs, refs, thread, hist>>

\* How far a request has come:
\*   pc, req  its next step, and what was asked
\*   left    devices it still has to run on, and holds
\*   cur     the one it is running on
\*   ret     the status so far
\*   events  the encodings of the events in the reply
State(pc, req, left, cur, ret, events) ==
  [pc |-> pc, req |-> req, left |-> left, cur |-> cur, ret |-> ret, events |-> events]

Idle == State("idle", NULL, {}, NULL, 0, <<>>)

Init == /\ prof \in [Devices -> Profiles]
        /\ up \in [Devices -> BOOLEAN]
        /\ present = Devices
        /\ refs = [d \in Devices |-> 0]
        /\ thread = [t \in Threads |-> Idle]
        /\ changes = 0
        /\ good = [t \in Threads |-> {}]
        /\ bad = [t \in Threads |-> {}]
        /\ steady = [t \in Threads |-> {}]

-----------------------------------------------------------------------------
(* Callbacks.                                                              *)

Unsteady(d) == steady' = [t \in Threads |-> steady[t] \ {d}]

\* update_in_place: the state of a device changes while requests hold it.
SetState(d) ==
  /\ changes < MaxChanges /\ d \in present
  /\ up' = [up EXCEPT ![d] = ~@]
  /\ Unsteady(d)
  /\ changes' = changes + 1
  /\ UNCHANGED <<prof, present, refs, thread, good, bad>>

\* edgex_devmap_removedevice_byid: those who hold the device still use it.
RemoveDevice(d) ==
  /\ changes < MaxChanges /\ d \in present
  /\ present' = present \ {d}
  /\ Unsteady(d)
  /\ changes' = changes + 1
  /\ UNCHANGED <<prof, up, refs, thread, good, bad>>

-----------------------------------------------------------------------------
(* Lookups.                                                                *)

\* What the profile of d has for the request; NULL if there is none.
Command(d, r) == IF r.get THEN prof[d].get ELSE prof[d].set

\* Mutant: a device must have the command for both methods.
FoundBoth(r) == {d \in present : /\ prof[d].get # NULL /\ prof[d].set # NULL
                                 /\ IF r.all THEN up[d] ELSE d = r.dev}

\* edgex_devmap_device_forcmd for all devices, byid or byname for one.  A
\* device without the command is looked up and released again.
Found(r) == IF r.all
            THEN {d \in present : up[d] /\ Command(d, r) # NULL}
            ELSE {d \in present \cap {r.dev} : Command(d, r) # NULL}

\* The answer when nothing is found: a device may have the command for the
\* other method.
NoCommand(r) ==
  IF ~r.all /\ r.dev \in present
     /\ Command(r.dev, [r EXCEPT !.get = ~@]) # NULL
  THEN 405 ELSE 404

\* Mutant: a lookup of one device takes no reference.
BeginUncounted(t, r) ==
  /\ thread[t].pc = "idle"
  /\ thread' = [thread EXCEPT ![t] =
       State(IF Found(r) = {} THEN "done" ELSE "check", r, Found(r), NULL,
             NoCommand(r), <<>>)]
  /\ good' = [good EXCEPT ![t] = {}] /\ bad' = [bad EXCEPT ![t] = {}]
  /\ steady' = [steady EXCEPT ![t] = present]
  /\ refs' = [d \in Devices |-> refs[d] + (IF r.all /\ d \in Found(r) THEN 1 ELSE 0)]
  /\ UNCHANGED devs

\* The request arrives, and its devices are looked up.
Begin(t, r) ==
  /\ thread[t].pc = "idle"
  /\ thread' = [thread EXCEPT ![t] =
       State(IF Found(r) = {} THEN "done" ELSE "check", r, Found(r), NULL,
             NoCommand(r), <<>>)]
  /\ good' = [good EXCEPT ![t] = {}] /\ bad' = [bad EXCEPT ![t] = {}]
  /\ steady' = [steady EXCEPT ![t] = present]
  /\ refs' = [d \in Devices |-> refs[d] + (IF d \in Found(r) THEN 1 ELSE 0)]
  /\ UNCHANGED devs

-----------------------------------------------------------------------------
(* runOne.                                                                 *)

\* The value for one entry of a set command: the payload's, or the default.
Value(q, p) == IF p.val[q.res] # NULL THEN p.val[q.res] ELSE q.dflt

\* What edgex_device_runput finds wrong with an entry.
EntryStatus(q, p) ==
  IF ~q.writable THEN 405
  ELSE IF Value(q, p) \in {NULL, "unparsable", "overflow"} THEN 400
  ELSE 200

\* edgex_device_runput up to the call: the first entry that is wrong decides.
PutStatus(reqs, p) ==
  LET wrong == {i \in DOMAIN reqs : EntryStatus(reqs[i], p) # 200}
  IN  IF p.form # "JSON" THEN 400
      ELSE IF wrong # {} THEN EntryStatus(reqs[Min(wrong)], p)
      ELSE 200

\* edgex_device_runget up to the call.
GetStatus(reqs) == IF \E i \in DOMAIN reqs : ~reqs[i].readable THEN 405 ELSE 200

\* Mutant: the state of the device is not looked at.
CheckStatusAnyState(d, r) ==
  IF Len(Command(d, r)) > MaxCmdOps THEN 500
  ELSE IF r.get THEN GetStatus(Command(d, r))
  ELSE IF r.payload.form = "none" THEN 400
  ELSE PutStatus(Command(d, r), r.payload)

\* runOne up to the call of the driver.
CheckStatus(d, r) ==
  IF ~up[d] THEN 423
  ELSE IF Len(Command(d, r)) > MaxCmdOps THEN 500
  ELSE IF r.get THEN GetStatus(Command(d, r))
  ELSE IF r.payload.form = "none" THEN 400
  ELSE PutStatus(Command(d, r), r.payload)

\* Mutant: the last device decides.
RetLast(old, one) == one

\* A request for all devices is successful once one of them was.
Ret(old, one) == IF old # 200 THEN one ELSE old

Check(t, d) ==
  /\ thread[t].pc = "check" /\ d \in thread[t].left
  /\ LET me == thread[t]
         s == CheckStatus(d, me.req)
     IN  IF s = 200
         THEN /\ thread' = [thread EXCEPT ![t] =
                   State("call", me.req, me.left, d, me.ret, me.events)]
              /\ UNCHANGED bad
         ELSE /\ thread' = [thread EXCEPT ![t] =
                   State("release", me.req, me.left, d, Ret(me.ret, s), me.events)]
              /\ bad' = [bad EXCEPT ![t] = @ \cup {d}]
  /\ UNCHANGED <<devs, refs, good, steady>>

\* Mutant: an event replaces those of the devices before.
CallOKLast(t) ==
  /\ thread[t].pc = "call"
  /\ LET me == thread[t]
         e == IF me.req.get THEN <<prof[me.cur].enc>> ELSE <<>>
     IN  /\ thread' = [thread EXCEPT ![t] =
              State("release", me.req, me.left, me.cur, Ret(me.ret, 200), e)]
         /\ good' = [good EXCEPT ![t] = @ \cup {me.cur}]
  /\ UNCHANGED <<devs, refs, bad, steady>>

\* The driver succeeds; the reply to a GET gets an event, in the encoding
\* that its readings ask for.
CallOK(t) ==
  /\ thread[t].pc = "call"
  /\ LET me == thread[t]
         e == IF me.req.get THEN <<prof[me.cur].enc>> ELSE <<>>
     IN  /\ thread' = [thread EXCEPT ![t] =
              State("release", me.req, me.left, me.cur, Ret(me.ret, 200),
                    me.events \o e)]
         /\ good' = [good EXCEPT ![t] = @ \cup {me.cur}]
  /\ UNCHANGED <<devs, refs, bad, steady>>

\* The driver fails, or a reading fails an assertion.
CallFails(t) ==
  /\ thread[t].pc = "call"
  /\ LET me == thread[t]
     IN  /\ thread' = [thread EXCEPT ![t] =
              State("release", me.req, me.left, me.cur, Ret(me.ret, 500),
                    me.events)]
         /\ bad' = [bad EXCEPT ![t] = @ \cup {me.cur}]
  /\ UNCHANGED <<devs, refs, good, steady>>

\* Mutant: the pointer to the released device is kept.
ReleaseKeep(t) ==
  /\ thread[t].pc = "release"
  /\ LET rest == thread[t].left \ {thread[t].cur}
     IN  thread' = [thread EXCEPT ![t] =
           [@ EXCEPT !.pc = IF rest = {} THEN "done" ELSE "check", !.left = rest]]
  /\ refs' = [refs EXCEPT ![thread[t].cur] = @ - 1]
  /\ UNCHANGED <<devs, hist>>

\* Mutant: a command that failed is tried again.
ReleaseRetry(t) ==
  /\ thread[t].pc = "release"
  /\ LET rest == thread[t].left \ {thread[t].cur}
         again == thread[t].ret = 500
     IN  /\ thread' = [thread EXCEPT ![t] =
              IF again THEN [@ EXCEPT !.pc = "call"]
              ELSE [@ EXCEPT !.pc = IF rest = {} THEN "done" ELSE "check",
                             !.left = rest, !.cur = NULL]]
         /\ refs' = [refs EXCEPT ![thread[t].cur] = IF again THEN @ ELSE @ - 1]
  /\ UNCHANGED <<devs, hist>>

\* edgex_device_release, and on to the next device.
Release(t) ==
  /\ thread[t].pc = "release"
  /\ LET me == thread[t]
         rest == me.left \ {me.cur}
     IN  thread' = [thread EXCEPT ![t] =
           State(IF rest = {} THEN "done" ELSE "check", me.req, rest, NULL,
                 me.ret, me.events)]
  /\ refs' = [refs EXCEPT ![thread[t].cur] = @ - 1]
  /\ UNCHANGED <<devs, hist>>

\* The answer is sent.
Answer(t) ==
  /\ thread[t].pc = "done"
  /\ thread' = [thread EXCEPT ![t] = Idle]
  /\ good' = [good EXCEPT ![t] = {}] /\ bad' = [bad EXCEPT ![t] = {}]
  /\ steady' = [steady EXCEPT ![t] = {}]
  /\ UNCHANGED <<devs, refs>>

Step(t) == \/ \E d \in Devices : Check(t, d)
           \/ CallOK(t) \/ CallFails(t) \/ Release(t) \/ Answer(t)

Next == \/ \E d \in Devices : SetState(d) \/ RemoveDevice(d)
        \/ \E t \in Threads : Step(t) \/ \E r \in Requests : Begin(t, r)

\* A request that has begun is carried on.
Spec == Init /\ [][Next]_vars /\ \A t \in Threads : WF_vars(Step(t))

-----------------------------------------------------------------------------
(* Properties.                                                             *)

ThreadRec ==
  [pc : {"idle", "check", "call", "release", "done"}, req : Requests \cup {NULL},
   left : SUBSET Devices, cur : Devices \cup {NULL},
   ret : {0, 200, 400, 404, 405, 423, 500}, events : Seq(Encodings)]

\* Every variable has its type, and a request works on a device it holds.
TypeOK ==
  /\ prof \in [Devices -> Profiles] /\ up \in [Devices -> BOOLEAN]
  /\ present \subseteq Devices /\ refs \in [Devices -> Nat]
  /\ changes \in 0..MaxChanges
  /\ thread \in [Threads -> ThreadRec]
  /\ good \in [Threads -> SUBSET Devices] /\ bad \in [Threads -> SUBSET Devices]
  /\ steady \in [Threads -> SUBSET Devices]
  /\ \A t \in Threads : thread[t].cur \in thread[t].left \cup {NULL}

\* The references that requests have taken are exactly those they still have
\* to give back, whatever the outcome of the command on each device.
RefsBalanced ==
  \A d \in Devices : refs[d] = Cardinality({t \in Threads : d \in thread[t].left})

Done(t) == thread[t].pc = "done"

\* A command for all reaches every operational device that has it, if the
\* device is left alone meanwhile: no failure on another one stops it.
AllReached ==
  \A t \in Threads : Done(t) /\ thread[t].req.all =>
    \A d \in steady[t] :
      up[d] /\ Command(d, thread[t].req) # NULL => d \in good[t] \cup bad[t]

\* The driver is never called for a device that has been locked or disabled
\* since before the request arrived.
LockedUntouched ==
  \A t \in Threads : \A d \in steady[t] : ~up[d] =>
    d \notin good[t] /\ ~(thread[t].pc = "call" /\ thread[t].cur = d)

\* 200 is answered only if the command succeeded somewhere, and 404 or 405 is
\* never answered after the driver did what was asked.
StatusHonest ==
  \A t \in Threads : Done(t) => (thread[t].ret = 200 <=> good[t] # {})

\* The reply to a GET has one event for every device that was read: allCommand
\* neither loses an event nor counts one twice when it extends the buffer.
ReplyComplete ==
  \A t \in Threads : Done(t) /\ thread[t].req.get =>
    Len(thread[t].events) = Cardinality(good[t])

\* Every request is answered.
EveryRequestAnswered == \A t \in Threads : thread[t].pc # "idle" ~> thread[t].pc = "idle"
=============================================================================
