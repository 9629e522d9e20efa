----------------------------- MODULE AutoEvent ------------------------------
(***************************************************************************)
(* Automatic events (autoevent.c) of one device, from its creation through *)
(* replacements and removals to devsdk_service_stop (service.c).           *)
(*                                                                         *)
(* Every device object has one autoevent, and the edgex_autoimpl (ai) that *)
(* edgex_device_autoevent_start allocates for it is named like the object. *)
(* Jobs are done by the threads of a pool that share one FIFO queue, and a *)
(* job is the bare address of an ai: neither the schedule nor a queued job *)
(* counts in ai->refs.  A step that reads an ai after it has been freed,   *)
(* or the scheduler or a device after theirs, sets corrupt; nothing is     *)
(* said of what follows.                                                   *)
(***************************************************************************)
EXTENDS Integers, Sequences, FiniteSets

CONSTANTS Ais,       \* device objects, each with its ai
          Workers,   \* threads of the pool
          Readings,  \* what the driver may read
          MaxQueue,  \* bound: the scheduler adds no job to a longer queue
          MaxHeld,   \* bound: objects that requests hold at a time
          Managed,   \* values of "the driver has ae_starter and ae_stopper"
          OnChange,  \* values of ai->onChange
          Stoppable, \* whether the application calls devsdk_service_stop
          NULL

ASSUME AutoEventAssumption ==
  IsFiniteSet(Workers) /\ Managed \subseteq BOOLEAN /\ NULL \notin Ais

VARIABLES ai,       \* the edgex_autoimpl of each device object
          current,  \* the object in the device map, or NULL
          named,    \* whether the map's name index has an entry
          held,     \* objects that a REST request has a reference to
          sched,    \* ais that the scheduler has a schedule for
          queue,    \* jobs in the pool
          worker,   \* what each thread of the pool is doing
          sent,     \* history: the readings pushed for each ai
          stage,    \* how far devsdk_service_stop has come
          managed, onChange, corrupt

env == <<managed, onChange>>
vars == <<ai, current, named, held, sched, queue, worker,
          sent, stage, corrupt, env>>

Unused == [state |-> "unused", refs |-> 0, last |-> NULL, handle |-> FALSE]
Idle == [pc |-> "idle", ai |-> NULL, dev |-> NULL, val |-> NULL]
Job(job, a) == [job |-> job, ai |-> a]

\* The stages of devsdk_service_stop, in their order.
Rank == [up |-> 1, scheduler |-> 2, daemon |-> 3, clearing |-> 4, cleared |-> 5,
         freed |-> 6, done |-> 7]
Before(s) == Rank[stage] < Rank[s]

Init == /\ ai = [a \in Ais |-> Unused]
        /\ current = NULL /\ named = FALSE /\ held = {}
        /\ sched = {} /\ queue = <<>>
        /\ worker = [w \in Workers |-> Idle]
        /\ sent = [a \in Ais |-> {}]
        /\ stage = "up"
        /\ managed \in Managed /\ onChange \in OnChange
        /\ corrupt = FALSE

-----------------------------------------------------------------------------
(* Device objects.                                                         *)

\* dev->refs: the map's reference, a request's and those of the pool.
Refs(d) == Cardinality({w \in Workers : worker[w].dev = d})
             + (IF d \in held THEN 1 ELSE 0)
             + (IF current = d /\ Before("clearing") THEN 1 ELSE 0)

\* edgex_device_release: the last reference queues the stopper.
AfterRelease(d) == IF Refs(d) = 1 THEN Append(queue, Job("stop", d)) ELSE queue

\* edgex_device_autoevent_start for a new object, after the jobs q.
Start(a, q) ==
  /\ ai[a].state = "unused"
  /\ ai' = [ai EXCEPT ![a] = [state |-> "live", refs |-> 1, last |-> NULL,
                              handle |-> ~managed]]
  /\ queue' = IF managed THEN Append(q, Job("start", a)) ELSE q
  /\ sched' = IF managed THEN sched ELSE sched \cup {a}

\* The REST server answers requests until it is destroyed.
Serving == Before("daemon") /\ ~corrupt

\* edgex_devmap_replace_device for a device that is not in the map.
Create(a) ==
  /\ Serving /\ current = NULL
  /\ Start(a, queue)
  /\ current' = a /\ named' = TRUE
  /\ UNCHANGED <<held, worker, sent, stage, corrupt, env>>

\* The same when the change cannot be made in place.
Replace(a) ==
  /\ Serving /\ current # NULL
  /\ Start(a, AfterRelease(current))
  /\ current' = a
  /\ UNCHANGED <<named, held, worker, sent, stage, corrupt, env>>

\* edgex_devmap_removedevice_byid.
Remove ==
  /\ Serving /\ current # NULL
  /\ queue' = AfterRelease(current)
  /\ current' = NULL /\ named' = FALSE
  /\ UNCHANGED <<ai, held, sched, worker, sent, stage, corrupt, env>>

\* A request for a command finds the device, and is done with it.
Hold ==
  /\ Serving /\ current \notin held \cup {NULL}
  /\ Cardinality(held) < MaxHeld
  /\ held' = held \cup {current}
  /\ UNCHANGED <<ai, current, named, sched, queue, worker, sent,
                 stage, corrupt, env>>

Unhold(d) ==
  /\ d \in held /\ ~corrupt
  /\ held' = held \ {d}
  /\ queue' = AfterRelease(d)
  /\ UNCHANGED <<ai, current, named, sched, worker, sent, stage,
                 corrupt, env>>

-----------------------------------------------------------------------------
(* Jobs.                                                                   *)

\* The scheduler fires: it queues the runner with the address of the ai.
Tick(a) ==
  /\ a \in sched /\ stage = "up" /\ Len(queue) < MaxQueue /\ ~corrupt
  /\ queue' = Append(queue, Job("run", a))
  /\ UNCHANGED <<ai, current, named, held, sched, worker, sent,
                 stage, corrupt, env>>

\* An idle thread takes the oldest job.
Take(w) ==
  /\ worker[w] = Idle /\ queue # <<>> /\ ~corrupt
  /\ worker' = [worker EXCEPT ![w] = [Idle EXCEPT !.pc = Head(queue).job,
                                                  !.ai = Head(queue).ai]]
  /\ queue' = Tail(queue)
  /\ UNCHANGED <<ai, current, named, held, sched, sent, stage,
                 corrupt, env>>

At(w, pc) == worker[w].pc = pc /\ ~corrupt
Live(w) == ai[worker[w].ai].state = "live"
Goto(w, pc) == worker' = [worker EXCEPT ![w].pc = pc]
Become(w, pc, dev, val) ==
  worker' = [worker EXCEPT ![w] = [@ EXCEPT !.pc = pc, !.dev = dev, !.val = val]]

\* The step would use memory that has been freed.
Corrupt == /\ corrupt' = TRUE
           /\ UNCHANGED <<ai, current, named, held, sched, queue, worker,
                          sent, stage, env>>

\* starter: the call of ae_starter, and the assignment of what it returns.
StarterCall(w) ==
  /\ At(w, "start") /\ Live(w)
  /\ Goto(w, "started")
  /\ UNCHANGED <<ai, current, named, held, sched, queue, sent,
                 stage, corrupt, env>>

StarterStore(w) ==
  /\ At(w, "started") /\ Live(w)
  /\ ai' = [ai EXCEPT ![worker[w].ai].handle = TRUE]
  /\ worker' = [worker EXCEPT ![w] = Idle]
  /\ UNCHANGED <<current, named, held, sched, queue, sent, stage,
                 corrupt, env>>

\* Mutant: the schedule is left.
StopperCallOnly(w) ==
  /\ At(w, "stop") /\ Live(w)
  /\ managed \/ Before("freed")
  /\ Goto(w, "release")
  /\ UNCHANGED <<ai, current, named, held, sched, queue, sent,
                 stage, corrupt, env>>

\* stopper: ae_stopper, or the end of the schedule; then the ai is released.
StopperCall(w) ==
  /\ At(w, "stop") /\ Live(w)
  /\ managed \/ Before("freed")
  /\ sched' = IF managed THEN sched ELSE sched \ {worker[w].ai}
  /\ Goto(w, "release")
  /\ UNCHANGED <<ai, current, named, held, queue, sent, stage,
                 corrupt, env>>

\* An ai with one reference less.
Unref(i) == IF i.refs = 1 THEN [Unused EXCEPT !.state = "freed"] ELSE [i EXCEPT !.refs = @ - 1]

\* Mutant: the last reference does not free the ai.
ReleaseLeak(w) ==
  /\ At(w, "release") /\ Live(w)
  /\ ai' = [ai EXCEPT ![worker[w].ai].refs = @ - 1]
  /\ worker' = [worker EXCEPT ![w] = Idle]
  /\ UNCHANGED <<current, named, held, sched, queue, sent, stage,
                 corrupt, env>>

\* edgex_autoimpl_release ends both a stopper and a runner.
Release(w) ==
  /\ At(w, "release") /\ Live(w)
  /\ ai' = [ai EXCEPT ![worker[w].ai] = Unref(@)]
  /\ worker' = [worker EXCEPT ![w] = Idle]
  /\ UNCHANGED <<current, named, held, sched, queue, sent, stage,
                 corrupt, env>>

\* Mutant: the runner takes no reference.
RunnerBeginBare(w) ==
  /\ At(w, "run") /\ Live(w)
  /\ Goto(w, "lookup")
  /\ UNCHANGED <<ai, current, named, held, sched, queue, sent,
                 stage, corrupt, env>>

\* ae_runner takes a reference to the ai, which nobody holds for it so far,
RunnerBegin(w) ==
  /\ At(w, "run") /\ Live(w)
  /\ ai' = [ai EXCEPT ![worker[w].ai].refs = @ + 1]
  /\ Goto(w, "lookup")
  /\ UNCHANGED <<current, named, held, sched, queue, sent, stage,
                 corrupt, env>>

\* looks for a device of the name, which may be a later object, unschedules
\* itself if there is none, and gives up if the device is locked or disabled,
\* which edgex_devmap_replace_device can make it at any time (see Devmap),
RunnerLookup(w) ==
  /\ At(w, "lookup")
  /\ \/ /\ ~named /\ Before("freed")
        /\ sched' = sched \ {worker[w].ai}
        /\ Goto(w, "release")
     \/ /\ named /\ current # NULL /\ (Before("clearing") \/ Refs(current) > 0)
        /\ \E pc \in {"get", "putdev"} : Become(w, pc, current, NULL)
        /\ UNCHANGED sched
  /\ UNCHANGED <<ai, current, named, held, queue, sent, stage,
                 corrupt, env>>

\* calls the driver, and goes on if the reading is to be sent,
RunnerGet(w) ==
  /\ At(w, "get")
  /\ \/ Goto(w, "putdev")
     \/ \E v \in Readings :
          Become(w, IF onChange /\ ai[worker[w].ai].last = v THEN "putdev" ELSE "push",
                 worker[w].dev, v)
  /\ UNCHANGED <<ai, current, named, held, sched, queue, sent,
                 stage, corrupt, env>>

\* Mutant: the reading is remembered whether or not it was pushed.
RunnerPushForget(w) ==
  /\ At(w, "push")
  /\ \/ sent' = [sent EXCEPT ![worker[w].ai] = @ \cup {worker[w].val}]
     \/ UNCHANGED sent
  /\ Goto(w, IF onChange THEN "store" ELSE "putdev")
  /\ UNCHANGED <<ai, current, named, held, sched, queue, stage,
                 corrupt, env>>

\* pushes the event, or fails to, or fails an assertion on the reading,
RunnerPush(w) ==
  /\ At(w, "push")
  /\ \/ /\ sent' = [sent EXCEPT ![worker[w].ai] = @ \cup {worker[w].val}]
        /\ Goto(w, IF onChange THEN "store" ELSE "putdev")
     \/ Goto(w, "putdev") /\ UNCHANGED sent
  /\ UNCHANGED <<ai, current, named, held, sched, queue, stage,
                 corrupt, env>>

\* remembers a reading that was pushed,
RunnerStore(w) ==
  /\ At(w, "store")
  /\ ai' = [ai EXCEPT ![worker[w].ai].last = worker[w].val]
  /\ Goto(w, "putdev")
  /\ UNCHANGED <<current, named, held, sched, queue, sent, stage,
                 corrupt, env>>

\* and releases the device.
RunnerPutDevice(w) ==
  /\ At(w, "putdev")
  /\ queue' = AfterRelease(worker[w].dev)
  /\ Become(w, "release", NULL, NULL)
  /\ UNCHANGED <<ai, current, named, held, sched, sent, stage,
                 corrupt, env>>

\* The job meets an ai that was freed; or the scheduler, after
\* iot_scheduler_free; or the entry of the name index that edgex_devmap_clear
\* leaves when the device is no longer there.
UseAfterFree(w) ==
  /\ \/ \E pc \in {"start", "started", "stop", "release", "run"} : At(w, pc) /\ ~Live(w)
     \/ At(w, "stop") /\ ~managed /\ ~Before("freed")
     \/ At(w, "lookup") /\ ~named /\ ~Before("freed")
     \/ /\ At(w, "lookup") /\ named
        /\ current = NULL \/ (~Before("clearing") /\ Refs(current) = 0)
  /\ Corrupt

Work(w) == \/ Take(w) \/ StarterCall(w) \/ StarterStore(w) \/ StopperCall(w)
           \/ Release(w) \/ RunnerBegin(w) \/ RunnerLookup(w) \/ RunnerGet(w)
           \/ RunnerPush(w) \/ RunnerStore(w) \/ RunnerPutDevice(w)
           \/ UseAfterFree(w)

-----------------------------------------------------------------------------
(* devsdk_service_stop.                                                    *)

Advance(s, t) == stage = s /\ stage' = t /\ ~corrupt

\* iot_scheduler_stop, then edgex_rest_server_destroy, which waits for the
\* requests that are being answered.  The driver's stop function, which comes
\* next, has nothing to do with what is modelled here.
StopCalls ==
  /\ Stoppable
  /\ \/ Advance("up", "scheduler")
     \/ Advance("scheduler", "daemon") /\ held = {}
  /\ UNCHANGED <<ai, current, named, held, sched, queue, worker,
                 sent, corrupt, env>>

\* edgex_devmap_clear takes no lock.  It releases the device, then takes it
\* out of the map, and leaves the name index as it is.
ClearRelease ==
  /\ Advance("daemon", "clearing")
  /\ queue' = IF current = NULL THEN queue ELSE AfterRelease(current)
  /\ UNCHANGED <<ai, current, named, held, sched, worker, sent,
                 corrupt, env>>

ClearRemove ==
  /\ Advance("clearing", "cleared")
  /\ current' = NULL
  /\ UNCHANGED <<ai, named, held, sched, queue, worker, sent,
                 corrupt, env>>

\* iot_scheduler_free, with its schedules; then iot_threadpool_wait.
FreeScheduler ==
  /\ Advance("cleared", "freed")
  /\ sched' = {}
  /\ UNCHANGED <<ai, current, named, held, queue, worker, sent,
                 corrupt, env>>

Wait ==
  /\ Advance("freed", "done")
  /\ queue = <<>> /\ \A w \in Workers : worker[w] = Idle
  /\ UNCHANGED <<ai, current, named, held, sched, queue, worker,
                 sent, corrupt, env>>

Stop == StopCalls \/ ClearRelease \/ ClearRemove \/ FreeScheduler \/ Wait

Next == \/ \E a \in Ais : Create(a) \/ Replace(a) \/ Unhold(a) \/ Tick(a)
        \/ Remove \/ Hold
        \/ \E w \in Workers : Work(w)
        \/ Stop

\* Every thread of the pool keeps working.
Spec == Init /\ [][Next]_vars /\ \A w \in Workers : WF_vars(Work(w))
-----------------------------------------------------------------------------
(* Properties.                                                             *)

\* Threads that have a reference to the ai of a.
Users(a) == {w \in Workers : /\ worker[w].ai = a
                             /\ worker[w].pc \notin {"start", "started", "run"}}
\* The stoppers of a that are still in the queue.
StopsQueued(a) == {i \in DOMAIN queue : queue[i] = Job("stop", a)}

\* ai->refs counts the device or its stopper, and every runner at work: the
\* ai is freed once, by the last of them, and never while one of them uses it
\* (the atomic counter of edgex_autoimpl_release).
AiRefsExact ==
  ~corrupt => \A a \in Ais : ai[a].state # "unused" =>
    ai[a].refs = Cardinality(Users(a)) + Cardinality(StopsQueued(a))
                   + (IF Refs(a) > 0 THEN 1 ELSE 0)

\* A schedule never outlives the ai whose address it passes to the runner:
\* the stopper deletes the schedule before it releases the ai.
ScheduleOwned == \A a \in sched : ai[a].state = "live"

\* When the pool has nothing to do, what is left belongs to the device in the
\* map and to the objects that requests still hold: a replaced or removed
\* device leaves neither a schedule nor an ai.
NothingLeft ==
  (~corrupt /\ queue = <<>> /\ \A w \in Workers : worker[w] = Idle) =>
    \A a \in Ais : ai[a].state = "live" \/ a \in sched => Refs(a) > 0

\* What an ai remembers to compare the next reading with has been pushed: a
\* reading whose push failed is not taken for sent, and is sent again.
RememberedWasSent ==
  ~corrupt => \A a \in Ais : ai[a].last \in sent[a] \cup {NULL}

\* Again and again the pool has caught up: every ai that is left belongs to a
\* device object that somebody refers to.  (An ai whose object nobody refers to
\* stays so until it is freed, so each of them is freed.)
EventuallyFreed ==
  []<>(corrupt \/ \A a \in Ais : ai[a].state = "live" => Refs(a) > 0)

\* An autoevent in progress is not affected by the replacement or the removal
\* of its device (the aim stated above update_in_place in devmap.c).
InProgressUnharmed == Before("clearing") => ~corrupt
=============================================================================
