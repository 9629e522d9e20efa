---------------------------- MODULE GraceCluster ----------------------------
(***************************************************************************)
(* Grace periods of a cluster of NFS servers: the recovery core            *)
(* (nfs4_recovery.c), the clustered backend (recovery_rados_cluster.c),    *)
(* the reaper (nfs_reaper_thread.c) and the requests that depend on the    *)
(* state of grace, on several servers that crash and restart.              *)
(*                                                                         *)
(* The calls of rados_grace.c are single steps here, which is what         *)
(* RadosGrace shows them to be. Membership does not change.                *)
(***************************************************************************)
EXTENDS GraceOps

CONSTANTS Clients,
          Mounts,      \* <<n, c>>: client c uses server n
          EnableNLM,   \* enable_NLM
          SlowStart,   \* whether the calls to the store that a starting server
                       \* makes may take as long as grace_period
          MaxCrashes,  \* bound: crashes and shutdowns, in all
          MaxEpoch     \* bound: large enough that MaxCrashes is reached first

ASSUME GraceClusterAssumption ==
  /\ IsFiniteSet(Clients) /\ Mounts \subseteq Nodes \X Clients
  /\ {EnableNLM, SlowStart} \subseteq BOOLEAN
  /\ MaxCrashes \in Nat
  /\ MaxEpoch \in Nat /\ MaxEpoch > Cardinality(Nodes) + MaxCrashes

VARIABLES db,       \* the grace database
          recdb,    \* recdb[n][e]: clients in the recovery database "rec-e:n"
          srv,      \* each server
          conf,     \* its client ids: "none", "hashed" or "confirmed"
          allow,    \* those with cid_allow_reclaim
          complete, \* those with cid_reclaim_complete
          req,      \* requests in progress that hold a grace reference
          crashes

store   == <<db, recdb>>
clients == <<conf, allow, complete>>
vars    == <<store, srv, clients, req, crashes>>

\* A server:
\*   pc      the next step of its main thread, then of the reaper
\*   boot    the main thread has not begun to serve
\*   active, change  GRACE_STATUS_ACTIVE and GRACE_STATUS_CHANGE_REQ
\*   recov, old  epochs in rados_recov_oid and rados_recov_old_oid; 0: NULL
\*   rec     epoch in a local variable of the backend
\*   snap    clients collected by rados_set_client_cb
\*   clids   clid_list
Server(pc, boot, active) ==
  [pc |-> pc, boot |-> boot, active |-> active, change |-> FALSE,
   recov |-> 0, old |-> 0, rec |-> 0, snap |-> {}, clids |-> {}]

Down == Server("down", FALSE, FALSE)

None == [c \in Clients |-> "none"]

\* The members have been added to the database, and no server runs yet.
Init == /\ db = AddDb(NewDb, Nodes)
        /\ recdb = [n \in Nodes |-> [e \in 1..MaxEpoch |-> {}]]
        /\ srv = [n \in Nodes |-> Down]
        /\ conf = [n \in Nodes |-> None]
        /\ allow = [n \in Nodes |-> {}] /\ complete = [n \in Nodes |-> {}]
        /\ req = [n \in Nodes |-> {}]
        /\ crashes = 0

At(n, pc) == srv[n].pc = pc

Go(n, pc) == srv' = [srv EXCEPT ![n].pc = pc]

\* Where nfs_try_lift_grace returns to.
Back(n) == IF srv[n].boot THEN "check" ELSE "idle"

Toggle(n, enable) == db' = ToggleDb(db, {n}, db.omap, enable)

PutDb(n, e, S) == recdb' = [recdb EXCEPT ![n][e] = S]

-----------------------------------------------------------------------------
(* Start of a server: nfs4_recovery_init, nfs_start_grace(NULL),           *)
(* nfs_wait_for_grace_enforcement.                                         *)

\* Nothing holds a reference yet, so the grace period begins at once.
Boot(n) ==
  /\ At(n, "down") /\ n \in Members(db)
  /\ srv' = [srv EXCEPT ![n] = Server("enforce", TRUE, TRUE)]
  /\ UNCHANGED <<store, clients, req, crashes>>

\* rados_cluster_set_enforcing, at the start and later.
SetEnforcing(n) ==
  /\ At(n, "enforce")
  /\ Toggle(n, TRUE)
  /\ Go(n, IF srv[n].boot THEN "join" ELSE "idle")
  /\ UNCHANGED <<recdb, clients, req, crashes>>

\* rados_cluster_read_clids: joins, or begins, the grace period,
Join(n) ==
  /\ At(n, "join")
  /\ db' = JoinDb(db, {n})
  /\ srv' = [srv EXCEPT ![n].pc = "create", ![n].recov = db'.cur, ![n].rec = db'.rec]
  /\ UNCHANGED <<recdb, clients, req, crashes>>

\* Mutant: clears the database to recover from.
CreateOld(n) ==
  /\ At(n, "create")
  /\ PutDb(n, srv[n].rec, {})
  /\ Go(n, "load")
  /\ UNCHANGED <<db, clients, req, crashes>>

\* creates the recovery database of the new epoch,
Create(n) ==
  /\ At(n, "create")
  /\ PutDb(n, srv[n].recov, {})
  /\ Go(n, "load")
  /\ UNCHANGED <<db, clients, req, crashes>>

\* and loads the one of the epoch to recover from.
Load(n) ==
  /\ At(n, "load")
  /\ srv' = [srv EXCEPT ![n].pc = "wait", ![n].old = srv[n].rec,
                        ![n].clids = recdb[n][srv[n].rec]]
  /\ UNCHANGED <<store, clients, req, crashes>>

\* nfs_wait_for_grace_enforcement: serves once the grace period is over, or
\* rados_grace_enforcing_check finds that every member enforces it.
Check(n) ==
  /\ At(n, "check")
  /\ IF srv[n].active /\ ~AllEnforcing(db)
     THEN Go(n, "wait")
     ELSE srv' = [srv EXCEPT ![n].pc = "idle", ![n].boot = FALSE]
  /\ UNCHANGED <<store, clients, req, crashes>>

-----------------------------------------------------------------------------
(* nfs_maybe_start_grace, rados_cluster_maybe_start_grace.                 *)

MaybeStart(n) ==
  /\ At(n, "idle") /\ ~srv[n].active
  /\ db.rec # 0
  /\ srv' = [srv EXCEPT ![n].pc = "snap", ![n].recov = db.cur, ![n].old = db.rec]
  /\ UNCHANGED <<store, clients, req, crashes>>

\* hashtable_for_each over the confirmed client ids.
Snap(n) ==
  /\ At(n, "snap")
  /\ srv' = [srv EXCEPT ![n].pc = "write", ![n].snap = {c \in Clients : conf[n][c] # "none"}]
  /\ UNCHANGED <<store, clients, req, crashes>>

WriteDb(n) ==
  /\ At(n, "write")
  /\ PutDb(n, srv[n].recov, srv[n].snap)
  /\ srv' = [srv EXCEPT ![n].pc = "start", ![n].snap = {}]
  /\ UNCHANGED <<db, clients, req, crashes>>

\* Mutant: does not look at the references.
StartGraceAtOnce(n) ==
  /\ At(n, "start")
  /\ srv' = [srv EXCEPT ![n].pc = "enforce", ![n].active = TRUE, ![n].change = FALSE]
  /\ UNCHANGED <<store, clients, req, crashes>>

\* Mutant: requests no change while there are references.
StartGracePolite(n) ==
  /\ At(n, "start")
  /\ IF req[n] # {}
     THEN Go(n, "idle")
     ELSE srv' = [srv EXCEPT ![n].pc = "enforce", ![n].active = TRUE, ![n].change = FALSE]
  /\ UNCHANGED <<store, clients, req, crashes>>

\* nfs_start_grace: while requests hold references, a change is requested and
\* the reaper tries again later.
StartGrace(n) ==
  /\ At(n, "start")
  /\ IF req[n] # {}
     THEN srv' = [srv EXCEPT ![n].pc = "idle", ![n].change = TRUE]
     ELSE srv' = [srv EXCEPT ![n].pc = "enforce", ![n].active = TRUE, ![n].change = FALSE]
  /\ UNCHANGED <<store, clients, req, crashes>>

-----------------------------------------------------------------------------
(* nfs_try_lift_grace.                                                     *)

\* All clients of the list have sent RECLAIM_COMPLETE.
AllComplete(n) ==
  ~EnableNLM /\ Cardinality(allow[n] \cap complete[n]) = Cardinality(srv[n].clids)

\* expired: grace_period has passed since nfs_start_grace, which the loop of a
\* starting server calls again before each attempt.
TryLift(n) ==
  /\ (At(n, "idle") /\ srv[n].active) \/ At(n, "wait")
  /\ \E expired \in BOOLEAN :
       /\ expired => ~srv[n].boot \/ SlowStart
       /\ IF expired \/ AllComplete(n)
          THEN srv' = [srv EXCEPT ![n].change = TRUE,
                                  ![n].pc = IF req[n] = {} THEN "lift" ELSE Back(n)]
          ELSE Go(n, Back(n))
  /\ UNCHANGED <<store, clients, req, crashes>>

\* rados_cluster_try_lift_grace: clears our need, and reports whether the
\* period is over.
Lift(n) ==
  /\ At(n, "lift")
  /\ db' = IF Writes(db, "lift", {n}, db.omap) THEN LiftDb(db, {n}, FALSE) ELSE db
  /\ Go(n, IF db'.rec = 0 THEN "end" ELSE Back(n))
  /\ UNCHANGED <<recdb, clients, req, crashes>>

\* Mutant: the server is left marked as enforcing.
EndGraceMarked(n) ==
  /\ At(n, "end")
  /\ srv' = [srv EXCEPT ![n].pc = "rmdb", ![n].old = 0, ![n].rec = srv[n].old]
  /\ UNCHANGED <<store, clients, req, crashes>>

\* rados_cluster_end_grace.
EndGrace(n) ==
  /\ At(n, "end")
  /\ IF srv[n].old = 0
     THEN Go(n, "clear") /\ UNCHANGED db
     ELSE /\ Toggle(n, FALSE)
          /\ srv' = [srv EXCEPT ![n].pc = "rmdb", ![n].old = 0, ![n].rec = srv[n].old]
  /\ UNCHANGED <<recdb, clients, req, crashes>>

RemoveDb(n) ==
  /\ At(n, "rmdb")
  /\ PutDb(n, srv[n].rec, {})
  /\ Go(n, "clear")
  /\ UNCHANGED <<db, clients, req, crashes>>

\* nfs_lift_grace_locked, after nfs_end_grace.
Clear(n) ==
  /\ At(n, "clear")
  /\ srv' = [srv EXCEPT ![n].pc = Back(n), ![n].active = FALSE, ![n].change = FALSE]
  /\ UNCHANGED <<store, clients, req, crashes>>

-----------------------------------------------------------------------------
(* Clients.                                                                *)

Serving(n) == ~At(n, "down") /\ ~srv[n].boot

\* nfs_client_id_confirm: the client id enters the table of confirmed ones,
Insert(n, c) ==
  /\ Serving(n) /\ conf[n][c] = "none"
  /\ conf' = [conf EXCEPT ![n][c] = "hashed"]
  /\ UNCHANGED <<store, srv, allow, complete, req, crashes>>

\* then the recovery database (rados_kv_add_clid), and nfs4_chk_clid looks it
\* up in the list of those who may reclaim.
Confirm(n, c) ==
  /\ Serving(n) /\ conf[n][c] = "hashed"
  /\ conf' = [conf EXCEPT ![n][c] = "confirmed"]
  /\ PutDb(n, srv[n].recov, recdb[n][srv[n].recov] \cup {c})
  /\ allow' = IF c \in srv[n].clids THEN [allow EXCEPT ![n] = @ \cup {c}] ELSE allow
  /\ UNCHANGED <<db, srv, complete, req, crashes>>

\* nfs4_op_reclaim_complete.
ReclaimComplete(n, c) ==
  /\ Serving(n) /\ conf[n][c] = "confirmed" /\ c \notin complete[n]
  /\ complete' = [complete EXCEPT ![n] = @ \cup {c}]
  /\ UNCHANGED <<store, srv, conf, allow, req, crashes>>

\* open4_validate_claim (CLAIM_PREVIOUS, or CLAIM_FH) and nfs_get_grace_status.
Request(n, c, reclaim) ==
  /\ Serving(n) /\ conf[n][c] = "confirmed"
  /\ reclaim => c \in allow[n] \ complete[n]
  /\ srv[n].active = reclaim /\ ~srv[n].change
  /\ req' = [req EXCEPT ![n] = @ \cup {<<c, reclaim>>}]
  /\ UNCHANGED <<store, srv, clients, crashes>>

\* nfs_put_grace_status, when the request has created its state.
Finish(n, r) ==
  /\ r \in req[n]
  /\ req' = [req EXCEPT ![n] = @ \ {r}]
  /\ UNCHANGED <<store, srv, conf, allow, complete, crashes>>

\* nfs_client_id_expire, of a client whose lease has expired.
Expire(n, c) ==
  /\ Serving(n) /\ conf[n][c] = "confirmed"
  /\ {<<c, TRUE>>, <<c, FALSE>>} \cap req[n] = {}
  /\ conf' = [conf EXCEPT ![n][c] = "none"]
  /\ allow' = [allow EXCEPT ![n] = @ \ {c}]
  /\ complete' = [complete EXCEPT ![n] = @ \ {c}]
  /\ PutDb(n, srv[n].recov, recdb[n][srv[n].recov] \ {c})
  /\ UNCHANGED <<db, srv, req, crashes>>

-----------------------------------------------------------------------------
(* Crash and shutdown.                                                     *)

Stop(n) ==
  /\ ~At(n, "down") /\ crashes < MaxCrashes
  /\ srv' = [srv EXCEPT ![n] = Down]
  /\ conf' = [conf EXCEPT ![n] = None]
  /\ allow' = [allow EXCEPT ![n] = {}]
  /\ complete' = [complete EXCEPT ![n] = {}]
  /\ req' = [req EXCEPT ![n] = {}]
  /\ crashes' = crashes + 1
  /\ UNCHANGED recdb

Crash(n) == Stop(n) /\ UNCHANGED db

\* rados_cluster_shutdown, of a server whose reaper has been stopped.
Shutdown(n) == At(n, "idle") /\ Stop(n) /\ db' = JoinDb(db, {n})

ServerStep(n) ==
  \/ Boot(n) \/ SetEnforcing(n) \/ Join(n) \/ Create(n) \/ Load(n) \/ Check(n)
  \/ MaybeStart(n) \/ Snap(n) \/ WriteDb(n) \/ StartGrace(n)
  \/ TryLift(n) \/ Lift(n) \/ EndGrace(n) \/ RemoveDb(n) \/ Clear(n)

ClientStep(n, c) ==
  \/ Insert(n, c) \/ Confirm(n, c) \/ ReclaimComplete(n, c) \/ Expire(n, c)
  \/ \E reclaim \in BOOLEAN : Request(n, c, reclaim)

Next == \E n \in Nodes :
          \/ ServerStep(n)
          \/ \E c \in Clients : <<n, c>> \in Mounts /\ ClientStep(n, c)
          \/ \E r \in req[n] : Finish(n, r)
          \/ Crash(n)
          \/ Shutdown(n)

Spec == Init /\ [][Next]_vars

\* A stopped server is started again, its threads run, and requests end. The
\* clients need do nothing. At "idle" the only step of TryLift that is no
\* stuttering is one that finds the period old enough, or all complete.
Fairness == \A n \in Nodes :
              /\ WF_vars(ServerStep(n))
              /\ WF_vars(\E r \in req[n] : Finish(n, r))

FairSpec == Spec /\ Fairness

-----------------------------------------------------------------------------
(* Properties.                                                             *)

\* A server that runs and is marked ENFORCING in the database blocks new state:
\* its grace period is active, and no request for new state is in progress.
\* The others lift, or begin to reclaim, on the strength of that mark.
EnforcingMeansBlocked ==
  \A n \in Nodes : ~At(n, "down") /\ db.omap[n].enforcing
                    => srv[n].active /\ \A c \in Clients : <<c, FALSE>> \notin req[n]

\* The state of grace does not change under a request that holds a reference on
\* it (nfs_get_grace_status); nfs_lift_grace_locked asserts that there is none.
GraceStable ==
  [][\A n \in Nodes : srv'[n].active # srv[n].active => req[n] = {}
                                                       \/ srv'[n].pc = "down"]_vars

\* The recovery database a server must recover from is left alone from its
\* start until it no longer needs the grace period, whatever epochs the other
\* servers and the requests write to, and through further crashes.
SourceKept ==
  [][\A n \in Nodes : db.omap[n].need /\ db'.omap[n].need
                       => recdb'[n][db.rec] = recdb[n][db.rec] /\ db'.rec = db.rec]_vars

\* A server recovers only while the grace period of the cluster lasts: no
\* other server ends it before, even when it crashes and starts again.
RecoveryInGrace ==
  \A n \in Nodes : db.omap[n].need => db.rec # 0

\* After the last crash every grace period of the cluster ends, and every server
\* comes to grant new state.
GraceEnds == <>[](db.rec = 0 /\ \A n \in Nodes : srv[n].pc = "idle" /\ ~srv[n].active)

\* While a recovering server lets a client reclaim, no other server is creating
\* new state, which could conflict with what is reclaimed
\* (ganesha-rados-cluster-design.rst: "This *must* be prevented").
ReclaimExcludesNewState ==
  \A n, m \in Nodes, c, d \in Clients :
     <<c, TRUE>> \in req[n] /\ db.omap[n].need => <<d, FALSE>> \notin req[m]

=============================================================================
