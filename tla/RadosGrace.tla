----------------------------- MODULE RadosGrace -----------------------------
(***************************************************************************)
(* The calls of rados_grace.c as they run: servers and administrators read *)
(* the whole object, compute, and write on the condition that the version  *)
(* has not changed; if it has, they read again.                            *)
(***************************************************************************)
EXTENDS GraceOps

CONSTANTS Callers,   \* servers, and processes of ganesha-rados-grace
          Groups,    \* sets of nodeids that calls are made with
          MaxEpoch,  \* bound
          NULL

ASSUME RadosGraceAssumption == Groups \subseteq (SUBSET Nodes) \ {{}} /\ NULL \notin Ops

VARIABLES blob,  \* the data of the object: the two epochs
          omap,  \* its keys, the members, and their flags
          call,  \* the call of each caller
          gone   \* history: nodes that were removed

object == <<blob, omap, gone>>
vars == <<object, call>>

\* The object, as an attempt reads it.
obj == Db(blob[1], blob[2], omap)

\* A call that has read the object and is about to write:
\*   op, S  what was called, and with which nodes
\*   seen   flags of the matched nodes; kept from one attempt to the next
\*   out    what it is about to write
\*   fresh  whether the version is still the one that was read
Call(op, S, seen, out, fresh) ==
  [op |-> op, S |-> S, seen |-> seen, out |-> out, fresh |-> fresh]

NoFlags == Only(NewDb.omap, {})

\* No call, or one that has returned.
Idle == Call(NULL, {}, NoFlags, NULL, FALSE)

Init == /\ blob = <<NewDb.cur, NewDb.rec>> /\ omap = NewDb.omap
        /\ call = [c \in Callers |-> Idle]
        /\ gone = {}

-----------------------------------------------------------------------------

\* The read of an attempt, and what the code computes from it, up to the write
\* or the return; old holds what earlier attempts matched.
Attempt(c, op, S, old) ==
  /\ LET seen == Over(old, Only(omap, S))
     IN  call' = [call EXCEPT ![c] = IF Writes(obj, op, S, seen)
                                     THEN Call(op, S, seen, Written(obj, op, S, seen), TRUE)
                                     ELSE Idle]
  /\ UNCHANGED object

Begin(c, op, S) == call[c].op = NULL /\ Attempt(c, op, S, NoFlags)

\* Mutant: the write does not depend on the version.
CommitBlind(c) ==
  /\ call[c].op # NULL
  /\ call[c].out.cur <= MaxEpoch
  /\ blob' = <<call[c].out.cur, call[c].out.rec>> /\ omap' = call[c].out.omap
  /\ gone' = gone \cup (DOMAIN omap \ DOMAIN omap')
  /\ call' = [call EXCEPT ![c] = Idle]

\* rados_write_op_operate when the version is the one that was read: the other
\* callers' reads are now out of date.
Commit(c) ==
  /\ call[c].op # NULL /\ call[c].fresh
  /\ call[c].out.cur <= MaxEpoch
  /\ blob' = <<call[c].out.cur, call[c].out.rec>> /\ omap' = call[c].out.omap
  /\ gone' = gone \cup (DOMAIN omap \ DOMAIN omap')
  /\ call' = [x \in Callers |->
                IF x = c THEN Idle
                ELSE Call(call[x].op, call[x].S, call[x].seen, NULL, FALSE)]

\* ... and when it is not: -ERANGE, and the loop begins again.
Again(c) ==
  /\ call[c].op # NULL /\ ~call[c].fresh
  /\ Attempt(c, call[c].op, call[c].S, call[c].seen)

\* The caller crashes, or the operation fails.
Abort(c) ==
  /\ call[c].op # NULL
  /\ call' = [call EXCEPT ![c] = Idle]
  /\ UNCHANGED object

Next == \E c \in Callers :
           \/ \E op \in Ops, S \in Groups : Begin(c, op, S)
           \/ Commit(c)
           \/ Again(c)
           \/ Abort(c)

Spec == Init /\ [][Next]_vars

-----------------------------------------------------------------------------
(* Properties.                                                             *)

\* The epoch to recover from is always the one before the current one, and
\* there are no others (rados_grace_create, rados_grace_join_bulk): servers
\* that began at different times recover from the same epoch.
EpochsAdjacent == blob[2] \in {0, blob[1] - 1}

\* The read and the conditional write of each call together amount to one
\* step (the loops of rados_grace.c): no call undoes what another one wrote
\* in between, whichever way they overlap, and whenever a caller stops.
Atomic == INSTANCE GraceDb WITH db <- obj
CallsAtomic == Atomic!Spec

\* A grace period ends only while every member enforces it, and a server that
\* lifts it leaves no member behind that still needs it
\* (rados_grace_lift_bulk).
LiftedWhenDone ==
  [][blob[2] # 0 /\ blob[2]' = 0 =>
       /\ AllEnforcing(obj)
       /\ \A c \in Callers :
            call[c].op = "lift" /\ call[c]'.op = NULL => Needing(obj') = {}]_vars

=============================================================================
