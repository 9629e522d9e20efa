------------------------------ MODULE GraceDb -------------------------------
(***************************************************************************)
(* What the library of the grace database promises: a call changes the     *)
(* object in one step, or leaves it as it is.                              *)
(***************************************************************************)
EXTENDS GraceOps

VARIABLES db,    \* the object
          gone   \* history: nodes that were removed from the object

Init == db = NewDb /\ gone = {}

\* A call takes effect in one step. A node that was removed while the call
\* was under way may still count as matched, with the flags it had: join and
\* toggle then put it back.
Do(op, S) ==
  \E old \in UNION {[T -> Flags] : T \in SUBSET (gone \cap S)} :
    LET seen == Over(old, Only(db.omap, S))
    IN  /\ Writes(db, op, S, seen)
        /\ db' = Written(db, op, S, seen)
        /\ gone' = gone \cup (Members(db) \ Members(db'))

Next == \E op \in Ops, S \in (SUBSET Nodes) \ {{}} : Do(op, S)

Spec == Init /\ [][Next]_<<db, gone>>

=============================================================================
