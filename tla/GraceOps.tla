------------------------------ MODULE GraceOps ------------------------------
(***************************************************************************)
(* The grace database of a cluster of NFS servers                          *)
(* (nfs-ganesha/src/support/rados_grace.c): one RADOS object that holds    *)
(* the current epoch, the epoch from which clients may recover (zero when  *)
(* there is no grace period), and the flags of each member.                *)
(*                                                                         *)
(* The operators say what each library call writes, given what it read.    *)
(***************************************************************************)
EXTENDS Integers, FiniteSets

CONSTANTS Nodes,     \* nodeids
          MaxItems   \* MAX_ITEMS

ASSUME GraceDbAssumption == IsFiniteSet(Nodes) /\ MaxItems \in Nat

\* RADOS_GRACE_NEED_GRACE and RADOS_GRACE_ENFORCING.
Flags == [need : BOOLEAN, enforcing : BOOLEAN]

FlagMaps == UNION {[S -> Flags] : S \in SUBSET Nodes}

Db(cur, rec, omap) == [cur |-> cur, rec |-> rec, omap |-> omap]

Members(d) == DOMAIN d.omap

Needing(d) == {n \in Members(d) : d.omap[n].need}

AllEnforcing(d) == \A n \in Members(d) : d.omap[n].enforcing

\* The entries of f, with those of g put over them.
Over(f, g) == [n \in DOMAIN f \cup DOMAIN g |-> IF n \in DOMAIN g THEN g[n] ELSE f[n]]

Only(f, S) == [n \in DOMAIN f \cap S |-> f[n]]

-----------------------------------------------------------------------------
(* What the calls write.                                                   *)

\* rados_grace_create.
NewDb == Db(1, 0, [n \in {} |-> [need |-> FALSE, enforcing |-> FALSE]])

\* Mutant: every join begins an epoch.
JoinDbAdvance(d, S) ==
  Db(d.cur + 1, IF d.rec = 0 THEN d.cur ELSE d.rec,
     Over(d.omap, [n \in S |-> [need |-> TRUE, enforcing |-> TRUE]]))

\* rados_grace_join_bulk, called with start: joins the grace period, or
\* begins one with a new epoch.
JoinDb(d, S) ==
  LET omap == Over(d.omap, [n \in S |-> [need |-> TRUE, enforcing |-> TRUE]])
  IN  IF d.rec = 0 THEN Db(d.cur + 1, d.cur, omap) ELSE Db(d.cur, d.rec, omap)

\* rados_grace_enforcing_toggle; seen holds the flags that were matched.
ToggleDb(d, S, seen, enable) ==
  Db(d.cur, d.rec,
     Over(d.omap, [n \in S |-> [need |-> seen[n].need, enforcing |-> enable]]))

\* Mutant: collects the members that do not need the period, too.
LiftKeysAll(d, S, remove) == Members(d) \cap S

\* The keys that rados_grace_lift_bulk collects: with remove, needing or not.
LiftKeys(d, S, remove) == {n \in Members(d) \cap S : remove \/ d.omap[n].need}

\* rados_grace_lift_bulk: the period ends when as many keys are written as
\* there are members that need it.
LiftDb(d, S, remove) ==
  LET keys == LiftKeys(d, S, remove)
      omap == IF remove
              THEN Only(d.omap, Members(d) \ keys)
              ELSE Over(d.omap, [n \in keys |-> [need |-> FALSE,
                                                 enforcing |-> d.omap[n].enforcing]])
  IN  Db(d.cur, IF Cardinality(Needing(d)) = Cardinality(keys) THEN 0 ELSE d.rec, omap)

\* rados_grace_add.
AddDb(d, S) == Db(d.cur, d.rec, Over(d.omap, [n \in S |-> [need |-> FALSE, enforcing |-> TRUE]]))

\* Whether a call writes at all. Otherwise it returns: the object has too many
\* keys to be read, a node is no member, there is no period to join, some
\* member is not enforcing yet, or nothing would change.
Writes(d, op, S, seen) ==
  /\ Cardinality(Members(d)) <= MaxItems
  /\ CASE op \in {"enforce", "noenforce", "start"} -> S \subseteq DOMAIN seen
       [] op = "join"            -> S \subseteq DOMAIN seen /\ d.rec # 0
       [] op \in {"lift", "remove"} ->
            /\ d.rec # 0 => AllEnforcing(d)
            /\ S \subseteq DOMAIN seen
            /\ LiftKeys(d, S, op = "remove") # {}
       [] op = "add"             -> S \cap Members(d) = {}

Written(d, op, S, seen) ==
  CASE op \in {"start", "join"}        -> JoinDb(d, S)
    [] op \in {"enforce", "noenforce"} -> ToggleDb(d, S, seen, op = "enforce")
    [] op \in {"lift", "remove"}       -> LiftDb(d, S, op = "remove")
    [] op = "add"                      -> AddDb(d, S)

Ops == {"start", "join", "lift", "remove", "enforce", "noenforce", "add"}

=============================================================================
