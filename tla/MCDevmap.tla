------------------------------ MODULE MCDevmap ------------------------------
(***************************************************************************)
(* Devmap on a small instance: two devices that exchange names and change  *)
(* address, states, autoevents and profile while threads hold them and     *)
(* profiles are fetched, entered and removed.                              *)
(***************************************************************************)
EXTENDS Devmap, TLC

CONSTANTS o1, o2, q1, q2, i1, i2, n1, n2, a1, a2, p1, p2, k1, k2,
          t1, t2

Rec(i, n, a, adm, op, p, k, au) ==
  [id |-> i, name |-> n, prot |-> a, admin |-> adm, op |-> op,
   pname |-> p, pid |-> k, autos |-> au]

\* Two ids that take each other's name, one with two addresses and two
\* profiles, whose ids are exchanged.
Changes ==
  {Rec(i1, n1, a1, "UNLOCKED", "ENABLED", p1, k1, "none"),
   Rec(i1, n2, a2, "LOCKED", "ENABLED", p2, k2, "none"),
   Rec(i1, n1, a1, "LOCKED", "DISABLED", p1, k2, "none"),
   Rec(i2, n1, a2, "UNLOCKED", "ENABLED", p1, k1, "some")}

Symm == Permutations(Objs) \cup Permutations(Threads) \cup Permutations(ProfObjs)

=============================================================================
