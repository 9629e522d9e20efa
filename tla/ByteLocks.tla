------------------------------ MODULE ByteLocks ------------------------------
(***************************************************************************)
(* What the lock list of a file promises: for every byte, which owners     *)
(* hold it, and for what. Locking a range sets the owner's bytes in it to  *)
(* the type asked for, whatever they were; unlocking clears them.          *)
(***************************************************************************)
EXTENDS Naturals

CONSTANTS Owners, Bytes

VARIABLE held   \* held[o][b]: "R", "W" or "none"

Init == held = [o \in Owners |-> [b \in Bytes |-> "none"]]

Range(s, e) == {b \in Bytes : s <= b /\ b <= e}

Compatible(t, u) == "none" \in {t, u} \/ (t = "R" /\ u = "R")

Set(h, o, B, t) == [h EXCEPT ![o] = [b \in Bytes |-> IF b \in B THEN t ELSE @[b]]]

\* From h, what is held may become g.
Lock(h, g, o, s, e, t) ==
  /\ \A p \in Owners \ {o}, b \in Range(s, e) : Compatible(h[p][b], t)
  /\ g = Set(h, o, Range(s, e), t)

Unlock(h, g, o, s, e) == g = Set(h, o, Range(s, e), "none")

Next == \E h \in {held}, g \in {held'} :
        \E o \in Owners, s \in Bytes : \E e \in {x \in Bytes : s <= x} :
          \/ \E t \in {"R", "W"} : Lock(h, g, o, s, e, t)
          \/ Unlock(h, g, o, s, e)

Spec == Init /\ [][Next]_held
=============================================================================
