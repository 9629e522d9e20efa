--------------------------- MODULE MCDeviceSync ----------------------------
(* DeviceSync on small instances.                                          *)
EXTENDS DeviceSync

CONSTANTS o1, o2, o3, q1, i1, i2, n1, n2, a1, a2, p1, k1, h1, h2

Rec(i, n, a, adm, op, au) ==
  [id |-> i, name |-> n, prot |-> a, admin |-> adm, op |-> op,
   pname |-> p1, pid |-> k1, autos |-> au]

\* Two devices; the first changes every field that update_in_place compares,
\* and may give up the name that the second has later.
Updates ==
  {Rec(i1, n1, a1, "UNLOCKED", "ENABLED", "none"),
   Rec(i1, n1, a1, "LOCKED", "DISABLED", "none"),
   Rec(i1, n1, a2, "UNLOCKED", "ENABLED", "some"),
   Rec(i1, n2, a1, "UNLOCKED", "ENABLED", "none"),
   Rec(i2, n2, a1, "UNLOCKED", "ENABLED", "none")}

\* One device with two addresses.
OneDevice ==
  {Rec(i1, n1, a1, "UNLOCKED", "ENABLED", "none"),
   Rec(i1, n1, a2, "UNLOCKED", "ENABLED", "none")}

World(o, s, q, f, m) ==
  [ordered |-> o, serial |-> s, quiet |-> q, faulty |-> f, most |-> m]
AnyWorld == {World(FALSE, TRUE, TRUE, FALSE, 3), World(FALSE, FALSE, FALSE, TRUE, 2)}
Overlapping == {World(TRUE, FALSE, TRUE, FALSE, 2)}
=============================================================================
