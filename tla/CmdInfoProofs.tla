--------------------------- MODULE CmdInfoProofs ----------------------------
(***************************************************************************)
(* Proofs about CmdInfo, for any profile and any number of threads: the    *)
(* list is complete whenever no thread is building it, pointers stay in    *)
(* the list, and a lookup finds what the profile means.                    *)
(*                                                                         *)
(* QuiescentComplete is not inductive: it says nothing while a thread is   *)
(* building.  The invariant says how far each thread's own chain of nodes  *)
(* has got, and that the chain at prof->cmdinfo belongs to a thread that   *)
(* is building or has finished.                                            *)
(***************************************************************************)
EXTENDS CmdInfo, WellFoundedInduction, TLAPS

-----------------------------------------------------------------------------
(* What Joined returns, by induction in the form of a least exception. *)

\* A set of numbers has a least one.
LEMMA LeastNat ==
  ASSUME NEW T, T \subseteq Nat, T # {}
  PROVE  \E m \in T : \A n \in T : m <= n
<1>1. PICK R : R = OpToRel(<, Nat)
  BY Zenon
<1>2. IsWellFoundedOn(R, Nat)
  BY Zenon, <1>1, NatLessThanWellFounded
<1>3. \A x, y \in Nat : <<y, x>> \in R <=> y < x
  BY <1>1 DEF OpToRel
<1>4. \E x \in T : \A y \in T : ~ (<<y, x>> \in R)
  BY Zenon, <1>2, WFMin
<1>5. PICK m \in T : \A y \in T : ~ (<<y, m>> \in R)
  BY <1>4
<1>6. ASSUME NEW n \in T PROVE m <= n
  <2>1. m \in Nat /\ n \in Nat /\ ~(n < m)
    BY Zenon, <1>3, <1>5
  <2> QED
    BY <2>1
<1> QED
  BY <1>6

\* The function that Joined chooses exists.
LEMMA JoinExists ==
  ASSUME NEW S, NEW s \in Seq(Seq(S)), Len(s) # 0
  PROVE  \E f : f = [i \in 1..Len(s) |-> IF i = 1 THEN s[i] ELSE f[i - 1] \o s[i]]
<1> DEFINE Def(n) == \E f : f = [i \in 1..n |-> IF i = 1 THEN s[i] ELSE f[i - 1] \o s[i]]
<1> SUFFICES ASSUME ~Def(Len(s)) PROVE FALSE
  BY Zenon
<1> DEFINE T == {n \in Nat : n >= 1 /\ ~Def(n)}
<1> HIDE DEF Def
<1>0. Len(s) \in T
  OBVIOUS
<1>1. PICK m \in T : \A n \in T : m <= n
  BY Zenon, <1>0, LeastNat
<1>2. m # 1
  <2>1. [i \in 1..1 |-> s[1]] = [i \in 1..1 |-> IF i = 1 THEN s[i] ELSE [j \in 1..1 |-> s[1]][i - 1] \o s[i]]
    OBVIOUS
  <2>2. Def(1)
    BY Zenon, <2>1 DEF Def
  <2> QED
    BY <2>2
<1>3. Def(m - 1)
  BY <1>1, <1>2
<1>4. PICK f : f = [i \in 1..(m-1) |-> IF i = 1 THEN s[i] ELSE f[i - 1] \o s[i]]
  BY Zenon, <1>3 DEF Def
<1>5. \A i \in 1..(m - 1) : f[i] = IF i = 1 THEN s[i] ELSE f[i - 1] \o s[i]
  BY Zenon, <1>4
<1>6. PICK c : c = f[m - 1] \o s[m]
  BY Zenon
<1>7. PICK g : g = [i \in 1..m |-> IF i = m THEN c ELSE f[i]]
  BY Zenon
<1>8. ASSUME NEW i \in 1..m PROVE g[i] = IF i = 1 THEN s[i] ELSE g[i - 1] \o s[i]
  <2>1. m \in Nat /\ m > 1
    BY <1>1, <1>2
  <2>2. CASE i = m
    <3>1. g[m - 1] = f[m - 1] /\ g[m] = c /\ m # 1
      BY <1>7, <2>1
    <3>2. g[m] = IF m = 1 THEN s[m] ELSE g[m - 1] \o s[m]
      BY Zenon, <1>6, <3>1
    <3> QED
      BY Zenon, <2>2, <3>2
  <2>3. CASE i # m
    <3>1. i \in 1..(m - 1)
      BY <2>1, <2>3
    <3>2. g[i] = f[i]
      BY <1>7, <2>3
    <3>3. f[i] = IF i = 1 THEN s[i] ELSE f[i - 1] \o s[i]
      BY <1>5, <3>1
    <3>4. i # 1 => g[i - 1] = f[i - 1]
      BY <1>7, <2>1, <3>1
    <3> QED
      BY <3>2, <3>3, <3>4
  <2> QED
    BY <2>2, <2>3
<1>9. g = [i \in 1..m |-> IF i = 1 THEN s[i] ELSE g[i - 1] \o s[i]]
  BY <1>7, <1>8
<1>10. Def(m)
  BY Zenon, <1>9 DEF Def
<1> QED
  BY <1>1, <1>10

LEMMA JoinIs ==
  ASSUME NEW S, NEW s \in Seq(Seq(S)), Len(s) # 0
  PROVE  \E f : /\ f = [i \in 1..Len(s) |-> IF i = 1 THEN s[i] ELSE f[i - 1] \o s[i]]
                /\ Joined(s) = f[Len(s)]
<1>1. s # <<>>
  OBVIOUS
<1> QED
  BY Zenon, <1>1, JoinExists DEF Joined

\* Every element of t is an element of one of the sequences s.
From(t, s) == \A k \in 1..Len(t) : \E i \in 1..Len(s) : \E j \in 1..Len(s[i]) : t[k] = s[i][j]

LEMMA FromPart ==
  ASSUME NEW S, NEW s \in Seq(Seq(S)), NEW m \in 1..Len(s)
  PROVE  s[m] \in Seq(S) /\ From(s[m], s)
<1>1. s[m] \in Seq(S)
  OBVIOUS
<1>2. From(s[m], s)
  BY DEF From
<1> QED
  BY <1>1, <1>2

LEMMA FromConcat ==
  ASSUME NEW S, NEW s \in Seq(Seq(S)), NEW p \in Seq(S), NEW q \in Seq(S), From(p, s), From(q, s)
  PROVE  p \o q \in Seq(S) /\ From(p \o q, s)
<1>1. p \o q \in Seq(S)
  OBVIOUS
<1>2. ASSUME NEW k \in 1..Len(p \o q)
      PROVE  \E i \in 1..Len(s) : \E j \in 1..Len(s[i]) : (p \o q)[k] = s[i][j]
  <2>1. /\ Len(p \o q) = Len(p) + Len(q) /\ Len(p) \in Nat /\ Len(q) \in Nat
        /\ (p \o q)[k] = IF k <= Len(p) THEN p[k] ELSE q[k - Len(p)]
    BY <1>2
  <2>2. CASE k <= Len(p)
    <3>1. k \in 1..Len(p) /\ (p \o q)[k] = p[k]
      BY <2>1, <2>2
    <3> QED
      BY SMTT(30), <3>1 DEF From
  <2>3. CASE ~(k <= Len(p))
    <3>1. PICK l : l = k - Len(p)
      OBVIOUS
    <3>2. l \in 1..Len(q) /\ (p \o q)[k] = q[l]
      BY <2>1, <2>3, <3>1
    <3>3. \E i \in 1..Len(s) : \E j \in 1..Len(s[i]) : q[l] = s[i][j]
      BY SMTT(30), <3>2 DEF From
    <3> QED
      BY Zenon, <3>2, <3>3
  <2> QED
    BY SMTT(60), <2>2, <2>3
<1> QED
  BY Zenon, <1>1, <1>2 DEF From

\* Joined adds nothing to the elements of the sequences.
LEMMA JoinFrom ==
  ASSUME NEW S, NEW s \in Seq(Seq(S))
  PROVE  Joined(s) \in Seq(S) /\ From(Joined(s), s)
<1>1. CASE Len(s) = 0
  <2>1. Joined(s) = s /\ s = <<>>
    BY <1>1 DEF Joined
  <2> QED
    BY <2>1 DEF From
<1>2. CASE Len(s) # 0
  <2>1. PICK f : /\ f = [i \in 1..Len(s) |-> IF i = 1 THEN s[i] ELSE f[i - 1] \o s[i]]
                 /\ Joined(s) = f[Len(s)]
    BY Zenon, <1>2, JoinIs
  <2>2. \A n \in 1..Len(s) : f[n] = IF n = 1 THEN s[n] ELSE f[n - 1] \o s[n]
    BY Zenon, <2>1
  <2> DEFINE T == {n \in Nat : n \in 1..Len(s) /\ ~(f[n] \in Seq(S) /\ From(f[n], s))}
  <2>3. T = {}
    <3> SUFFICES ASSUME T # {} PROVE FALSE
      OBVIOUS
    <3>1. PICK m \in T : \A n \in T : m <= n
      BY Zenon, LeastNat
    <3>2. m \in Nat /\ m \in 1..Len(s) /\ ~(f[m] \in Seq(S) /\ From(f[m], s))
      BY <3>1
    <3>3. s[m] \in Seq(S) /\ From(s[m], s)
      BY <3>2, FromPart
    <3>4. m # 1 /\ f[m] = f[m - 1] \o s[m]
      BY Zenon, <2>2, <3>2, <3>3
    <3>5. m - 1 \in Nat /\ m - 1 \in 1..Len(s) /\ m - 1 \notin T
      BY <3>1, <3>2, <3>4
    <3>6. f[m - 1] \in Seq(S) /\ From(f[m - 1], s)
      BY <3>5
    <3> QED
      BY SMTT(60), <3>2, <3>3, <3>4, <3>6, FromConcat
  <2>4. f[Len(s)] \in Seq(S) /\ From(f[Len(s)], s)
    BY <1>2, <2>3
  <2> QED
    BY <2>1, <2>4
<1> QED
  BY <1>1, <1>2

-----------------------------------------------------------------------------
(* The list that populateCmdInfo builds.                                   *)

\* What infoForRes and infoForDevRes append: none, one or two nodes.
LEMMA TwoInfos ==
  ASSUME NEW S, NEW x \in S, NEW y \in S, NEW u, NEW v, u = <<>> \/ u = <<x>>, v = <<>> \/ v = <<y>>
  PROVE  /\ u \o v \in Seq(S)
         /\ \A j \in 1..Len(u \o v) : ((u \o v)[j] = x /\ u = <<x>>) \/ ((u \o v)[j] = y /\ v = <<y>>)
<1>1. u \in Seq(S) /\ v \in Seq(S)
  <2>1. <<x>> \in Seq(S) /\ <<y>> \in Seq(S) /\ <<>> \in Seq(S)
    OBVIOUS
  <2> QED
    BY Zenon, <2>1
<1>2. u \o v \in Seq(S) /\ Len(u \o v) = Len(u) + Len(v)
  BY <1>1
<1>3. ASSUME NEW j \in 1..Len(u \o v)
      PROVE  ((u \o v)[j] = x /\ u = <<x>>) \/ ((u \o v)[j] = y /\ v = <<y>>)
  <2>1. (u \o v)[j] = IF j <= Len(u) THEN u[j] ELSE v[j - Len(u)]
    BY <1>1, <1>2
  <2>2. CASE u = <<>>
    <3>1. v = <<y>> /\ j = 1 /\ Len(u) = 0
      BY <1>2, <2>2
    <3> QED
      BY <2>1, <3>1
  <2>3. CASE u = <<x>>
    <3>1. Len(u) = 1 /\ u[1] = x
      BY <2>3
    <3>2. CASE j = 1
      <4>1. (u \o v)[1] = u[1]
        BY <2>1, <3>1, <3>2
      <4> QED
        <5>1. (u \o v)[j] = x
          BY <3>1, <3>2, <4>1
        <5> QED
          BY <2>3, <5>1
    <3>3. CASE j # 1
      <4>1. v = <<y>> /\ j = 2
        BY <1>2, <3>1, <3>3
      <4> QED
        BY <2>1, <3>1, <4>1
    <3> QED
      BY <3>2, <3>3
  <2> QED
    BY <2>2, <2>3
<1> QED
  BY <1>2, <1>3

\* A list node, and where it comes from.
Node(name, isget, reqs) == [name |-> name, isget |-> isget, reqs |-> reqs]

FromCommand(c, x) ==
  \/ c.get # <<>> /\ x = Node(c.name, TRUE, c.get)
  \/ c.set # <<>> /\ x = Node(c.name, FALSE, c.set)

FromResource(p, r, x) ==
  /\ ~\E i \in DOMAIN p.commands : p.commands[i].name = r.name
  /\ \/ r.readable /\ x = Node(r.name, TRUE, <<r.name>>)
     \/ r.writable /\ x = Node(r.name, FALSE, <<r.name>>)

LEMMA CommandPart ==
  ASSUME NEW c, NEW S, Node(c.name, TRUE, c.get) \in S, Node(c.name, FALSE, c.set) \in S
  PROVE  /\ CommandInfo(c) \in Seq(S)
         /\ \A j \in 1..Len(CommandInfo(c)) : FromCommand(c, CommandInfo(c)[j])
<1>1. PICK x, y : x = Node(c.name, TRUE, c.get) /\ y = Node(c.name, FALSE, c.set)
  BY Zenon
<1>2. PICK u, v : /\ u = IF c.get # <<>> THEN <<x>> ELSE <<>>
                  /\ v = IF c.set # <<>> THEN <<y>> ELSE <<>>
  BY Zenon
<1>3. CommandInfo(c) = u \o v
  BY <1>1, <1>2 DEF CommandInfo, Info, Node
<1>4. /\ u \o v \in Seq(S)
      /\ \A j \in 1..Len(u \o v) : ((u \o v)[j] = x /\ u = <<x>>) \/ ((u \o v)[j] = y /\ v = <<y>>)
  <2>1. (u = <<>> \/ u = <<x>>) /\ (v = <<>> \/ v = <<y>>) /\ x \in S /\ y \in S
    BY Zenon, <1>1, <1>2
  <2> QED
    BY <2>1, TwoInfos
<1>5. (u = <<x>> => c.get # <<>>) /\ (v = <<y>> => c.set # <<>>)
  <2>1. <<x>> # <<>> /\ <<y>> # <<>>
    OBVIOUS
  <2> QED
    BY <1>2, <2>1
<1> QED
  BY Zenon, <1>1, <1>3, <1>4, <1>5 DEF FromCommand

LEMMA ResourcePart ==
  ASSUME NEW p, NEW r, NEW S,
         Node(r.name, TRUE, <<r.name>>) \in S, Node(r.name, FALSE, <<r.name>>) \in S
  PROVE  /\ ResourceInfo(p, r) \in Seq(S)
         /\ \A j \in 1..Len(ResourceInfo(p, r)) : FromResource(p, r, ResourceInfo(p, r)[j])
<1>1. CASE \E i \in DOMAIN p.commands : p.commands[i].name = r.name
  <2>1. ResourceInfo(p, r) = <<>>
    BY Zenon, <1>1 DEF ResourceInfo
  <2> QED
    BY <2>1
<1>2. CASE ~\E i \in DOMAIN p.commands : p.commands[i].name = r.name
  <2>1. PICK x, y : x = Node(r.name, TRUE, <<r.name>>) /\ y = Node(r.name, FALSE, <<r.name>>)
    BY Zenon
  <2>2. PICK u, v : /\ u = IF r.readable THEN <<x>> ELSE <<>>
                    /\ v = IF r.writable THEN <<y>> ELSE <<>>
    BY Zenon
  <2>3. ResourceInfo(p, r) = u \o v
    BY <1>2, <2>1, <2>2 DEF ResourceInfo, Info, Node
  <2>4. /\ u \o v \in Seq(S)
        /\ \A j \in 1..Len(u \o v) : ((u \o v)[j] = x /\ u = <<x>>) \/ ((u \o v)[j] = y /\ v = <<y>>)
    <3>1. (u = <<>> \/ u = <<x>>) /\ (v = <<>> \/ v = <<y>>) /\ x \in S /\ y \in S
      BY Zenon, <2>1, <2>2
    <3> QED
      BY SMTT(60), <3>1, TwoInfos
  <2>5. (u = <<x>> => r.readable) /\ (v = <<y>> => r.writable)
    <3>1. <<x>> # <<>> /\ <<y>> # <<>>
      OBVIOUS
    <3> QED
      BY <2>2, <3>1
  <2> QED
    BY Zenon, <1>2, <2>1, <2>3, <2>4, <2>5 DEF FromResource
<1> QED
  BY <1>1, <1>2

\* A sequence of sequences whose elements have the property that J says.
LEMMA JoinParts ==
  ASSUME NEW S, NEW s, NEW n \in Nat, NEW J, DOMAIN s = 1..n, s = [i \in 1..n |-> s[i]],
         \A i \in 1..n : s[i] \in Seq(S) /\ \A j \in 1..Len(s[i]) : <<i, s[i][j]>> \in J
  PROVE  /\ Joined(s) \in Seq(S)
         /\ \A k \in 1..Len(Joined(s)) : \E i \in 1..n : <<i, Joined(s)[k]>> \in J
<1>1. s \in Seq(Seq(S)) /\ Len(s) = n
  <2>1. s \in [1..n -> Seq(S)]
    OBVIOUS
  <2> QED
    BY <2>1
<1>2. Joined(s) \in Seq(S) /\ From(Joined(s), s)
  BY <1>1, JoinFrom
<1> QED
  BY Zenon, <1>1, <1>2 DEF From

\* Every node of the list comes from a deviceCommand or a deviceResource.
LEMMA InfosFrom ==
  ASSUME NEW p \in Profiles
  PROVE  /\ Len(Infos(p)) \in Nat
         /\ \A k \in 1..Len(Infos(p)) :
              \/ \E i \in DOMAIN p.commands : FromCommand(p.commands[i], Infos(p)[k])
              \/ \E i \in DOMAIN p.resources : FromResource(p, p.resources[i], Infos(p)[k])
<1>1. PICK m \in Nat, n \in Nat : DOMAIN p.commands = 1..m /\ DOMAIN p.resources = 1..n
  <2>1. IsSeq(p.commands) /\ IsSeq(p.resources)
    BY CmdInfoAssumption
  <2>2. \A s : IsSeq(s) => \E n \in Nat : DOMAIN s = 1..n
    BY DEF IsSeq
  <2> QED
    BY <2>1, <2>2
<1>2. PICK c, r : c = p.commands /\ r = p.resources
  OBVIOUS
<1> DEFINE S == {Node(c[i].name, TRUE, c[i].get) : i \in 1..m}
                  \cup {Node(c[i].name, FALSE, c[i].set) : i \in 1..m}
                  \cup {Node(r[i].name, TRUE, <<r[i].name>>) : i \in 1..n}
                  \cup {Node(r[i].name, FALSE, <<r[i].name>>) : i \in 1..n}
           s == [i \in 1..m |-> CommandInfo(c[i])]
           t == [i \in 1..n |-> ResourceInfo(p, r[i])]
           J == {z \in (1..m) \X S : FromCommand(c[z[1]], z[2])}
           K == {z \in (1..n) \X S : FromResource(p, r[z[1]], z[2])}
<1>3. \A i \in 1..m : Node(c[i].name, TRUE, c[i].get) \in S /\ Node(c[i].name, FALSE, c[i].set) \in S
  BY Zenon
<1>4. \A i \in 1..n : /\ Node(r[i].name, TRUE, <<r[i].name>>) \in S
                      /\ Node(r[i].name, FALSE, <<r[i].name>>) \in S
  BY Zenon
<1> HIDE DEF S
<1>5. \A i \in 1..m : s[i] \in Seq(S) /\ \A j \in 1..Len(s[i]) : <<i, s[i][j]>> \in J
  <2> SUFFICES ASSUME NEW i \in 1..m
               PROVE  s[i] \in Seq(S) /\ \A j \in 1..Len(s[i]) : <<i, s[i][j]>> \in J
    OBVIOUS
  <2>1. PICK q : q = CommandInfo(c[i])
    OBVIOUS
  <2>2. q \in Seq(S) /\ \A j \in 1..Len(q) : FromCommand(c[i], q[j])
    BY Zenon, <1>3, <2>1, CommandPart
  <2> QED
    BY <2>1, <2>2
<1>6. \A i \in 1..n : t[i] \in Seq(S) /\ \A j \in 1..Len(t[i]) : <<i, t[i][j]>> \in K
  <2> SUFFICES ASSUME NEW i \in 1..n
               PROVE  t[i] \in Seq(S) /\ \A j \in 1..Len(t[i]) : <<i, t[i][j]>> \in K
    OBVIOUS
  <2>1. PICK q : q = ResourceInfo(p, r[i])
    OBVIOUS
  <2>2. q \in Seq(S) /\ \A j \in 1..Len(q) : FromResource(p, r[i], q[j])
    BY Zenon, <1>4, <2>1, ResourcePart
  <2> QED
    BY <2>1, <2>2
<1>7. Infos(p) = Joined(s) \o Joined(t)
  BY <1>1, <1>2 DEF Infos
<1>8. \A i, x : (<<i, x>> \in J => FromCommand(c[i], x) /\ i \in 1..m)
               /\ (<<i, x>> \in K => FromResource(p, r[i], x) /\ i \in 1..n)
  OBVIOUS
<1>9. DOMAIN s = 1..m /\ s = [i \in 1..m |-> s[i]] /\ DOMAIN t = 1..n /\ t = [i \in 1..n |-> t[i]]
  OBVIOUS
<1> HIDE DEF s, t, J, K
<1>10. PICK a, b : a = Joined(s) /\ b = Joined(t)
  OBVIOUS
<1>11. a \in Seq(S) /\ \A k \in 1..Len(a) : \E i \in 1..m : <<i, a[k]>> \in J
  BY Zenon, <1>5, <1>9, <1>10, JoinParts
<1>12. b \in Seq(S) /\ \A k \in 1..Len(b) : \E i \in 1..n : <<i, b[k]>> \in K
  BY Zenon, <1>6, <1>9, <1>10, JoinParts
<1>13. Len(a \o b) = Len(a) + Len(b) /\ Len(a) \in Nat /\ Len(b) \in Nat
  BY <1>11, <1>12
<1>14. ASSUME NEW k \in 1..Len(a \o b)
       PROVE  \/ \E i \in 1..m : FromCommand(c[i], (a \o b)[k])
              \/ \E i \in 1..n : FromResource(p, r[i], (a \o b)[k])
  <2>1. (a \o b)[k] = IF k <= Len(a) THEN a[k] ELSE b[k - Len(a)]
    BY <1>11, <1>12, <1>13
  <2>2. CASE k <= Len(a)
    <3>1. k \in 1..Len(a) /\ (a \o b)[k] = a[k]
      BY <1>13, <2>1, <2>2
    <3>2. PICK i \in 1..m : <<i, a[k]>> \in J
      BY <1>11, <3>1
    <3> QED
      BY <1>8, <3>1, <3>2
  <2>3. CASE ~(k <= Len(a))
    <3>1. PICK l : l = k - Len(a)
      OBVIOUS
    <3>2. l \in 1..Len(b) /\ (a \o b)[k] = b[l]
      BY <1>13, <2>1, <2>3, <3>1
    <3>3. PICK i \in 1..n : <<i, b[l]>> \in K
      BY Zenon, <1>12, <3>2
    <3> QED
      BY <1>8, <3>2, <3>3
  <2> QED
    BY <2>2, <2>3
<1>15. PICK z : z = a \o b
  BY Zenon
<1>16. Infos(p) = z /\ Len(z) \in Nat
  BY <1>7, <1>10, <1>13, <1>15
<1>17. \A k \in 1..Len(z) : \/ \E i \in 1..m : FromCommand(c[i], z[k])
                            \/ \E i \in 1..n : FromResource(p, r[i], z[k])
  BY <1>14, <1>15
<1> QED
  BY Zenon, <1>1, <1>2, <1>16, <1>17

LEMMA NodeFields ==
  ASSUME NEW n, NEW g, NEW r
  PROVE  Node(n, g, r).name = n /\ Node(n, g, r).isget = g /\ Node(n, g, r).reqs = r
BY DEF Node

\* A node that answers q has the operations that the profile means by q.
LEMMA InfoIsMeant ==
  ASSUME profile \in Profiles, NEW k \in 1..Len(Infos(profile)), NEW q,
         Matches(Infos(profile)[k], q)
  PROVE  Infos(profile)[k].reqs \in Meaning(q)
<1> DEFINE named == {i \in DOMAIN profile.commands : profile.commands[i].name = q.name}
           res == {i \in DOMAIN profile.resources :
                     /\ profile.resources[i].name = q.name
                     /\ IF q.forGet THEN profile.resources[i].readable
                                    ELSE profile.resources[i].writable}
<1>1. PICK x : x = Infos(profile)[k]
  OBVIOUS
<1>2. x.name = q.name /\ x.isget = q.forGet
  BY <1>1 DEF Matches
<1>3. Meaning(q) = IF named # {}
                     THEN {IF q.forGet THEN profile.commands[i].get
                                       ELSE profile.commands[i].set : i \in named} \ {<<>>}
                     ELSE IF res # {} THEN {<<q.name>>} ELSE {}
  BY DEF Meaning
<1>4. CASE \E i \in DOMAIN profile.commands : FromCommand(profile.commands[i], x)
  <2>1. PICK i \in DOMAIN profile.commands : FromCommand(profile.commands[i], x)
    BY <1>4
  <2>2. PICK c : c = profile.commands[i]
    OBVIOUS
  <2>3. CASE c.get # <<>> /\ x = Node(c.name, TRUE, c.get)
    <3>1. q.name = c.name /\ q.forGet = TRUE /\ x.reqs = c.get
      <4>1. PICK b : b = TRUE
        OBVIOUS
      <4>2. x = Node(c.name, b, c.get)
        BY Zenon, <4>1, <2>3
      <4>3. q.name = c.name /\ q.forGet = b /\ x.reqs = c.get
        BY <1>2, <4>2, NodeFields
      <4> QED
        BY Zenon, <4>1, <4>3
    <3>2. i \in named
      BY <2>2, <3>1
    <3> QED
      BY Zenon, <1>1, <1>3, <2>2, <2>3, <3>1, <3>2
  <2>4. CASE c.set # <<>> /\ x = Node(c.name, FALSE, c.set)
    <3>1. q.name = c.name /\ q.forGet = FALSE /\ x.reqs = c.set
      <4>1. PICK b : b = FALSE
        BY Zenon
      <4>2. x = Node(c.name, b, c.set)
        BY Zenon, <4>1, <2>4
      <4>3. q.name = c.name /\ q.forGet = b /\ x.reqs = c.set
        BY <1>2, <4>2, NodeFields
      <4> QED
        BY Zenon, <4>1, <4>3
    <3>2. i \in named
      BY <2>2, <3>1
    <3> QED
      BY Zenon, <1>1, <1>3, <2>2, <2>4, <3>1, <3>2
  <2> QED
    BY Zenon, <2>1, <2>2, <2>3, <2>4 DEF FromCommand
<1>5. CASE \E i \in DOMAIN profile.resources : FromResource(profile, profile.resources[i], x)
  <2>1. PICK i \in DOMAIN profile.resources : FromResource(profile, profile.resources[i], x)
    BY <1>5
  <2>2. PICK r : r = profile.resources[i]
    OBVIOUS
  <2>3. ~\E j \in DOMAIN profile.commands : profile.commands[j].name = r.name
    BY <2>1, <2>2 DEF FromResource
  <2>4. CASE r.readable /\ x = Node(r.name, TRUE, <<r.name>>)
    <3>1. q.name = r.name /\ q.forGet = TRUE /\ x.reqs = <<r.name>>
      <4>1. PICK b : b = TRUE
        OBVIOUS
      <4>2. x = Node(r.name, b, <<r.name>>)
        BY Zenon, <4>1, <2>4
      <4>3. q.name = r.name /\ q.forGet = b /\ x.reqs = <<r.name>>
        BY <1>2, <4>2, NodeFields
      <4> QED
        BY Zenon, <4>1, <4>3
    <3>2. i \in res /\ named = {}
      BY <2>2, <2>3, <2>4, <3>1
    <3> QED
      BY <1>1, <1>3, <3>1, <3>2
  <2>5. CASE r.writable /\ x = Node(r.name, FALSE, <<r.name>>)
    <3>1. q.name = r.name /\ q.forGet = FALSE /\ x.reqs = <<r.name>>
      <4>1. PICK b : b = FALSE
        BY Zenon
      <4>2. x = Node(r.name, b, <<r.name>>)
        BY Zenon, <4>1, <2>5
      <4>3. q.name = r.name /\ q.forGet = b /\ x.reqs = <<r.name>>
        BY <1>2, <4>2, NodeFields
      <4> QED
        BY Zenon, <4>1, <4>3
    <3>2. i \in res /\ named = {}
      BY <2>2, <2>3, <2>5, <3>1
    <3> QED
      BY <1>1, <1>3, <3>1, <3>2
  <2> QED
    BY Zenon, <2>1, <2>2, <2>4, <2>5 DEF FromResource
<1> QED
  BY <1>1, <1>4, <1>5, InfosFrom

-----------------------------------------------------------------------------
(* The list is complete.                                                   *)

\* Thread t has linked its first n nodes.
Chain(t, n) ==
  \A k \in 1..Len(infos) :
    next[<<t, k>>] = IF k < n THEN <<t, k + 1>> ELSE NULL

\* How far thread t has got with the list.
ThreadOK(t) ==
  /\ thread[t].pc = "build" =>
       /\ thread[t].n \in 0..Len(infos)
       /\ Chain(t, thread[t].n)
       /\ cmdinfo = NULL => thread[t].n = 0
  /\ thread[t].pc # "build" =>
       /\ cmdinfo = <<t, 1>> => Chain(t, Len(infos))
       /\ cmdinfo = NULL => Chain(t, 0)

\* The inductive invariant.
IInv ==
  /\ Len(infos) \in Nat
  /\ next \in [Threads \X (1..Len(infos)) -> (Threads \X (1..Len(infos))) \cup {NULL}]
  /\ DOMAIN thread = Threads
  /\ cmdinfo = NULL \/ \E t \in Threads : cmdinfo = <<t, 1>>
  /\ \A t \in Threads : ThreadOK(t)

\* A head pointer is not the null pointer.
LEMMA HeadNotNull == \A t \in Threads : <<t, 1>> # NULL
BY CmdInfoAssumption

\* No list and no chains at the start.
LEMMA InitInv == Init => IInv
<1> SUFFICES ASSUME Init PROVE IInv
  OBVIOUS
<1>1. Len(infos) \in Nat
  BY InfosFrom DEF Init
<1>2. \A t \in Threads : thread[t].pc = "idle"
  BY DEF Init, Idle
<1>3. \A t \in Threads : Chain(t, 0)
  BY <1>1 DEF Init, Chain
<1>4. \A t \in Threads : ThreadOK(t)
  BY <1>2, <1>3, HeadNotNull DEF Init, ThreadOK
<1> QED
  BY <1>1, <1>4 DEF Init, IInv

\* A step that changes neither the head nor a next pointer, and that thread t
\* ends in a state s that fits.
LEMMA LocalStep ==
  ASSUME IInv, NEW t \in Threads, NEW s, Become(t, s),
         UNCHANGED <<infos, profile, cmdinfo, next>>,
         s.pc = "build" => /\ s.n \in 0..Len(infos)
                           /\ Chain(t, s.n)
                           /\ cmdinfo = NULL => s.n = 0,
         s.pc # "build" => /\ cmdinfo = <<t, 1>> => Chain(t, Len(infos))
                           /\ cmdinfo = NULL => Chain(t, 0)
  PROVE  IInv'
<1>1. DOMAIN thread' = Threads /\ thread'[t] = s
      /\ \A u \in Threads : u # t => thread'[u] = thread[u]
  BY DEF IInv, Become
<1>2. ThreadOK(t)'
  BY <1>1 DEF ThreadOK, Chain
<1>3. \A u \in Threads : u # t => ThreadOK(u)'
  BY <1>1 DEF ThreadOK, Chain, IInv
<1> QED
  BY <1>1, <1>2, <1>3 DEF IInv

\* Storing a node changes one pointer, of the thread that stores it.
LEMMA AppendStep ==
  ASSUME IInv, NEW t \in Threads, Append1(t)
  PROVE  IInv'
<1>0. PICK n, s : n = thread[t].n /\ s = [thread[t] EXCEPT !.n = @ + 1]
  BY Zenon
<1>1. /\ thread[t].pc = "build" /\ n < Len(infos)
      /\ UNCHANGED <<infos, profile>>
      /\ thread' = [thread EXCEPT ![t] = s]
  BY <1>0 DEF Append1, Become
<1>2. /\ DOMAIN thread' = Threads /\ thread'[t] = s
      /\ \A u \in Threads : u # t => thread'[u] = thread[u]
  BY <1>1 DEF IInv
<1>3. /\ Len(infos) \in Nat /\ n \in 0..Len(infos)
      /\ Chain(t, n) /\ (cmdinfo = NULL => n = 0)
  BY <1>0, <1>1 DEF IInv, ThreadOK
<1>4. s.pc = "build" /\ s.n = n + 1 /\ n + 1 \in 0..Len(infos)
  BY <1>0, <1>1, <1>3
<1>5. CASE n = 0
  <2>1. cmdinfo' = <<t, 1>> /\ next' = next
    BY <1>0, <1>5, <1>3 DEF Append1
  <2>2. Chain(t, n + 1)'
    BY <1>1, <1>3, <1>5, <2>1 DEF Chain
  <2>3. ThreadOK(t)'
    BY <1>2, <1>1, <1>4, <2>1, <2>2, HeadNotNull DEF ThreadOK
  <2>4. ASSUME NEW u \in Threads, u # t PROVE ThreadOK(u)'
    <3>1. cmdinfo' # NULL /\ cmdinfo' # <<u, 1>>
      BY <2>1, <2>4, HeadNotNull
    <3>2. \A m : Chain(u, m)' <=> Chain(u, m)
      BY <2>1, <1>1 DEF Chain
    <3> QED
      BY <3>1, <3>2, <2>4, <1>1, <1>2 DEF ThreadOK, IInv
  <2> QED
    BY <1>1, <1>2, <2>1, <2>3, <2>4 DEF IInv
<1>6. CASE n > 0
  <2>1. cmdinfo' = cmdinfo /\ next' = [next EXCEPT ![<<t, n>>] = <<t, n + 1>>]
    BY <1>0, <1>6, <1>3 DEF Append1
  <2>2. /\ n \in 1..Len(infos) /\ n + 1 \in 1..Len(infos)
        /\ <<t, n>> \in Threads \X (1..Len(infos))
        /\ <<t, n + 1>> \in Threads \X (1..Len(infos))
    BY <1>1, <1>3, <1>6
  <2>3. /\ next' \in [Threads \X (1..Len(infos)) -> (Threads \X (1..Len(infos))) \cup {NULL}]
        /\ next'[<<t, n>>] = <<t, n + 1>>
        /\ \A u \in Threads, k \in 1..Len(infos) :
             <<u, k>> # <<t, n>> => next'[<<u, k>>] = next[<<u, k>>]
    BY <2>1, <2>2 DEF IInv
  <2>4. Chain(t, n + 1)'
    <3> SUFFICES ASSUME NEW k \in 1..Len(infos)
                 PROVE  next'[<<t, k>>] = IF k < n + 1 THEN <<t, k + 1>> ELSE NULL
      BY <1>1 DEF Chain
    <3>1. CASE k = n
      BY <3>1, <2>2, <2>3
    <3>2. CASE k # n
      <4>1. next'[<<t, k>>] = next[<<t, k>>] /\ (k < n + 1 <=> k < n)
        BY <3>2, <2>2, <2>3
      <4> QED
        BY <4>1, <1>3 DEF Chain
    <3> QED
      BY <3>1, <3>2
  <2>5. ThreadOK(t)'
    BY <1>2, <1>1, <1>3, <1>4, <1>6, <2>1, <2>4 DEF ThreadOK
  <2>6. ASSUME NEW u \in Threads, u # t PROVE ThreadOK(u)'
    <3>1. \A k \in 1..Len(infos) : next'[<<u, k>>] = next[<<u, k>>]
      BY <2>3, <2>6
    <3>2. \A m : Chain(u, m)' <=> Chain(u, m)
      BY <3>1, <1>1 DEF Chain
    <3> QED
      BY <3>2, <2>1, <2>6, <1>1, <1>2 DEF ThreadOK, IInv
  <2> QED
    BY <1>1, <1>2, <2>1, <2>3, <2>5, <2>6 DEF IInv
<1> QED
  BY <1>3, <1>5, <1>6

\* Every step preserves the invariant.
LEMMA NextInv == IInv /\ [Next]_vars => IInv'
<1> SUFFICES ASSUME IInv, [Next]_vars PROVE IInv'
  OBVIOUS
<1>1. ASSUME NEW t \in Threads, NEW q \in Queries, Find(t, q)
      PROVE  IInv'
  <2> DEFINE s == IF cmdinfo = NULL THEN [pc |-> "build", q |-> q, n |-> 0]
                                    ELSE [pc |-> "search", q |-> q, at |-> cmdinfo]
  <2>1. Become(t, s) /\ UNCHANGED <<infos, profile, cmdinfo, next>>
        /\ thread[t].pc = "idle"
    BY <1>1 DEF Find, Idle
  <2>2. ThreadOK(t) /\ Len(infos) \in Nat
    BY DEF IInv
  <2>3. /\ s.pc = "build" => s.n = 0 /\ cmdinfo = NULL
        /\ s.pc # "build" => cmdinfo # NULL
    OBVIOUS
  <2> HIDE DEF s
  <2> QED
    BY <2>1, <2>2, <2>3, LocalStep DEF ThreadOK
<1>2. ASSUME NEW t \in Threads, Append1(t)
      PROVE  IInv'
  BY <1>2, AppendStep
<1>3. ASSUME NEW t \in Threads, Built(t)
      PROVE  IInv'
  <2> DEFINE s == [pc |-> "search", q |-> thread[t].q, at |-> cmdinfo]
  <2>1. /\ Become(t, s) /\ UNCHANGED <<infos, profile, cmdinfo, next>>
        /\ thread[t].pc = "build" /\ thread[t].n = Len(infos)
    BY <1>3 DEF Built
  <2>2. Chain(t, Len(infos)) /\ (cmdinfo = NULL => Chain(t, 0))
    BY <2>1 DEF IInv, ThreadOK
  <2>3. s.pc # "build"
    OBVIOUS
  <2> HIDE DEF s
  <2> QED
    BY <2>1, <2>2, <2>3, LocalStep
<1>4. ASSUME NEW t \in Threads, Search(t) \/ Return(t)
      PROVE  IInv'
  <2>1. thread[t].pc # "build" /\ UNCHANGED <<infos, profile, cmdinfo, next>>
    BY <1>4 DEF Search, Return
  <2>2. PICK s : Become(t, s) /\ s.pc # "build"
    <3>1. CASE Return(t)
      BY <3>1 DEF Return, Idle
    <3>2. CASE Search(t)
      <4>1. \/ Become(t, [pc |-> "done", q |-> thread[t].q, res |-> thread[t].at])
            \/ Become(t, [pc |-> "search", q |-> thread[t].q, at |-> next[thread[t].at]])
        BY <3>2 DEF Search
      <4> QED
        BY <4>1
    <3> QED
      BY <1>4, <3>1, <3>2
  <2>3. /\ cmdinfo = <<t, 1>> => Chain(t, Len(infos))
        /\ cmdinfo = NULL => Chain(t, 0)
    BY <2>1 DEF IInv, ThreadOK
  <2> QED
    BY <2>1, <2>2, <2>3, LocalStep
<1>5. CASE UNCHANGED vars
  BY <1>5 DEF vars, IInv, ThreadOK, Chain
<1> QED
  BY <1>1, <1>2, <1>3, <1>4, <1>5 DEF Next, Step

\* prof->cmdinfo is a complete list whenever no thread is building one, even
\* though several threads may have built it at the same time.
THEOREM ListComplete == Spec => []QuiescentComplete
<1>1. IInv => QuiescentComplete
  <2> SUFFICES ASSUME IInv, cmdinfo # NULL,
                      \A t \in Threads : thread[t].pc # "build"
               PROVE  Complete
    BY DEF QuiescentComplete
  <2>1. PICK t \in Threads : cmdinfo = <<t, 1>>
    BY DEF IInv
  <2>2. Chain(t, Len(infos))
    BY <2>1 DEF IInv, ThreadOK
  <2>3. \A k \in 1..Len(infos) : (k < Len(infos)) <=> (k # Len(infos))
    BY DEF IInv
  <2> QED
    BY <2>1, <2>2, <2>3 DEF Chain, Complete
<1> QED
  BY <1>1, InitInv, NextInv, PTL DEF Spec

-----------------------------------------------------------------------------
(* Types, and what a lookup finds.                                         *)

Building == [pc : {"build"}, q : Queries, n : 0..Len(infos)]
Searching == [pc : {"search"}, q : Queries, at : Nodes \cup {NULL}]
Finished == [pc : {"done"}, q : Queries, res : Nodes \cup {NULL}]
States == {Idle} \cup Building \cup Searching \cup Finished

\* A lookup that has found a node has found one that answers it.
Matched(s) == s.pc = "done" /\ s.res # NULL => Matches(infos[s.res[2]], s.q)

\* The inductive invariant for FoundIsMeant.
FInv == TypeOK /\ \A t \in Threads : Matched(thread[t])

LEMMA StateCases ==
  ASSUME NEW s \in States
  PROVE  /\ s.pc = "idle" => s = Idle
         /\ s.pc = "build" => s \in Building
         /\ s.pc = "search" => s \in Searching
         /\ s.pc = "done" => s \in Finished
BY DEF States, Idle, Building, Searching, Finished

LEMMA InitFInv == Init => FInv
<1> SUFFICES ASSUME Init PROVE FInv
  OBVIOUS
<1>1. TypeOK
  BY InfosFrom DEF Init, TypeOK, Nodes
<1>2. \A t \in Threads : Matched(thread[t])
  BY DEF Init, Matched, Idle
<1> QED
  BY <1>1, <1>2 DEF FInv

\* A step in which thread t gets a state that fits.
LEMMA FStep ==
  ASSUME FInv, NEW t \in Threads, NEW s \in States, Become(t, s), Matched(s),
         UNCHANGED <<infos, profile>>, cmdinfo' \in Nodes \cup {NULL},
         next' \in [Nodes -> Nodes \cup {NULL}]
  PROVE  FInv'
<1>1. Nodes' = Nodes /\ States' = States
  BY DEF Nodes, States, Building, Searching, Finished
<1>2. thread \in [Threads -> States]
  BY DEF FInv, TypeOK, States, Building, Searching, Finished
<1>3. thread' \in [Threads -> States] /\ \A u \in Threads : thread'[u] = IF u = t THEN s ELSE thread[u]
  BY SMTT(60), <1>2 DEF Become
<1>4. TypeOK'
  BY SMTT(60), <1>1, <1>3 DEF FInv, TypeOK, States, Building, Searching, Finished
<1>5. \A u \in Threads : Matched(thread[u])'
  BY <1>3 DEF FInv, Matched
<1> QED
  BY <1>4, <1>5 DEF FInv

LEMMA NextFInv == FInv /\ [Next]_vars => FInv'
<1> SUFFICES ASSUME FInv, [Next]_vars PROVE FInv'
  OBVIOUS
<1>1. /\ thread \in [Threads -> States] /\ cmdinfo \in Nodes \cup {NULL}
      /\ next \in [Nodes -> Nodes \cup {NULL}] /\ Len(infos) \in Nat
  BY InfosFrom DEF FInv, TypeOK, States, Building, Searching, Finished
<1>2. ASSUME NEW t \in Threads, NEW q \in Queries, Find(t, q)
      PROVE  FInv'
  <2>1. PICK s : s = IF cmdinfo = NULL THEN [pc |-> "build", q |-> q, n |-> 0]
                                       ELSE [pc |-> "search", q |-> q, at |-> cmdinfo]
    BY Zenon
  <2>2. s \in States /\ s.pc # "done"
    BY <1>1, <2>1 DEF States, Building, Searching
  <2> QED
    BY <1>1, <1>2, <2>1, <2>2, FStep DEF Find, Matched
<1>3. ASSUME NEW t \in Threads, Append1(t)
      PROVE  FInv'
  <2>1. PICK n \in 0..Len(infos), q \in Queries : thread[t] = [pc |-> "build", q |-> q, n |-> n]
    <3>1. thread[t] \in Building
      BY <1>1, <1>3, StateCases DEF Append1
    <3> QED
      BY <3>1 DEF Building
  <2>2. n < Len(infos) /\ n + 1 \in 0..Len(infos) /\ n + 1 \in 1..Len(infos)
    BY <1>1, <1>3, <2>1 DEF Append1
  <2>3. PICK s : s = [pc |-> "build", q |-> q, n |-> n + 1]
    BY Zenon
  <2>4. s \in States /\ s.pc # "done" /\ Become(t, s)
    <3>1. s \in States /\ s.pc # "done"
      BY <2>2, <2>3 DEF States, Building
    <3>2. [thread[t] EXCEPT !.n = @ + 1] = s
      BY <2>1, <2>3
    <3> QED
      BY <1>3, <3>1, <3>2 DEF Append1
  <2>5. cmdinfo' \in Nodes \cup {NULL} /\ next' \in [Nodes -> Nodes \cup {NULL}]
    <3>1. CASE n = 0
      BY <1>1, <1>3, <2>1, <2>2, <3>1 DEF Append1, Nodes
    <3>2. CASE n > 0
      <4>1. cmdinfo' = cmdinfo /\ next' = [next EXCEPT ![<<t, n>>] = <<t, n + 1>>]
        BY <1>3, <2>1, <3>2 DEF Append1
      <4>2. <<t, n + 1>> \in Nodes
        BY <2>2 DEF Nodes
      <4> QED
        BY Zenon, <1>1, <4>1, <4>2
    <3> QED
      BY <2>1, <3>1, <3>2
  <2> QED
    BY <1>3, <2>4, <2>5, FStep DEF Append1, Matched
<1>4. ASSUME NEW t \in Threads, Built(t)
      PROVE  FInv'
  <2>1. thread[t] \in Building
    BY <1>1, <1>4, StateCases DEF Built
  <2>2. PICK s : s = [pc |-> "search", q |-> thread[t].q, at |-> cmdinfo]
    BY Zenon
  <2>3. s \in States /\ s.pc # "done"
    BY <1>1, <2>1, <2>2 DEF States, Building, Searching
  <2> QED
    BY <1>1, <1>4, <2>2, <2>3, FStep DEF Built, Matched
<1>5. ASSUME NEW t \in Threads, Search(t)
      PROVE  FInv'
  <2>1. PICK q \in Queries, at \in Nodes \cup {NULL} : thread[t] = [pc |-> "search", q |-> q, at |-> at]
    <3>1. thread[t] \in Searching
      BY <1>1, <1>5, StateCases DEF Search
    <3> QED
      BY SMTT(60), <3>1 DEF Searching
  <2>2. thread[t].q = q /\ thread[t].at = at
    BY <2>1
  <2>3. CASE /\ at = NULL \/ Matches(infos[at[2]], q)
             /\ Become(t, [pc |-> "done", q |-> q, res |-> at])
    <3>1. PICK s : s = [pc |-> "done", q |-> q, res |-> at]
      BY Zenon
    <3>2. s \in States /\ Matched(s) /\ Become(t, s)
      BY <2>3, <3>1 DEF States, Finished, Matched
    <3> QED
      BY <1>1, <1>5, <3>2, FStep DEF Search
  <2>4. CASE at # NULL /\ Become(t, [pc |-> "search", q |-> q, at |-> next[at]])
    <3>1. PICK s : s = [pc |-> "search", q |-> q, at |-> next[at]]
      BY Zenon
    <3>2. s \in States /\ Matched(s) /\ Become(t, s)
      BY <1>1, <2>4, <3>1 DEF States, Searching, Matched
    <3> QED
      BY <1>1, <1>5, <3>2, FStep DEF Search
  <2> QED
    BY <1>5, <2>2, <2>3, <2>4 DEF Search
<1>6. ASSUME NEW t \in Threads, Return(t)
      PROVE  FInv'
  BY SMTT(60), <1>1, <1>6, FStep DEF Return, States, Matched, Idle
<1>7. CASE UNCHANGED vars
  BY <1>7 DEF vars, FInv, TypeOK, Nodes, Matched
<1> QED
  BY <1>2, <1>3, <1>4, <1>5, <1>6, <1>7 DEF Next, Step

\* Every pointer that a thread follows is null or a node of the list, and no
\* thread appends past its end (populateCmdInfo, findcommand).
THEOREM TypesKept == Spec => []TypeOK
<1>1. FInv => TypeOK
  BY DEF FInv
<1> QED
  BY <1>1, InitFInv, NextFInv, PTL DEF Spec

\* A command that edgex_deviceprofile_findcommand returns is what the profile
\* means by the name, for any profile, while any threads are building the list.
THEOREM FindsWhatIsMeant == Spec => []FoundIsMeant
<1>1. ASSUME FInv PROVE FoundIsMeant
  <2> SUFFICES ASSUME NEW t \in Threads, thread[t].pc = "done", thread[t].res # NULL
               PROVE  infos[thread[t].res[2]].reqs \in Meaning(thread[t].q)
    BY DEF FoundIsMeant
  <2>1. thread[t] \in Finished
    BY <1>1, StateCases DEF FInv, TypeOK, States, Building, Searching, Finished
  <2>2. PICK k \in 1..Len(infos) : k = thread[t].res[2]
    BY <2>1 DEF Finished, Nodes
  <2>3. Matches(infos[k], thread[t].q) /\ profile \in Profiles /\ infos = Infos(profile)
    BY <1>1, <2>2 DEF FInv, Matched, TypeOK
  <2>4. infos[k].reqs \in Meaning(thread[t].q)
    BY <2>2, <2>3, InfoIsMeant
  <2> QED
    BY <2>2, <2>4
<1> QED
  BY <1>1, InitFInv, NextFInv, PTL DEF Spec
=============================================================================
