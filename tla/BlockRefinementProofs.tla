----------------------- MODULE BlockRefinementProofs -----------------------
(***************************************************************************)
(* The recursive descent implements the indentation tree, for every set of *)
(* keys and values and every set of line lists.                            *)
(***************************************************************************)
EXTENDS BlockRefinement, BlockBinderProofs, Induction

-----------------------------------------------------------------------------
(* Nodes and their parents. *)

NodeKinds == {"dash", "pair", "member", "value"}

AreNodes(ns) ==
  /\ Len(ns) \in Nat
  /\ DOMAIN ns = 1 .. Len(ns)
  /\ \A k \in 1 .. Len(ns) : ns[k].col \in Nat /\ ns[k].kind \in NodeKinds

LEMMA ParentIs ==
  ASSUME NEW ns, AreNodes(ns), NEW k \in 1 .. Len(ns)
  PROVE  /\ Tree!Parent(ns, k) \in 0 .. k - 1
         /\ Tree!Parent(ns, k) # 0 => Tree!Encloses(ns[Tree!Parent(ns, k)], ns[k])
         /\ \A j \in Tree!Parent(ns, k) + 1 .. k - 1 : ~ Tree!Encloses(ns[j], ns[k])
<1> DEFINE before == {j \in 1 .. k - 1 : Tree!Encloses(ns[j], ns[k])}
<1>1. CASE before = {}
  <2>1. Tree!Parent(ns, k) = 0
    BY <1>1 DEF Tree!Parent
  <2> QED
    BY <1>1, <2>1
<1>2. CASE before # {}
  <2> DEFINE T == {t \in Nat : \E j \in before : t = k - j}
  <2>1. T \in SUBSET Nat /\ T # {}
    <3>1. PICK j \in before : TRUE
      BY <1>2
    <3>2. k - j \in Nat
      BY <3>1
    <3>3. k - j \in T
      BY <3>1, <3>2
    <3> QED
      BY <3>3
  <2>2. PICK t \in T : \A y \in T : t <= y
    <3> HIDE DEF T
    <3> QED
      BY <2>1, Least
  <2>3. PICK x \in before : t = k - x
    BY <2>2
  <2>4. \A y \in before : x >= y
    <3> SUFFICES ASSUME NEW y \in before PROVE x >= y
      OBVIOUS
    <3>1. k - y \in T /\ k - x \in T /\ x \in Nat /\ y \in Nat
      BY <2>3
    <3>2. k - x <= k - y
      BY <2>2, <2>3, <3>1
    <3> QED
      BY <3>1, <3>2
  <2> DEFINE m == CHOOSE z \in before : \A y \in before : z >= y
  <2>5. m \in before /\ \A y \in before : m >= y
    BY <2>4
  <2>6. Tree!Parent(ns, k) = m
    BY <1>2 DEF Tree!Parent
  <2> HIDE DEF m
  <2> QED
    BY <2>5, <2>6
<1> QED
  BY <1>1, <1>2

LEMMA ParentUnique ==
  ASSUME NEW ns, AreNodes(ns), NEW k \in 1 .. Len(ns), NEW p \in 0 .. k - 1,
         p = 0 \/ Tree!Encloses(ns[p], ns[k]),
         \A j \in p + 1 .. k - 1 : ~ Tree!Encloses(ns[j], ns[k])
  PROVE  Tree!Parent(ns, k) = p
<1> DEFINE q == Tree!Parent(ns, k)
<1>1. /\ q \in 0 .. k - 1
      /\ q # 0 => Tree!Encloses(ns[q], ns[k])
      /\ \A j \in q + 1 .. k - 1 : ~ Tree!Encloses(ns[j], ns[k])
  BY ParentIs
<1> HIDE DEF q
<1>2. ~ q < p
  <2> SUFFICES ASSUME q < p PROVE FALSE
    OBVIOUS
  <2>1. p \in q + 1 .. k - 1 /\ p # 0
    BY <1>1
  <2> QED
    BY <1>1, <2>1
<1>3. ~ p < q
  <2> SUFFICES ASSUME p < q PROVE FALSE
    OBVIOUS
  <2>1. q \in p + 1 .. k - 1 /\ q # 0
    BY <1>1
  <2> QED
    BY <1>1, <2>1
<1> QED
  BY <1>1, <1>2, <1>3 DEF q

(***************************************************************************)
(* The children of a node, as the sequence of them among the first c nodes *)
(* that is built up from node to node.                                     *)
(***************************************************************************)

KidsGrow(kids, ns, p) ==
  /\ kids \in [Nat -> Seq(Nat)]
  /\ kids[0] = << >>
  /\ \A n \in Nat : kids[n + 1] = IF Tree!Parent(ns, n + 1) = p
                                  THEN Append(kids[n], n + 1) ELSE kids[n]

LEMMA ChildrenDef ==
  ASSUME NEW ns, NEW p
  PROVE  KidsGrow(Tree!ChildrenUpTo(ns, p), ns, p)
<1> DEFINE X == Seq(Nat)
           F == [q \in Nat \X X |-> IF Tree!Parent(ns, q[1]) = p
                                   THEN Append(q[2], q[1]) ELSE q[2]]
           Body(f) == [n \in Nat |->
                         IF n = 0 THEN << >>
                         ELSE IF Tree!Parent(ns, n) = p THEN Append(f[n - 1], n)
                         ELSE f[n - 1]]
<1>1. F \in [Nat \X X -> X] /\ << >> \in X
  OBVIOUS
<1> HIDE DEF F, X
<1>2. PICK f : Iterates(f, X, << >>, F)
  BY <1>1, RecursionExists
<1>3. ASSUME NEW n \in Nat, n # 0
      PROVE  F[<< n, f[n - 1] >>] = IF Tree!Parent(ns, n) = p
                                    THEN Append(f[n - 1], n) ELSE f[n - 1]
  <2>1. << n, f[n - 1] >> \in Nat \X X /\ n - 1 \in Nat
    BY <1>2, <1>3 DEF Iterates
  <2> QED
    BY <2>1 DEF F
<1>4. f = Body(f)
  BY <1>2, <1>3 DEF Iterates
<1> DEFINE kids == Tree!ChildrenUpTo(ns, p)
<1>5. kids = CHOOSE g : g = Body(g)
  BY DEF Tree!ChildrenUpTo
<1>6. kids = Body(kids)
  <2> HIDE DEF Body, kids
  <2> QED
    BY <1>4, <1>5
<1> HIDE DEF kids
<1>7. kids[0] = << >>
  BY <1>6
<1>8. ASSUME NEW n \in Nat
      PROVE  kids[n + 1] = IF Tree!Parent(ns, n + 1) = p
                           THEN Append(kids[n], n + 1) ELSE kids[n]
  <2>1. n + 1 \in Nat /\ n + 1 # 0 /\ (n + 1) - 1 = n
    OBVIOUS
  <2> QED
    BY <1>6, <2>1
<1>9. \A n \in Nat : kids[n] \in Seq(Nat)
  <2> DEFINE G == {n \in Nat : kids[n] \in Seq(Nat)}
  <2>1. G \in SUBSET Nat /\ 0 \in G
    <3>1. << >> \in Seq(Nat)
      OBVIOUS
    <3> QED
      BY <1>7, <3>1
  <2>2. ASSUME NEW n \in Nat, n \in G PROVE n + 1 \in G
    <3>1. kids[n] \in Seq(Nat) /\ n + 1 \in Nat
      BY <2>2
    <3>2. Append(kids[n], n + 1) \in Seq(Nat)
      BY <3>1, AppendProperties
    <3>3. kids[n + 1] \in Seq(Nat)
      BY <1>8, <3>1, <3>2
    <3> QED
      BY <3>1, <3>3
  <2> HIDE DEF G
  <2>3. G = Nat
    BY <2>1, <2>2, AllNumbers
  <2> QED
    BY <2>3 DEF G
<1>10. kids \in [Nat -> Seq(Nat)]
  BY <1>6, <1>9
<1> QED
  BY <1>7, <1>8, <1>10 DEF KidsGrow, kids

Kids(ns, p, c) == Tree!ChildrenUpTo(ns, p)[c]

(* ks are the children of p among the first c nodes, in order. *)
KidsAre(ks, ns, p, c) ==
  /\ ks \in Seq(Nat)
  /\ Len(ks) \in Nat
  /\ \A i \in 1 .. Len(ks) : ks[i] \in 1 .. c /\ Tree!Parent(ns, ks[i]) = p
  /\ \A k \in 1 .. c : Tree!Parent(ns, k) = p => \E i \in 1 .. Len(ks) : ks[i] = k
  /\ \A i, j \in 1 .. Len(ks) : i < j => ks[i] < ks[j]

LEMMA KidsStep ==
  ASSUME NEW ns, NEW p, NEW c \in Nat
  PROVE  /\ Kids(ns, p, 0) = << >>
         /\ Kids(ns, p, c) \in Seq(Nat)
         /\ Kids(ns, p, c + 1) = IF Tree!Parent(ns, c + 1) = p
                                 THEN Append(Kids(ns, p, c), c + 1)
                                 ELSE Kids(ns, p, c)
<1>1. KidsGrow(Tree!ChildrenUpTo(ns, p), ns, p)
  BY ChildrenDef
<1> QED
  BY <1>1 DEF KidsGrow, Kids

LEMMA AppendKid ==
  ASSUME NEW ns, NEW p, NEW c \in Nat, NEW ks, KidsAre(ks, ns, p, c),
         Tree!Parent(ns, c + 1) = p
  PROVE  KidsAre(Append(ks, c + 1), ns, p, c + 1)
<1> DEFINE k == c + 1
           n == Len(ks)
           t == Append(ks, k)
<1>1. ks \in Seq(Nat) /\ k \in Nat /\ n \in Nat
  BY DEF KidsAre
<1>2. /\ t \in Seq(Nat) /\ Len(t) = n + 1
      /\ \A i \in 1 .. n : t[i] = ks[i]
      /\ t[n + 1] = k
  BY <1>1, AppendProperties
<1> HIDE DEF t
<1>3. \A i \in 1 .. n : ks[i] \in 1 .. c /\ Tree!Parent(ns, ks[i]) = p
  BY DEF KidsAre
<1>4. \A i \in 1 .. n + 1 : t[i] \in 1 .. k /\ Tree!Parent(ns, t[i]) = p
  <2> SUFFICES ASSUME NEW i \in 1 .. n + 1
               PROVE  t[i] \in 1 .. k /\ Tree!Parent(ns, t[i]) = p
    OBVIOUS
  <2>1. CASE i = n + 1
    BY <1>2, <2>1
  <2>2. CASE i # n + 1
    <3>1. i \in 1 .. n
      BY <1>1, <2>2
    <3>2. t[i] = ks[i] /\ ks[i] \in 1 .. c /\ Tree!Parent(ns, ks[i]) = p
      BY <1>2, <1>3, <3>1
    <3> QED
      BY <3>2
  <2> QED
    BY <2>1, <2>2
<1>5. ASSUME NEW m \in 1 .. k, Tree!Parent(ns, m) = p
      PROVE  \E i \in 1 .. n + 1 : t[i] = m
  <2>1. CASE m = k
    BY <1>1, <1>2, <2>1
  <2>2. CASE m # k
    <3>1. m \in 1 .. c
      BY <2>2
    <3>2. PICK i \in 1 .. n : ks[i] = m
      BY <1>5, <3>1 DEF KidsAre
    <3>3. i \in 1 .. n + 1
      BY <1>1
    <3> QED
      BY <1>2, <3>2, <3>3
  <2> QED
    BY <2>1, <2>2
<1>6. ASSUME NEW i \in 1 .. n + 1, NEW j \in 1 .. n + 1, i < j
      PROVE  t[i] < t[j]
  <2>1. i \in 1 .. n /\ t[i] = ks[i] /\ ks[i] \in 1 .. c
    BY <1>1, <1>2, <1>3, <1>6
  <2>2. CASE j = n + 1
    BY <1>2, <2>1, <2>2
  <2>3. CASE j # n + 1
    <3>1. j \in 1 .. n
      BY <1>1, <2>3
    <3>2. ks[i] < ks[j]
      BY <1>6, <2>1, <3>1 DEF KidsAre
    <3> QED
      BY <1>2, <2>1, <3>1, <3>2
  <2> QED
    BY <2>2, <2>3
<1> QED
  BY <1>1, <1>2, <1>4, <1>5, <1>6 DEF KidsAre, t

LEMMA KidsHold ==
  ASSUME NEW ns, NEW p, NEW c \in Nat
  PROVE  KidsAre(Kids(ns, p, c), ns, p, c)
<1> DEFINE G == {n \in Nat : KidsAre(Kids(ns, p, n), ns, p, n)}
<1>1. G \in SUBSET Nat /\ 0 \in G
  <2> DEFINE ks == Kids(ns, p, 0)
  <2>1. ks = << >>
    BY KidsStep
  <2> HIDE DEF ks
  <2>2. Len(ks) = 0 /\ ks \in Seq(Nat)
    BY <2>1, EmptySeq
  <2>3. KidsAre(ks, ns, p, 0)
    BY <2>2 DEF KidsAre
  <2> QED
    BY <2>3 DEF ks
<1>2. ASSUME NEW n \in Nat, n \in G PROVE n + 1 \in G
  <2>0. KidsAre(Kids(ns, p, n), ns, p, n)
    BY <1>2
  <2>1. CASE Tree!Parent(ns, n + 1) = p
    <3>1. KidsAre(Append(Kids(ns, p, n), n + 1), ns, p, n + 1)
      BY <2>0, <2>1, AppendKid
    <3> QED
      BY <2>1, <3>1, KidsStep
  <2>2. CASE Tree!Parent(ns, n + 1) # p
    <3>1. Kids(ns, p, n + 1) = Kids(ns, p, n)
      BY <2>2, KidsStep
    <3>2. \A k \in 1 .. n + 1 : k = n + 1 \/ k \in 1 .. n
      OBVIOUS
    <3>3. \A i \in 1 .. n : i \in 1 .. n + 1
      OBVIOUS
    <3> DEFINE ks == Kids(ns, p, n)
    <3> HIDE DEF ks
    <3>4. KidsAre(ks, ns, p, n)
      BY <2>0 DEF ks
    <3>5. KidsAre(ks, ns, p, n + 1)
      BY <2>2, <3>2, <3>3, <3>4 DEF KidsAre
    <3> QED
      BY <3>1, <3>5 DEF ks
  <2> QED
    BY <2>1, <2>2
<1> HIDE DEF G
<1>3. G = Nat
  BY <1>1, <1>2, AllNumbers
<1> QED
  BY <1>3 DEF G

-----------------------------------------------------------------------------
(* Blocks, as sets of nodes. *)

OneBlock(ns, c, p) ==
  LET kids == {k \in 1 .. c : Tree!Parent(ns, k) = p}
  IN  /\ \A j, k \in kids : ns[j].col = ns[k].col
      /\ \/ \A k \in kids : ns[k].kind = "dash"
         \/ \A k \in kids : Tree!IsEntry(ns[k])
         \/ \A j, k \in kids : j = k

(* What of the first c nodes has a parent is well indented. *)
Shaped(ns, c) ==
  /\ \A k \in 1 .. c : Tree!HasRoom(ns, Tree!Parent(ns, k))
  /\ \A p \in 0 .. c : OneBlock(ns, c, p)

LEMMA BlockIsSet ==
  ASSUME NEW ns, AreNodes(ns), NEW p \in 0 .. Len(ns)
  PROVE  Tree!IsBlock(ns, Tree!Children(ns, p)) <=> OneBlock(ns, Len(ns), p)
<1> DEFINE ks == Tree!Children(ns, p)
           N == Len(ns)
           kids == {k \in 1 .. N : Tree!Parent(ns, k) = p}
<1>0. N \in Nat
  BY DEF AreNodes
<1>1. KidsAre(ks, ns, p, N)
  BY <1>0, KidsHold DEF Kids, Tree!Children
<1> HIDE DEF ks, N
<1>2. DOMAIN ks = 1 .. Len(ks)
  BY <1>1 DEF KidsAre
<1>3. \A i \in 1 .. Len(ks) : ks[i] \in kids
  BY <1>1 DEF KidsAre
<1>4. \A k \in kids : \E i \in 1 .. Len(ks) : ks[i] = k
  BY <1>1 DEF KidsAre
<1>5. Len(ks) = 1 => \A j, k \in kids : j = k
  BY <1>4
<1>6. (\A j, k \in kids : j = k) => Len(ks) = 1 \/ kids = {}
  <2> SUFFICES ASSUME \A j, k \in kids : j = k, kids # {} PROVE Len(ks) = 1
    OBVIOUS
  <2>1. Len(ks) \in Nat
    BY <1>1 DEF KidsAre
  <2>2. Len(ks) >= 1
    BY <1>4, <2>1
  <2>3. ASSUME Len(ks) >= 2 PROVE FALSE
    <3>1. 1 \in 1 .. Len(ks) /\ 2 \in 1 .. Len(ks)
      BY <2>1, <2>3
    <3>2. ks[1] < ks[2] /\ ks[1] \in Nat /\ ks[2] \in Nat
      BY <1>1, <3>1 DEF KidsAre
    <3>3. ks[1] = ks[2]
      BY <1>3, <3>1
    <3> QED
      BY <3>2, <3>3
  <2> DEFINE n == Len(ks)
  <2>4. n \in Nat /\ n >= 1 /\ ~ n >= 2
    BY <2>1, <2>2, <2>3
  <2> HIDE DEF n
  <2>5. n = 1
    BY <2>4
  <2> QED
    BY <2>5 DEF n
<1> HIDE DEF kids
<1>7. Tree!IsBlock(ns, ks) <=>
        /\ \A j, k \in kids : ns[j].col = ns[k].col
        /\ \/ \A k \in kids : ns[k].kind = "dash"
           \/ \A k \in kids : Tree!IsEntry(ns[k])
           \/ Len(ks) = 1
  <2>1. (\A i, j \in DOMAIN ks : ns[ks[i]].col = ns[ks[j]].col)
          <=> (\A j, k \in kids : ns[j].col = ns[k].col)
    <3>1. ASSUME \A i, j \in DOMAIN ks : ns[ks[i]].col = ns[ks[j]].col, NEW j \in kids, NEW k \in kids
          PROVE  ns[j].col = ns[k].col
      <4>1. PICK a \in 1 .. Len(ks) : ks[a] = j
        BY <1>4
      <4>2. PICK b \in 1 .. Len(ks) : ks[b] = k
        BY <1>4
      <4> QED
        BY <1>2, <3>1, <4>1, <4>2, Zenon
    <3>2. ASSUME \A j, k \in kids : ns[j].col = ns[k].col, NEW i \in DOMAIN ks, NEW j \in DOMAIN ks
          PROVE  ns[ks[i]].col = ns[ks[j]].col
      BY <1>2, <1>3, <3>2, Zenon
    <3> QED
      BY <3>1, <3>2, Zenon
  <2>2. (\A i \in DOMAIN ks : ns[ks[i]].kind = "dash") <=> (\A k \in kids : ns[k].kind = "dash")
    BY <1>2, <1>3, <1>4
  <2>3. (\A i \in DOMAIN ks : Tree!IsEntry(ns[ks[i]])) <=> (\A k \in kids : Tree!IsEntry(ns[k]))
    BY <1>2, <1>3, <1>4
  <2> QED
    BY <2>1, <2>2, <2>3 DEF Tree!IsBlock
<1>8. kids = {} => \A k \in kids : ns[k].kind = "dash"
  OBVIOUS
<1>9. Tree!IsBlock(ns, ks) <=>
        /\ \A j, k \in kids : ns[j].col = ns[k].col
        /\ \/ \A k \in kids : ns[k].kind = "dash"
           \/ \A k \in kids : Tree!IsEntry(ns[k])
           \/ \A j, k \in kids : j = k
  BY <1>5, <1>6, <1>7, <1>8
<1> QED
  BY <1>9 DEF OneBlock, kids, ks, N

LEMMA WellIndentedIs ==
  ASSUME NEW ns, AreNodes(ns)
  PROVE  Tree!WellIndented(ns) <=> Shaped(ns, Len(ns))
BY BlockIsSet DEF Tree!WellIndented, Shaped, AreNodes

(* No two nodes of different kinds, or at different columns, in one block. *)
LEMMA SameBlock ==
  ASSUME NEW ns, AreNodes(ns), Tree!WellIndented(ns),
         NEW j \in 1 .. Len(ns), NEW k \in 1 .. Len(ns), j # k,
         Tree!Parent(ns, j) = Tree!Parent(ns, k)
  PROVE  /\ ns[j].col = ns[k].col
         /\ ns[j].kind = "dash" <=> ns[k].kind = "dash"
         /\ Tree!IsEntry(ns[j]) <=> Tree!IsEntry(ns[k])
         /\ ns[j].kind # "value"
<1> DEFINE p == Tree!Parent(ns, j)
           kids == {i \in 1 .. Len(ns) : Tree!Parent(ns, i) = p}
<1>1. p \in 0 .. Len(ns)
  <2>1. p \in 0 .. j - 1 /\ Len(ns) \in Nat
    BY ParentIs DEF AreNodes
  <2> QED
    BY <2>1
<1>2. OneBlock(ns, Len(ns), p)
  BY <1>1, WellIndentedIs DEF Shaped
<1>3. j \in kids /\ k \in kids
  OBVIOUS
<1>4. /\ \A a, b \in kids : ns[a].col = ns[b].col
      /\ \/ \A a \in kids : ns[a].kind = "dash"
         \/ \A a \in kids : Tree!IsEntry(ns[a])
         \/ \A a, b \in kids : a = b
  BY <1>2 DEF OneBlock
<1> HIDE DEF kids
<1> QED
  BY <1>3, <1>4 DEF Tree!IsEntry

LEMMA RoomAbove ==
  ASSUME NEW ns, AreNodes(ns), Tree!WellIndented(ns), NEW k \in 1 .. Len(ns)
  PROVE  Tree!HasRoom(ns, Tree!Parent(ns, k))
BY DEF Tree!WellIndented, AreNodes

(***************************************************************************)
(* A node that is passed over by the node that follows its block is not    *)
(* gone back to: no later node is its child.                               *)
(***************************************************************************)
LEMMA NoLateChild ==
  ASSUME NEW ns, AreNodes(ns), Tree!WellIndented(ns),
         NEW c \in 0 .. Len(ns), NEW p \in 0 .. c,
         c < Len(ns) => Tree!Parent(ns, c + 1) < p
  PROVE  \A k \in c + 1 .. Len(ns) : Tree!Parent(ns, k) # p
<1> SUFFICES ASSUME NEW k \in c + 1 .. Len(ns), Tree!Parent(ns, k) = p
             PROVE  FALSE
  OBVIOUS
<1> DEFINE q == c + 1
           r == Tree!Parent(ns, q)
<1>0. Len(ns) \in Nat
  BY DEF AreNodes
<1>1. q \in 1 .. Len(ns) /\ k \in 1 .. Len(ns)
  BY <1>0
<1>2. /\ r \in 0 .. c
      /\ r # 0 => Tree!Encloses(ns[r], ns[q])
      /\ \A j \in r + 1 .. c : ~ Tree!Encloses(ns[j], ns[q])
  <2>1. q - 1 = c
    OBVIOUS
  <2> QED
    BY <1>1, <2>1, ParentIs
<1>3. r < p
  BY <1>0
<1> HIDE DEF r
<1>4. p \in 1 .. Len(ns) /\ p \in r + 1 .. c /\ p # 0
  BY <1>0, <1>2, <1>3
<1>5. k # q
  BY <1>3 DEF r
<1>6. /\ Tree!Encloses(ns[p], ns[k])
      /\ \A j \in p + 1 .. k - 1 : ~ Tree!Encloses(ns[j], ns[k])
  BY <1>1, <1>4, ParentIs
<1>7. q \in p + 1 .. k - 1
  BY <1>0, <1>5
<1>8. ~ Tree!Encloses(ns[p], ns[q]) /\ ~ Tree!Encloses(ns[q], ns[k])
  BY <1>2, <1>4, <1>6, <1>7
<1>9. /\ ns[p].col \in Nat /\ ns[q].col \in Nat /\ ns[k].col \in Nat
      /\ ns[q].kind \in NodeKinds
  BY <1>1, <1>4 DEF AreNodes
<1>10. /\ ns[p].col = ns[q].col
       /\ Tree!IsEntry(ns[p]) /\ ns[p].kind # "dash"
       /\ ns[q].kind = "value"
  BY <1>6, <1>8, <1>9 DEF Tree!Encloses, Tree!IsEntry, NodeKinds
<1>11. Tree!Parent(ns, p) = r
  <2>1. r \in 0 .. p - 1
    BY <1>2, <1>3, <1>4
  <2>2. r = 0 \/ Tree!Encloses(ns[r], ns[p])
    BY <1>2, <1>10 DEF Tree!Encloses
  <2>3. ASSUME NEW j \in r + 1 .. p - 1 PROVE ~ Tree!Encloses(ns[j], ns[p])
    <3>1. j \in r + 1 .. c
      BY <1>2, <1>4
    <3> QED
      BY <1>2, <1>10, <3>1 DEF Tree!Encloses
  <2> QED
    BY <1>4, <2>1, <2>2, <2>3, ParentUnique
<1>12. p # q
  BY <1>7
<1> QED
  BY <1>1, <1>4, <1>10, <1>11, <1>12, SameBlock DEF r, Tree!IsEntry

-----------------------------------------------------------------------------
(* The nodes of a line list, as its head is read. *)

ColumnsAre(past, l) ==
  /\ past \in [0 .. Len(l.dashes) -> Nat]
  /\ past[0] = l.indent
  /\ \A n \in 1 .. Len(l.dashes) : past[n] = past[n - 1] + l.dashes[n]

LEMMA LineFacts ==
  ASSUME NEW l \in Line
  PROVE  /\ l.indent \in Nat
         /\ l.dashes \in Seq(Nat \ {0})
         /\ Len(l.dashes) \in Nat
         /\ \A n \in 1 .. Len(l.dashes) : l.dashes[n] \in Nat
         /\ l.dashes = << >> <=> Len(l.dashes) = 0
         /\ l.leaf \in Leaf
         /\ l.leaf.kind = "none" => l.dashes # << >>
<1>1. /\ l.indent \in Nat /\ l.dashes \in Seq(Nat \ {0}) /\ l.leaf \in Leaf
      /\ l.leaf.kind = "none" => l.dashes # << >>
  BY DEF Line
<1>2. \A n \in 1 .. Len(l.dashes) : l.dashes[n] \in Nat \ {0}
  BY <1>1, ElementOfSeq
<1> QED
  BY <1>1, <1>2, LenProperties, EmptySeq

LEMMA ColumnsDef ==
  ASSUME NEW l \in Line
  PROVE  ColumnsAre(Tree!Columns(l), l)
<1> DEFINE m == Len(l.dashes)
           F == [q \in (1 .. m) \X Nat |-> q[2] + l.dashes[q[1]]]
           Body(f) == [n \in 0 .. m |->
                         IF n = 0 THEN l.indent ELSE f[n - 1] + l.dashes[n]]
<1>1. m \in Nat /\ l.indent \in Nat /\ \A n \in 1 .. m : l.dashes[n] \in Nat
  BY LineFacts
<1> HIDE DEF m
<1>2. F \in [(1 .. m) \X Nat -> Nat]
  BY <1>1
<1> HIDE DEF F
<1>3. PICK f : IteratesUpTo(f, m, Nat, l.indent, F)
  BY <1>1, <1>2, RecursionUpTo
<1>4. ASSUME NEW n \in 1 .. m
      PROVE  F[<< n, f[n - 1] >>] = f[n - 1] + l.dashes[n]
  <2>1. << n, f[n - 1] >> \in (1 .. m) \X Nat
    BY <1>1, <1>3 DEF IteratesUpTo
  <2> QED
    BY <2>1 DEF F
<1>5. f = Body(f)
  <2>1. \A n \in 0 .. m : n # 0 => n \in 1 .. m
    BY <1>1
  <2> QED
    BY <1>1, <1>3, <1>4, <2>1 DEF IteratesUpTo
<1> DEFINE past == Tree!Columns(l)
<1>6. past = CHOOSE g : g = Body(g)
  BY DEF Tree!Columns, m
<1>7. past = Body(past)
  <2> HIDE DEF Body, past
  <2> QED
    BY <1>5, <1>6
<1> HIDE DEF past
<1>8. past[0] = l.indent
  BY <1>1, <1>7
<1>9. ASSUME NEW n \in 1 .. m PROVE past[n] = past[n - 1] + l.dashes[n]
  <2>1. n \in 0 .. m /\ n # 0
    BY <1>1
  <2> QED
    BY <1>7, <2>1
<1>10. \A n \in 0 .. m : past[n] \in Nat
  <2> DEFINE G == {n \in 0 .. m : past[n] \in Nat}
  <2>1. 0 \in G
    BY <1>1, <1>8
  <2>2. ASSUME NEW n \in 0 .. m - 1, n \in G PROVE n + 1 \in G
    <3>1. n + 1 \in 1 .. m /\ (n + 1) - 1 = n /\ past[n] \in Nat
      BY <1>1, <2>2
    <3>2. past[n + 1] = past[n] + l.dashes[n + 1]
      BY <1>9, <3>1
    <3> QED
      BY <1>1, <3>1, <3>2
  <2> HIDE DEF G
  <2>3. 0 .. m \subseteq G
    BY <1>1, <2>1, <2>2, AllUpTo
  <2> QED
    BY <2>3 DEF G
<1>11. past \in [0 .. m -> Nat]
  BY <1>7, <1>10
<1> QED
  BY <1>8, <1>9, <1>11 DEF ColumnsAre, past, m

(* Past the first dash the columns are those of the synthetic line. *)
LEMMA ColumnsShift ==
  ASSUME NEW l \in Line, NodeIsSeqitem(l), HasInner(l),
         NEW n \in 0 .. Len(l.dashes) - 1
  PROVE  Tree!Column(Synthetic(l), n) = Tree!Column(l, n + 1)
<1> DEFINE d == Len(l.dashes)
           s == Synthetic(l)
           a == Tree!Columns(l)
           b == Tree!Columns(s)
<1>1. /\ s \in Line /\ s.dashes = Tail(l.dashes)
      /\ Len(Tail(l.dashes)) = d - 1 /\ d \in Nat \ {0}
  BY SyntheticLine
<1>2. ColumnsAre(a, l) /\ ColumnsAre(b, s)
  BY <1>1, ColumnsDef
<1>3. s.indent = l.indent + l.dashes[1]
  <2>1. l.dashes \in Seq(Nat \ {0}) /\ l.dashes # << >>
    BY LineFacts DEF NodeIsSeqitem
  <2>2. Head(l.dashes) = l.dashes[1]
    BY <2>1, HeadTailProperties
  <2> QED
    BY <2>2 DEF Synthetic
<1>4. \A i \in 1 .. d - 1 : Tail(l.dashes)[i] = l.dashes[i + 1]
  BY <1>1, LineFacts, HeadTailProperties DEF NodeIsSeqitem
<1> HIDE DEF s, a, b, d
<1>5. /\ a[0] = l.indent /\ b[0] = s.indent
      /\ \A i \in 1 .. d : a[i] = a[i - 1] + l.dashes[i]
      /\ \A i \in 1 .. d - 1 : b[i] = b[i - 1] + l.dashes[i + 1]
  BY <1>1, <1>2, <1>4 DEF ColumnsAre, d
<1> DEFINE G == {i \in 0 .. d - 1 : b[i] = a[i + 1]}
<1>6. 0 \in G
  <2>1. 1 \in 1 .. d /\ 1 - 1 = 0 /\ 0 \in 0 .. d - 1 /\ 0 + 1 = 1
    BY <1>1
  <2>2. a[1] = a[0] + l.dashes[1]
    BY <1>5, <2>1
  <2> QED
    BY <1>3, <1>5, <2>1, <2>2
<1>7. ASSUME NEW i \in 0 .. (d - 1) - 1, i \in G PROVE i + 1 \in G
  <2>1. /\ i + 1 \in 1 .. d - 1 /\ (i + 1) - 1 = i /\ i + 1 \in 0 .. d - 1
        /\ (i + 1) + 1 \in 1 .. d /\ ((i + 1) + 1) - 1 = i + 1
    BY <1>1
  <2>2. b[i + 1] = b[i] + l.dashes[(i + 1) + 1]
    BY <1>5, <2>1
  <2>3. a[(i + 1) + 1] = a[i + 1] + l.dashes[(i + 1) + 1]
    BY <1>5, <2>1
  <2> QED
    BY <1>7, <2>1, <2>2, <2>3
<1> HIDE DEF G
<1>8. d - 1 \in Nat
  BY <1>1
<1> DEFINE e == d - 1
<1>9. 0 .. e \subseteq G
  <2>1. e \in Nat /\ \A i \in 0 .. e - 1 : i \in G => i + 1 \in G
    BY <1>7, <1>8
  <2> HIDE DEF e
  <2> QED
    BY <1>6, <2>1, AllUpTo
<1>10. b[n] = a[n + 1]
  BY <1>9 DEF G, d
<1> QED
  BY <1>10 DEF Tree!Column, a, b, s

(***************************************************************************)
(* The nodes of one line.                                                  *)
(***************************************************************************)

DashNode == [kind : {"dash"}, col : Nat]
LeafNode == [kind : {"pair", "member", "value"}, col : Nat, leaf : Leaf]
Node == DashNode \cup LeafNode

LEMMA LineNodesAre ==
  ASSUME NEW l \in Line
  PROVE  LET ns == Tree!LineNodes(l)
             d == Len(l.dashes)
         IN  /\ ns \in Seq(Node)
             /\ Len(ns) = IF l.leaf.kind = "none" THEN d ELSE d + 1
             /\ \A i \in 1 .. d : ns[i] = [kind |-> "dash", col |-> Tree!Column(l, i - 1)]
             /\ l.leaf.kind # "none" =>
                  ns[d + 1] = [kind |-> l.leaf.kind, col |-> Tree!Column(l, d),
                               leaf |-> l.leaf]
<1> DEFINE d == Len(l.dashes)
           ds == [i \in 1 .. d |-> [kind |-> "dash", col |-> Tree!Column(l, i - 1)]]
           leaf == [kind |-> l.leaf.kind, col |-> Tree!Column(l, d), leaf |-> l.leaf]
<1>1. d \in Nat /\ \A i \in 0 .. d : Tree!Column(l, i) \in Nat
  BY LineFacts, ColumnsDef DEF ColumnsAre, Tree!Column
<1>2. Tree!LineNodes(l) = IF l.leaf.kind = "none" THEN ds ELSE Append(ds, leaf)
  BY DEF Tree!LineNodes
<1> HIDE DEF d
<1>3. /\ ds \in Seq(Node) /\ Len(ds) = d
      /\ \A i \in 1 .. d : ds[i] = [kind |-> "dash", col |-> Tree!Column(l, i - 1)]
  <2>1. \A i \in 1 .. d : [kind |-> "dash", col |-> Tree!Column(l, i - 1)] \in Node
    <3> SUFFICES ASSUME NEW i \in 1 .. d
                 PROVE  [kind |-> "dash", col |-> Tree!Column(l, i - 1)] \in Node
      OBVIOUS
    <3>1. i - 1 \in 0 .. d
      BY <1>1
    <3> QED
      BY <1>1, <3>1 DEF Node, DashNode
  <2>2. ds \in [1 .. d -> Node]
    BY <2>1
  <2>3. ds \in Seq(Node)
    BY <1>1, <2>2
  <2> QED
    BY <1>1, <2>2, <2>3
<1>4. ASSUME l.leaf.kind # "none" PROVE leaf \in Node
  <2>1. l.leaf \in Leaf /\ l.leaf.kind \in {"pair", "member", "value"}
    BY <1>4, LineFacts, LineLeaf
  <2>2. Tree!Column(l, d) \in Nat
    BY <1>1
  <2> QED
    BY <2>1, <2>2 DEF Node, LeafNode
<1> HIDE DEF ds, leaf
<1>5. CASE l.leaf.kind = "none"
  BY <1>2, <1>3, <1>5 DEF d
<1>6. CASE l.leaf.kind # "none"
  <2> DEFINE t == Append(ds, leaf)
  <2>1. /\ t \in Seq(Node) /\ Len(t) = d + 1
        /\ \A i \in 1 .. d : t[i] = ds[i]
        /\ t[d + 1] = leaf
    BY <1>3, <1>4, <1>6, AppendProperties
  <2> HIDE DEF t
  <2>2. Tree!LineNodes(l) = t
    BY <1>2, <1>6 DEF t
  <2> QED
    BY <1>3, <1>6, <2>1, <2>2 DEF d, leaf
<1> QED
  BY <1>5, <1>6

(* The first node of a line, and what is left of the line behind it. *)
LEMMA LineHead ==
  ASSUME NEW l \in Line
  PROVE  LET ns == Tree!LineNodes(l)
         IN  /\ Len(ns) \in Nat /\ Len(ns) >= 1
             /\ ns[1].col = l.indent
             /\ NodeIsSeqitem(l) => ns[1].kind = "dash"
             /\ ~ NodeIsSeqitem(l) =>
                  Len(ns) = 1 /\ ns[1].kind = l.leaf.kind /\ ns[1].leaf = l.leaf
             /\ NodeIsSeqitem(l) /\ ~ HasInner(l) => Len(ns) = 1
<1> DEFINE d == Len(l.dashes)
           ns == Tree!LineNodes(l)
<1>1. /\ Len(ns) = IF l.leaf.kind = "none" THEN d ELSE d + 1
      /\ \A i \in 1 .. d : ns[i] = [kind |-> "dash", col |-> Tree!Column(l, i - 1)]
      /\ l.leaf.kind # "none" =>
           ns[d + 1] = [kind |-> l.leaf.kind, col |-> Tree!Column(l, d), leaf |-> l.leaf]
  BY LineNodesAre
<1>2. /\ d \in Nat /\ (l.dashes = << >> <=> d = 0)
      /\ l.leaf.kind = "none" => l.dashes # << >>
      /\ HasInner(l) <=> d > 1 \/ l.leaf.kind # "none"
      /\ NodeIsSeqitem(l) <=> d # 0
  BY LineFacts DEF HasInner, NodeIsSeqitem
<1>3. Tree!Column(l, 0) = l.indent
  BY ColumnsDef DEF ColumnsAre, Tree!Column
<1> HIDE DEF d, ns
<1>4. CASE d = 0
  <2>1. l.leaf.kind # "none" /\ d + 1 = 1
    BY <1>2, <1>4
  <2>2. ns[1] = [kind |-> l.leaf.kind, col |-> Tree!Column(l, 0), leaf |-> l.leaf]
    BY <1>1, <1>4, <2>1
  <2> QED
    BY <1>1, <1>2, <1>3, <1>4, <2>1, <2>2 DEF ns
<1>5. CASE d # 0
  <2>1. 1 \in 1 .. d /\ 1 - 1 = 0
    BY <1>2, <1>5
  <2>2. ns[1] = [kind |-> "dash", col |-> Tree!Column(l, 0)]
    BY <1>1, <2>1
  <2>3. Len(ns) \in Nat /\ Len(ns) >= 1 /\ (~ HasInner(l) => Len(ns) = 1)
    BY <1>1, <1>2, <1>5
  <2> QED
    BY <1>2, <1>3, <1>5, <2>2, <2>3 DEF ns
<1> QED
  BY <1>4, <1>5

(* The synthetic line has the nodes of the line but the first. *)
LEMMA LineTail ==
  ASSUME NEW l \in Line, NodeIsSeqitem(l), HasInner(l)
  PROVE  LET ns == Tree!LineNodes(l)
             ms == Tree!LineNodes(Synthetic(l))
         IN  /\ Len(ns) = Len(ms) + 1
             /\ \A i \in 1 .. Len(ms) : ms[i] = ns[i + 1]
<1> DEFINE d == Len(l.dashes)
           s == Synthetic(l)
           e == Len(s.dashes)
           ns == Tree!LineNodes(l)
           ms == Tree!LineNodes(s)
<1>1. /\ s \in Line /\ s.leaf = l.leaf /\ e = d - 1 /\ d \in Nat \ {0}
  BY SyntheticLine
<1>2. /\ Len(ns) = IF l.leaf.kind = "none" THEN d ELSE d + 1
      /\ \A i \in 1 .. d : ns[i] = [kind |-> "dash", col |-> Tree!Column(l, i - 1)]
      /\ l.leaf.kind # "none" =>
           ns[d + 1] = [kind |-> l.leaf.kind, col |-> Tree!Column(l, d), leaf |-> l.leaf]
  BY LineNodesAre
<1>3. /\ Len(ms) = IF l.leaf.kind = "none" THEN e ELSE e + 1
      /\ \A i \in 1 .. e : ms[i] = [kind |-> "dash", col |-> Tree!Column(s, i - 1)]
      /\ l.leaf.kind # "none" =>
           ms[e + 1] = [kind |-> l.leaf.kind, col |-> Tree!Column(s, e), leaf |-> l.leaf]
  <2> HIDE DEF s
  <2>1. /\ Len(ms) = IF s.leaf.kind = "none" THEN e ELSE e + 1
        /\ \A i \in 1 .. e : ms[i] = [kind |-> "dash", col |-> Tree!Column(s, i - 1)]
        /\ s.leaf.kind # "none" =>
             ms[e + 1] = [kind |-> s.leaf.kind, col |-> Tree!Column(s, e), leaf |-> s.leaf]
    BY <1>1, LineNodesAre
  <2> QED
    BY <1>1, <2>1
<1>4. \A n \in 0 .. d - 1 : Tree!Column(s, n) = Tree!Column(l, n + 1)
  BY ColumnsShift
<1> HIDE DEF d, e, s, ns, ms
<1>5. Len(ns) = Len(ms) + 1
  BY <1>1, <1>2, <1>3
<1>6. ASSUME NEW i \in 1 .. e PROVE ms[i] = ns[i + 1]
  <2>1. i + 1 \in 1 .. d /\ (i + 1) - 1 = i /\ i - 1 \in 0 .. d - 1 /\ (i - 1) + 1 = i
    BY <1>1
  <2>2. Tree!Column(s, i - 1) = Tree!Column(l, i)
    BY <1>4, <2>1
  <2> QED
    BY <1>2, <1>3, <2>1, <2>2
<1>7. ASSUME l.leaf.kind # "none" PROVE ms[e + 1] = ns[(e + 1) + 1]
  <2>1. (e + 1) + 1 = d + 1 /\ e \in 0 .. d - 1 /\ e + 1 = d
    BY <1>1
  <2>2. Tree!Column(s, e) = Tree!Column(l, d)
    BY <1>4, <2>1
  <2> QED
    BY <1>2, <1>3, <1>7, <2>1, <2>2
<1>8. \A i \in 1 .. Len(ms) : ms[i] = ns[i + 1]
  <2> SUFFICES ASSUME NEW i \in 1 .. Len(ms) PROVE ms[i] = ns[i + 1]
    OBVIOUS
  <2>1. i \in 1 .. e \/ (i = e + 1 /\ l.leaf.kind # "none")
    BY <1>1, <1>3
  <2> QED
    BY <1>6, <1>7, <2>1
<1> QED
  BY <1>5, <1>8 DEF ns, ms, s

(* The leaf of a node is the leaf of the line. *)
LEMMA LineLeaves ==
  ASSUME NEW l \in Line, NEW i \in 1 .. Len(Tree!LineNodes(l)),
         Tree!LineNodes(l)[i].kind # "dash"
  PROVE  Tree!LineNodes(l)[i].leaf = l.leaf /\ Tree!LineNodes(l)[i].kind = l.leaf.kind
<1> DEFINE d == Len(l.dashes)
           ns == Tree!LineNodes(l)
<1>1. /\ Len(ns) = IF l.leaf.kind = "none" THEN d ELSE d + 1
      /\ \A j \in 1 .. d : ns[j] = [kind |-> "dash", col |-> Tree!Column(l, j - 1)]
      /\ l.leaf.kind # "none" =>
           ns[d + 1] = [kind |-> l.leaf.kind, col |-> Tree!Column(l, d), leaf |-> l.leaf]
  BY LineNodesAre
<1>2. d \in Nat
  BY LineFacts
<1>0. ns[i].kind # "dash" /\ i \in 1 .. Len(ns)
  OBVIOUS
<1> HIDE DEF d, ns
<1>3. ~ i \in 1 .. d
  <2> SUFFICES ASSUME i \in 1 .. d PROVE FALSE
    OBVIOUS
  <2>1. ns[i] = [kind |-> "dash", col |-> Tree!Column(l, i - 1)]
    BY <1>1
  <2> QED
    BY <1>0, <2>1
<1>4. i = d + 1 /\ l.leaf.kind # "none"
  BY <1>0, <1>1, <1>2, <1>3
<1> QED
  BY <1>1, <1>4 DEF ns

-----------------------------------------------------------------------------
(* The nodes of a line list. *)

LastAre(last, ls) ==
  /\ last \in [0 .. Len(ls) -> Seq(Node)]
  /\ last[0] = << >>
  /\ \A n \in 1 .. Len(ls) :
       last[n] = Tree!LineNodes(ls[Len(ls) + 1 - n]) \o last[n - 1]

LEMMA NodesOfLastDef ==
  ASSUME NEW ls \in Seq(Line)
  PROVE  LastAre(Tree!NodesOfLast(ls), ls)
<1> DEFINE m == Len(ls)
           X == Seq(Node)
           L(n) == Tree!LineNodes(ls[m + 1 - n])
           F == [q \in (1 .. m) \X X |-> L(q[1]) \o q[2]]
           Body(f) == [n \in 0 .. m |-> IF n = 0 THEN << >> ELSE L(n) \o f[n - 1]]
<1>1. m \in Nat /\ << >> \in X
  BY LenProperties, EmptySeq
<1>2. \A n \in 1 .. m : L(n) \in X
  <2> SUFFICES ASSUME NEW n \in 1 .. m PROVE L(n) \in X
    OBVIOUS
  <2>1. m + 1 - n \in 1 .. m
    BY <1>1
  <2>2. ls[m + 1 - n] \in Line
    BY <2>1, ElementOfSeq
  <2> QED
    BY <2>2, LineNodesAre
<1> HIDE DEF m, L
<1>3. F \in [(1 .. m) \X X -> X]
  <2>1. \A n \in 1 .. m, y \in X : L(n) \o y \in X
    BY <1>2, ConcatProperties
  <2> QED
    BY <2>1
<1> HIDE DEF F
<1>4. PICK f : IteratesUpTo(f, m, X, << >>, F)
  <2> HIDE DEF X
  <2> QED
    BY <1>1, <1>3, RecursionUpTo
<1>5. ASSUME NEW n \in 1 .. m
      PROVE  F[<< n, f[n - 1] >>] = L(n) \o f[n - 1]
  <2> HIDE DEF X
  <2>1. << n, f[n - 1] >> \in (1 .. m) \X X
    BY <1>1, <1>4 DEF IteratesUpTo
  <2> QED
    BY <2>1 DEF F
<1> HIDE DEF X
<1>6. f = Body(f)
  <2>1. \A n \in 0 .. m : n # 0 => n \in 1 .. m
    BY <1>1
  <2> QED
    BY <1>1, <1>4, <1>5, <2>1 DEF IteratesUpTo
<1> DEFINE last == Tree!NodesOfLast(ls)
<1>7. last = CHOOSE g : g = Body(g)
  BY DEF Tree!NodesOfLast, m, L
<1>8. last = Body(last)
  <2> HIDE DEF Body, last
  <2> QED
    BY <1>6, <1>7
<1> HIDE DEF last
<1>9. last[0] = << >>
  BY <1>1, <1>8
<1>10. ASSUME NEW n \in 1 .. m PROVE last[n] = L(n) \o last[n - 1]
  <2>1. n \in 0 .. m /\ n # 0
    BY <1>1
  <2> QED
    BY <1>8, <2>1
<1>11. \A n \in 0 .. m : last[n] \in X
  <2> DEFINE G == {n \in 0 .. m : last[n] \in X}
  <2>1. 0 \in G
    BY <1>1, <1>9
  <2>2. ASSUME NEW n \in 0 .. m - 1, n \in G PROVE n + 1 \in G
    <3>1. n + 1 \in 1 .. m /\ (n + 1) - 1 = n /\ last[n] \in X /\ n + 1 \in 0 .. m
      BY <1>1, <2>2
    <3>2. last[n + 1] = L(n + 1) \o last[n]
      BY <1>10, <3>1
    <3>3. last[n + 1] \in X
      BY <1>2, <3>1, <3>2, ConcatProperties DEF X
    <3> QED
      BY <3>1, <3>3
  <2> HIDE DEF G
  <2>3. 0 .. m \subseteq G
    BY <1>1, <2>1, <2>2, AllUpTo
  <2> QED
    BY <2>3 DEF G
<1>12. last \in [0 .. m -> X]
  BY <1>8, <1>11
<1> QED
  BY <1>9, <1>10, <1>12 DEF LastAre, last, m, L, X

(* The nodes of a line list are those of its first line and of the rest. *)
LEMMA NodesAre ==
  ASSUME NEW ls \in Seq(Line)
  PROVE  /\ Tree!Nodes(ls) \in Seq(Node)
         /\ ls = << >> => Tree!Nodes(ls) = << >>
         /\ ls # << >> => Tree!Nodes(ls) = Tree!LineNodes(ls[1]) \o Tree!Nodes(Tail(ls))
<1> DEFINE m == Len(ls)
           a == Tree!NodesOfLast(ls)
<1>1. m \in Nat /\ (ls = << >> => m = 0) /\ (ls # << >> => m \in Nat \ {0})
  BY LenProperties, EmptySeq
<1>2. /\ a \in [0 .. m -> Seq(Node)]
      /\ a[0] = << >>
      /\ \A n \in 1 .. m : a[n] = Tree!LineNodes(ls[m + 1 - n]) \o a[n - 1]
  BY NodesOfLastDef DEF LastAre
<1>3. Tree!Nodes(ls) = a[m]
  BY DEF Tree!Nodes
<1> HIDE DEF m, a
<1>4. ASSUME ls # << >>
      PROVE  Tree!Nodes(ls) = Tree!LineNodes(ls[1]) \o Tree!Nodes(Tail(ls))
  <2> DEFINE t == Tail(ls)
             k == m - 1
             b == Tree!NodesOfLast(t)
  <2>1. /\ t \in Seq(Line) /\ Len(t) = k /\ k \in Nat
        /\ \A i \in 1 .. k : t[i] = ls[i + 1]
    BY <1>1, <1>4, HeadTailProperties DEF m
  <2> HIDE DEF t
  <2>2. LastAre(b, t)
    BY <2>1, NodesOfLastDef
  <2>3. /\ b[0] = << >>
        /\ \A n \in 1 .. k : b[n] = Tree!LineNodes(t[k + 1 - n]) \o b[n - 1]
    BY <2>1, <2>2 DEF LastAre
  <2> HIDE DEF b
  <2> DEFINE G == {n \in 0 .. k : a[n] = b[n]}
  <2>4. 0 \in G
    BY <1>2, <2>1, <2>3
  <2>5. ASSUME NEW n \in 0 .. k - 1, n \in G PROVE n + 1 \in G
    <3>1. /\ n + 1 \in 1 .. k /\ n + 1 \in 1 .. m /\ (n + 1) - 1 = n
          /\ k + 1 - (n + 1) \in 1 .. k /\ n + 1 \in 0 .. k
          /\ (k + 1 - (n + 1)) + 1 = m + 1 - (n + 1)
      BY <1>1, <2>1
    <3>2. t[k + 1 - (n + 1)] = ls[m + 1 - (n + 1)]
      BY <2>1, <3>1
    <3>3. a[n] = b[n]
      BY <2>5
    <3>4. a[n + 1] = Tree!LineNodes(ls[m + 1 - (n + 1)]) \o a[n]
      BY <1>2, <3>1
    <3>5. b[n + 1] = Tree!LineNodes(t[k + 1 - (n + 1)]) \o b[n]
      BY <2>3, <3>1
    <3> QED
      BY <3>1, <3>2, <3>3, <3>4, <3>5
  <2> HIDE DEF G
  <2>6. 0 .. k \subseteq G
    <3> HIDE DEF k
    <3> QED
      BY <2>1, <2>4, <2>5, AllUpTo
  <2>7. k \in 0 .. k
    BY <2>1
  <2>8. a[k] = b[k]
    BY <2>6, <2>7 DEF G
  <2>9. m \in 1 .. m /\ m + 1 - m = 1 /\ m - 1 = k
    BY <1>1, <1>4
  <2>10. a[m] = Tree!LineNodes(ls[1]) \o a[k]
    BY <1>2, <2>9
  <2>11. Tree!Nodes(t) = b[k]
    BY <2>1 DEF Tree!Nodes, b
  <2> QED
    BY <1>3, <2>8, <2>10, <2>11 DEF t
<1>5. m \in 0 .. m
  BY <1>1
<1>6. Tree!Nodes(ls) \in Seq(Node)
  BY <1>2, <1>3, <1>5
<1>7. ls = << >> => Tree!Nodes(ls) = << >>
  BY <1>1, <1>2, <1>3
<1> QED
  BY <1>4, <1>6, <1>7

LEMMA NodesWellTyped ==
  ASSUME NEW ls \in Seq(Line)
  PROVE  AreNodes(Tree!Nodes(ls))
<1> DEFINE ns == Tree!Nodes(ls)
<1>1. ns \in Seq(Node)
  BY NodesAre
<1> HIDE DEF ns
<1>2. \A k \in 1 .. Len(ns) : ns[k] \in Node
  BY <1>1, ElementOfSeq
<1>3. \A n \in Node : n.col \in Nat /\ n.kind \in NodeKinds
  BY DEF Node, DashNode, LeafNode, NodeKinds
<1>4. Len(ns) \in Nat /\ DOMAIN ns = 1 .. Len(ns)
  BY <1>1, LenProperties
<1> QED
  BY <1>2, <1>3, <1>4 DEF AreNodes, ns

(* The leaf of every node is a leaf of a line. *)
LEMMA NodeLeaves ==
  ASSUME NEW ls \in Seq(Line), NEW k \in 1 .. Len(Tree!Nodes(ls)),
         Tree!Nodes(ls)[k].kind # "dash"
  PROVE  \E i \in 1 .. Len(ls) : /\ Tree!Nodes(ls)[k].leaf = ls[i].leaf
                                /\ Tree!Nodes(ls)[k].kind = ls[i].leaf.kind
<1> DEFINE m == Len(ls)
           a == Tree!NodesOfLast(ls)
           From(s) == \A j \in 1 .. Len(s) :
                        s[j].kind # "dash" =>
                          \E i \in 1 .. m : s[j].leaf = ls[i].leaf /\ s[j].kind = ls[i].leaf.kind
           G == {n \in 0 .. m : From(a[n])}
<1>1. m \in Nat
  BY LenProperties
<1>2. /\ a \in [0 .. m -> Seq(Node)]
      /\ a[0] = << >>
      /\ \A n \in 1 .. m : a[n] = Tree!LineNodes(ls[m + 1 - n]) \o a[n - 1]
  BY NodesOfLastDef DEF LastAre
<1> HIDE DEF m, a
<1>3. 0 \in G
  <2>1. Len(a[0]) = 0
    BY <1>2
  <2> QED
    BY <1>1, <2>1
<1>4. ASSUME NEW n \in 0 .. m - 1, n \in G PROVE n + 1 \in G
  <2> DEFINE i == m + 1 - (n + 1)
             s == Tree!LineNodes(ls[i])
             t == a[n]
             u == a[n + 1]
  <2>1. n + 1 \in 1 .. m /\ (n + 1) - 1 = n /\ i \in 1 .. m /\ n \in 0 .. m /\ n + 1 \in 0 .. m
    BY <1>1
  <2>2. ls[i] \in Line
    BY <2>1, ElementOfSeq DEF m
  <2>3. s \in Seq(Node) /\ t \in Seq(Node) /\ u = s \o t
    BY <1>2, <2>1, <2>2, LineNodesAre
  <2>4. From(s)
    BY <2>1, <2>2, LineLeaves
  <2>5. From(t)
    BY <1>4
  <2> HIDE DEF s, t, u, i
  <2>6. /\ Len(u) = Len(s) + Len(t) /\ Len(s) \in Nat /\ Len(t) \in Nat
        /\ \A j \in 1 .. Len(s) + Len(t) : u[j] = IF j <= Len(s) THEN s[j] ELSE t[j - Len(s)]
    BY <2>3, ConcatProperties, LenProperties
  <2>7. ASSUME NEW j \in 1 .. Len(u), u[j].kind # "dash"
        PROVE  \E h \in 1 .. m : u[j].leaf = ls[h].leaf /\ u[j].kind = ls[h].leaf.kind
    <3>1. CASE j <= Len(s)
      <4>1. j \in 1 .. Len(s) /\ u[j] = s[j]
        BY <2>6, <3>1
      <4> QED
        BY <2>4, <2>7, <4>1
    <3>2. CASE ~ j <= Len(s)
      <4>1. j - Len(s) \in 1 .. Len(t) /\ u[j] = t[j - Len(s)]
        BY <2>6, <3>2
      <4> QED
        BY <2>5, <2>7, <4>1
    <3> QED
      BY <3>1, <3>2
  <2>8. From(u)
    BY <2>7
  <2> QED
    BY <2>1, <2>8 DEF u
<1> HIDE DEF G
<1>5. m \in G
  <2>1. 0 .. m \subseteq G
    BY <1>1, <1>3, <1>4, AllUpTo
  <2> QED
    BY <1>1, <2>1
<1>6. From(Tree!Nodes(ls))
  BY <1>5 DEF G, Tree!Nodes, a, m
<1> QED
  BY <1>6 DEF m

(* Every leaf of a line is at a node. *)
HasLeaf(s, f) == \E k \in 1 .. Len(s) : s[k].leaf = f /\ s[k].kind = f.kind

LEMMA LineHasLeaf ==
  ASSUME NEW l \in Line, l.leaf.kind # "none"
  PROVE  HasLeaf(Tree!LineNodes(l), l.leaf)
<1> DEFINE d == Len(l.dashes)
           ns == Tree!LineNodes(l)
<1>1. /\ Len(ns) = d + 1
      /\ ns[d + 1] = [kind |-> l.leaf.kind, col |-> Tree!Column(l, d), leaf |-> l.leaf]
  BY LineNodesAre
<1>2. d \in Nat
  BY LineFacts
<1> HIDE DEF d, ns
<1>3. d + 1 \in 1 .. Len(ns)
  BY <1>1, <1>2
<1>4. ns[d + 1].leaf = l.leaf /\ ns[d + 1].kind = l.leaf.kind
  BY <1>1
<1> QED
  BY <1>3, <1>4 DEF HasLeaf, ns

LEMMA ConcatHasLeaf ==
  ASSUME NEW s \in Seq(Node), NEW t \in Seq(Node), NEW f, HasLeaf(s, f) \/ HasLeaf(t, f)
  PROVE  HasLeaf(s \o t, f)
<1> DEFINE u == s \o t
<1>1. /\ Len(u) = Len(s) + Len(t) /\ Len(s) \in Nat /\ Len(t) \in Nat
      /\ \A j \in 1 .. Len(s) + Len(t) : u[j] = IF j <= Len(s) THEN s[j] ELSE t[j - Len(s)]
  BY ConcatProperties, LenProperties
<1> HIDE DEF u
<1>2. CASE HasLeaf(s, f)
  <2>1. PICK k \in 1 .. Len(s) : s[k].leaf = f /\ s[k].kind = f.kind
    BY <1>2 DEF HasLeaf
  <2>2. k \in 1 .. Len(u) /\ u[k] = s[k]
    BY <1>1
  <2> QED
    BY <2>1, <2>2 DEF HasLeaf, u
<1>3. CASE HasLeaf(t, f)
  <2>1. PICK k \in 1 .. Len(t) : t[k].leaf = f /\ t[k].kind = f.kind
    BY <1>3 DEF HasLeaf
  <2>2. k + Len(s) \in 1 .. Len(u) /\ ~ (k + Len(s) <= Len(s)) /\ (k + Len(s)) - Len(s) = k
    BY <1>1
  <2>3. u[k + Len(s)] = t[k]
    BY <1>1, <2>2
  <2> QED
    BY <2>1, <2>2, <2>3 DEF HasLeaf, u
<1> QED
  BY <1>2, <1>3

LEMMA LeafHasNode ==
  ASSUME NEW ls \in Seq(Line), NEW i \in 1 .. Len(ls), ls[i].leaf.kind # "none"
  PROVE  HasLeaf(Tree!Nodes(ls), ls[i].leaf)
<1> DEFINE m == Len(ls)
           a == Tree!NodesOfLast(ls)
           G == {n \in 0 .. m : m + 1 - n <= i => HasLeaf(a[n], ls[i].leaf)}
<1>1. m \in Nat /\ i \in 1 .. m
  BY LenProperties
<1>2. /\ a \in [0 .. m -> Seq(Node)]
      /\ \A n \in 1 .. m : a[n] = Tree!LineNodes(ls[m + 1 - n]) \o a[n - 1]
  BY NodesOfLastDef DEF LastAre
<1> HIDE DEF m, a
<1>3. 0 \in G
  BY <1>1
<1>4. ASSUME NEW n \in 0 .. m - 1, n \in G PROVE n + 1 \in G
  <2> DEFINE j == m + 1 - (n + 1)
             s == Tree!LineNodes(ls[j])
  <2>1. n + 1 \in 1 .. m /\ (n + 1) - 1 = n /\ j \in 1 .. m /\ n \in 0 .. m /\ n + 1 \in 0 .. m
    BY <1>1
  <2>2. ls[j] \in Line
    BY <2>1, ElementOfSeq DEF m
  <2>3. s \in Seq(Node) /\ a[n] \in Seq(Node) /\ a[n + 1] = s \o a[n]
    BY <1>2, <2>1, <2>2, LineNodesAre
  <2>4. ASSUME j <= i PROVE HasLeaf(s, ls[i].leaf) \/ HasLeaf(a[n], ls[i].leaf)
    <3>1. j = i \/ m + 1 - n <= i
      BY <1>1, <2>1, <2>4
    <3> QED
      BY <1>4, <2>2, <3>1, LineHasLeaf
  <2> HIDE DEF s
  <2>5. j <= i => HasLeaf(a[n + 1], ls[i].leaf)
    BY <2>3, <2>4, ConcatHasLeaf
  <2> QED
    BY <2>1, <2>5
<1> HIDE DEF G
<1>5. m \in G
  <2>1. 0 .. m \subseteq G
    BY <1>1, <1>3, <1>4, AllUpTo
  <2> QED
    BY <1>1, <2>1
<1>6. m + 1 - m <= i
  BY <1>1
<1> QED
  BY <1>5, <1>6 DEF G, Tree!Nodes, a, m

(* The first c nodes are read; those of the line list r are left. *)
Suffix(ns, c, r) ==
  /\ c \in Nat
  /\ c + Len(Tree!Nodes(r)) = Len(ns)
  /\ \A i \in 1 .. Len(Tree!Nodes(r)) : ns[c + i] = Tree!Nodes(r)[i]

LEMMA SuffixAll ==
  ASSUME NEW ls \in Seq(Line)
  PROVE  Suffix(Tree!Nodes(ls), 0, ls)
<1>1. Len(Tree!Nodes(ls)) \in Nat
  BY NodesWellTyped DEF AreNodes
<1> QED
  BY <1>1 DEF Suffix

LEMMA SuffixEnd ==
  ASSUME NEW ns, Len(ns) \in Nat, NEW c, NEW r \in Seq(Line), r = << >>,
         Suffix(ns, c, r)
  PROVE  c = Len(ns)
<1> DEFINE u == Tree!Nodes(r)
           n == Len(u)
<1>1. u = << >>
  BY NodesAre
<1> HIDE DEF u
<1>2. n = 0
  BY <1>1, EmptySeq
<1>3. c \in Nat /\ c + n = Len(ns)
  BY DEF Suffix, u
<1> HIDE DEF n
<1> QED
  BY <1>2, <1>3

(* The node the head line begins with. *)
LEMMA HeadNode ==
  ASSUME NEW ns, Len(ns) \in Nat, NEW c, NEW r \in Seq(Line), r # << >>,
         Suffix(ns, c, r)
  PROVE  /\ c \in Nat /\ c + 1 \in 1 .. Len(ns) /\ c < Len(ns)
         /\ ns[c + 1].col = Head(r).indent
         /\ NodeIsSeqitem(Head(r)) <=> ns[c + 1].kind = "dash"
         /\ NodeIsPair(Head(r)) <=> Tree!IsEntry(ns[c + 1])
         /\ ~ NodeIsSeqitem(Head(r)) =>
              ns[c + 1].kind = Head(r).leaf.kind /\ ns[c + 1].leaf = Head(r).leaf
<1> DEFINE l == Head(r)
           s == Tree!LineNodes(l)
           t == Tree!Nodes(Tail(r))
           u == Tree!Nodes(r)
<1>1. l \in Line /\ l = r[1] /\ Tail(r) \in Seq(Line)
  BY HeadTailProperties
<1>2. s \in Seq(Node) /\ t \in Seq(Node) /\ u = s \o t
  BY <1>1, NodesAre, LineNodesAre
<1>3. /\ Len(s) \in Nat /\ Len(s) >= 1
      /\ s[1].col = l.indent
      /\ NodeIsSeqitem(l) => s[1].kind = "dash"
      /\ ~ NodeIsSeqitem(l) => s[1].kind = l.leaf.kind /\ s[1].leaf = l.leaf
  BY <1>1, LineHead
<1>4. /\ c \in Nat /\ c + Len(u) = Len(ns)
      /\ \A i \in 1 .. Len(u) : ns[c + i] = u[i]
  BY DEF Suffix
<1> HIDE DEF l, s, t, u
<1>5. /\ Len(u) = Len(s) + Len(t) /\ Len(t) \in Nat
      /\ \A j \in 1 .. Len(s) + Len(t) : u[j] = IF j <= Len(s) THEN s[j] ELSE t[j - Len(s)]
  BY <1>2, ConcatProperties, LenProperties
<1>6. ns[c + 1] = s[1] /\ c + 1 \in 1 .. Len(ns) /\ c < Len(ns)
  <2>1. 1 \in 1 .. Len(u) /\ 1 \in 1 .. Len(s) + Len(t)
    BY <1>3, <1>5
  <2>2. u[1] = s[1] /\ ns[c + 1] = u[1]
    BY <1>3, <1>4, <1>5, <2>1
  <2> QED
    BY <1>3, <1>4, <1>5, <2>2
<1>7. l.leaf.kind # "dash"
  BY <1>1, LineLeaf
<1>8. /\ NodeIsSeqitem(l) <=> s[1].kind = "dash"
      /\ NodeIsPair(l) <=> Tree!IsEntry(s[1])
  BY <1>3, <1>7 DEF NodeIsSeqitem, NodeIsPair, Tree!IsEntry
<1> QED
  BY <1>3, <1>4, <1>6, <1>8 DEF l

(* The node after it begins what is left of the line list. *)
LEMMA HeadRead ==
  ASSUME NEW ns, Len(ns) \in Nat, NEW c, NEW r \in Seq(Line), r # << >>,
         Suffix(ns, c, r),
         NEW q \in Seq(Line),
         IF NodeIsSeqitem(Head(r)) /\ HasInner(Head(r))
         THEN q = << Synthetic(Head(r)) >> \o Tail(r) ELSE q = Tail(r)
  PROVE  Suffix(ns, c + 1, q)
<1> DEFINE l == Head(r)
           s == Tree!LineNodes(l)
           t == Tree!Nodes(Tail(r))
           u == Tree!Nodes(r)
           v == Tree!Nodes(q)
<1>1. l \in Line /\ l = r[1] /\ Tail(r) \in Seq(Line)
  BY HeadTailProperties
<1>2. s \in Seq(Node) /\ t \in Seq(Node) /\ u = s \o t
  BY <1>1, NodesAre, LineNodesAre
<1>3. Len(s) \in Nat /\ Len(s) >= 1
  BY <1>1, LineHead
<1>4. /\ c \in Nat /\ c + Len(u) = Len(ns)
      /\ \A i \in 1 .. Len(u) : ns[c + i] = u[i]
  BY DEF Suffix
<1>5. /\ Len(u) = Len(s) + Len(t) /\ Len(t) \in Nat
      /\ \A j \in 1 .. Len(s) + Len(t) : u[j] = IF j <= Len(s) THEN s[j] ELSE t[j - Len(s)]
  <2> HIDE DEF s, t, u
  <2> QED
    BY <1>2, ConcatProperties, LenProperties
<1>6. /\ Len(v) = Len(u) - 1
      /\ \A j \in 1 .. Len(v) : v[j] = u[j + 1]
  <2>1. CASE NodeIsSeqitem(l) /\ HasInner(l)
    <3> DEFINE y == Synthetic(l)
               w == Tree!LineNodes(y)
    <3>1. y \in Line /\ q = << y >> \o Tail(r)
      BY <1>1, <2>1, SyntheticLine
    <3>2. Len(s) = Len(w) + 1 /\ \A i \in 1 .. Len(w) : w[i] = s[i + 1]
      BY <1>1, <2>1, LineTail
    <3> DEFINE z == Tail(r)
    <3>3. q # << >> /\ q[1] = y /\ Tail(q) = z
      <4> HIDE DEF y, z
      <4>1. z \in Seq(Line) /\ << y >> \in Seq(Line) /\ Len(<< y >>) = 1 /\ << y >>[1] = y
        BY <1>1, <3>1 DEF z
      <4>2. q = << y >> \o z
        BY <3>1 DEF z, y
      <4>3. /\ Len(q) = 1 + Len(z) /\ Len(z) \in Nat
            /\ \A i \in 1 .. 1 + Len(z) : q[i] = IF i <= 1 THEN << y >>[i] ELSE z[i - 1]
        BY <4>1, <4>2, ConcatProperties, LenProperties
      <4>4. q # << >> /\ q[1] = y
        BY <4>1, <4>3, EmptySeq
      <4>5. /\ Tail(q) \in Seq(Line) /\ Len(Tail(q)) = Len(q) - 1
            /\ \A i \in 1 .. Len(Tail(q)) : Tail(q)[i] = q[i + 1]
        BY <4>4, HeadTailProperties
      <4>6. Len(Tail(q)) = Len(z)
        BY <4>3, <4>5
      <4>7. ASSUME NEW i \in 1 .. Len(z) PROVE Tail(q)[i] = z[i]
        <5>1. i + 1 \in 1 .. 1 + Len(z) /\ ~ i + 1 <= 1 /\ (i + 1) - 1 = i
          BY <4>3
        <5> QED
          BY <4>3, <4>5, <4>6, <5>1
      <4> QED
        BY <4>1, <4>4, <4>5, <4>6, <4>7, SeqEqual
    <3>4. v = w \o t /\ w \in Seq(Node)
      BY <3>1, <3>3, NodesAre, LineNodesAre
    <3> HIDE DEF s, t, u, v, w
    <3>5. /\ Len(v) = Len(w) + Len(t) /\ Len(w) \in Nat
          /\ \A j \in 1 .. Len(w) + Len(t) : v[j] = IF j <= Len(w) THEN w[j] ELSE t[j - Len(w)]
      BY <1>2, <3>4, ConcatProperties, LenProperties
    <3>6. Len(v) = Len(u) - 1
      BY <1>5, <3>2, <3>5
    <3>7. ASSUME NEW j \in 1 .. Len(v) PROVE v[j] = u[j + 1]
      <4>1. j + 1 \in 1 .. Len(s) + Len(t) /\ j \in 1 .. Len(w) + Len(t)
        BY <1>5, <3>2, <3>5
      <4>2. CASE j <= Len(w)
        <5>1. j \in 1 .. Len(w) /\ j + 1 <= Len(s)
          BY <3>2, <3>5, <4>2
        <5> QED
          BY <1>5, <3>2, <3>5, <4>1, <4>2, <5>1
      <4>3. CASE ~ j <= Len(w)
        <5>1. ~ j + 1 <= Len(s) /\ (j + 1) - Len(s) = j - Len(w)
          BY <3>2, <3>5, <4>3
        <5> QED
          BY <1>5, <3>5, <4>1, <4>3, <5>1
      <4> QED
        BY <4>2, <4>3
    <3> QED
      BY <3>6, <3>7
  <2>2. CASE ~ (NodeIsSeqitem(l) /\ HasInner(l))
    <3>1. Len(s) = 1 /\ v = t
      BY <1>1, <2>2, LineHead
    <3> HIDE DEF s, t, u, v
    <3>2. Len(v) = Len(u) - 1
      BY <1>5, <3>1
    <3>3. ASSUME NEW j \in 1 .. Len(v) PROVE v[j] = u[j + 1]
      <4>1. j + 1 \in 1 .. Len(s) + Len(t) /\ ~ j + 1 <= Len(s) /\ (j + 1) - Len(s) = j
        BY <1>5, <3>1
      <4> QED
        BY <1>5, <3>1, <4>1
    <3> QED
      BY <3>2, <3>3
  <2> QED
    BY <2>1, <2>2
<1> HIDE DEF s, t, u, v
<1>7. (c + 1) + Len(v) = Len(ns) /\ c + 1 \in Nat
  <2> DEFINE d == Len(u)
             e == Len(v)
             N == Len(ns)
  <2>1. c \in Nat /\ d \in Nat /\ e = d - 1 /\ c + d = N
    BY <1>3, <1>4, <1>5, <1>6
  <2> HIDE DEF d, e, N
  <2>2. (c + 1) + e = N /\ c + 1 \in Nat
    BY <2>1
  <2> QED
    BY <2>2 DEF d, e, N
<1>8. ASSUME NEW j \in 1 .. Len(v) PROVE ns[(c + 1) + j] = v[j]
  <2>1. j + 1 \in 1 .. Len(u) /\ c + (j + 1) = (c + 1) + j
    BY <1>3, <1>4, <1>5, <1>6
  <2> QED
    BY <1>4, <1>6, <2>1
<1> QED
  BY <1>7, <1>8 DEF Suffix, v

-----------------------------------------------------------------------------
(***************************************************************************)
(* The values of the nodes.  A node only contains later ones, so the       *)
(* recursion of Values comes to an end.                                    *)
(***************************************************************************)

LEMMA BlockSame ==
  ASSUME NEW ns, NEW ks \in Seq(Nat), NEW g, NEW h,
         \A i \in 1 .. Len(ks) : g[ks[i]] = h[ks[i]]
  PROVE  Tree!BlockOf(ns, ks, g) = Tree!BlockOf(ns, ks, h)
<1>1. DOMAIN ks = 1 .. Len(ks) /\ Len(ks) \in Nat
  BY LenProperties
<1>2. ks # << >> => 1 \in 1 .. Len(ks)
  BY <1>1, EmptySeq
<1>3. [i \in DOMAIN ks |-> g[ks[i]]] = [i \in DOMAIN ks |-> h[ks[i]]]
  BY <1>1
<1>4. [i \in DOMAIN ks |-> Member(ns[ks[i]].leaf.key, g[ks[i]])]
      = [i \in DOMAIN ks |-> Member(ns[ks[i]].leaf.key, h[ks[i]])]
  BY <1>1
<1>5. ks # << >> => g[ks[1]] = h[ks[1]]
  BY <1>2
<1> QED
  BY <1>3, <1>4, <1>5 DEF Tree!BlockOf

ValueOf(ns, k, val) ==
  IF k # 0 /\ ns[k].kind \in {"member", "value"} THEN ns[k].leaf.val
  ELSE Tree!BlockOf(ns, Tree!Children(ns, k), val)

LEMMA ValueSame ==
  ASSUME NEW ns, AreNodes(ns), NEW k \in 0 .. Len(ns), NEW g, NEW h,
         \A i \in k + 1 .. Len(ns) : g[i] = h[i]
  PROVE  ValueOf(ns, k, g) = ValueOf(ns, k, h)
<1> DEFINE ks == Tree!Children(ns, k)
           N == Len(ns)
<1>1. N \in Nat
  BY DEF AreNodes
<1>2. KidsAre(ks, ns, k, N)
  BY <1>1, KidsHold DEF Kids, Tree!Children
<1> HIDE DEF ks
<1>3. ASSUME NEW i \in 1 .. Len(ks) PROVE g[ks[i]] = h[ks[i]]
  <2>1. ks[i] \in 1 .. N /\ Tree!Parent(ns, ks[i]) = k
    BY <1>2, <1>3 DEF KidsAre
  <2>2. k \in 0 .. ks[i] - 1
    BY <2>1, ParentIs
  <2>3. ks[i] \in k + 1 .. N
    BY <1>1, <2>1, <2>2
  <2> QED
    BY <2>3
<1>4. Tree!BlockOf(ns, ks, g) = Tree!BlockOf(ns, ks, h)
  BY <1>2, <1>3, BlockSame DEF KidsAre
<1> QED
  BY <1>4 DEF ValueOf, ks

LEMMA ValuesDef ==
  ASSUME NEW ns, AreNodes(ns)
  PROVE  \A k \in 0 .. Len(ns) :
           Tree!Values(ns)[k] = ValueOf(ns, k, Tree!Values(ns))
<1> DEFINE N == Len(ns)
           Begins(g, m) == \A k \in N - m .. N : g[k] = ValueOf(ns, k, g)
           G == {m \in 0 .. N : \E g : Begins(g, m)}
           Body(f) == [k \in 0 .. N |->
                         IF k # 0 /\ ns[k].kind \in {"member", "value"}
                         THEN ns[k].leaf.val
                         ELSE Tree!BlockOf(ns, Tree!Children(ns, k), f)]
<1>1. N \in Nat
  BY DEF AreNodes
<1>2. \A g, h, k : k \in 0 .. N /\ (\A i \in k + 1 .. N : g[i] = h[i])
                     => ValueOf(ns, k, g) = ValueOf(ns, k, h)
  BY ValueSame
<1> HIDE DEF N
<1>3. 0 \in G
  <2> DEFINE g == [k \in N .. N |-> ValueOf(ns, k, << >>)]
  <2>1. g[N] = ValueOf(ns, N, << >>)
    BY <1>1
  <2> HIDE DEF g
  <2>2. ValueOf(ns, N, << >>) = ValueOf(ns, N, g)
    BY <1>1, <1>2
  <2>3. Begins(g, 0)
    BY <1>1, <2>1, <2>2
  <2> QED
    BY <1>1, <2>3
<1>4. ASSUME NEW m \in 0 .. N - 1, m \in G PROVE m + 1 \in G
  <2>1. PICK g : Begins(g, m)
    BY <1>4
  <2> DEFINE p == N - (m + 1)
             h == [k \in p .. N |-> IF k = p THEN ValueOf(ns, k, g) ELSE g[k]]
  <2>2. p \in 0 .. N /\ p + 1 = N - m
    BY <1>1
  <2> HIDE DEF p
  <2>3. h[p] = ValueOf(ns, p, g) /\ \A k \in p + 1 .. N : h[k] = g[k]
    BY <1>1, <2>2
  <2> HIDE DEF h
  <2>4. ValueOf(ns, p, g) = ValueOf(ns, p, h)
    BY <1>2, <2>2, <2>3
  <2>5. ASSUME NEW k \in p + 1 .. N PROVE h[k] = ValueOf(ns, k, h)
    <3>1. k \in 0 .. N /\ \A i \in k + 1 .. N : i \in p + 1 .. N
      BY <1>1, <2>2
    <3>2. ValueOf(ns, k, g) = ValueOf(ns, k, h)
      BY <1>2, <2>3, <3>1
    <3>3. g[k] = ValueOf(ns, k, g)
      BY <2>1, <2>2
    <3> QED
      BY <2>3, <3>2, <3>3
  <2>6. \A k \in p .. N : k = p \/ k \in p + 1 .. N
    BY <1>1, <2>2
  <2>7. Begins(h, m + 1)
    BY <2>3, <2>4, <2>5, <2>6 DEF p
  <2>8. m + 1 \in 0 .. N
    BY <1>1
  <2> QED
    BY <2>7, <2>8
<1> HIDE DEF Begins, G
<1>5. N \in G
  <2>1. 0 .. N \subseteq G
    BY <1>1, <1>3, <1>4, AllUpTo
  <2> QED
    BY <1>1, <2>1
<1>6. PICK g : Begins(g, N)
  BY <1>5 DEF G
<1> DEFINE f == [k \in 0 .. N |-> g[k]]
<1>7. f = Body(f)
  <2>1. \A k \in 0 .. N : f[k] = g[k]
    OBVIOUS
  <2>2. ASSUME NEW k \in 0 .. N PROVE f[k] = ValueOf(ns, k, f)
    <3>1. \A i \in k + 1 .. N : i \in 0 .. N
      BY <1>1
    <3> HIDE DEF f
    <3>2. ValueOf(ns, k, g) = ValueOf(ns, k, f)
      BY <1>2, <2>1, <3>1
    <3>3. k \in N - N .. N
      BY <1>1
    <3>4. g[k] = ValueOf(ns, k, g)
      BY <1>6, <3>3 DEF Begins
    <3> QED
      BY <2>1, <3>2, <3>4
  <2>3. f = [k \in 0 .. N |-> f[k]]
    OBVIOUS
  <2> HIDE DEF f
  <2>4. [k \in 0 .. N |-> f[k]] = [k \in 0 .. N |-> ValueOf(ns, k, f)]
    BY <2>2
  <2>5. [k \in 0 .. N |-> ValueOf(ns, k, f)] = Body(f)
    BY DEF ValueOf
  <2> QED
    BY <2>3, <2>4, <2>5
<1> DEFINE val == Tree!Values(ns)
<1>8. val = CHOOSE v : v = Body(v)
  BY DEF Tree!Values, N
<1>9. val = Body(val)
  <2> HIDE DEF Body, val, f
  <2> QED
    BY <1>7, <1>8
<1> HIDE DEF val
<1>10. ASSUME NEW k \in 0 .. N PROVE val[k] = ValueOf(ns, k, val)
  <2>1. val[k] = Body(val)[k]
    BY <1>9
  <2> QED
    BY <2>1 DEF ValueOf
<1> QED
  BY <1>10 DEF val, N

-----------------------------------------------------------------------------
(***************************************************************************)
(* The descent in the tree.  After c nodes have been read the owners of    *)
(* the blocks that are open are ps[1] = 0, ps[2], .., each the last child  *)
(* of the one before it: ps[i] owns the block that frame i binds, and when *)
(* the frame on top is suspended, or there is none yet, the node that      *)
(* waits for a block comes last.                                           *)
(***************************************************************************)

(* The number of owners when n loops have been entered. *)
Owners(n, at) == n + (IF at = "loop" THEN 0 ELSE 1)

Stack(fr) ==
  /\ Len(fr) \in Nat
  /\ \A i \in 1 .. Len(fr) : fr[i].indent \in Nat /\ fr[i].kind \in {"map", "seq"}
  /\ \A i, j \in 1 .. Len(fr) : i < j => Inside(fr[i], fr[j])

(* Node n is an entry of the loop f. *)
Fits(n, f) ==
  /\ n.col = f.indent
  /\ IF f.kind = "map" THEN Tree!IsEntry(n) ELSE n.kind = "dash"

(* Node n stands where something inside the block of f may stand. *)
Under(n, f) ==
  /\ n.col >= f.indent
  /\ f.kind = "seq" /\ n.col = f.indent => ~ Tree!IsEntry(n)

(* Node p encloses the entries of f. *)
Over(ns, p, f) ==
  \/ p = 0
  \/ ns[p].col < f.indent
  \/ ns[p].col = f.indent /\ Tree!IsEntry(ns[p]) /\ f.kind = "seq"

Open(ns, c, ps, fr, m) ==
  /\ ps[1] = 0
  /\ \A i \in 1 .. m : ps[i] <= c /\ Tree!HasRoom(ns, ps[i])
  /\ \A i, j \in 1 .. m : i < j => ps[i] < ps[j]
  /\ \A i \in 1 .. m - 1 :
       /\ Tree!Parent(ns, ps[i + 1]) = ps[i]
       /\ \A k \in ps[i + 1] + 1 .. c : Tree!Parent(ns, k) # ps[i]
  /\ \A i \in 1 .. Len(fr) :
       /\ Over(ns, ps[i], fr[i])
       /\ \A k \in 1 .. c : Tree!Parent(ns, k) = ps[i] => Fits(ns[k], fr[i])
       /\ \A k \in ps[i] + 1 .. c : Under(ns[k], fr[i])

LEMMA LastOrBefore ==
  ASSUME NEW n \in Nat, NEW i \in 1 .. n + 1
  PROVE  /\ i = n + 1 \/ i \in 1 .. n
         /\ i = n + 1 \/ i < n + 1
OBVIOUS

(* What fits the loop on top stands under every loop. *)
LEMMA FitsUnder ==
  ASSUME NEW fr, Stack(fr), Len(fr) # 0, NEW n, n.col \in Nat, Fits(n, fr[Len(fr)])
  PROVE  \A i \in 1 .. Len(fr) : Under(n, fr[i])
<1> DEFINE m == Len(fr)
           f == fr[m]
<1>1. m \in 1 .. m /\ m \in Nat
  BY DEF Stack
<1>2. /\ f.indent \in Nat /\ f.kind \in {"map", "seq"}
      /\ n.col = f.indent
      /\ IF f.kind = "map" THEN Tree!IsEntry(n) ELSE n.kind = "dash"
  BY <1>1 DEF Stack, Fits
<1> TAKE i \in 1 .. Len(fr)
<1> DEFINE g == fr[i]
<1>3. g.indent \in Nat /\ (i = m \/ Inside(g, f))
  BY <1>1 DEF Stack
<1>4. CASE i = m
  <2>1. g = f
    BY <1>4
  <2> QED
    BY <1>2, <2>1 DEF Under, Tree!IsEntry
<1>5. CASE Inside(g, f)
  <2> HIDE DEF g, f
  <2>1. Under(n, g)
    BY <1>2, <1>3, <1>5 DEF Under, Inside, Tree!IsEntry
  <2> QED
    BY <2>1 DEF g
<1> QED
  BY <1>3, <1>4, <1>5

(* What stands under a loop does not enclose what fits the loop. *)
LEMMA UnderIsNotOver ==
  ASSUME NEW f, f.indent \in Nat, f.kind \in {"map", "seq"},
         NEW x, x.col \in Nat, Under(x, f), NEW y, Fits(y, f)
  PROVE  ~ Tree!Encloses(x, y)
<1>1. ~ x.col < y.col
  BY DEF Under, Fits
<1>2. CASE f.kind = "map"
  <2>1. y.kind # "dash"
    BY <1>2 DEF Fits, Tree!IsEntry
  <2> QED
    BY <1>1, <2>1 DEF Tree!Encloses
<1>3. CASE f.kind = "seq"
  <2>1. x.col = y.col => ~ Tree!IsEntry(x)
    BY <1>3 DEF Under, Fits
  <2> QED
    BY <1>1, <2>1 DEF Tree!Encloses
<1> QED
  BY <1>2, <1>3

(* The next node is the child of the block on top when it fits it. *)
LEMMA ChildOfTop ==
  ASSUME NEW ns, AreNodes(ns), NEW c \in Nat, c + 1 \in 1 .. Len(ns),
         NEW fr, Stack(fr), Len(fr) # 0, NEW ps \in [Nat -> Nat],
         Open(ns, c, ps, fr, Len(fr)), Fits(ns[c + 1], fr[Len(fr)])
  PROVE  Tree!Parent(ns, c + 1) = ps[Len(fr)]
<1> DEFINE n == Len(fr)
           f == fr[n]
           p == ps[n]
           k == c + 1
<1>1. n \in 1 .. n /\ n \in Nat
  BY DEF Stack
<1>2. /\ p \in Nat /\ p <= c /\ Over(ns, p, f)
      /\ \A j \in p + 1 .. c : Under(ns[j], f)
  BY <1>1 DEF Open
<1>3. /\ f.indent \in Nat /\ f.kind \in {"map", "seq"}
      /\ ns[k].col = f.indent
      /\ IF f.kind = "map" THEN Tree!IsEntry(ns[k]) ELSE ns[k].kind = "dash"
  BY <1>1 DEF Stack, Fits
<1> HIDE DEF n, f, p
<1>4. p \in 0 .. k - 1 /\ k - 1 = c
  BY <1>2
<1>5. p = 0 \/ Tree!Encloses(ns[p], ns[k])
  BY <1>2, <1>3 DEF Over, Tree!Encloses
<1>6. ASSUME NEW j \in p + 1 .. k - 1 PROVE ~ Tree!Encloses(ns[j], ns[k])
  <2>1. j \in p + 1 .. c /\ j \in 1 .. Len(ns) /\ Len(ns) \in Nat
    BY <1>2 DEF AreNodes
  <2>2. ns[j].col \in Nat /\ Under(ns[j], f)
    BY <1>2, <2>1 DEF AreNodes
  <2>3. f.indent \in Nat /\ f.kind \in {"map", "seq"} /\ Fits(ns[k], f)
    BY <1>3 DEF f, n
  <2> QED
    BY <2>2, <2>3, UnderIsNotOver
<1>7. Tree!Parent(ns, k) = p
  BY <1>4, <1>5, <1>6, ParentUnique
<1> QED
  BY <1>7 DEF p, n, k

(* ... and the child of the node just read when that encloses it. *)
LEMMA ChildOfLast ==
  ASSUME NEW ns, AreNodes(ns), NEW c \in Nat, c + 1 \in 1 .. Len(ns),
         c = 0 \/ Tree!Encloses(ns[c], ns[c + 1])
  PROVE  Tree!Parent(ns, c + 1) = c
<1>1. c \in 0 .. (c + 1) - 1
  OBVIOUS
<1>2. \A j \in c + 1 .. (c + 1) - 1 : ~ Tree!Encloses(ns[j], ns[c + 1])
  OBVIOUS
<1> QED
  BY <1>1, <1>2, ParentUnique

(* A child of the last owner is read. *)
LEMMA OpenRead ==
  ASSUME NEW ns, AreNodes(ns), NEW c \in Nat, c + 1 \in 1 .. Len(ns),
         NEW fr, Stack(fr), NEW ps \in [Nat -> Nat],
         NEW m \in Nat \ {0}, m = Len(fr) \/ m = Len(fr) + 1,
         Open(ns, c, ps, fr, m),
         Tree!Parent(ns, c + 1) = ps[m],
         m = Len(fr) => Fits(ns[c + 1], fr[m]),
         \A i \in 1 .. Len(fr) : Under(ns[c + 1], fr[i])
  PROVE  Open(ns, c + 1, ps, fr, m)
<1> DEFINE n == Len(fr)
           k == c + 1
<1>a. n \in Nat /\ (m = n \/ m = n + 1)
  BY DEF Stack
<1> HIDE DEF n
<1>0. n \in Nat /\ m \in Nat /\ m \in 1 .. m
  BY <1>a
<1>b. \A i \in 1 .. m : ps[i] <= c /\ Tree!HasRoom(ns, ps[i])
  BY DEF Open
<1>1. \A i \in 1 .. m : ps[i] \in Nat /\ ps[i] <= c /\ ps[i] <= k /\ Tree!HasRoom(ns, ps[i])
  <2> SUFFICES ASSUME NEW i \in 1 .. m
               PROVE  ps[i] \in Nat /\ ps[i] <= c /\ ps[i] <= k /\ Tree!HasRoom(ns, ps[i])
    OBVIOUS
  <2>1. i \in Nat
    OBVIOUS
  <2>2. ps[i] \in Nat
    BY <2>1
  <2> QED
    BY <1>b, <2>2
<1>2. \A i, j \in 1 .. m : i < j => ps[i] < ps[j]
  BY DEF Open
<1>3. \A j \in 1 .. k : j = k \/ j \in 1 .. c
  OBVIOUS
<1>4. ASSUME NEW i \in 1 .. m - 1
      PROVE  /\ Tree!Parent(ns, ps[i + 1]) = ps[i]
             /\ \A j \in ps[i + 1] + 1 .. k : Tree!Parent(ns, j) # ps[i]
  <2>1. ps[i] < ps[m] /\ i \in 1 .. m /\ i + 1 \in 1 .. m
    BY <1>0, <1>2
  <2>2. Tree!Parent(ns, k) # ps[i]
    BY <1>0, <1>1, <2>1
  <2>3. \A j \in ps[i + 1] + 1 .. k : j = k \/ j \in ps[i + 1] + 1 .. c
    BY <1>1, <2>1
  <2>4. /\ Tree!Parent(ns, ps[i + 1]) = ps[i]
        /\ \A j \in ps[i + 1] + 1 .. c : Tree!Parent(ns, j) # ps[i]
    BY DEF Open
  <2> QED
    BY <2>2, <2>3, <2>4
<1>5. ASSUME NEW i \in 1 .. n
      PROVE  /\ Over(ns, ps[i], fr[i])
             /\ \A j \in 1 .. k : Tree!Parent(ns, j) = ps[i] => Fits(ns[j], fr[i])
             /\ \A j \in ps[i] + 1 .. k : Under(ns[j], fr[i])
  <2>1. /\ Over(ns, ps[i], fr[i])
        /\ \A j \in 1 .. c : Tree!Parent(ns, j) = ps[i] => Fits(ns[j], fr[i])
        /\ \A j \in ps[i] + 1 .. c : Under(ns[j], fr[i])
    BY DEF Open, n
  <2>2. Tree!Parent(ns, k) = ps[i] => Fits(ns[k], fr[i])
    <3> SUFFICES ASSUME ps[m] = ps[i] PROVE Fits(ns[k], fr[i])
      OBVIOUS
    <3>1. i \in 1 .. m /\ (i = m \/ i < m)
      <4>1. i \in Nat /\ i >= 1 /\ i <= n
        BY <1>a
      <4>2. i <= m
        BY <1>a, <4>1
      <4> QED
        BY <1>0, <4>1, <4>2
    <3>2. i = m
      BY <1>0, <1>1, <1>2, <3>1
    <3>3. m = n
      BY <1>a, <3>2
    <3> QED
      BY <3>2, <3>3 DEF n
  <2>3. ps[i] \in Nat
    <3>1. i \in Nat
      OBVIOUS
    <3> QED
      BY <3>1
  <2>4. \A j \in ps[i] + 1 .. k : j = k \/ j \in ps[i] + 1 .. c
    BY <2>3
  <2>5. \A j \in 1 .. k : Tree!Parent(ns, j) = ps[i] => Fits(ns[j], fr[i])
    BY <1>3, <2>1, <2>2
  <2>6. \A j \in ps[i] + 1 .. k : Under(ns[j], fr[i])
    <3>1. Under(ns[k], fr[i])
      BY DEF n
    <3> QED
      BY <2>1, <2>4, <3>1
  <2> QED
    BY <2>1, <2>5, <2>6
<1>6. ps[1] = 0
  BY DEF Open
<1> QED
  BY <1>1, <1>2, <1>4, <1>5, <1>6 DEF Open, n

(* The node just read waits for a block of its own. *)
Nested(ps, n, k) == [ps EXCEPT ![n + 1] = k]

NestsIn(ns, c, ps, fr, qs) ==
  /\ Open(ns, c, qs, fr, Len(fr) + 1)
  /\ qs \in [Nat -> Nat]
  /\ qs[Len(fr) + 1] = c
  /\ \A i \in 1 .. Len(fr) : qs[i] = ps[i]

LEMMA OpenNest ==
  ASSUME NEW ns, NEW c \in Nat \ {0}, NEW fr, Stack(fr), Len(fr) # 0,
         NEW ps \in [Nat -> Nat],
         Open(ns, c, ps, fr, Len(fr)), \A i \in 1 .. Len(fr) : ps[i] < c,
         Tree!Parent(ns, c) = ps[Len(fr)], Tree!HasRoom(ns, c)
  PROVE  NestsIn(ns, c, ps, fr, Nested(ps, Len(fr), c))
<1> DEFINE n == Len(fr)
           qs == Nested(ps, n, c)
<1>0. n \in Nat /\ n # 0
  BY DEF Stack
<1> HIDE DEF n
<1>1. /\ qs \in [Nat -> Nat] /\ qs[n + 1] = c
      /\ \A i \in 1 .. n : qs[i] = ps[i]
  BY <1>0 DEF Nested
<1> HIDE DEF qs
<1>2. \A i \in 1 .. n + 1 : i = n + 1 \/ i \in 1 .. n
  BY <1>0
<1>3. /\ ps[1] = 0
      /\ \A i \in 1 .. n : ps[i] <= c /\ Tree!HasRoom(ns, ps[i]) /\ ps[i] < c
      /\ \A i, j \in 1 .. n : i < j => ps[i] < ps[j]
      /\ \A i \in 1 .. n - 1 :
           /\ Tree!Parent(ns, ps[i + 1]) = ps[i]
           /\ \A k \in ps[i + 1] + 1 .. c : Tree!Parent(ns, k) # ps[i]
      /\ \A i \in 1 .. n :
           /\ Over(ns, ps[i], fr[i])
           /\ \A k \in 1 .. c : Tree!Parent(ns, k) = ps[i] => Fits(ns[k], fr[i])
           /\ \A k \in ps[i] + 1 .. c : Under(ns[k], fr[i])
  BY DEF Open, n
<1>4. qs[1] = 0
  BY <1>0, <1>1, <1>3
<1>5. \A i \in 1 .. n + 1 : qs[i] <= c /\ Tree!HasRoom(ns, qs[i])
  <2>1. c <= c
    OBVIOUS
  <2> QED
    BY <1>1, <1>2, <1>3, <2>1
<1>6. ASSUME NEW i \in 1 .. n + 1, NEW j \in 1 .. n + 1, i < j
      PROVE  qs[i] < qs[j]
  <2>1. i \in 1 .. n
    BY <1>0, <1>6
  <2> QED
    BY <1>1, <1>2, <1>3, <1>6, <2>1
<1>7. ASSUME NEW i \in 1 .. (n + 1) - 1
      PROVE  /\ Tree!Parent(ns, qs[i + 1]) = qs[i]
             /\ \A k \in qs[i + 1] + 1 .. c : Tree!Parent(ns, k) # qs[i]
  <2>1. i \in 1 .. n /\ qs[i] = ps[i]
    BY <1>0, <1>1
  <2>2. CASE i = n
    <3>1. qs[i + 1] = c /\ qs[i] = ps[n]
      BY <1>1, <2>1, <2>2
    <3>2. \A k \in c + 1 .. c : FALSE
      OBVIOUS
    <3> QED
      BY <3>1, <3>2 DEF n
  <2>3. CASE i # n
    <3>1. i \in 1 .. n - 1 /\ i + 1 \in 1 .. n
      BY <1>0, <2>1, <2>3
    <3>2. qs[i + 1] = ps[i + 1]
      BY <1>1, <3>1
    <3> QED
      BY <1>3, <2>1, <3>1, <3>2
  <2> QED
    BY <2>2, <2>3
<1>8. \A i \in 1 .. n :
        /\ Over(ns, qs[i], fr[i])
        /\ \A k \in 1 .. c : Tree!Parent(ns, k) = qs[i] => Fits(ns[k], fr[i])
        /\ \A k \in qs[i] + 1 .. c : Under(ns[k], fr[i])
  BY <1>1, <1>3
<1>9. Open(ns, c, qs, fr, n + 1)
  BY <1>4, <1>5, <1>6, <1>7, <1>8 DEF Open, n
<1> QED
  BY <1>1, <1>9 DEF NestsIn, qs, n

(* A loop is entered for the block of the node just read. *)
LEMMA OpenEnter ==
  ASSUME NEW ns, AreNodes(ns), NEW c \in 0 .. Len(ns), NEW fr, Stack(fr),
         NEW ps \in [Nat -> Nat],
         Open(ns, c, ps, fr, Len(fr) + 1), ps[Len(fr) + 1] = c,
         NEW gr, Len(gr) = Len(fr) + 1, \A i \in 1 .. Len(fr) : gr[i] = fr[i],
         Over(ns, c, gr[Len(fr) + 1])
  PROVE  Open(ns, c, ps, gr, Len(fr) + 1)
<1> DEFINE n == Len(fr)
           g == gr[n + 1]
<1>0. n \in Nat /\ Len(ns) \in Nat /\ ps[n + 1] = c /\ Over(ns, c, g)
  BY DEF Stack, AreNodes
<1>a. \A i \in 1 .. n : 
        /\ gr[i] = fr[i]
        /\ Over(ns, ps[i], fr[i])
        /\ \A k \in 1 .. c : Tree!Parent(ns, k) = ps[i] => Fits(ns[k], fr[i])
        /\ \A k \in ps[i] + 1 .. c : Under(ns[k], fr[i])
  BY DEF Open
<1> HIDE DEF n
<1>1. ASSUME NEW i \in 1 .. n + 1
      PROVE  /\ Over(ns, ps[i], gr[i])
             /\ \A k \in 1 .. c : Tree!Parent(ns, k) = ps[i] => Fits(ns[k], gr[i])
             /\ \A k \in ps[i] + 1 .. c : Under(ns[k], gr[i])
  <2>1. CASE i = n + 1
    <3>1. ASSUME NEW k \in 1 .. c PROVE Tree!Parent(ns, k) # c
      <4>1. k \in 1 .. Len(ns)
        BY <1>0
      <4>2. Tree!Parent(ns, k) \in 0 .. k - 1
        BY <4>1, ParentIs
      <4> QED
        BY <4>2
    <3>2. \A k \in c + 1 .. c : FALSE
      OBVIOUS
    <3> QED
      BY <1>0, <2>1, <3>1, <3>2
  <2>2. CASE i # n + 1
    <3>1. i \in 1 .. n
      BY <1>0, <2>2, LastOrBefore
    <3> QED
      BY <1>a, <3>1
  <2> QED
    BY <2>1, <2>2
<1> QED
  BY <1>1 DEF Open, n

(* What is open stays open when the last loops or owners go. *)
LEMMA OpenLess ==
  ASSUME NEW ns, NEW c, NEW ps, NEW fr, Len(fr) \in Nat, NEW m \in Nat,
         Open(ns, c, ps, fr, m),
         NEW k \in 0 .. m, NEW gr, Len(gr) \in 0 .. Len(fr),
         \A i \in 1 .. Len(gr) : gr[i].kind = fr[i].kind /\ gr[i].indent = fr[i].indent
  PROVE  Open(ns, c, ps, gr, k)
<1> DEFINE n == Len(fr)
           e == Len(gr)
<1>1. n \in Nat /\ e \in 0 .. n
  OBVIOUS
<1> HIDE DEF n, e
<1>2. /\ ps[1] = 0
      /\ \A i \in 1 .. m : ps[i] <= c /\ Tree!HasRoom(ns, ps[i])
      /\ \A i, j \in 1 .. m : i < j => ps[i] < ps[j]
      /\ \A i \in 1 .. m - 1 :
           /\ Tree!Parent(ns, ps[i + 1]) = ps[i]
           /\ \A x \in ps[i + 1] + 1 .. c : Tree!Parent(ns, x) # ps[i]
  BY DEF Open
<1>3. ASSUME NEW i \in 1 .. e
      PROVE  /\ Over(ns, ps[i], gr[i])
             /\ \A x \in 1 .. c : Tree!Parent(ns, x) = ps[i] => Fits(ns[x], gr[i])
             /\ \A x \in ps[i] + 1 .. c : Under(ns[x], gr[i])
  <2>1. i \in 1 .. n /\ gr[i].kind = fr[i].kind /\ gr[i].indent = fr[i].indent
    BY <1>1 DEF e, n
  <2>2. /\ Over(ns, ps[i], fr[i])
        /\ \A x \in 1 .. c : Tree!Parent(ns, x) = ps[i] => Fits(ns[x], fr[i])
        /\ \A x \in ps[i] + 1 .. c : Under(ns[x], fr[i])
    BY <2>1 DEF Open, n
  <2> QED
    BY <2>1, <2>2 DEF Over, Fits, Under
<1>4. (\A i \in 1 .. k : i \in 1 .. m) /\ (\A i \in 1 .. k - 1 : i \in 1 .. m - 1)
  OBVIOUS
<1> QED
  BY <1>2, <1>3, <1>4 DEF Open, e

-----------------------------------------------------------------------------
(* What has been read of a well indented tree is well indented. *)
LEMMA ShapedRead ==
  ASSUME NEW ns, AreNodes(ns), NEW c \in Nat, c + 1 \in 1 .. Len(ns), Shaped(ns, c),
         NEW p, Tree!Parent(ns, c + 1) = p, Tree!HasRoom(ns, p),
         \A j \in 1 .. c : Tree!Parent(ns, j) = p =>
           /\ ns[j].col = ns[c + 1].col
           /\ \/ ns[j].kind = "dash" /\ ns[c + 1].kind = "dash"
              \/ Tree!IsEntry(ns[j]) /\ Tree!IsEntry(ns[c + 1])
  PROVE  Shaped(ns, c + 1)
<1> DEFINE k == c + 1
<1>0. Len(ns) \in Nat /\ k \in Nat /\ c \in Nat
  BY DEF AreNodes
<1>1. \A j \in 1 .. k : j = k \/ j \in 1 .. c
  OBVIOUS
<1>2. \A j \in 1 .. k : Tree!HasRoom(ns, Tree!Parent(ns, j))
  BY <1>1 DEF Shaped
<1>3. \A j \in 1 .. k : Tree!Parent(ns, j) \in 0 .. j - 1
  <2> SUFFICES ASSUME NEW j \in 1 .. k PROVE Tree!Parent(ns, j) \in 0 .. j - 1
    OBVIOUS
  <2>1. j \in 1 .. Len(ns)
    BY <1>0
  <2> QED
    BY <2>1, ParentIs
<1>4. ASSUME NEW q \in 0 .. k PROVE OneBlock(ns, k, q)
  <2> DEFINE kids == {j \in 1 .. k : Tree!Parent(ns, j) = q}
             olds == {j \in 1 .. c : Tree!Parent(ns, j) = q}
  <2>1. CASE q = k
    <3>1. \A j \in 1 .. k : Tree!Parent(ns, j) < k
      <4> SUFFICES ASSUME NEW j \in 1 .. k PROVE Tree!Parent(ns, j) < k
        OBVIOUS
      <4> DEFINE x == Tree!Parent(ns, j)
      <4>1. x \in 0 .. j - 1
        BY <1>3
      <4> HIDE DEF x
      <4>2. x < k
        BY <1>0, <4>1
      <4> QED
        BY <4>2 DEF x
    <3>2. \A j \in 1 .. k : Tree!Parent(ns, j) # q
      BY <1>0, <2>1, <3>1
    <3> QED
      BY <3>2 DEF OneBlock
  <2>2. CASE q # k
    <3>1. OneBlock(ns, c, q)
      <4>1. q \in 0 .. c
        BY <1>0, <2>2
      <4> QED
        BY <4>1 DEF Shaped
    <3>2. /\ \A i, j \in olds : ns[i].col = ns[j].col
          /\ \/ \A j \in olds : ns[j].kind = "dash"
             \/ \A j \in olds : Tree!IsEntry(ns[j])
             \/ \A i, j \in olds : i = j
      BY <3>1 DEF OneBlock
    <3>3. CASE q # p
      <4>1. \A j \in kids : j \in olds
        BY <1>1, <3>3
      <4> HIDE DEF kids, olds
      <4>2. /\ \A i, j \in kids : ns[i].col = ns[j].col
            /\ \/ \A j \in kids : ns[j].kind = "dash"
               \/ \A j \in kids : Tree!IsEntry(ns[j])
               \/ \A i, j \in kids : i = j
        BY <3>2, <4>1
      <4> QED
        BY <4>2 DEF OneBlock, kids
    <3>4. CASE q = p
      <4>1. \A j \in kids : j = k \/ j \in olds
        BY <1>1
      <4>2. \A j \in olds :
              /\ ns[j].col = ns[k].col
              /\ \/ ns[j].kind = "dash" /\ ns[k].kind = "dash"
                 \/ Tree!IsEntry(ns[j]) /\ Tree!IsEntry(ns[k])
        BY <3>4
      <4>3. \A i, j \in kids : ns[i].col = ns[j].col
        <5> HIDE DEF kids, olds, k
        <5> QED
          BY <4>1, <4>2
      <4>4. CASE \E j \in olds : ns[j].kind = "dash"
        <5>1. ns[k].kind = "dash"
          BY <4>2, <4>4 DEF Tree!IsEntry
        <5>2. \A j \in kids : ns[j].kind = "dash"
          <6> HIDE DEF kids, olds, k
          <6> QED
            BY <4>1, <4>2, <5>1 DEF Tree!IsEntry
        <5> QED
          BY <4>3, <5>2 DEF OneBlock
      <4>5. CASE \E j \in olds : Tree!IsEntry(ns[j])
        <5>1. Tree!IsEntry(ns[k])
          BY <4>2, <4>5 DEF Tree!IsEntry
        <5>2. \A j \in kids : Tree!IsEntry(ns[j])
          <6> HIDE DEF kids, olds, k
          <6> QED
            BY <4>1, <4>2, <5>1 DEF Tree!IsEntry
        <5> QED
          BY <4>3, <5>2 DEF OneBlock
      <4>6. CASE olds = {}
        <5>1. \A i, j \in kids : i = j
          <6> HIDE DEF kids, olds, k
          <6> QED
            BY <4>1, <4>6
        <5> QED
          BY <4>3, <5>1 DEF OneBlock
      <4>7. \A j \in olds : ns[j].kind = "dash" \/ Tree!IsEntry(ns[j])
        BY <4>2
      <4> QED
        BY <4>4, <4>5, <4>6, <4>7
    <3> QED
      BY <3>3, <3>4
  <2> QED
    BY <2>1, <2>2
<1> QED
  BY <1>2, <1>4 DEF Shaped

(* What a node under a loop encloses, an entry of the loop encloses, too. *)
LEMMA FitsOver ==
  ASSUME NEW f, f.indent \in Nat, f.kind \in {"map", "seq"},
         NEW x, x.col \in Nat, Under(x, f), NEW y, Fits(y, f),
         NEW z, z.col \in Nat, Tree!Encloses(x, z)
  PROVE  Tree!Encloses(y, z)
<1>1. x.col >= f.indent /\ y.col = f.indent
  BY DEF Under, Fits
<1>2. CASE x.col < z.col
  BY <1>1, <1>2 DEF Tree!Encloses
<1>3. CASE x.col = z.col /\ Tree!IsEntry(x) /\ z.kind = "dash"
  <2>1. CASE x.col = f.indent
    <3>1. f.kind = "map"
      BY <1>3, <2>1 DEF Under
    <3>2. Tree!IsEntry(y)
      BY <3>1 DEF Fits
    <3> QED
      BY <1>1, <1>3, <2>1, <3>2 DEF Tree!Encloses
  <2>2. CASE x.col # f.indent
    <3>1. y.col < z.col
      BY <1>1, <1>3, <2>2
    <3> QED
      BY <3>1 DEF Tree!Encloses
  <2> QED
    BY <2>1, <2>2
<1> QED
  BY <1>2, <1>3 DEF Tree!Encloses

(***************************************************************************)
(* The next node has no parent between the owner of a loop and an entry of *)
(* the loop: what would enclose it there, the entry does.                  *)
(***************************************************************************)
LEMMA Between ==
  ASSUME NEW ns, AreNodes(ns), NEW c \in Nat, c + 1 \in 1 .. Len(ns),
         NEW f, f.indent \in Nat, f.kind \in {"map", "seq"},
         NEW p \in Nat, \A j \in p + 1 .. c : Under(ns[j], f),
         NEW a \in p + 1 .. c, Fits(ns[a], f),
         Tree!Parent(ns, c + 1) < a
  PROVE  Tree!Parent(ns, c + 1) <= p
<1> DEFINE q == Tree!Parent(ns, c + 1)
           z == ns[c + 1]
<1>0. Len(ns) \in Nat /\ c < Len(ns)
  BY DEF AreNodes
<1>1. /\ q \in 0 .. (c + 1) - 1
      /\ q # 0 => Tree!Encloses(ns[q], z)
      /\ \A j \in q + 1 .. (c + 1) - 1 : ~ Tree!Encloses(ns[j], z)
      /\ q < a
  BY ParentIs
<1>2. z.col \in Nat
  BY DEF AreNodes
<1> HIDE DEF q, z
<1> SUFFICES ASSUME ~ q <= p PROVE FALSE
  BY DEF q
<1>3. q \in p + 1 .. c /\ q # 0 /\ q \in 1 .. Len(ns)
  BY <1>0, <1>1
<1>4. a \in q + 1 .. (c + 1) - 1
  BY <1>1
<1>5. Under(ns[q], f) /\ ns[q].col \in Nat
  BY <1>3 DEF AreNodes
<1>6. Tree!Encloses(ns[a], z)
  BY <1>1, <1>2, <1>3, <1>5, FitsOver
<1> QED
  BY <1>1, <1>4, <1>6

-----------------------------------------------------------------------------
(* The children found so far. *)

LEMMA KidsSkip ==
  ASSUME NEW ns, NEW p, NEW c \in Nat, NEW d \in Nat, c <= d,
         \A k \in c + 1 .. d : Tree!Parent(ns, k) # p
  PROVE  Kids(ns, p, d) = Kids(ns, p, c)
<1> DEFINE w == d - c
           G == {n \in 0 .. w : Kids(ns, p, c + n) = Kids(ns, p, c)}
<1>0. w \in Nat /\ c + w = d
  OBVIOUS
<1>1. 0 \in G
  BY <1>0
<1>2. ASSUME NEW n \in 0 .. w - 1, n \in G PROVE n + 1 \in G
  <2>1. c + n \in Nat /\ (c + n) + 1 = c + (n + 1) /\ c + (n + 1) \in c + 1 .. d
        /\ n + 1 \in 0 .. w
    BY <1>0
  <2>2. Tree!Parent(ns, (c + n) + 1) # p
    BY <2>1
  <2>3. Kids(ns, p, (c + n) + 1) = Kids(ns, p, c + n)
    BY <2>1, <2>2, KidsStep
  <2>4. Kids(ns, p, c + n) = Kids(ns, p, c)
    BY <1>2
  <2> QED
    BY <2>1, <2>3, <2>4
<1> HIDE DEF G, w
<1>3. w \in G
  <2>1. 0 .. w \subseteq G
    BY <1>0, <1>1, <1>2, AllUpTo
  <2> QED
    BY <1>0, <2>1
<1> QED
  BY <1>0, <1>3 DEF G

LEMMA KidsNone ==
  ASSUME NEW ns, AreNodes(ns), NEW c \in 0 .. Len(ns), NEW p \in Nat, c <= p
  PROVE  Kids(ns, p, c) = << >>
<1>1. \A k \in 0 + 1 .. c : Tree!Parent(ns, k) # p
  <2> SUFFICES ASSUME NEW k \in 1 .. c PROVE Tree!Parent(ns, k) # p
    OBVIOUS
  <2>1. k \in 1 .. Len(ns)
    BY DEF AreNodes
  <2>2. Tree!Parent(ns, k) \in 0 .. k - 1
    BY <2>1, ParentIs
  <2> QED
    BY <2>2
<1>2. Kids(ns, p, c) = Kids(ns, p, 0)
  <2>1. c \in Nat
    BY DEF AreNodes
  <2> QED
    BY <1>1, <2>1, KidsSkip
<1> QED
  BY <1>2, KidsStep

(* An owner with children has a last one. *)
LEMMA LastKid ==
  ASSUME NEW ns, NEW p, NEW c \in Nat, Kids(ns, p, c) # << >>
  PROVE  \E a \in 1 .. c : Tree!Parent(ns, a) = p
<1> DEFINE ks == Kids(ns, p, c)
<1>1. KidsAre(ks, ns, p, c)
  BY KidsHold
<1> HIDE DEF ks
<1>2. ks # << >>
  BY DEF ks
<1>3. Len(ks) \in Nat \ {0}
  BY <1>1, <1>2, EmptySeq DEF KidsAre
<1>4. 1 \in 1 .. Len(ks)
  BY <1>3
<1> QED
  BY <1>1, <1>4 DEF KidsAre

-----------------------------------------------------------------------------
(***************************************************************************)
(* What the loops have collected, and the whole of what holds after c      *)
(* nodes have been read, when the template instantiated next is at.        *)
(***************************************************************************)

Val(ns, k) == Tree!Values(ns)[k]

(* What node k contributes to a loop. *)
Part(ns, k, kind) ==
  IF kind = "map" THEN Member(ns[k].leaf.key, Val(ns, k)) ELSE Val(ns, k)

(* b has a part for each of the nodes ks; the values when the tree is legal. *)
Collected(ns, ks, kind, b) ==
  /\ Len(b) = Len(ks)
  /\ \A j \in 1 .. Len(ks) :
       /\ kind = "map" => b[j].key = ns[ks[j]].leaf.key
       /\ Tree!WellIndented(ns) => b[j] = Part(ns, ks[j], kind)

(* An owner that is not the last of m is not done with its last child. *)
BoundUpTo(c, ps, i, m) == IF i < m THEN ps[i + 1] - 1 ELSE c

Filled(ns, c, ps, fr, bu, m) ==
  \A i \in 1 .. Len(fr) :
    /\ IsSequence(bu[i])
    /\ Collected(ns, Kids(ns, ps[i], BoundUpTo(c, ps, i, m)), fr[i].kind, bu[i])
    /\ fr[i].kind = "map" /\ i < m => fr[i].key = ns[ps[i + 1]].leaf.key

(* In a legal tree the next node is not inside what is done. *)
NoPlace(ns, c, p, at) ==
  Tree!WellIndented(ns) /\ c < Len(ns) =>
    /\ at = "loop" => Tree!Parent(ns, c + 1) <= p
    /\ at = "return" => Tree!Parent(ns, c + 1) < p

Reading(ns, c, ps, r, fr, bu, at, t) ==
  LET m == Owners(Len(fr), at)
  IN  /\ Suffix(ns, c, r)
      /\ Open(ns, c, ps, fr, m)
      /\ at # "loop" /\ at # "return" => ps[m] = c
      /\ NoPlace(ns, c, ps[m], at)
      /\ Shaped(ns, c)
      /\ Filled(ns, c, ps, fr, bu, m)
      /\ Tree!WellIndented(ns) /\ at = "return" => t = Val(ns, ps[m])

LEMMA SuffixBound ==
  ASSUME NEW ns, AreNodes(ns), NEW c, NEW r \in Seq(Line), Suffix(ns, c, r)
  PROVE  c \in 0 .. Len(ns) /\ c \in Nat
<1> DEFINE n == Len(Tree!Nodes(r))
<1>1. n \in Nat /\ Len(ns) \in Nat
  BY NodesWellTyped DEF AreNodes
<1>2. c \in Nat /\ c + n = Len(ns)
  BY DEF Suffix
<1> HIDE DEF n
<1> QED
  BY <1>1, <1>2

LEMMA NextNode ==
  ASSUME NEW ns, AreNodes(ns), NEW c \in Nat, c < Len(ns)
  PROVE  c + 1 \in 1 .. Len(ns)
<1> DEFINE n == Len(ns)
<1>1. n \in Nat /\ c < n
  BY DEF AreNodes
<1> HIDE DEF n
<1>2. c + 1 \in 1 .. n
  BY <1>1
<1> QED
  BY <1>2 DEF n

(* make and nested_value ask for a block. *)
LEMMA ReadingBlock ==
  ASSUME NEW ns, NEW c, NEW ps, NEW r, NEW fr, NEW bu, NEW t, NEW at,
         at = "start" \/ at = "nested",
         Reading(ns, c, ps, r, fr, bu, at, t)
  PROVE  Reading(ns, c, ps, r, fr, bu, "block", t)
<1>1. Owners(Len(fr), at) = Owners(Len(fr), "block")
  BY DEF Owners
<1>2. NoPlace(ns, c, ps[Owners(Len(fr), "block")], "block")
  BY DEF NoPlace
<1> QED
  BY <1>1, <1>2 DEF Reading

LEMMA StackLen ==
  ASSUME NEW fr, Stack(fr), NEW n, n = Len(fr)
  PROVE  n \in Nat /\ n + 1 \in Nat \ {0} /\ n + 1 \in 1 .. n + 1
<1>1. n \in Nat
  BY DEF Stack
<1> QED
  BY <1>1

(* A loop is entered on the block of the last node. *)
LEMMA ReadingEnter ==
  ASSUME NEW ns, AreNodes(ns), NEW c, NEW ps \in [Nat -> Nat], NEW r \in Seq(Line),
         NEW fr, Stack(fr), NEW bu, NEW t, NEW at, at = "block" \/ at = "nested",
         Reading(ns, c, ps, r, fr, bu, at, t),
         NEW gr, Len(gr) = Len(fr) + 1, \A i \in 1 .. Len(fr) : gr[i] = fr[i],
         Over(ns, c, gr[Len(fr) + 1]),
         NEW cu, \A i \in 1 .. Len(fr) : cu[i] = bu[i], cu[Len(fr) + 1] = << >>,
         NEW u
  PROVE  Reading(ns, c, ps, r, gr, cu, "loop", u)
<1> DEFINE n == Len(fr)
           m == n + 1
<1>0. n \in Nat /\ m \in 1 .. m /\ Len(gr) = m
  BY StackLen
<1>1. Owners(Len(fr), at) = m /\ Owners(Len(gr), "loop") = m
  <2>1. at # "loop"
    OBVIOUS
  <2>2. Owners(Len(fr), at) = n + 1
    BY <2>1 DEF Owners
  <2>3. Len(gr) + 0 = m
    BY <1>0
  <2>4. Owners(Len(gr), "loop") = Len(gr) + 0
    BY DEF Owners
  <2> QED
    BY <2>2, <2>3, <2>4
<1>2. /\ Suffix(ns, c, r) /\ Open(ns, c, ps, fr, m) /\ ps[m] = c
      /\ Shaped(ns, c) /\ Filled(ns, c, ps, fr, bu, m)
  BY <1>1 DEF Reading
<1>3. c \in 0 .. Len(ns) /\ c \in Nat
  BY <1>2, SuffixBound
<1>4. Open(ns, c, ps, gr, m)
  BY <1>2, <1>3, OpenEnter
<1>5. NoPlace(ns, c, c, "loop")
  <2> SUFFICES ASSUME c < Len(ns) PROVE Tree!Parent(ns, c + 1) <= c
    BY DEF NoPlace
  <2>1. c + 1 \in 1 .. Len(ns)
    BY <1>3, NextNode
  <2>2. Tree!Parent(ns, c + 1) \in 0 .. (c + 1) - 1
    BY <2>1, ParentIs
  <2> QED
    BY <1>3, <2>2
<1>6. Filled(ns, c, ps, gr, cu, m)
  <2> SUFFICES ASSUME NEW i \in 1 .. m
               PROVE  /\ IsSequence(cu[i])
                      /\ Collected(ns, Kids(ns, ps[i], BoundUpTo(c, ps, i, m)), gr[i].kind, cu[i])
                      /\ gr[i].kind = "map" /\ i < m => gr[i].key = ns[ps[i + 1]].leaf.key
    BY <1>0 DEF Filled
  <2>1. CASE i = m
    <3>1. BoundUpTo(c, ps, i, m) = c /\ cu[i] = << >> /\ ~ i < m
      BY <1>0, <2>1 DEF BoundUpTo
    <3>2. Kids(ns, ps[i], c) = << >>
      BY <1>2, <1>3, <2>1, KidsNone
    <3>3. Len(<< >>) = 0 /\ \A j \in 1 .. 0 : FALSE
      BY EmptySeq
    <3>4. IsSequence(<< >>)
      BY EmptySeq DEF IsSequence
    <3> QED
      BY <3>1, <3>2, <3>3, <3>4 DEF Collected
  <2>2. CASE i # m
    <3>1. i \in 1 .. n
      BY <1>0, <2>2, LastOrBefore
    <3> QED
      BY <1>2, <3>1 DEF Filled
  <2> QED
    BY <2>1, <2>2
<1> HIDE DEF n, m
<1> QED
  BY <1>1, <1>2, <1>4, <1>5, <1>6 DEF Reading

-----------------------------------------------------------------------------
(* The value of a node whose block is done. *)
LEMMA BlockDone ==
  ASSUME NEW ns, AreNodes(ns), Tree!WellIndented(ns), NEW c \in 0 .. Len(ns),
         NEW p \in 0 .. c, Tree!HasRoom(ns, p),
         c < Len(ns) => Tree!Parent(ns, c + 1) < p
  PROVE  Val(ns, p) = Tree!BlockOf(ns, Kids(ns, p, c), Tree!Values(ns))
<1> DEFINE N == Len(ns)
<1>1. N \in Nat /\ c \in Nat /\ c <= N /\ p \in 0 .. N /\ p \in Nat
  BY DEF AreNodes
<1>2. \A k \in c + 1 .. N : Tree!Parent(ns, k) # p
  BY NoLateChild
<1>3. Tree!Values(ns)[p] = ValueOf(ns, p, Tree!Values(ns))
  BY <1>1, ValuesDef
<1> HIDE DEF N
<1>4. Kids(ns, p, N) = Kids(ns, p, c)
  BY <1>1, <1>2, KidsSkip
<1>5. ~ (p # 0 /\ ns[p].kind \in {"member", "value"})
  BY DEF Tree!HasRoom
<1>6. Tree!Children(ns, p) = Kids(ns, p, N)
  BY DEF Kids, Tree!Children, N
<1> QED
  BY <1>3, <1>4, <1>5, <1>6 DEF ValueOf, Val

(* The node that waits for a block is an entry of the loop on top. *)
LEMMA AskerFits ==
  ASSUME NEW ns, AreNodes(ns), NEW c \in Nat \ {0}, NEW ps \in [Nat -> Nat],
         NEW fr, Stack(fr), Open(ns, c, ps, fr, Len(fr) + 1), ps[Len(fr) + 1] = c
  PROVE  /\ Len(fr) \in Nat \ {0}
         /\ Tree!Parent(ns, c) = ps[Len(fr)]
         /\ Fits(ns[c], fr[Len(fr)])
<1> DEFINE n == Len(fr)
<1>1. n \in Nat /\ ps[1] = 0 /\ ps[n + 1] = c
  BY DEF Stack, Open
<1>2. n # 0
  BY <1>1
<1>3. /\ \A i \in 1 .. (n + 1) - 1 : Tree!Parent(ns, ps[i + 1]) = ps[i]
      /\ \A i \in 1 .. n :
           \A k \in 1 .. c : Tree!Parent(ns, k) = ps[i] => Fits(ns[k], fr[i])
  BY DEF Open
<1> HIDE DEF n
<1>4. n \in 1 .. n /\ n \in 1 .. (n + 1) - 1 /\ c \in 1 .. c
  BY <1>1, <1>2
<1>5. Tree!Parent(ns, c) = ps[n]
  BY <1>1, <1>3, <1>4
<1> QED
  BY <1>1, <1>2, <1>3, <1>4, <1>5 DEF n

(* nested_value finds no block. *)
LEMMA ReadingNull ==
  ASSUME NEW ns, AreNodes(ns), NEW c, NEW ps \in [Nat -> Nat], NEW r \in Seq(Line),
         NEW fr, Stack(fr), Len(fr) # 0, NEW bu, NEW t,
         Reading(ns, c, ps, r, fr, bu, "nested", t),
         c < Len(ns) => ~ Tree!Encloses(ns[c], ns[c + 1])
  PROVE  Reading(ns, c, ps, r, fr, bu, "return", Null)
<1> DEFINE m == Len(fr) + 1
<1>1. Owners(Len(fr), "nested") = m /\ Owners(Len(fr), "return") = m
  BY DEF Owners
<1>2. /\ Suffix(ns, c, r) /\ Open(ns, c, ps, fr, m) /\ ps[m] = c
      /\ Shaped(ns, c) /\ Filled(ns, c, ps, fr, bu, m)
  BY <1>1 DEF Reading
<1>3. c \in 0 .. Len(ns) /\ c \in Nat
  BY <1>2, SuffixBound
<1>4. c # 0 /\ Tree!HasRoom(ns, c)
  <2>1. Len(fr) \in Nat /\ Len(fr) # 0
    BY DEF Stack
  <2>2. m \in Nat /\ 1 \in 1 .. m /\ m \in 1 .. m /\ 1 < m
    BY <2>1
  <2> HIDE DEF m
  <2>3. ps[1] = 0 /\ ps[1] < ps[m] /\ Tree!HasRoom(ns, ps[m])
    BY <1>2, <2>2 DEF Open
  <2> QED
    BY <1>2, <2>3
<1>5. c < Len(ns) => Tree!Parent(ns, c + 1) < c
  <2> SUFFICES ASSUME c < Len(ns) PROVE Tree!Parent(ns, c + 1) < c
    OBVIOUS
  <2> DEFINE q == Tree!Parent(ns, c + 1)
  <2>1. c + 1 \in 1 .. Len(ns)
    BY <1>3, NextNode
  <2>2. q \in 0 .. (c + 1) - 1 /\ (q # 0 => Tree!Encloses(ns[q], ns[c + 1]))
    BY <2>1, ParentIs
  <2> HIDE DEF q
  <2>3. q # c
    BY <1>4, <2>2
  <2>4. q < c
    BY <1>3, <2>2, <2>3
  <2> QED
    BY <2>4 DEF q
<1>6. Tree!WellIndented(ns) => Null = Val(ns, c)
  <2> SUFFICES ASSUME Tree!WellIndented(ns) PROVE Null = Val(ns, c)
    OBVIOUS
  <2>1. c \in 0 .. c
    BY <1>3
  <2>2. Val(ns, c) = Tree!BlockOf(ns, Kids(ns, c, c), Tree!Values(ns))
    BY <1>3, <1>4, <1>5, <2>1, BlockDone
  <2>3. Kids(ns, c, c) = << >>
    BY <1>3, KidsNone
  <2> QED
    BY <2>2, <2>3 DEF Tree!BlockOf, Tree!Null, Null
<1>7. NoPlace(ns, c, c, "return")
  BY <1>5 DEF NoPlace
<1> HIDE DEF m
<1> QED
  BY <1>1, <1>2, <1>6, <1>7 DEF Reading

(* What deeper lines have to do with the loops. *)
LEMMA DeeperUnder ==
  ASSUME NEW fr, Stack(fr), NEW n, n.col \in Nat,
         \A i \in 1 .. Len(fr) : fr[i].indent < n.col
  PROVE  \A i \in 1 .. Len(fr) : Under(n, fr[i])
<1> TAKE i \in 1 .. Len(fr)
<1>1. fr[i].indent \in Nat /\ fr[i].indent < n.col
  BY DEF Stack
<1> QED
  BY <1>1 DEF Under

(* A node deeper than every loop is inside the node that waits for it. *)
LEMMA AskerEncloses ==
  ASSUME NEW ns, AreNodes(ns), NEW c \in Nat, c + 1 \in 1 .. Len(ns),
         NEW ps \in [Nat -> Nat], NEW fr, Stack(fr),
         Open(ns, c, ps, fr, Len(fr) + 1), ps[Len(fr) + 1] = c,
         \A i \in 1 .. Len(fr) : fr[i].indent < ns[c + 1].col
  PROVE  /\ c = 0 \/ ns[c].col < ns[c + 1].col
         /\ Tree!Parent(ns, c + 1) = c
<1>1. ASSUME c # 0 PROVE ns[c].col < ns[c + 1].col
  <2>1. Len(fr) \in Nat \ {0} /\ Fits(ns[c], fr[Len(fr)])
    BY <1>1, AskerFits
  <2>2. Len(fr) \in 1 .. Len(fr)
    BY <2>1
  <2> QED
    BY <2>1, <2>2 DEF Fits
<1>2. c = 0 \/ Tree!Encloses(ns[c], ns[c + 1])
  BY <1>1 DEF Tree!Encloses
<1> QED
  BY <1>1, <1>2, ChildOfLast

(* Nothing collected changes while the owner on top has no loop yet. *)
LEMMA FilledBelow ==
  ASSUME NEW ns, NEW c, NEW d, NEW ps, NEW fr, Len(fr) \in Nat, NEW bu,
         Filled(ns, c, ps, fr, bu, Len(fr) + 1)
  PROVE  Filled(ns, d, ps, fr, bu, Len(fr) + 1)
<1> DEFINE n == Len(fr)
           m == n + 1
<1>1. n \in Nat
  OBVIOUS
<1> HIDE DEF n
<1>2. \A i \in 1 .. n : i < m /\ BoundUpTo(c, ps, i, m) = BoundUpTo(d, ps, i, m)
  BY <1>1 DEF BoundUpTo
<1> HIDE DEF m
<1> QED
  BY <1>2 DEF Filled, m, n

-----------------------------------------------------------------------------
(* The next node, of what the head line is. *)
LEMMA NextWellTyped ==
  ASSUME NEW ns, AreNodes(ns), NEW k \in 1 .. Len(ns)
  PROVE  ns[k].col \in Nat /\ ns[k].kind \in {"dash", "pair", "member", "value"}
BY DEF AreNodes, NodeKinds

(* The only node of a block. *)
LEMMA OnlyKid ==
  ASSUME NEW ns, AreNodes(ns), NEW c \in Nat, c + 1 \in 1 .. Len(ns),
         Tree!Parent(ns, c + 1) = c
  PROVE  Kids(ns, c, c + 1) = << c + 1 >>
<1>1. c \in 0 .. Len(ns)
  BY DEF AreNodes
<1>2. Kids(ns, c, c) = << >>
  BY <1>1, KidsNone
<1>3. Kids(ns, c, c + 1) = Append(Kids(ns, c, c), c + 1)
  BY KidsStep
<1> QED
  BY <1>2, <1>3

LEMMA OneValue ==
  ASSUME NEW ns, NEW k, ns[k].kind = "value", NEW val
  PROVE  Tree!BlockOf(ns, << k >>, val) = val[k]
<1> DEFINE ks == << k >>
<1>1. ks # << >> /\ ks[1] = k
  OBVIOUS
<1> HIDE DEF ks
<1>2. Tree!BlockOf(ns, ks, val) = val[k]
  BY <1>1 DEF Tree!BlockOf, Tree!IsEntry
<1> QED
  BY <1>2 DEF ks

(* parse_block binds a value. *)
LEMMA ReadingValue ==
  ASSUME NEW ns, AreNodes(ns), NEW c, NEW ps \in [Nat -> Nat], NEW r \in Seq(Line),
         NEW fr, Stack(fr), NEW bu, NEW t,
         Reading(ns, c, ps, r, fr, bu, "block", t),
         r # << >>, ~ NodeIsPair(Head(r)), ~ NodeIsSeqitem(Head(r)),
         \A i \in 1 .. Len(fr) : fr[i].indent < Head(r).indent
  PROVE  Reading(ns, c + 1, ps, Tail(r), fr, bu, "return", Head(r).leaf.val)
<1> DEFINE n == Len(fr)
           m == n + 1
           k == c + 1
           l == Head(r)
<1>0. n \in Nat /\ m \in Nat \ {0} /\ m \in 1 .. m
  BY StackLen
<1>1. Owners(n, "block") = m /\ Owners(n, "return") = m
  BY DEF Owners
<1>2. /\ Suffix(ns, c, r) /\ Open(ns, c, ps, fr, m) /\ ps[m] = c
      /\ Shaped(ns, c) /\ Filled(ns, c, ps, fr, bu, m)
  BY <1>1 DEF Reading
<1>3. /\ c \in Nat /\ k \in 1 .. Len(ns) /\ c < Len(ns)
      /\ ns[k].col = l.indent
      /\ ns[k].kind # "dash" /\ ~ Tree!IsEntry(ns[k])
      /\ ns[k].leaf = l.leaf
  <2>1. Len(ns) \in Nat
    BY DEF AreNodes
  <2> QED
    BY <1>2, <2>1, HeadNode
<1>4. ns[k].col \in Nat /\ ns[k].kind = "value"
  BY <1>3, NextWellTyped DEF Tree!IsEntry
<1>5. Suffix(ns, k, Tail(r))
  <2>1. Len(ns) \in Nat /\ Tail(r) \in Seq(Line)
    BY HeadTailProperties DEF AreNodes
  <2> QED
    BY <1>2, <2>1, HeadRead
<1>6. Tree!Parent(ns, k) = c
  BY <1>2, <1>3, AskerEncloses
<1>7. Tree!HasRoom(ns, c)
  BY <1>0, <1>2 DEF Open
<1>8. Open(ns, k, ps, fr, m)
  <2>1. \A i \in 1 .. Len(fr) : Under(ns[k], fr[i])
    BY <1>3, <1>4, DeeperUnder
  <2>2. m # n
    BY <1>0
  <2> QED
    BY <1>0, <1>2, <1>3, <1>6, <2>1, <2>2, OpenRead
<1>9. Shaped(ns, k)
  <2>1. \A j \in 1 .. c : Tree!Parent(ns, j) # c
    <3> SUFFICES ASSUME NEW j \in 1 .. c PROVE Tree!Parent(ns, j) # c
      OBVIOUS
    <3>1. j \in 1 .. Len(ns)
      BY <1>3 DEF AreNodes
    <3>2. Tree!Parent(ns, j) \in 0 .. j - 1
      BY <3>1, ParentIs
    <3> QED
      BY <3>2
  <2> QED
    BY <1>2, <1>3, <1>6, <1>7, <2>1, ShapedRead
<1>10. Filled(ns, k, ps, fr, bu, m)
  BY <1>0, <1>2, FilledBelow
<1>11. ASSUME Tree!WellIndented(ns), k < Len(ns)
       PROVE  Tree!Parent(ns, k + 1) < c
  <2> DEFINE q == Tree!Parent(ns, k + 1)
  <2>1. k \in Nat /\ k + 1 \in 1 .. Len(ns)
    BY <1>3, <1>11, NextNode
  <2>2. q \in 0 .. (k + 1) - 1
    BY <2>1, ParentIs
  <2>3. Tree!HasRoom(ns, q)
    BY <1>11, <2>1, RoomAbove
  <2>4. q # k
    <3>1. k # 0 /\ ~ Tree!HasRoom(ns, k)
      BY <1>3, <1>4 DEF Tree!HasRoom
    <3> QED
      BY <2>3, <3>1
  <2>5. q # c
    <3> SUFFICES ASSUME Tree!Parent(ns, k) = Tree!Parent(ns, k + 1) PROVE FALSE
      BY <1>6
    <3>1. k # k + 1
      BY <1>3
    <3>2. ns[k].kind # "value"
      BY <1>3, <1>11, <2>1, <3>1, SameBlock
    <3> QED
      BY <1>4, <3>2
  <2>a. c \in Nat
    BY <1>3
  <2> HIDE DEF q
  <2>6. q < c
    BY <2>a, <2>2, <2>4, <2>5
  <2> QED
    BY <2>6 DEF q
<1>12. ASSUME Tree!WellIndented(ns) PROVE l.leaf.val = Val(ns, c)
  <2>1. k \in 0 .. Len(ns) /\ c \in 0 .. k
    <3>1. c \in Nat /\ k \in 1 .. Len(ns) /\ Len(ns) \in Nat
      BY <1>3 DEF AreNodes
    <3>2. k \in 0 .. Len(ns)
      BY <3>1
    <3> QED
      BY <3>1, <3>2
  <2>2. Val(ns, c) = Tree!BlockOf(ns, Kids(ns, c, k), Tree!Values(ns))
    BY <1>7, <1>11, <1>12, <2>1, BlockDone
  <2>3. Kids(ns, c, k) = << k >>
    BY <1>3, <1>6, OnlyKid
  <2>4. Val(ns, c) = Tree!Values(ns)[k]
    BY <1>4, <2>2, <2>3, OneValue
  <2>5. Tree!Values(ns)[k] = ValueOf(ns, k, Tree!Values(ns))
    BY <2>1, ValuesDef
  <2>6. ValueOf(ns, k, Tree!Values(ns)) = ns[k].leaf.val
    BY <1>3, <1>4 DEF ValueOf
  <2> QED
    BY <1>3, <2>4, <2>5, <2>6
<1>13. NoPlace(ns, k, c, "return")
  BY <1>11 DEF NoPlace
<1> HIDE DEF m, n, k, l
<1>14. Reading(ns, k, ps, Tail(r), fr, bu, "return", l.leaf.val)
  <2>1. Owners(Len(fr), "return") = m
    BY <1>1 DEF n
  <2> QED
    BY <1>2, <1>5, <1>8, <1>9, <1>10, <1>12, <1>13, <2>1 DEF Reading
<1> QED
  BY <1>14 DEF k, l

(* The loop on top. *)
LEMMA StackTop ==
  ASSUME NEW fr, Stack(fr), Len(fr) # 0
  PROVE  /\ Len(fr) \in Nat \ {0} /\ Len(fr) \in 1 .. Len(fr)
         /\ fr[Len(fr)].indent \in Nat /\ fr[Len(fr)].kind \in {"map", "seq"}
<1> DEFINE n == Len(fr)
<1>1. n \in Nat \ {0}
  BY DEF Stack
<1>2. \A i \in 1 .. n : fr[i].indent \in Nat /\ fr[i].kind \in {"map", "seq"}
  BY DEF Stack
<1> HIDE DEF n
<1>3. n \in 1 .. n
  BY <1>1
<1>4. fr[n].indent \in Nat /\ fr[n].kind \in {"map", "seq"}
  BY <1>2, <1>3
<1> QED
  BY <1>1, <1>3, <1>4 DEF n

LEMMA FilledTop ==
  ASSUME NEW ns, NEW c, NEW ps, NEW fr, Len(fr) \in Nat \ {0}, NEW bu,
         Filled(ns, c, ps, fr, bu, Len(fr))
  PROVE  /\ Collected(ns, Kids(ns, ps[Len(fr)], c), fr[Len(fr)].kind, bu[Len(fr)])
         /\ IsSequence(bu[Len(fr)])
<1> DEFINE n == Len(fr)
<1>1. n \in Nat \ {0}
  OBVIOUS
<1>2. \A i \in 1 .. n :
        /\ IsSequence(bu[i])
        /\ Collected(ns, Kids(ns, ps[i], BoundUpTo(c, ps, i, n)), fr[i].kind, bu[i])
  BY DEF Filled
<1> HIDE DEF n
<1>3. n \in 1 .. n /\ BoundUpTo(c, ps, n, n) = c
  BY <1>1 DEF BoundUpTo
<1>4. Collected(ns, Kids(ns, ps[n], c), fr[n].kind, bu[n]) /\ IsSequence(bu[n])
  BY <1>2, <1>3
<1> QED
  BY <1>4 DEF n

(* In a legal tree no deeper line follows the entries of a loop. *)
LEMMA ReadingDeeper ==
  ASSUME NEW ns, AreNodes(ns), NEW c, NEW ps \in [Nat -> Nat], NEW r \in Seq(Line),
         NEW fr, Stack(fr), Len(fr) # 0, NEW bu, NEW t,
         Reading(ns, c, ps, r, fr, bu, "loop", t), bu[Len(fr)] # << >>,
         r # << >>, Head(r).indent > fr[Len(fr)].indent
  PROVE  ~ Tree!WellIndented(ns)
<1> SUFFICES ASSUME Tree!WellIndented(ns) PROVE FALSE
  OBVIOUS
<1> DEFINE n == Len(fr)
           k == c + 1
           p == ps[n]
           f == fr[n]
<1>0. n \in Nat \ {0} /\ n \in 1 .. n /\ f.indent \in Nat
  BY StackTop
<1>1. Owners(n, "loop") = n
  BY <1>0 DEF Owners
<1>2. /\ Suffix(ns, c, r) /\ Open(ns, c, ps, fr, n)
      /\ NoPlace(ns, c, p, "loop") /\ Filled(ns, c, ps, fr, bu, n)
  BY <1>1 DEF Reading
<1>3. /\ c \in Nat /\ k \in 1 .. Len(ns) /\ c < Len(ns)
      /\ ns[k].col = Head(r).indent
  <2>1. Len(ns) \in Nat
    BY DEF AreNodes
  <2> QED
    BY <1>2, <2>1, HeadNode
<1>4. Kids(ns, p, c) # << >>
  <2>1. Collected(ns, Kids(ns, p, c), f.kind, bu[n]) /\ IsSequence(bu[n])
    <3>1. Len(fr) \in Nat \ {0} /\ Filled(ns, c, ps, fr, bu, Len(fr))
      BY <1>0, <1>2
    <3> QED
      BY <3>1, FilledTop
  <2>2. Len(bu[n]) # 0
    BY <2>1, EmptySeq DEF IsSequence
  <2> QED
    BY <2>1, <2>2, EmptySeq DEF Collected
<1>5. PICK a \in 1 .. c : Tree!Parent(ns, a) = p
  BY <1>3, <1>4, LastKid
<1>6. Fits(ns[a], f)
  BY <1>0, <1>2, <1>5 DEF Open
<1>7. a \in 1 .. Len(ns) /\ p < a
  <2>1. a \in 1 .. Len(ns)
    BY <1>3, <1>5 DEF AreNodes
  <2>2. p \in 0 .. a - 1
    BY <1>5, <2>1, ParentIs
  <2> QED
    BY <2>1, <2>2
<1>8. Tree!Encloses(ns[a], ns[k])
  BY <1>0, <1>3, <1>6 DEF Fits, Tree!Encloses
<1> DEFINE q == Tree!Parent(ns, k)
<1>9. q \in 0 .. k - 1 /\ \A j \in q + 1 .. k - 1 : ~ Tree!Encloses(ns[j], ns[k])
  BY <1>3, ParentIs
<1>10. q <= p
  BY <1>2, <1>3 DEF NoPlace
<1>11. p \in Nat
  BY <1>0
<1> HIDE DEF q, p
<1>12. a \in q + 1 .. k - 1
  BY <1>3, <1>5, <1>7, <1>9, <1>10, <1>11
<1> QED
  BY <1>8, <1>9, <1>12

-----------------------------------------------------------------------------
(* One more node, and its part. *)
LEMMA CollectedAppend ==
  ASSUME NEW ns, NEW ks \in Seq(Nat), NEW kind, NEW b, IsSequence(b),
         Collected(ns, ks, kind, b), NEW k \in Nat, NEW x,
         kind = "map" => x.key = ns[k].leaf.key,
         Tree!WellIndented(ns) => x = Part(ns, k, kind)
  PROVE  Collected(ns, Append(ks, k), kind, Append(b, x)) /\ IsSequence(Append(b, x))
<1> DEFINE n == Len(ks)
           us == Append(ks, k)
           c == Append(b, x)
<1>1. /\ n \in Nat /\ Len(us) = n + 1 /\ us[n + 1] = k
      /\ \A i \in 1 .. n : us[i] = ks[i]
  BY AppendProperties, LenProperties
<1>2. Len(b) = n
  BY DEF Collected
<1>3. IsSequence(c) /\ Len(c) = n + 1 /\ c[n + 1] = x /\ \A i \in 1 .. n : c[i] = b[i]
  BY <1>2, SequenceAppend
<1>4. \A j \in 1 .. n :
        /\ kind = "map" => b[j].key = ns[ks[j]].leaf.key
        /\ Tree!WellIndented(ns) => b[j] = Part(ns, ks[j], kind)
  BY DEF Collected
<1> HIDE DEF us, c, n
<1>5. ASSUME NEW j \in 1 .. n + 1
      PROVE  /\ kind = "map" => c[j].key = ns[us[j]].leaf.key
             /\ Tree!WellIndented(ns) => c[j] = Part(ns, us[j], kind)
  <2>1. CASE j = n + 1
    BY <1>1, <1>3, <2>1
  <2>2. CASE j \in 1 .. n
    BY <1>1, <1>3, <1>4, <2>2
  <2> QED
    BY <1>1, <2>1, <2>2, LastOrBefore
<1>6. Collected(ns, us, kind, c)
  BY <1>1, <1>3, <1>5 DEF Collected
<1> QED
  BY <1>3, <1>6 DEF us, c

AllFit(ns, ks, f) == \A j \in 1 .. Len(ks) : Fits(ns[ks[j]], f)

LoopBlock(f, b) == IF f.kind = "map" THEN Mapping(b) ELSE Sequence(b)

(* b is what the loop f made of its entries ks. *)
BoundAs(ns, ks, f, b) ==
  /\ ks \in Seq(Nat) /\ ks # << >>
  /\ f.kind \in {"map", "seq"}
  /\ IsSequence(b) /\ Collected(ns, ks, f.kind, b)
  /\ AllFit(ns, ks, f)

(* A loop that is over binds to the value of its owner. *)
LEMMA LoopValue ==
  ASSUME NEW ns, Tree!WellIndented(ns), NEW ks, NEW f, NEW b, BoundAs(ns, ks, f, b)
  PROVE  Tree!BlockOf(ns, ks, Tree!Values(ns)) = LoopBlock(f, b)
<1> DEFINE n == Len(ks)
           val == Tree!Values(ns)
<1>0. /\ ks \in Seq(Nat) /\ ks # << >>
      /\ f.kind \in {"map", "seq"}
      /\ IsSequence(b) /\ Collected(ns, ks, f.kind, b)
      /\ AllFit(ns, ks, f)
  BY DEF BoundAs
<1>1. DOMAIN ks = 1 .. n /\ n \in Nat \ {0} /\ 1 \in 1 .. n
  BY <1>0, LenProperties, EmptySeq
<1>2. Len(b) = n
  BY <1>0 DEF Collected
<1>3. b = [i \in 1 .. n |-> b[i]]
  BY <1>0, <1>2 DEF IsSequence
<1>4. \A j \in 1 .. n : b[j] = Part(ns, ks[j], f.kind)
  BY <1>0 DEF Collected
<1>5. CASE f.kind = "map"
  <2>1. Tree!IsEntry(ns[ks[1]]) /\ ns[ks[1]].kind # "dash"
    BY <1>0, <1>1, <1>5 DEF AllFit, Fits, Tree!IsEntry
  <2> DEFINE e == [i \in DOMAIN ks |-> Tree!Member(ns[ks[i]].leaf.key, val[ks[i]])]
  <2>2. Tree!BlockOf(ns, ks, val) = Tree!Mapping(e)
    BY <1>0, <2>1 DEF Tree!BlockOf
  <2>3. e = [i \in 1 .. n |-> b[i]]
    BY <1>1, <1>4, <1>5 DEF Part, Val, Member, Tree!Member
  <2> QED
    BY <1>3, <1>5, <2>2, <2>3 DEF LoopBlock, Mapping, Tree!Mapping
<1>6. CASE f.kind = "seq"
  <2>1. ns[ks[1]].kind = "dash"
    BY <1>0, <1>1, <1>6 DEF AllFit, Fits
  <2> DEFINE e == [i \in DOMAIN ks |-> val[ks[i]]]
  <2>2. Tree!BlockOf(ns, ks, val) = Tree!Sequence(e)
    BY <1>0, <2>1 DEF Tree!BlockOf
  <2>3. e = [i \in 1 .. n |-> b[i]]
    BY <1>1, <1>4, <1>6 DEF Part, Val
  <2> QED
    BY <1>3, <1>6, <2>2, <2>3 DEF LoopBlock, Sequence, Tree!Sequence
<1> QED
  BY <1>0, <1>5, <1>6

HasKid(ns, c, p, f) == \E a \in 1 .. c : Tree!Parent(ns, a) = p /\ Fits(ns[a], f)

(* The loop on top collected something: its owner has a child that fits. *)
LEMMA LoopHasKid ==
  ASSUME NEW ns, AreNodes(ns), NEW c \in 0 .. Len(ns), NEW ps \in [Nat -> Nat],
         NEW fr, Stack(fr), Len(fr) # 0, NEW bu,
         Open(ns, c, ps, fr, Len(fr)), Filled(ns, c, ps, fr, bu, Len(fr)),
         bu[Len(fr)] # << >>
  PROVE  /\ Kids(ns, ps[Len(fr)], c) # << >>
         /\ HasKid(ns, c, ps[Len(fr)], fr[Len(fr)])
<1> DEFINE n == Len(fr)
           p == ps[n]
           f == fr[n]
<1>0. n \in Nat \ {0} /\ n \in 1 .. n /\ c \in Nat
  BY StackTop DEF AreNodes
<1>1. Kids(ns, p, c) # << >>
  <2>1. Collected(ns, Kids(ns, p, c), f.kind, bu[n]) /\ IsSequence(bu[n])
    BY <1>0, FilledTop
  <2>2. Len(bu[n]) # 0
    BY <2>1, EmptySeq DEF IsSequence
  <2> QED
    BY <2>1, <2>2, EmptySeq DEF Collected
<1>2. PICK a \in 1 .. c : Tree!Parent(ns, a) = p
  BY <1>0, <1>1, LastKid
<1>3. Fits(ns[a], f)
  BY <1>0, <1>2 DEF Open
<1> QED
  BY <1>1, <1>2, <1>3 DEF HasKid

(* ... and what it collected is the value of the owner. *)
LEMMA LoopDone ==
  ASSUME NEW ns, AreNodes(ns), Tree!WellIndented(ns), NEW c \in 0 .. Len(ns),
         NEW ps \in [Nat -> Nat], NEW fr, Stack(fr), Len(fr) # 0, NEW bu,
         Open(ns, c, ps, fr, Len(fr)), Filled(ns, c, ps, fr, bu, Len(fr)),
         bu[Len(fr)] # << >>,
         c < Len(ns) => Tree!Parent(ns, c + 1) < ps[Len(fr)]
  PROVE  Val(ns, ps[Len(fr)]) = LoopBlock(fr[Len(fr)], bu[Len(fr)])
<1> DEFINE n == Len(fr)
           p == ps[n]
           f == fr[n]
           b == bu[n]
           ks == Kids(ns, p, c)
<1>1. n \in Nat \ {0} /\ n \in 1 .. n /\ c \in Nat /\ f.kind \in {"map", "seq"}
  <2>1. n \in Nat \ {0} /\ n \in 1 .. n /\ f.kind \in {"map", "seq"}
    BY StackTop
  <2>2. Len(ns) \in Nat
    BY DEF AreNodes
  <2>3. c \in Nat
    BY <2>2
  <2> QED
    BY <2>1, <2>3
<1>2. Tree!HasRoom(ns, p) /\ p <= c
  BY <1>1 DEF Open
<1>3. p \in 0 .. c
  BY <1>1, <1>2
<1>4. Val(ns, p) = Tree!BlockOf(ns, ks, Tree!Values(ns))
  BY <1>2, <1>3, BlockDone
<1>5. Collected(ns, ks, f.kind, b) /\ IsSequence(b)
  BY <1>1, FilledTop
<1>6. KidsAre(ks, ns, p, c)
  BY <1>1, KidsHold
<1>7. ks # << >>
  BY LoopHasKid
<1> HIDE DEF ks
<1>8. AllFit(ns, ks, f)
  BY <1>1, <1>6 DEF AllFit, KidsAre, Open
<1>9. ks \in Seq(Nat)
  BY <1>6 DEF KidsAre
<1> HIDE DEF b, f, p, n
<1>10. BoundAs(ns, ks, f, b)
  BY <1>1, <1>5, <1>7, <1>8, <1>9 DEF BoundAs
<1>11. Tree!BlockOf(ns, ks, Tree!Values(ns)) = LoopBlock(f, b)
  BY <1>10, LoopValue
<1> QED
  BY <1>4, <1>11 DEF b, f, p, n

(* map_loop and seq_loop end where no entry of theirs follows. *)
LEMMA ReadingEnd ==
  ASSUME NEW ns, AreNodes(ns), NEW c, NEW ps \in [Nat -> Nat], NEW r \in Seq(Line),
         NEW fr, Stack(fr), Len(fr) # 0, NEW bu, NEW t,
         Reading(ns, c, ps, r, fr, bu, "loop", t), bu[Len(fr)] # << >>,
         r # << >> =>
           \/ Head(r).indent < fr[Len(fr)].indent
           \/ fr[Len(fr)].kind = "map" /\ ~ NodeIsPair(Head(r))
           \/ fr[Len(fr)].kind = "seq" /\ ~ NodeIsSeqitem(Head(r)),
         NEW gr, Len(gr) = Len(fr) - 1, \A i \in 1 .. Len(gr) : gr[i] = fr[i],
         NEW cu, \A i \in 1 .. Len(gr) : cu[i] = bu[i]
  PROVE  Reading(ns, c, ps, r, gr, cu, "return",
                 LoopBlock(fr[Len(fr)], bu[Len(fr)]))
<1> DEFINE n == Len(fr)
           k == c + 1
           p == ps[n]
           f == fr[n]
           e == Len(gr)
<1>0. /\ n \in Nat \ {0} /\ n \in 1 .. n /\ e = n - 1
      /\ f.indent \in Nat /\ f.kind \in {"map", "seq"}
  BY StackTop
<1>a. /\ e \in 0 .. n /\ n \in 0 .. n
      /\ \A i \in 1 .. e : i \in 1 .. n
  <2> HIDE DEF n, e
  <2> QED
    BY <1>0
<1>1. Owners(n, "loop") = n /\ Owners(e, "return") = n
  BY <1>0 DEF Owners
<1>2. /\ Suffix(ns, c, r) /\ Open(ns, c, ps, fr, n) /\ Shaped(ns, c)
      /\ NoPlace(ns, c, p, "loop") /\ Filled(ns, c, ps, fr, bu, n)
  BY <1>1 DEF Reading
<1>3. c \in 0 .. Len(ns) /\ c \in Nat
  BY <1>2, SuffixBound
<1>4. /\ Kids(ns, p, c) # << >>
      /\ HasKid(ns, c, p, f)
  BY <1>2, <1>3, LoopHasKid
<1>5. PICK a \in 1 .. c : Tree!Parent(ns, a) = p /\ Fits(ns[a], f)
  BY <1>4 DEF HasKid
<1>6. ASSUME Tree!WellIndented(ns), c < Len(ns) PROVE Tree!Parent(ns, k) < p
  <2>0. Len(ns) \in Nat
    BY DEF AreNodes
  <2>1. r # << >>
    BY <1>2, <1>6, <2>0, SuffixEnd
  <2>2. /\ k \in 1 .. Len(ns) /\ ns[k].col = Head(r).indent
        /\ NodeIsSeqitem(Head(r)) <=> ns[k].kind = "dash"
        /\ NodeIsPair(Head(r)) <=> Tree!IsEntry(ns[k])
    BY <1>2, <2>0, <2>1, HeadNode
  <2>3. a \in 1 .. Len(ns) /\ a # k
    <3> DEFINE N == Len(ns)
    <3>1. c \in 0 .. N /\ N \in Nat /\ a \in 1 .. c
      BY <1>3, <2>0
    <3> HIDE DEF N
    <3>2. a \in 1 .. N /\ a # k
      BY <3>1
    <3> QED
      BY <3>2 DEF N
  <2>4. Tree!Parent(ns, k) # p
    <3> SUFFICES ASSUME Tree!Parent(ns, a) = Tree!Parent(ns, k) PROVE FALSE
      BY <1>5
    <3>1. /\ ns[a].col = ns[k].col
          /\ ns[a].kind = "dash" <=> ns[k].kind = "dash"
          /\ Tree!IsEntry(ns[a]) <=> Tree!IsEntry(ns[k])
      BY <1>6, <2>2, <2>3, SameBlock
    <3>2. Head(r).indent = f.indent
      BY <1>5, <2>2, <3>1 DEF Fits
    <3>3. \/ f.kind = "map" /\ ~ NodeIsPair(Head(r))
          \/ f.kind = "seq" /\ ~ NodeIsSeqitem(Head(r))
      <4> DEFINE h == Head(r)
      <4>1. /\ h.indent = f.indent
            /\ \/ h.indent < f.indent
               \/ f.kind = "map" /\ ~ NodeIsPair(h)
               \/ f.kind = "seq" /\ ~ NodeIsSeqitem(h)
        BY <2>1, <3>2
      <4>2. f.indent \in Nat
        BY <1>0
      <4> HIDE DEF h, f
      <4>3. ~ h.indent < f.indent
        <5>1. h.indent = f.indent
          BY <4>1
        <5>2. \A x \in Nat : ~ x < x
          OBVIOUS
        <5>3. ~ f.indent < f.indent
          BY <4>2, <5>2, Zenon
        <5> QED
          BY <5>1, <5>3, Zenon
      <4> QED
        BY <4>1, <4>3 DEF h
    <3>4. CASE f.kind = "map" /\ ~ NodeIsPair(Head(r))
      BY <1>5, <2>2, <3>1, <3>4 DEF Fits
    <3>5. CASE f.kind = "seq" /\ ~ NodeIsSeqitem(Head(r))
      BY <1>5, <2>2, <3>1, <3>5 DEF Fits
    <3> QED
      BY <3>3, <3>4, <3>5
  <2>5. Tree!Parent(ns, k) <= p
    BY <1>2, <1>6 DEF NoPlace
  <2>6. Tree!Parent(ns, k) \in 0 .. k - 1 /\ p \in Nat
    BY <1>0, <2>2, ParentIs
  <2> HIDE DEF p
  <2> QED
    BY <2>4, <2>5, <2>6
<1>7. NoPlace(ns, c, p, "return")
  BY <1>6 DEF NoPlace
<1>8. Open(ns, c, ps, gr, n)
  <2>1. \A i \in 1 .. e : gr[i].kind = fr[i].kind /\ gr[i].indent = fr[i].indent
    OBVIOUS
  <2> QED
    BY <1>0, <1>a, <1>2, <2>1, OpenLess
<1>9. Filled(ns, c, ps, gr, cu, n)
  <2>1. \A i \in 1 .. e : i \in 1 .. n /\ gr[i] = fr[i] /\ cu[i] = bu[i]
    BY <1>a
  <2> HIDE DEF e, n
  <2> QED
    BY <1>2, <2>1 DEF Filled, e, n
<1>10. Tree!WellIndented(ns) => Val(ns, p) = LoopBlock(f, bu[n])
  BY <1>2, <1>3, <1>6, LoopDone
<1> HIDE DEF n, p, f, e
<1>11. Owners(Len(gr), "return") = n
  BY <1>1 DEF e
<1>12. Reading(ns, c, ps, r, gr, cu, "return", LoopBlock(f, bu[n]))
  BY <1>2, <1>7, <1>8, <1>9, <1>10, <1>11 DEF Reading, p
<1> QED
  BY <1>12 DEF f, n

-----------------------------------------------------------------------------
ChildRead(ns, c, ps, fr) ==
  /\ Tree!Parent(ns, c + 1) = ps[Len(fr)]
  /\ Open(ns, c + 1, ps, fr, Len(fr))
  /\ Shaped(ns, c + 1)
  /\ Kids(ns, ps[Len(fr)], c + 1) = Append(Kids(ns, ps[Len(fr)], c), c + 1)

(* An entry of the loop on top is read. *)
LEMMA ReadChild ==
  ASSUME NEW ns, AreNodes(ns), NEW c \in Nat, c + 1 \in 1 .. Len(ns),
         NEW ps \in [Nat -> Nat], NEW fr, Stack(fr), Len(fr) # 0,
         Open(ns, c, ps, fr, Len(fr)), Shaped(ns, c), Fits(ns[c + 1], fr[Len(fr)])
  PROVE  ChildRead(ns, c, ps, fr)
<1> DEFINE n == Len(fr)
           k == c + 1
           p == ps[n]
           f == fr[n]
<1>1. n \in Nat \ {0} /\ n \in 1 .. n /\ f.kind \in {"map", "seq"}
  BY StackTop
<1>2. Tree!Parent(ns, k) = p
  BY ChildOfTop
<1>3. Open(ns, k, ps, fr, n)
  <2>1. ns[k].col \in Nat
    BY NextWellTyped
  <2>2. \A i \in 1 .. Len(fr) : Under(ns[k], fr[i])
    BY <2>1, FitsUnder
  <2> QED
    BY <1>1, <1>2, <2>2, OpenRead
<1>4. Shaped(ns, k)
  <2>1. Tree!HasRoom(ns, p)
    BY <1>1 DEF Open
  <2>2. \A j \in 1 .. c : Tree!Parent(ns, j) = p => Fits(ns[j], f)
    BY <1>1 DEF Open
  <2>3. Fits(ns[k], f)
    OBVIOUS
  <2> HIDE DEF f
  <2>4. \A j \in 1 .. c : Tree!Parent(ns, j) = p =>
           /\ ns[j].col = ns[k].col
           /\ \/ ns[j].kind = "dash" /\ ns[k].kind = "dash"
              \/ Tree!IsEntry(ns[j]) /\ Tree!IsEntry(ns[k])
    BY <1>1, <2>2, <2>3 DEF Fits
  <2> QED
    BY <1>2, <2>1, <2>4, ShapedRead
<1>5. Kids(ns, p, k) = Append(Kids(ns, p, c), k)
  BY <1>2, KidsStep
<1> QED
  BY <1>2, <1>3, <1>4, <1>5 DEF ChildRead

(* Loops that differ in their ok only, and on top in the key awaited. *)
Alike(fr, gr) ==
  /\ Len(gr) = Len(fr)
  /\ \A i \in 1 .. Len(fr) : gr[i].kind = fr[i].kind /\ gr[i].indent = fr[i].indent
  /\ \A i \in 1 .. Len(fr) - 1 : gr[i].key = fr[i].key

(* Something collected by the loop on top, and nothing below. *)
FilledGrow(bu, cu, n, x) ==
  /\ cu[n] = Append(bu[n], x)
  /\ \A i \in 1 .. n - 1 : cu[i] = bu[i]

LEMMA FilledMore ==
  ASSUME NEW ns, NEW c, NEW d, NEW ps, NEW fr, NEW gr, Alike(fr, gr), NEW bu, NEW cu,
         NEW n \in Nat \ {0}, n = Len(fr), NEW m \in Nat, m = n \/ m = n + 1,
         Filled(ns, c, ps, fr, bu, m), NEW x, FilledGrow(bu, cu, n, x),
         IsSequence(cu[n]),
         Collected(ns, Kids(ns, ps[n], d), fr[n].kind, cu[n])
  PROVE  Filled(ns, d, ps, gr, cu, n)
<1> SUFFICES ASSUME NEW i \in 1 .. n
             PROVE  /\ IsSequence(cu[i])
                    /\ Collected(ns, Kids(ns, ps[i], BoundUpTo(d, ps, i, n)), gr[i].kind, cu[i])
                    /\ gr[i].kind = "map" /\ i < n => gr[i].key = ns[ps[i + 1]].leaf.key
  BY DEF Filled, Alike
<1>1. gr[i].kind = fr[i].kind
  BY DEF Alike
<1>2. CASE i = n
  <2>1. BoundUpTo(d, ps, i, n) = d /\ ~ i < n
    BY <1>2 DEF BoundUpTo
  <2> QED
    BY <1>1, <1>2, <2>1
<1>3. CASE i # n
  <2>1. i \in 1 .. n - 1 /\ i < n /\ i < m
    BY <1>3
  <2>2. cu[i] = bu[i] /\ gr[i].key = fr[i].key
    BY <2>1 DEF FilledGrow, Alike
  <2>3. BoundUpTo(d, ps, i, n) = BoundUpTo(c, ps, i, m)
    BY <2>1 DEF BoundUpTo
  <2>4. /\ IsSequence(bu[i])
        /\ Collected(ns, Kids(ns, ps[i], BoundUpTo(c, ps, i, m)), fr[i].kind, bu[i])
        /\ fr[i].kind = "map" /\ i < m => fr[i].key = ns[ps[i + 1]].leaf.key
    BY DEF Filled
  <2> QED
    BY <1>1, <2>1, <2>2, <2>3, <2>4
<1> QED
  BY <1>2, <1>3

(* map_entry of a key with its value. *)
LEMMA ReadingEntry ==
  ASSUME NEW ns, AreNodes(ns), NEW c, NEW ps \in [Nat -> Nat], NEW r \in Seq(Line),
         NEW fr, Stack(fr), Len(fr) # 0, NEW bu, NEW t,
         Reading(ns, c, ps, r, fr, bu, "loop", t),
         r # << >>, NodeIsPair(Head(r)), Head(r).leaf.kind = "member",
         Head(r).indent = fr[Len(fr)].indent, fr[Len(fr)].kind = "map",
         NEW gr, Alike(fr, gr),
         NEW cu, FilledGrow(bu, cu, Len(fr), Member(Head(r).leaf.key, Head(r).leaf.val)),
         NEW u
  PROVE  Reading(ns, c + 1, ps, Tail(r), gr, cu, "loop", u)
<1> DEFINE n == Len(fr)
           k == c + 1
           p == ps[n]
           f == fr[n]
           l == Head(r)
           x == Member(l.leaf.key, l.leaf.val)
<1>0. /\ n \in Nat \ {0} /\ n \in 1 .. n /\ Len(gr) = n
      /\ f.indent \in Nat /\ f.kind = "map"
  BY StackTop DEF Alike
<1>1. Owners(n, "loop") = n /\ Owners(Len(gr), "loop") = n
  BY <1>0 DEF Owners
<1>2. /\ Suffix(ns, c, r) /\ Open(ns, c, ps, fr, n) /\ Shaped(ns, c)
      /\ NoPlace(ns, c, p, "loop") /\ Filled(ns, c, ps, fr, bu, n)
  BY <1>1 DEF Reading
<1>3. /\ c \in Nat /\ k \in 1 .. Len(ns) /\ c < Len(ns)
      /\ ns[k].col = f.indent /\ Tree!IsEntry(ns[k])
      /\ ns[k].kind = "member" /\ ns[k].leaf = l.leaf
  <2>1. Len(ns) \in Nat /\ ~ NodeIsSeqitem(l)
    BY DEF AreNodes, NodeIsSeqitem, NodeIsPair
  <2> QED
    BY <1>2, <2>1, HeadNode
<1>4. Fits(ns[k], f)
  BY <1>0, <1>3 DEF Fits
<1>5. /\ Tree!Parent(ns, k) = p
      /\ Open(ns, k, ps, fr, n) /\ Shaped(ns, k)
      /\ Kids(ns, p, k) = Append(Kids(ns, p, c), k)
  <2>1. c \in Nat /\ c + 1 \in 1 .. Len(ns) /\ Open(ns, c, ps, fr, Len(fr))
        /\ Shaped(ns, c) /\ Fits(ns[c + 1], fr[Len(fr)])
    BY <1>2, <1>3, <1>4
  <2>2. ChildRead(ns, c, ps, fr)
    BY <2>1, ReadChild
  <2> QED
    BY <2>2 DEF ChildRead
<1>a. c \in Nat /\ k \in Nat
  BY <1>3
<1>6. Suffix(ns, k, Tail(r))
  <2>1. Len(ns) \in Nat /\ Tail(r) \in Seq(Line) /\ ~ NodeIsSeqitem(l)
    BY HeadTailProperties DEF AreNodes, NodeIsSeqitem, NodeIsPair
  <2> QED
    BY <1>2, <2>1, HeadRead
<1>7. Open(ns, k, ps, gr, n)
  <2>1. \A i \in 1 .. Len(gr) : gr[i].kind = fr[i].kind /\ gr[i].indent = fr[i].indent
    BY DEF Alike
  <2>2. n \in 0 .. n /\ Len(gr) \in 0 .. n
    BY <1>0
  <2> QED
    BY <1>0, <1>5, <2>1, <2>2, OpenLess
<1>8. ASSUME Tree!WellIndented(ns), k < Len(ns) PROVE Tree!Parent(ns, k + 1) <= p
  <2> DEFINE q == Tree!Parent(ns, k + 1)
  <2>0. k \in Nat /\ k # 0
    BY <1>3
  <2>1. k + 1 \in 1 .. Len(ns)
    BY <1>8, <2>0, NextNode
  <2>2. q \in 0 .. (k + 1) - 1
    BY <2>1, ParentIs
  <2>3. q # k
    <3>1. ~ Tree!HasRoom(ns, k)
      BY <1>3, <2>0 DEF Tree!HasRoom
    <3>2. Tree!HasRoom(ns, q)
      BY <1>8, <2>1, RoomAbove
    <3> QED
      BY <3>1, <3>2
  <2>4. q < k
    <3> HIDE DEF q, k
    <3> QED
      BY <2>0, <2>2, <2>3
  <2>5. k \in p + 1 .. k /\ p \in Nat
    <3>1. p \in 0 .. k - 1
      BY <1>3, <1>5, ParentIs
    <3> HIDE DEF p, k
    <3> QED
      BY <2>0, <3>1
  <2>6. \A j \in p + 1 .. k : Under(ns[j], f)
    BY <1>0, <1>5 DEF Open
  <2>7. f.kind \in {"map", "seq"}
    BY <1>0
  <2> QED
    BY <1>0, <1>4, <2>0, <2>1, <2>4, <2>5, <2>6, <2>7, Between
<1>9. NoPlace(ns, k, p, "loop")
  BY <1>8 DEF NoPlace
<1>10. Collected(ns, Kids(ns, p, k), f.kind, cu[n]) /\ IsSequence(cu[n])
  <2>1. Collected(ns, Kids(ns, p, c), f.kind, bu[n]) /\ IsSequence(bu[n])
    BY <1>0, <1>2, FilledTop
  <2>2. Kids(ns, p, c) \in Seq(Nat) /\ k \in Nat
    BY <1>a, KidsStep
  <2>3. x.key = ns[k].leaf.key
    BY <1>3 DEF Member
  <2>4. Tree!WellIndented(ns) => x = Part(ns, k, f.kind)
    <3>1. Tree!Values(ns)[k] = ValueOf(ns, k, Tree!Values(ns))
      <4>1. k \in 0 .. Len(ns)
        BY <1>3
      <4> QED
        BY <4>1, ValuesDef
    <3>2. Val(ns, k) = l.leaf.val
      BY <1>3, <3>1 DEF Val, ValueOf
    <3> QED
      BY <1>0, <1>3, <3>2 DEF Part
  <2>5. cu[n] = Append(bu[n], x)
    BY DEF FilledGrow
  <2> HIDE DEF x, f, p, k, n
  <2> QED
    BY <1>5, <2>1, <2>2, <2>3, <2>4, <2>5, CollectedAppend
<1>11. Filled(ns, k, ps, gr, cu, n)
  BY <1>0, <1>2, <1>10, FilledMore
<1> HIDE DEF n, k, p, f, x
<1>12. Reading(ns, k, ps, Tail(r), gr, cu, "loop", u)
  BY <1>1, <1>5, <1>6, <1>7, <1>9, <1>11 DEF Reading, p
<1> QED
  BY <1>12 DEF k

-----------------------------------------------------------------------------
LEMMA TopOrBelow ==
  ASSUME NEW n \in Nat, NEW i \in 1 .. n
  PROVE  /\ i < n + 1
         /\ i = n \/ (i \in 1 .. n - 1 /\ i < n /\ i + 1 \in 1 .. n)
OBVIOUS

LEMMA FilledNest ==
  ASSUME NEW ns, NEW c \in Nat, NEW ps \in [Nat -> Nat], NEW qs, NEW fr, NEW gr,
         Alike(fr, gr), NEW bu, NEW n \in Nat \ {0}, n = Len(fr),
         Filled(ns, c, ps, fr, bu, n),
         qs[n + 1] = c + 1, \A i \in 1 .. n : qs[i] = ps[i],
         fr[n].kind = "map" => gr[n].key = ns[c + 1].leaf.key
  PROVE  Filled(ns, c + 1, qs, gr, bu, n + 1)
<1> SUFFICES ASSUME NEW i \in 1 .. n
             PROVE  /\ IsSequence(bu[i])
                    /\ Collected(ns, Kids(ns, qs[i], BoundUpTo(c + 1, qs, i, n + 1)),
                                 gr[i].kind, bu[i])
                    /\ gr[i].kind = "map" /\ i < n + 1 =>
                         gr[i].key = ns[qs[i + 1]].leaf.key
  BY DEF Filled, Alike
<1>1. gr[i].kind = fr[i].kind /\ i < n + 1 /\ qs[i] = ps[i]
  <2>1. i < n + 1
    BY TopOrBelow
  <2>2. gr[i].kind = fr[i].kind
    BY DEF Alike
  <2> QED
    BY <2>1, <2>2
<1>2. /\ IsSequence(bu[i])
      /\ Collected(ns, Kids(ns, ps[i], BoundUpTo(c, ps, i, n)), fr[i].kind, bu[i])
      /\ fr[i].kind = "map" /\ i < n => fr[i].key = ns[ps[i + 1]].leaf.key
  BY DEF Filled
<1>3. CASE i = n
  <2>1. BoundUpTo(c, ps, i, n) = c
    BY <1>3 DEF BoundUpTo
  <2>2. (c + 1) - 1 = c
    OBVIOUS
  <2>3. BoundUpTo(c + 1, qs, i, n + 1) = c
    BY <1>1, <1>3, <2>2 DEF BoundUpTo
  <2> QED
    BY <1>1, <1>2, <1>3, <2>1, <2>3
<1>4. CASE i # n
  <2>1. i \in 1 .. n - 1 /\ i < n /\ i + 1 \in 1 .. n
    BY <1>4, TopOrBelow
  <2>2. qs[i + 1] = ps[i + 1] /\ gr[i].key = fr[i].key
    BY <2>1 DEF Alike
  <2>3. BoundUpTo(c + 1, qs, i, n + 1) = BoundUpTo(c, ps, i, n)
    BY <1>1, <2>1, <2>2 DEF BoundUpTo
  <2> QED
    BY <1>1, <1>2, <2>1, <2>2, <2>3
<1> QED
  BY <1>3, <1>4

(* The line l is an entry of the loop f that waits for a block of its own; *)
(* g is the loop when it waits.                                            *)
AsksFor(f, g, l) ==
  /\ l.indent = f.indent
  /\ \/ /\ f.kind = "map" /\ NodeIsPair(l) /\ l.leaf.kind = "pair"
        /\ g.key = l.leaf.key
     \/ f.kind = "seq" /\ NodeIsSeqitem(l)

Asked(ns, c, ps, n, qs, q, gr, bu, at, u) ==
  /\ qs \in [Nat -> Nat]
  /\ Reading(ns, c + 1, qs, q, gr, bu, at, u)
  /\ \A i \in 1 .. n : qs[i] = ps[i]

(* map_entry of a key alone, and seq_entry. *)
LEMMA ReadingNest ==
  ASSUME NEW ns, AreNodes(ns), NEW c, NEW ps \in [Nat -> Nat], NEW r \in Seq(Line),
         NEW fr, Stack(fr), Len(fr) # 0, NEW bu, NEW t,
         Reading(ns, c, ps, r, fr, bu, "loop", t),
         r # << >>, NEW gr, Alike(fr, gr),
         AsksFor(fr[Len(fr)], gr[Len(fr)], Head(r)),
         NEW q, Suffix(ns, c + 1, q), NEW at, at = "nested" \/ at = "block", NEW u
  PROVE  Asked(ns, c, ps, Len(fr), Nested(ps, Len(fr), c + 1), q, gr, bu, at, u)
<1> DEFINE n == Len(fr)
           m == n + 1
           k == c + 1
           f == fr[n]
           l == Head(r)
           qs == Nested(ps, n, k)
<1>0. /\ n \in Nat \ {0} /\ n \in 1 .. n /\ Len(gr) = n /\ m \in Nat
      /\ f.indent \in Nat /\ f.kind \in {"map", "seq"}
  BY StackTop DEF Alike
<1>a. /\ l.indent = f.indent
      /\ \/ /\ f.kind = "map" /\ NodeIsPair(l) /\ l.leaf.kind = "pair"
            /\ gr[n].key = l.leaf.key
         \/ f.kind = "seq" /\ NodeIsSeqitem(l)
  BY DEF AsksFor
<1>1. Owners(n, "loop") = n /\ Owners(Len(gr), at) = m
  <2>1. at # "loop"
    OBVIOUS
  <2> HIDE DEF n, m
  <2> QED
    BY <1>0, <2>1 DEF Owners, m
<1>2. /\ Suffix(ns, c, r) /\ Open(ns, c, ps, fr, n) /\ Shaped(ns, c)
      /\ Filled(ns, c, ps, fr, bu, n)
  BY <1>1 DEF Reading
<1>3. /\ c \in Nat /\ c + 1 \in 1 .. Len(ns) /\ c < Len(ns)
      /\ ns[c + 1].col = l.indent
      /\ NodeIsSeqitem(l) <=> ns[c + 1].kind = "dash"
      /\ NodeIsPair(l) <=> Tree!IsEntry(ns[c + 1])
      /\ ~ NodeIsSeqitem(l) => ns[c + 1].kind = l.leaf.kind /\ ns[c + 1].leaf = l.leaf
  <2>1. Len(ns) \in Nat
    BY DEF AreNodes
  <2> QED
    BY <1>2, <2>1, HeadNode
<1>4. Fits(ns[k], f)
  BY <1>3, <1>a DEF Fits
<1>5. Tree!HasRoom(ns, k)
  BY <1>3, <1>a DEF Tree!HasRoom, NodeIsPair, NodeIsSeqitem
<1>6. f.kind = "map" => gr[n].key = ns[k].leaf.key
  BY <1>3, <1>a DEF NodeIsPair, NodeIsSeqitem
<1>7. ChildRead(ns, c, ps, fr)
  BY <1>2, <1>3, <1>4, ReadChild
<1>8. /\ Tree!Parent(ns, k) = ps[n]
      /\ Open(ns, k, ps, fr, n) /\ Shaped(ns, k)
  BY <1>7 DEF ChildRead
<1>9. k \in Nat \ {0}
  BY <1>3
<1>10. \A i \in 1 .. n : ps[i] < k
  <2> SUFFICES ASSUME NEW i \in 1 .. n PROVE ps[i] < k
    OBVIOUS
  <2>1. ps[i] <= c
    BY <1>2 DEF Open
  <2>2. ps[i] \in Nat
    <3>1. i \in Nat
      BY <1>0
    <3> QED
      BY <3>1
  <2> QED
    BY <1>3, <2>1, <2>2
<1>b. NestsIn(ns, k, ps, fr, qs)
  BY <1>5, <1>8, <1>9, <1>10, OpenNest
<1>11. /\ Open(ns, k, qs, fr, m)
       /\ qs \in [Nat -> Nat]
       /\ qs[m] = k
       /\ \A i \in 1 .. n : qs[i] = ps[i]
  BY <1>b DEF NestsIn
<1> HIDE DEF qs
<1>12. Open(ns, k, qs, gr, m)
  <2>1. \A i \in 1 .. Len(gr) : gr[i].kind = fr[i].kind /\ gr[i].indent = fr[i].indent
    BY DEF Alike
  <2>2. m \in 0 .. m /\ Len(gr) \in 0 .. n
    BY <1>0
  <2> QED
    BY <1>0, <1>11, <2>1, <2>2, OpenLess
<1>13. Filled(ns, k, qs, gr, bu, m)
  BY <1>0, <1>2, <1>3, <1>6, <1>11, FilledNest
<1>14. NoPlace(ns, k, k, at) /\ at # "loop" /\ at # "return"
  BY DEF NoPlace
<1> HIDE DEF m, n, k, f, l
<1>15. Reading(ns, k, qs, q, gr, bu, at, u)
  <2>1. Suffix(ns, k, q)
    BY DEF k
  <2> QED
    BY <1>1, <1>8, <1>11, <1>12, <1>13, <1>14, <2>1 DEF Reading
<1> QED
  BY <1>11, <1>15 DEF Asked, qs, k, n

LEMMA OwnerBetween ==
  ASSUME NEW p \in Nat, NEW a \in Nat, NEW c \in Nat, a <= c, p < a
  PROVE  a \in 1 .. c /\ a \in p + 1 .. c /\ a - 1 \in Nat /\ (a - 1) + 1 = a
OBVIOUS

(* The block asked for is bound: its asker is done. *)
LEMMA ReadingResume ==
  ASSUME NEW ns, AreNodes(ns), NEW c, NEW ps \in [Nat -> Nat], NEW r \in Seq(Line),
         NEW fr, Stack(fr), Len(fr) # 0, NEW bu, NEW t,
         Reading(ns, c, ps, r, fr, bu, "return", t),
         NEW gr, Alike(fr, gr), NEW cu,
         FilledGrow(bu, cu, Len(fr),
                    IF fr[Len(fr)].kind = "map" THEN Member(fr[Len(fr)].key, t) ELSE t),
         NEW u
  PROVE  Reading(ns, c, ps, r, gr, cu, "loop", u)
<1> DEFINE n == Len(fr)
           m == n + 1
           p == ps[n]
           a == ps[m]
           f == fr[n]
           x == IF f.kind = "map" THEN Member(f.key, t) ELSE t
<1>0. /\ n \in Nat \ {0} /\ n \in 1 .. n /\ Len(gr) = n
      /\ f.indent \in Nat /\ f.kind \in {"map", "seq"}
  BY StackTop DEF Alike
<1>1. Owners(n, "return") = m /\ Owners(Len(gr), "loop") = n
  BY <1>0 DEF Owners
<1>2. /\ Suffix(ns, c, r) /\ Open(ns, c, ps, fr, m) /\ Shaped(ns, c)
      /\ NoPlace(ns, c, a, "return") /\ Filled(ns, c, ps, fr, bu, m)
      /\ Tree!WellIndented(ns) => t = Val(ns, a)
  BY <1>1 DEF Reading
<1>3. c \in 0 .. Len(ns) /\ c \in Nat
  BY <1>2, SuffixBound
<1>a. m \in Nat /\ n \in 1 .. m /\ m \in 1 .. m /\ n \in 1 .. m - 1 /\ n < m /\ n \in 0 .. m
  <2> HIDE DEF n
  <2> QED
    BY <1>0
<1>4. /\ p \in Nat /\ a \in Nat /\ a <= c /\ p < a
      /\ Tree!Parent(ns, a) = p
      /\ \A j \in a + 1 .. c : Tree!Parent(ns, j) # p
  <2> HIDE DEF m, n
  <2>1. ps[m] <= c /\ ps[n] < ps[m]
    BY <1>2, <1>a DEF Open
  <2>2. m = n + 1
    BY DEF m
  <2>3. /\ Tree!Parent(ns, ps[n + 1]) = ps[n]
        /\ \A j \in ps[n + 1] + 1 .. c : Tree!Parent(ns, j) # ps[n]
    BY <1>2, <1>a DEF Open
  <2> QED
    BY <1>0, <1>a, <2>1, <2>2, <2>3
<1>5. /\ \A j \in 1 .. c : Tree!Parent(ns, j) = p => Fits(ns[j], f)
      /\ \A j \in p + 1 .. c : Under(ns[j], f)
  BY <1>0, <1>2 DEF Open
<1>6. a \in 1 .. c /\ a \in p + 1 .. c /\ a - 1 \in Nat /\ (a - 1) + 1 = a
  <2>1. p \in Nat /\ a \in Nat /\ a <= c /\ p < a /\ c \in Nat
    BY <1>3, <1>4
  <2> HIDE DEF a, p
  <2> QED
    BY <2>1, OwnerBetween
<1>7. Fits(ns[a], f)
  BY <1>4, <1>5, <1>6
<1>8. Open(ns, c, ps, gr, n)
  <2>1. \A i \in 1 .. Len(gr) : gr[i].kind = fr[i].kind /\ gr[i].indent = fr[i].indent
    BY DEF Alike
  <2>2. Len(gr) \in 0 .. Len(fr) /\ Len(fr) \in Nat
    BY <1>0
  <2> QED
    BY <1>a, <1>2, <2>1, <2>2, OpenLess
<1>9. ASSUME Tree!WellIndented(ns), c < Len(ns) PROVE Tree!Parent(ns, c + 1) <= p
  <2>1. c + 1 \in 1 .. Len(ns)
    BY <1>3, <1>9, NextNode
  <2>2. Tree!Parent(ns, c + 1) < a
    BY <1>2, <1>9 DEF NoPlace
  <2> HIDE DEF a, p, f
  <2> QED
    BY <1>0, <1>3, <1>4, <1>5, <1>6, <1>7, <2>1, <2>2, Between
<1>10. NoPlace(ns, c, p, "loop")
  BY <1>9 DEF NoPlace
<1>11. Kids(ns, p, c) = Append(Kids(ns, p, a - 1), a)
  <2>1. Kids(ns, p, c) = Kids(ns, p, a)
    <3> HIDE DEF a, p
    <3> QED
      BY <1>3, <1>4, KidsSkip
  <2>2. Kids(ns, p, (a - 1) + 1) = Append(Kids(ns, p, a - 1), (a - 1) + 1)
    <3> HIDE DEF a, p
    <3> QED
      BY <1>4, <1>6, KidsStep
  <2> QED
    BY <1>6, <2>1, <2>2
<1>12. /\ Collected(ns, Kids(ns, p, a - 1), f.kind, bu[n]) /\ IsSequence(bu[n])
       /\ f.kind = "map" => f.key = ns[a].leaf.key
  <2>1. BoundUpTo(c, ps, n, m) = a - 1
    BY <1>a DEF BoundUpTo
  <2> QED
    BY <1>0, <1>2, <1>a, <2>1 DEF Filled
<1>13. Collected(ns, Kids(ns, p, c), f.kind, cu[n]) /\ IsSequence(cu[n])
  <2>1. Kids(ns, p, a - 1) \in Seq(Nat)
    BY <1>6, KidsStep
  <2>2. f.kind = "map" => x.key = ns[a].leaf.key
    BY <1>12 DEF Member
  <2>3. Tree!WellIndented(ns) => x = Part(ns, a, f.kind)
    BY <1>2, <1>12 DEF Part
  <2>4. cu[n] = Append(bu[n], x)
    BY DEF FilledGrow
  <2> HIDE DEF x, f, p, a, n
  <2> QED
    BY <1>4, <1>11, <1>12, <2>1, <2>2, <2>3, <2>4, CollectedAppend
<1>14. Filled(ns, c, ps, gr, cu, n)
  <2>1. Filled(ns, c, ps, fr, bu, m) /\ FilledGrow(bu, cu, n, x) /\ Alike(fr, gr)
    BY <1>2
  <2>2. n \in Nat \ {0} /\ n = Len(fr) /\ m \in Nat /\ (m = n \/ m = n + 1)
    BY <1>0, <1>a
  <2>3. Collected(ns, Kids(ns, ps[n], c), fr[n].kind, cu[n]) /\ IsSequence(cu[n])
    BY <1>13
  <2> HIDE DEF n, m, x
  <2> QED
    BY <2>1, <2>2, <2>3, FilledMore
<1> HIDE DEF n, m, p, a, f, x
<1> QED
  BY <1>1, <1>2, <1>8, <1>10, <1>14 DEF Reading, p, n

-----------------------------------------------------------------------------
(***************************************************************************)
(* Keys.  While nothing failed the only entries read so far that share a   *)
(* key in one block are in blocks still open: those are compared when      *)
(* their loop ends.                                                        *)
(***************************************************************************)

IsOwner(ps, n, p) == \E i \in 1 .. n : ps[i] = p

Twins(ns, j, k) ==
  /\ j < k /\ Tree!IsEntry(ns[j]) /\ Tree!IsEntry(ns[k])
  /\ ns[j].leaf.key = ns[k].leaf.key
  /\ Tree!Parent(ns, j) = Tree!Parent(ns, k)

NoTwins(ns, c, ps, n) ==
  \A j, k \in 1 .. c : Twins(ns, j, k) => IsOwner(ps, n, Tree!Parent(ns, k))

LEMMA TwinsOpen ==
  ASSUME NEW ns, NEW c \in Nat, NEW ps, NEW qs, NEW n \in Nat, NEW m \in Nat, n <= m,
         NoTwins(ns, c, ps, n), \A i \in 1 .. n : qs[i] = ps[i]
  PROVE  NoTwins(ns, c, qs, m)
<1> SUFFICES ASSUME NEW j \in 1 .. c, NEW k \in 1 .. c, Twins(ns, j, k)
             PROVE  IsOwner(qs, m, Tree!Parent(ns, k))
  BY DEF NoTwins
<1>1. PICK i \in 1 .. n : ps[i] = Tree!Parent(ns, k)
  BY DEF NoTwins, IsOwner
<1>2. i \in 1 .. m /\ qs[i] = Tree!Parent(ns, k)
  BY <1>1
<1> QED
  BY <1>2 DEF IsOwner

LEMMA TwinsRead ==
  ASSUME NEW ns, NEW c \in Nat, NEW ps, NEW n \in Nat, NoTwins(ns, c, ps, n),
         \/ ~ Tree!IsEntry(ns[c + 1])
         \/ n # 0 /\ Tree!Parent(ns, c + 1) = ps[n]
  PROVE  NoTwins(ns, c + 1, ps, n)
<1> SUFFICES ASSUME NEW j \in 1 .. c + 1, NEW k \in 1 .. c + 1, Twins(ns, j, k)
             PROVE  IsOwner(ps, n, Tree!Parent(ns, k))
  BY DEF NoTwins
<1>1. CASE k = c + 1
  <2>1. n # 0 /\ Tree!Parent(ns, k) = ps[n]
    BY <1>1 DEF Twins
  <2>2. n \in 1 .. n
    BY <2>1
  <2> QED
    BY <2>1, <2>2 DEF IsOwner
<1>2. CASE k # c + 1
  <2>1. j < k
    BY DEF Twins
  <2>2. j \in 1 .. c /\ k \in 1 .. c
    BY <1>2, <2>1
  <2> QED
    BY <2>2 DEF NoTwins
<1> QED
  BY <1>1, <1>2

(* A loop whose members have different keys ends. *)
LEMMA TwinsEnd ==
  ASSUME NEW ns, NEW c \in Nat, NEW ps, NEW fr, Stack(fr), Len(fr) # 0, NEW bu,
         Open(ns, c, ps, fr, Len(fr)), Filled(ns, c, ps, fr, bu, Len(fr)),
         NoTwins(ns, c, ps, Len(fr)),
         fr[Len(fr)].kind = "map" => MembersUnique(bu[Len(fr)])
  PROVE  NoTwins(ns, c, ps, Len(fr) - 1)
<1> DEFINE n == Len(fr)
           p == ps[n]
           f == fr[n]
           b == bu[n]
           ks == Kids(ns, p, c)
<1>1. n \in Nat \ {0} /\ n \in 1 .. n /\ f.kind \in {"map", "seq"}
  BY StackTop
<1>2. \A k \in 1 .. c : Tree!Parent(ns, k) = p => Fits(ns[k], f)
  BY <1>1 DEF Open
<1>3. Collected(ns, ks, f.kind, b)
  BY <1>1, FilledTop
<1>4. KidsAre(ks, ns, p, c)
  BY KidsHold
<1>5. f.kind = "map" => MembersUnique(b)
  OBVIOUS
<1> SUFFICES ASSUME NEW j \in 1 .. c, NEW k \in 1 .. c, Twins(ns, j, k)
             PROVE  IsOwner(ps, n - 1, Tree!Parent(ns, k))
  BY DEF NoTwins
<1>6. IsOwner(ps, n, Tree!Parent(ns, k))
  BY DEF NoTwins
<1> HIDE DEF n, f, b, ks, p
<1>7. Tree!Parent(ns, k) # p
  <2> SUFFICES ASSUME Tree!Parent(ns, k) = p PROVE FALSE
    OBVIOUS
  <2>1. /\ Tree!Parent(ns, j) = p /\ j < k
        /\ Tree!IsEntry(ns[j]) /\ ns[j].leaf.key = ns[k].leaf.key
    BY DEF Twins
  <2>2. f.kind = "map"
    <3>1. Fits(ns[j], f)
      BY <1>2, <2>1
    <3> QED
      BY <1>1, <2>1, <3>1 DEF Fits, Tree!IsEntry
  <2>3. PICK x \in 1 .. Len(ks) : ks[x] = j
    BY <1>4, <2>1 DEF KidsAre
  <2>4. PICK y \in 1 .. Len(ks) : ks[y] = k
    BY <1>4 DEF KidsAre
  <2>5. b[x].key = b[y].key /\ Len(b) = Len(ks)
    BY <1>3, <2>1, <2>2, <2>3, <2>4 DEF Collected
  <2>6. x = y
    BY <1>5, <2>2, <2>5 DEF MembersUnique
  <2> QED
    BY <2>1, <2>3, <2>4, <2>6
<1>8. PICK i \in 1 .. n : ps[i] = Tree!Parent(ns, k)
  BY <1>6 DEF IsOwner
<1>9. i # n
  BY <1>7, <1>8 DEF p
<1>10. i \in 1 .. n - 1
  BY <1>1, <1>8, <1>9
<1> QED
  BY <1>8, <1>10 DEF IsOwner

(* The leaf of a node that is no dash, and what it has. *)
LEMMA NodeKey ==
  ASSUME NEW ls \in Seq(Line), NEW k \in 1 .. Len(Tree!Nodes(ls)),
         Tree!IsEntry(Tree!Nodes(ls)[k])
  PROVE  Tree!Nodes(ls)[k].leaf.key \in Keys
<1> DEFINE nd == Tree!Nodes(ls)[k]
<1>1. nd.kind # "dash" /\ nd.kind \in {"pair", "member"}
  BY DEF Tree!IsEntry
<1>2. PICK i \in 1 .. Len(ls) : nd.leaf = ls[i].leaf /\ nd.kind = ls[i].leaf.kind
  BY <1>1, NodeLeaves
<1>3. ls[i] \in Line
  BY ElementOfSeq
<1> HIDE DEF nd
<1>4. nd.leaf.key \in Keys
  BY <1>1, <1>2, <1>3, LineLeaf
<1> QED
  BY <1>4 DEF nd

(* A mapping with two members of one key is in no document. *)
LEMMA TwinsReject ==
  ASSUME NEW ls \in Seq(Line), NEW ns, ns = Tree!Nodes(ls), NEW c \in 0 .. Len(ns),
         NEW ps, NEW fr, Stack(fr), Len(fr) # 0, NEW bu,
         Open(ns, c, ps, fr, Len(fr)), Filled(ns, c, ps, fr, bu, Len(fr)),
         fr[Len(fr)].kind = "map", ~ MembersUnique(bu[Len(fr)])
  PROVE  ~ Tree!Valid(ls)
<1> DEFINE n == Len(fr)
           p == ps[n]
           f == fr[n]
           b == bu[n]
           ks == Kids(ns, p, c)
<1>0. AreNodes(ns) /\ Len(ns) \in Nat
  BY NodesWellTyped DEF AreNodes
<1>1. n \in Nat \ {0} /\ n \in 1 .. n /\ f.kind = "map" /\ c \in Nat
  BY <1>0, StackTop
<1>2. \A k \in 1 .. c : Tree!Parent(ns, k) = p => Fits(ns[k], f)
  BY <1>1 DEF Open
<1>3. Collected(ns, ks, f.kind, b)
  BY <1>1, FilledTop
<1>4. KidsAre(ks, ns, p, c)
  BY <1>1, KidsHold
<1>5. PICK i \in 1 .. Len(b), j \in 1 .. Len(b) : b[i].key = b[j].key /\ i # j
  BY DEF MembersUnique
<1> HIDE DEF n, f, b, ks, p
<1>6. PICK x \in 1 .. Len(ks), y \in 1 .. Len(ks) :
        x < y /\ ns[ks[x]].leaf.key = ns[ks[y]].leaf.key
  <2>1. i \in 1 .. Len(ks) /\ j \in 1 .. Len(ks) /\ (i < j \/ j < i)
    BY <1>3, <1>5 DEF Collected
  <2>2. ns[ks[i]].leaf.key = ns[ks[j]].leaf.key
    BY <1>1, <1>3, <1>5, <2>1 DEF Collected
  <2> QED
    BY <2>1, <2>2
<1> DEFINE u == ks[x]
           v == ks[y]
<1>7. /\ u \in 1 .. c /\ v \in 1 .. c /\ u < v
      /\ Tree!Parent(ns, u) = p /\ Tree!Parent(ns, v) = p
  BY <1>4, <1>6 DEF KidsAre
<1>8. ns[u].leaf.key = ns[v].leaf.key
  BY <1>6
<1> HIDE DEF u, v
<1>9. /\ Tree!IsEntry(ns[u]) /\ Tree!IsEntry(ns[v]) /\ ns[u].col = ns[v].col
  BY <1>1, <1>2, <1>7 DEF Fits
<1>10. u \in DOMAIN ns /\ v \in DOMAIN ns /\ u \in 1 .. Len(ns)
  <2>1. u \in 1 .. Len(ns) /\ v \in 1 .. Len(ns)
    BY <1>0, <1>7
  <2> QED
    BY <1>0, <2>1 DEF AreNodes
<1>11. ns[u].leaf.key \in Keys
  BY <1>9, <1>10, NodeKey
<1>12. Tree!Repeated(ns, ns[u].leaf.key)
  BY <1>7, <1>8, <1>9, <1>10 DEF Tree!Repeated
<1> QED
  BY <1>11, <1>12 DEF Tree!Valid

(* Without twins no key is repeated. *)
LEMMA NoTwinsNoRepeat ==
  ASSUME NEW ns, AreNodes(ns), NEW ps, NoTwins(ns, Len(ns), ps, 0), NEW key
  PROVE  ~ Tree!Repeated(ns, key)
<1> SUFFICES ASSUME Tree!Repeated(ns, key) PROVE FALSE
  OBVIOUS
<1>0. DOMAIN ns = 1 .. Len(ns)
  BY DEF AreNodes
<1>1. PICK i \in DOMAIN ns, j \in DOMAIN ns :
        /\ i < j /\ Tree!IsEntry(ns[i]) /\ Tree!IsEntry(ns[j])
        /\ Tree!Parent(ns, i) = Tree!Parent(ns, j) /\ ns[i].col = ns[j].col
        /\ ns[i].leaf.key = key /\ ns[j].leaf.key = key
  BY DEF Tree!Repeated
<1>2. Twins(ns, i, j)
  BY <1>1 DEF Twins
<1>3. IsOwner(ps, 0, Tree!Parent(ns, j))
  BY <1>0, <1>2 DEF NoTwins
<1> QED
  BY <1>3 DEF IsOwner

-----------------------------------------------------------------------------
(* The end. *)

LEMMA ReadingFinish ==
  ASSUME NEW ns, AreNodes(ns), NEW c, NEW ps \in [Nat -> Nat], NEW r \in Seq(Line),
         r = << >>, NEW fr, Len(fr) = 0, NEW bu, NEW t,
         Reading(ns, c, ps, r, fr, bu, "return", t)
  PROVE  c = Len(ns) /\ Tree!WellIndented(ns) /\ t = Tree!Values(ns)[0]
<1>1. Owners(Len(fr), "return") = 1
  BY DEF Owners
<1>2. /\ Suffix(ns, c, r) /\ Open(ns, c, ps, fr, 1) /\ Shaped(ns, c)
      /\ Tree!WellIndented(ns) => t = Val(ns, ps[1])
  BY <1>1 DEF Reading
<1>3. c = Len(ns)
  BY <1>2, SuffixEnd DEF AreNodes
<1>4. Tree!WellIndented(ns)
  BY <1>2, <1>3, WellIndentedIs
<1>5. ps[1] = 0
  BY <1>2 DEF Open
<1> QED
  BY <1>2, <1>3, <1>4, <1>5 DEF Val

LEMMA ReadingLeft ==
  ASSUME NEW ns, AreNodes(ns), NEW c, NEW ps \in [Nat -> Nat], NEW r \in Seq(Line),
         r # << >>, NEW fr, Len(fr) = 0, NEW bu, NEW t,
         Reading(ns, c, ps, r, fr, bu, "return", t)
  PROVE  ~ Tree!WellIndented(ns)
<1> SUFFICES ASSUME Tree!WellIndented(ns) PROVE FALSE
  OBVIOUS
<1>1. Owners(Len(fr), "return") = 1
  BY DEF Owners
<1>2. /\ Suffix(ns, c, r) /\ Open(ns, c, ps, fr, 1) /\ NoPlace(ns, c, ps[1], "return")
  BY <1>1 DEF Reading
<1>3. c + 1 \in 1 .. Len(ns) /\ c < Len(ns) /\ c \in Nat
  BY <1>2, HeadNode DEF AreNodes
<1>4. ps[1] = 0
  BY <1>2 DEF Open
<1>5. Tree!Parent(ns, c + 1) < 0
  BY <1>2, <1>3, <1>4 DEF NoPlace
<1>6. Tree!Parent(ns, c + 1) \in 0 .. (c + 1) - 1
  BY <1>3, ParentIs
<1> QED
  BY <1>5, <1>6

LEMMA ReadingNothing ==
  ASSUME NEW ns, AreNodes(ns), NEW c, NEW ps \in [Nat -> Nat], NEW r \in Seq(Line),
         r = << >>, NEW fr, Len(fr) = 0, NEW bu, NEW t,
         Reading(ns, c, ps, r, fr, bu, "start", t)
  PROVE  c = Len(ns) /\ Tree!WellIndented(ns) /\ Tree!Values(ns)[0] = Null
<1>1. Owners(Len(fr), "start") = 1
  BY DEF Owners
<1>2. /\ Suffix(ns, c, r) /\ Open(ns, c, ps, fr, 1) /\ ps[1] = c /\ Shaped(ns, c)
  BY <1>1 DEF Reading
<1>3. c = Len(ns) /\ c = 0
  BY <1>2, SuffixEnd DEF AreNodes, Open
<1>4. Tree!WellIndented(ns)
  BY <1>2, <1>3, WellIndentedIs
<1>5. Val(ns, 0) = Tree!BlockOf(ns, Kids(ns, 0, 0), Tree!Values(ns))
  <2>1. 0 \in 0 .. Len(ns) /\ 0 \in 0 .. 0 /\ ~ 0 < Len(ns) /\ Tree!HasRoom(ns, 0)
    BY <1>3 DEF Tree!HasRoom
  <2> QED
    BY <1>4, <2>1, BlockDone
<1>6. Kids(ns, 0, 0) = << >>
  BY KidsStep
<1> QED
  BY <1>3, <1>4, <1>5, <1>6 DEF Val, Tree!BlockOf, Tree!Null, Null

(* Every leaf decoded. *)
LEMMA LeavesOk ==
  ASSUME NEW ls \in Seq(Line), \A i \in 1 .. Len(ls) : ~ BadLeaf(ls[i].leaf)
  PROVE  \A k \in DOMAIN Tree!Nodes(ls) : Tree!LeafOk(Tree!Nodes(ls)[k])
<1> SUFFICES ASSUME NEW k \in DOMAIN Tree!Nodes(ls) PROVE Tree!LeafOk(Tree!Nodes(ls)[k])
  OBVIOUS
<1> DEFINE nd == Tree!Nodes(ls)[k]
<1>1. k \in 1 .. Len(Tree!Nodes(ls))
  BY NodesWellTyped DEF AreNodes
<1>2. CASE nd.kind = "dash"
  BY <1>2 DEF Tree!LeafOk
<1>3. CASE nd.kind # "dash"
  <2>1. PICK i \in 1 .. Len(ls) : nd.leaf = ls[i].leaf /\ nd.kind = ls[i].leaf.kind
    BY <1>1, <1>3, NodeLeaves
  <2>2. ~ BadLeaf(ls[i].leaf)
    OBVIOUS
  <2> HIDE DEF nd
  <2>3. Tree!LeafOk(nd)
    BY <2>1, <2>2 DEF BadLeaf, Tree!LeafOk
  <2> QED
    BY <2>3 DEF nd
<1> QED
  BY <1>2, <1>3

(* A bad leaf that was read is in no document. *)
LEMMA BadLeafRejects ==
  ASSUME NEW ls \in Seq(Line), NEW c, NEW r \in Seq(Line), r # << >>,
         Suffix(Tree!Nodes(ls), c, r), ~ NodeIsSeqitem(Head(r)), BadLeaf(Head(r).leaf)
  PROVE  ~ Tree!Valid(ls)
<1> DEFINE ns == Tree!Nodes(ls)
<1>1. AreNodes(ns) /\ Len(ns) \in Nat
  BY NodesWellTyped DEF AreNodes
<1>2. /\ c + 1 \in 1 .. Len(ns)
      /\ ns[c + 1].kind = Head(r).leaf.kind /\ ns[c + 1].leaf = Head(r).leaf
  BY <1>1, HeadNode
<1>3. c + 1 \in DOMAIN ns
  BY <1>1, <1>2 DEF AreNodes
<1>4. ~ Tree!LeafOk(ns[c + 1])
  BY <1>2 DEF BadLeaf, Tree!LeafOk
<1> QED
  BY <1>3, <1>4 DEF Tree!Valid

-----------------------------------------------------------------------------
(***************************************************************************)
(* The steps of the descent.                                               *)
(***************************************************************************)

(* The state of the descent after c nodes, whose open owners are ps. *)
Tracked(c, ps) ==
  /\ Reading(Tree!Nodes(lines), c, ps, rest, frames, built, pc, blk.type)
  /\ ~ Failing => NoTwins(Tree!Nodes(lines), c, ps, Len(frames))

Follows == \E c \in Nat : \E ps \in [Nat -> Nat] : Tracked(c, ps)

LEMMA LinesAreNodes ==
  ASSUME TypeOK
  PROVE  /\ lines \in Seq(Line) /\ rest \in Seq(Line)
         /\ AreNodes(Tree!Nodes(lines)) /\ Len(Tree!Nodes(lines)) \in Nat
<1>1. lines \in Seq(Line) /\ rest \in Seq(Line)
  BY DocsAssumption DEF TypeOK
<1>2. AreNodes(Tree!Nodes(lines))
  BY <1>1, NodesWellTyped
<1>3. Len(Tree!Nodes(lines)) \in Nat
  BY <1>2 DEF AreNodes
<1> QED
  BY <1>1, <1>2, <1>3

LEMMA FramesStack ==
  ASSUME TypeOK, NestingFollowsIndent
  PROVE  Stack(frames) /\ Len(frames) \in Nat
<1>1. /\ Len(frames) \in Nat
      /\ \A j \in 1 .. Len(frames) : frames[j] \in Frame
  BY FrameTypes
<1>2. \A j \in 1 .. Len(frames) :
        frames[j].indent \in Nat /\ frames[j].kind \in {"map", "seq"}
  BY <1>1 DEF Frame
<1>3. \A i, j \in 1 .. Len(frames) : i < j => Inside(frames[i], frames[j])
  BY DEF NestingFollowsIndent
<1> QED
  BY <1>1, <1>2, <1>3 DEF Stack

LEMMA FramesTop ==
  ASSUME TypeOK, frames # << >>
  PROVE  /\ Len(frames) # 0 /\ Len(frames) \in Nat \ {0}
         /\ Top = frames[Len(frames)]
         /\ Len(built) = Len(frames) /\ IsSequence(built)
BY TopFrame DEF TypeOK, Top

LEMMA FollowsNext ==
  ASSUME NEW ns, ns = Tree!Nodes(lines), lines' = lines,
         NEW d \in Nat, NEW qs \in [Nat -> Nat],
         Reading(ns, d, qs, rest', frames', built', pc', blk'.type),
         ~ Failing' => NoTwins(ns, d, qs, Len(frames'))
  PROVE  Follows'
<1>1. Tree!Nodes(lines') = ns
  OBVIOUS
<1>2. Tracked(d, qs)'
  BY <1>1 DEF Tracked
<1> QED
  BY <1>2 DEF Follows

(* A loop is entered. *)
LEMMA StepEnter ==
  ASSUME TypeOK, NestingFollowsIndent, NEW ns, ns = Tree!Nodes(lines),
         NEW c \in Nat, NEW ps \in [Nat -> Nat],
         Reading(ns, c, ps, rest, frames, built, pc, blk.type),
         ~ Failing' => NoTwins(ns, c, ps, Len(frames)),
         pc = "block" \/ pc = "nested",
         NEW k \in {"map", "seq"}, NEW a \in Nat, Enter(k, a),
         Over(ns, c, FrameOf(k, a, TRUE, NoKey))
  PROVE  Follows'
<1>1. /\ AreNodes(ns) /\ rest \in Seq(Line) /\ Stack(frames) /\ Len(frames) \in Nat
  BY LinesAreNodes, FramesStack
<1>2. /\ Len(frames') = Len(frames) + 1
      /\ \A j \in 1 .. Len(frames) : frames'[j] = frames[j]
      /\ frames'[Len(frames) + 1] = FrameOf(k, a, TRUE, NoKey)
  BY EnterFrames
<1>3. /\ \A j \in 1 .. Len(frames) : built'[j] = built[j]
      /\ built'[Len(frames) + 1] = << >>
  <2>1. IsSequence(built) /\ Len(built) = Len(frames)
    BY DEF TypeOK
  <2>2. built' = Append(built, << >>)
    BY DEF Enter
  <2>3. /\ \A j \in 1 .. Len(built) : built'[j] = built[j]
        /\ built'[Len(built) + 1] = << >>
    BY <2>1, <2>2, SequenceAppend
  <2> QED
    BY <2>1, <2>3
<1>4. Over(ns, c, frames'[Len(frames) + 1])
  BY <1>2
<1>5. Reading(ns, c, ps, rest, frames', built', "loop", blk'.type)
  BY <1>1, <1>2, <1>3, <1>4, ReadingEnter
<1>6. rest' = rest /\ pc' = "loop" /\ lines' = lines
  BY DEF Enter
<1>7. ASSUME ~ Failing' PROVE NoTwins(ns, c, ps, Len(frames'))
  <2> DEFINE n == Len(frames)
             m == Len(frames')
  <2>1. n \in Nat /\ m \in Nat /\ n <= m
    <3> HIDE DEF n, m
    <3>1. n \in Nat /\ m = n + 1
      BY <1>1, <1>2 DEF n, m
    <3> QED
      BY <3>1
  <2>2. NoTwins(ns, c, ps, n)
    BY <1>7
  <2> HIDE DEF n, m
  <2>3. NoTwins(ns, c, ps, m)
    BY <2>1, <2>2, TwinsOpen
  <2> QED
    BY <2>3 DEF m
<1> QED
  BY <1>5, <1>6, <1>7, FollowsNext

LEMMA StepParseBlock ==
  ASSUME TypeOK, NestingFollowsIndent, NEW ns, ns = Tree!Nodes(lines),
         NEW c \in Nat, NEW ps \in [Nat -> Nat],
         Reading(ns, c, ps, rest, frames, built, pc, blk.type),
         ~ Failing' => NoTwins(ns, c, ps, Len(frames)),
         ParseBlockPair \/ ParseBlockSeqitem
  PROVE  Follows'
<1>1. /\ AreNodes(ns) /\ rest \in Seq(Line) /\ Stack(frames) /\ Len(frames) \in Nat
      /\ Len(ns) \in Nat
  BY LinesAreNodes, FramesStack
<1>2. pc = "block" /\ rest # << >>
  BY DEF ParseBlockPair, ParseBlockSeqitem
<1>3. Current.indent \in Nat /\ Current = Head(rest)
  BY <1>1, <1>2, RestHeadTail DEF Current
<1>4. PICK k \in {"map", "seq"} : Enter(k, Current.indent)
  BY DEF ParseBlockPair, ParseBlockSeqitem
<1>5. Suffix(ns, c, rest)
  BY DEF Reading
<1>6. c + 1 \in 1 .. Len(ns) /\ ns[c + 1].col = Current.indent
  BY <1>1, <1>2, <1>3, <1>5, HeadNode
<1>7. Open(ns, c, ps, frames, Len(frames) + 1) /\ ps[Len(frames) + 1] = c
  BY <1>2 DEF Reading, Owners
<1>8. \A i \in 1 .. Len(frames) : frames[i].indent < ns[c + 1].col
  BY <1>2, <1>6 DEF NestingFollowsIndent
<1>9. c = 0 \/ ns[c].col < ns[c + 1].col
  BY <1>1, <1>6, <1>7, <1>8, AskerEncloses
<1>10. Over(ns, c, FrameOf(k, Current.indent, TRUE, NoKey))
  BY <1>6, <1>9 DEF Over, FrameOf
<1> QED
  BY <1>2, <1>3, <1>4, <1>10, StepEnter

(* The node that asked nested_value for a block. *)
LEMMA Asker ==
  ASSUME TypeOK, NestingFollowsIndent, NEW ns, ns = Tree!Nodes(lines),
         NEW c \in Nat, NEW ps \in [Nat -> Nat],
         Reading(ns, c, ps, rest, frames, built, pc, blk.type), pc = "nested"
  PROVE  /\ c # 0 /\ Len(frames) # 0
         /\ Fits(ns[c], frames[Len(frames)])
<1>1. AreNodes(ns) /\ Stack(frames) /\ Len(frames) \in Nat
  BY LinesAreNodes, FramesStack
<1>2. frames # << >>
  BY DEF TypeOK
<1>3. Len(frames) \in Nat \ {0}
  BY <1>2, TopFrame
<1>4. Open(ns, c, ps, frames, Len(frames) + 1) /\ ps[Len(frames) + 1] = c
  BY DEF Reading, Owners
<1>5. c # 0
  <2> DEFINE m == Len(frames) + 1
  <2>1. 1 \in 1 .. m /\ m \in 1 .. m /\ 1 < m
    BY <1>3
  <2>2. ps[1] = 0 /\ ps[1] < ps[m]
    BY <1>4, <2>1 DEF Open
  <2> QED
    BY <1>4, <2>2
<1>6. Fits(ns[c], frames[Len(frames)])
  <2>1. c \in Nat \ {0}
    BY <1>5
  <2> QED
    BY <1>1, <1>4, <2>1, AskerFits
<1> QED
  BY <1>3, <1>5, <1>6

LEMMA StepSameIndentSeq ==
  ASSUME TypeOK, NestingFollowsIndent, NEW ns, ns = Tree!Nodes(lines),
         NEW c \in Nat, NEW ps \in [Nat -> Nat],
         Reading(ns, c, ps, rest, frames, built, pc, blk.type),
         ~ Failing' => NoTwins(ns, c, ps, Len(frames)),
         NestedSameIndentSeq
  PROVE  Follows'
<1>1. /\ pc = "nested" /\ Top.kind = "map"
      /\ Enter("seq", Top.indent)
  BY DEF NestedSameIndentSeq, SameIndentSeq
<1>2. frames # << >>
  BY <1>1 DEF TypeOK
<1>3. Top.indent \in Nat /\ Top = frames[Len(frames)]
  BY <1>2, TopFrame DEF Top
<1>4. Fits(ns[c], Top)
  BY <1>1, <1>3, Asker
<1>5. Over(ns, c, FrameOf("seq", Top.indent, TRUE, NoKey))
  BY <1>1, <1>4 DEF Fits, Over, FrameOf
<1> QED
  BY <1>1, <1>3, <1>5, StepEnter

(* parse_block binds a value. *)
LEMMA StepValue ==
  ASSUME TypeOK, NestingFollowsIndent, NEW ns, ns = Tree!Nodes(lines),
         NEW c \in Nat, NEW ps \in [Nat -> Nat],
         Reading(ns, c, ps, rest, frames, built, pc, blk.type),
         ~ Failing' => NoTwins(ns, c, ps, Len(frames)),
         ParseBlockValue
  PROVE  Follows'
<1>1. /\ AreNodes(ns) /\ rest \in Seq(Line) /\ Stack(frames) /\ Len(ns) \in Nat
      /\ Len(frames) \in Nat
  BY LinesAreNodes, FramesStack
<1>2. /\ pc = "block" /\ rest # << >> /\ Current = Head(rest)
      /\ ~ NodeIsPair(Head(rest)) /\ ~ NodeIsSeqitem(Head(rest))
      /\ rest' = Tail(rest) /\ pc' = "return" /\ lines' = lines
      /\ blk'.type = Head(rest).leaf.val
      /\ frames' = frames /\ built' = built
  BY DEF ParseBlockValue, Answer, Current
<1>3. \A i \in 1 .. Len(frames) : frames[i].indent < Head(rest).indent
  BY <1>2 DEF NestingFollowsIndent
<1>4. Reading(ns, c + 1, ps, Tail(rest), frames, built, "return", Head(rest).leaf.val)
  BY <1>1, <1>2, <1>3, ReadingValue
<1>5. ~ Tree!IsEntry(ns[c + 1])
  <2>1. Suffix(ns, c, rest)
    BY DEF Reading
  <2> QED
    BY <1>1, <1>2, <2>1, HeadNode
<1>6. ~ Failing' => NoTwins(ns, c + 1, ps, Len(frames'))
  BY <1>1, <1>2, <1>5, TwinsRead
<1>7. c + 1 \in Nat
  OBVIOUS
<1> QED
  BY <1>2, <1>4, <1>6, <1>7, FollowsNext

(* make and nested_value ask for a block, which is not read yet. *)
LEMMA StepAsk ==
  ASSUME TypeOK, NEW ns, ns = Tree!Nodes(lines),
         NEW c \in Nat, NEW ps \in [Nat -> Nat],
         Reading(ns, c, ps, rest, frames, built, pc, blk.type),
         ~ Failing' => NoTwins(ns, c, ps, Len(frames)),
         BindBody \/ NestedDeeper
  PROVE  Follows'
<1>1. /\ pc = "start" \/ pc = "nested"
      /\ pc' = "block" /\ lines' = lines /\ rest' = rest /\ blk' = blk
      /\ frames' = frames /\ built' = built
  BY DEF BindBody, NestedDeeper
<1>2. Reading(ns, c, ps, rest, frames, built, "block", blk.type)
  BY <1>1, ReadingBlock
<1> QED
  BY <1>1, <1>2, FollowsNext

(* nested_value finds nothing. *)
LEMMA StepNull ==
  ASSUME TypeOK, NestingFollowsIndent, NEW ns, ns = Tree!Nodes(lines),
         NEW c \in Nat, NEW ps \in [Nat -> Nat],
         Reading(ns, c, ps, rest, frames, built, pc, blk.type),
         ~ Failing' => NoTwins(ns, c, ps, Len(frames)),
         NestedNull
  PROVE  Follows'
<1>1. /\ AreNodes(ns) /\ rest \in Seq(Line) /\ Stack(frames) /\ Len(ns) \in Nat
  BY LinesAreNodes, FramesStack
<1>2. /\ pc = "nested"
      /\ rest' = rest /\ pc' = "return" /\ lines' = lines /\ blk'.type = Null
      /\ frames' = frames /\ built' = built
      /\ rest # << >> => ~ Current.indent > Top.indent /\ ~ SameIndentSeq
  BY DEF NestedNull, Answer
<1>3. frames # << >>
  BY <1>2 DEF TypeOK
<1>4. /\ Top.indent \in Nat /\ Top.kind \in {"map", "seq"}
      /\ Top = frames[Len(frames)]
  BY <1>3, TopFrame DEF Top
<1>5. c # 0 /\ Len(frames) # 0 /\ Fits(ns[c], Top)
  BY <1>2, <1>4, Asker
<1>6. ASSUME c < Len(ns) PROVE ~ Tree!Encloses(ns[c], ns[c + 1])
  <2>1. Suffix(ns, c, rest)
    BY DEF Reading
  <2>2. rest # << >>
    BY <1>1, <1>6, <2>1, SuffixEnd
  <2>3. /\ ns[c + 1].col = Current.indent
        /\ NodeIsSeqitem(Current) <=> ns[c + 1].kind = "dash"
    BY <1>1, <2>1, <2>2, HeadNode DEF Current
  <2>4. Current.indent \in Nat
    BY <1>1, <2>2, RestHeadTail
  <2>5. ~ Current.indent > Top.indent /\ ~ SameIndentSeq
    BY <1>2, <2>2
  <2>6. ns[c].col = Top.indent
    BY <1>5 DEF Fits
  <2>7. ~ ns[c].col < ns[c + 1].col
    BY <1>4, <2>3, <2>4, <2>5, <2>6
  <2>8. Tree!IsEntry(ns[c]) => Top.kind = "map"
    BY <1>4, <1>5 DEF Fits, Tree!IsEntry
  <2>9. ~ (ns[c].col = ns[c + 1].col /\ Tree!IsEntry(ns[c]) /\ ns[c + 1].kind = "dash")
    BY <2>3, <2>5, <2>6, <2>8 DEF SameIndentSeq
  <2> QED
    BY <2>7, <2>9 DEF Tree!Encloses
<1>7. Reading(ns, c, ps, rest, frames, built, "return", Null)
  BY <1>1, <1>2, <1>5, <1>6, ReadingNull
<1> QED
  BY <1>2, <1>7, FollowsNext

EntryNext ==
  /\ rest # << >>
  /\ Current.indent = Top.indent
  /\ IF Top.kind = "map" THEN NodeIsPair(Current) ELSE NodeIsSeqitem(Current)

(* No loop is left without an entry. *)
LEMMA LoopHasEntry ==
  ASSUME TypeOK, LoopsHaveEntries, pc = "loop", ~ EntryNext
  PROVE  frames # << >> /\ built[Len(frames)] # << >>
<1>1. frames # << >>
  BY DEF TypeOK
<1>2. Len(built) = Len(frames) /\ Top.kind \in {"map", "seq"}
  BY <1>1, TopFrame DEF TypeOK
<1>3. built[Len(built)] # << >>
  BY DEF LoopsHaveEntries, EntryNext
<1> QED
  BY <1>1, <1>2, <1>3

(* A deeper line after the entries of a loop. *)
LEMMA StepDeeper ==
  ASSUME TypeOK, NestingFollowsIndent, LoopsHaveEntries,
         NEW ns, ns = Tree!Nodes(lines),
         NEW c \in Nat, NEW ps \in [Nat -> Nat],
         Reading(ns, c, ps, rest, frames, built, pc, blk.type),
         LoopDeeper
  PROVE  ~ Tree!WellIndented(ns)
<1>1. /\ AreNodes(ns) /\ rest \in Seq(Line) /\ Stack(frames)
  BY LinesAreNodes, FramesStack
<1>2. pc = "loop" /\ rest # << >> /\ Current.indent > Top.indent /\ Current = Head(rest)
  BY DEF LoopDeeper, Deeper, Current
<1>3. frames # << >>
  BY <1>2 DEF TypeOK
<1>4. Top.indent \in Nat /\ Current.indent \in Nat
  BY <1>1, <1>2, <1>3, RestHeadTail, TopFrame
<1>5. ~ EntryNext
  BY <1>2, <1>4 DEF EntryNext
<1>6. built[Len(frames)] # << >>
  BY <1>2, <1>5, LoopHasEntry
<1>7. Len(frames) # 0 /\ Top = frames[Len(frames)]
  BY <1>3, FramesTop
<1> QED
  BY <1>1, <1>2, <1>6, <1>7, ReadingDeeper

(* A loop ends. *)
LEMMA StepEnd ==
  ASSUME TypeOK, NestingFollowsIndent, LoopsHaveEntries,
         NEW ns, ns = Tree!Nodes(lines),
         NEW c \in Nat, NEW ps \in [Nat -> Nat],
         Reading(ns, c, ps, rest, frames, built, pc, blk.type),
         ~ Failing' => NoTwins(ns, c, ps, Len(frames)),
         MapEnd \/ SeqEnd
  PROVE  Follows'
<1> DEFINE n == Len(frames)
           b == built[n]
<1>1. /\ AreNodes(ns) /\ rest \in Seq(Line) /\ Stack(frames) /\ Len(frames) \in Nat
  BY LinesAreNodes, FramesStack
<1>2. /\ pc = "loop"
      /\ rest # << >> => \/ Current.indent < Top.indent
                         \/ Top.kind = "map" /\ ~ NodeIsPair(Current)
                         \/ Top.kind = "seq" /\ ~ NodeIsSeqitem(Current)
  BY DEF MapEnd, SeqEnd, MapEnds, SeqEnds
<1>3. frames # << >>
  BY <1>2 DEF TypeOK
<1>4. /\ n # 0 /\ n \in Nat /\ n \in Nat \ {0} /\ Top = frames[n] /\ Len(built) = n
      /\ IsSequence(built)
  BY <1>3, FramesTop
<1>5. b # << >>
  <2>1. Top.indent \in Nat
    BY <1>3, TopFrame
  <2>2. rest # << >> => Current.indent \in Nat
    BY <1>1, RestHeadTail
  <2>3. ~ EntryNext
    BY <1>2, <2>1, <2>2 DEF EntryNext
  <2> QED
    BY <1>2, <2>3, LoopHasEntry
<1>6. \/ /\ Top.kind = "map"
         /\ Leave(Mapping(b), Top.ok /\ MembersUnique(b), rest)
      \/ /\ Top.kind = "seq"
         /\ Leave(Sequence(b), Top.ok, rest)
  BY <1>4 DEF MapEnd, SeqEnd
<1>7. PICK ok : Leave(LoopBlock(Top, b), ok, rest) /\ (ok /\ Top.kind = "map" => MembersUnique(b))
  <2> HIDE DEF b
  <2>1. CASE Top.kind = "map"
    BY <1>6, <2>1 DEF LoopBlock
  <2>2. CASE Top.kind = "seq"
    BY <1>6, <2>2 DEF LoopBlock
  <2> QED
    BY <1>6, <2>1, <2>2
<1>8. /\ Len(frames') = n - 1
      /\ \A j \in 1 .. Len(frames') : frames'[j] = frames[j]
  <2>1. /\ Len(frames') \in Nat /\ Len(frames) = Len(frames') + 1
        /\ \A j \in 1 .. Len(frames') : frames'[j] = frames[j]
    BY <1>3, <1>7, LeaveFrames
  <2> DEFINE m == Len(frames')
  <2>2. m \in Nat /\ n = m + 1
    BY <2>1
  <2> HIDE DEF m, n
  <2>3. m = n - 1
    BY <2>2
  <2> QED
    BY <2>1, <2>3 DEF m
<1>9. \A j \in 1 .. Len(frames') : built'[j] = built[j]
  <2>1. built # << >>
    BY <1>4, EmptySeq
  <2>2. LET a == SubSeq(built, 1, Len(built) - 1)
        IN  Len(a) = Len(built) - 1 /\ \A j \in 1 .. Len(a) : a[j] = built[j]
    BY <1>4, <2>1, SequenceFront
  <2>3. built' = SubSeq(built, 1, Len(built) - 1)
    BY <1>7 DEF Leave
  <2> QED
    BY <1>4, <1>8, <2>2, <2>3
<1>10. /\ rest' = rest /\ pc' = "return" /\ lines' = lines
       /\ blk' = [type |-> LoopBlock(Top, b), ok |-> ok]
  BY <1>7 DEF Leave, Answer
<1>11. Reading(ns, c, ps, rest, frames', built', "return", LoopBlock(frames[n], b))
  <2>1. rest # << >> =>
          \/ Head(rest).indent < frames[n].indent
          \/ frames[n].kind = "map" /\ ~ NodeIsPair(Head(rest))
          \/ frames[n].kind = "seq" /\ ~ NodeIsSeqitem(Head(rest))
    BY <1>2, <1>4 DEF Current
  <2>2. Reading(ns, c, ps, rest, frames, built, "loop", blk.type)
    BY <1>2
  <2> QED
    BY <1>1, <1>4, <1>5, <1>8, <1>9, <2>1, <2>2, ReadingEnd
<1>12. ASSUME ~ Failing' PROVE NoTwins(ns, c, ps, Len(frames'))
  <2>1. ok
    BY <1>10, <1>12 DEF Failing
  <2>2. frames[n].kind = "map" => MembersUnique(built[n])
    BY <1>4, <1>7, <2>1
  <2>3. Open(ns, c, ps, frames, Len(frames)) /\ Filled(ns, c, ps, frames, built, Len(frames))
    <3>1. Owners(Len(frames), pc) = Len(frames)
      BY <1>2, <1>4 DEF Owners
    <3> QED
      BY <3>1 DEF Reading
  <2>4. NoTwins(ns, c, ps, Len(frames) - 1)
    BY <1>1, <1>4, <1>12, <2>2, <2>3, TwinsEnd
  <2> QED
    BY <1>8, <2>4
<1> QED
  BY <1>4, <1>10, <1>11, <1>12, FollowsNext

-----------------------------------------------------------------------------
LEMMA AlikeSelf ==
  ASSUME NEW fr
  PROVE  Alike(fr, fr)
BY DEF Alike

LEMMA FoldAlike ==
  ASSUME TypeOK, frames # << >>, NEW ok \in BOOLEAN,
         NEW key \in Keys \cup {NoKey}, Fold(ok, key)
  PROVE  Alike(frames, frames') /\ frames'[Len(frames)].key = key
<1>1. /\ Len(frames') = Len(frames)
      /\ \A j \in 1 .. Len(frames) :
           /\ frames'[j].kind = frames[j].kind
           /\ frames'[j].indent = frames[j].indent
           /\ j # Len(frames) => frames'[j] = frames[j]
      /\ frames'[Len(frames)].key = key
  BY FoldFrames
<1>2. ASSUME NEW j \in 1 .. Len(frames) - 1 PROVE frames'[j].key = frames[j].key
  <2> DEFINE n == Len(frames)
  <2>1. n \in Nat
    BY FrameTypes
  <2> HIDE DEF n
  <2>2. j \in 1 .. n /\ j # n
    BY <2>1 DEF n
  <2> QED
    BY <1>1, <2>2 DEF n
<1> QED
  BY <1>1, <1>2 DEF Alike

LEMMA CollectAlike ==
  ASSUME TypeOK, frames # << >>, NEW x, NEW ok \in BOOLEAN, Collect(x, ok)
  PROVE  /\ Alike(frames, frames')
         /\ FilledGrow(built, built', Len(frames), x)
         /\ pc' = "loop"
<1> DEFINE n == Len(frames)
           b == Append(built[n], x)
           S == {built[i] : i \in DOMAIN built} \cup {b}
<1>1. n \in Nat /\ n \in 1 .. n /\ Len(built) = n
  BY TopFrame DEF TypeOK
<1>2. built \in Seq(S)
  BY SeqMonotonic DEF TypeOK, IsSequence
<1>3. built' = [built EXCEPT ![n] = b] /\ Fold(ok, NoKey) /\ pc' = "loop"
  BY <1>1 DEF Collect
<1>4. b \in S
  OBVIOUS
<1>5. Alike(frames, frames')
  BY <1>3, FoldAlike
<1> HIDE DEF b, S
<1>6. \A j \in 1 .. n : built'[j] = IF j = n THEN b ELSE built[j]
  BY <1>1, <1>2, <1>3, <1>4, ExceptSeq
<1> HIDE DEF n
<1>7. built'[n] = b /\ \A j \in 1 .. n - 1 : built'[j] = built[j]
  BY <1>1, <1>6
<1>8. FilledGrow(built, built', n, x)
  BY <1>7 DEF FilledGrow, b
<1> QED
  BY <1>3, <1>5, <1>8 DEF n

(* The head line is an entry of the mapping on top. *)
LEMMA EntryIsChild ==
  ASSUME TypeOK, NestingFollowsIndent, NEW ns, ns = Tree!Nodes(lines),
         NEW c \in Nat, NEW ps \in [Nat -> Nat],
         Reading(ns, c, ps, rest, frames, built, "loop", blk.type),
         frames # << >>, EntryNext
  PROVE  /\ Tree!Parent(ns, c + 1) = ps[Len(frames)]
         /\ c + 1 \in 1 .. Len(ns)
         /\ Top.kind = "seq" => ~ Tree!IsEntry(ns[c + 1])
<1>1. /\ AreNodes(ns) /\ rest \in Seq(Line) /\ Stack(frames) /\ Len(ns) \in Nat
  BY LinesAreNodes, FramesStack
<1>2. /\ Len(frames) # 0 /\ Len(frames) \in Nat /\ Top = frames[Len(frames)]
      /\ Top.kind \in {"map", "seq"}
  BY FramesTop, TopFrame
<1>3. Suffix(ns, c, rest) /\ rest # << >> /\ Current = Head(rest)
  BY DEF Reading, EntryNext, Current
<1>4. /\ c + 1 \in 1 .. Len(ns) /\ ns[c + 1].col = Current.indent
      /\ NodeIsSeqitem(Current) <=> ns[c + 1].kind = "dash"
      /\ NodeIsPair(Current) <=> Tree!IsEntry(ns[c + 1])
  BY <1>1, <1>3, HeadNode
<1>5. Fits(ns[c + 1], Top)
  BY <1>2, <1>4 DEF Fits, EntryNext
<1>6. Open(ns, c, ps, frames, Len(frames)) /\ Shaped(ns, c)
  <2>1. Owners(Len(frames), "loop") = Len(frames)
    BY <1>2 DEF Owners
  <2> QED
    BY <2>1 DEF Reading
<1>7. Tree!Parent(ns, c + 1) = ps[Len(frames)]
  BY <1>1, <1>2, <1>4, <1>5, <1>6, ChildOfTop
<1>8. Top.kind = "seq" => ~ Tree!IsEntry(ns[c + 1])
  BY <1>5 DEF Fits, Tree!IsEntry
<1> QED
  BY <1>4, <1>7, <1>8

LEMMA EntryTwins ==
  ASSUME TypeOK, NestingFollowsIndent, NEW ns, ns = Tree!Nodes(lines),
         NEW c \in Nat, NEW ps \in [Nat -> Nat],
         Reading(ns, c, ps, rest, frames, built, "loop", blk.type),
         frames # << >>, EntryNext, NoTwins(ns, c, ps, Len(frames))
  PROVE  NoTwins(ns, c + 1, ps, Len(frames))
<1>1. Tree!Parent(ns, c + 1) = ps[Len(frames)]
  BY EntryIsChild
<1>2. Len(frames) # 0 /\ Len(frames) \in Nat
  BY FramesTop
<1> QED
  BY <1>1, <1>2, TwinsRead

(* A line that is an entry of the loop on top. *)
LEMMA EntryLine ==
  ASSUME TypeOK, pc = "loop", ~ Deeper, frames # << >>,
         \/ Top.kind = "map" /\ ~ MapEnds
         \/ Top.kind = "seq" /\ ~ SeqEnds
  PROVE  EntryNext
<1>1. rest # << >>
  BY DEF MapEnds, SeqEnds
<1>2. Current.indent \in Nat /\ Top.indent \in Nat
  BY <1>1, RestHeadTail, TopFrame DEF TypeOK
<1>3. ~ Current.indent > Top.indent /\ ~ Current.indent < Top.indent
  BY <1>1 DEF Deeper, MapEnds, SeqEnds
<1>4. Current.indent = Top.indent
  BY <1>2, <1>3
<1>5. IF Top.kind = "map" THEN NodeIsPair(Current) ELSE NodeIsSeqitem(Current)
  BY DEF MapEnds, SeqEnds
<1> QED
  BY <1>1, <1>4, <1>5 DEF EntryNext

(* map_entry of a key with its value. *)
LEMMA StepEntryValue ==
  ASSUME TypeOK, NestingFollowsIndent, NEW ns, ns = Tree!Nodes(lines),
         NEW c \in Nat, NEW ps \in [Nat -> Nat],
         Reading(ns, c, ps, rest, frames, built, pc, blk.type),
         ~ Failing' => NoTwins(ns, c, ps, Len(frames)),
         MapEntryValue
  PROVE  Follows'
<1> DEFINE l == Head(rest)
           x == Member(l.leaf.key, l.leaf.val)
<1>1. /\ AreNodes(ns) /\ rest \in Seq(Line) /\ Stack(frames)
  BY LinesAreNodes, FramesStack
<1>2. /\ pc = "loop" /\ Top.kind = "map" /\ ~ Deeper /\ ~ MapEnds /\ Current = l
      /\ l.leaf.kind = "member"
      /\ Collect(x, l.leaf.keyOk /\ l.leaf.valOk)
      /\ rest' = Tail(rest) /\ lines' = lines /\ blk' = blk
  BY DEF MapEntryValue, Current
<1>3. frames # << >>
  BY <1>2 DEF TypeOK
<1>4. EntryNext
  BY <1>2, <1>3, EntryLine
<1>5. Len(frames) # 0 /\ Len(frames) \in Nat /\ Top = frames[Len(frames)]
  BY <1>3, FramesTop
<1>6. rest # << >> /\ NodeIsPair(l) /\ l.indent = frames[Len(frames)].indent
  BY <1>2, <1>4, <1>5 DEF EntryNext
<1>7. /\ Alike(frames, frames') /\ FilledGrow(built, built', Len(frames), x)
      /\ pc' = "loop"
  <2>1. (l.leaf.keyOk /\ l.leaf.valOk) \in BOOLEAN
    OBVIOUS
  <2> HIDE DEF x
  <2> QED
    BY <1>2, <1>3, <2>1, CollectAlike
<1>8. Reading(ns, c, ps, rest, frames, built, "loop", blk.type)
  BY <1>2
<1>9. Reading(ns, c + 1, ps, Tail(rest), frames', built', "loop", blk'.type)
  BY <1>1, <1>2, <1>5, <1>6, <1>7, <1>8, ReadingEntry
<1>10. ~ Failing' => NoTwins(ns, c + 1, ps, Len(frames'))
  <2>1. Len(frames') = Len(frames)
    BY <1>7 DEF Alike
  <2> QED
    BY <1>3, <1>4, <1>8, <2>1, EntryTwins
<1>11. c + 1 \in Nat
  OBVIOUS
<1> QED
  BY <1>2, <1>7, <1>9, <1>10, <1>11, FollowsNext

-----------------------------------------------------------------------------
(* An entry that waits for a block. *)
LEMMA StepNest ==
  ASSUME TypeOK, NestingFollowsIndent, NEW ns, ns = Tree!Nodes(lines),
         NEW c \in Nat, NEW ps \in [Nat -> Nat],
         Reading(ns, c, ps, rest, frames, built, "loop", blk.type),
         ~ Failing' => NoTwins(ns, c, ps, Len(frames)),
         frames # << >>, EntryNext,
         Top.kind = "map" => Current.leaf.kind = "pair",
         Alike(frames, frames'),
         Top.kind = "map" => frames'[Len(frames)].key = Current.leaf.key,
         Suffix(ns, c + 1, rest'), built' = built, lines' = lines,
         pc' = "nested" \/ pc' = "block"
  PROVE  Follows'
<1> DEFINE qs == Nested(ps, Len(frames), c + 1)
<1>1. /\ AreNodes(ns) /\ rest \in Seq(Line) /\ Stack(frames)
  BY LinesAreNodes, FramesStack
<1>2. /\ Len(frames) # 0 /\ Len(frames) \in Nat /\ Top = frames[Len(frames)]
      /\ Top.kind \in {"map", "seq"} /\ Current = Head(rest)
  BY FramesTop, TopFrame DEF Current
<1>3. rest # << >> /\ AsksFor(frames[Len(frames)], frames'[Len(frames)], Head(rest))
  BY <1>2 DEF EntryNext, AsksFor
<1>4. Asked(ns, c, ps, Len(frames), qs, rest', frames', built, pc', blk'.type)
  BY <1>1, <1>2, <1>3, ReadingNest
<1>5. /\ qs \in [Nat -> Nat]
      /\ Reading(ns, c + 1, qs, rest', frames', built, pc', blk'.type)
      /\ \A i \in 1 .. Len(frames) : qs[i] = ps[i]
  BY <1>4 DEF Asked
<1> HIDE DEF qs
<1>6. ASSUME ~ Failing' PROVE NoTwins(ns, c + 1, qs, Len(frames'))
  <2>1. NoTwins(ns, c, ps, Len(frames))
    BY <1>6
  <2>2. NoTwins(ns, c + 1, ps, Len(frames))
    BY <2>1, EntryTwins
  <2>3. Len(frames') = Len(frames)
    BY DEF Alike
  <2> DEFINE n == Len(frames)
  <2>4. n \in Nat /\ n <= n /\ c + 1 \in Nat
    BY <1>2
  <2>5. NoTwins(ns, c + 1, ps, n) /\ \A i \in 1 .. n : qs[i] = ps[i]
    BY <1>5, <2>2
  <2> HIDE DEF n
  <2>6. NoTwins(ns, c + 1, qs, n)
    BY <2>4, <2>5, TwinsOpen
  <2> QED
    BY <2>3, <2>6 DEF n
<1>7. c + 1 \in Nat
  OBVIOUS
<1> QED
  BY <1>5, <1>6, <1>7, FollowsNext

LEMMA StepEntryNested ==
  ASSUME TypeOK, NestingFollowsIndent, NEW ns, ns = Tree!Nodes(lines),
         NEW c \in Nat, NEW ps \in [Nat -> Nat],
         Reading(ns, c, ps, rest, frames, built, pc, blk.type),
         ~ Failing' => NoTwins(ns, c, ps, Len(frames)),
         MapEntryNested
  PROVE  Follows'
<1>1. /\ AreNodes(ns) /\ Len(ns) \in Nat /\ rest \in Seq(Line)
  BY LinesAreNodes
<1>2. /\ pc = "loop" /\ Top.kind = "map" /\ ~ Deeper /\ ~ MapEnds
      /\ Current.leaf.kind = "pair"
      /\ Fold(Current.leaf.keyOk, Current.leaf.key)
      /\ rest' = Tail(rest) /\ lines' = lines /\ built' = built /\ pc' = "nested"
  BY DEF MapEntryNested
<1>3. frames # << >>
  BY <1>2 DEF TypeOK
<1>4. EntryNext
  BY <1>2, <1>3, EntryLine
<1>5. rest # << >> /\ NodeIsPair(Current) /\ Current = Head(rest)
  BY <1>2, <1>4 DEF EntryNext, Current
<1>6. Current.leaf.keyOk \in BOOLEAN /\ Current.leaf.key \in Keys
  BY <1>1, <1>2, <1>5, RestHeadTail, LineLeaf
<1>7. Alike(frames, frames') /\ frames'[Len(frames)].key = Current.leaf.key
  BY <1>2, <1>3, <1>6, FoldAlike
<1>8. Suffix(ns, c + 1, rest')
  <2>1. Suffix(ns, c, rest)
    BY DEF Reading
  <2>2. ~ NodeIsSeqitem(Head(rest))
    BY <1>5 DEF NodeIsPair, NodeIsSeqitem
  <2>3. Tail(rest) \in Seq(Line)
    BY <1>1, <1>5, RestHeadTail
  <2>4. Suffix(ns, c + 1, Tail(rest))
    BY <1>1, <1>5, <2>1, <2>2, <2>3, HeadRead
  <2> QED
    BY <1>2, <2>4
<1>9. Reading(ns, c, ps, rest, frames, built, "loop", blk.type)
  BY <1>2
<1> QED
  BY <1>2, <1>3, <1>4, <1>7, <1>8, <1>9, StepNest

LEMMA StepItem ==
  ASSUME TypeOK, NestingFollowsIndent, NEW ns, ns = Tree!Nodes(lines),
         NEW c \in Nat, NEW ps \in [Nat -> Nat],
         Reading(ns, c, ps, rest, frames, built, pc, blk.type),
         ~ Failing' => NoTwins(ns, c, ps, Len(frames)),
         SeqEntryAlone \/ SeqEntryInner
  PROVE  Follows'
<1>1. /\ AreNodes(ns) /\ Len(ns) \in Nat /\ rest \in Seq(Line)
  BY LinesAreNodes
<1>2. /\ pc = "loop" /\ Top.kind = "seq" /\ ~ Deeper /\ ~ SeqEnds
      /\ lines' = lines /\ built' = built /\ frames' = frames
      /\ pc' = "nested" \/ pc' = "block"
      /\ \/ ~ HasInner(Current) /\ rest' = Tail(rest)
         \/ HasInner(Current) /\ rest' = << Synthetic(Current) >> \o Tail(rest)
  BY DEF SeqEntryAlone, SeqEntryInner
<1>3. frames # << >>
  BY <1>2 DEF TypeOK
<1>4. EntryNext
  BY <1>2, <1>3, EntryLine
<1>5. rest # << >> /\ NodeIsSeqitem(Current) /\ Current = Head(rest)
  BY <1>2, <1>4 DEF EntryNext, Current
<1>6. Suffix(ns, c + 1, rest')
  <2>1. Suffix(ns, c, rest)
    BY DEF Reading
  <2>2. rest' \in Seq(Line)
    <3>1. CASE ~ HasInner(Current)
      BY <1>1, <1>2, <1>5, <3>1, RestHeadTail
    <3>2. CASE HasInner(Current)
      BY <1>1, <1>2, <1>5, <3>2, RestSynthetic
    <3> QED
      BY <3>1, <3>2
  <2>3. IF NodeIsSeqitem(Head(rest)) /\ HasInner(Head(rest))
        THEN rest' = << Synthetic(Head(rest)) >> \o Tail(rest)
        ELSE rest' = Tail(rest)
    BY <1>2, <1>5
  <2> QED
    BY <1>1, <1>5, <2>1, <2>2, <2>3, HeadRead
<1>7. Reading(ns, c, ps, rest, frames, built, "loop", blk.type)
  BY <1>2
<1>8. Alike(frames, frames') /\ Top.kind # "map"
  BY <1>2, AlikeSelf
<1> QED
  BY <1>2, <1>3, <1>4, <1>6, <1>7, <1>8, StepNest

(* The value of an entry is bound. *)
LEMMA StepResume ==
  ASSUME TypeOK, NestingFollowsIndent, NEW ns, ns = Tree!Nodes(lines),
         NEW c \in Nat, NEW ps \in [Nat -> Nat],
         Reading(ns, c, ps, rest, frames, built, pc, blk.type),
         ~ Failing' => NoTwins(ns, c, ps, Len(frames)),
         MapEntryResume \/ SeqEntryResume
  PROVE  Follows'
<1> DEFINE x == IF frames[Len(frames)].kind = "map"
                THEN Member(frames[Len(frames)].key, blk.type) ELSE blk.type
<1>1. /\ AreNodes(ns) /\ rest \in Seq(Line) /\ Stack(frames)
  BY LinesAreNodes, FramesStack
<1>2. pc = "return" /\ frames # << >> /\ rest' = rest /\ lines' = lines /\ blk' = blk
  BY DEF MapEntryResume, SeqEntryResume
<1>3. Len(frames) # 0 /\ Len(frames) \in Nat /\ Top = frames[Len(frames)]
  BY <1>2, FramesTop
<1>4. Collect(x, blk.ok)
  BY <1>3 DEF MapEntryResume, SeqEntryResume
<1>5. /\ Alike(frames, frames') /\ FilledGrow(built, built', Len(frames), x)
      /\ pc' = "loop"
  <2>1. blk.ok \in BOOLEAN
    BY DEF TypeOK
  <2> HIDE DEF x
  <2> QED
    BY <1>2, <1>4, <2>1, CollectAlike
<1>6. Reading(ns, c, ps, rest, frames, built, "return", blk.type)
  BY <1>2
<1>7. Reading(ns, c, ps, rest, frames', built', "loop", blk'.type)
  BY <1>1, <1>3, <1>5, <1>6, ReadingResume
<1>8. ~ Failing' => NoTwins(ns, c, ps, Len(frames'))
  BY <1>5 DEF Alike
<1> QED
  BY <1>2, <1>5, <1>7, <1>8, FollowsNext

-----------------------------------------------------------------------------
(* The steps at which the descent begins to fail. *)
FailsHere ==
  BindFinish \/ ParseBlockValue \/ LoopDeeper \/ MapEnd \/ MapEntryValue \/ MapEntryNested

LEMMA FoldOks ==
  ASSUME TypeOK, frames # << >>, ~ Failing, NEW ok \in BOOLEAN,
         NEW key \in Keys \cup {NoKey}, Fold(ok, key), ok
  PROVE  \A i \in 1 .. Len(frames') : frames'[i].ok
<1>1. /\ Len(frames') = Len(frames)
      /\ \A j \in 1 .. Len(frames) : j # Len(frames) => frames'[j] = frames[j]
      /\ Top' = FrameOf(Top.kind, Top.indent, Top.ok /\ ok, key)
      /\ frames'[Len(frames)] = Top'
  BY FoldFrames
<1>2. \A j \in 1 .. Len(frames) : frames[j].ok
  BY DEF Failing
<1>3. Top.ok
  BY <1>2, TopFrame DEF Top
<1>4. frames'[Len(frames)].ok
  <2>1. FrameOf(Top.kind, Top.indent, Top.ok /\ ok, key).ok = (Top.ok /\ ok)
    BY DEF FrameOf
  <2>2. frames'[Len(frames)].ok = (Top.ok /\ ok)
    BY <1>1, <2>1
  <2> QED
    BY <1>3, <2>2
<1> QED
  BY <1>1, <1>2, <1>4

LEMMA LeaveOks ==
  ASSUME TypeOK, frames # << >>, ~ Failing, NEW t, NEW ok, NEW left, Leave(t, ok, left)
  PROVE  (\A i \in 1 .. Len(frames') : frames'[i].ok) /\ Top.ok
<1>1. /\ Len(frames') \in Nat /\ Len(frames) = Len(frames') + 1
      /\ \A j \in 1 .. Len(frames') : frames'[j] = frames[j]
  BY LeaveFrames
<1>2. \A j \in 1 .. Len(frames) : frames[j].ok
  BY DEF Failing
<1>3. \A j \in 1 .. Len(frames') : j \in 1 .. Len(frames)
  BY <1>1
<1>4. Top.ok
  BY <1>2, TopFrame DEF Top
<1> QED
  BY <1>1, <1>2, <1>3, <1>4

LEMMA OthersDoNotFail ==
  ASSUME TypeOK, Next, ~ Failing, Failing'
  PROVE  FailsHere
<1>0. rest \in Seq(Line) /\ NoKey \in Keys \cup {NoKey}
  BY DEF TypeOK
<1>1. CASE BindEmpty \/ BindBody
  BY <1>1, EmptySeq DEF BindEmpty, BindBody, TypeOK, Failing
<1>2. CASE ParseBlockPair \/ ParseBlockSeqitem \/ NestedSameIndentSeq
  <2>1. PICK k \in {"map", "seq"}, a \in Nat : Enter(k, a)
    BY <1>0, <1>2, RestHeadTail, TopFrame
       DEF ParseBlockPair, ParseBlockSeqitem, NestedSameIndentSeq, TypeOK
  <2>2. /\ Len(frames) \in Nat /\ Len(frames') = Len(frames) + 1
        /\ \A j \in 1 .. Len(frames) : frames'[j] = frames[j]
        /\ frames'[Len(frames) + 1] = FrameOf(k, a, TRUE, NoKey)
    BY <2>1, EnterFrames
  <2>3. \A j \in 1 .. Len(frames) : frames[j].ok
    BY DEF Failing
  <2>4. frames'[Len(frames) + 1].ok
    BY <2>2 DEF FrameOf
  <2>5. \A j \in 1 .. Len(frames') : frames'[j].ok
    <3> SUFFICES ASSUME NEW j \in 1 .. Len(frames') PROVE frames'[j].ok
      OBVIOUS
    <3>1. j = Len(frames) + 1 \/ j \in 1 .. Len(frames)
      BY <2>2
    <3> QED
      BY <2>2, <2>3, <2>4, <3>1
  <2>6. pc' = "loop"
    BY <2>1 DEF Enter
  <2> QED
    BY <2>5, <2>6 DEF Failing
<1>3. CASE NestedDeeper \/ NestedNull \/ SeqEntryAlone \/ SeqEntryInner
  BY <1>3 DEF NestedDeeper, NestedNull, SeqEntryAlone, SeqEntryInner, Answer, Failing
<1>4. CASE MapEntryResume \/ SeqEntryResume
  <2>1. /\ frames # << >> /\ pc = "return" /\ pc' = "loop" /\ Fold(blk.ok, NoKey)
    BY <1>4 DEF MapEntryResume, SeqEntryResume, Collect
  <2>2. blk.ok \in BOOLEAN /\ blk.ok
    BY <2>1 DEF TypeOK, Failing
  <2>3. \A i \in 1 .. Len(frames') : frames'[i].ok
    BY <1>0, <2>1, <2>2, FoldOks
  <2> QED
    BY <2>1, <2>3 DEF Failing
<1>5. CASE SeqEnd
  <2>1. PICK t : Leave(t, Top.ok, rest)
    BY <1>5 DEF SeqEnd
  <2>2. frames # << >>
    BY <1>5 DEF SeqEnd, TypeOK
  <2>3. (\A i \in 1 .. Len(frames') : frames'[i].ok) /\ Top.ok
    BY <2>1, <2>2, LeaveOks
  <2>4. blk'.ok
    BY <2>1, <2>3 DEF Leave, Answer
  <2> QED
    BY <2>3, <2>4 DEF Failing
<1>6. CASE Terminated
  BY <1>6 DEF Terminated, vars, Failing
<1> QED
  BY <1>1, <1>2, <1>3, <1>4, <1>5, <1>6 DEF Next, FailsHere

(* What the descent begins to fail on is in no document. *)
LEMMA FailsOnNoDocument ==
  ASSUME TypeOK, NestingFollowsIndent, LoopsHaveEntries,
         NEW ns, ns = Tree!Nodes(lines), NEW c \in Nat, NEW ps \in [Nat -> Nat],
         Reading(ns, c, ps, rest, frames, built, pc, blk.type),
         ~ Failing, Failing', FailsHere
  PROVE  ~ Tree!Valid(lines)
<1>0. /\ lines \in Seq(Line) /\ rest \in Seq(Line) /\ AreNodes(ns) /\ Len(ns) \in Nat
      /\ Stack(frames) /\ Len(frames) \in Nat /\ NoKey \in Keys \cup {NoKey}
  BY LinesAreNodes, FramesStack
<1>1. ~ Tree!WellIndented(ns) => ~ Tree!Valid(lines)
  BY DEF Tree!Valid
<1>2. Suffix(ns, c, rest)
  BY DEF Reading
<1>3. CASE BindFinish
  <2>1. pc = "return" /\ frames = << >> /\ frames' = frames
    BY <1>3 DEF BindFinish
  <2>2. Len(frames) = 0
    BY <1>0, <2>1, EmptySeq
  <2>3. blk.ok
    BY <2>1 DEF Failing
  <2>4. rest # << >>
    BY <1>3, <2>2, <2>3 DEF BindFinish, Failing
  <2>5. Reading(ns, c, ps, rest, frames, built, "return", blk.type)
    BY <2>1
  <2>6. ~ Tree!WellIndented(ns)
    BY <1>0, <2>2, <2>4, <2>5, ReadingLeft
  <2> QED
    BY <1>1, <2>6
<1>4. CASE ParseBlockValue
  <2>1. /\ rest # << >> /\ Current = Head(rest)
        /\ ~ NodeIsPair(Current) /\ ~ NodeIsSeqitem(Current)
        /\ blk'.ok = Current.leaf.valOk /\ frames' = frames
    BY <1>4 DEF ParseBlockValue, Answer, Current
  <2>2. ~ Current.leaf.valOk
    BY <2>1 DEF Failing
  <2>3. Current.leaf.kind = "value"
    BY <1>0, <2>1, RestHeadTail, LineLeaf
  <2>4. BadLeaf(Head(rest).leaf)
    BY <2>1, <2>2, <2>3 DEF BadLeaf
  <2> QED
    BY <1>0, <1>2, <2>1, <2>4, BadLeafRejects
<1>5. CASE LoopDeeper
  BY <1>1, <1>5, StepDeeper
<1>6. CASE MapEnd
  <2> DEFINE b == built[Len(built)]
  <2>1. pc = "loop" /\ Top.kind = "map" /\ Leave(Mapping(b), Top.ok /\ MembersUnique(b), rest)
    BY <1>6 DEF MapEnd
  <2>2. frames # << >>
    BY <2>1 DEF TypeOK
  <2>3. /\ Len(frames) # 0 /\ Top = frames[Len(frames)] /\ Len(built) = Len(frames)
    BY <2>2, FramesTop
  <2>4. ~ MembersUnique(b)
    <3>1. (\A i \in 1 .. Len(frames') : frames'[i].ok) /\ Top.ok
      <4> HIDE DEF b
      <4> QED
        BY <2>1, <2>2, LeaveOks
    <3>2. blk'.ok = (Top.ok /\ MembersUnique(b))
      BY <2>1 DEF Leave, Answer
    <3> QED
      BY <3>1, <3>2 DEF Failing
  <2>5. Open(ns, c, ps, frames, Len(frames)) /\ Filled(ns, c, ps, frames, built, Len(frames))
    <3>1. Owners(Len(frames), pc) = Len(frames)
      BY <1>0, <2>1 DEF Owners
    <3> QED
      BY <3>1 DEF Reading
  <2>6. c \in 0 .. Len(ns)
    BY <1>0, <1>2, SuffixBound
  <2> QED
    BY <1>0, <2>1, <2>3, <2>4, <2>5, <2>6, TwinsReject
<1>7. CASE MapEntryValue \/ MapEntryNested
  <2>1. /\ pc = "loop" /\ Top.kind = "map" /\ ~ Deeper /\ ~ MapEnds
        /\ Current.leaf.kind \in {"pair", "member"} /\ pc' # "return" /\ pc' # "done"
    BY <1>7 DEF MapEntryValue, MapEntryNested, Collect
  <2>2. frames # << >>
    BY <2>1 DEF TypeOK
  <2>3. rest # << >> /\ NodeIsPair(Current) /\ Current = Head(rest)
    BY <2>1, <2>2, EntryLine DEF EntryNext, Current
  <2>4. BadLeaf(Current.leaf)
    <3> DEFINE l == Current.leaf
               ok == IF l.kind = "pair" THEN l.keyOk ELSE l.keyOk /\ l.valOk
               key == IF l.kind = "pair" THEN l.key ELSE NoKey
    <3>1. /\ l.kind \in {"pair", "member"} => l.key \in Keys /\ l.keyOk \in BOOLEAN
          /\ l.kind \in {"member", "value"} => l.valOk \in BOOLEAN
      BY <1>0, <2>3, RestHeadTail, LineLeaf
    <3>2. Fold(ok, key)
      BY <1>7 DEF MapEntryValue, MapEntryNested, Collect
    <3>3. ok \in BOOLEAN /\ key \in Keys \cup {NoKey}
      BY <2>1, <3>1
    <3>4. ~ ok
      <4> HIDE DEF ok, key
      <4> SUFFICES ASSUME ok PROVE FALSE
        OBVIOUS
      <4>1. \A i \in 1 .. Len(frames') : frames'[i].ok
        BY <2>2, <3>2, <3>3, FoldOks
      <4> QED
        BY <2>1, <4>1 DEF Failing
    <3> QED
      BY <2>1, <3>4 DEF BadLeaf
  <2>5. ~ NodeIsSeqitem(Head(rest))
    BY <2>3 DEF NodeIsPair, NodeIsSeqitem
  <2> QED
    BY <1>0, <1>2, <2>3, <2>4, <2>5, BadLeafRejects
<1> QED
  BY <1>3, <1>4, <1>5, <1>6, <1>7 DEF FailsHere

-----------------------------------------------------------------------------
(***************************************************************************)
(* The inductive invariant.  The descent is somewhere in the tree of the   *)
(* columns, or a line too deep has made it throw the rest away, in a tree  *)
(* that is not legal; a failing document has no legal tree, or a bad leaf  *)
(* or a repeated key; what is accepted is a document, and a legal tree is  *)
(* bound as it is, though it may have been rejected.                       *)
(***************************************************************************)
Legal == Tree!WellIndented(Tree!Nodes(lines))

(* A deeper line was met: what is open is closed, and nothing more is read. *)
Lost == ~ Legal /\ Failing /\ rest = << >> /\ pc \in {"loop", "return"}

DescentInv ==
  /\ pc # "done" => Follows \/ Lost
  /\ Failing => ~ Tree!Valid(lines)
  /\ pc = "done" =>
       /\ rest = << >>
       /\ blk.ok => Tree!Valid(lines)
       /\ Legal => blk.type = Tree!TreeOf(lines)

LEMMA InitFollows == Init => Follows
<1> SUFFICES ASSUME Init PROVE Follows
  OBVIOUS
<1> DEFINE ns == Tree!Nodes(lines)
           ps == [i \in Nat |-> 0]
<1>1. /\ lines \in Seq(Line) /\ rest = lines /\ frames = << >> /\ built = << >>
      /\ pc = "start" /\ blk.type = Null
  BY DocsAssumption DEF Init
<1>2. Suffix(ns, 0, rest)
  BY <1>1, SuffixAll
<1>3. ps \in [Nat -> Nat] /\ 0 \in Nat /\ \A i \in Nat : ps[i] = 0
  OBVIOUS
<1>4. Len(frames) = 0
  BY <1>1
<1>5. Owners(Len(frames), pc) = 1
  BY <1>1, <1>4 DEF Owners
<1> HIDE DEF ns, ps
<1>6. Open(ns, 0, ps, frames, 1)
  BY <1>3, <1>4 DEF Open, Tree!HasRoom
<1>7. Shaped(ns, 0)
  <2>1. \A p : OneBlock(ns, 0, p)
    BY DEF OneBlock
  <2> QED
    BY <2>1 DEF Shaped
<1>8. Filled(ns, 0, ps, frames, built, 1)
  BY <1>4 DEF Filled
<1>9. NoPlace(ns, 0, ps[1], pc)
  BY <1>1 DEF NoPlace
<1>10. Reading(ns, 0, ps, rest, frames, built, pc, blk.type)
  BY <1>1, <1>2, <1>3, <1>5, <1>6, <1>7, <1>8, <1>9 DEF Reading
<1>11. NoTwins(ns, 0, ps, Len(frames))
  BY DEF NoTwins
<1> QED
  BY <1>3, <1>10, <1>11 DEF Follows, Tracked, ns

LEMMA InitDescent == Init => DescentInv
<1> SUFFICES ASSUME Init PROVE DescentInv
  OBVIOUS
<1>1. ~ Failing /\ pc # "done"
  BY EmptySeq DEF Init, Failing
<1> QED
  BY <1>1, InitFollows DEF DescentInv

(* Wherever the descent goes, it follows the tree until a line is too deep. *)
LEMMA NextFollows ==
  ASSUME TypeOK, NestingFollowsIndent, LoopsHaveEntries, Next,
         NEW c \in Nat, NEW ps \in [Nat -> Nat], Tracked(c, ps),
         pc' # "done"
  PROVE  Follows' \/ (LoopDeeper /\ Lost')
<1> DEFINE ns == Tree!Nodes(lines)
<1>1. /\ Reading(ns, c, ps, rest, frames, built, pc, blk.type)
      /\ ~ Failing => NoTwins(ns, c, ps, Len(frames))
  BY DEF Tracked
<1>2. ~ Failing' => NoTwins(ns, c, ps, Len(frames))
  BY <1>1, NextFails
<1>3. ns = Tree!Nodes(lines)
  OBVIOUS
<1> HIDE DEF ns
<1>5. CASE BindEmpty \/ BindFinish \/ Terminated
  BY <1>5 DEF BindEmpty, BindFinish, Terminated, vars
<1>6. CASE BindBody \/ NestedDeeper
  BY <1>1, <1>2, <1>3, <1>6, StepAsk
<1>7. CASE ParseBlockPair \/ ParseBlockSeqitem
  BY <1>1, <1>2, <1>3, <1>7, StepParseBlock
<1>8. CASE ParseBlockValue
  BY <1>1, <1>2, <1>3, <1>8, StepValue
<1>9. CASE NestedSameIndentSeq
  BY <1>1, <1>2, <1>3, <1>9, StepSameIndentSeq
<1>10. CASE NestedNull
  BY <1>1, <1>2, <1>3, <1>10, StepNull
<1>11. CASE LoopDeeper
  <2>1. Failing' /\ rest' = << >> /\ pc' = "return" /\ lines' = lines
    BY <1>11 DEF LoopDeeper, Leave, Answer, Failing
  <2>2. ~ Tree!WellIndented(ns)
    BY <1>1, <1>3, <1>11, StepDeeper
  <2>3. ~ Legal'
    BY <1>3, <2>1, <2>2 DEF Legal
  <2> QED
    BY <1>11, <2>1, <2>3 DEF Lost
<1>12. CASE MapEnd \/ SeqEnd
  BY <1>1, <1>2, <1>3, <1>12, StepEnd
<1>13. CASE MapEntryValue
  BY <1>1, <1>2, <1>3, <1>13, StepEntryValue
<1>14. CASE MapEntryNested
  BY <1>1, <1>2, <1>3, <1>14, StepEntryNested
<1>15. CASE SeqEntryAlone \/ SeqEntryInner
  BY <1>1, <1>2, <1>3, <1>15, StepItem
<1>16. CASE MapEntryResume \/ SeqEntryResume
  BY <1>1, <1>2, <1>3, <1>16, StepResume
<1> QED
  BY <1>5, <1>6, <1>7, <1>8, <1>9, <1>10, <1>11, <1>12, <1>13, <1>14, <1>15,
     <1>16 DEF Next

(* When lines are thrown away, all that is left is to close what is open. *)
Closes == MapEnd \/ SeqEnd \/ MapEntryResume \/ SeqEntryResume

LEMMA NextLost ==
  ASSUME TypeOK, Next, Lost, pc' # "done"
  PROVE  Closes /\ Lost'
<1>1. /\ ~ Legal /\ Failing /\ rest = << >> /\ pc \in {"loop", "return"}
  BY DEF Lost
<1>2. Closes
  <2>1. ~ Deeper
    BY <1>1 DEF Deeper
  <2>2. (pc = "loop" /\ Top.kind = "map" => MapEnds) /\ (pc = "loop" /\ Top.kind = "seq" => SeqEnds)
    BY <1>1 DEF MapEnds, SeqEnds
  <2> QED
    BY <1>1, <2>1, <2>2 DEF Closes, Next, BindEmpty, BindBody, BindFinish, ParseBlockPair,
       ParseBlockSeqitem, ParseBlockValue, NestedDeeper, NestedSameIndentSeq, NestedNull,
       LoopDeeper, MapEntryValue, MapEntryNested, SeqEntryAlone, SeqEntryInner, Terminated, vars
<1>3. rest' = rest /\ lines' = lines /\ pc' \in {"loop", "return"}
  BY <1>2 DEF Closes, MapEnd, SeqEnd, MapEntryResume, SeqEntryResume, Leave, Answer, Collect
<1>4. Failing'
  BY <1>1, NextFails
<1>5. ~ Legal'
  BY <1>1, <1>3 DEF Legal
<1> QED
  BY <1>1, <1>2, <1>3, <1>4, <1>5 DEF Lost

(* Only the end of the document is done. *)
LEMMA NextDone ==
  ASSUME Next, pc # "done", pc' = "done"
  PROVE  BindEmpty \/ BindFinish
BY DEF Next, BindEmpty, BindBody, BindFinish, ParseBlockPair,
   ParseBlockSeqitem, ParseBlockValue, NestedDeeper, NestedSameIndentSeq,
   NestedNull, LoopDeeper, MapEnd, MapEntryValue, MapEntryNested,
   MapEntryResume, SeqEnd, SeqEntryAlone, SeqEntryInner, SeqEntryResume,
   Terminated, vars, Enter, Answer, Leave, Collect

(* What a legal tree is bound to, be it accepted or not. *)
LEMMA NextTree ==
  ASSUME TypeOK, BindEmpty \/ BindFinish, Legal,
         NEW c \in Nat, NEW ps \in [Nat -> Nat], Tracked(c, ps)
  PROVE  blk'.type = Tree!TreeOf(lines)
<1> DEFINE ns == Tree!Nodes(lines)
<1>1. /\ AreNodes(ns) /\ rest \in Seq(Line)
      /\ Reading(ns, c, ps, rest, frames, built, pc, blk.type)
      /\ Tree!WellIndented(ns) /\ Tree!TreeOf(lines) = Tree!Values(ns)[0]
  BY LinesAreNodes DEF Tracked, Legal, Tree!TreeOf
<1> HIDE DEF ns
<1>2. CASE BindEmpty
  <2>1. rest = << >> /\ blk'.type = Null /\ pc = "start"
    BY <1>2 DEF BindEmpty
  <2>2. Len(frames) = 0
    BY <2>1, EmptySeq DEF TypeOK
  <2>3. Reading(ns, c, ps, rest, frames, built, "start", blk.type)
    BY <1>1, <2>1
  <2> QED
    BY <1>1, <2>1, <2>2, <2>3, ReadingNothing
<1>3. CASE BindFinish
  <2>1. frames = << >> /\ pc = "return"
    BY <1>3 DEF BindFinish
  <2>2. Len(frames) = 0
    BY <2>1, EmptySeq
  <2>3. blk'.type = blk.type
    BY <1>3 DEF BindFinish
  <2>4. Reading(ns, c, ps, rest, frames, built, "return", blk.type)
    BY <1>1, <2>1
  <2>5. rest = << >>
    BY <1>1, <2>2, <2>4, ReadingLeft
  <2> QED
    BY <1>1, <2>2, <2>3, <2>4, <2>5, ReadingFinish
<1> QED
  BY <1>2, <1>3

(* What is accepted is a document. *)
LEMMA NextAccepts ==
  ASSUME TypeOK, BadScalarsReject', BindEmpty \/ BindFinish, blk'.ok,
         lines \in Seq(Line),
         NEW c \in Nat, NEW ps \in [Nat -> Nat], ~ Failing => Tracked(c, ps)
  PROVE  Tree!Valid(lines)
<1> DEFINE ns == Tree!Nodes(lines)
<1>1. /\ AreNodes(ns) /\ Len(ns) \in Nat /\ rest \in Seq(Line)
  BY LinesAreNodes
<1>2. /\ rest = << >> /\ rest' = rest /\ lines' = lines /\ pc' = "done"
      /\ frames = << >> /\ frames' = frames
      /\ \/ pc = "start" /\ blk'.type = Null
         \/ pc = "return" /\ blk.ok /\ blk'.type = blk.type
  <2>1. CASE BindEmpty
    BY <2>1 DEF BindEmpty, TypeOK
  <2>2. CASE BindFinish
    <3>1. blk' = [type |-> blk.type, ok |-> blk.ok /\ rest = << >>]
      BY <2>2 DEF BindFinish
    <3>2. blk'.ok = (blk.ok /\ rest = << >>) /\ blk'.type = blk.type
      BY <3>1
    <3>3. blk.ok /\ rest = << >>
      BY <3>2
    <3> QED
      BY <2>2, <3>2, <3>3 DEF BindFinish
  <2> QED
    BY <2>1, <2>2
<1>3. Len(frames) = 0
  BY <1>2, EmptySeq
<1>4. ~ Failing /\ ~ Failing'
  BY <1>2, <1>3 DEF Failing
<1>5. /\ Reading(ns, c, ps, rest, frames, built, pc, blk.type)
      /\ NoTwins(ns, c, ps, 0)
  BY <1>3, <1>4 DEF Tracked
<1> HIDE DEF ns
<1>6. c = Len(ns) /\ Tree!WellIndented(ns) /\ blk'.type = Tree!Values(ns)[0]
  <2>1. CASE pc = "start" /\ blk'.type = Null
    <3>1. Reading(ns, c, ps, rest, frames, built, "start", blk.type)
      BY <1>5, <2>1
    <3> QED
      BY <1>1, <1>2, <1>3, <2>1, <3>1, ReadingNothing
  <2>2. CASE pc = "return" /\ blk'.type = blk.type
    <3>1. Reading(ns, c, ps, rest, frames, built, "return", blk.type)
      BY <1>5, <2>2
    <3> QED
      BY <1>1, <1>2, <1>3, <2>2, <3>1, ReadingFinish
  <2> QED
    BY <1>2, <2>1, <2>2
<1>7. \A k \in Keys : ~ Tree!Repeated(ns, k)
  <2>1. NoTwins(ns, Len(ns), ps, 0)
    BY <1>5, <1>6
  <2> QED
    BY <1>1, <2>1, NoTwinsNoRepeat
<1>8. \A k \in DOMAIN ns : Tree!LeafOk(ns[k])
  <2>1. Consumed' = Len(lines) /\ Len(lines) \in Nat
    <3>1. Len(lines) \in Nat /\ Len(rest) = 0
      BY <1>2, EmptySeq, LenProperties
    <3> QED
      BY <1>2, <3>1 DEF Consumed
  <2>2. \A i \in 1 .. Len(lines) : ~ BadLeaf(lines[i].leaf)
    <3>1. \A i \in 1 .. Consumed' : ~ BadLeaf(lines'[i].leaf)
      BY <1>4 DEF BadScalarsReject
    <3> QED
      BY <1>2, <2>1, <3>1
  <2> QED
    BY <2>2, LeavesOk DEF ns
<1> QED
  BY <1>6, <1>7, <1>8 DEF Tree!Valid, ns

LEMMA NextDescent ==
  ASSUME TypeOK, NestingFollowsIndent, LoopsHaveEntries, BadScalarsReject',
         DescentInv, Next
  PROVE  DescentInv'
<1>0. lines' = lines /\ lines \in Seq(Line)
  <2>1. lines' = lines
    BY DEF Next, BindEmpty, BindBody, BindFinish, ParseBlockPair, ParseBlockSeqitem,
           ParseBlockValue, NestedDeeper, NestedSameIndentSeq, NestedNull, LoopDeeper,
           MapEnd, MapEntryValue, MapEntryNested, MapEntryResume, SeqEnd,
           SeqEntryAlone, SeqEntryInner, SeqEntryResume, Terminated, vars, Enter,
           Answer, Leave
  <2> QED
    BY <2>1, LinesAreNodes
<1>1. Legal' = Legal /\ Tree!Valid(lines)' = Tree!Valid(lines)
      /\ Tree!TreeOf(lines)' = Tree!TreeOf(lines)
  BY <1>0 DEF Legal
<1>2. CASE Terminated
  <2>1. DescentInv /\ UNCHANGED vars => DescentInv'
    BY DEF DescentInv, vars, Follows, Tracked, Failing, Legal, Lost
  <2> QED
    BY <1>2, <2>1 DEF Terminated
<1>3. ASSUME pc # "done", Legal \/ ~ Failing PROVE Follows
  BY <1>3 DEF DescentInv, Lost
<1>4. CASE pc # "done"
  <2>1. ASSUME pc' # "done" PROVE Follows' \/ Lost'
    <3>1. CASE Follows
      <4>1. PICK c \in Nat, ps \in [Nat -> Nat] : Tracked(c, ps)
        BY <3>1 DEF Follows
      <4> QED
        BY <2>1, <4>1, NextFollows
    <3>2. CASE Lost
      BY <2>1, <3>2, NextLost
    <3> QED
      BY <1>4, <3>1, <3>2 DEF DescentInv
  <2>2. ASSUME Failing' PROVE ~ Tree!Valid(lines)
    <3>1. CASE Failing
      BY <3>1 DEF DescentInv
    <3>2. CASE ~ Failing
      <4>1. PICK c \in Nat, ps \in [Nat -> Nat] : Tracked(c, ps)
        BY <1>3, <1>4, <3>2 DEF Follows
      <4>2. Reading(Tree!Nodes(lines), c, ps, rest, frames, built, pc, blk.type)
        BY <4>1 DEF Tracked
      <4>3. FailsHere
        BY <2>2, <3>2, OthersDoNotFail
      <4> QED
        BY <2>2, <3>2, <4>2, <4>3, FailsOnNoDocument
    <3> QED
      BY <3>1, <3>2
  <2>3. ASSUME pc' = "done" PROVE BindEmpty \/ BindFinish
    BY <1>4, <2>3, NextDone
  <2>4. ASSUME pc' = "done" PROVE rest' = << >>
    BY <2>3, <2>4 DEF BindEmpty, BindFinish
  <2>5. ASSUME pc' = "done", blk'.ok PROVE Tree!Valid(lines)
    <3>1. BindEmpty \/ BindFinish
      BY <2>3, <2>5
    <3>2. PICK c \in Nat, ps \in [Nat -> Nat] : ~ Failing => Tracked(c, ps)
      <4>1. CASE Failing
        <5>1. 0 \in Nat /\ [i \in Nat |-> 0] \in [Nat -> Nat]
          OBVIOUS
        <5> QED
          BY <4>1, <5>1
      <4>2. CASE ~ Failing
        BY <1>3, <1>4, <4>2 DEF Follows
      <4> QED
        BY <4>1, <4>2
    <3> QED
      BY <1>0, <2>5, <3>1, <3>2, NextAccepts
  <2>6. ASSUME pc' = "done", Legal PROVE blk'.type = Tree!TreeOf(lines)
    <3>1. PICK c \in Nat, ps \in [Nat -> Nat] : Tracked(c, ps)
      BY <1>3, <1>4, <2>6 DEF Follows
    <3> QED
      BY <2>3, <2>6, <3>1, NextTree
  <2> QED
    BY <1>1, <2>1, <2>2, <2>4, <2>5, <2>6 DEF DescentInv
<1>5. CASE pc = "done"
  <2>1. Terminated
    BY <1>5 DEF Next, BindEmpty, BindBody, BindFinish, ParseBlockPair,
       ParseBlockSeqitem, ParseBlockValue, NestedDeeper, NestedSameIndentSeq,
       NestedNull, LoopDeeper, MapEnd, MapEntryValue, MapEntryNested,
       MapEntryResume, SeqEnd, SeqEntryAlone, SeqEntryInner, SeqEntryResume
  <2> QED
    BY <1>2, <2>1
<1> QED
  BY <1>4, <1>5

LEMMA StutterDescent == DescentInv /\ UNCHANGED vars => DescentInv'
BY DEF DescentInv, vars, Follows, Tracked, Failing, Legal, Lost

(***************************************************************************)
(* In every state the descent stands where the tree of the columns says,   *)
(* or has failed and the tree is no document.                              *)
(***************************************************************************)
THEOREM DescentFollowsTree == Spec => []DescentInv
<1>1. Init => DescentInv
  BY InitDescent
<1>2. /\ TypeOK /\ NestingFollowsIndent /\ LoopsHaveEntries /\ BadScalarsReject'
      /\ DescentInv /\ [Next]_vars
      => DescentInv'
  BY NextDescent, StutterDescent
<1> QED
  BY <1>1, <1>2, TypeCorrect, NestingCorrect, EntriesCorrect, ScalarsCorrect, PTL
     DEF Spec

-----------------------------------------------------------------------------
(***************************************************************************)
(* What is bound of any line list, one that is rejected included: the      *)
(* diagnosis looks for repeated keys in it.                                *)
(***************************************************************************)

(* Keys a loop has collected twice, or once beside the one it waits for,   *)
(* are in two entries of one block.                                        *)
FrameKeysReal(ns, f, b, waits) ==
  f.kind = "map" =>
    /\ \A u, v \in 1 .. Len(b) : u < v /\ b[u].key = b[v].key => Tree!Repeated(ns, b[u].key)
    /\ waits => \A u \in 1 .. Len(b) : b[u].key = f.key => Tree!Repeated(ns, f.key)

KeysReal ==
  \A i \in 1 .. Len(frames) :
    FrameKeysReal(Tree!Nodes(lines), frames[i], built[i], Suspended(i))

LEMMA TwoEntries ==
  ASSUME NEW ns, AreNodes(ns), NEW a \in 1 .. Len(ns), NEW b \in 1 .. Len(ns), a < b,
         NEW f, f.kind = "map", Fits(ns[a], f), Fits(ns[b], f),
         Tree!Parent(ns, a) = Tree!Parent(ns, b), ns[a].leaf.key = ns[b].leaf.key
  PROVE  Tree!Repeated(ns, ns[a].leaf.key)
<1>1. a \in DOMAIN ns /\ b \in DOMAIN ns
  BY DEF AreNodes
<1>2. Tree!IsEntry(ns[a]) /\ Tree!IsEntry(ns[b]) /\ ns[a].col = ns[b].col
  BY DEF Fits
<1> QED
  BY <1>1, <1>2 DEF Tree!Repeated

LEMMA ReadingKeys ==
  ASSUME NEW ns, AreNodes(ns), NEW c \in 0 .. Len(ns), NEW ps \in [Nat -> Nat],
         NEW fr, Len(fr) \in Nat, NEW bu, NEW m \in Nat, Len(fr) <= m,
         Open(ns, c, ps, fr, m), Filled(ns, c, ps, fr, bu, m),
         NEW i \in 1 .. Len(fr)
  PROVE  FrameKeysReal(ns, fr[i], bu[i], i < m)
<1> DEFINE p == ps[i]
           q == ps[i + 1]
           f == fr[i]
           b == bu[i]
           d == BoundUpTo(c, ps, i, m)
           ks == Kids(ns, p, d)
           N == Len(ns)
           L == Len(fr)
<1>a. N \in Nat /\ c \in 0 .. N /\ L \in Nat /\ i \in 1 .. L /\ L <= m
  BY DEF AreNodes
<1>b. c \in Nat /\ c <= N /\ i \in Nat /\ i \in 1 .. m /\ i + 1 \in Nat
  <2> HIDE DEF N, L
  <2> QED
    BY <1>a
<1>0. N \in Nat /\ c \in Nat /\ c <= N /\ i \in Nat /\ i \in 1 .. m /\ q \in Nat /\ p \in Nat
  BY <1>a, <1>b
<1> HIDE DEF N, L
<1>1. i < m => q \in 1 .. c /\ Tree!Parent(ns, q) = p /\ d = q - 1
  <2> SUFFICES ASSUME i < m PROVE q \in 1 .. c /\ Tree!Parent(ns, q) = p /\ d = q - 1
    OBVIOUS
  <2>1. i + 1 \in 1 .. m /\ i \in 1 .. m - 1 /\ i < i + 1
    BY <1>0
  <2>2. p < q /\ q <= c /\ Tree!Parent(ns, q) = p
    BY <1>0, <2>1 DEF Open
  <2>3. d = q - 1
    BY DEF BoundUpTo
  <2> HIDE DEF p, q, d
  <2> QED
    BY <1>0, <2>2, <2>3
<1>2. d \in Nat /\ d <= c
  <2>1. d = c \/ (q \in 1 .. c /\ d = q - 1)
    BY <1>1 DEF BoundUpTo
  <2> HIDE DEF p, q, d
  <2>2. CASE d = c
    BY <1>b, <2>2
  <2>3. CASE q \in 1 .. c /\ d = q - 1
    BY <1>b, <2>3
  <2> QED
    BY <2>1, <2>2, <2>3
<1>3. KidsAre(ks, ns, p, d)
  BY <1>2, KidsHold
<1>4. /\ Collected(ns, ks, f.kind, b)
      /\ f.kind = "map" /\ i < m => f.key = ns[q].leaf.key
  BY DEF Filled
<1>5. \A k \in 1 .. c : Tree!Parent(ns, k) = p => Fits(ns[k], f)
  BY DEF Open
<1> HIDE DEF p, q, f, b, d, ks
<1> SUFFICES ASSUME f.kind = "map" PROVE FrameKeysReal(ns, f, b, i < m)
  BY DEF FrameKeysReal, f, b
<1>6. /\ Len(b) = Len(ks)
      /\ \A j \in 1 .. Len(ks) :
           /\ b[j].key = ns[ks[j]].leaf.key
           /\ ks[j] \in 1 .. d /\ ks[j] \in 1 .. c /\ ks[j] \in 1 .. Len(ns)
           /\ Tree!Parent(ns, ks[j]) = p /\ Fits(ns[ks[j]], f)
  <2>1. \A x \in 1 .. d : x \in 1 .. c /\ x \in 1 .. Len(ns)
    BY <1>0, <1>2 DEF N
  <2> QED
    BY <1>3, <1>4, <1>5, <2>1 DEF Collected, KidsAre
<1>7. ASSUME NEW u \in 1 .. Len(b), NEW v \in 1 .. Len(b), u < v, b[u].key = b[v].key
      PROVE  Tree!Repeated(ns, b[u].key)
  <2>1. ks[u] < ks[v]
    BY <1>3, <1>6, <1>7 DEF KidsAre
  <2> QED
    BY <1>6, <1>7, <2>1, TwoEntries
<1>8. ASSUME i < m, NEW u \in 1 .. Len(b), b[u].key = f.key
      PROVE  Tree!Repeated(ns, f.key)
  <2>1. q \in 1 .. c /\ Tree!Parent(ns, q) = p /\ d = q - 1 /\ q \in 1 .. Len(ns) /\ q \in Nat
    BY <1>0, <1>1, <1>8 DEF N
  <2>2. ks[u] < q
    <3>1. ks[u] \in 1 .. d /\ d \in Nat
      BY <1>2, <1>6
    <3>2. \A x \in 1 .. d : x < q
      BY <2>1, <3>1
    <3> QED
      BY <3>1, <3>2
  <2>3. f.key = ns[q].leaf.key /\ Fits(ns[q], f)
    BY <1>4, <1>5, <1>8, <2>1
  <2> QED
    BY <1>6, <1>8, <2>1, <2>2, <2>3, TwoEntries
<1> QED
  BY <1>7, <1>8 DEF FrameKeysReal

LEMMA FollowsKeys ==
  TypeOK /\ NestingFollowsIndent /\ pc # "done" /\ Follows => KeysReal
<1> SUFFICES ASSUME TypeOK, NestingFollowsIndent, pc # "done", Follows,
                    NEW i \in 1 .. Len(frames)
             PROVE  FrameKeysReal(Tree!Nodes(lines), frames[i], built[i], Suspended(i))
  BY DEF KeysReal
<1> DEFINE ns == Tree!Nodes(lines)
           m == Owners(Len(frames), pc)
<1>1. PICK c \in Nat, ps \in [Nat -> Nat] : Reading(ns, c, ps, rest, frames, built, pc, blk.type)
  BY DEF Follows, Tracked
<1>2. AreNodes(ns) /\ rest \in Seq(Line) /\ Len(frames) \in Nat
  BY LinesAreNodes, FramesStack
<1>3. Suffix(ns, c, rest) /\ Open(ns, c, ps, frames, m) /\ Filled(ns, c, ps, frames, built, m)
  BY <1>1 DEF Reading
<1>4. c \in 0 .. Len(ns)
  <2> HIDE DEF ns
  <2> QED
    BY <1>2, <1>3, SuffixBound
<1>5. m \in Nat /\ Len(frames) <= m
  <2> DEFINE n == Len(frames)
  <2>1. n \in Nat /\ m = n + (IF pc = "loop" THEN 0 ELSE 1)
    BY <1>2 DEF Owners
  <2> HIDE DEF n, m
  <2>2. m \in Nat /\ n <= m
    BY <2>1
  <2> QED
    BY <2>2 DEF n
<1>6. frames # << >>
  BY <1>2, EmptySeq
<1>7. Suspended(i) <=> i < m
  <2>1. pc \in {"block", "nested", "loop", "return"}
    BY <1>6 DEF TypeOK
  <2>2. CASE pc = "loop"
    BY <1>2, <2>2 DEF Suspended, Owners
  <2>3. CASE pc # "loop"
    <3>1. m = Len(frames) + 1
      BY <2>3 DEF Owners
    <3>2. i < m
      BY <1>2, <3>1
    <3> QED
      BY <2>1, <2>3, <3>2 DEF Suspended
  <2> QED
    BY <2>2, <2>3
<1> HIDE DEF ns, m
<1>8. FrameKeysReal(ns, frames[i], built[i], i < m)
  BY <1>2, <1>3, <1>4, <1>5, ReadingKeys
<1> QED
  BY <1>7, <1>8 DEF FrameKeysReal, ns

LEMMA FollowsKeysNext ==
  TypeOK' /\ NestingFollowsIndent' /\ pc' # "done" /\ Follows' => KeysReal'
<1>1. (TypeOK /\ NestingFollowsIndent /\ pc # "done" /\ Follows => KeysReal)'
  BY FollowsKeys, PTL
<1> QED
  BY <1>1

LEMMA LeaveKeys ==
  ASSUME TypeOK, KeysReal, frames # << >>, NEW t, NEW ok, NEW left, Leave(t, ok, left)
  PROVE  KeysReal'
<1>1. /\ Len(frames') \in Nat /\ Len(frames) = Len(frames') + 1
      /\ \A j \in 1 .. Len(frames') : frames'[j] = frames[j]
  BY LeaveFrames
<1>2. \A j \in 1 .. Len(frames') : built'[j] = built[j]
  <2>1. IsSequence(built) /\ Len(built) = Len(frames)  BY DEF TypeOK
  <2>2. built # << >>  BY <1>1, <2>1, EmptySeq
  <2>3. LET b == SubSeq(built, 1, Len(built) - 1)
        IN  Len(b) = Len(built) - 1 /\ \A j \in 1 .. Len(b) : b[j] = built[j]
    BY <2>1, <2>2, SequenceFront
  <2> QED BY <1>1, <2>1, <2>3 DEF Leave
<1>3. lines' = lines
  BY DEF Leave, Answer
<1> SUFFICES ASSUME NEW i \in 1 .. Len(frames')
             PROVE  FrameKeysReal(Tree!Nodes(lines'), frames'[i], built'[i], Suspended(i)')
  BY DEF KeysReal
<1>4. i \in 1 .. Len(frames) /\ i < Len(frames)
  BY <1>1
<1>5. FrameKeysReal(Tree!Nodes(lines), frames[i], built[i], Suspended(i)) /\ Suspended(i)
  BY <1>4 DEF KeysReal, Suspended
<1>6. FrameKeysReal(Tree!Nodes(lines), frames[i], built[i], Suspended(i)')
  BY <1>5 DEF FrameKeysReal
<1> QED
  BY <1>1, <1>2, <1>3, <1>6

LEMMA AppendedKeys ==
  ASSUME NEW ns, NEW f, NEW b, IsSequence(b), NEW x, FrameKeysReal(ns, f, b, TRUE),
         x.key = f.key, NEW g, g.kind = f.kind
  PROVE  FrameKeysReal(ns, g, Append(b, x), FALSE)
<1> DEFINE s == Append(b, x)
<1>1. /\ Len(s) = Len(b) + 1 /\ \A i \in 1 .. Len(b) : s[i] = b[i]
      /\ s[Len(b) + 1] = x
  BY SequenceAppend
<1>2. Len(b) \in Nat
  BY LenProperties DEF IsSequence
<1> HIDE DEF s
<1> SUFFICES ASSUME f.kind = "map", NEW u \in 1 .. Len(s), NEW v \in 1 .. Len(s),
                    u < v, s[u].key = s[v].key
             PROVE  Tree!Repeated(ns, s[u].key)
  BY DEF FrameKeysReal, s
<1>3. u \in 1 .. Len(b) /\ s[u] = b[u]
  BY <1>1, <1>2
<1>4. CASE v \in 1 .. Len(b)
  BY <1>1, <1>3, <1>4 DEF FrameKeysReal
<1>5. CASE v = Len(b) + 1
  BY <1>1, <1>3, <1>5 DEF FrameKeysReal
<1> QED
  BY <1>1, <1>2, <1>4, <1>5

LEMMA CollectKeys ==
  ASSUME TypeOK, KeysReal, frames # << >>, pc = "return", lines' = lines,
         NEW x, NEW ok \in BOOLEAN, Collect(x, ok),
         Top.kind = "map" => x.key = Top.key
  PROVE  KeysReal'
<1> DEFINE n == Len(frames)
           b == Append(built[n], x)
           S == {built[i] : i \in DOMAIN built} \cup {b}
<1>1. n \in Nat /\ n \in 1 .. n /\ Len(built) = n /\ IsSequence(built[n])
  BY TopFrame DEF TypeOK
<1>2. built \in Seq(S)  BY SeqMonotonic DEF TypeOK, IsSequence
<1>3. built' = [built EXCEPT ![n] = b] /\ Fold(ok, NoKey) /\ pc' = "loop"
  BY <1>1 DEF Collect
<1>4. b \in S  OBVIOUS
<1> HIDE DEF S
<1>5. \A j \in 1 .. n : built'[j] = IF j = n THEN b ELSE built[j]
  <2> HIDE DEF b
  <2> QED
    BY <1>1, <1>2, <1>3, <1>4, ExceptSeq
<1>6. /\ Len(frames') = n
      /\ \A j \in 1 .. n : frames'[j].kind = frames[j].kind /\ (j # n => frames'[j] = frames[j])
  BY <1>3, FoldFrames
<1> SUFFICES ASSUME NEW i \in 1 .. n
             PROVE  FrameKeysReal(Tree!Nodes(lines), frames'[i], built'[i], Suspended(i)')
  BY <1>6 DEF KeysReal
<1>7. FrameKeysReal(Tree!Nodes(lines), frames[i], built[i], TRUE)
  BY DEF KeysReal, Suspended
<1>8. CASE i = n
  <2>1. ~ Suspended(i)'
    BY <1>1, <1>3, <1>6, <1>8 DEF Suspended
  <2>2. CASE frames[i].kind = "map"
    <3>1. x.key = frames[i].key
      BY <1>8, <2>2 DEF Top
    <3>2. IsSequence(built[i]) /\ built'[i] = Append(built[i], x)
      BY <1>1, <1>5, <1>8
    <3>3. FrameKeysReal(Tree!Nodes(lines), frames'[i], Append(built[i], x), FALSE)
      BY <1>6, <1>7, <3>1, <3>2, AppendedKeys
    <3> QED
      BY <2>1, <3>2, <3>3 DEF FrameKeysReal
  <2>3. CASE frames[i].kind # "map"
    BY <1>6, <2>3 DEF FrameKeysReal
  <2> QED
    BY <2>2, <2>3
<1>9. CASE i # n
  BY <1>5, <1>6, <1>7, <1>9 DEF FrameKeysReal
<1> QED
  BY <1>8, <1>9

KeysInv == pc # "done" => KeysReal

LEMMA NextKeys ==
  ASSUME TypeOK, TypeOK', NestingFollowsIndent, NestingFollowsIndent', LoopsHaveEntries,
         DescentInv, KeysInv, Next
  PROVE  KeysInv'
<1> SUFFICES ASSUME pc' # "done" PROVE KeysReal'
  BY DEF KeysInv
<1>1. pc # "done"
  BY DEF Next, BindEmpty, BindBody, BindFinish, ParseBlockPair, ParseBlockSeqitem,
     ParseBlockValue, NestedDeeper, NestedSameIndentSeq, NestedNull, LoopDeeper, MapEnd,
     MapEntryValue, MapEntryNested, MapEntryResume, SeqEnd, SeqEntryAlone,
     SeqEntryInner, SeqEntryResume, Terminated, vars
<1>2. KeysReal
  BY <1>1 DEF KeysInv
<1>3. CASE LoopDeeper \/ MapEnd \/ SeqEnd
  <2>1. frames # << >> /\ \E t, ok, left : Leave(t, ok, left)
    BY <1>3 DEF LoopDeeper, MapEnd, SeqEnd, TypeOK
  <2> QED
    BY <1>2, <2>1, LeaveKeys
<1>4. CASE MapEntryResume
  <2>1. /\ frames # << >> /\ pc = "return" /\ lines' = lines /\ blk.ok \in BOOLEAN
        /\ Collect(Member(Top.key, blk.type), blk.ok)
    BY <1>4 DEF MapEntryResume, TypeOK
  <2>2. Member(Top.key, blk.type).key = Top.key
    BY DEF Member
  <2> QED
    BY <1>2, <2>1, <2>2, CollectKeys
<1>5. CASE SeqEntryResume
  <2>1. /\ frames # << >> /\ pc = "return" /\ lines' = lines /\ blk.ok \in BOOLEAN
        /\ Collect(blk.type, blk.ok) /\ Top.kind # "map"
    BY <1>5 DEF SeqEntryResume, TypeOK
  <2> QED
    BY <1>2, <2>1, CollectKeys
<1>6. CASE Follows /\ ~ LoopDeeper
  <2>1. PICK c \in Nat, ps \in [Nat -> Nat] : Tracked(c, ps)
    BY <1>6 DEF Follows
  <2>2. Follows'
    BY <1>6, <2>1, NextFollows
  <2> QED
    BY <2>2, FollowsKeysNext
<1>7. CASE Lost
  BY <1>3, <1>4, <1>5, <1>7, NextLost DEF Closes
<1> QED
  BY <1>1, <1>3, <1>6, <1>7 DEF DescentInv

(* The leaves still to be read are leaves of the lines. *)
RestReal ==
  \A i \in 1 .. Len(rest) : \E j \in 1 .. Len(lines) : rest[i].leaf = lines[j].leaf

LEMMA NextRest ==
  ASSUME TypeOK, RestReal, Next
  PROVE  RestReal' /\ lines' = lines
<1>0. rest \in Seq(Line) /\ Len(rest) \in Nat
  BY LenProperties DEF TypeOK
<1>1. lines' = lines
  BY DEF Next, BindEmpty, BindBody, BindFinish, ParseBlockPair, ParseBlockSeqitem,
         ParseBlockValue, NestedDeeper, NestedSameIndentSeq, NestedNull, LoopDeeper,
         MapEnd, MapEntryValue, MapEntryNested, MapEntryResume, SeqEnd, SeqEntryAlone,
         SeqEntryInner, SeqEntryResume, Terminated, vars, Enter, Answer, Leave
<1>2. CASE rest' = rest
  BY <1>1, <1>2 DEF RestReal
<1>3. CASE rest' = << >>
  <2>1. Len(rest') = 0
    BY <1>3, EmptySeq
  <2> QED
    BY <1>1, <2>1 DEF RestReal
<1>4. CASE rest # << >> /\ rest' = Tail(rest)
  <2>1. Len(rest') = Len(rest) - 1 /\ \A i \in 1 .. Len(rest') : rest'[i] = rest[i + 1]
    BY <1>0, <1>4, RestHeadTail
  <2>2. \A i \in 1 .. Len(rest') : i + 1 \in 1 .. Len(rest)
    BY <1>0, <2>1
  <2> QED
    BY <1>1, <2>1, <2>2 DEF RestReal
<1>5. CASE SeqEntryInner
  <2>1. /\ rest # << >> /\ NodeIsSeqitem(Current) /\ HasInner(Current)
        /\ rest' = << Synthetic(Current) >> \o Tail(rest)
    BY <1>5 DEF SeqEntryInner, SeqEnds
  <2>2. /\ Len(rest') = Len(rest)
        /\ rest'[1] = Synthetic(Current)
        /\ \A i \in 2 .. Len(rest) : rest'[i] = rest[i]
    BY <1>0, <2>1, RestSynthetic
  <2>3. Synthetic(Current).leaf = rest[1].leaf
    BY <1>0, <2>1, RestHeadTail, SyntheticLine
  <2>4. \A i \in 1 .. Len(rest) : rest'[i].leaf = rest[i].leaf
    BY <1>0, <2>2, <2>3
  <2> QED
    BY <1>1, <2>2, <2>4 DEF RestReal
<1>6. \/ rest' = rest \/ rest' = << >> \/ (rest # << >> /\ rest' = Tail(rest)) \/ SeqEntryInner
  BY DEF Next, BindEmpty, BindBody, BindFinish, ParseBlockPair, ParseBlockSeqitem,
         ParseBlockValue, NestedDeeper, NestedSameIndentSeq, NestedNull, LoopDeeper,
         MapEnd, MapEntryValue, MapEntryNested, MapEntryResume, SeqEnd, SeqEntryAlone,
         SeqEntryResume, Terminated, vars, Enter, Answer, Leave, MapEnds, SeqEnds
<1> QED
  BY <1>1, <1>2, <1>3, <1>4, <1>5, <1>6

(***************************************************************************)
(* A set of types is genuine for the lines when it has their values and is *)
(* closed under sequences and under the mappings whose repeated keys are   *)
(* in two entries of one block.  All that is bound, accepted or not, is in *)
(* every such set.                                                         *)
(***************************************************************************)
KeysRealIn(ns, ms) ==
  \A u, v \in 1 .. Len(ms) : u < v /\ ms[u].key = ms[v].key => Tree!Repeated(ns, ms[u].key)

Genuine(D, ls) ==
  /\ Null \in D
  /\ \A i \in 1 .. Len(ls) : ls[i].leaf.kind \in {"member", "value"} => ls[i].leaf.val \in D
  /\ \A is \in Seq(D) : Sequence(is) \in D
  /\ \A ms \in Seq(Members(D)) : KeysRealIn(Tree!Nodes(ls), ms) => Mapping(ms) \in D

BoundIsGenuine == \A D : Genuine(D, lines) => AllBuilt(D)

LEMMA NextGenuine ==
  ASSUME TypeOK, KeysInv, RestReal, BoundIsGenuine, Next
  PROVE  BoundIsGenuine'
<1>0. lines' = lines /\ rest \in Seq(Line)
  BY NextRest DEF TypeOK
<1> SUFFICES ASSUME NEW D, Genuine(D, lines) PROVE AllBuilt(D)'
  BY <1>0 DEF BoundIsGenuine
<1>1. AllBuilt(D)
  BY DEF BoundIsGenuine
<1>2. rest # << >> /\ Current.leaf.kind \in {"member", "value"} => Current.leaf.val \in D
  <2> SUFFICES ASSUME rest # << >>, Current.leaf.kind \in {"member", "value"}
               PROVE  Current.leaf.val \in D
    OBVIOUS
  <2>1. Current = rest[1] /\ 1 \in 1 .. Len(rest)
    BY <1>0, RestHeadTail
  <2>2. PICK j \in 1 .. Len(lines) : Current.leaf = lines[j].leaf
    BY <2>1 DEF RestReal
  <2> QED
    BY <2>2 DEF Genuine
<1>3. MapEnd /\ built[Len(built)] \in Seq(Members(D)) => Mapping(built[Len(built)]) \in D
  <2> DEFINE ms == built[Len(built)]
  <2> SUFFICES ASSUME MapEnd, ms \in Seq(Members(D)) PROVE Mapping(ms) \in D
    OBVIOUS
  <2>1. pc = "loop" /\ frames # << >> /\ Top.kind = "map" /\ Len(built) = Len(frames)
    BY DEF MapEnd, TypeOK
  <2>2. Len(frames) \in 1 .. Len(frames)
    BY <2>1, TopFrame
  <2>3. FrameKeysReal(Tree!Nodes(lines), Top, ms, Suspended(Len(frames)))
    BY <2>1, <2>2 DEF KeysInv, KeysReal, Top
  <2> HIDE DEF ms
  <2>4. KeysRealIn(Tree!Nodes(lines), ms)
    BY <2>1, <2>3 DEF FrameKeysReal, KeysRealIn
  <2> QED
    BY <2>4 DEF Genuine
<1>4. StepIn(D)
  BY <1>2, <1>3 DEF StepIn, Genuine
<1> QED
  BY <1>1, <1>4, NextAllBuilt

(***************************************************************************)
(* All the invariants of the binder in one, for whoever runs it.           *)
(***************************************************************************)
BinderInv ==
  /\ TypeOK /\ NestingFollowsIndent /\ LoopsHaveEntries /\ BadScalarsReject
  /\ DescentInv /\ KeysInv /\ RestReal /\ BoundIsGenuine

LEMMA InitBinder == Init => BinderInv
<1> SUFFICES ASSUME Init PROVE BinderInv
  OBVIOUS
<1>1. Len(frames) = 0 /\ Len(built) = 0 /\ pc = "start" /\ rest = lines
  BY EmptySeq DEF Init
<1>2. KeysInv /\ RestReal /\ BoundIsGenuine
  BY <1>1 DEF KeysInv, KeysReal, RestReal, BoundIsGenuine, AllBuilt
<1>3. LoopsHaveEntries
  BY <1>1 DEF LoopsHaveEntries
<1> QED
  BY <1>2, <1>3, InitTypes, InitNesting, InitBadScalars, InitDescent DEF BinderInv

LEMMA NextBinder == BinderInv /\ [Next]_vars => BinderInv'
<1> SUFFICES ASSUME BinderInv, [Next]_vars PROVE BinderInv'
  OBVIOUS
<1>1. TypeOK' /\ NestingFollowsIndent' /\ LoopsHaveEntries'
  BY NextTypes, NextNesting, NextEntries DEF BinderInv
<1>2. BadScalarsReject'
  BY NextBadScalars, StutterBadScalars DEF BinderInv
<1>3. DescentInv'
  BY <1>2, NextDescent, StutterDescent DEF BinderInv
<1>4. CASE Next
  <2>1. KeysInv'
    BY <1>1, <1>4, NextKeys DEF BinderInv
  <2>2. RestReal' /\ BoundIsGenuine'
    BY <1>4, NextRest, NextGenuine DEF BinderInv
  <2> QED
    BY <1>1, <1>2, <1>3, <2>1, <2>2 DEF BinderInv
<1>5. CASE UNCHANGED vars
  <2>1. KeysInv'
    BY <1>5 DEF BinderInv, vars, KeysInv, KeysReal, Suspended
  <2>2. RestReal'
    BY <1>5 DEF BinderInv, vars, RestReal
  <2>3. BoundIsGenuine'
    BY <1>5 DEF BinderInv, vars, BoundIsGenuine, AllBuilt
  <2> QED
    BY <1>1, <1>2, <1>3, <2>1, <2>2, <2>3 DEF BinderInv
<1> QED
  BY <1>4, <1>5

(***************************************************************************)
(* Whatever is bound of whatever lines, thrown-away parts or not: a key a  *)
(* mapping of it has twice is in two entries of one block of the text.     *)
(***************************************************************************)
THEOREM BoundKeysReal ==
  Spec => [](pc = "done" => \A D : Genuine(D, lines) => blk.type \in D)
<1>1. BinderInv => (pc = "done" => \A D : Genuine(D, lines) => blk.type \in D)
  BY DEF BinderInv, BoundIsGenuine, AllBuilt
<1> QED
  BY <1>1, InitBinder, NextBinder, PTL DEF Spec

-----------------------------------------------------------------------------
(***************************************************************************)
(* The tree of a legal line list: the value of every node is in it, as a   *)
(* set of types sees it that has the parts of what it has.                 *)
(***************************************************************************)
Hereditary(N) ==
  /\ \A is : Sequence(is) \in N => \A i \in DOMAIN is : is[i] \in N
  /\ \A ms : Mapping(ms) \in N => \A i \in DOMAIN ms : ms[i].value \in N

LEMMA ParentValue ==
  ASSUME NEW ns, AreNodes(ns), Tree!WellIndented(ns), NEW k \in 1 .. Len(ns),
         NEW p, p = Tree!Parent(ns, k)
  PROVE  /\ p \in 0 .. k - 1 /\ p \in 0 .. Len(ns)
         /\ KidsAre(Tree!Children(ns, p), ns, p, Len(ns))
         /\ Tree!Values(ns)[p] = Tree!BlockOf(ns, Tree!Children(ns, p), Tree!Values(ns))
<1> DEFINE N == Len(ns)
<1>1. N \in Nat /\ k \in 1 .. N /\ DOMAIN ns = 1 .. N
  BY DEF AreNodes
<1>2. p \in 0 .. k - 1
  BY ParentIs
<1> HIDE DEF N
<1>3. p \in 0 .. N
  BY <1>1, <1>2
<1>4. KidsAre(Tree!Children(ns, p), ns, p, N)
  BY <1>1, KidsHold DEF Kids, Tree!Children, N
<1>5. Tree!HasRoom(ns, p)
  BY <1>1 DEF Tree!WellIndented
<1>6. Tree!Values(ns)[p] = ValueOf(ns, p, Tree!Values(ns))
  BY <1>3, ValuesDef DEF N
<1>7. ~ (p # 0 /\ ns[p].kind \in {"member", "value"})
  BY <1>5 DEF Tree!HasRoom
<1> QED
  BY <1>2, <1>3, <1>4, <1>6, <1>7 DEF ValueOf, N

LEMMA TreePartsIn ==
  ASSUME NEW ns, AreNodes(ns), Tree!WellIndented(ns), NEW N, Hereditary(N),
         Tree!Values(ns)[0] \in N
  PROVE  \A k \in 0 .. Len(ns) : Tree!Values(ns)[k] \in N
<1> DEFINE val == Tree!Values(ns)
           T == {k \in Nat : k <= Len(ns) /\ val[k] \notin N}
<1>0. Len(ns) \in Nat
  BY DEF AreNodes
<1> SUFFICES ASSUME T # {} PROVE FALSE
  BY <1>0
<1>1. T \in SUBSET Nat
  OBVIOUS
<1>2. PICK k \in T : \A y \in T : k <= y
  <2> HIDE DEF T
  <2> QED
    BY <1>1, Least
<1>3. k \in 1 .. Len(ns) /\ val[k] \notin N /\ k \in Nat
  BY <1>0, <1>2
<1> DEFINE p == Tree!Parent(ns, k)
           ks == Tree!Children(ns, p)
<1>4. /\ p \in 0 .. k - 1 /\ p \in 0 .. Len(ns)
      /\ KidsAre(ks, ns, p, Len(ns))
      /\ val[p] = Tree!BlockOf(ns, ks, val)
  BY <1>3, ParentValue
<1>5. val[p] \in N
  <2> SUFFICES ASSUME val[p] \notin N PROVE FALSE
    OBVIOUS
  <2>1. p \in Nat /\ p < k /\ p <= Len(ns)
    BY <1>0, <1>3, <1>4
  <2>2. p \in T
    BY <2>1
  <2> QED
    BY <1>2, <1>3, <2>1, <2>2
<1>6. PICK i \in 1 .. Len(ks) : ks[i] = k
  BY <1>3, <1>4 DEF KidsAre
<1> HIDE DEF T, ks, val, p
<1>7. ks # << >> /\ DOMAIN ks = 1 .. Len(ks) /\ Len(ks) \in Nat /\ 1 \in 1 .. Len(ks)
  BY <1>4, <1>6, LenProperties, EmptySeq DEF KidsAre
<1>8. ks[1] \in 1 .. Len(ns) /\ Tree!Parent(ns, ks[1]) = p /\ Tree!Parent(ns, k) = p
  BY <1>4, <1>6, <1>7 DEF KidsAre
<1>9. CASE ns[ks[1]].kind = "dash"
  <2> DEFINE e == [j \in DOMAIN ks |-> val[ks[j]]]
  <2>1. val[p] = Sequence(e)
    BY <1>4, <1>7, <1>9 DEF Tree!BlockOf, Tree!Sequence, Sequence
  <2>2. i \in DOMAIN e /\ e[i] = val[k]
    BY <1>6, <1>7
  <2> HIDE DEF e
  <2> QED
    BY <1>3, <1>5, <2>1, <2>2 DEF Hereditary
<1>10. CASE Tree!IsEntry(ns[ks[1]])
  <2> DEFINE e == [j \in DOMAIN ks |-> Tree!Member(ns[ks[j]].leaf.key, val[ks[j]])]
  <2>1. val[p] = Mapping(e)
    BY <1>4, <1>7, <1>10 DEF Tree!BlockOf, Tree!IsEntry, Tree!Mapping, Mapping
  <2>2. i \in DOMAIN e /\ e[i].value = val[k]
    BY <1>6, <1>7 DEF Tree!Member
  <2> HIDE DEF e
  <2> QED
    BY <1>3, <1>5, <2>1, <2>2 DEF Hereditary
<1>11. CASE ~ ns[ks[1]].kind = "dash" /\ ~ Tree!IsEntry(ns[ks[1]])
  <2>1. val[p] = val[ks[1]]
    BY <1>4, <1>7, <1>11 DEF Tree!BlockOf
  <2>2. ns[ks[1]].kind = "value"
    BY <1>8, <1>11 DEF AreNodes, NodeKinds, Tree!IsEntry
  <2>3. ks[1] = k
    BY <1>3, <1>8, <2>2, SameBlock
  <2> QED
    BY <1>3, <1>5, <2>1, <2>3
<1> QED
  BY <1>9, <1>10, <1>11

(* A key that is in two entries of one block is twice in a mapping of it. *)
HasTwice(t, key) ==
  \E ms : t = Mapping(ms) /\ DOMAIN ms = 1 .. Len(ms) /\ Len(ms) \in Nat
          /\ \E u, v \in 1 .. Len(ms) : u < v /\ ms[u].key = key /\ ms[v].key = key

LEMMA TreeRepeats ==
  ASSUME NEW ns, AreNodes(ns), Tree!WellIndented(ns), NEW key, Tree!Repeated(ns, key)
  PROVE  \E p \in 0 .. Len(ns) : HasTwice(Tree!Values(ns)[p], key)
<1> DEFINE val == Tree!Values(ns)
<1>0. DOMAIN ns = 1 .. Len(ns) /\ Len(ns) \in Nat
  BY DEF AreNodes
<1>1. PICK i \in 1 .. Len(ns), j \in 1 .. Len(ns) :
        /\ i < j /\ Tree!IsEntry(ns[i]) /\ Tree!IsEntry(ns[j])
        /\ Tree!Parent(ns, i) = Tree!Parent(ns, j)
        /\ ns[i].leaf.key = key /\ ns[j].leaf.key = key
  BY <1>0 DEF Tree!Repeated
<1> DEFINE p == Tree!Parent(ns, j)
           ks == Tree!Children(ns, p)
           n == Len(ks)
<1>2. /\ p \in 0 .. Len(ns) /\ KidsAre(ks, ns, p, Len(ns))
      /\ val[p] = Tree!BlockOf(ns, ks, val)
  BY ParentValue
<1>3. PICK x \in 1 .. n, y \in 1 .. n : ks[x] = i /\ ks[y] = j
  <2>1. \E x \in 1 .. n : ks[x] = i
    BY <1>1, <1>2 DEF KidsAre
  <2>2. \E y \in 1 .. n : ks[y] = j
    BY <1>2 DEF KidsAre
  <2> QED
    BY <2>1, <2>2
<1> HIDE DEF val, p
<1>4. ks # << >> /\ DOMAIN ks = 1 .. n /\ n \in Nat /\ 1 \in 1 .. n
  <2> HIDE DEF ks
  <2> QED
    BY <1>2, <1>3, LenProperties, EmptySeq DEF KidsAre
<1> HIDE DEF ks, n
<1>5. x < y
  <2> SUFFICES ASSUME ~ x < y PROVE FALSE
    OBVIOUS
  <2>1. x \in Nat /\ y \in Nat /\ (y < x \/ x = y)
    BY <1>4
  <2>2. y < x => j < i
    BY <1>2, <1>3 DEF KidsAre, n
  <2> QED
    BY <1>1, <1>3, <2>1, <2>2
<1>6. Tree!IsEntry(ns[ks[1]])
  <2>1. ks[1] \in 1 .. Len(ns) /\ Tree!Parent(ns, ks[1]) = p /\ Tree!Parent(ns, j) = p
    BY <1>2, <1>4 DEF KidsAre, n, p
  <2> QED
    BY <1>1, <2>1, SameBlock
<1> DEFINE e == [h \in DOMAIN ks |-> Tree!Member(ns[ks[h]].leaf.key, val[ks[h]])]
<1>7. val[p] = Mapping(e)
  BY <1>2, <1>4, <1>6 DEF Tree!BlockOf, Tree!IsEntry, Tree!Mapping, Mapping
<1>8. DOMAIN e = 1 .. n /\ e[x].key = key /\ e[y].key = key
  BY <1>1, <1>3, <1>4 DEF Tree!Member
<1>9. Len(e) = n
  <2>1. e \in Seq({e[h] : h \in 1 .. n})
    BY <1>4, <1>8, SequenceIntro
  <2> QED
    BY <1>4, <1>8, <2>1, LenProperties
<1> HIDE DEF e
<1>10. HasTwice(val[p], key)
  BY <1>4, <1>5, <1>7, <1>8, <1>9 DEF HasTwice
<1> QED
  BY <1>2, <1>10 DEF val

-----------------------------------------------------------------------------
(* The abstract machine. *)

LEMMA InitImplements == Init => Tree!Init
<1> SUFFICES ASSUME Init PROVE Tree!Init
  OBVIOUS
<1>1. lines \in Docs /\ pc # "done"
  BY DEF Init
<1>2. Outcome = Tree!Pending
  BY <1>1 DEF Outcome, Pending, Tree!Pending
<1> QED
  BY <1>1, <1>2 DEF Tree!Init

LEMMA DoneMeansVerdict ==
  TypeOK /\ DescentInv /\ pc = "done" => Outcome = Tree!Verdict(lines)
<1> SUFFICES ASSUME TypeOK, DescentInv, pc = "done"
             PROVE  Outcome = Tree!Verdict(lines)
  OBVIOUS
<1>1. CASE blk.ok
  <2>1. Tree!Valid(lines) /\ blk.type = Tree!TreeOf(lines)
    BY <1>1 DEF DescentInv, Legal, Tree!Valid
  <2> QED
    BY <1>1, <2>1 DEF Outcome, Accepted, Tree!Verdict, Tree!Accepted
<1>2. CASE ~ blk.ok
  <2>1. ~ Tree!Valid(lines)
    BY <1>2 DEF DescentInv, Failing
  <2> QED
    BY <1>2, <2>1 DEF Outcome, Rejected, Tree!Verdict, Tree!Rejected
<1> QED
  BY <1>1, <1>2

LEMMA DoneMeansVerdictNext ==
  TypeOK' /\ DescentInv' /\ pc' = "done" => Outcome' = Tree!Verdict(lines)'
<1>1. (TypeOK /\ DescentInv /\ pc = "done" => Outcome = Tree!Verdict(lines))'
  BY DoneMeansVerdict, PTL
<1> QED
  BY <1>1

LEMMA NextImplements ==
  ASSUME TypeOK, TypeOK', DescentInv', [Next]_vars
  PROVE  [Tree!Decide]_<< lines, Outcome >>
<1>1. CASE UNCHANGED vars
  BY <1>1 DEF vars, Outcome
<1>2. CASE Next /\ pc = "done"
  <2>1. Terminated
    BY <1>2 DEF Next, BindEmpty, BindBody, BindFinish, ParseBlockPair,
       ParseBlockSeqitem, ParseBlockValue, NestedDeeper, NestedSameIndentSeq,
       NestedNull, LoopDeeper, MapEnd, MapEntryValue, MapEntryNested,
       MapEntryResume, SeqEnd, SeqEntryAlone, SeqEntryInner, SeqEntryResume
  <2> QED
    BY <1>1, <2>1 DEF Terminated
<1>3. CASE Next /\ pc # "done"
  <2>1. lines' = lines
    BY <1>3 DEF Next, BindEmpty, BindBody, BindFinish, ParseBlockPair,
       ParseBlockSeqitem, ParseBlockValue, NestedDeeper, NestedSameIndentSeq,
       NestedNull, LoopDeeper, MapEnd, MapEntryValue, MapEntryNested,
       MapEntryResume, SeqEnd, SeqEntryAlone, SeqEntryInner, SeqEntryResume,
       Terminated, vars, Enter, Answer, Leave
  <2>2. Outcome = Pending
    BY <1>3 DEF Outcome
  <2>3. CASE pc' # "done"
    <3>1. Outcome' = Pending
      BY <2>3 DEF Outcome
    <3> QED
      BY <2>1, <2>2, <3>1
  <2>4. CASE pc' = "done"
    <3>1. Outcome' = Tree!Verdict(lines)'
      BY <2>4, DoneMeansVerdictNext
    <3>2. Outcome' = Tree!Verdict(lines)
      BY <2>1, <3>1
    <3> QED
      BY <2>1, <2>2, <3>2 DEF Tree!Decide, Pending, Tree!Pending
  <2> QED
    BY <2>3, <2>4
<1> QED
  BY <1>1, <1>2, <1>3

(***************************************************************************)
(* Whatever the line list, keys and values: the verdict of the recursive   *)
(* descent, and the document it binds, are those of the tree that the      *)
(* columns describe.                                                       *)
(***************************************************************************)
THEOREM ImplementsTree == Spec => ImplementsIndentTree
<1>1. Init => Tree!Init
  BY InitImplements
<1>2. TypeOK /\ TypeOK' /\ DescentInv' /\ [Next]_vars
      => [Tree!Decide]_<< lines, Outcome >>
  BY NextImplements
<1> QED
  BY <1>1, <1>2, TypeCorrect, DescentFollowsTree, PTL
     DEF Spec, ImplementsIndentTree, Tree!Spec

=============================================================================
