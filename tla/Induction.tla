------------------------------ MODULE Induction ------------------------------
(***************************************************************************)
(* Induction over the natural numbers, in the form the proofs of this      *)
(* project use it: by a least counterexample, and for functions that are   *)
(* defined by recursion on a number.                                       *)
(***************************************************************************)
EXTENDS Integers, WellFoundedInduction, TLAPS

(* Every set of numbers that has a member has a least one. *)
LEMMA Least ==
  ASSUME NEW T \in SUBSET Nat, T # {}
  PROVE  \E x \in T : \A y \in T : x <= y
<1> DEFINE R == {ss \in Nat \X Nat : ss[1] < ss[2]}
<1>1. IsWellFoundedOn(R, Nat)
  BY NatLessThanWellFounded DEF OpToRel
<1>2. \A x, y \in Nat : x < y => << x, y >> \in R
  OBVIOUS
<1> HIDE DEF R
<1>3. T \subseteq Nat
  OBVIOUS
<1>4. \E x \in T : \A y \in T : ~ (<< y, x >> \in R)
  BY <1>1, <1>3, WFMin
<1>5. \A x, y \in T : ~ (y < x) => x <= y
  BY <1>3
<1> QED
  BY <1>2, <1>3, <1>4, <1>5

(* A set with 0 that goes on from each number has them all. *)
LEMMA AllNumbers ==
  ASSUME NEW G \in SUBSET Nat, 0 \in G, \A n \in Nat : n \in G => n + 1 \in G
  PROVE  G = Nat
<1> SUFFICES ASSUME G # Nat PROVE FALSE
  OBVIOUS
<1>1. Nat \ G # {} /\ Nat \ G \in SUBSET Nat
  OBVIOUS
<1>2. PICK x \in Nat \ G : \A y \in Nat \ G : x <= y
  BY <1>1, Least
<1>3. x # 0 /\ x - 1 \in Nat /\ x - 1 < x
  BY <1>2
<1>4. x - 1 \in G
  BY <1>2, <1>3
<1>5. (x - 1) + 1 = x
  BY <1>2
<1> QED
  BY <1>2, <1>3, <1>4, <1>5

(* The same up to a bound. *)
LEMMA AllUpTo ==
  ASSUME NEW m \in Nat, NEW G, 0 \in G, \A n \in 0 .. m - 1 : n \in G => n + 1 \in G
  PROVE  0 .. m \subseteq G
<1> DEFINE H == {n \in Nat : n <= m => n \in G}
<1>1. H \in SUBSET Nat /\ 0 \in H
  OBVIOUS
<1>2. \A n \in Nat : n \in H => n + 1 \in H
  <2> SUFFICES ASSUME NEW n \in Nat, n \in H, n + 1 <= m PROVE n + 1 \in G
    OBVIOUS
  <2>1. n \in 0 .. m - 1 /\ n \in G
    OBVIOUS
  <2> QED
    BY <2>1
<1> HIDE DEF H
<1>3. H = Nat
  BY <1>1, <1>2, AllNumbers
<1> QED
  BY <1>3 DEF H

(* Steps that go up add up. *)
LEMMA Rising ==
  ASSUME NEW m \in Nat, NEW c \in [0 .. m -> Nat], \A k \in 1 .. m : c[k - 1] <= c[k],
         NEW i \in 0 .. m
  PROVE  c[0] <= c[i] /\ c[i] <= c[m]
<1>1. 0 .. m \subseteq {k \in 0 .. m : c[0] <= c[k]}
  <2> DEFINE G == {k \in 0 .. m : c[0] <= c[k]}
  <2>1. 0 \in G
    OBVIOUS
  <2>2. ASSUME NEW n \in 0 .. m - 1, n \in G PROVE n + 1 \in G
    <3>1. n + 1 \in 1 .. m /\ (n + 1) - 1 = n /\ n \in 0 .. m /\ n + 1 \in 0 .. m
      OBVIOUS
    <3>2. c[n] <= c[n + 1]
      BY <3>1
    <3>3. c[0] \in Nat /\ c[n] \in Nat /\ c[n + 1] \in Nat /\ c[0] <= c[n]
      BY <3>1, <2>2
    <3> QED
      BY <3>1, <3>2, <3>3
  <2> HIDE DEF G
  <2>3. 0 .. m \subseteq G
    BY <2>1, <2>2, AllUpTo
  <2> QED
    BY <2>3 DEF G
<1>2. 0 .. m \subseteq {k \in 0 .. m : c[m - k] <= c[m]}
  <2> DEFINE G == {k \in 0 .. m : c[m - k] <= c[m]}
  <2>1. 0 \in G
    OBVIOUS
  <2>2. ASSUME NEW n \in 0 .. m - 1, n \in G PROVE n + 1 \in G
    <3>1. m - n \in 1 .. m /\ (m - n) - 1 = m - (n + 1) /\ n + 1 \in 0 .. m
          /\ m - n \in 0 .. m /\ m - (n + 1) \in 0 .. m
      OBVIOUS
    <3>2. c[m - (n + 1)] <= c[m - n]
      BY <3>1
    <3>3. c[m - (n + 1)] \in Nat /\ c[m - n] \in Nat /\ c[m] \in Nat /\ c[m - n] <= c[m]
      BY <3>1, <2>2
    <3> QED
      BY <3>1, <3>2, <3>3
  <2> HIDE DEF G
  <2>3. 0 .. m \subseteq G
    BY <2>1, <2>2, AllUpTo
  <2> QED
    BY <2>3 DEF G
<1>3. m - i \in 0 .. m /\ m - (m - i) = i
  OBVIOUS
<1> QED
  BY <1>1, <1>2, <1>3

(* f is x at 0, and at every other number what F makes of the value before. *)
Iterates(f, X, x, F) ==
  /\ f \in [Nat -> X]
  /\ f[0] = x
  /\ \A n \in Nat \ {0} : f[n] = F[<< n, f[n - 1] >>]

(***************************************************************************)
(* A function that is given at 0, and at every other number by its value   *)
(* at the number before, exists: f[n \in Nat] == IF n = 0 THEN x ELSE ...  *)
(* f[n - 1] ... defines what it says.                                      *)
(***************************************************************************)
LEMMA RecursionExists ==
  ASSUME NEW X, NEW x \in X, NEW F \in [Nat \X X -> X]
  PROVE  \E f : Iterates(f, X, x, F)
<1> DEFINE Begins(g, m) ==
             g \in [0 .. m -> X] /\ g[0] = x /\ \A n \in 1 .. m : g[n] = F[<< n, g[n - 1] >>]
           G == {m \in Nat : \E g : Begins(g, m)}
<1>1. 0 \in G
  <2>1. Begins([n \in 0 .. 0 |-> x], 0)
    OBVIOUS
  <2> QED
    BY <2>1
<1>2. ASSUME NEW m \in Nat, m \in G PROVE m + 1 \in G
  <2>1. PICK g : Begins(g, m)
    BY <1>2
  <2> DEFINE h == [n \in 0 .. m + 1 |-> IF n = m + 1 THEN F[<< n, g[m] >>] ELSE g[n]]
  <2>2. g[m] \in X /\ F[<< m + 1, g[m] >>] \in X
    BY <2>1
  <2>3. h \in [0 .. m + 1 -> X]
    <3> SUFFICES ASSUME NEW n \in 0 .. m + 1 PROVE h[n] \in X
      OBVIOUS
    <3>1. CASE n = m + 1
      BY <3>1, <2>2
    <3>2. CASE n # m + 1
      <4>1. n \in 0 .. m
        BY <3>2
      <4> QED
        BY <4>1, <3>2, <2>1
    <3> QED
      BY <3>1, <3>2
  <2>4. h[0] = x
    BY <2>1
  <2>5. ASSUME NEW n \in 1 .. m + 1 PROVE h[n] = F[<< n, h[n - 1] >>]
    <3>1. CASE n = m + 1
      BY <3>1
    <3>2. CASE n # m + 1
      <4>1. n \in 1 .. m /\ n - 1 # m + 1 /\ n \in 0 .. m + 1 /\ n - 1 \in 0 .. m + 1
        BY <3>2
      <4>2. h[n] = g[n] /\ h[n - 1] = g[n - 1]
        BY <4>1, <3>2
      <4> QED
        BY <4>1, <4>2, <2>1
    <3> QED
      BY <3>1, <3>2
  <2> HIDE DEF h
  <2>6. Begins(h, m + 1)
    BY <2>3, <2>4, <2>5
  <2> QED
    BY <2>6
<1> HIDE DEF Begins
<1>3. G = Nat
  <2>1. G \in SUBSET Nat
    OBVIOUS
  <2> HIDE DEF G
  <2> QED
    BY <1>1, <1>2, <2>1, AllNumbers
<1> DEFINE At(m) == CHOOSE g : Begins(g, m)
<1>4. \A m \in Nat : Begins(At(m), m)
  BY <1>3
<1> HIDE DEF At, G
(* Beginnings agree. *)
<1>5. ASSUME NEW m \in Nat, NEW l \in Nat, NEW n \in 0 .. m, n \in 0 .. l
      PROVE  At(m)[n] = At(l)[n]
  <2> DEFINE H == {k \in 0 .. n : At(m)[k] = At(l)[k]}
  <2>1. 0 \in H
    BY <1>4 DEF Begins
  <2>2. ASSUME NEW k \in 0 .. n - 1, k \in H PROVE k + 1 \in H
    <3>1. k + 1 \in 1 .. m /\ k + 1 \in 1 .. l /\ (k + 1) - 1 = k /\ k + 1 \in 0 .. n
      BY <1>5
    <3>2. At(m)[k + 1] = F[<< k + 1, At(m)[k] >>] /\ At(l)[k + 1] = F[<< k + 1, At(l)[k] >>]
      BY <3>1, <1>4 DEF Begins
    <3> QED
      BY <3>1, <3>2, <2>2
  <2> HIDE DEF H
  <2>3. 0 .. n \subseteq H
    BY <2>1, <2>2, AllUpTo
  <2>4. n \in 0 .. n
    OBVIOUS
  <2> QED
    BY <2>3, <2>4 DEF H
<1> DEFINE f == [n \in Nat |-> At(n)[n]]
<1>6. f \in [Nat -> X]
  <2>1. \A n \in Nat : At(n)[n] \in X
    BY <1>4 DEF Begins
  <2> QED
    BY <2>1
<1>7. ASSUME NEW n \in Nat PROVE f[n] = IF n = 0 THEN x ELSE F[<< n, f[n - 1] >>]
  <2>1. CASE n = 0
    BY <2>1, <1>4 DEF Begins
  <2>2. CASE n # 0
    <3>1. n - 1 \in Nat /\ n \in 1 .. n /\ n - 1 \in 0 .. n /\ n - 1 \in 0 .. n - 1
      BY <2>2
    <3>2. At(n)[n] = F[<< n, At(n)[n - 1] >>]
      BY <3>1, <1>4 DEF Begins
    <3>3. At(n)[n - 1] = At(n - 1)[n - 1]
      BY <3>1, <1>5
    <3> QED
      BY <2>2, <3>1, <3>2, <3>3
  <2> QED
    BY <2>1, <2>2
<1> HIDE DEF f
<1> QED
  BY <1>6, <1>7 DEF Iterates

IteratesUpTo(f, m, X, x, F) ==
  /\ f \in [0 .. m -> X]
  /\ f[0] = x
  /\ \A n \in 1 .. m : f[n] = F[<< n, f[n - 1] >>]

(* The same for a function on the numbers up to m. *)
LEMMA RecursionUpTo ==
  ASSUME NEW m \in Nat, NEW X, NEW x \in X, NEW F \in [(1 .. m) \X X -> X]
  PROVE  \E f : IteratesUpTo(f, m, X, x, F)
<1> DEFINE H == [q \in Nat \X X |-> IF q[1] \in 1 .. m THEN F[q] ELSE x]
<1>1. H \in [Nat \X X -> X]
  <2> SUFFICES ASSUME NEW n \in Nat, NEW y \in X PROVE H[<< n, y >>] \in X
    OBVIOUS
  <2> QED
    OBVIOUS
<1>2. ASSUME NEW n \in 1 .. m, NEW y \in X
      PROVE  H[<< n, y >>] = F[<< n, y >>]
  OBVIOUS
<1> HIDE DEF H
<1>3. PICK g : Iterates(g, X, x, H)
  BY <1>1, RecursionExists
<1> DEFINE f == [n \in 0 .. m |-> g[n]]
<1>4. f \in [0 .. m -> X] /\ f[0] = x
  BY <1>3 DEF Iterates
<1>5. ASSUME NEW n \in 1 .. m PROVE f[n] = F[<< n, f[n - 1] >>]
  <2>1. n \in Nat \ {0} /\ n - 1 \in Nat /\ n - 1 \in 0 .. m /\ n \in 0 .. m
    OBVIOUS
  <2>2. g[n] = H[<< n, g[n - 1] >>] /\ g[n - 1] \in X
    BY <1>3, <2>1 DEF Iterates
  <2> QED
    BY <1>2, <2>1, <2>2
<1> HIDE DEF f
<1>6. IteratesUpTo(f, m, X, x, F)
  BY <1>4, <1>5 DEF IteratesUpTo
<1> QED
  BY <1>6

(* A function on 1 .. m that goes on to a later place, or stops. *)
Jumps(f, m, X, G, nx, F, b) ==
  /\ f \in [1 .. m -> X]
  /\ \A n \in 1 .. m : f[n] = IF n \in G THEN F[<< n, f[nx[n]] >>] ELSE b[n]

(* A function that is defined from its values at later places. *)
LEMMA RecursionForward ==
  ASSUME NEW m \in Nat, NEW X, NEW G, NEW nx, NEW F \in [(1 .. m) \X X -> X],
         NEW b \in [1 .. m -> X],
         \A n \in 1 .. m : n \in G => nx[n] \in n + 1 .. m
  PROVE  \E f : Jumps(f, m, X, G, nx, F, b)
<1> DEFINE After(g, k) ==
             /\ g \in [1 .. m -> X]
             /\ \A n \in 1 .. m : n > k => g[n] = IF n \in G THEN F[<< n, g[nx[n]] >>] ELSE b[n]
           H == {l \in 0 .. m : \E g : After(g, m - l)}
<1>1. 0 \in H
  <2>1. After(b, m - 0)
    OBVIOUS
  <2> HIDE DEF After
  <2> QED
    BY <2>1
<1>2. ASSUME NEW l \in 0 .. m - 1, l \in H PROVE l + 1 \in H
  <2>1. PICK g : After(g, m - l)
    BY <1>2
  <2> DEFINE k == m - l
             v == IF k \in G THEN F[<< k, g[nx[k]] >>] ELSE b[k]
             h == [g EXCEPT ![k] = v]
  <2>2. k \in 1 .. m /\ m - (l + 1) = k - 1 /\ l + 1 \in 0 .. m
    OBVIOUS
  <2>3. g \in [1 .. m -> X] /\ \A n \in 1 .. m : n > k => g[n] = IF n \in G THEN F[<< n, g[nx[n]] >>] ELSE b[n]
    BY <2>1
  <2>4. v \in X
    <3>1. CASE k \in G
      <4>1. nx[k] \in 1 .. m
        BY <2>2, <3>1
      <4> QED
        BY <2>2, <2>3, <3>1, <4>1
    <3> QED
      BY <2>2, <3>1
  <2> HIDE DEF v, k
  <2>5. h \in [1 .. m -> X] /\ h[k] = v /\ \A n \in 1 .. m : n # k => h[n] = g[n]
    BY <2>2, <2>3, <2>4
  <2> HIDE DEF h
  <2>6. ASSUME NEW n \in 1 .. m, n > k - 1
        PROVE  h[n] = IF n \in G THEN F[<< n, h[nx[n]] >>] ELSE b[n]
    <3>1. n \in G => nx[n] \in 1 .. m /\ nx[n] > n
      OBVIOUS
    <3>2. n \in G => h[nx[n]] = g[nx[n]]
      BY <2>2, <2>5, <2>6, <3>1
    <3>3. CASE n = k
      BY <2>5, <3>2, <3>3 DEF v
    <3>4. CASE n # k
      <4>1. n > k
        BY <2>2, <2>6, <3>4
      <4> QED
        BY <2>3, <2>5, <3>2, <3>4, <4>1
    <3> QED
      BY <3>3, <3>4
  <2>7. After(h, m - (l + 1))
    BY <2>2, <2>5, <2>6
  <2> HIDE DEF After
  <2> QED
    BY <2>2, <2>7
<1> HIDE DEF H
<1>3. 0 .. m \subseteq H
  BY <1>1, <1>2, AllUpTo
<1>4. m \in H
  BY <1>3
<1>5. PICK g : After(g, m - m)
  BY <1>4 DEF H
<1>6. Jumps(g, m, X, G, nx, F, b)
  BY <1>5 DEF Jumps
<1> QED
  BY <1>6

(* f goes from level to level: what it is on one is what G makes of it on the one before. *)
LevelByLevel(f, D, V, x, G) ==
  /\ f = [n \in Nat |-> f[n]]
  /\ f[0] = x
  /\ \A n \in Nat : f[n] \in [D[n] -> V]
  /\ \A n \in Nat \ {0} : f[n] = G[<< n, f[n - 1] >>]

(* What a level is made of the one below, there is a function on all levels for it. *)
LEMMA LevelsExist ==
  ASSUME NEW D, NEW V, NEW x \in [D[0] -> V], NEW G,
         \A n \in Nat \ {0} : \A g \in [D[n - 1] -> V] : G[<< n, g >>] \in [D[n] -> V]
  PROVE  \E f : LevelByLevel(f, D, V, x, G)
<1> DEFINE X == UNION {[D[n] -> V] : n \in Nat}
           Fits(n, g) == n # 0 /\ g \in [D[n - 1] -> V]
           F == [q \in Nat \X X |-> IF Fits(q[1], q[2]) THEN G[q] ELSE x]
<1>1. x \in X
  OBVIOUS
<1>2. ASSUME NEW n \in Nat, NEW g \in X
      PROVE  /\ F[<< n, g >>] \in X
             /\ Fits(n, g) => F[<< n, g >>] = G[<< n, g >>]
  <2>1. F[<< n, g >>] = IF Fits(n, g) THEN G[<< n, g >>] ELSE x
    OBVIOUS
  <2>2. Fits(n, g) => G[<< n, g >>] \in [D[n] -> V]
    OBVIOUS
  <2>3. [D[n] -> V] \subseteq X
    OBVIOUS
  <2> HIDE DEF F, X, Fits
  <2> QED
    BY <1>1, <2>1, <2>2, <2>3
<1>3. F \in [Nat \X X -> X]
  <2>1. F = [q \in Nat \X X |-> F[q]]
    OBVIOUS
  <2>2. \A q \in Nat \X X : q = << q[1], q[2] >> /\ q[1] \in Nat /\ q[2] \in X
    <3> HIDE DEF X
    <3> QED
      OBVIOUS
  <2>3. \A q \in Nat \X X : F[q] \in X
    <3> HIDE DEF X, F, Fits
    <3> TAKE q \in Nat \X X
    <3>1. q = << q[1], q[2] >> /\ q[1] \in Nat /\ q[2] \in X
      BY <2>2
    <3>2. F[<< q[1], q[2] >>] \in X
      BY <3>1, <1>2
    <3> QED
      BY <3>1, <3>2
  <2> HIDE DEF F, X
  <2> QED
    BY <2>1, <2>3
<1>4. \A n \in Nat : [D[n] -> V] \subseteq X
  OBVIOUS
<1> HIDE DEF F, X
<1>5. PICK f : Iterates(f, X, x, F)
  BY <1>1, <1>3, RecursionExists
<1> DEFINE H == {n \in Nat : f[n] \in [D[n] -> V]}
<1>6. 0 \in H
  BY <1>5 DEF Iterates
<1>7. ASSUME NEW n \in Nat, n \in H PROVE n + 1 \in H /\ f[n + 1] = G[<< n + 1, f[n] >>]
  <2>1. n + 1 \in Nat \ {0} /\ (n + 1) - 1 = n /\ f[n] \in [D[n] -> V] /\ f[n] \in X
    BY <1>4, <1>7
  <2>2. f[n + 1] = F[<< n + 1, f[(n + 1) - 1] >>]
    BY <1>5, <2>1 DEF Iterates
  <2>3. Fits(n + 1, f[n])
    BY <2>1
  <2>4. f[n + 1] = G[<< n + 1, f[n] >>]
    BY <1>2, <2>1, <2>2, <2>3
  <2>5. G[<< n + 1, f[n] >>] \in [D[n + 1] -> V]
    BY <2>1
  <2> QED
    BY <2>1, <2>4, <2>5
<1>8. H = Nat
  <2>1. H \in SUBSET Nat
    OBVIOUS
  <2> HIDE DEF H
  <2> QED
    BY <1>6, <1>7, <2>1, AllNumbers
<1>9. \A n \in Nat : f[n] \in [D[n] -> V]
  BY <1>8
<1>10. \A n \in Nat \ {0} : f[n] = G[<< n, f[n - 1] >>]
  <2> TAKE n \in Nat \ {0}
  <2>1. n - 1 \in Nat /\ (n - 1) + 1 = n /\ n - 1 \in H
    BY <1>8
  <2> HIDE DEF H
  <2> QED
    BY <2>1, <1>7
<1>11. f = [n \in Nat |-> f[n]] /\ f[0] = x
  BY <1>5 DEF Iterates
<1>12. LevelByLevel(f, D, V, x, G)
  BY <1>9, <1>10, <1>11 DEF LevelByLevel
<1> QED
  BY <1>12
=============================================================================
