---------------------------- MODULE NaturalOrder ----------------------------
(***************************************************************************)
(* The least and the greatest of a set of natural numbers.  The model      *)
(* speaks of the first and the last of several places in a sequence (an    *)
(* endpoint, a line of a file, a rule of config.yaml); these lemmas say    *)
(* that there is one.                                                      *)
(***************************************************************************)
EXTENDS Integers, FiniteSetTheorems, TLAPS

\* Well-foundedness of the strict subsets of finite sets, applied to the
\* intervals below the members of T.
LEMMA LeastNatural ==
    ASSUME NEW T \in SUBSET Nat, T # {}
    PROVE  \E x \in T : \A y \in T : x <= y
<1> DEFINE Below(x) == 0..x
           U == {Below(x) : x \in T}
           R == StrictSubsetOrdering(Nat)
<1>1. U \subseteq FiniteSubsetsOf(Nat) /\ U # {}
  <2>1. ASSUME NEW x \in T PROVE Below(x) \in SUBSET Nat /\ IsFiniteSet(Below(x))
    BY FS_Interval
  <2> QED  BY <2>1 DEF FiniteSubsetsOf
<1>2. PICK u \in U : \A v \in U : ~(<<v, u>> \in R)
  <2>1. IsWellFoundedOn(R, FiniteSubsetsOf(Nat))
    BY FS_StrictSubsetOrderingWellFounded
  <2> HIDE DEF R, U
  <2> QED  BY <1>1, <2>1, WFMin
<1>3. PICK x \in T : u = Below(x)
  OBVIOUS
<1>4. ASSUME NEW y \in T PROVE x <= y
  <2>1. SUFFICES ASSUME y < x PROVE FALSE
    OBVIOUS
  <2>2. Below(y) \in SUBSET Nat /\ u \in SUBSET Nat
    BY <1>3
  <2>3. Below(y) \subseteq u /\ Below(y) # u
    <3>1. Below(y) \subseteq u
      BY <1>3, <2>1
    <3>2. x \in u /\ x \notin Below(y)
      BY <1>3, <2>1
    <3> QED  BY <3>1, <3>2
  <2>4. <<Below(y), u>> \in R
    BY <2>2, <2>3 DEF StrictSubsetOrdering
  <2> QED  BY <1>2, <2>4
<1> QED  BY <1>3, <1>4

LEMMA GreatestNatural ==
    ASSUME NEW T \in SUBSET Nat, T # {}, NEW b \in Nat, \A x \in T : x <= b
    PROVE  \E x \in T : \A y \in T : y <= x
<1> DEFINE U == {b - x : x \in T}
<1>1. U \in SUBSET Nat /\ U # {}
  <2>1. \A x \in T : b - x \in Nat
    OBVIOUS
  <2>2. PICK t \in T : TRUE
    OBVIOUS
  <2>3. b - t \in U
    OBVIOUS
  <2> QED  BY <2>1, <2>3
<1>2. PICK u \in U : \A v \in U : u <= v
  <2> HIDE DEF U
  <2> QED  BY <1>1, LeastNatural
<1>3. PICK x \in T : u = b - x
  OBVIOUS
<1>4. ASSUME NEW y \in T PROVE y <= x
  <2>1. u <= b - y
    BY <1>2
  <2> QED  BY <2>1, <1>3
<1> QED  BY <1>3, <1>4

\* The last of a set of places, each a number and a number within it.
LEMMA GreatestPair ==
    ASSUME NEW M \in SUBSET (Nat \X Nat), M # {},
           NEW b \in Nat, \A m \in M : m[1] <= b,
           \A i \in Nat : \E c \in Nat : \A m \in M : m[1] = i => m[2] <= c
    PROVE  \E m \in M : \A k \in M : k[1] < m[1] \/ (m[1] = k[1] /\ k[2] <= m[2])
<1> DEFINE I == {m[1] : m \in M}
<1>1. I \in SUBSET Nat /\ I # {} /\ \A i \in I : i <= b
  OBVIOUS
<1>2. PICK i \in I : \A j \in I : j <= i
  <2> HIDE DEF I
  <2> QED  BY <1>1, GreatestNatural
<1> DEFINE J == {j \in Nat : <<i, j>> \in M}
<1>3. \A m \in M : m = <<m[1], m[2]>> /\ m[1] \in Nat /\ m[2] \in Nat
  OBVIOUS
<1>4. J \in SUBSET Nat /\ J # {}
  <2>1. PICK m \in M : m[1] = i
    OBVIOUS
  <2>2. m[2] \in J
    BY <2>1, <1>3
  <2> QED  BY <2>2
<1>5. PICK c \in Nat : \A m \in M : m[1] = i => m[2] <= c
  BY <1>1
<1>6. \A j \in J : j <= c
  BY <1>1, <1>5
<1>7. PICK j \in J : \A k \in J : k <= j
  <2> HIDE DEF J
  <2> QED  BY <1>4, <1>6, GreatestNatural
<1>8. ASSUME NEW k \in M PROVE k[1] < i \/ (i = k[1] /\ k[2] <= j)
  <2>1. k[1] \in I /\ k[1] \in Nat /\ i \in Nat
    BY <1>1, <1>3
  <2>2. k[1] <= i
    BY <1>2, <2>1
  <2>3. k[1] = i => k[2] \in J
    BY <1>3
  <2> QED  BY <1>7, <2>1, <2>2, <2>3
<1>9. <<i, j>> \in M
  OBVIOUS
<1> QED  BY <1>8, <1>9
=============================================================================
