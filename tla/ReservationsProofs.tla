------------------------- MODULE ReservationsProofs -------------------------
(******************************************************************************)
(* Proofs about Reservations for any finite reservation, any number of links,  *)
(* pools and changes, and any numbers of free hosts.  The first half is about   *)
(* the operators that count: sums, duplicates, sequences put one after the     *)
(* other.  They are defined by recursion, so each is shown to satisfy its       *)
(* recursion, and what it computes follows by induction over sets of numbers.  *)
(******************************************************************************)
EXTENDS Reservations, FiniteSetTheorems, SequenceTheorems, TLAPS

-----------------------------------------------------------------------------
(* Induction and recursion over finite sets.                                 *)

(* Induction over the natural numbers, with a set for the claim.              *)
LEMMA SetInduction ==
  ASSUME NEW S, 0 \in S, \A n \in Nat : n \in S => n + 1 \in S
  PROVE  \A n \in Nat : n \in S
<1>1. SUFFICES ASSUME NEW x \in Nat, x \notin S
               PROVE  FALSE
  OBVIOUS
<1>. DEFINE T == {n \in 0 .. x : n \notin S}
            down == [n \in T |-> n - 1]
<1>2. \A n \in T : n # 0 /\ n - 1 \in T
  <2>. SUFFICES ASSUME NEW n \in T
       PROVE  n # 0 /\ n - 1 \in T
    OBVIOUS
  <2>1. n \in Nat /\ n # 0 /\ n <= x
    OBVIOUS
  <2>2. n - 1 \in 0 .. x /\ (n - 1) + 1 = n
    BY <2>1
  <2> QED BY <2>1, <2>2
<1>3. IsFiniteSet(T)
  <2>1. IsFiniteSet(0 .. x)
    BY FS_Interval
  <2> QED BY <2>1, FS_Subset
<1>4. down \in Injection(T, T)
  <2>1. down \in [T -> T]
    BY <1>2
  <2>2. \A a, b \in T : down[a] = down[b] => a = b
    OBVIOUS
  <2>. HIDE DEF T, down
  <2> QED BY <2>1, <2>2 DEF Injection, IsInjective
<1>5. down \in Surjection(T, T)
  BY <1>3, <1>4, FS_Injection
<1>6. x \in T
  BY <1>1
<1>7. PICK n \in T : down[n] = x
  BY <1>5, <1>6 DEF Surjection
<1> QED BY <1>7

(* Induction over the subsets of a finite set, again with a set for the claim. *)
LEMMA SubsetInduction ==
  ASSUME NEW S, IsFiniteSet(S), NEW C, {} \in C,
         \A T \in SUBSET S : T # {} /\ (\A x \in T : T \ {x} \in C) => T \in C
  PROVE  \A T \in SUBSET S : T \in C
<1>. DEFINE Claim == {n \in Nat : \A T \in SUBSET S : Cardinality(T) = n => T \in C}
<1>1. \A T \in SUBSET S : IsFiniteSet(T) /\ Cardinality(T) \in Nat
  BY FS_Subset, FS_CardinalityType
<1>2. 0 \in Claim
  BY <1>1, FS_EmptySet
<1>3. \A n \in Nat : n \in Claim => n + 1 \in Claim
  <2>. SUFFICES ASSUME NEW n \in Nat, n \in Claim, NEW T \in SUBSET S,
                       Cardinality(T) = n + 1
       PROVE  T \in C
    OBVIOUS
  <2>0. Cardinality({}) = 0
    BY FS_EmptySet
  <2>1. T # {}
    BY <2>0
  <2>3. \A U \in SUBSET S : Cardinality(U) = n => U \in C
    OBVIOUS
  <2>2. ASSUME NEW x \in T
        PROVE  T \ {x} \in C
    <3>1. Cardinality(T \ {x}) = n
      BY <1>1, FS_RemoveElement
    <3>2. T \ {x} \in SUBSET S
      OBVIOUS
    <3>. HIDE DEF Claim
    <3> QED BY <2>3, <3>1, <3>2
  <2> QED BY <2>1, <2>2
<1>4. \A n \in Nat : n \in Claim
  <2>. HIDE DEF Claim
  <2> QED BY <1>2, <1>3, SetInduction
<1> QED BY <1>1, <1>4

(* A recursion over the subsets of a finite set: which element of a subset is  *)
(* taken out, and what becomes of it and of the value of the others.          *)
Picks(pick, S) == \A T \in SUBSET S : T # {} => pick[T] \in T
Steps(step, S, V) == \A x \in S, v \in V : step[<<x, v>>] \in V
Recursion(h, S, base, pick, step) ==
  \A T \in SUBSET S :
    h[T] = IF T = {} THEN base ELSE step[<<pick[T], h[T \ {pick[T]}]>>]

(* It has a solution if the set is finite.                                    *)
LEMMA Iteration ==
  ASSUME NEW S, IsFiniteSet(S), NEW V, NEW base \in V,
         NEW pick, Picks(pick, S), NEW step, Steps(step, S, V)
  PROVE  \E h \in [SUBSET S -> V] : Recursion(h, S, base, pick, step)
<1>. USE DEF Picks, Steps
<1>. DEFINE Small(n) == {T \in SUBSET S : Cardinality(T) <= n}
            Value(h, T) == IF T = {} THEN base
                           ELSE step[<<pick[T], h[T \ {pick[T]}]>>]
            Solves(n, h) == /\ h \in [Small(n) -> V]
                            /\ \A T \in Small(n) : h[T] = Value(h, T)
            Claim == {n \in Nat : \E h : Solves(n, h)}
<1>1. \A T \in SUBSET S : IsFiniteSet(T) /\ Cardinality(T) \in Nat
  BY FS_Subset, FS_CardinalityType
<1>2. 0 \in Claim
  <2>. DEFINE h == [T \in Small(0) |-> base]
  <2>1. \A T \in Small(0) : T = {}
    BY <1>1, FS_EmptySet
  <2>2. Solves(0, h)
    BY <2>1
  <2> QED BY <2>2
<1>3. \A n \in Nat : n \in Claim => n + 1 \in Claim
  <2>. SUFFICES ASSUME NEW n \in Nat, NEW h, Solves(n, h)
       PROVE  n + 1 \in Claim
    OBVIOUS
  <2>. DEFINE g == [T \in Small(n + 1) |-> Value(h, T)]
  <2>1. ASSUME NEW T \in Small(n + 1), T # {}
        PROVE  /\ pick[T] \in S
               /\ T \ {pick[T]} \in Small(n)
    <3>1. pick[T] \in T
      BY <2>1
    <3>2. Cardinality(T \ {pick[T]}) = Cardinality(T) - 1
      BY <1>1, <3>1, FS_RemoveElement
    <3>3. Cardinality(T) \in Nat /\ Cardinality(T) <= n + 1
      BY <1>1
    <3> QED BY <3>1, <3>2, <3>3
  <2>2. \A T \in Small(n + 1) : Value(h, T) \in V
    <3>. SUFFICES ASSUME NEW T \in Small(n + 1), T # {}
         PROVE  Value(h, T) \in V
      OBVIOUS
    <3>1. pick[T] \in S /\ h[T \ {pick[T]}] \in V
      BY <2>1
    <3> QED BY <3>1
  <2>3. \A T \in Small(n) : T \in Small(n + 1) /\ g[T] = h[T]
    <3>1. \A T \in Small(n) : T \in Small(n + 1)
      BY <1>1
    <3> QED BY <3>1
  <2>4. \A T \in Small(n + 1) : g[T] = Value(g, T)
    <3>. SUFFICES ASSUME NEW T \in Small(n + 1), T # {}
         PROVE  Value(h, T) = Value(g, T)
      OBVIOUS
    <3>1. h[T \ {pick[T]}] = g[T \ {pick[T]}]
      BY <2>1, <2>3
    <3> QED BY <3>1
  <2>5. g \in [Small(n + 1) -> V]
    BY <2>2
  <2>6. Solves(n + 1, g)
    <3>. HIDE DEF g, Value
    <3> QED BY <2>4, <2>5
  <2>. HIDE DEF g, Solves
  <2> QED BY <2>6
<1>4. Cardinality(S) \in Claim
  <2>. HIDE DEF Claim
  <2> QED BY <1>1, <1>2, <1>3, SetInduction
<1>5. PICK h : Solves(Cardinality(S), h)
  BY <1>4
<1>6. Small(Cardinality(S)) = SUBSET S
  BY FS_Subset
<1>. HIDE DEF Small
<1> QED BY <1>5, <1>6 DEF Recursion

-----------------------------------------------------------------------------
(* Sums over finite sets.                                                    *)

Some(T) == CHOOSE x \in T : TRUE

(* What any solution of the recursion of a sum gives for a subset.            *)
SolvesSum(h, f, S) ==
  h = [T \in SUBSET S |->
         IF T = {} THEN 0 ELSE f[Some(T)] + h[T \ {Some(T)}]]

(* A sum is what a solution chosen for its recursion says of the whole set.  *)
LEMMA SumChosen ==
  ASSUME NEW S, NEW f
  PROVE  SumFunctionOnSet(f, S) = (CHOOSE h : SolvesSum(h, f, S))[S]
BY DEF SumFunctionOnSet, FoldFunctionOnSet, MapThenFoldSet, SolvesSum, Some

(* Any two solutions agree where both are defined.                            *)
LEMMA SumAgree ==
  ASSUME NEW f, NEW S, NEW T, IsFiniteSet(T), T \subseteq S,
         NEW g, SolvesSum(g, f, S), NEW h, SolvesSum(h, f, T)
  PROVE  \A U \in SUBSET T : g[U] = h[U]
<1>. DEFINE C == {U \in SUBSET T : g[U] = h[U]}
<1>1. {} \in C
  BY DEF SolvesSum
<1>2. ASSUME NEW U \in SUBSET T, U # {}, \A x \in U : U \ {x} \in C
      PROVE  U \in C
  <2>1. g[U] = f[Some(U)] + g[U \ {Some(U)}]
    BY <1>2 DEF SolvesSum
  <2>2. h[U] = f[Some(U)] + h[U \ {Some(U)}]
    BY <1>2 DEF SolvesSum
  <2>3. g[U \ {Some(U)}] = h[U \ {Some(U)}]
    BY <1>2 DEF Some
  <2> QED BY <2>1, <2>2, <2>3
<1>3. \A U \in SUBSET T : U \in C
  <2>. HIDE DEF C
  <2> QED BY <1>1, <1>2, SubsetInduction
<1> QED BY <1>3

(* Over a finite set such a solution exists, and the sum is its value.       *)
LEMMA SumSolution ==
  ASSUME NEW S, IsFiniteSet(S), NEW f, \A x \in S : f[x] \in Nat
  PROVE  \E h \in [SUBSET S -> Nat] :
           SolvesSum(h, f, S) /\ SumFunctionOnSet(f, S) = h[S]
<1>. DEFINE pick == [T \in SUBSET S |-> Some(T)]
            step == [p \in S \X Nat |-> f[p[1]] + p[2]]
<1>1. \A T \in SUBSET S : pick[T] = Some(T) /\ (T # {} => pick[T] \in T)
  BY DEF Some
<1>2. \A x \in S, v \in Nat : step[<<x, v>>] = f[x] + v /\ step[<<x, v>>] \in Nat
  OBVIOUS
<1>3. PICK h \in [SUBSET S -> Nat] : Recursion(h, S, 0, pick, step)
  <2>1. Picks(pick, S)
    BY <1>1 DEF Picks
  <2>2. Steps(step, S, Nat)
    BY <1>2 DEF Steps
  <2>. HIDE DEF pick, step
  <2> QED BY <2>1, <2>2, Iteration
<1>4. SolvesSum(h, f, S)
  <2>1. ASSUME NEW T \in SUBSET S, T # {}
        PROVE  h[T] = f[Some(T)] + h[T \ {Some(T)}]
    <3>1. pick[T] \in S /\ h[T \ {pick[T]}] \in Nat
      BY <2>1, <1>1
    <3>. HIDE DEF pick, step
    <3> QED BY <2>1, <3>1, <1>1, <1>2, <1>3 DEF Recursion
  <2>2. h[{}] = 0
    BY <1>3 DEF Recursion
  <2>3. h = [T \in SUBSET S |-> h[T]]
    OBVIOUS
  <2> QED BY <2>1, <2>2, <2>3 DEF SolvesSum
<1>. DEFINE g == CHOOSE g : SolvesSum(g, f, S)
<1>5. SolvesSum(g, f, S)
  BY <1>4
<1>6. SumFunctionOnSet(f, S) = g[S]
  BY SumChosen
<1>. HIDE DEF g
<1>7. \A T \in SUBSET S : g[T] = h[T]
  <2> QED BY <1>4, <1>5, SumAgree
<1>8. g = h
  BY <1>5, <1>7 DEF SolvesSum
<1> QED BY <1>4, <1>6, <1>8

(* Every element of a finite set adds its value to the sum.                   *)
LEMMA Sums ==
  ASSUME NEW S, IsFiniteSet(S), NEW f, \A x \in S : f[x] \in Nat
  PROVE  /\ SumFunctionOnSet(f, S) \in Nat
         /\ S = {} => SumFunctionOnSet(f, S) = 0
         /\ \A x \in S :
              SumFunctionOnSet(f, S) = SumFunctionOnSet(f, S \ {x}) + f[x]
<1>1. PICK h \in [SUBSET S -> Nat] :
        SolvesSum(h, f, S) /\ SumFunctionOnSet(f, S) = h[S]
  BY SumSolution
<1>2. h[{}] = 0
  BY <1>1 DEF SolvesSum
<1>. DEFINE C == {T \in SUBSET S : \A x \in T : h[T] = h[T \ {x}] + f[x]}
<1>3. ASSUME NEW T \in SUBSET S, T # {}, \A x \in T : T \ {x} \in C, NEW x \in T
      PROVE  h[T] = h[T \ {x}] + f[x]
  <2>. DEFINE c == Some(T)
  <2>1. c \in T /\ h[T] = f[c] + h[T \ {c}]
    BY <1>1, <1>3 DEF SolvesSum, Some
  <2>2. CASE x = c
    BY <2>1, <2>2
  <2>3. CASE x # c
    <3>1. h[T \ {c}] = h[(T \ {c}) \ {x}] + f[x]
      BY <1>3, <2>1, <2>3
    <3>2. h[T \ {x}] = h[(T \ {x}) \ {c}] + f[c]
      BY <1>3, <2>1, <2>3
    <3>3. (T \ {c}) \ {x} = (T \ {x}) \ {c}
      OBVIOUS
    <3>4. (T \ {c}) \ {x} \in SUBSET S /\ x \in S /\ c \in S
      BY <2>1
    <3>5. h[(T \ {c}) \ {x}] \in Nat /\ f[x] \in Nat /\ f[c] \in Nat
      BY <3>4
    <3>6. h[(T \ {c}) \ {x}] = h[(T \ {x}) \ {c}]
      BY <3>3
    <3>. DEFINE a == h[(T \ {c}) \ {x}]
    <3>. HIDE DEF c, C
    <3>7. h[T] = f[c] + (a + f[x]) /\ h[T \ {x}] = a + f[c]
      BY <2>1, <3>1, <3>2, <3>6
    <3>8. a \in Nat /\ f[c] \in Nat /\ f[x] \in Nat
      BY <3>5
    <3>. HIDE DEF a
    <3> QED BY <3>7, <3>8
  <2> QED BY <2>2, <2>3
<1>4. \A T \in SUBSET S : T \in C
  <2>1. {} \in C
    OBVIOUS
  <2>2. \A T \in SUBSET S : T # {} /\ (\A x \in T : T \ {x} \in C) => T \in C
    BY <1>3
  <2>. HIDE DEF C
  <2> QED BY <2>1, <2>2, SubsetInduction
<1>5. ASSUME NEW x \in S
      PROVE  SumFunctionOnSet(f, S \ {x}) = h[S \ {x}]
  <2>. DEFINE T == S \ {x}
  <2>1. IsFiniteSet(T) /\ T \subseteq S /\ \A y \in T : f[y] \in Nat
    BY FS_RemoveElement
  <2>. HIDE DEF T
  <2>2. PICK g \in [SUBSET T -> Nat] :
          SolvesSum(g, f, T) /\ SumFunctionOnSet(f, T) = g[T]
    BY <2>1, SumSolution
  <2>3. \A U \in SUBSET T : h[U] = g[U]
    BY <1>1, <2>1, <2>2, SumAgree
  <2> QED BY <2>2, <2>3 DEF T
<1>6. SumFunctionOnSet(f, S) \in Nat
  BY <1>1
<1>7. S = {} => SumFunctionOnSet(f, S) = 0
  BY <1>1, <1>2
<1>8. \A x \in S : SumFunctionOnSet(f, S) = SumFunctionOnSet(f, S \ {x}) + f[x]
  BY <1>1, <1>4, <1>5
<1> QED BY <1>6, <1>7, <1>8

(* A sum does not depend on how its terms are named.                          *)
LEMMA SumRenamed ==
  ASSUME NEW S, IsFiniteSet(S), NEW f, \A x \in S : f[x] \in Nat,
         NEW T, NEW g, \A y \in T : g[y] \in Nat,
         NEW b \in Bijection(S, T), \A x \in S : f[x] = g[b[x]]
  PROVE  SumFunctionOnSet(f, S) = SumFunctionOnSet(g, T)
<1>. DEFINE Image(U) == {b[x] : x \in U}
            C == {U \in SUBSET S :
                    SumFunctionOnSet(f, U) = SumFunctionOnSet(g, Image(U))}
<1>1. IsFiniteSet(T)
  BY FS_Bijection DEF ExistsBijection
<1>2. /\ b \in [S -> T]
      /\ \A x, y \in S : b[x] = b[y] => x = y
      /\ \A y \in T : \E x \in S : b[x] = y
  BY DEF Bijection, Injection, Surjection, IsInjective
<1>3. ASSUME NEW U \in SUBSET S
      PROVE  /\ IsFiniteSet(U) /\ IsFiniteSet(Image(U))
             /\ \A x \in U : f[x] \in Nat
             /\ \A y \in Image(U) : g[y] \in Nat
  <2>1. Image(U) \in SUBSET T
    BY <1>2
  <2>2. IsFiniteSet(U) /\ IsFiniteSet(Image(U))
    BY <1>1, <2>1, FS_Subset
  <2> QED BY <2>1, <2>2
<1>4. {} \in C
  <2>1. Image({}) = {}
    OBVIOUS
  <2>2. SumFunctionOnSet(f, {}) = 0 /\ SumFunctionOnSet(g, {}) = 0
    BY FS_EmptySet, Sums
  <2> QED BY <2>1, <2>2
<1>5. ASSUME NEW U \in SUBSET S, U # {}, \A x \in U : U \ {x} \in C
      PROVE  U \in C
  <2>1. PICK x \in U : TRUE
    BY <1>5
  <2>2. SumFunctionOnSet(f, U) = SumFunctionOnSet(f, U \ {x}) + f[x]
    <3>. HIDE DEF Image, C
    <3> QED BY <1>3, <2>1, Sums
  <2>3. b[x] \in Image(U)
    BY <2>1
  <2>4. SumFunctionOnSet(g, Image(U))
          = SumFunctionOnSet(g, Image(U) \ {b[x]}) + g[b[x]]
    <3>. HIDE DEF Image
    <3> QED BY <1>3, <2>3, Sums
  <2>5. Image(U) \ {b[x]} = Image(U \ {x})
    BY <1>2, <2>1
  <2>6. SumFunctionOnSet(f, U \ {x}) = SumFunctionOnSet(g, Image(U \ {x}))
    BY <1>5, <2>1
  <2>. HIDE DEF Image
  <2> QED BY <2>2, <2>4, <2>5, <2>6
<1>6. \A U \in SUBSET S : U \in C
  <2>. HIDE DEF C
  <2> QED BY <1>4, <1>5, SubsetInduction
<1>7. Image(S) = T
  BY <1>2
<1>. HIDE DEF Image
<1> QED BY <1>6, <1>7

(* Zeros add nothing to a sum.                                                *)
LEMMA SumWithoutZeros ==
  ASSUME NEW S, IsFiniteSet(S), NEW f, \A x \in S : f[x] \in Nat,
         NEW T, T \subseteq S, \A x \in S \ T : f[x] = 0
  PROVE  SumFunctionOnSet(f, S) = SumFunctionOnSet(f, T)
<1>. DEFINE C == {U \in SUBSET S :
                    SumFunctionOnSet(f, U) = SumFunctionOnSet(f, U \cap T)}
<1>1. \A U \in SUBSET S : IsFiniteSet(U) /\ \A x \in U : f[x] \in Nat
  BY FS_Subset
<1>2. {} \in C
  <2>1. {} \cap T = {}
    OBVIOUS
  <2> QED BY <2>1
<1>3. ASSUME NEW U \in SUBSET S, U # {}, \A x \in U : U \ {x} \in C
      PROVE  U \in C
  <2>1. PICK x \in U : TRUE
    BY <1>3
  <2>2. SumFunctionOnSet(f, U) = SumFunctionOnSet(f, U \ {x}) + f[x]
    BY <1>1, <2>1, Sums
  <2>3. SumFunctionOnSet(f, U \ {x}) = SumFunctionOnSet(f, (U \ {x}) \cap T)
    BY <1>3, <2>1
  <2>4. CASE x \in T
    <3>1. /\ U \cap T \in SUBSET S /\ x \in U \cap T
          /\ (U \cap T) \ {x} = (U \ {x}) \cap T
      BY <2>1, <2>4
    <3>2. SumFunctionOnSet(f, U \cap T)
            = SumFunctionOnSet(f, (U \cap T) \ {x}) + f[x]
      <4>. DEFINE W == U \cap T
      <4>1. IsFiniteSet(W) /\ x \in W /\ \A y \in W : f[y] \in Nat
        BY <1>1, <3>1
      <4>. HIDE DEF W
      <4>2. SumFunctionOnSet(f, W) = SumFunctionOnSet(f, W \ {x}) + f[x]
        BY <4>1, Sums
      <4> QED BY <4>2 DEF W
    <3>3. SumFunctionOnSet(f, (U \cap T) \ {x})
            = SumFunctionOnSet(f, (U \ {x}) \cap T)
      BY <3>1
    <3>4. SumFunctionOnSet(f, U) = SumFunctionOnSet(f, U \cap T)
      BY <2>2, <2>3, <3>2, <3>3, Zenon
    <3> QED BY <3>4
  <2>5. CASE x \notin T
    <3>1. (U \ {x}) \cap T = U \cap T /\ f[x] = 0
      BY <2>1, <2>5
    <3>2. SumFunctionOnSet(f, U \ {x}) \in Nat
      BY <1>1, Sums
    <3>3. SumFunctionOnSet(f, U) = SumFunctionOnSet(f, U \ {x})
      BY <2>2, <3>1, <3>2
    <3>4. SumFunctionOnSet(f, (U \ {x}) \cap T) = SumFunctionOnSet(f, U \cap T)
      BY <3>1
    <3>5. SumFunctionOnSet(f, U) = SumFunctionOnSet(f, U \cap T)
      BY <2>3, <3>3, <3>4, Zenon
    <3> QED BY <3>5
  <2> QED BY <2>4, <2>5
<1>4. \A U \in SUBSET S : U \in C
  <2>. HIDE DEF C
  <2> QED BY <1>2, <1>3, SubsetInduction
<1>5. S \cap T = T
  OBVIOUS
<1> QED BY <1>4, <1>5

(* A sum is positive if and only if one of its terms is.                      *)
LEMMA SumPositive ==
  ASSUME NEW S, IsFiniteSet(S), NEW f, \A x \in S : f[x] \in Nat
  PROVE  SumFunctionOnSet(f, S) > 0 <=> \E x \in S : f[x] > 0
<1>1. ASSUME NEW x \in S, f[x] > 0
      PROVE  SumFunctionOnSet(f, S) > 0
  <2>1. IsFiniteSet(S \ {x})
    BY FS_RemoveElement
  <2>2. SumFunctionOnSet(f, S \ {x}) \in Nat
    BY <2>1, Sums
  <2>3. SumFunctionOnSet(f, S) = SumFunctionOnSet(f, S \ {x}) + f[x]
    BY Sums
  <2> QED BY <1>1, <2>2, <2>3
<1>2. ASSUME ~ \E x \in S : f[x] > 0
      PROVE  SumFunctionOnSet(f, S) = 0
  <2>1. \A x \in S \ {} : f[x] = 0
    BY <1>2
  <2>2. SumFunctionOnSet(f, {}) = 0
    BY FS_EmptySet, Sums
  <2> QED BY <2>1, <2>2, SumWithoutZeros
<1> QED BY <1>1, <1>2

(* SetToSeq lists every element of a finite set once.                         *)
LEMMA Listing ==
  ASSUME NEW S, IsFiniteSet(S)
  PROVE  /\ SetToSeq(S) \in Bijection(1 .. Cardinality(S), S)
         /\ Cardinality(S) \in Nat
<1>1. Cardinality(S) \in Nat /\ ExistsBijection(1 .. Cardinality(S), S)
  BY FS_CardinalityType
<1>2. \E f \in [1 .. Cardinality(S) -> S] : IsInjective(f)
  BY <1>1 DEF ExistsBijection, Bijection, Injection
<1>3. SetToSeq(S) \in [1 .. Cardinality(S) -> S] /\ IsInjective(SetToSeq(S))
  BY <1>2 DEF SetToSeq
<1>4. SetToSeq(S) \in Injection(1 .. Cardinality(S), S)
  BY <1>3 DEF Injection
<1>5. IsFiniteSet(1 .. Cardinality(S)) /\ Cardinality(1 .. Cardinality(S)) = Cardinality(S)
  BY <1>1, FS_Interval
<1>6. SetToSeq(S) \in Surjection(1 .. Cardinality(S), S)
  BY <1>4, <1>5, FS_Injection
<1> QED BY <1>1, <1>4, <1>6 DEF Bijection

-----------------------------------------------------------------------------
(* Entries without their duplicates.                                         *)

(* The greatest number of an interval's subset, and of a prefix.              *)
LEMMA Greatest ==
  ASSUME NEW n \in Nat
  PROVE  /\ \A T \in SUBSET (1 .. n) : T # {} => Max(T) \in T
         /\ \A k \in 1 .. n : /\ Max(1 .. k) = k
                              /\ (1 .. k) \ {k} = 1 .. (k - 1)
                              /\ 1 .. k # {}
<1>. DEFINE C == {T \in SUBSET (1 .. n) : T # {} => \E x \in T : \A y \in T : x >= y}
<1>1. {} \in C
  OBVIOUS
<1>2. ASSUME NEW T \in SUBSET (1 .. n), T # {}, \A x \in T : T \ {x} \in C
      PROVE  T \in C
  <2>1. PICK x \in T : TRUE
    BY <1>2
  <2>2. CASE T \ {x} = {}
    BY <2>1, <2>2
  <2>3. CASE T \ {x} # {}
    <3>1. T \ {x} \in C
      BY <1>2, <2>1
    <3>2. PICK m \in T \ {x} : \A y \in T \ {x} : m >= y
      BY <2>3, <3>1
    <3>3. m \in Nat /\ x \in Nat /\ \A y \in T : y \in Nat
      BY <2>1, <3>2
    <3>4. \A y \in T : (IF m >= x THEN m ELSE x) >= y
      BY <3>2, <3>3
    <3> QED BY <2>1, <3>2, <3>4
  <2> QED BY <2>2, <2>3
<1>3. \A T \in SUBSET (1 .. n) : T \in C
  <2>1. IsFiniteSet(1 .. n)
    BY FS_Interval
  <2>. HIDE DEF C
  <2> QED BY <1>1, <1>2, <2>1, SubsetInduction
<1>4. \A T \in SUBSET (1 .. n) : T # {} => Max(T) \in T /\ \A y \in T : Max(T) >= y
  BY <1>3 DEF Max
<1>5. ASSUME NEW k \in 1 .. n
      PROVE  /\ Max(1 .. k) = k
             /\ (1 .. k) \ {k} = 1 .. (k - 1)
             /\ 1 .. k # {}
  <2>1. k \in 1 .. k /\ 1 .. k \in SUBSET (1 .. n)
    OBVIOUS
  <2>2. Max(1 .. k) \in 1 .. k /\ Max(1 .. k) >= k
    BY <1>4, <2>1
  <2>3. \A x : x \in (1 .. k) \ {k} <=> x \in 1 .. (k - 1)
    OBVIOUS
  <2> QED BY <2>1, <2>2, <2>3
<1> QED BY <1>4, <1>5

-----------------------------------------------------------------------------
(* One more entry of Dedup.                                                   *)
Taken(seen, e) == IF Contains(seen, e) THEN seen ELSE Append(seen, e)

SolvesDedup(h, entries) ==
  h = [T \in SUBSET DOMAIN entries |->
         IF T = {} THEN <<>> ELSE Taken(h[T \ {Max(T)}], entries[Max(T)])]

(* Dedup is what a solution chosen for its recursion says of all the indices. *)
LEMMA DedupChosen ==
  ASSUME NEW entries
  PROVE  Dedup(entries) = (CHOOSE h : SolvesDedup(h, entries))[DOMAIN entries]
BY DEF Dedup, FoldLeft, MapThenFoldSet, SolvesDedup, Taken

(* Dedup keeps every entry, and keeps it once.                                *)
LEMMA DedupKeeps ==
  ASSUME NEW E, NEW entries \in Seq(E)
  PROVE  /\ Dedup(entries) \in Seq(E)
         /\ Range(Dedup(entries)) = Range(entries)
         /\ IsInjective(Dedup(entries))
<1>. DEFINE n == Len(entries)
            pick == [T \in SUBSET (1 .. n) |-> Max(T)]
            step == [p \in (1 .. n) \X Seq(E) |-> Taken(p[2], entries[p[1]])]
<1>1. n \in Nat /\ DOMAIN entries = 1 .. n /\ \A i \in 1 .. n : entries[i] \in E
  OBVIOUS
<1>2. \A x \in 1 .. n, v \in Seq(E) :
        step[<<x, v>>] = Taken(v, entries[x]) /\ step[<<x, v>>] \in Seq(E)
  BY <1>1 DEF Taken
<1>3. PICK h \in [SUBSET (1 .. n) -> Seq(E)] : Recursion(h, 1 .. n, <<>>, pick, step)
  <2>1. Picks(pick, 1 .. n)
    BY <1>1, Greatest DEF Picks
  <2>2. Steps(step, 1 .. n, Seq(E))
    BY <1>2 DEF Steps
  <2>3. IsFiniteSet(1 .. n) /\ <<>> \in Seq(E)
    BY <1>1, FS_Interval
  <2>. HIDE DEF n, pick, step
  <2> QED BY <2>1, <2>2, <2>3, Iteration
<1>4. SolvesDedup(h, entries)
  <2>1. ASSUME NEW T \in SUBSET (1 .. n), T # {}
        PROVE  h[T] = Taken(h[T \ {Max(T)}], entries[Max(T)])
    <3>1. pick[T] = Max(T) /\ Max(T) \in 1 .. n /\ h[T \ {Max(T)}] \in Seq(E)
      BY <1>1, <2>1, Greatest
    <3>. HIDE DEF n, pick, step
    <3> QED BY <2>1, <3>1, <1>2, <1>3 DEF Recursion
  <2>2. h[{}] = <<>>
    BY <1>3 DEF Recursion
  <2>3. h = [T \in SUBSET (1 .. n) |-> h[T]]
    OBVIOUS
  <2>. DEFINE F == [T \in SUBSET (1 .. n) |->
                     IF T = {} THEN <<>> ELSE Taken(h[T \ {Max(T)}], entries[Max(T)])]
  <2>4. \A T \in SUBSET (1 .. n) : F[T] = h[T]
    <3>. HIDE DEF n
    <3> QED BY <2>1, <2>2
  <2>. HIDE DEF n
  <2>5. h = F
    BY <2>3, <2>4
  <2> QED BY <1>1, <2>5 DEF SolvesDedup
<1>5. PICK g : SolvesDedup(g, entries) /\ Dedup(entries) = g[1 .. n]
  BY <1>1, <1>4, DedupChosen
<1>. DEFINE Good(k) == /\ g[1 .. k] \in Seq(E)
                       /\ Range(g[1 .. k]) = {entries[i] : i \in 1 .. k}
                       /\ IsInjective(g[1 .. k])
            C == {k \in Nat : k <= n => Good(k)}
<1>6. 0 \in C
  <2>1. 1 .. 0 = {} /\ g[{}] = <<>>
    BY <1>5 DEF SolvesDedup
  <2>2. <<>> \in Seq(E) /\ DOMAIN <<>> = {}
    OBVIOUS
  <2>3. Range(<<>>) = {} /\ IsInjective(<<>>)
    BY <2>2 DEF Range, IsInjective
  <2>4. {entries[i] : i \in {}} = {}
    OBVIOUS
  <2>5. Good(0)
    BY <2>1, <2>2, <2>3, <2>4
  <2> QED BY <2>5
<1>7. ASSUME NEW k \in Nat, k \in C
      PROVE  k + 1 \in C
  <2>. SUFFICES ASSUME k + 1 <= n
       PROVE  Good(k + 1)
    OBVIOUS
  <2>. DEFINE seen == g[1 .. k]
              e == entries[k + 1]
  <2>1. Good(k) /\ e \in E
    BY <1>1, <1>7
  <2>2. g[1 .. (k + 1)] = Taken(seen, e)
    <3>1. k + 1 \in 1 .. n /\ (k + 1) - 1 = k
      BY <1>1
    <3>2. /\ Max(1 .. (k + 1)) = k + 1 /\ (1 .. (k + 1)) \ {k + 1} = 1 .. k
          /\ 1 .. (k + 1) # {} /\ 1 .. (k + 1) \in SUBSET DOMAIN entries
      BY <1>1, <3>1, Greatest
    <3>3. \A T \in SUBSET DOMAIN entries : T # {} =>
            g[T] = Taken(g[T \ {Max(T)}], entries[Max(T)])
      BY <1>5 DEF SolvesDedup
    <3>. DEFINE T == 1 .. (k + 1)
    <3>4. g[T] = Taken(g[T \ {Max(T)}], entries[Max(T)])
      BY <3>2, <3>3
    <3> QED BY <3>2, <3>4
  <2>3. {entries[i] : i \in 1 .. (k + 1)} = {entries[i] : i \in 1 .. k} \cup {e}
    <3>1. 1 .. (k + 1) = (1 .. k) \cup {k + 1}
      OBVIOUS
    <3> QED BY <3>1
  <2>. HIDE DEF seen, e
  <2>4. CASE Contains(seen, e)
    <3>1. e \in Range(seen)
      BY <2>1, <2>4 DEF Contains, Range, seen
    <3> QED BY <2>1, <2>2, <2>3, <2>4, <3>1 DEF Taken, seen
  <2>5. CASE ~ Contains(seen, e)
    <3>1. seen \in Seq(E) /\ e \notin Range(seen) /\ IsInjective(seen)
      BY <2>1, <2>5 DEF Contains, Range, seen
    <3>2. /\ Append(seen, e) \in Seq(E)
          /\ Range(Append(seen, e)) = Range(seen) \cup {e}
          /\ IsInjective(Append(seen, e))
      <4>. DEFINE m == Len(seen)
      <4>1. /\ m \in Nat /\ DOMAIN seen = 1 .. m
            /\ Append(seen, e) \in Seq(E)
            /\ DOMAIN Append(seen, e) = 1 .. (m + 1)
            /\ \A i \in 1 .. m : Append(seen, e)[i] = seen[i]
            /\ Append(seen, e)[m + 1] = e
        BY <2>1, <3>1
      <4>2. 1 .. (m + 1) = (1 .. m) \cup {m + 1}
        BY <4>1
      <4>3. \A i \in 1 .. m : seen[i] # e
        BY <3>1, <4>1 DEF Range
      <4>. HIDE DEF m
      <4>4. Range(Append(seen, e)) = Range(seen) \cup {e}
        BY <4>1, <4>2 DEF Range
      <4>5. IsInjective(Append(seen, e))
        BY <3>1, <4>1, <4>2, <4>3 DEF IsInjective
      <4> QED BY <4>1, <4>4, <4>5
    <3> QED BY <2>1, <2>2, <2>3, <2>5, <3>2 DEF Taken, seen
  <2> QED BY <2>4, <2>5
<1>8. n \in C
  <2>1. \A k \in Nat : k \in C
    <3>. HIDE DEF C
    <3> QED BY <1>6, <1>7, SetInduction
  <2> QED BY <1>1, <2>1
<1>9. Range(entries) = {entries[i] : i \in 1 .. n}
  BY <1>1 DEF Range
<1> QED BY <1>1, <1>5, <1>8, <1>9

-----------------------------------------------------------------------------
(* Sequences one after the other.                                            *)

Entries == [link : Links, slices : Nat \ {0}]

SolvesFlatten(h, seqs) ==
  h = [i \in 1 .. Len(seqs) |-> IF i = 1 THEN seqs[i] ELSE h[i - 1] \o seqs[i]]

(* FlattenSeq is what a solution chosen for its recursion says at the last index. *)
LEMMA FlattenChosen ==
  ASSUME NEW seqs, Len(seqs) # 0
  PROVE  FlattenSeq(seqs) = (CHOOSE h : SolvesFlatten(h, seqs))[Len(seqs)]
BY DEF FlattenSeq, SolvesFlatten

(* FlattenSeq appends the sequences one after the other.                      *)
LEMMA Flattening ==
  ASSUME NEW L, NEW seqs \in Seq(Seq(L)), Len(seqs) # 0
  PROVE  \E h \in [1 .. Len(seqs) -> Seq(L)] :
           /\ h[1] = seqs[1]
           /\ \A i \in 2 .. Len(seqs) : h[i] = h[i - 1] \o seqs[i]
           /\ FlattenSeq(seqs) = h[Len(seqs)]
<1>. DEFINE n == Len(seqs)
            Good(h, k) == /\ h \in [1 .. k -> Seq(L)]
                          /\ \A i \in 1 .. k :
                               h[i] = IF i = 1 THEN seqs[i] ELSE h[i - 1] \o seqs[i]
            C == {k \in Nat : k <= n => \E h : Good(h, k)}
<1>1. n \in Nat \ {0} /\ \A i \in 1 .. n : seqs[i] \in Seq(L)
  OBVIOUS
<1>2. 0 \in C
  <2>1. Good([i \in 1 .. 0 |-> <<>>], 0)
    OBVIOUS
  <2> QED BY <2>1
<1>3. ASSUME NEW k \in Nat, k \in C
      PROVE  k + 1 \in C
  <2>. SUFFICES ASSUME k + 1 <= n
       PROVE  \E h : Good(h, k + 1)
    OBVIOUS
  <2>0. k <= n
    BY <1>1
  <2>1. PICK h : Good(h, k)
    <3>. HIDE DEF Good, n
    <3> QED BY <1>3, <2>0
  <2>. DEFINE last == IF k + 1 = 1 THEN seqs[k + 1] ELSE h[k] \o seqs[k + 1]
              g == [i \in 1 .. (k + 1) |-> IF i = k + 1 THEN last ELSE h[i]]
  <2>2. last \in Seq(L)
    <3>1. seqs[k + 1] \in Seq(L)
      BY <1>1
    <3>2. CASE k = 0
      <4>1. last = seqs[k + 1]
        BY <3>2
      <4> QED BY <3>1, <4>1
    <3>3. CASE k # 0
      <4>1. h[k] \in Seq(L) /\ k + 1 # 1
        BY <2>1, <3>3
      <4>2. h[k] \o seqs[k + 1] \in Seq(L)
        BY <3>1, <4>1
      <4>3. last = h[k] \o seqs[k + 1]
        BY <4>1
      <4> QED BY <4>2, <4>3
    <3> QED BY <3>2, <3>3
  <2>3. \A i \in 1 .. (k + 1) : i = k + 1 \/ i \in 1 .. k
    OBVIOUS
  <2>4. g \in [1 .. (k + 1) -> Seq(L)]
    <3>. HIDE DEF last
    <3> QED BY <2>1, <2>2, <2>3
  <2>5. ASSUME NEW i \in 1 .. (k + 1)
        PROVE  g[i] = IF i = 1 THEN seqs[i] ELSE g[i - 1] \o seqs[i]
    <3>1. CASE i = k + 1
      <4>1. g[i] = last
        BY <3>1
      <4>2. i # 1 => g[i - 1] = h[k]
        BY <3>1
      <4> QED BY <3>1, <4>1, <4>2
    <3>2. CASE i \in 1 .. k
      <4>1. g[i] = h[i]
        BY <3>2
      <4>2. i # 1 => g[i - 1] = h[i - 1]
        BY <3>2
      <4>. HIDE DEF g
      <4> QED BY <2>1, <3>2, <4>1, <4>2
    <3> QED BY <2>3, <3>1, <3>2
  <2>6. Good(g, k + 1)
    <3>. HIDE DEF g
    <3> QED BY <2>4, <2>5
  <2> QED BY <2>6
<1>4. n \in C
  <2>1. \A k \in Nat : k \in C
    <3>. HIDE DEF C
    <3> QED BY <1>2, <1>3, SetInduction
  <2> QED BY <1>1, <2>1
<1>5. PICK h : Good(h, n)
  BY <1>1, <1>4
<1>6. SolvesFlatten(h, seqs)
  <2>. DEFINE F == [i \in 1 .. n |-> IF i = 1 THEN seqs[i] ELSE h[i - 1] \o seqs[i]]
  <2>1. \A i \in 1 .. n : h[i] = F[i]
    BY <1>5
  <2>2. h = F
    <3>. HIDE DEF n
    <3> QED BY <1>5, <2>1
  <2> QED BY <2>2 DEF SolvesFlatten
<1>7. PICK f : SolvesFlatten(f, seqs) /\ FlattenSeq(seqs) = f[n]
  BY <1>6, FlattenChosen
<1>8. \A i \in 1 .. n : f[i] = IF i = 1 THEN seqs[i] ELSE f[i - 1] \o seqs[i]
  BY <1>7 DEF SolvesFlatten
<1>9. \A i \in 1 .. n : f[i] \in Seq(L)
  <2>. DEFINE D == {k \in Nat : k \in 1 .. n => f[k] \in Seq(L)}
  <2>1. 0 \in D
    OBVIOUS
  <2>2. ASSUME NEW k \in Nat, k \in D
        PROVE  k + 1 \in D
    <3>. SUFFICES ASSUME k + 1 \in 1 .. n
         PROVE  f[k + 1] \in Seq(L)
      OBVIOUS
    <3>1. CASE k = 0
      BY <1>1, <1>8, <3>1
    <3>2. CASE k # 0
      <4>0. k + 1 \in 1 .. n /\ k + 1 # 1 /\ (k + 1) - 1 = k
        BY <3>2
      <4>1. f[k + 1] = f[k] \o seqs[k + 1]
        BY <1>8, <4>0
      <4>2. f[k] \in Seq(L) /\ seqs[k + 1] \in Seq(L)
        BY <1>1, <2>2, <3>2
      <4> QED BY <4>1, <4>2
    <3> QED BY <3>1, <3>2
  <2>3. \A k \in Nat : k \in D
    <3>. HIDE DEF D
    <3> QED BY <2>1, <2>2, SetInduction
  <2> QED BY <1>1, <2>3
<1>10. /\ f \in [1 .. n -> Seq(L)] /\ f[1] = seqs[1]
       /\ \A i \in 2 .. n : f[i] = f[i - 1] \o seqs[i]
  <2>1. f \in [1 .. n -> Seq(L)]
    BY <1>7, <1>9 DEF SolvesFlatten
  <2>2. f[1] = seqs[1]
    BY <1>1, <1>8
  <2>3. ASSUME NEW i \in 2 .. n
        PROVE  f[i] = f[i - 1] \o seqs[i]
    <3>1. i \in 1 .. n /\ i # 1
      BY <1>1
    <3>. HIDE DEF n
    <3> QED BY <3>1, <1>8
  <2> QED BY <2>1, <2>2, <2>3
<1> QED BY <1>7, <1>10

-----------------------------------------------------------------------------
(* The links of entries, repeated.                                           *)

(* The slices of every entry, and of the first k entries together.            *)
Counts(entries) == [i \in DOMAIN entries |-> entries[i].slices]
UpTo(entries, k) == SumFunctionOnSet(Counts(entries), 1 .. k)

(* The partial sums start at zero, end at the total and grow by one entry.   *)
LEMMA PartialTotals ==
  ASSUME NEW entries \in Seq(Entries)
  PROVE  /\ UpTo(entries, 0) = 0
         /\ UpTo(entries, Len(entries)) = Total(entries)
         /\ \A k \in 0 .. Len(entries) : UpTo(entries, k) \in Nat
         /\ \A k \in 1 .. Len(entries) :
              UpTo(entries, k) = UpTo(entries, k - 1) + entries[k].slices
<1>. DEFINE n == Len(entries)
            f == Counts(entries)
<1>1. n \in Nat /\ DOMAIN entries = 1 .. n /\ \A i \in 1 .. n : entries[i] \in Entries
  OBVIOUS
<1>2. DOMAIN f = 1 .. n /\ \A i \in 1 .. n : f[i] = entries[i].slices /\ f[i] \in Nat
  <2>1. f = [i \in 1 .. n |-> entries[i].slices]
    BY <1>1 DEF Counts
  <2>2. \A i \in 1 .. n : entries[i].slices \in Nat
    BY <1>1 DEF Entries
  <2>. HIDE DEF f, n
  <2> QED BY <2>1, <2>2
<1>. HIDE DEF n, f
<1>3. \A k \in 0 .. n : IsFiniteSet(1 .. k) /\ \A i \in 1 .. k : f[i] \in Nat
  <2>. SUFFICES ASSUME NEW k \in 0 .. n
       PROVE  IsFiniteSet(1 .. k) /\ \A i \in 1 .. k : f[i] \in Nat
    OBVIOUS
  <2>1. k \in Int /\ 1 .. k \subseteq 1 .. n
    BY <1>1
  <2> QED BY <1>2, <2>1, FS_Interval
<1>4. \A k \in 0 .. n : SumFunctionOnSet(f, 1 .. k) \in Nat
  BY <1>3, Sums
<1>5. SumFunctionOnSet(f, 1 .. 0) = 0
  <2>1. 1 .. 0 = {}
    OBVIOUS
  <2> QED BY <2>1, FS_EmptySet, Sums
<1>6. ASSUME NEW k \in 1 .. n
      PROVE  SumFunctionOnSet(f, 1 .. k) = SumFunctionOnSet(f, 1 .. (k - 1)) + f[k]
  <2>1. k \in 1 .. k /\ k \in 0 .. n /\ (1 .. k) \ {k} = 1 .. (k - 1)
    BY <1>1, Greatest
  <2>2. SumFunctionOnSet(f, 1 .. k) = SumFunctionOnSet(f, (1 .. k) \ {k}) + f[k]
    BY <1>3, <2>1, Sums
  <2> QED BY <2>1, <2>2
<1>7. Total(entries) = SumFunctionOnSet(f, 1 .. n)
  BY <1>2 DEF Total, SumFunction, Counts, f
<1> QED BY <1>2, <1>4, <1>5, <1>6, <1>7 DEF UpTo, n, f

Repeated(entries) ==
  [i \in DOMAIN entries |-> [j \in 1 .. entries[i].slices |-> entries[i].link]]
Spread(entries) == FlattenSeq(Repeated(entries))

(* Repeating every entry's link as often as it has slices: the links of the   *)
(* k-th entry follow those of the entries before it.                          *)
LEMMA Repeating ==
  ASSUME NEW entries \in Seq(Entries)
  PROVE  /\ Spread(entries) \in Seq(Links)
         /\ Len(Spread(entries)) = Total(entries)
         /\ \A p \in 1 .. Len(Spread(entries)) :
              \E k \in 1 .. Len(entries) :
                /\ UpTo(entries, k - 1) < p /\ p <= UpTo(entries, k)
                /\ Spread(entries)[p] = entries[k].link
<1>. DEFINE n == Len(entries)
            seqs == Repeated(entries)
            t(k) == UpTo(entries, k)
<1>1. n \in Nat /\ DOMAIN entries = 1 .. n /\ \A i \in 1 .. n : entries[i] \in Entries
  OBVIOUS
<1>2. \A i \in 1 .. n : entries[i].link \in Links /\ entries[i].slices \in Nat \ {0}
  BY <1>1 DEF Entries
<1>3. \A i \in 1 .. n : /\ seqs[i] \in Seq(Links)
                        /\ Len(seqs[i]) = entries[i].slices
                        /\ \A j \in 1 .. entries[i].slices : seqs[i][j] = entries[i].link
  BY <1>1, <1>2 DEF Repeated
<1>4. seqs \in Seq(Seq(Links)) /\ Len(seqs) = n /\ DOMAIN seqs = 1 .. n
  <2>1. seqs = [i \in 1 .. n |-> seqs[i]]
    BY <1>1 DEF Repeated
  <2>. HIDE DEF seqs, n
  <2> QED BY <1>1, <1>3, <2>1
<1>5. t(0) = 0 /\ t(n) = Total(entries) /\ \A k \in 0 .. n : t(k) \in Nat
  BY PartialTotals
<1>6. \A k \in 1 .. n : t(k) = t(k - 1) + entries[k].slices
  BY PartialTotals
<1>7. CASE n = 0
  <2>1. Spread(entries) = seqs
    BY <1>4, <1>7 DEF FlattenSeq, Spread
  <2>2. seqs = <<>>
    <3>. HIDE DEF seqs, n
    <3> QED BY <1>4, <1>7, EmptySeq
  <2>3. Spread(entries) \in Seq(Links) /\ Len(Spread(entries)) = 0
    BY <2>1, <2>2
  <2> QED BY <1>5, <1>7, <2>3
<1>8. CASE n # 0
  <2>. HIDE DEF n, seqs, t
  <2>1. PICK h \in [1 .. n -> Seq(Links)] :
          /\ h[1] = seqs[1]
          /\ \A i \in 2 .. n : h[i] = h[i - 1] \o seqs[i]
          /\ FlattenSeq(seqs) = h[n]
    BY <1>4, <1>8, Flattening
  <2>. DEFINE Good(k) ==
         /\ Len(h[k]) = t(k)
         /\ \A p \in 1 .. t(k) : \E j \in 1 .. k :
              t(j - 1) < p /\ p <= t(j) /\ h[k][p] = entries[j].link
              C == {k \in Nat : k \in 1 .. n => Good(k)}
  <2>2. 0 \in C
    BY <1>1
  <2>3. ASSUME NEW k \in Nat, k \in C
        PROVE  k + 1 \in C
    <3>. SUFFICES ASSUME k + 1 \in 1 .. n
         PROVE  Good(k + 1)
      OBVIOUS
    <3>1. t(k + 1) = t(k) + entries[k + 1].slices /\ t(k) \in Nat /\ t(k + 1) \in Nat
      <4>1. (k + 1) - 1 = k /\ k \in 0 .. n /\ k + 1 \in 0 .. n
        BY <1>1
      <4> QED BY <1>5, <1>6, <4>1
    <3>2. CASE k = 0
      <4>1. h[k + 1] = seqs[k + 1] /\ t(k) = 0 /\ (k + 1) - 1 = k
        BY <1>5, <2>1, <3>2
      <4>2. Len(h[k + 1]) = t(k + 1)
        BY <1>2, <1>3, <3>1, <4>1
      <4>3. \A p \in 1 .. t(k + 1) : h[k + 1][p] = entries[k + 1].link
        BY <1>2, <1>3, <3>1, <4>1
      <4>4. k + 1 \in 1 .. (k + 1) /\ \A p \in 1 .. t(k + 1) : t(k) < p /\ p <= t(k + 1)
        BY <3>1, <3>2, <4>1
      <4> QED BY <4>1, <4>2, <4>3, <4>4
    <3>3. CASE k # 0
      <4>1. h[k + 1] = h[k] \o seqs[k + 1] /\ (k + 1) - 1 = k
        <5>1. k + 1 \in 2 .. n /\ (k + 1) - 1 = k
          BY <1>1, <3>3
        <5> QED BY <2>1, <5>1
      <4>2. Good(k) /\ h[k] \in Seq(Links)
        <5>1. k \in 1 .. n
          BY <1>1, <3>3
        <5> QED BY <2>1, <2>3, <5>1
      <4>3. /\ seqs[k + 1] \in Seq(Links)
            /\ Len(seqs[k + 1]) = entries[k + 1].slices
            /\ \A j \in 1 .. entries[k + 1].slices : seqs[k + 1][j] = entries[k + 1].link
        BY <1>3
      <4>4. /\ Len(h[k + 1]) = t(k + 1)
            /\ \A p \in 1 .. t(k + 1) :
                 h[k + 1][p] = IF p <= t(k) THEN h[k][p] ELSE seqs[k + 1][p - t(k)]
        <5>. HIDE DEF Good
        <5>1. Len(h[k]) = t(k)
          BY <4>2 DEF Good
        <5>. DEFINE q == seqs[k + 1]
        <5>2. /\ Len(h[k] \o q) = Len(h[k]) + Len(q)
              /\ \A p \in 1 .. Len(h[k]) + Len(q) :
                   (h[k] \o q)[p] = IF p <= Len(h[k]) THEN h[k][p] ELSE q[p - Len(h[k])]
          <6>. HIDE DEF q
          <6>1. q \in Seq(Links)
            BY <4>3 DEF q
          <6> QED BY <4>2, <6>1, ConcatProperties
        <5>3. Len(h[k]) + Len(q) = t(k + 1)
          BY <3>1, <4>3, <5>1
        <5> QED BY <4>1, <5>1, <5>2, <5>3
      <4>5. ASSUME NEW p \in 1 .. t(k + 1)
            PROVE  \E j \in 1 .. (k + 1) :
                     t(j - 1) < p /\ p <= t(j) /\ h[k + 1][p] = entries[j].link
        <5>1. CASE p <= t(k)
          <6>1. PICK j \in 1 .. k :
                  t(j - 1) < p /\ p <= t(j) /\ h[k][p] = entries[j].link
            <7>1. p \in 1 .. t(k)
              BY <3>1, <5>1
            <7> QED BY <4>2, <7>1
          <6>2. h[k + 1][p] = h[k][p] /\ j \in 1 .. (k + 1)
            BY <4>4, <5>1
          <6> QED BY <6>1, <6>2
        <5>2. CASE ~ (p <= t(k))
          <6>1. p - t(k) \in 1 .. entries[k + 1].slices
            BY <1>2, <3>1, <5>2
          <6>2. h[k + 1][p] = entries[k + 1].link
            BY <4>3, <4>4, <5>2, <6>1
          <6>3. t((k + 1) - 1) < p /\ p <= t(k + 1) /\ k + 1 \in 1 .. (k + 1)
            BY <3>1, <4>1, <5>2
          <6> QED BY <6>2, <6>3
        <5> QED BY <5>1, <5>2
      <4> QED BY <4>4, <4>5
    <3> QED BY <3>2, <3>3
  <2>4. Good(n)
    <3>1. \A k \in Nat : k \in C
      <4>. HIDE DEF C
      <4> QED BY <2>2, <2>3, SetInduction
    <3>2. n \in 1 .. n
      BY <1>1, <1>8
    <3>. HIDE DEF Good
    <3> QED BY <1>1, <3>1, <3>2
  <2>5. Spread(entries) \in Seq(Links) /\ Spread(entries) = h[n]
    BY <1>1, <1>8, <2>1 DEF Spread, seqs
  <2>6. Len(Spread(entries)) = Total(entries)
    BY <1>5, <2>4, <2>5
  <2>7. \A p \in 1 .. Len(Spread(entries)) :
          \E k \in 1 .. n :
            t(k - 1) < p /\ p <= t(k) /\ Spread(entries)[p] = entries[k].link
    BY <2>4, <2>5
  <2> QED BY <2>5, <2>6, <2>7 DEF n, t
<1> QED BY <1>7, <1>8

-----------------------------------------------------------------------------
(* Types.                                                                    *)

TypeInv ==
  /\ free \in [SubBlocks -> FreeHosts] /\ healthy \in [SubBlocks -> BOOLEAN]
  /\ whole \in Nat /\ mode \in Modes /\ needed \in 1 .. MaxNeeded
  /\ args \in Seq(Links) /\ args # <<>>
  /\ links \in Seq(Links) /\ queue \in Seq(Links)
  /\ part \in Seq(Entries) /\ found \in Seq(Entries)
  /\ targets \in Seq(Links)
  /\ pc \in {"count", "next", "read", "choose", "planned", "refused", "error"}
  /\ changes \in 0 .. MaxChanges
  /\ EveryPoolHasTarget

(* The reservation is finite.                                                 *)
LEMMA FiniteReservation ==
  /\ IsFiniteSet(SubBlocks)
  /\ IsFiniteSet({BlockLink(b) : b \in DOMAIN Blocks})
  /\ \A link \in Links : Under(link) \subseteq SubBlocks
<1>1. IsFiniteSet({Blocks[b] : b \in DOMAIN Blocks})
  <2>. DEFINE T == {Blocks[b] : b \in DOMAIN Blocks}
              f == [b \in DOMAIN Blocks |-> Blocks[b]]
  <2>1. f \in Surjection(DOMAIN Blocks, T)
    BY DEF Surjection
  <2>. HIDE DEF f, T
  <2>2. IsFiniteSet(T)
    BY <2>1, ReservationsAssumption, FS_Surjection
  <2> QED BY <2>2 DEF T
<1>2. IsFiniteSet(SubBlocks)
  <2>. DEFINE T == {Blocks[b] : b \in DOMAIN Blocks}
  <2>1. \A s \in T : IsFiniteSet(s)
    BY ReservationsAssumption
  <2>2. IsFiniteSet(T)
    BY <1>1
  <2>. HIDE DEF T
  <2>3. IsFiniteSet(UNION T)
    BY <2>1, <2>2, FS_UNION
  <2> QED BY <2>3 DEF SubBlocks, T
<1>3. IsFiniteSet({BlockLink(b) : b \in DOMAIN Blocks})
  <2>. DEFINE T == {BlockLink(b) : b \in DOMAIN Blocks}
              f == [b \in DOMAIN Blocks |-> BlockLink(b)]
  <2>1. f \in Surjection(DOMAIN Blocks, T)
    BY DEF Surjection
  <2>. HIDE DEF f, T
  <2>2. IsFiniteSet(T)
    BY <2>1, ReservationsAssumption, FS_Surjection
  <2> QED BY <2>2 DEF T
<1>4. \A link \in Links : Under(link) \subseteq SubBlocks
  BY DEF Links, Under, SubBlocks, Whole, BlockLink, SubBlockLink
<1> QED BY <1>2, <1>3, <1>4

(* The slices in a number of hosts.                                           *)
LEMMA WholeSlices ==
  ASSUME NEW hosts \in Nat
  PROVE  Slices(hosts) \in Nat /\ Slices(hosts) * Required <= hosts
<1>1. Required \in Nat \ {0}
  BY ReservationsAssumption
<1> QED BY <1>1, SMTT(30) DEF Slices

(* The entries of the sub-blocks of S on which a slice fits, if f and h are    *)
(* their free hosts and their health.                                         *)
FittingIn(S, f, h) == {s \in S : h[s] /\ Slices(f[s]) > 0}
Offers(S, f, h) == {Entry(SubBlockLink(s), Slices(f[s])) : s \in FittingIn(S, f, h)}

(* What SubBlockEntries lists.                                                *)
LEMMA Listed ==
  ASSUME NEW link \in Links, TypeInv
  PROVE  /\ SubBlockEntries(link) \in Seq(Entries)
         /\ Range(SubBlockEntries(link)) = Offers(Under(link), free, healthy)
<1>. DEFINE F == FittingIn(Under(link), free, healthy)
            n == Cardinality(F)
            e == [i \in 1 .. n |->
                    Entry(SubBlockLink(SetToSeq(F)[i]), Slices(free[SetToSeq(F)[i]]))]
<1>1. F \subseteq SubBlocks /\ IsFiniteSet(F)
  <2>1. F \subseteq SubBlocks
    BY FiniteReservation DEF FittingIn
  <2>. HIDE DEF F
  <2> QED BY <2>1, FiniteReservation, FS_Subset
<1>2. SubBlockEntries(link) = e
  BY DEF SubBlockEntries, FittingIn
<1>3. n \in Nat /\ SetToSeq(F) \in Bijection(1 .. n, F)
  <2>. HIDE DEF F
  <2> QED BY <1>1, Listing
<1>4. \A s \in F : /\ Entry(SubBlockLink(s), Slices(free[s])) \in Entries
  <2>. SUFFICES ASSUME NEW s \in F
       PROVE  Entry(SubBlockLink(s), Slices(free[s])) \in Entries
    OBVIOUS
  <2>1. free[s] \in Nat
    BY <1>1, ReservationsAssumption DEF TypeInv
  <2>2. Slices(free[s]) \in Nat \ {0}
    BY <2>1, WholeSlices DEF FittingIn
  <2>3. SubBlockLink(s) \in Links
    BY <1>1 DEF Links
  <2> QED BY <2>2, <2>3 DEF Entry, Entries
<1>5. \A i \in 1 .. n : SetToSeq(F)[i] \in F
  BY <1>3 DEF Bijection, Injection
<1>6. \A s \in F : \E i \in 1 .. n : SetToSeq(F)[i] = s
  BY <1>3 DEF Bijection, Surjection
<1>. HIDE DEF F, n
<1>7. e \in Seq(Entries)
  BY <1>3, <1>4, <1>5
<1>8. Range(e) = {Entry(SubBlockLink(s), Slices(free[s])) : s \in F}
  BY <1>5, <1>6 DEF Range
<1> QED BY <1>2, <1>7, <1>8 DEF Offers, F

(* What a call answers are entries, and what a link is flattened to are links. *)
LEMMA Answers ==
  ASSUME NEW link \in Links, TypeInv
  PROVE  Capacities(link) \in Seq(Entries) /\ Calls(link) \in Seq(Links)
<1>1. SubBlockEntries(link) \in Seq(Entries)
  BY Listed
<1>2. WholeEntry(link) \in Seq(Entries)
  <2>1. Slices(whole) \in Nat
    BY WholeSlices DEF TypeInv
  <2>2. CASE Slices(whole) > 0
    <3>1. Entry(link, Slices(whole)) \in Entries
      BY <2>1, <2>2 DEF Entry, Entries
    <3> QED BY <2>2, <3>1 DEF WholeEntry
  <2>3. CASE ~ (Slices(whole) > 0)
    BY <2>3 DEF WholeEntry
  <2> QED BY <2>2, <2>3
<1>3. Capacities(link) \in Seq(Entries)
  BY <1>1, <1>2 DEF Capacities
<1>4. <<link>> \in Seq(Links)
  OBVIOUS
<1>5. SetToSeq({BlockLink(b) : b \in DOMAIN Blocks}) \in Seq(Links)
  <2>. DEFINE T == {BlockLink(b) : b \in DOMAIN Blocks}
  <2>1. T \subseteq Links
    BY DEF Links
  <2>2. Cardinality(T) \in Nat /\ SetToSeq(T) \in [1 .. Cardinality(T) -> T]
    <3>. HIDE DEF T
    <3> QED BY FiniteReservation, Listing DEF Bijection, Injection, T
  <2>. HIDE DEF T
  <2>3. SetToSeq(T) \in Seq(T)
    BY <2>2
  <2>4. SetToSeq(T) \in Seq(Links)
    BY <2>1, <2>3, SeqMonotonic
  <2> QED BY <2>4 DEF T
<1>6. Calls(link) \in Seq(Links)
  BY <1>4, <1>5 DEF Calls
<1> QED BY <1>3, <1>6

(* As many targets are chosen as pools are needed, if there is room for them. *)
LEMMA FirstOnes ==
  ASSUME TypeInv, EnoughCapacity
  PROVE  /\ FirstNeeded(found) \in Seq(Links)
         /\ Len(FirstNeeded(found)) = needed
         /\ \A p \in 1 .. needed : FirstNeeded(found)[p] = Spread(found)[p]
<1>. DEFINE all == Spread(found)
<1>1. found \in Seq(Entries) /\ needed \in Nat /\ needed >= 1
  BY DEF TypeInv
<1>2. all \in Seq(Links) /\ Len(all) = Total(found)
  BY <1>1, Repeating
<1>3. Len(all) >= needed
  BY <1>2 DEF EnoughCapacity
<1>4. FirstNeeded(found) = SubSeq(all, 1, IF Len(all) < needed THEN Len(all) ELSE needed)
  BY DEF FirstNeeded, Spread, Repeated
<1>. HIDE DEF all
<1>5. Len(all) \in Nat /\ \A i \in 1 .. Len(all) : all[i] \in Links
  BY <1>2
<1>6. (IF Len(all) < needed THEN Len(all) ELSE needed) = needed
  BY <1>1, <1>3, <1>5
<1>7. FirstNeeded(found) = SubSeq(all, 1, needed)
  BY <1>4, <1>6
<1>8. \A i \in 1 .. needed : all[i] \in Links
  BY <1>1, <1>3, <1>5
<1>9. /\ SubSeq(all, 1, needed) \in Seq(Links)
      /\ Len(SubSeq(all, 1, needed)) = IF 1 <= needed THEN needed - 1 + 1 ELSE 0
      /\ \A i \in 1 .. (needed - 1 + 1) : SubSeq(all, 1, needed)[i] = all[1 + i - 1]
  BY <1>1, <1>8, SubSeqProperties
<1>10. needed - 1 + 1 = needed /\ \A i \in 1 .. needed : 1 + i - 1 = i
  BY <1>1
<1> QED BY <1>1, <1>7, <1>9, <1>10 DEF all

(* TypeInv holds at first.                                                   *)
LEMMA TypeInit == Init => TypeInv
<1>. SUFFICES ASSUME Init
     PROVE  TypeInv
  OBVIOUS
<1>1. whole \in Nat
  <2>1. DOMAIN free = SubBlocks /\ \A s \in SubBlocks : free[s] \in Nat
    BY ReservationsAssumption DEF Init
  <2>2. SumFunctionOnSet(free, SubBlocks) \in Nat
    BY <2>1, FiniteReservation, Sums
  <2> QED BY <2>1, <2>2 DEF Init, SumFunction
<1>2. PICK n \in 1 .. MaxLinks : args \in [1 .. n -> Links]
  BY DEF Init
<1>3. n \in Nat /\ n >= 1
  BY ReservationsAssumption
<1>4. args \in Seq(Links) /\ Len(args) = n
  BY <1>2, <1>3
<1>5. args # <<>>
  BY <1>3, <1>4
<1> QED BY <1>1, <1>4, <1>5, ReservationsAssumption DEF Init, TypeInv, EveryPoolHasTarget

(* Every step keeps TypeInv.                                                 *)
LEMMA TypeNext == TypeInv /\ [Next]_vars => TypeInv'
<1>. SUFFICES ASSUME TypeInv, [Next]_vars
     PROVE  TypeInv'
  OBVIOUS
<1>. USE DEF TypeInv, EveryPoolHasTarget
<1>1. CASE CountLinks
  <2>. USE <1>1 DEF CountLinks, inputs
  <2>1. CASE Len(args) > 1 /\ Len(args) # needed
    BY <2>1
  <2>2. CASE ~ (Len(args) > 1 /\ Len(args) # needed)
    <3>. DEFINE t == [i \in 1 .. needed |-> args[IF Len(args) = 1 THEN 1 ELSE i]]
    <3>1. needed \in Nat /\ Len(args) \in Nat /\ Len(args) # 0
      BY EmptySeq
    <3>2. \A i \in 1 .. needed : t[i] \in Links
      <4>. SUFFICES ASSUME NEW i \in 1 .. needed
           PROVE  args[IF Len(args) = 1 THEN 1 ELSE i] \in Links
        OBVIOUS
      <4>1. CASE Len(args) = 1
        <5>1. 1 \in 1 .. Len(args)
          BY <3>1, <4>1
        <5> QED BY <4>1, <5>1, ElementOfSeq
      <4>2. CASE Len(args) # 1
        <5>1. Len(args) = needed
          <6>1. \A m \in Nat : m # 0 /\ m # 1 => m > 1
            OBVIOUS
          <6> QED BY <2>2, <3>1, <4>2, <6>1, Zenon
        <5> QED BY <4>2, <5>1, ElementOfSeq
      <4> QED BY <4>1, <4>2
    <3>3. t \in Seq(Links) /\ Len(t) = needed
      <4>1. t \in [1 .. needed -> Links]
        BY <3>2
      <4>. HIDE DEF t
      <4> QED BY <3>1, <4>1
    <3>4. targets' = t /\ pc' = "planned"
      BY <2>2
    <3>. HIDE DEF t
    <3> QED BY <2>2, <3>3, <3>4
  <2> QED BY <2>1, <2>2
<1>2. CASE OpenLink
  <2>1. Head(links) \in Links /\ Tail(links) \in Seq(Links)
    BY <1>2, HeadTailProperties DEF OpenLink
  <2>2. Calls(Head(links)) \in Seq(Links)
    BY <2>1, Answers
  <2> QED BY <1>2, <2>1, <2>2 DEF OpenLink, inputs
<1>3. CASE ReadCapacity
  <2>1. Head(queue) \in Links /\ Tail(queue) \in Seq(Links)
    BY <1>3, HeadTailProperties DEF ReadCapacity
  <2>2. Capacities(Head(queue)) \in Seq(Entries)
    BY <2>1, Answers
  <2>3. part \o Capacities(Head(queue)) \in Seq(Entries)
    BY <2>2, ConcatProperties
  <2> QED BY <1>3, <2>1, <2>3 DEF ReadCapacity, inputs
<1>4. CASE ReadFails
  BY <1>4 DEF ReadFails, inputs
<1>5. CASE CloseLink
  <2>1. found \o part \in Seq(Entries)
    BY ConcatProperties
  <2> QED BY <1>5, <2>1 DEF CloseLink, inputs
<1>6. CASE LastLink
  <2>1. Dedup(found) \in Seq(Entries)
    BY DedupKeeps
  <2> QED BY <1>6, <2>1 DEF LastLink, inputs
<1>7. CASE ChooseTargets
  <2>. USE <1>7 DEF ChooseTargets, inputs
  <2>1. CASE EnoughCapacity
    BY <2>1, FirstOnes
  <2>2. CASE ~EnoughCapacity
    BY <2>2
  <2> QED BY <2>1, <2>2
<1>8. CASE OthersChange
  <2>1. PICK s \in SubBlocks, n \in FreeHosts : free' = [free EXCEPT ![s] = n]
    BY <1>8 DEF OthersChange
  <2>2. free' \in [SubBlocks -> FreeHosts]
    BY <2>1
  <2>3. changes' \in 0 .. MaxChanges
    BY <1>8, ReservationsAssumption DEF OthersChange
  <2> QED BY <1>8, <2>2, <2>3 DEF OthersChange, inputs
<1>9. CASE UNCHANGED vars
  BY <1>9 DEF vars, inputs
<1> QED BY <1>1, <1>2, <1>3, <1>4, <1>5, <1>6, <1>7, <1>8, <1>9 DEF Next

(* The types of the assignment, with room for a slice in all that is kept of     *)
(* the capacities of reservations.                                          *)
THEOREM TypeCorrect == Spec => []TypeOK
<1>1. TypeInv => TypeOK
  <2>. SUFFICES ASSUME TypeInv
       PROVE  TypeOK
    OBVIOUS
  <2>1. \A i \in DOMAIN found : found[i] \in Entries
    BY DEF TypeInv
  <2>2. \A i \in DOMAIN targets : targets[i] \in Links
    BY DEF TypeInv
  <2>3. \A e \in Entries : e.link \in Links /\ e.slices > 0
    BY DEF Entries
  <2> QED BY <2>1, <2>2, <2>3 DEF TypeInv, TypeOK
<1> QED BY <1>1, TypeInit, TypeNext, PTL DEF Spec

(* Every new node pool gets a target: the links repeated by their slices are    *)
(* never fewer than the pools assigned so far and to come.                     *)
THEOREM TargetsSuffice == Spec => []EveryPoolHasTarget
<1>1. TypeInv => EveryPoolHasTarget
  BY DEF TypeInv
<1> QED BY <1>1, TypeInit, TypeNext, PTL DEF Spec

-----------------------------------------------------------------------------
(* What a run with super-slicing knows.                                      *)

(* What the first k links of a cover, and whether each of them offers a slice. *)
Covers(a, k) == UNION {Under(a[i]) : i \in 1 .. k}
EachOffers(a, k, f, h) == \A i \in 1 .. k : FittingIn(Under(a[i]), f, h) # {}

(* The entries of the first k links have been found.                          *)
Read(entries, k, a, f, h) ==
  /\ Range(entries) = Offers(Covers(a, k), f, h)
  /\ EachOffers(a, k, f, h)

(* The links opened so far, and what is left to be read of the current one.    *)
Seen == Len(args) - Len(links)
Queued(q) == UNION {Under(q[i]) : i \in DOMAIN q}

Progress ==
  /\ Seen \in 0 .. Len(args)
  /\ \A i \in 1 .. Len(links) : links[i] = args[Seen + i]
Opened ==
  /\ Seen > 0 /\ Read(found, Seen - 1, args, free, healthy)
  /\ \A i \in DOMAIN queue : TargetsSubBlocks(queue[i])
  /\ Range(part) \cup Offers(Queued(queue), free, healthy)
       = Offers(Under(args[Seen]), free, healthy)
Chosen == Read(found, Len(args), args, free, healthy) /\ IsInjective(found)
Planned == EnoughCapacity /\ \A p \in 1 .. needed : targets[p] = Spread(found)[p]

(* What a run with super-slicing knows of the sub-blocks its links cover.      *)
Scan ==
  /\ pc \in {"next", "read"} => Progress
  /\ pc = "next" => Read(found, Seen, args, free, healthy)
  /\ pc = "read" => Opened
  /\ pc = "choose" => Chosen
  /\ pc = "planned" /\ mode.validate => Chosen /\ Planned
  /\ pc = "refused" /\ mode.validate =>
       \/ ~EachOffers(args, Len(args), free, healthy)
       \/ Chosen /\ ~EnoughCapacity

ScanInv ==
  /\ pc = "count" => ~mode.validate
  /\ mode.force /\ Undisturbed => Scan

(* Offers of a union.                                                         *)
LEMMA OffersApart ==
  ASSUME NEW S, NEW T, NEW f, NEW h
  PROVE  /\ Offers(S \cup T, f, h) = Offers(S, f, h) \cup Offers(T, f, h)
         /\ Offers({}, f, h) = {}
         /\ Offers(S, f, h) = {} <=> FittingIn(S, f, h) = {}
<1>1. FittingIn(S \cup T, f, h) = FittingIn(S, f, h) \cup FittingIn(T, f, h)
  BY DEF FittingIn
<1>2. FittingIn({}, f, h) = {}
  BY DEF FittingIn
<1>. HIDE DEF FittingIn
<1> QED BY <1>1, <1>2 DEF Offers

(* The links a link is flattened to name the same sub-blocks.                  *)
LEMMA Flattened ==
  ASSUME NEW link \in Links, mode.force
  PROVE  /\ \A i \in DOMAIN Calls(link) : TargetsSubBlocks(Calls(link)[i])
         /\ Queued(Calls(link)) = Under(link)
<1>1. CASE link.kind = "reservation"
  <2>. DEFINE T == {BlockLink(b) : b \in DOMAIN Blocks}
              n == Cardinality(T)
              s == SetToSeq(T)
  <2>1. Calls(link) = s
    BY <1>1 DEF Calls
  <2>2. s \in Bijection(1 .. n, T)
    <3>. HIDE DEF T
    <3> QED BY FiniteReservation, Listing DEF T
  <2>. HIDE DEF T, n, s
  <2>3. DOMAIN s = 1 .. n /\ \A i \in 1 .. n : s[i] \in T
    BY <2>2 DEF Bijection, Injection
  <2>4. \A e \in T : \E i \in 1 .. n : s[i] = e
    BY <2>2 DEF Bijection, Surjection
  <2>5. \A e \in T : TargetsSubBlocks(e)
    BY DEF T, TargetsSubBlocks, BlockLink
  <2>6. {Under(s[i]) : i \in 1 .. n} = {Blocks[b] : b \in DOMAIN Blocks}
    <3>1. \A b \in DOMAIN Blocks : Under(BlockLink(b)) = Blocks[b]
      BY DEF Under, BlockLink
    <3>2. {Under(s[i]) : i \in 1 .. n} = {Under(e) : e \in T}
      BY <2>3, <2>4
    <3>3. {Under(e) : e \in T} = {Under(BlockLink(b)) : b \in DOMAIN Blocks}
      BY DEF T
    <3> QED BY <3>1, <3>2, <3>3
  <2>7. Under(link) = SubBlocks
    BY <1>1 DEF Under
  <2> QED BY <2>1, <2>3, <2>5, <2>6, <2>7 DEF Queued, SubBlocks
<1>2. CASE link.kind # "reservation"
  <2>1. Calls(link) = <<link>>
    BY <1>2 DEF Calls
  <2>2. TargetsSubBlocks(link)
    BY <1>2 DEF TargetsSubBlocks, Links, Whole, BlockLink, SubBlockLink
  <2>3. DOMAIN <<link>> = 1 .. 1 /\ <<link>>[1] = link
    OBVIOUS
  <2>4. 1 .. 1 = {1}
    OBVIOUS
  <2> QED BY <2>1, <2>2, <2>3, <2>4 DEF Queued
<1> QED BY <1>1, <1>2

(* One link more.                                                             *)
LEMMA OneMore ==
  ASSUME NEW a, NEW k \in Nat \ {0}, NEW f, NEW h
  PROVE  /\ Covers(a, k) = Covers(a, k - 1) \cup Under(a[k])
         /\ EachOffers(a, k, f, h) <=>
              EachOffers(a, k - 1, f, h) /\ FittingIn(Under(a[k]), f, h) # {}
         /\ Covers(a, 0) = {} /\ EachOffers(a, 0, f, h)
<1>1. 1 .. k = (1 .. (k - 1)) \cup {k} /\ 1 .. 0 = {}
  OBVIOUS
<1> QED BY <1>1 DEF Covers, EachOffers

(* ScanInv holds at first.                                                   *)
LEMMA ScanInit == TypeInv /\ Init => ScanInv
<1>. SUFFICES ASSUME TypeInv, Init
     PROVE  ScanInv
  OBVIOUS
<1>1. found = <<>> /\ links = args /\ Len(args) \in Nat
  BY DEF Init, TypeInv
<1>2. Seen = 0 /\ Progress
  BY <1>1 DEF Seen, Progress
<1>3. Read(found, Seen, args, free, healthy)
  <2>1. Range(found) = {}
    BY <1>1 DEF Range
  <2>2. Covers(args, 0) = {} /\ EachOffers(args, 0, free, healthy)
    <3>1. 1 \in Nat \ {0}
      OBVIOUS
    <3> QED BY <3>1, OneMore
  <2> QED BY <1>2, <2>1, <2>2, OffersApart DEF Read
<1>4. pc \in {"next", "count"} /\ (pc = "count" => ~mode.validate)
  BY DEF Init
<1>. HIDE DEF Init
<1> QED BY <1>2, <1>3, <1>4 DEF ScanInv, Scan

(* Every step keeps ScanInv.                                                 *)
LEMMA ScanNext == TypeInv /\ TypeInv' /\ ScanInv /\ [Next]_vars => ScanInv'
<1>. SUFFICES ASSUME TypeInv, TypeInv', ScanInv, [Next]_vars
     PROVE  ScanInv'
  OBVIOUS
<1>. DEFINE Same == /\ free' = free /\ healthy' = healthy /\ mode' = mode
                    /\ needed' = needed /\ args' = args /\ changes' = changes
<1>0. /\ args \in Seq(Links) /\ Len(args) \in Nat /\ links \in Seq(Links)
      /\ queue \in Seq(Links) /\ part \in Seq(Entries) /\ found \in Seq(Entries)
  BY DEF TypeInv
<1>1. CASE CountLinks
  BY <1>1 DEF CountLinks, inputs, ScanInv, Scan
<1>2. CASE OpenLink
  <2>1. /\ Same /\ found' = found /\ pc = "next" /\ pc' = "read" /\ part' = <<>>
        /\ links # <<>> /\ links' = Tail(links) /\ queue' = Calls(Head(links))
    BY <1>2 DEF OpenLink, inputs
  <2>. SUFFICES ASSUME mode.force, Undisturbed
       PROVE  Progress' /\ Opened'
    BY <2>1 DEF ScanInv, Scan, Undisturbed
  <2>2. Progress /\ Read(found, Seen, args, free, healthy)
    BY <2>1 DEF ScanInv, Scan
  <2>3. /\ Head(links) \in Links /\ Head(links) = links[1] /\ Len(links) \in Nat \ {0}
        /\ Len(links') = Len(links) - 1
        /\ \A i \in 1 .. Len(links') : links'[i] = links[i + 1]
    BY <1>0, <2>1, HeadTailProperties, EmptySeq
  <2>4. Seen' = Seen + 1 /\ Seen \in Nat /\ Seen + 1 \in 0 .. Len(args)
    BY <1>0, <2>1, <2>2, <2>3 DEF Seen, Progress
  <2>5. Progress'
    <3>. SUFFICES ASSUME NEW i \in 1 .. Len(links')
         PROVE  links'[i] = args[Seen + 1 + i]
      BY <2>1, <2>4 DEF Progress
    <3>1. i + 1 \in 1 .. Len(links) /\ Seen + (i + 1) = Seen + 1 + i
      BY <2>3, <2>4
    <3> QED BY <2>2, <2>3, <3>1 DEF Progress
  <2>6. Head(links) = args[Seen + 1]
    BY <2>2, <2>3 DEF Progress
  <2>7. /\ \A i \in DOMAIN queue' : TargetsSubBlocks(queue'[i])
        /\ Queued(queue') = Under(args[Seen + 1])
    BY <2>1, <2>3, <2>6, Flattened
  <2>8. Range(part') = {}
    BY <2>1 DEF Range
  <2>9. Seen + 1 > 0 /\ (Seen + 1) - 1 = Seen
    BY <2>4
  <2>10. (\A i \in DOMAIN queue : TargetsSubBlocks(queue[i]))'
    BY <2>1, <2>7 DEF TargetsSubBlocks
  <2>11. /\ (Seen > 0)' /\ Read(found, Seen - 1, args, free, healthy)'
         /\ (Range(part) \cup Offers(Queued(queue), free, healthy)
              = Offers(Under(args[Seen]), free, healthy))'
    BY <2>1, <2>2, <2>4, <2>7, <2>8, <2>9
  <2>12. Opened'
    BY <2>10, <2>11 DEF Opened
  <2> QED BY <2>5, <2>12
<1>3. CASE ReadCapacity
  <2>1. /\ Same /\ found' = found /\ pc = "read" /\ pc' = "read" /\ links' = links
        /\ queue # <<>> /\ queue' = Tail(queue)
        /\ part' = part \o Capacities(Head(queue))
    BY <1>3 DEF ReadCapacity, inputs
  <2>. SUFFICES ASSUME mode.force, Undisturbed
       PROVE  Progress' /\ Opened'
    BY <2>1 DEF ScanInv, Scan, Undisturbed
  <2>2. Progress /\ Opened
    BY <2>1 DEF ScanInv, Scan
  <2>3. Seen' = Seen /\ Progress'
    BY <2>1, <2>2 DEF Seen, Progress
  <2>4. /\ Head(queue) \in Links /\ Head(queue) = queue[1] /\ Len(queue) \in Nat \ {0}
        /\ Len(queue') = Len(queue) - 1 /\ queue' \in Seq(Links)
        /\ \A i \in 1 .. Len(queue') : queue'[i] = queue[i + 1]
    BY <1>0, <2>1, HeadTailProperties, EmptySeq
  <2>5. /\ DOMAIN queue = 1 .. Len(queue) /\ DOMAIN queue' = 1 .. Len(queue')
        /\ 1 \in DOMAIN queue
        /\ \A i \in DOMAIN queue' : i + 1 \in DOMAIN queue
        /\ \A i \in DOMAIN queue : i = 1 \/ (i - 1 \in DOMAIN queue' /\ (i - 1) + 1 = i)
    BY <1>0, <2>4
  <2>6. Queued(queue) = Under(Head(queue)) \cup Queued(queue')
    <3>1. \A i \in DOMAIN queue' : queue'[i] = queue[i + 1]
      BY <2>4, <2>5
    <3>2. Queued(queue) \subseteq Under(Head(queue)) \cup Queued(queue')
      <4>. SUFFICES ASSUME NEW i \in DOMAIN queue, NEW s \in Under(queue[i])
           PROVE  s \in Under(Head(queue)) \cup Queued(queue')
        BY DEF Queued
      <4>1. CASE i = 1
        BY <2>4, <4>1
      <4>2. CASE i # 1
        <5>1. i - 1 \in DOMAIN queue' /\ queue'[i - 1] = queue[i]
          BY <2>5, <3>1, <4>2
        <5> QED BY <5>1 DEF Queued
      <4> QED BY <4>1, <4>2
    <3>3. Under(Head(queue)) \cup Queued(queue') \subseteq Queued(queue)
      <4>1. Under(Head(queue)) \subseteq Queued(queue)
        BY <2>4, <2>5 DEF Queued
      <4>2. ASSUME NEW i \in DOMAIN queue'
            PROVE  Under(queue'[i]) \subseteq Queued(queue)
        <5>1. i + 1 \in DOMAIN queue /\ queue'[i] = queue[i + 1]
          BY <2>5, <3>1
        <5> QED BY <5>1 DEF Queued
      <4>3. Queued(queue') \subseteq Queued(queue)
        BY <4>2 DEF Queued
      <4> QED BY <4>1, <4>3
    <3> QED BY <3>2, <3>3
  <2>7. Capacities(Head(queue)) = SubBlockEntries(Head(queue))
    BY <2>2, <2>4, <2>5 DEF Opened, Capacities
  <2>8. /\ Capacities(Head(queue)) \in Seq(Entries)
        /\ Range(Capacities(Head(queue))) = Offers(Under(Head(queue)), free, healthy)
    BY <2>4, <2>7, Listed
  <2>9. Range(part') = Range(part) \cup Offers(Under(Head(queue)), free, healthy)
    BY <1>0, <2>1, <2>8, RangeConcatenation
  <2>10. Offers(Queued(queue), free, healthy)
           = Offers(Under(Head(queue)), free, healthy) \cup Offers(Queued(queue'), free, healthy)
    BY <2>6, OffersApart
  <2>11. Range(part') \cup Offers(Queued(queue'), free, healthy)
           = Offers(Under(args[Seen]), free, healthy)
    BY <2>2, <2>9, <2>10 DEF Opened
  <2>12. (\A i \in DOMAIN queue : TargetsSubBlocks(queue[i]))'
    <3>1. \A i \in DOMAIN queue' : TargetsSubBlocks(queue'[i])
      BY <2>2, <2>4, <2>5 DEF Opened
    <3> QED BY <2>1, <3>1 DEF TargetsSubBlocks
  <2>13. /\ (Seen > 0)' /\ Read(found, Seen - 1, args, free, healthy)'
         /\ (Range(part) \cup Offers(Queued(queue), free, healthy)
              = Offers(Under(args[Seen]), free, healthy))'
    <3>1. Seen > 0 /\ Read(found, Seen - 1, args, free, healthy)
      BY <2>2 DEF Opened
    <3> QED BY <2>1, <2>3, <2>11, <3>1
  <2>14. Opened'
    BY <2>12, <2>13 DEF Opened
  <2> QED BY <2>3, <2>14
<1>4. CASE ReadFails
  BY <1>4 DEF ReadFails, inputs, ScanInv, Scan, Undisturbed
<1>5. CASE CloseLink
  <2>1. Same /\ pc = "read" /\ queue = <<>> /\ links' = links
    BY <1>5 DEF CloseLink, inputs
  <2>. SUFFICES ASSUME mode.force, Undisturbed
       PROVE  Scan'
    BY <1>5, <2>1 DEF ScanInv, Undisturbed, CloseLink
  <2>2. Progress /\ Opened
    BY <2>1 DEF ScanInv, Scan
  <2>3. Range(part) = Offers(Under(args[Seen]), free, healthy)
    <3>1. Queued(queue) = {}
      BY <2>1 DEF Queued
    <3> QED BY <2>2, <3>1, OffersApart DEF Opened
  <2>4. Seen \in Nat \ {0} /\ Seen \in 1 .. Len(args)
    BY <1>0, <2>2 DEF Progress, Opened
  <2>5. CASE NothingFound
    <3>1. Range(part) = {}
      BY <2>5 DEF NothingFound, Range
    <3>2. FittingIn(Under(args[Seen]), free, healthy) = {}
      BY <2>3, <3>1, OffersApart
    <3>3. ~EachOffers(args, Len(args), free, healthy)
      BY <2>4, <3>2 DEF EachOffers
    <3>4. pc' = "refused"
      BY <1>5, <2>5 DEF CloseLink
    <3> QED BY <2>1, <3>3, <3>4 DEF Scan
  <2>6. CASE ~NothingFound
    <3>1. pc' = "next" /\ found' = found \o part
      BY <1>5, <2>6 DEF CloseLink
    <3>2. part # <<>>
      BY <2>6 DEF NothingFound
    <3>3. Range(part) # {}
      <4>1. 1 \in DOMAIN part
        BY <1>0, <3>2, EmptySeq
      <4> QED BY <4>1 DEF Range
    <3>4. FittingIn(Under(args[Seen]), free, healthy) # {}
      BY <2>3, <3>3, OffersApart
    <3>5. Range(found') = Range(found) \cup Range(part)
      BY <1>0, <3>1, RangeConcatenation
    <3>6. Read(found, Seen - 1, args, free, healthy)
      BY <2>2 DEF Opened
    <3>7. Covers(args, Seen) = Covers(args, Seen - 1) \cup Under(args[Seen])
      BY <2>4, OneMore
    <3>8. EachOffers(args, Seen, free, healthy)
      BY <2>4, <3>4, <3>6, OneMore DEF Read
    <3>9. Range(found') = Offers(Covers(args, Seen), free, healthy)
      BY <2>3, <3>5, <3>6, <3>7, OffersApart DEF Read
    <3>10. Seen' = Seen /\ Progress'
      BY <2>1, <2>2 DEF Seen, Progress
    <3>11. Read(found', Seen, args, free, healthy)
      BY <3>8, <3>9 DEF Read
    <3> QED BY <2>1, <3>1, <3>10, <3>11 DEF Scan
  <2> QED BY <2>5, <2>6
<1>6. CASE LastLink
  <2>1. /\ Same /\ pc = "next" /\ links = <<>> /\ found' = Dedup(found)
        /\ pc' = "choose"
    BY <1>6 DEF LastLink, inputs
  <2>. SUFFICES ASSUME mode.force, Undisturbed
       PROVE  Chosen'
    BY <2>1 DEF ScanInv, Scan, Undisturbed
  <2>2. Read(found, Seen, args, free, healthy)
    BY <2>1 DEF ScanInv, Scan
  <2>3. Seen = Len(args)
    BY <1>0, <2>1, EmptySeq DEF Seen
  <2>4. Range(found') = Range(found) /\ IsInjective(found')
    BY <1>0, <2>1, DedupKeeps
  <2>5. Read(found', Len(args), args, free, healthy)
    BY <2>2, <2>3, <2>4 DEF Read
  <2> QED BY <2>1, <2>4, <2>5 DEF Chosen
<1>7. CASE ChooseTargets
  <2>1. Same /\ pc = "choose" /\ found' = found
    BY <1>7 DEF ChooseTargets, inputs
  <2>. SUFFICES ASSUME mode.force, Undisturbed
       PROVE  Scan'
    BY <1>7, <2>1 DEF ScanInv, Undisturbed, ChooseTargets
  <2>2. Chosen
    BY <2>1 DEF ScanInv, Scan
  <2>3. Chosen'
    BY <2>1, <2>2 DEF Chosen
  <2>4. EnoughCapacity' = EnoughCapacity
    BY <2>1 DEF EnoughCapacity
  <2>5. CASE EnoughCapacity
    <3>1. pc' = "planned" /\ targets' = FirstNeeded(found)
      BY <1>7, <2>5 DEF ChooseTargets
    <3>2. \A p \in 1 .. needed : targets'[p] = Spread(found)[p]
      BY <2>5, <3>1, FirstOnes
    <3>3. Planned'
      BY <2>1, <2>4, <2>5, <3>2 DEF Planned
    <3> QED BY <2>3, <3>1, <3>3 DEF Scan
  <2>6. CASE ~EnoughCapacity
    <3>1. pc' = "refused"
      BY <1>7, <2>6 DEF ChooseTargets
    <3> QED BY <2>3, <2>4, <2>6, <3>1 DEF Scan
  <2> QED BY <2>5, <2>6
<1>8. CASE OthersChange
  <2>1. changes' < MaxChanges /\ pc \in {"next", "read"} /\ pc' = pc
    BY <1>8, ReservationsAssumption DEF OthersChange, TypeInv
  <2> QED BY <2>1, ReservationsAssumption DEF ScanInv, Undisturbed, TypeInv
<1>9. CASE UNCHANGED vars
  <2>1. /\ Same /\ found' = found /\ pc' = pc /\ links' = links /\ queue' = queue
        /\ part' = part /\ targets' = targets
    BY <1>9 DEF vars, inputs
  <2> QED BY <2>1 DEF ScanInv, Undisturbed, Scan, Progress, Opened, Chosen, Planned,
                      Seen, EnoughCapacity, TargetsSubBlocks
<1> QED BY <1>1, <1>2, <1>3, <1>4, <1>5, <1>6, <1>7, <1>8, <1>9 DEF Next

-----------------------------------------------------------------------------
(* The theorems.                                                             *)

(* An entry on offer is that of the sub-block its link names.                  *)
LEMMA OfferOf ==
  ASSUME NEW S, NEW f, NEW h, NEW e \in Offers(S, f, h)
  PROVE  /\ e.link.name \in FittingIn(S, f, h)
         /\ e.link = SubBlockLink(e.link.name)
         /\ e.slices = Slices(f[e.link.name])
         /\ e = Entry(e.link, Slices(f[e.link.name]))
<1>1. PICK s \in FittingIn(S, f, h) : e = Entry(SubBlockLink(s), Slices(f[s]))
  BY DEF Offers
<1>2. e.link = SubBlockLink(s) /\ e.slices = Slices(f[s]) /\ SubBlockLink(s).name = s
  BY <1>1 DEF Entry, SubBlockLink
<1> QED BY <1>1, <1>2

(* Of the entries that are kept, no two are of one sub-block.                  *)
LEMMA OneEach ==
  ASSUME TypeInv, Chosen
  PROVE  /\ \A i \in DOMAIN found :
              /\ found[i].link.name \in FittingIn(Covered, free, healthy)
              /\ found[i].link = SubBlockLink(found[i].link.name)
              /\ found[i].slices = Slices(free[found[i].link.name])
         /\ \A i, j \in DOMAIN found : found[i].link = found[j].link => i = j
         /\ \A s \in FittingIn(Covered, free, healthy) :
              \E i \in DOMAIN found : found[i].link.name = s
<1>1. Range(found) = Offers(Covered, free, healthy)
  <2>1. DOMAIN args = 1 .. Len(args)
    BY DEF TypeInv
  <2> QED BY <2>1 DEF Chosen, Read, Covered, Covers
<1>2. \A i \in DOMAIN found : found[i] \in Offers(Covered, free, healthy)
  BY <1>1 DEF Range
<1>3. \A i \in DOMAIN found :
        /\ found[i].link.name \in FittingIn(Covered, free, healthy)
        /\ found[i].link = SubBlockLink(found[i].link.name)
        /\ found[i].slices = Slices(free[found[i].link.name])
        /\ found[i] = Entry(found[i].link, Slices(free[found[i].link.name]))
  BY <1>2, OfferOf
<1>4. \A i, j \in DOMAIN found : found[i].link = found[j].link => i = j
  <2>1. \A i, j \in DOMAIN found : found[i] = found[j] => i = j
    BY DEF Chosen, IsInjective
  <2> QED BY <1>3, <2>1
<1>5. ASSUME NEW s \in FittingIn(Covered, free, healthy)
      PROVE  \E i \in DOMAIN found : found[i].link.name = s
  <2>1. Entry(SubBlockLink(s), Slices(free[s])) \in Range(found)
    BY <1>1 DEF Offers
  <2>2. PICK i \in DOMAIN found : found[i] = Entry(SubBlockLink(s), Slices(free[s]))
    BY <2>1 DEF Range
  <2> QED BY <2>2 DEF Entry, SubBlockLink
<1> QED BY <1>3, <1>4, <1>5

(* The room for slices on the sub-blocks of a set.                            *)
LEMMA Rooms ==
  ASSUME TypeInv, NEW S \in SUBSET SubBlocks
  PROVE  /\ IsFiniteSet(S) /\ \A s \in S : Room[s] \in Nat
         /\ \A s \in S : Room[s] > 0 <=> s \in FittingIn(S, free, healthy)
         /\ \A s \in FittingIn(S, free, healthy) : Room[s] = Slices(free[s])
         /\ Fits(S) > 0 <=> FittingIn(S, free, healthy) # {}
<1>1. IsFiniteSet(S)
  BY FiniteReservation, FS_Subset
<1>2. \A s \in S : /\ Slices(free[s]) \in Nat
                   /\ Room[s] = IF healthy[s] THEN Slices(free[s]) ELSE 0
  <2>1. \A s \in S : free[s] \in Nat
    BY ReservationsAssumption DEF TypeInv
  <2>2. \A s \in S : Room[s] = IF healthy[s] THEN Slices(free[s]) ELSE 0
    BY DEF Room, Slices
  <2> QED BY <2>1, <2>2, WholeSlices
<1>3. \A s \in S : healthy[s] \in BOOLEAN
  BY DEF TypeInv
<1>4. /\ \A s \in S : Room[s] \in Nat
      /\ \A s \in S : Room[s] > 0 <=> s \in FittingIn(S, free, healthy)
      /\ \A s \in FittingIn(S, free, healthy) : Room[s] = Slices(free[s])
  BY <1>2, <1>3 DEF FittingIn
<1>5. Fits(S) > 0 <=> \E s \in S : Room[s] > 0
  BY <1>1, <1>4, SumPositive DEF Fits
<1>6. FittingIn(S, free, healthy) \subseteq S
  BY DEF FittingIn
<1> QED BY <1>1, <1>4, <1>5, <1>6

(* The entries that are kept count every slice that fits once.                 *)
LEMMA CountedOnce ==
  ASSUME TypeInv, Chosen
  PROVE  Total(found) = Fits(Covered)
<1>. DEFINE F == FittingIn(Covered, free, healthy)
            n == Len(found)
            c == Counts(found)
            b == [i \in 1 .. n |-> found[i].link.name]
<1>1. n \in Nat /\ DOMAIN found = 1 .. n /\ found \in Seq(Entries)
  BY DEF TypeInv
<1>2. Covered \in SUBSET SubBlocks /\ F \subseteq Covered
  <2>1. \A i \in DOMAIN args : args[i] \in Links
    BY DEF TypeInv
  <2>2. \A i \in DOMAIN args : Under(args[i]) \subseteq SubBlocks
    BY <2>1, FiniteReservation
  <2> QED BY <2>2 DEF Covered, FittingIn
<1>3. /\ IsFiniteSet(Covered) /\ \A s \in Covered : Room[s] \in Nat
      /\ \A s \in Covered : Room[s] > 0 <=> s \in F
      /\ \A s \in F : Room[s] = Slices(free[s])
  BY <1>2, Rooms
<1>4. Total(found) = SumFunctionOnSet(c, 1 .. n) /\ IsFiniteSet(1 .. n)
  BY <1>1, PartialTotals, FS_Interval DEF UpTo
<1>5. /\ b \in Bijection(1 .. n, F)
      /\ \A i \in 1 .. n : c[i] \in Nat /\ c[i] = Room[b[i]]
  <2>1. /\ \A i \in 1 .. n : /\ found[i].link.name \in F
                             /\ found[i].link = SubBlockLink(found[i].link.name)
                             /\ found[i].slices = Slices(free[found[i].link.name])
        /\ \A i, j \in 1 .. n : found[i].link = found[j].link => i = j
        /\ \A s \in F : \E i \in 1 .. n : found[i].link.name = s
    BY <1>1, OneEach
  <2>2. \A i \in 1 .. n : c[i] = found[i].slices
    BY <1>1 DEF Counts
  <2>. HIDE DEF F, c
  <2>3. b \in [1 .. n -> F]
    BY <2>1
  <2>4. \A i, j \in 1 .. n : b[i] = b[j] => i = j
    BY <2>1
  <2>5. \A s \in F : \E i \in 1 .. n : b[i] = s
    BY <2>1
  <2>6. \A i \in 1 .. n : c[i] = Room[b[i]]
    BY <1>3, <2>1, <2>2
  <2>7. \A i \in 1 .. n : c[i] \in Nat
    BY <1>2, <1>3, <2>3, <2>6
  <2>. HIDE DEF b
  <2>8. b \in Bijection(1 .. n, F)
    BY <2>3, <2>4, <2>5 DEF Bijection, Injection, Surjection, IsInjective
  <2> QED BY <2>6, <2>7, <2>8
<1>. HIDE DEF F, c, b, n
<1>6. SumFunctionOnSet(c, 1 .. n) = SumFunctionOnSet(Room, F)
  <2>1. \A s \in F : Room[s] \in Nat
    BY <1>2, <1>3
  <2>. DEFINE D == 1 .. n
  <2>2. /\ IsFiniteSet(D) /\ b \in Bijection(D, F)
        /\ (\A i \in D : c[i] \in Nat) /\ (\A i \in D : c[i] = Room[b[i]])
    BY <1>4, <1>5
  <2>. HIDE DEF D
  <2>3. SumFunctionOnSet(c, D) = SumFunctionOnSet(Room, F)
    BY <2>1, <2>2, SumRenamed
  <2> QED BY <2>3 DEF D
<1>7. SumFunctionOnSet(Room, Covered) = SumFunctionOnSet(Room, F)
  <2>1. \A s \in Covered \ F : Room[s] = 0
    BY <1>3
  <2> QED BY <1>2, <1>3, <2>1, SumWithoutZeros
<1> QED BY <1>4, <1>6, <1>7 DEF Fits

(* With super-slicing a run that was not disturbed counts no sub-block twice.   *)
THEOREM CountsOnce == Spec => []NoDoubleCounting
<1>1. TypeInv /\ ScanInv => NoDoubleCounting
  <2>. SUFFICES ASSUME TypeInv, ScanInv, pc = "choose", mode.force, Undisturbed
       PROVE  \A i, j \in DOMAIN found : found[i].link = found[j].link => i = j
    BY DEF NoDoubleCounting
  <2>1. Chosen
    BY DEF ScanInv, Scan
  <2> QED BY <2>1, OneEach
<1> QED BY <1>1, TypeInit, TypeNext, ScanInit, ScanNext, PTL DEF Spec

(* The pools on a sub-block are at most as many as the slices that fit on it.    *)
THEOREM PlacedWhereTheyFit == Spec => []PoolsFit
<1>1. TypeInv /\ ScanInv => PoolsFit
  <2>. SUFFICES ASSUME TypeInv, ScanInv, pc = "planned", mode.force, mode.validate,
                       Undisturbed, NEW s \in SubBlocks, Targeting(SubBlockLink(s)) > 0
       PROVE  healthy[s] /\ Targeting(SubBlockLink(s)) * Required <= free[s]
    BY DEF PoolsFit
  <2>. DEFINE P == {p \in DOMAIN targets : targets[p] = SubBlockLink(s)}
  <2>1. Targeting(SubBlockLink(s)) = Cardinality(P)
    BY DEF Targeting, Quantify
  <2>2. Chosen /\ Planned
    BY DEF ScanInv, Scan
  <2>3. /\ DOMAIN targets = 1 .. needed /\ needed \in Nat
        /\ found \in Seq(Entries) /\ DOMAIN found = 1 .. Len(found) /\ Len(found) \in Nat
    BY DEF TypeInv, EveryPoolHasTarget
  <2>4. \A p \in P : \E k \in 1 .. Len(found) :
          /\ UpTo(found, k - 1) < p /\ p <= UpTo(found, k)
          /\ found[k].link = SubBlockLink(s)
    <3>. SUFFICES ASSUME NEW p \in P
         PROVE  \E k \in 1 .. Len(found) :
                  /\ UpTo(found, k - 1) < p /\ p <= UpTo(found, k)
                  /\ found[k].link = SubBlockLink(s)
      OBVIOUS
    <3>1. p \in 1 .. needed /\ Spread(found)[p] = SubBlockLink(s)
      BY <2>2, <2>3 DEF Planned
    <3>2. Spread(found) \in Seq(Links) /\ Len(Spread(found)) = Total(found)
      BY <2>3, Repeating
    <3>3. Len(Spread(found)) \in Nat /\ needed <= Len(Spread(found))
      BY <2>2, <2>3, <3>2 DEF Planned, EnoughCapacity
    <3>4. p \in 1 .. Len(Spread(found))
      BY <2>3, <3>1, <3>3
    <3> QED BY <2>3, <3>1, <3>4, Repeating
  <2>5. P \subseteq 1 .. needed /\ IsFiniteSet(P) /\ Cardinality(P) \in Nat
    <3>1. P \subseteq 1 .. needed
      BY <2>3
    <3>2. IsFiniteSet(1 .. needed)
      <4>1. 1 \in Int /\ needed \in Int
        BY <2>3
      <4> QED BY <4>1, FS_Interval
    <3>. HIDE DEF P
    <3> QED BY <3>1, <3>2, FS_Subset, FS_CardinalityType
  <2>6. PICK k \in 1 .. Len(found) : found[k].link = SubBlockLink(s)
    <3>1. P # {}
      <4>1. Cardinality(P) # 0
        BY <2>1
      <4>. HIDE DEF P
      <4> QED BY <2>5, <4>1, FS_EmptySet
    <3>. HIDE DEF P
    <3> QED BY <2>4, <3>1
  <2>7. /\ UpTo(found, k - 1) \in Nat /\ UpTo(found, k) \in Nat
        /\ UpTo(found, k) = UpTo(found, k - 1) + found[k].slices
    <3>1. k \in 0 .. Len(found) /\ k - 1 \in 0 .. Len(found)
      BY <2>3
    <3> QED BY <2>3, <3>1, PartialTotals
  <2>8. /\ s \in FittingIn(Covered, free, healthy) /\ found[k].slices = Slices(free[s])
        /\ \A j \in 1 .. Len(found) : found[j].link = SubBlockLink(s) => j = k
    <3>1. found[k].link.name = s
      BY <2>6 DEF SubBlockLink
    <3> QED BY <2>2, <2>3, <2>6, <3>1, OneEach
  <2>9. Slices(free[s]) \in Nat /\ Slices(free[s]) * Required <= free[s] /\ healthy[s]
    <3>1. free[s] \in Nat
      BY ReservationsAssumption DEF TypeInv
    <3> QED BY <2>8, <3>1, WholeSlices DEF FittingIn
  <2>10. P \subseteq (UpTo(found, k - 1) + 1) .. UpTo(found, k)
    <3>1. \A p \in P : UpTo(found, k - 1) < p /\ p <= UpTo(found, k)
      BY <2>4, <2>8
    <3>2. \A p \in P : p \in Nat
      BY <2>5
    <3>. HIDE DEF P
    <3> QED BY <2>7, <3>1, <3>2
  <2>11. Cardinality(P) <= Slices(free[s])
    <3>. DEFINE lo == UpTo(found, k - 1)
                hi == UpTo(found, k)
                J == (lo + 1) .. hi
    <3>. HIDE DEF P, lo, hi
    <3>1. lo \in Nat /\ hi \in Nat /\ hi = lo + Slices(free[s]) /\ P \subseteq J
      BY <2>7, <2>8, <2>10 DEF lo, hi
    <3>2. /\ IsFiniteSet(J)
          /\ Cardinality(J) = IF lo + 1 > hi THEN 0 ELSE hi - (lo + 1) + 1
      <4>1. lo + 1 \in Int /\ hi \in Int
        BY <3>1
      <4> QED BY <4>1, FS_Interval
    <3>3. Cardinality(J) = Slices(free[s])
      BY <2>9, <3>1, <3>2
    <3>4. Cardinality(P) <= Cardinality(J)
      BY <3>1, <3>2, FS_Subset
    <3> QED BY <3>3, <3>4
  <2>12. Cardinality(P) * Required <= free[s]
    <3>1. \A m, n, r \in Nat : m <= n => m * r <= n * r
      BY SMTT(30)
    <3>2. Required \in Nat /\ free[s] \in Nat
      BY ReservationsAssumption DEF TypeInv
    <3>3. Cardinality(P) * Required <= Slices(free[s]) * Required
      <4>. HIDE DEF P
      <4> QED BY <2>5, <2>9, <2>11, <3>1, <3>2
    <3>4. \A a, m, n \in Nat : a <= m /\ m <= n => a <= n
      OBVIOUS
    <3>5. Cardinality(P) * Required \in Nat /\ Slices(free[s]) * Required \in Nat
      <4>. HIDE DEF P
      <4> QED BY <2>5, <2>9, <3>2
    <3>. HIDE DEF P
    <3> QED BY <2>9, <3>2, <3>3, <3>4, <3>5
  <2> QED BY <2>1, <2>9, <2>12
<1> QED BY <1>1, TypeInit, TypeNext, ScanInit, ScanNext, PTL DEF Spec

(* A run goes on exactly if what its links cover has room for its pools.         *)
THEOREM RefusesRightly == Spec => []RefusesOnlyWhatDoesNotFit
<1>1. TypeInv /\ ScanInv => RefusesOnlyWhatDoesNotFit
  <2>. SUFFICES ASSUME TypeInv, ScanInv, pc \in {"planned", "refused"}, mode.force,
                       mode.validate, Undisturbed
       PROVE  pc = "planned" <=> Offered
    BY DEF RefusesOnlyWhatDoesNotFit
  <2>1. Offered <=> EachOffers(args, Len(args), free, healthy) /\ Fits(Covered) >= needed
    <3>1. DOMAIN args = 1 .. Len(args) /\ \A i \in 1 .. Len(args) : args[i] \in Links
      BY DEF TypeInv
    <3>2. \A i \in 1 .. Len(args) : Under(args[i]) \in SUBSET SubBlocks
      BY <3>1, FiniteReservation
    <3>3. \A i \in 1 .. Len(args) :
            Fits(Under(args[i])) > 0 <=> FittingIn(Under(args[i]), free, healthy) # {}
      BY <3>2, Rooms
    <3> QED BY <3>1, <3>3 DEF Offered, EachOffers
  <2>2. CASE pc = "planned"
    <3>1. Chosen /\ EnoughCapacity
      BY <2>2 DEF ScanInv, Scan, Planned
    <3>2. Fits(Covered) >= needed
      BY <3>1, CountedOnce DEF EnoughCapacity
    <3>3. EachOffers(args, Len(args), free, healthy)
      BY <3>1 DEF Chosen, Read
    <3> QED BY <2>1, <2>2, <3>2, <3>3
  <2>3. CASE pc = "refused"
    <3>1. CASE ~EachOffers(args, Len(args), free, healthy)
      BY <2>1, <2>3, <3>1
    <3>2. CASE Chosen /\ ~EnoughCapacity
      BY <2>1, <2>3, <3>2, CountedOnce DEF EnoughCapacity
    <3>3. \/ ~EachOffers(args, Len(args), free, healthy)
          \/ Chosen /\ ~EnoughCapacity
      BY <2>3 DEF ScanInv, Scan
    <3> QED BY <3>1, <3>2, <3>3
  <2> QED BY <2>2, <2>3
<1> QED BY <1>1, TypeInit, TypeNext, ScanInit, ScanNext, PTL DEF Spec
=============================================================================
