----------------------------- MODULE FoldLemmas -----------------------------
(***************************************************************************)
(* Induction over natural numbers in a form the provers can apply, and     *)
(* what it gives about the folds of the community modules: the recursive   *)
(* functions behind them exist, and a sum over a finite set does not       *)
(* depend on the order in which its elements are taken.                    *)
(***************************************************************************)
EXTENDS Integers, SequencesExt, WellFoundedInduction, FiniteSetTheorems, SequenceTheorems, TLAPS

-----------------------------------------------------------------------------
(* Induction *)

(* A non-empty set of naturals has a least element. *)
LEMMA LeastElement ==
    ASSUME NEW T, T \subseteq Nat, T # {}
    PROVE  \E x \in T : \A y \in T : x <= y
<1>1. PICK x \in T : \A y \in T : ~ (<<y, x>> \in OpToRel(<, Nat))
    BY NatLessThanWellFounded, WFMin
<1>2. \A y \in T : ~ (y < x)
    BY <1>1 DEF OpToRel
<1> QED  BY <1>2

(* A set with 0 that is closed under successor has every natural. *)
LEMMA SetInduction ==
    ASSUME NEW S, 0 \in S, \A n \in Nat : n \in S => n + 1 \in S
    PROVE  Nat \subseteq S
<1> DEFINE T == Nat \ S
<1> SUFFICES ASSUME T # {} PROVE FALSE
    OBVIOUS
<1>1. PICK x \in T : \A y \in T : x <= y
    BY LeastElement
<1>2. x # 0 /\ x - 1 \in Nat /\ x - 1 \notin T
    BY <1>1
<1> QED  BY <1>2

(* The same for the subsets of a finite set, from the empty one upwards. *)
LEMMA SubsetInduction ==
    ASSUME NEW S, IsFiniteSet(S), NEW G, {} \in G,
           \A T \in SUBSET S : T # {} /\ (\A x \in T : T \ {x} \in G) => T \in G
    PROVE  SUBSET S \subseteq G
<1> DEFINE Size(n) == \A T \in SUBSET S : Cardinality(T) = n => T \in G
           N == {n \in Nat : Size(n)}
<1>1. \A T \in SUBSET S :
          /\ IsFiniteSet(T) /\ Cardinality(T) \in Nat /\ (T = {} <=> Cardinality(T) = 0)
          /\ \A x \in T : Cardinality(T \ {x}) = Cardinality(T) - 1
    BY FS_Subset, FS_CardinalityType, FS_EmptySet, FS_RemoveElement
<1>2. Size(0)
    BY <1>1
<1>3. ASSUME NEW n \in Nat, Size(n) PROVE Size(n + 1)
    <2> SUFFICES ASSUME NEW T \in SUBSET S, Cardinality(T) = n + 1 PROVE T \in G
        OBVIOUS
    <2>1. T # {} /\ \A x \in T : T \ {x} \in SUBSET S /\ Cardinality(T \ {x}) = n
        BY <1>1
    <2> QED  BY <1>3, <2>1
<1> HIDE DEF Size
<1>4. 0 \in N /\ \A n \in Nat : n \in N => n + 1 \in N
    BY <1>2, <1>3
<1>5. Nat \subseteq N
    <2> HIDE DEF N
    <2> QED  BY <1>4, SetInduction
<1>6. \A n \in Nat : Size(n)
    BY <1>5
<1> QED  BY <1>1, <1>6 DEF Size

-----------------------------------------------------------------------------
(* Folds over finite sets *)

(* The arguments of a fold over a finite set: the values it runs through,  *)
(* the next element of what is left, and the step.  Both are functions     *)
(* here, not operators, so that the lemma can be applied.                  *)
FoldOf(S, A, base, pick, step) ==
    /\ IsFiniteSet(S)
    /\ base \in A
    /\ \A T \in SUBSET S : T # {} => pick[T] \in T
    /\ step \in [S -> [A -> A]]

(* The recursive function by which MapThenFoldSet computes it. *)
IsIter(f, S, A, base, pick, step) ==
    /\ f \in [SUBSET S -> A]
    /\ f[{}] = base
    /\ \A T \in SUBSET S : T # {} => f[T] = step[pick[T]][f[T \ {pick[T]}]]

(* Every fold over a finite set is well defined. *)
LEMMA IterExists ==
    ASSUME NEW S, NEW A, NEW base, NEW pick, NEW step, FoldOf(S, A, base, pick, step)
    PROVE  \E f : IsIter(f, S, A, base, pick, step)
<1> USE DEF FoldOf
<1> DEFINE Small(n) == {T \in SUBSET S : Cardinality(T) <= n}
           Good(n) == \E f \in [Small(n) -> A] : \A T \in Small(n) :
                         f[T] = IF T = {} THEN base ELSE step[pick[T]][f[T \ {pick[T]}]]
           N == {n \in Nat : Good(n)}
<1>0. \A T \in SUBSET S : /\ IsFiniteSet(T) /\ Cardinality(T) \in Nat
                          /\ Cardinality(T) <= Cardinality(S)
                          /\ T # {} => /\ Cardinality(T \ {pick[T]}) = Cardinality(T) - 1
                                       /\ Cardinality(T) # 0
                                       /\ T \ {pick[T]} \in SUBSET S
    <2> TAKE T \in SUBSET S
    <2>1. IsFiniteSet(T) /\ Cardinality(T) \in Nat /\ Cardinality(T) <= Cardinality(S)
        BY FS_Subset, FS_CardinalityType
    <2>2. ASSUME T # {} PROVE Cardinality(T \ {pick[T]}) = Cardinality(T) - 1 /\ Cardinality(T) # 0
        BY <2>1, <2>2, FS_RemoveElement, FS_EmptySet
    <2> QED  BY <2>1, <2>2
<1>s. \A n \in Nat : \A T : T \in Small(n) <=> T \in SUBSET S /\ Cardinality(T) <= n
    OBVIOUS
<1>n. \A n \in Nat : n \in N <=> Good(n)
    OBVIOUS
<1> HIDE DEF Small, N
<1>1. 0 \in N
    <2>1. \A T \in Small(0) : T = {}
        <3> TAKE T \in Small(0)
        <3>1. T \in SUBSET S /\ Cardinality(T) <= 0
            BY <1>s
        <3>2. Cardinality(T) \in Nat /\ (T # {} => Cardinality(T) # 0)
            BY <1>0, <3>1
        <3> QED  BY <3>1, <3>2
    <2> DEFINE f == [T \in Small(0) |-> base]
    <2>2. f \in [Small(0) -> A] /\ \A T \in Small(0) :
              f[T] = IF T = {} THEN base ELSE step[pick[T]][f[T \ {pick[T]}]]
        BY <2>1
    <2> QED  BY <1>n, <2>2
<1>2. ASSUME NEW n \in Nat, n \in N PROVE n + 1 \in N
    <2>1. PICK f \in [Small(n) -> A] : \A T \in Small(n) :
                         f[T] = IF T = {} THEN base ELSE step[pick[T]][f[T \ {pick[T]}]]
        BY <1>2, <1>n
    <2> DEFINE g == [T \in Small(n + 1) |->
                        IF T = {} THEN base ELSE step[pick[T]][f[T \ {pick[T]}]]]
    <2>2. ASSUME NEW T \in Small(n + 1), T # {}
          PROVE  T \ {pick[T]} \in Small(n) /\ pick[T] \in S
        <3>1. T \in SUBSET S /\ Cardinality(T) <= n + 1
            BY <1>s
        <3>2. /\ Cardinality(T \ {pick[T]}) = Cardinality(T) - 1 /\ T \ {pick[T]} \in SUBSET S
              /\ Cardinality(T) \in Nat
            BY <1>0, <2>2, <3>1
        <3>3. Cardinality(T \ {pick[T]}) <= n
            BY <3>1, <3>2
        <3> QED  BY <1>s, <2>2, <3>1, <3>2, <3>3
    <2>3. ASSUME NEW T \in Small(n) PROVE T \in Small(n + 1) /\ g[T] = f[T]
        <3>1. T \in SUBSET S /\ Cardinality(T) <= n /\ Cardinality(T) \in Nat
            BY <1>s, <1>0
        <3>2. T \in Small(n + 1)
            BY <1>s, <3>1
        <3> QED  BY <2>1, <3>2
    <2>4. g \in [Small(n + 1) -> A]
        BY <2>1, <2>2
    <2>5. \A T \in Small(n + 1) :
             g[T] = IF T = {} THEN base ELSE step[pick[T]][g[T \ {pick[T]}]]
        BY <2>2, <2>3
    <2> HIDE DEF g
    <2>6. Good(n + 1)
        BY <2>4, <2>5
    <2> HIDE DEF Good
    <2> QED  BY <1>n, <2>6
<1>3. Cardinality(S) \in N /\ Cardinality(S) \in Nat
    BY <1>1, <1>2, SetInduction, FS_CardinalityType
<1>4. \A T : T \in Small(Cardinality(S)) <=> T \in SUBSET S
    BY <1>0, <1>3, <1>s
<1>5. Small(Cardinality(S)) = SUBSET S
    BY <1>4
<1>6. PICK f \in [SUBSET S -> A] : \A T \in SUBSET S :
                         f[T] = IF T = {} THEN base ELSE step[pick[T]][f[T \ {pick[T]}]]
    <2>1. Good(Cardinality(S))
        <3> HIDE DEF Good
        <3> QED  BY <1>3, <1>n
    <2> QED  BY <2>1, <1>5
<1> QED  BY <1>6 DEF IsIter

-----------------------------------------------------------------------------
(* Sums over finite sets *)

Choice(T) == CHOOSE x \in T : TRUE

(* What SumFunctionOnSet computes on the way to the sum over S. *)
SumIter(fun, S) ==
    CHOOSE f : f = [T \in SUBSET S |->
                       IF T = {} THEN 0 ELSE fun[Choice(T)] + f[T \ {Choice(T)}]]

(* The sum over a set is the last of the partial sums. *)
LEMMA SumIsIter ==
    ASSUME NEW fun, NEW S
    PROVE  SumFunctionOnSet(fun, S) = SumIter(fun, S)[S]
BY DEF SumFunctionOnSet, FoldFunctionOnSet, MapThenFoldSet, SumIter, Choice

(* The partial sums exist and are naturals. *)
LEMMA SumIterDef ==
    ASSUME NEW S, IsFiniteSet(S), NEW fun, \A x \in S : fun[x] \in Nat
    PROVE  /\ SumIter(fun, S) \in [SUBSET S -> Nat]
           /\ SumIter(fun, S)[{}] = 0
           /\ \A T \in SUBSET S : T # {} =>
                  SumIter(fun, S)[T] = fun[Choice(T)] + SumIter(fun, S)[T \ {Choice(T)}]
<1> DEFINE pick == [T \in SUBSET S |-> IF T = {} THEN {} ELSE Choice(T)]
           step == [x \in S |-> [a \in Nat |-> fun[x] + a]]
           Eq(f) == f = [T \in SUBSET S |->
                            IF T = {} THEN 0 ELSE fun[Choice(T)] + f[T \ {Choice(T)}]]
           F == SumIter(fun, S)
<1>1. \A T \in SUBSET S : T # {} => Choice(T) \in T
    BY DEF Choice
<1>2. \A T \in SUBSET S : T # {} => pick[T] \in T
    BY <1>1
<1>3. step \in [S -> [Nat -> Nat]]
    OBVIOUS
<1>4. PICK g : IsIter(g, S, Nat, 0, pick, step)
    <2>1. FoldOf(S, Nat, 0, pick, step)
        BY <1>2, <1>3 DEF FoldOf
    <2> HIDE DEF pick, step
    <2> QED  BY <2>1, IterExists
<1>5. \A T \in SUBSET S : T # {} => step[pick[T]][g[T \ {pick[T]}]] = fun[Choice(T)] + g[T \ {Choice(T)}]
    <2> SUFFICES ASSUME NEW T \in SUBSET S, T # {}
                 PROVE  step[pick[T]][g[T \ {pick[T]}]] = fun[Choice(T)] + g[T \ {Choice(T)}]
        OBVIOUS
    <2>1. pick[T] = Choice(T) /\ Choice(T) \in S /\ T \ {Choice(T)} \in SUBSET S
        BY <1>1
    <2>2. g[T \ {Choice(T)}] \in Nat
        BY <1>4, <2>1 DEF IsIter
    <2> QED  BY <2>1, <2>2
<1>6. Eq(g)
    <2> HIDE DEF pick, step
    <2>1. g = [T \in SUBSET S |-> g[T]] /\ g[{}] = 0
        BY <1>4 DEF IsIter
    <2>2. \A T \in SUBSET S : T # {} => g[T] = fun[Choice(T)] + g[T \ {Choice(T)}]
        BY <1>4, <1>5 DEF IsIter
    <2> QED  BY <2>1, <2>2
<1> HIDE DEF pick, step
<1>7. Eq(F)
    BY <1>6 DEF SumIter
<1>8. F[{}] = 0 /\ DOMAIN F = SUBSET S /\ F = [T \in SUBSET S |-> F[T]]
      /\ \A T \in SUBSET S : T # {} => F[T] = fun[Choice(T)] + F[T \ {Choice(T)}]
    <2> HIDE DEF F
    <2> QED  BY <1>7
<1> HIDE DEF F
<1> DEFINE G == {T \in SUBSET S : F[T] \in Nat}
<1>9. {} \in G
    BY <1>8
<1>10. ASSUME NEW T \in SUBSET S, T # {}, \A x \in T : T \ {x} \in G PROVE T \in G
    <2>1. Choice(T) \in T /\ Choice(T) \in S /\ F[T \ {Choice(T)}] \in Nat
        BY <1>1, <1>10
    <2>2. F[T] = fun[Choice(T)] + F[T \ {Choice(T)}] /\ fun[Choice(T)] \in Nat
        BY <1>8, <1>10, <2>1
    <2> QED  BY <2>1, <2>2
<1>11. SUBSET S \subseteq G
    <2> HIDE DEF G
    <2> QED  BY <1>9, <1>10, SubsetInduction
<1> QED  BY <1>8, <1>11 DEF F

(* The partial sum over a subset is the same whatever it is a part of. *)
LEMMA SumIterPart ==
    ASSUME NEW S, IsFiniteSet(S), NEW fun, \A x \in S : fun[x] \in Nat, NEW U \in SUBSET S
    PROVE  \A T \in SUBSET U : SumIter(fun, U)[T] = SumIter(fun, S)[T]
<1> DEFINE G == {T \in SUBSET U : SumIter(fun, U)[T] = SumIter(fun, S)[T]}
<1>1. IsFiniteSet(U) /\ \A x \in U : fun[x] \in Nat
    BY FS_Subset
<1>a. \A T \in SUBSET U : T # {} =>
          SumIter(fun, U)[T] = fun[Choice(T)] + SumIter(fun, U)[T \ {Choice(T)}]
    BY <1>1, SumIterDef
<1>b. \A T \in SUBSET S : T # {} =>
          SumIter(fun, S)[T] = fun[Choice(T)] + SumIter(fun, S)[T \ {Choice(T)}]
    BY SumIterDef
<1>2. {} \in G
    BY <1>1, SumIterDef
<1>3. ASSUME NEW T \in SUBSET U, T # {}, \A x \in T : T \ {x} \in G PROVE T \in G
    <2>1. Choice(T) \in T
        BY <1>3 DEF Choice
    <2>2. SumIter(fun, U)[T] = fun[Choice(T)] + SumIter(fun, U)[T \ {Choice(T)}]
        BY <1>a, <1>3
    <2>3. SumIter(fun, S)[T] = fun[Choice(T)] + SumIter(fun, S)[T \ {Choice(T)}]
        BY <1>b, <1>3
    <2>4. SumIter(fun, U)[T \ {Choice(T)}] = SumIter(fun, S)[T \ {Choice(T)}]
        BY <1>3, <2>1
    <2> QED  BY <2>2, <2>3, <2>4
<1>4. SUBSET U \subseteq G
    <2> HIDE DEF G
    <2> QED  BY <1>1, <1>2, <1>3, SubsetInduction
<1> QED  BY <1>4

(* The sum over a set is a natural, and it is the sum without one of the   *)
(* elements, whichever, plus that element's value.                         *)
LEMMA SumRemove ==
    ASSUME NEW S, IsFiniteSet(S), NEW fun, \A x \in S : fun[x] \in Nat
    PROVE  /\ SumFunctionOnSet(fun, S) \in Nat
           /\ S = {} => SumFunctionOnSet(fun, S) = 0
           /\ \A x \in S : SumFunctionOnSet(fun, S) = fun[x] + SumFunctionOnSet(fun, S \ {x})
<1> DEFINE F == SumIter(fun, S)
           G == {T \in SUBSET S : \A x \in T : F[T] = fun[x] + F[T \ {x}]}
<1>1. /\ F \in [SUBSET S -> Nat] /\ F[{}] = 0
      /\ \A T \in SUBSET S : T # {} => F[T] = fun[Choice(T)] + F[T \ {Choice(T)}]
    BY SumIterDef
<1>2. \A T \in SUBSET S : SumFunctionOnSet(fun, T) = F[T]
    BY SumIterPart, SumIsIter
<1> HIDE DEF F
<1>3. {} \in G
    OBVIOUS
<1>4. ASSUME NEW T \in SUBSET S, T # {}, \A x \in T : T \ {x} \in G PROVE T \in G
    <2> SUFFICES ASSUME NEW x \in T PROVE F[T] = fun[x] + F[T \ {x}]
        OBVIOUS
    <2> DEFINE c == Choice(T)
    <2>1. c \in T
        BY <1>4 DEF Choice
    <2>2. F[T] = fun[c] + F[T \ {c}]
        BY <1>1, <1>4
    <2> HIDE DEF c
    <2>3. CASE x = c
        BY <2>2, <2>3
    <2>4. CASE x # c
        <3>1. x \in T \ {c} /\ c \in T \ {x} /\ (T \ {c}) \ {x} = (T \ {x}) \ {c}
            BY <2>1, <2>4
        <3>2. F[T \ {c}] = fun[x] + F[(T \ {c}) \ {x}]
            BY <1>4, <2>1, <3>1
        <3>3. F[T \ {x}] = fun[c] + F[(T \ {c}) \ {x}]
            BY <1>4, <3>1
        <3>4. fun[x] \in Nat /\ fun[c] \in Nat /\ F[(T \ {c}) \ {x}] \in Nat
            BY <1>1, <2>1
        <3> QED  BY <2>2, <3>2, <3>3, <3>4
    <2> QED  BY <2>3, <2>4
<1>5. S \in G
    <2> HIDE DEF G
    <2> QED  BY <1>3, <1>4, SubsetInduction
<1>6. \A x \in S : F[S] = fun[x] + F[S \ {x}]
    BY <1>5
<1> QED  BY <1>1, <1>2, <1>6, ZenonT(60)

(* Sums of functions that agree on the set are the same. *)
LEMMA SumAgree ==
    ASSUME NEW S, IsFiniteSet(S), NEW f, NEW g, \A x \in S : f[x] \in Nat /\ g[x] = f[x]
    PROVE  SumFunctionOnSet(f, S) = SumFunctionOnSet(g, S)
<1> DEFINE G == {T \in SUBSET S : SumFunctionOnSet(f, T) = SumFunctionOnSet(g, T)}
<1>1. \A T \in SUBSET S : IsFiniteSet(T)
    BY FS_Subset
<1>2. {} \in G
    BY <1>1, SumRemove
<1>3. ASSUME NEW T \in SUBSET S, T # {}, \A x \in T : T \ {x} \in G PROVE T \in G
    <2>1. PICK x \in T : TRUE
        BY <1>3
    <2>2. SumFunctionOnSet(f, T) = f[x] + SumFunctionOnSet(f, T \ {x})
        BY <1>1, SumRemove
    <2>3. SumFunctionOnSet(g, T) = g[x] + SumFunctionOnSet(g, T \ {x})
        BY <1>1, SumRemove
    <2> QED  BY <1>3, <2>2, <2>3
<1>4. SUBSET S \subseteq G
    <2> HIDE DEF G
    <2> QED  BY <1>2, <1>3, SubsetInduction
<1> QED  BY <1>4

(* The sum of two functions, added value by value, is the sum of their     *)
(* sums; and a function that is nowhere larger has no larger sum.          *)
LEMMA SumAdd ==
    ASSUME NEW S, IsFiniteSet(S), NEW f, NEW g, NEW h,
           \A x \in S : f[x] \in Nat /\ g[x] \in Nat /\ h[x] \in Nat /\ h[x] <= f[x] + g[x]
    PROVE  /\ SumFunctionOnSet(h, S) <= SumFunctionOnSet(f, S) + SumFunctionOnSet(g, S)
           /\ (\A x \in S : h[x] = f[x] + g[x]) =>
                  SumFunctionOnSet(h, S) = SumFunctionOnSet(f, S) + SumFunctionOnSet(g, S)
<1> DEFINE L(T) == SumFunctionOnSet(h, T)
           R(T) == SumFunctionOnSet(f, T) + SumFunctionOnSet(g, T)
           G == {T \in SUBSET S : /\ L(T) <= R(T)
                                  /\ (\A x \in S : h[x] = f[x] + g[x]) => L(T) = R(T)}
<1>1. \A T \in SUBSET S : IsFiniteSet(T)
    BY FS_Subset
<1>2. {} \in G
    <2>1. IsFiniteSet({})
        BY FS_EmptySet
    <2>2. SumFunctionOnSet(h, {}) = 0 /\ SumFunctionOnSet(f, {}) = 0 /\ SumFunctionOnSet(g, {}) = 0
        BY <2>1, SumRemove
    <2> QED  BY <2>2
<1>3. ASSUME NEW T \in SUBSET S, T # {}, \A x \in T : T \ {x} \in G PROVE T \in G
    <2>1. PICK x \in T : TRUE
        BY <1>3
    <2>2. /\ SumFunctionOnSet(f, T) = f[x] + SumFunctionOnSet(f, T \ {x})
          /\ SumFunctionOnSet(g, T) = g[x] + SumFunctionOnSet(g, T \ {x})
          /\ SumFunctionOnSet(h, T) = h[x] + SumFunctionOnSet(h, T \ {x})
        BY <1>1, SumRemove, ZenonT(60)
    <2>3. /\ SumFunctionOnSet(f, T \ {x}) \in Nat /\ SumFunctionOnSet(g, T \ {x}) \in Nat
          /\ SumFunctionOnSet(h, T \ {x}) \in Nat
        <3>1. T \ {x} \in SUBSET S
            OBVIOUS
        <3>2. IsFiniteSet(T \ {x}) /\ \A y \in T \ {x} : f[y] \in Nat /\ g[y] \in Nat /\ h[y] \in Nat
            BY <1>1, <3>1
        <3> QED  BY <3>2, SumRemove
    <2>4. T \ {x} \in G /\ x \in S
        BY <1>3
    <2>5. f[x] \in Nat /\ g[x] \in Nat /\ h[x] \in Nat /\ h[x] <= f[x] + g[x]
        BY <2>4
    <2> QED  BY <2>2, <2>3, <2>4, <2>5
<1>4. S \in G
    <2> HIDE DEF G
    <2> QED  BY <1>2, <1>3, SubsetInduction
<1> QED  BY <1>4

(* Nothing but zeros adds up to zero. *)
LEMMA SumZero ==
    ASSUME NEW S, IsFiniteSet(S), NEW f, \A x \in S : f[x] = 0
    PROVE  SumFunctionOnSet(f, S) = 0
<1> DEFINE G == {T \in SUBSET S : SumFunctionOnSet(f, T) = 0}
<1>1. {} \in G
    BY FS_EmptySet, SumRemove
<1>2. ASSUME NEW T \in SUBSET S, T # {}, \A x \in T : T \ {x} \in G PROVE T \in G
    <2>1. PICK x \in T : TRUE
        BY <1>2
    <2>2. IsFiniteSet(T) /\ (\A y \in T : f[y] \in Nat) /\ f[x] = 0
        BY FS_Subset
    <2>3. SumFunctionOnSet(f, T) = f[x] + SumFunctionOnSet(f, T \ {x})
        BY <2>2, SumRemove
    <2> QED  BY <1>2, <2>2, <2>3
<1>3. S \in G
    <2> HIDE DEF G
    <2> QED  BY <1>1, <1>2, SubsetInduction
<1> QED  BY <1>3

(* A sum over a set is the sum, over the classes of its elements, of the   *)
(* sums over each class.                                                   *)
ClassOf(J, class, a) == {i \in J : class[i] = a}

LEMMA SumByClass ==
    ASSUME NEW J, IsFiniteSet(J), NEW A, IsFiniteSet(A), NEW class, NEW f,
           \A i \in J : class[i] \in A /\ f[i] \in Nat,
           NEW each, \A a \in A : each[a] = SumFunctionOnSet(f, ClassOf(J, class, a))
    PROVE  SumFunctionOnSet(each, A) = SumFunctionOnSet(f, J)
<1> DEFINE Of(T, a) == {i \in T : class[i] = a}
           per(T) == [a \in A |-> SumFunctionOnSet(f, Of(T, a))]
           G == {T \in SUBSET J : SumFunctionOnSet(per(T), A) = SumFunctionOnSet(f, T)}
<1>1. \A T \in SUBSET J : IsFiniteSet(T) /\ \A i \in T : f[i] \in Nat
    BY FS_Subset
<1>2. \A T \in SUBSET J : \A a : Of(T, a) \in SUBSET J
    OBVIOUS
<1>3. \A T \in SUBSET J : \A a \in A : per(T)[a] = SumFunctionOnSet(f, Of(T, a)) /\ per(T)[a] \in Nat
    BY <1>1, <1>2, SumRemove
<1>4. {} \in G
    <2>1. \A a \in A : Of({}, a) = {}
        OBVIOUS
    <2>2. SumFunctionOnSet(f, {}) = 0
        BY <1>1, SumRemove
    <2>3. \A a \in A : per({})[a] = 0
        BY <2>1, <2>2
    <2>4. SumFunctionOnSet(per({}), A) = 0
        <3> HIDE DEF per
        <3> QED  BY <2>3, SumZero
    <2> QED  BY <2>2, <2>4
<1>5. ASSUME NEW T \in SUBSET J, T # {}, \A x \in T : T \ {x} \in G PROVE T \in G
    <2>1. PICK x \in T : TRUE
        BY <1>5
    <2> DEFINE b == class[x]
               U == T \ {x}
    <2>2. b \in A /\ f[x] \in Nat /\ U \in SUBSET J /\ U \in G
        BY <1>5
    <2>3. SumFunctionOnSet(f, T) = f[x] + SumFunctionOnSet(f, U)
        BY <1>1, SumRemove
    <2>4. \A a \in A : a # b => per(T)[a] = per(U)[a]
        <3> SUFFICES ASSUME NEW a \in A, a # b PROVE per(T)[a] = per(U)[a]
            OBVIOUS
        <3>1. Of(T, a) = Of(U, a)
            OBVIOUS
        <3> QED  BY <1>3, <2>2, <3>1, Zenon
    <2>5. per(T)[b] = f[x] + per(U)[b]
        <3>1. x \in Of(T, b) /\ Of(T, b) \ {x} = Of(U, b)
            OBVIOUS
        <3>2. SumFunctionOnSet(f, Of(T, b)) = f[x] + SumFunctionOnSet(f, Of(T, b) \ {x})
            <4>1. IsFiniteSet(Of(T, b)) /\ \A i \in Of(T, b) : f[i] \in Nat
                BY <1>1, <1>2
            <4> HIDE DEF Of
            <4> QED  BY <3>1, <4>1, SumRemove
        <3>3. SumFunctionOnSet(f, Of(T, b)) = f[x] + SumFunctionOnSet(f, Of(U, b))
            BY <3>1, <3>2, Zenon
        <3> QED  BY <1>3, <2>2, <3>3
    <2> HIDE DEF Of, b, U
    <2>6. (\A a \in A : per(T)[a] \in Nat) /\ (\A a \in A : per(U)[a] \in Nat)
        BY <1>3, <2>2
    <2> DEFINE pT == per(T)
               pU == per(U)
    <2> HIDE DEF per, pT, pU
    <2>7. /\ SumFunctionOnSet(pT, A) = pT[b] + SumFunctionOnSet(pT, A \ {b})
          /\ SumFunctionOnSet(pU, A) = pU[b] + SumFunctionOnSet(pU, A \ {b})
        BY <2>2, <2>6, SumRemove DEF pT, pU
    <2>8. SumFunctionOnSet(pT, A \ {b}) = SumFunctionOnSet(pU, A \ {b})
          /\ SumFunctionOnSet(pU, A \ {b}) \in Nat
        <3>1. IsFiniteSet(A \ {b})
            BY FS_Subset
        <3>2. \A a \in A \ {b} : pT[a] \in Nat /\ pU[a] \in Nat /\ pU[a] = pT[a]
            BY <2>4, <2>6 DEF pT, pU
        <3> QED  BY <3>1, <3>2, SumAgree, SumRemove
    <2>9. pT[b] = f[x] + pU[b] /\ pU[b] \in Nat
        BY <2>2, <2>5, <2>6 DEF pT, pU
    <2>10. SumFunctionOnSet(pU, A) = SumFunctionOnSet(f, U)
        BY <2>2 DEF pU
    <2>11. SumFunctionOnSet(pT, A) = SumFunctionOnSet(f, T)
        <3> DEFINE q == SumFunctionOnSet(pU, A \ {b})
        <3>1. SumFunctionOnSet(pT, A) = (f[x] + pU[b]) + q
            BY <2>7, <2>8, <2>9
        <3>2. SumFunctionOnSet(f, T) = f[x] + (pU[b] + q)
            BY <2>3, <2>7, <2>10
        <3>3. q \in Nat
            BY <2>8
        <3> HIDE DEF q
        <3> QED  BY <2>2, <2>9, <3>1, <3>2, <3>3
    <2> QED  BY <2>11 DEF pT
<1>6. J \in G
    <2> HIDE DEF G
    <2> QED  BY <1>4, <1>5, SubsetInduction
<1>7. \A a \in A : per(J)[a] \in Nat /\ each[a] = per(J)[a]
    BY <1>3 DEF ClassOf
<1>8. SumFunctionOnSet(per(J), A) = SumFunctionOnSet(f, J)
    BY <1>6
<1> HIDE DEF per
<1>9. SumFunctionOnSet(per(J), A) = SumFunctionOnSet(each, A)
    BY <1>7, SumAgree
<1> QED  BY <1>8, <1>9

(* Sums over the first seconds, and over what two of them leave between. *)
LEMMA SumStep ==
    ASSUME NEW f, NEW t \in Nat \ {0}, \A u \in 1..t : f[u] \in Nat
    PROVE  SumFunctionOnSet(f, 1..t) = SumFunctionOnSet(f, 1..(t - 1)) + f[t]
<1>1. IsFiniteSet(1..t) /\ IsFiniteSet(1..(t - 1)) /\ t \in 1..t
    BY FS_Interval
<1>2. (1..t) \ {t} = 1..(t - 1)
    OBVIOUS
<1>3. SumFunctionOnSet(f, 1..t) = f[t] + SumFunctionOnSet(f, (1..t) \ {t})
    BY <1>1, SumRemove
<1>4. SumFunctionOnSet(f, 1..(t - 1)) \in Nat
    <2>1. \A u \in 1..(t - 1) : f[u] \in Nat
        OBVIOUS
    <2> QED  BY <1>1, <2>1, SumRemove
<1>5. SumFunctionOnSet(f, (1..t) \ {t}) = SumFunctionOnSet(f, 1..(t - 1))
    BY <1>2, Zenon
<1>6. f[t] \in Nat
    BY <1>1
<1> QED  BY <1>3, <1>4, <1>5, <1>6

(* A sum over an interval splits at any point of it. *)
LEMMA SumInterval ==
    ASSUME NEW f, NEW a \in Nat, NEW b \in Nat, a <= b, \A u \in 1..b : f[u] \in Nat
    PROVE  SumFunctionOnSet(f, 1..b) = SumFunctionOnSet(f, 1..a) + SumFunctionOnSet(f, (a + 1)..b)
<1> DEFINE Split(d) == a + d <= b =>
               SumFunctionOnSet(f, 1..(a + d))
                   = SumFunctionOnSet(f, 1..a) + SumFunctionOnSet(f, (a + 1)..(a + d))
           N == {d \in Nat : Split(d)}
<1>1. \A c \in Nat : c <= b => /\ IsFiniteSet(1..c) /\ IsFiniteSet((a + 1)..c)
                               /\ \A u \in 1..c : f[u] \in Nat
                               /\ \A u \in (a + 1)..c : f[u] \in Nat
    <2> SUFFICES ASSUME NEW c \in Nat, c <= b
                 PROVE  /\ IsFiniteSet(1..c) /\ IsFiniteSet((a + 1)..c)
                        /\ \A u \in 1..c : f[u] \in Nat
                        /\ \A u \in (a + 1)..c : f[u] \in Nat
        OBVIOUS
    <2>1. IsFiniteSet(1..c) /\ IsFiniteSet((a + 1)..c)
        BY FS_Interval
    <2> QED  BY <2>1
<1>2. \A c \in Nat : c <= b => /\ SumFunctionOnSet(f, 1..c) \in Nat
                               /\ SumFunctionOnSet(f, (a + 1)..c) \in Nat
    BY <1>1, SumRemove
<1>3. Split(0)
    <2>1. (a + 1)..(a + 0) = {} /\ a + 0 = a
        OBVIOUS
    <2>2. SumFunctionOnSet(f, {}) = 0
        BY FS_EmptySet, SumRemove
    <2> QED  BY <1>2, <2>1, <2>2
<1>4. ASSUME NEW d \in Nat, Split(d) PROVE Split(d + 1)
    <2> SUFFICES ASSUME a + (d + 1) <= b
                 PROVE  SumFunctionOnSet(f, 1..(a + (d + 1)))
                            = SumFunctionOnSet(f, 1..a)
                              + SumFunctionOnSet(f, (a + 1)..(a + (d + 1)))
        OBVIOUS
    <2> DEFINE c == a + d
    <2>1. /\ c \in Nat /\ c + 1 \in Nat \ {0} /\ c + 1 <= b /\ a + (d + 1) = c + 1 /\ c <= b
          /\ (c + 1) - 1 = c /\ a <= c
        OBVIOUS
    <2>2. SumFunctionOnSet(f, 1..c) = SumFunctionOnSet(f, 1..a) + SumFunctionOnSet(f, (a + 1)..c)
        BY <1>4, <2>1
    <2> HIDE DEF c
    <2>3. SumFunctionOnSet(f, 1..(c + 1)) = SumFunctionOnSet(f, 1..c) + f[c + 1]
        BY <1>1, <2>1, SumStep
    <2>4. c + 1 \in (a + 1)..(c + 1) /\ ((a + 1)..(c + 1)) \ {c + 1} = (a + 1)..c
        BY <2>1
    <2>5. SumFunctionOnSet(f, (a + 1)..(c + 1)) = f[c + 1] + SumFunctionOnSet(f, (a + 1)..c)
        <3>1. IsFiniteSet((a + 1)..(c + 1)) /\ \A u \in (a + 1)..(c + 1) : f[u] \in Nat
            BY <1>1, <2>1
        <3>2. SumFunctionOnSet(f, (a + 1)..(c + 1))
                  = f[c + 1] + SumFunctionOnSet(f, ((a + 1)..(c + 1)) \ {c + 1})
            BY <2>4, <3>1, SumRemove
        <3> QED  BY <2>4, <3>2, Zenon
    <2>6. f[c + 1] \in Nat
        BY <2>1
    <2>7. /\ SumFunctionOnSet(f, 1..c) \in Nat /\ SumFunctionOnSet(f, 1..a) \in Nat
          /\ SumFunctionOnSet(f, (a + 1)..c) \in Nat
        BY <1>2, <2>1
    <2>8. SumFunctionOnSet(f, 1..(c + 1))
              = SumFunctionOnSet(f, 1..a) + SumFunctionOnSet(f, (a + 1)..(c + 1))
        BY <2>2, <2>3, <2>5, <2>6, <2>7
    <2> QED  BY <2>1, <2>8, Zenon
<1> HIDE DEF Split
<1>5. Nat \subseteq N
    <2>1. 0 \in N /\ \A d \in Nat : d \in N => d + 1 \in N
        BY <1>3, <1>4
    <2> HIDE DEF N
    <2> QED  BY <2>1, SetInduction
<1>6. b - a \in Nat /\ a + (b - a) = b /\ Split(b - a)
    <2>1. b - a \in Nat /\ a + (b - a) = b
        OBVIOUS
    <2> QED  BY <1>5, <2>1
<1> QED  BY <1>6 DEF Split

-----------------------------------------------------------------------------
(* Prefixes: a fold from the left takes the last element of what is left. *)

(* The greatest index of a set of indices is one of them. *)
LEMMA MaxIn ==
    ASSUME NEW n \in Nat, NEW T \in SUBSET (1..n), T # {}
    PROVE  Max(T) \in T /\ \A y \in T : y <= Max(T)
<1> DEFINE D == {d \in Nat : n - d \in T}
<1>1. PICK x \in T : TRUE
    OBVIOUS
<1>2. n - x \in D /\ D \subseteq Nat
    BY <1>1
<1>3. PICK d \in D : \A e \in D : d <= e
    <2> HIDE DEF D
    <2> QED  BY <1>2, LeastElement
<1>4. \A y \in T : n - y \in D
    OBVIOUS
<1>5. n - d \in T /\ \A y \in T : n - d >= y
    BY <1>3, <1>4
<1> QED  BY <1>5 DEF Max

(* The greatest index of a prefix is its length; without it the prefix is  *)
(* one shorter.                                                            *)
LEMMA MaxPrefix ==
    ASSUME NEW k \in Nat \ {0}
    PROVE  Max(1..k) = k /\ (1..k) \ {Max(1..k)} = 1..(k - 1)
<1>1. Max(1..k) \in 1..k /\ \A y \in 1..k : y <= Max(1..k)
    <2>1. 1..k \in SUBSET (1..k) /\ 1..k # {}
        OBVIOUS
    <2> QED  BY <2>1, MaxIn
<1>2. Max(1..k) = k
    BY <1>1
<1> QED  BY <1>2

(* A prefix grows by its next index. *)
LEMMA PrefixGrows ==
    ASSUME NEW n \in Nat
    PROVE  /\ 1..n \subseteq 1..(n + 1)
           /\ n + 1 \in 1..(n + 1) /\ n + 1 \notin 1..n
           /\ 1..(n + 1) # {} /\ 1..(n + 1) = (1..n) \union {n + 1}
           /\ Max(1..(n + 1)) = n + 1 /\ (1..(n + 1)) \ {Max(1..(n + 1))} = 1..n
<1>1. n + 1 \in Nat \ {0} /\ (n + 1) - 1 = n
    OBVIOUS
<1>2. Max(1..(n + 1)) = n + 1 /\ (1..(n + 1)) \ {Max(1..(n + 1))} = 1..((n + 1) - 1)
    BY <1>1, MaxPrefix
<1>3. n + 1 \in 1..(n + 1) /\ 1..n \subseteq 1..(n + 1) /\ n + 1 \notin 1..n
    OBVIOUS
<1>4. 1..(n + 1) = (1..n) \union {n + 1}
    OBVIOUS
<1> QED  BY <1>1, <1>2, <1>3, <1>4

(* The running values of a fold over a sequence of length n. *)
IsRun(r, n, base, step) ==
    /\ r[0] = base
    /\ \A k \in 1..n : r[k] = step[k][r[k - 1]]

LastOf(n) == [T \in SUBSET (1..n) |-> Max(T)]

(* A left fold over a sequence is well defined. *)
LEMMA LeftFold ==
    ASSUME NEW n \in Nat, NEW A, NEW base \in A, NEW step \in [1..n -> [A -> A]]
    PROVE  \E f : IsIter(f, 1..n, A, base, LastOf(n), step)
<1>1. IsFiniteSet(1..n)
    BY FS_Interval
<1>2. \A T \in SUBSET (1..n) : T # {} => LastOf(n)[T] \in T
    BY MaxIn DEF LastOf
<1>3. FoldOf(1..n, A, base, LastOf(n), step)
    BY <1>1, <1>2 DEF FoldOf
<1> QED  BY <1>3, IterExists

(* A function that follows the steps as long as it stays in A. *)
Follows(F, S, A, base, pick, step) ==
    /\ F[{}] = base
    /\ \A T \in SUBSET S : T # {} /\ F[T \ {pick[T]}] \in A
                                => F[T] = step[pick[T]][F[T \ {pick[T]}]]

(* It stays in A. *)
LEMMA IterTyped ==
    ASSUME NEW S, NEW A, NEW base, NEW pick, NEW step, FoldOf(S, A, base, pick, step),
           NEW F, Follows(F, S, A, base, pick, step)
    PROVE  \A T \in SUBSET S : F[T] \in A
<1> DEFINE G == {T \in SUBSET S : F[T] \in A}
<1>1. {} \in G
    BY DEF FoldOf, Follows
<1>2. ASSUME NEW T \in SUBSET S, T # {}, \A x \in T : T \ {x} \in G PROVE T \in G
    <2>1. pick[T] \in T /\ pick[T] \in S /\ step[pick[T]] \in [A -> A]
        BY <1>2 DEF FoldOf
    <2>2. F[T \ {pick[T]}] \in A
        BY <1>2, <2>1
    <2> QED  BY <1>2, <2>1, <2>2 DEF Follows
<1>3. SUBSET S \subseteq G
    <2> HIDE DEF G
    <2> QED  BY <1>1, <1>2, SubsetInduction DEF FoldOf
<1> QED  BY <1>3
=============================================================================
