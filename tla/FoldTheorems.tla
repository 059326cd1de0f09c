---------------------------- MODULE FoldTheorems ----------------------------
(***************************************************************************)
(* Induction, and what it gives for sums and folds.  The sum over a finite *)
(* index set is well defined, does not depend on the order of its          *)
(* elements, and changes by one term when one term changes.  A fold of an  *)
(* event stream, which is what an account is, splits where the stream      *)
(* does, and so does a sum along a stream.                                 *)
(*                                                                         *)
(* An induction hypothesis is a set, Good, of the sets (or numbers) that   *)
(* have the property, so that no lemma has an operator as a parameter.     *)
(***************************************************************************)
EXTENDS Account, SequencesExt, FiniteSetTheorems, WellFoundedInduction, TLAPS

(* Whatever holds of a set when it holds of the set without any one of its *)
(* elements holds of every finite set: a smallest exception would have a   *)
(* smaller one.                                                            *)
LEMMA SetInduction ==
    ASSUME NEW S, IsFiniteSet(S), NEW Good,
           {} \in Good,
           \A T \in SUBSET S :
              T # {} /\ (\A x \in T : T \ {x} \in Good) => T \in Good
    PROVE  \A T \in SUBSET S : T \in Good
<1> DEFINE Bad == {T \in SUBSET S : T \notin Good}
<1>1. SUFFICES ASSUME Bad # {} PROVE FALSE
    OBVIOUS
<1>2. IsWellFoundedOn(StrictSubsetOrdering(S), SUBSET S)
    BY FS_StrictSubsetOrderingWellFounded, FS_FiniteSubsetsOfFinite
<1>3. PICK T \in Bad : \A U \in Bad : ~(<<U, T>> \in StrictSubsetOrdering(S))
  <2>. HIDE DEF Bad
  <2>1. Bad \subseteq SUBSET S
    BY DEF Bad
  <2>. QED
    BY <1>1, <1>2, <2>1, WFMin
<1>4. ASSUME NEW x \in T PROVE T \ {x} \in Good
  <2>1. <<T \ {x}, T>> \in StrictSubsetOrdering(S)
    BY <1>3, <1>4 DEF StrictSubsetOrdering
  <2>. QED
    BY <1>3, <2>1
<1>. QED
    BY <1>3, <1>4

-----------------------------------------------------------------------------
(* Recursion over the subsets of a finite set, one element at a time *)

(* g solves the recursion that takes pick[s] out of s. *)
Solves(g, pick, step, base, S) ==
    g = [s \in SUBSET S |->
            IF s = {} THEN base ELSE step[pick[s]][g[s \ {pick[s]}]]]

Picks(pick, S) == \A s \in SUBSET S : s # {} => pick[s] \in s

(* Solutions for two sets agree on what the sets share. *)
LEMMA SolutionsAgree ==
    ASSUME NEW S, NEW T, NEW pick, NEW step, NEW base, NEW g, NEW h,
           IsFiniteSet(S), Picks(pick, S),
           Solves(g, pick, step, base, S), Solves(h, pick, step, base, T),
           NEW s, s \subseteq S, s \subseteq T
    PROVE  g[s] = h[s]
<1> DEFINE U == S \cap T
           Good == {u \in SUBSET U : g[u] = h[u]}
<1>1. IsFiniteSet(U)
    BY FS_Subset
<1>2. \A u \in SUBSET U : /\ g[u] = IF u = {} THEN base ELSE step[pick[u]][g[u \ {pick[u]}]]
                          /\ h[u] = IF u = {} THEN base ELSE step[pick[u]][h[u \ {pick[u]}]]
  <2>1. SUFFICES ASSUME NEW u \in SUBSET U
                 PROVE  /\ g[u] = IF u = {} THEN base ELSE step[pick[u]][g[u \ {pick[u]}]]
                        /\ h[u] = IF u = {} THEN base ELSE step[pick[u]][h[u \ {pick[u]}]]
    OBVIOUS
  <2>2. u \in SUBSET S /\ u \in SUBSET T
    OBVIOUS
  <2>. QED
    BY <2>2 DEF Solves
<1>3. {} \in Good
    BY <1>2
<1>4. ASSUME NEW u \in SUBSET U, u # {}, \A x \in u : u \ {x} \in Good
      PROVE  u \in Good
  <2>1. pick[u] \in u
    BY <1>4 DEF Picks
  <2>2. g[u \ {pick[u]}] = h[u \ {pick[u]}]
    BY <1>4, <2>1
  <2>. QED
    BY <1>2, <1>4, <2>2
<1>5. \A u \in SUBSET U : u \in Good
  <2>. HIDE DEF Good, U
  <2>. QED
    BY <1>1, <1>3, <1>4, SetInduction
<1>. QED
    BY <1>5

(* There is a solution for every finite set. *)
LEMMA SolutionExists ==
    ASSUME NEW S, NEW pick, NEW step, NEW base, IsFiniteSet(S), Picks(pick, S)
    PROVE  \E g : Solves(g, pick, step, base, S)
<1> DEFINE Good == {T \in SUBSET S : \E g : Solves(g, pick, step, base, T)}
<1>1. {} \in Good
  <2> DEFINE g == [s \in SUBSET {} |-> base]
  <2>1. Solves(g, pick, step, base, {})
    BY DEF Solves
  <2>. QED
    BY <2>1
<1>2. ASSUME NEW T \in SUBSET S, T # {}, \A x \in T : T \ {x} \in Good
      PROVE  T \in Good
  <2> DEFINE G(x) == CHOOSE g : Solves(g, pick, step, base, T \ {x})
             g == [s \in SUBSET T |->
                     IF s = {} THEN base ELSE step[pick[s]][G(pick[s])[s \ {pick[s]}]]]
  <2>1. \A x \in T : Solves(G(x), pick, step, base, T \ {x})
    BY <1>2
  <2>2. \A s \in SUBSET T : s # {} => pick[s] \in s
    BY DEF Picks
  <2>3. ASSUME NEW s \in SUBSET T, s # {}
        PROVE  g[s \ {pick[s]}] = G(pick[s])[s \ {pick[s]}]
    <3> DEFINE x == pick[s]
               u == s \ {x}
               y == pick[u]
    <3>1. x \in T /\ u \in SUBSET (T \ {x}) /\ u \in SUBSET T
      BY <2>2, <2>3
    <3>2. G(x)[u] = IF u = {} THEN base ELSE step[y][G(x)[u \ {y}]]
      <4>. HIDE DEF G, x, u
      <4>. QED
        BY <2>1, <3>1 DEF Solves, y
    <3>3. g[u] = IF u = {} THEN base ELSE step[y][G(y)[u \ {y}]]
      <4>. HIDE DEF G, x, u
      <4>. QED
        BY <3>1
    <3>4. ASSUME u # {} PROVE G(x)[u \ {y}] = G(y)[u \ {y}]
      <4>1. y \in u /\ y \in T
        BY <2>2, <3>1, <3>4
      <4>2. IsFiniteSet(T \ {x}) /\ Picks(pick, T \ {x})
        BY <1>2, FS_Subset DEF Picks
      <4>3. u \ {y} \subseteq T \ {x} /\ u \ {y} \subseteq T \ {y}
        BY <3>1
      <4>4. Solves(G(x), pick, step, base, T \ {x}) /\ Solves(G(y), pick, step, base, T \ {y})
        BY <2>1, <3>1, <4>1
      <4>. HIDE DEF G, x, u, y
      <4>. QED
        BY <4>2, <4>3, <4>4, SolutionsAgree
    <3>. QED
      <4>. HIDE DEF G, g, y
      <4>. QED
        BY <3>2, <3>3, <3>4
  <2>4. Solves(g, pick, step, base, T)
    <3>. HIDE DEF G
    <3>. QED
      BY <2>3 DEF Solves
  <2>. QED
    BY <2>4
<1>3. \A T \in SUBSET S : T \in Good
  <2>. HIDE DEF Good
  <2>. QED
    BY <1>1, <1>2, SetInduction
<1>. QED
    BY <1>3

-----------------------------------------------------------------------------
(* Sums *)

Pick(s) == CHOOSE x \in s : TRUE

IntegerOn(f, S) == \A x \in S : f[x] \in Int

SumBody(f, S, g) ==
    [s \in SUBSET S |-> IF s = {} THEN 0 ELSE f[Pick(s)] + g[s \ {Pick(s)}]]

(* The library's sum is a solution of its recursion, chosen by CHOOSE. *)
LEMMA SumChosen ==
    ASSUME NEW f, NEW S
    PROVE  SumFunctionOnSet(f, S) = (CHOOSE g : g = SumBody(f, S, g))[S]
BY DEF SumFunctionOnSet, FoldFunctionOnSet, MapThenFoldSet, SumBody, Pick

PickOf(S) == [s \in SUBSET S |-> Pick(s)]

StepOf(f, S) == [x \in S |-> [v \in Int |-> f[x] + v]]

LEMMA PickPicks ==
    ASSUME NEW S
    PROVE  Picks(PickOf(S), S)
BY DEF Picks, PickOf, Pick

(* What solves one form of the recursion solves the other. *)
LEMMA SolutionIsSum ==
    ASSUME NEW f, NEW S, IsFiniteSet(S), IntegerOn(f, S), NEW T \in SUBSET S, NEW g,
           Solves(g, PickOf(S), StepOf(f, S), 0, T)
    PROVE  g = SumBody(f, T, g)
<1> DEFINE Good == {s \in SUBSET T : g[s] \in Int}
<1>1. ASSUME NEW s \in SUBSET T, s # {}
      PROVE  Pick(s) \in s /\ Pick(s) \in S /\ PickOf(S)[s] = Pick(s)
    BY <1>1 DEF PickOf, Pick
<1>2. g[{}] = 0
    BY DEF Solves
<1>3. ASSUME NEW s \in SUBSET T, s # {}, g[s \ {Pick(s)}] \in Int
      PROVE  g[s] = f[Pick(s)] + g[s \ {Pick(s)}] /\ g[s] \in Int
  <2>1. g[s] = StepOf(f, S)[Pick(s)][g[s \ {Pick(s)}]]
    BY <1>1, <1>3 DEF Solves
  <2>2. Pick(s) \in S /\ f[Pick(s)] \in Int
    BY <1>1, <1>3 DEF IntegerOn
  <2>. QED
    BY <1>3, <2>1, <2>2 DEF StepOf
<1>4. \A s \in SUBSET T : s \in Good
  <2>1. {} \in Good
    BY <1>2
  <2>2. ASSUME NEW s \in SUBSET T, s # {}, \A x \in s : s \ {x} \in Good
        PROVE  s \in Good
    BY <1>1, <1>3, <2>2
  <2>3. IsFiniteSet(T)
    BY FS_Subset
  <2>. HIDE DEF Good
  <2>. QED
    BY <2>1, <2>2, <2>3, SetInduction
<1>5. \A s \in SUBSET T : g[s] = IF s = {} THEN 0 ELSE f[Pick(s)] + g[s \ {Pick(s)}]
    BY <1>1, <1>2, <1>3, <1>4
<1>6. g = [s \in SUBSET T |-> g[s]]
    BY DEF Solves
<1>. QED
    BY <1>5, <1>6 DEF SumBody

LEMMA SumSolves ==
    ASSUME NEW f, NEW S, IsFiniteSet(S), IntegerOn(f, S), NEW T \in SUBSET S, NEW g,
           g = SumBody(f, T, g)
    PROVE  /\ Solves(g, PickOf(S), StepOf(f, S), 0, T)
           /\ \A s \in SUBSET T : g[s] \in Int
<1> DEFINE Good == {s \in SUBSET T : g[s] \in Int}
<1>1. \A s \in SUBSET T : s # {} => Pick(s) \in s /\ f[Pick(s)] \in Int /\ PickOf(S)[s] = Pick(s)
    BY DEF PickOf, Pick, IntegerOn
<1>2. \A s \in SUBSET T : g[s] = IF s = {} THEN 0 ELSE f[Pick(s)] + g[s \ {Pick(s)}]
    BY DEF SumBody
<1>3. \A s \in SUBSET T : s \in Good
  <2>1. {} \in Good
    BY DEF SumBody
  <2>2. ASSUME NEW s \in SUBSET T, s # {}, \A x \in s : s \ {x} \in Good
        PROVE  s \in Good
    <3>1. g[s \ {Pick(s)}] \in Int /\ f[Pick(s)] \in Int
      BY <1>1, <2>2
    <3>2. g[s] = f[Pick(s)] + g[s \ {Pick(s)}]
      BY <1>2, <2>2
    <3>. QED
      BY <3>1, <3>2
  <2>3. IsFiniteSet(T)
    BY FS_Subset
  <2>. HIDE DEF Good
  <2>. QED
    BY <2>1, <2>2, <2>3, SetInduction
<1>4. ASSUME NEW s \in SUBSET T, s # {}
      PROVE  g[s] = StepOf(f, S)[PickOf(S)[s]][g[s \ {PickOf(S)[s]}]]
  <2>1. Pick(s) \in S /\ g[s \ {Pick(s)}] \in Int /\ g[s] = f[Pick(s)] + g[s \ {Pick(s)}]
    BY <1>1, <1>2, <1>3, <1>4
  <2>. QED
    BY <1>1, <1>4, <2>1 DEF StepOf
<1>5. g = [s \in SUBSET T |-> g[s]]
    BY DEF SumBody
<1>. QED
    BY <1>2, <1>3, <1>4, <1>5 DEF Solves

(* All sums over subsets of S are values of one solution. *)
LEMMA SumsOfSubsets ==
    ASSUME NEW f, NEW S, IsFiniteSet(S), IntegerOn(f, S)
    PROVE  \E g : /\ g = SumBody(f, S, g)
                  /\ \A T \in SUBSET S : SumFunctionOnSet(f, T) = g[T] /\ g[T] \in Int
<1>1. ASSUME NEW T \in SUBSET S
      PROVE  \E g : g = SumBody(f, T, g)
  <2>1. IsFiniteSet(T) /\ Picks(PickOf(S), T)
    BY PickPicks, FS_Subset DEF Picks
  <2>2. PICK g : Solves(g, PickOf(S), StepOf(f, S), 0, T)
    BY <2>1, SolutionExists
  <2>. QED
    BY <2>2, SolutionIsSum
<1>2. PICK g : g = SumBody(f, S, g)
    BY <1>1
<1>3. ASSUME NEW T \in SUBSET S
      PROVE  SumFunctionOnSet(f, T) = g[T] /\ g[T] \in Int
  <2> DEFINE h == CHOOSE h : h = SumBody(f, T, h)
  <2>1. h = SumBody(f, T, h)
    BY <1>1
  <2>2. SumFunctionOnSet(f, T) = h[T]
    BY SumChosen
  <2>3. /\ Solves(g, PickOf(S), StepOf(f, S), 0, S)
        /\ g[T] \in Int
    BY <1>2, SumSolves
  <2>4. Solves(h, PickOf(S), StepOf(f, S), 0, T)
    <3>. HIDE DEF h
    <3>. QED
      BY <2>1, SumSolves
  <2>5. g[T] = h[T]
    <3>. HIDE DEF h
    <3>. QED
      BY <2>3, <2>4, PickPicks, SolutionsAgree
  <2>. QED
    BY <2>2, <2>3, <2>5
<1>. QED
    BY <1>2, <1>3

(* The sum over the empty set is zero, and every sum is an integer. *)
LEMMA SumEmpty ==
    ASSUME NEW f
    PROVE  SumFunctionOnSet(f, {}) = 0
<1>1. IsFiniteSet({}) /\ IntegerOn(f, {})
    BY FS_EmptySet DEF IntegerOn
<1>2. PICK g : g = SumBody(f, {}, g) /\ SumFunctionOnSet(f, {}) = g[{}]
    BY <1>1, SumsOfSubsets
<1>. QED
    BY <1>2 DEF SumBody

LEMMA SumInt ==
    ASSUME NEW f, NEW S, IsFiniteSet(S), IntegerOn(f, S)
    PROVE  SumFunctionOnSet(f, S) \in Int
BY SumsOfSubsets

(* Any element may be taken out first. *)
LEMMA SumWithout ==
    ASSUME NEW f, NEW S, IsFiniteSet(S), IntegerOn(f, S), NEW x \in S
    PROVE  SumFunctionOnSet(f, S) = f[x] + SumFunctionOnSet(f, S \ {x})
<1>1. PICK g : /\ g = SumBody(f, S, g)
               /\ \A T \in SUBSET S : SumFunctionOnSet(f, T) = g[T] /\ g[T] \in Int
    BY SumsOfSubsets
<1>2. \A s \in SUBSET S : s # {} => g[s] = f[Pick(s)] + g[s \ {Pick(s)}] /\ Pick(s) \in s
    BY <1>1 DEF SumBody, Pick
<1> DEFINE Good == {T \in SUBSET S : \A y \in T : g[T] = f[y] + g[T \ {y}]}
<1>3. {} \in Good
    OBVIOUS
<1>4. ASSUME NEW T \in SUBSET S, T # {}, \A z \in T : T \ {z} \in Good
      PROVE  T \in Good
  <2>1. SUFFICES ASSUME NEW y \in T PROVE g[T] = f[y] + g[T \ {y}]
    OBVIOUS
  <2> DEFINE p == Pick(T)
             R == (T \ {p}) \ {y}
  <2>2. p \in T /\ g[T] = f[p] + g[T \ {p}]
    BY <1>2, <1>4
  <2>3. CASE y = p
    BY <2>2, <2>3
  <2>4. CASE y # p
    <3>1. y \in T \ {p} /\ p \in T \ {y} /\ (T \ {y}) \ {p} = R
      BY <2>2, <2>4
    <3>2. g[T \ {p}] = f[y] + g[R]
      BY <1>4, <2>2, <3>1
    <3>3. g[T \ {y}] = f[p] + g[R]
      BY <1>4, <3>1
    <3>4. f[y] \in Int /\ f[p] \in Int /\ g[R] \in Int
      <4>1. y \in S /\ p \in S /\ R \in SUBSET S
        BY <2>2
      <4>. HIDE DEF p, R
      <4>. QED
        BY <1>1, <4>1 DEF IntegerOn
    <3>. HIDE DEF p, R
    <3>. QED
      BY <2>2, <3>2, <3>3, <3>4
  <2>. QED
    BY <2>3, <2>4
<1>5. S \in Good
  <2>. HIDE DEF Good
  <2>. QED
    BY <1>3, <1>4, SetInduction
<1>6. g[S] = f[x] + g[S \ {x}]
    BY <1>5
<1>. QED
    BY <1>1, <1>6

(* Only the terms matter. *)
LEMMA SumSame ==
    ASSUME NEW f, NEW h, NEW S, IsFiniteSet(S), IntegerOn(f, S),
           \A x \in S : h[x] = f[x]
    PROVE  SumFunctionOnSet(h, S) = SumFunctionOnSet(f, S)
<1> DEFINE Good == {T \in SUBSET S : SumFunctionOnSet(h, T) = SumFunctionOnSet(f, T)}
<1>1. {} \in Good
    BY SumEmpty
<1>2. ASSUME NEW T \in SUBSET S, T # {}, \A z \in T : T \ {z} \in Good
      PROVE  T \in Good
  <2>1. PICK x \in T : TRUE
    BY <1>2
  <2>2. IsFiniteSet(T) /\ IntegerOn(f, T) /\ IntegerOn(h, T)
    BY FS_Subset DEF IntegerOn
  <2>3. /\ SumFunctionOnSet(f, T) = f[x] + SumFunctionOnSet(f, T \ {x})
        /\ SumFunctionOnSet(h, T) = h[x] + SumFunctionOnSet(h, T \ {x})
    BY <2>2, SumWithout
  <2>4. SumFunctionOnSet(h, T \ {x}) = SumFunctionOnSet(f, T \ {x})
    BY <1>2
  <2>. QED
    BY <2>3, <2>4
<1>3. S \in Good
  <2>. HIDE DEF Good
  <2>. QED
    BY <1>1, <1>2, SetInduction
<1>. QED
    BY <1>3

(* One term changes. *)
LEMMA SumChange ==
    ASSUME NEW f, NEW h, NEW S, IsFiniteSet(S), IntegerOn(f, S), IntegerOn(h, S),
           NEW x \in S, \A y \in S : y # x => h[y] = f[y]
    PROVE  SumFunctionOnSet(h, S) = SumFunctionOnSet(f, S) - f[x] + h[x]
<1>1. IsFiniteSet(S \ {x}) /\ IntegerOn(f, S \ {x})
    BY FS_Subset DEF IntegerOn
<1>2. SumFunctionOnSet(h, S \ {x}) = SumFunctionOnSet(f, S \ {x})
    BY <1>1, SumSame
<1>3. /\ SumFunctionOnSet(f, S) = f[x] + SumFunctionOnSet(f, S \ {x})
      /\ SumFunctionOnSet(h, S) = h[x] + SumFunctionOnSet(h, S \ {x})
    BY SumWithout
<1>4. f[x] \in Int /\ h[x] \in Int /\ SumFunctionOnSet(f, S \ {x}) \in Int
    BY <1>1, SumInt DEF IntegerOn
<1>. QED
    BY <1>2, <1>3, <1>4

(* A sum of natural numbers is one. *)
LEMMA SumNat ==
    ASSUME NEW f, NEW S, IsFiniteSet(S), \A x \in S : f[x] \in Nat
    PROVE  SumFunctionOnSet(f, S) \in Nat
<1> DEFINE Good == {T \in SUBSET S : SumFunctionOnSet(f, T) \in Nat}
<1>1. {} \in Good
    BY SumEmpty
<1>2. ASSUME NEW T \in SUBSET S, T # {}, \A z \in T : T \ {z} \in Good
      PROVE  T \in Good
  <2>1. PICK x \in T : TRUE
    BY <1>2
  <2>2. IsFiniteSet(T) /\ IntegerOn(f, T)
    BY FS_Subset DEF IntegerOn
  <2>3. SumFunctionOnSet(f, T) = f[x] + SumFunctionOnSet(f, T \ {x})
    BY <2>2, SumWithout
  <2>4. SumFunctionOnSet(f, T \ {x}) \in Nat /\ f[x] \in Nat
    BY <1>2
  <2>. QED
    BY <2>3, <2>4
<1>3. \A T \in SUBSET S : T \in Good
  <2>. HIDE DEF Good
  <2>. QED
    BY <1>1, <1>2, SetInduction
<1>. QED
    BY <1>3

(* Terms that are zero do not count. *)
LEMMA SumZeros ==
    ASSUME NEW f, NEW h, NEW S, IsFiniteSet(S), IntegerOn(f, S), NEW T \in SUBSET S,
           \A x \in T : h[x] = f[x],
           \A x \in S \ T : f[x] = 0
    PROVE  SumFunctionOnSet(f, S) = SumFunctionOnSet(h, T)
<1>1. ASSUME NEW U \in SUBSET S
      PROVE  IsFiniteSet(U) /\ IntegerOn(f, U)
    BY FS_Subset DEF IntegerOn
<1> DEFINE Good == {U \in SUBSET S : SumFunctionOnSet(f, U) = SumFunctionOnSet(f, U \cap T)}
<1>2. {} \in Good
    OBVIOUS
<1>3. ASSUME NEW U \in SUBSET S, U # {}, \A z \in U : U \ {z} \in Good
      PROVE  U \in Good
  <2>1. PICK x \in U : TRUE
    BY <1>3
  <2>2. SumFunctionOnSet(f, U) = f[x] + SumFunctionOnSet(f, U \ {x})
    BY <1>1, SumWithout
  <2>3. SumFunctionOnSet(f, U \ {x}) = SumFunctionOnSet(f, (U \ {x}) \cap T)
    BY <1>3
  <2>4. CASE x \in T
    <3>1. (U \ {x}) \cap T = (U \cap T) \ {x} /\ x \in U \cap T /\ U \cap T \in SUBSET S
      BY <2>4
    <3>2. SumFunctionOnSet(f, U \cap T) = f[x] + SumFunctionOnSet(f, (U \cap T) \ {x})
      BY <1>1, <3>1, SumWithout
    <3>. QED
      BY <2>2, <2>3, <3>1, <3>2
  <2>5. CASE x \notin T
    <3>1. (U \ {x}) \cap T = U \cap T /\ f[x] = 0
      BY <2>5
    <3>2. SumFunctionOnSet(f, U \ {x}) \in Int
      BY <1>1, SumInt
    <3>3. SumFunctionOnSet(f, U) = SumFunctionOnSet(f, U \ {x})
      BY <2>2, <3>1, <3>2
    <3>. QED
      BY <2>3, <3>1, <3>3
  <2>. QED
    BY <2>4, <2>5
<1>4. \A U \in SUBSET S : U \in Good
  <2>. HIDE DEF Good
  <2>. QED
    BY <1>2, <1>3, SetInduction
<1>5. SumFunctionOnSet(f, S) = SumFunctionOnSet(f, S \cap T) /\ S \cap T = T
    BY <1>4
<1>6. SumFunctionOnSet(h, T) = SumFunctionOnSet(f, T)
    BY <1>1, SumSame
<1>. QED
    BY <1>5, <1>6

(* Fewer natural numbers have a smaller sum. *)
LEMMA SumMonotone ==
    ASSUME NEW f, NEW S, IsFiniteSet(S), \A x \in S : f[x] \in Nat, NEW T \in SUBSET S
    PROVE  SumFunctionOnSet(f, T) <= SumFunctionOnSet(f, S)
<1>1. ASSUME NEW U \in SUBSET S
      PROVE  /\ IsFiniteSet(U) /\ IntegerOn(f, U)
             /\ SumFunctionOnSet(f, U) \in Nat
    BY FS_Subset, SumNat DEF IntegerOn
<1> DEFINE Good == {U \in SUBSET S : SumFunctionOnSet(f, U \cap T) <= SumFunctionOnSet(f, U)}
<1>2. {} \in Good
  <2>1. {} \cap T = {} /\ {} \in SUBSET S
    OBVIOUS
  <2>. QED
    BY <2>1, SumEmpty
<1>3. ASSUME NEW U \in SUBSET S, U # {}, \A z \in U : U \ {z} \in Good
      PROVE  U \in Good
  <2>1. PICK x \in U : TRUE
    BY <1>3
  <2>2. SumFunctionOnSet(f, U) = f[x] + SumFunctionOnSet(f, U \ {x})
    BY <1>1, SumWithout
  <2>3. SumFunctionOnSet(f, (U \ {x}) \cap T) <= SumFunctionOnSet(f, U \ {x})
    BY <1>3
  <2>4. /\ f[x] \in Nat /\ SumFunctionOnSet(f, U \ {x}) \in Nat
        /\ SumFunctionOnSet(f, (U \ {x}) \cap T) \in Nat
    BY <1>1
  <2>5. CASE x \in T
    <3>1. (U \ {x}) \cap T = (U \cap T) \ {x} /\ x \in U \cap T /\ U \cap T \in SUBSET S
      BY <2>5
    <3>2. SumFunctionOnSet(f, U \cap T) = f[x] + SumFunctionOnSet(f, (U \cap T) \ {x})
      BY <1>1, <3>1, SumWithout
    <3>3. SumFunctionOnSet(f, U \cap T) = f[x] + SumFunctionOnSet(f, (U \ {x}) \cap T)
      BY <3>1, <3>2
    <3>4. SumFunctionOnSet(f, U \cap T) <= SumFunctionOnSet(f, U)
      BY <2>2, <2>3, <2>4, <3>3
    <3>. QED
      BY <3>4
  <2>6. CASE x \notin T
    <3>1. (U \ {x}) \cap T = U \cap T
      BY <2>6
    <3>2. SumFunctionOnSet(f, U \ {x}) <= SumFunctionOnSet(f, U)
      BY <2>2, <2>4
    <3>3. SumFunctionOnSet(f, (U \ {x}) \cap T) <= SumFunctionOnSet(f, U)
      BY <2>2, <2>3, <2>4, <3>2
    <3>. QED
      BY <3>1, <3>3
  <2>. QED
    BY <2>5, <2>6
<1>4. \A U \in SUBSET S : U \in Good
  <2>. HIDE DEF Good
  <2>. QED
    BY <1>2, <1>3, SetInduction
<1>5. S \cap T = T /\ S \in SUBSET S
    OBVIOUS
<1>6. SumFunctionOnSet(f, S \cap T) <= SumFunctionOnSet(f, S)
    BY <1>4, <1>5
<1>. QED
    BY <1>5, <1>6

-----------------------------------------------------------------------------
(* The same, for the sum of all values of a function *)

LEMMA TotalInt ==
    ASSUME NEW S, IsFiniteSet(S), NEW f \in [S -> Int]
    PROVE  SumFunction(f) \in Int
BY SumInt DEF SumFunction, IntegerOn

LEMMA TotalNat ==
    ASSUME NEW S, IsFiniteSet(S), NEW f \in [S -> Nat]
    PROVE  SumFunction(f) \in Nat
BY SumNat DEF SumFunction

LEMMA TotalEmpty ==
    ASSUME NEW f, DOMAIN f = {}
    PROVE  SumFunction(f) = 0
BY SumEmpty DEF SumFunction

(* One value changes. *)
LEMMA TotalChange ==
    ASSUME NEW S, IsFiniteSet(S), NEW f \in [S -> Int], NEW h \in [S -> Int],
           NEW x \in S, \A y \in S : y # x => h[y] = f[y]
    PROVE  SumFunction(h) = SumFunction(f) - f[x] + h[x]
<1>1. IntegerOn(f, S) /\ IntegerOn(h, S) /\ DOMAIN f = S /\ DOMAIN h = S
    BY DEF IntegerOn
<1>2. SumFunctionOnSet(h, S) = SumFunctionOnSet(f, S) - f[x] + h[x]
    BY <1>1, SumChange
<1>. QED
    BY <1>1, <1>2 DEF SumFunction

(* One value joins. *)
LEMMA TotalAdd ==
    ASSUME NEW S, IsFiniteSet(S), NEW f \in [S -> Int], NEW x, x \notin S,
           NEW h \in [S \cup {x} -> Int], \A y \in S : h[y] = f[y]
    PROVE  SumFunction(h) = SumFunction(f) + h[x]
<1>1. IsFiniteSet(S \cup {x}) /\ IntegerOn(h, S \cup {x}) /\ IntegerOn(f, S)
    BY FS_AddElement DEF IntegerOn
<1>2. DOMAIN f = S /\ DOMAIN h = S \cup {x} /\ (S \cup {x}) \ {x} = S
    OBVIOUS
<1>3. SumFunctionOnSet(h, S \cup {x}) = h[x] + SumFunctionOnSet(h, S)
    BY <1>1, <1>2, SumWithout
<1>4. SumFunctionOnSet(h, S) = SumFunctionOnSet(f, S)
    BY <1>1, SumSame
<1>5. SumFunctionOnSet(f, S) \in Int /\ h[x] \in Int
    BY <1>1, SumInt
<1>. QED
    BY <1>2, <1>3, <1>4, <1>5 DEF SumFunction

(* Values leave: the others have at most the sum of all. *)
LEMMA TotalMonotone ==
    ASSUME NEW S, IsFiniteSet(S), NEW f \in [S -> Nat],
           NEW T \in SUBSET S, NEW h \in [T -> Nat], \A y \in T : h[y] = f[y]
    PROVE  SumFunction(h) <= SumFunction(f)
<1>1. IsFiniteSet(T) /\ IntegerOn(f, T) /\ DOMAIN f = S /\ DOMAIN h = T
    BY FS_Subset DEF IntegerOn
<1>2. SumFunctionOnSet(h, T) = SumFunctionOnSet(f, T)
    BY <1>1, SumSame
<1>3. SumFunctionOnSet(f, T) <= SumFunctionOnSet(f, S)
    BY SumMonotone
<1>. QED
    BY <1>1, <1>2, <1>3 DEF SumFunction

-----------------------------------------------------------------------------
(* Segments of the natural numbers *)

LEMMA SegmentFinite ==
    ASSUME NEW n \in Nat
    PROVE  IsFiniteSet(1..n) /\ IsFiniteSet(0..n)
BY FS_Interval

LEMMA MaxExists ==
    ASSUME NEW S, IsFiniteSet(S), S \subseteq Nat, NEW T \in SUBSET S, T # {}
    PROVE  Max(T) \in T /\ \A y \in T : Max(T) >= y
<1> DEFINE Good == {U \in SUBSET S : U # {} => \E x \in U : \A y \in U : x >= y}
<1>1. {} \in Good
    OBVIOUS
<1>2. ASSUME NEW U \in SUBSET S, U # {}, \A x \in U : U \ {x} \in Good
      PROVE  U \in Good
  <2>1. PICK x \in U : x \in Nat
    BY <1>2
  <2>2. CASE U = {x}
    BY <2>1, <2>2
  <2>3. CASE U # {x}
    <3>1. PICK m \in U \ {x} : \A y \in U \ {x} : m >= y
      BY <1>2, <2>3
    <3>2. m \in Nat /\ \A y \in U : y \in Nat
      BY <1>2
    <3>. QED
      BY <2>1, <3>1, <3>2
  <2>. QED
    BY <2>2, <2>3
<1>3. \A U \in SUBSET S : U \in Good
  <2>. HIDE DEF Good
  <2>. QED
    BY <1>1, <1>2, SetInduction
<1>4. \E x \in T : \A y \in T : x >= y
    BY <1>3
<1>. QED
    BY <1>4 DEF Max

(* Induction over the natural numbers, with a set for the hypothesis. *)
LEMMA NumberInduction ==
    ASSUME NEW Good, 0 \in Good, \A n \in Nat : n \in Good => n + 1 \in Good
    PROVE  \A n \in Nat : n \in Good
<1>1. SUFFICES ASSUME NEW m \in Nat PROVE m \in Good
    OBVIOUS
<1> DEFINE S == 0..m
           Closed(T) == \A x \in T : x > 0 => x - 1 \in T
           Fine == {T \in SUBSET S : Closed(T) => T \subseteq Good}
<1>2. {} \in Fine
    OBVIOUS
<1>3. ASSUME NEW T \in SUBSET S, T # {}, \A x \in T : T \ {x} \in Fine
      PROVE  T \in Fine
  <2>1. SUFFICES ASSUME Closed(T) PROVE T \subseteq Good
    OBVIOUS
  <2> DEFINE x == Max(T)
  <2>2. x \in T /\ \A y \in T : x >= y
    <3>1. IsFiniteSet(S) /\ S \subseteq Nat
      BY SegmentFinite
    <3>. HIDE DEF S, Fine, Closed
    <3>. QED
      BY <1>3, <3>1, MaxExists
  <2>. HIDE DEF x
  <2>3. x \in Nat /\ \A y \in T : y \in Nat
    BY <2>2
  <2>4. Closed(T \ {x})
    BY <2>1, <2>2, <2>3
  <2>5. T \ {x} \subseteq Good
    BY <1>3, <2>2, <2>4
  <2>6. x \in Good
    <3>1. CASE x = 0
      BY <3>1
    <3>2. CASE x > 0
      <4>1. x - 1 \in T \ {x} /\ x - 1 \in Nat
        BY <2>1, <2>2, <2>3, <3>2
      <4>2. (x - 1) + 1 \in Good
        BY <2>5, <4>1
      <4>. QED
        BY <2>3, <4>2
    <3>. QED
      BY <2>3, <3>1, <3>2
  <2>. QED
    BY <2>5, <2>6
<1>4. \A T \in SUBSET S : T \in Fine
  <2>1. IsFiniteSet(S)
    BY SegmentFinite
  <2>. HIDE DEF Fine, S
  <2>. QED
    BY <1>2, <1>3, <2>1, SetInduction
<1>5. Closed(S)
    OBVIOUS
<1>6. S \in Fine /\ m \in S
  <2>1. S \in SUBSET S /\ m \in S
    OBVIOUS
  <2>. HIDE DEF Fine, S
  <2>. QED
    BY <1>4, <2>1
<1>. QED
  <2>. HIDE DEF S, Closed
  <2>. QED
    BY <1>5, <1>6

-----------------------------------------------------------------------------
(* The fold of an event stream: a recursion that takes out the largest     *)
(* position.                                                               *)

Foldable(e) == e.type \in EventTypes /\ e.amount \in Int

AllFoldable(seq, S) == \A i \in S : Foldable(seq[i])

LEMMA FoldedType ==
    ASSUME NEW a \in Accounts, NEW e, Foldable(e)
    PROVE  Fold(a, e) \in Accounts
BY DEF Foldable, EventTypes, Accounts, Fold

FoldBody(base, seq, S, g) ==
    [s \in SUBSET S |-> IF s = {} THEN base ELSE Fold(g[s \ {Max(s)}], seq[Max(s)])]

LEMMA FoldChosen ==
    ASSUME NEW base, NEW seq
    PROVE  FoldLeft(Fold, base, seq)
             = (CHOOSE g : g = FoldBody(base, seq, DOMAIN seq, g))[DOMAIN seq]
BY DEF FoldLeft, MapThenFoldSet, FoldBody

MaxOf(S) == [s \in SUBSET S |-> Max(s)]

FoldStep(seq, S) == [i \in S |-> [v \in Accounts |-> Fold(v, seq[i])]]

LEMMA MaxPicks ==
    ASSUME NEW S, IsFiniteSet(S), S \subseteq Nat
    PROVE  Picks(MaxOf(S), S)
BY MaxExists DEF Picks, MaxOf

LEMMA MaxFacts ==
    ASSUME NEW S, IsFiniteSet(S), S \subseteq Nat, NEW T, T \subseteq S,
           NEW s \in SUBSET T, s # {}
    PROVE  Max(s) \in s /\ Max(s) \in S /\ MaxOf(S)[s] = Max(s)
<1>1. s \in SUBSET S
    OBVIOUS
<1>2. Max(s) \in s
    BY <1>1, MaxExists
<1>. QED
    BY <1>1, <1>2 DEF MaxOf

FoldsUp(g, seq, T) ==
    \A s \in SUBSET T : s # {} /\ g[s \ {Max(s)}] \in Accounts
                          => g[s] = Fold(g[s \ {Max(s)}], seq[Max(s)])

(* The values of a solution are accounts. *)
LEMMA FoldValues ==
    ASSUME NEW S, IsFiniteSet(S), S \subseteq Nat, NEW seq,
           AllFoldable(seq, S), NEW T, T \subseteq S, NEW g,
           g[{}] \in Accounts, FoldsUp(g, seq, T)
    PROVE  \A s \in SUBSET T : g[s] \in Accounts
<1> DEFINE Good == {s \in SUBSET T : g[s] \in Accounts}
<1>1. {} \in Good
    OBVIOUS
<1>2. ASSUME NEW s \in SUBSET T, s # {}, \A x \in s : s \ {x} \in Good
      PROVE  s \in Good
  <2>1. Max(s) \in s /\ Max(s) \in S
    BY <1>2, MaxFacts
  <2>2. g[s \ {Max(s)}] \in Accounts /\ Foldable(seq[Max(s)])
    BY <1>2, <2>1 DEF AllFoldable
  <2>3. g[s] = Fold(g[s \ {Max(s)}], seq[Max(s)])
    BY <1>2, <2>2 DEF FoldsUp
  <2>. QED
    BY <2>2, <2>3, FoldedType
<1>3. IsFiniteSet(T)
    BY FS_Subset
<1>4. \A s \in SUBSET T : s \in Good
  <2>. HIDE DEF Good
  <2>. QED
    BY <1>1, <1>2, <1>3, SetInduction
<1>. QED
    BY <1>4

(* What solves one form of the recursion solves the other. *)
LEMMA SolutionIsFold ==
    ASSUME NEW S, IsFiniteSet(S), S \subseteq Nat, NEW seq, NEW base \in Accounts,
           AllFoldable(seq, S), NEW T, T \subseteq S, NEW g,
           Solves(g, MaxOf(S), FoldStep(seq, S), base, T)
    PROVE  g = FoldBody(base, seq, T, g)
<1>1. g[{}] = base
    BY DEF Solves
<1>2. ASSUME NEW s \in SUBSET T, s # {}, g[s \ {Max(s)}] \in Accounts
      PROVE  g[s] = Fold(g[s \ {Max(s)}], seq[Max(s)])
  <2>1. Max(s) \in S /\ MaxOf(S)[s] = Max(s)
    BY <1>2, MaxFacts
  <2>2. FoldStep(seq, S)[Max(s)][g[s \ {Max(s)}]] = Fold(g[s \ {Max(s)}], seq[Max(s)])
    BY <1>2, <2>1 DEF FoldStep
  <2>. QED
    BY <1>2, <2>1, <2>2 DEF Solves
<1>3. \A s \in SUBSET T : g[s] \in Accounts
  <2>1. FoldsUp(g, seq, T)
    BY <1>2 DEF FoldsUp
  <2>. QED
    BY <1>1, <2>1, FoldValues
<1>4. \A s \in SUBSET T : g[s] = IF s = {} THEN base ELSE Fold(g[s \ {Max(s)}], seq[Max(s)])
  <2>1. ASSUME NEW s \in SUBSET T, s # {} PROVE g[s \ {Max(s)}] \in Accounts
    BY <1>3, <2>1
  <2>. QED
    BY <1>1, <1>2, <2>1
<1>5. g = [s \in SUBSET T |-> g[s]]
    BY DEF Solves
<1>. QED
    BY <1>4, <1>5 DEF FoldBody

LEMMA FoldIsSolution ==
    ASSUME NEW S, IsFiniteSet(S), S \subseteq Nat, NEW seq, NEW base \in Accounts,
           AllFoldable(seq, S), NEW T, T \subseteq S, NEW g,
           g = FoldBody(base, seq, T, g)
    PROVE  /\ Solves(g, MaxOf(S), FoldStep(seq, S), base, T)
           /\ \A s \in SUBSET T : g[s] \in Accounts
<1>1. g[{}] = base
    BY DEF FoldBody
<1>2. ASSUME NEW s \in SUBSET T, s # {}
      PROVE  g[s] = Fold(g[s \ {Max(s)}], seq[Max(s)])
    BY <1>2 DEF FoldBody
<1>3. \A s \in SUBSET T : g[s] \in Accounts
  <2>1. FoldsUp(g, seq, T)
    BY <1>2 DEF FoldsUp
  <2>. QED
    BY <1>1, <2>1, FoldValues
<1>4. ASSUME NEW s \in SUBSET T, s # {}
      PROVE  g[s] = FoldStep(seq, S)[MaxOf(S)[s]][g[s \ {MaxOf(S)[s]}]]
  <2>1. Max(s) \in S /\ MaxOf(S)[s] = Max(s)
    BY <1>4, MaxFacts
  <2>2. g[s \ {Max(s)}] \in Accounts
    BY <1>3, <1>4
  <2>3. FoldStep(seq, S)[Max(s)][g[s \ {Max(s)}]] = Fold(g[s \ {Max(s)}], seq[Max(s)])
    BY <2>1, <2>2 DEF FoldStep
  <2>. QED
    BY <1>2, <1>4, <2>1, <2>3
<1>5. g = [s \in SUBSET T |-> g[s]]
    BY DEF FoldBody
<1>. QED
    BY <1>1, <1>3, <1>4, <1>5 DEF Solves

(* One function holds the folds of all the beginnings of a stream. *)
HoldsFolds(g, base, seq, n) ==
    /\ g = FoldBody(base, seq, 1..n, g)
    /\ \A s \in SUBSET (1..n) : g[s] \in Accounts
    /\ \A k \in 0..n : \A part :
          DOMAIN part = 1..k /\ (\A i \in 1..k : part[i] = seq[i])
             => FoldLeft(Fold, base, part) = g[1..k]

LEMMA FoldsOfPrefixes ==
    ASSUME NEW n \in Nat, NEW seq, NEW base \in Accounts, AllFoldable(seq, 1..n)
    PROVE  \E g : HoldsFolds(g, base, seq, n)
<1> DEFINE S == 1..n
<1>1. IsFiniteSet(S) /\ S \subseteq Nat /\ AllFoldable(seq, S)
    BY SegmentFinite
<1>2. ASSUME NEW T \in SUBSET S
      PROVE  \E g : g = FoldBody(base, seq, T, g)
  <2>1. IsFiniteSet(T) /\ Picks(MaxOf(S), T)
    <3>. HIDE DEF S
    <3>. QED
      BY <1>1, MaxPicks, FS_Subset DEF Picks
  <2>2. PICK g : Solves(g, MaxOf(S), FoldStep(seq, S), base, T)
    <3>. HIDE DEF S
    <3>. QED
      BY <2>1, SolutionExists
  <2>3. g = FoldBody(base, seq, T, g)
    <3>. HIDE DEF S
    <3>. QED
      BY <1>1, <2>2, SolutionIsFold
  <2>. QED
    BY <2>3
<1>3. PICK g : g = FoldBody(base, seq, S, g)
    BY <1>2
<1>4. /\ Solves(g, MaxOf(S), FoldStep(seq, S), base, S)
      /\ \A s \in SUBSET S : g[s] \in Accounts
  <2>. HIDE DEF S
  <2>1. S \subseteq S
    OBVIOUS
  <2>. QED
    BY <1>1, <1>3, <2>1, FoldIsSolution
<1>5. ASSUME NEW k \in 0..n, NEW part, DOMAIN part = 1..k, \A i \in 1..k : part[i] = seq[i]
      PROVE  FoldLeft(Fold, base, part) = g[1..k]
  <2> DEFINE T == 1..k
             h == CHOOSE h : h = FoldBody(base, part, T, h)
  <2>1. T \in SUBSET S
    OBVIOUS
  <2>2. ASSUME NEW f PROVE FoldBody(base, part, T, f) = FoldBody(base, seq, T, f)
    <3>1. \A s \in SUBSET T : s # {} => Max(s) \in T
      <4>1. IsFiniteSet(T) /\ T \subseteq Nat
        BY SegmentFinite
      <4>. HIDE DEF T
      <4>. QED
        BY <4>1, MaxExists
    <3>2. \A i \in T : part[i] = seq[i]
      BY <1>5
    <3>. HIDE DEF T
    <3>. QED
      BY <3>1, <3>2 DEF FoldBody
  <2>3. h = FoldBody(base, seq, T, h)
    <3>1. PICK f : f = FoldBody(base, seq, T, f)
      BY <1>2, <2>1
    <3>2. f = FoldBody(base, part, T, f)
      BY <2>2, <3>1
    <3>. HIDE DEF T
    <3>3. h = FoldBody(base, part, T, h)
      BY <3>2
    <3>. HIDE DEF h
    <3>. QED
      BY <2>2, <3>3
  <2>4. FoldLeft(Fold, base, part) = h[T]
    BY <1>5, FoldChosen
  <2>. HIDE DEF h, S, T
  <2>5. Solves(h, MaxOf(S), FoldStep(seq, S), base, T)
    BY <1>1, <2>1, <2>3, FoldIsSolution
  <2>6. g[T] = h[T]
    <3>1. Picks(MaxOf(S), S) /\ T \subseteq S /\ T \subseteq T
      BY <1>1, <2>1, MaxPicks
    <3>2. IsFiniteSet(S) /\ Solves(g, MaxOf(S), FoldStep(seq, S), base, S)
      BY <1>1, <1>4
    <3> DEFINE pick == MaxOf(S)
               step == FoldStep(seq, S)
    <3>3. /\ IsFiniteSet(S) /\ Picks(pick, S) /\ T \subseteq S /\ T \subseteq T
          /\ Solves(g, pick, step, base, S) /\ Solves(h, pick, step, base, T)
      BY <2>5, <3>1, <3>2
    <3>. HIDE DEF pick, step
    <3>. QED
      BY ONLY <3>3, SolutionsAgree
  <2>. QED
    BY <2>4, <2>6 DEF T
<1>6. HoldsFolds(g, base, seq, n)
    BY <1>3, <1>4, <1>5 DEF HoldsFolds
<1>. QED
    BY <1>6

LEMMA FoldOfNothing ==
    ASSUME NEW base \in Accounts
    PROVE  FoldLeft(Fold, base, <<>>) = base
<1>1. AllFoldable(<<>>, 1..0) /\ 0 \in Nat
    BY DEF AllFoldable
<1>2. PICK g : HoldsFolds(g, base, <<>>, 0)
    BY <1>1, FoldsOfPrefixes
<1>3. FoldLeft(Fold, base, <<>>) = g[1..0]
    BY <1>2 DEF HoldsFolds
<1>4. 1..0 = {} /\ {} \in SUBSET (1..0)
    OBVIOUS
<1>. QED
    BY <1>2, <1>3, <1>4 DEF HoldsFolds, FoldBody

LEMMA MaxOfSegment ==
    ASSUME NEW k \in Nat
    PROVE  Max(1..(k + 1)) = k + 1 /\ (1..(k + 1)) \ {k + 1} = 1..k
<1>1. 1..(k + 1) # {} /\ 1..(k + 1) \in SUBSET (1..(k + 1)) /\ 1..(k + 1) \subseteq Nat
      /\ IsFiniteSet(1..(k + 1))
    BY SegmentFinite
<1>2. Max(1..(k + 1)) \in 1..(k + 1) /\ \A y \in 1..(k + 1) : Max(1..(k + 1)) >= y
    BY <1>1, MaxExists
<1>. QED
    BY <1>2

(* A stream is folded one event after the other. *)
LEMMA FoldOfPrefix ==
    ASSUME NEW E, NEW seq \in Seq(E), NEW base \in Accounts,
           AllFoldable(seq, 1..Len(seq)), NEW k \in 0..Len(seq)
    PROVE  /\ FoldLeft(Fold, base, SubSeq(seq, 1, k)) \in Accounts
           /\ k < Len(seq) =>
                FoldLeft(Fold, base, SubSeq(seq, 1, k + 1))
                  = Fold(FoldLeft(Fold, base, SubSeq(seq, 1, k)), seq[k + 1])
<1> DEFINE n == Len(seq)
<1>1. n \in Nat
    OBVIOUS
<1>2. PICK g : HoldsFolds(g, base, seq, n)
    BY <1>1, FoldsOfPrefixes
<1>3. ASSUME NEW j \in 0..n
      PROVE  FoldLeft(Fold, base, SubSeq(seq, 1, j)) = g[1..j] /\ g[1..j] \in Accounts
  <2>1. DOMAIN SubSeq(seq, 1, j) = 1..j /\ \A i \in 1..j : SubSeq(seq, 1, j)[i] = seq[i]
    <3>1. SubSeq(seq, 1, j) \in Seq(E) /\ Len(SubSeq(seq, 1, j)) = j
      BY <1>3
    <3>. QED
      BY <1>3, <3>1
  <2>2. 1..j \in SUBSET (1..n)
    BY <1>1, <1>3
  <2>. QED
    BY <1>2, <1>3, <2>1, <2>2 DEF HoldsFolds
<1>4. ASSUME k < n PROVE g[1..(k + 1)] = Fold(g[1..k], seq[k + 1])
  <2>1. 1..(k + 1) \in SUBSET (1..n) /\ 1..(k + 1) # {} /\ k \in Nat
    <3>1. k \in Nat /\ k + 1 <= n /\ 1 \in 1..(k + 1)
      BY <1>1, <1>4
    <3>. QED
      BY <1>1, <3>1
  <2>2. Max(1..(k + 1)) = k + 1 /\ (1..(k + 1)) \ {k + 1} = 1..k
    BY <2>1, MaxOfSegment
  <2> DEFINE s == 1..(k + 1)
  <2>3. g[s] = Fold(g[s \ {Max(s)}], seq[Max(s)])
    <3>1. s \in SUBSET (1..n) /\ s # {}
      BY <2>1
    <3>. HIDE DEF s, n
    <3>. QED
      BY <1>2, <3>1 DEF HoldsFolds, FoldBody
  <2>. QED
    BY <2>2, <2>3
<1>. QED
  <2>1. FoldLeft(Fold, base, SubSeq(seq, 1, k)) = g[1..k] /\ g[1..k] \in Accounts
    BY <1>3
  <2>2. ASSUME k < n PROVE FoldLeft(Fold, base, SubSeq(seq, 1, k + 1)) = g[1..(k + 1)]
    <3>1. k + 1 \in 0..n
      BY <1>1, <2>2
    <3>. QED
      BY <1>3, <3>1
  <2>. QED
    BY <1>4, <2>1, <2>2

LEMMA WholePrefix ==
    ASSUME NEW E, NEW seq \in Seq(E)
    PROVE  SubSeq(seq, 1, Len(seq)) = seq
OBVIOUS

LEMMA FoldOfStream ==
    ASSUME NEW E, NEW seq \in Seq(E), NEW base \in Accounts,
           AllFoldable(seq, 1..Len(seq))
    PROVE  FoldLeft(Fold, base, seq) \in Accounts
<1>1. Len(seq) \in 0..Len(seq)
    OBVIOUS
<1>. QED
    BY <1>1, FoldOfPrefix, WholePrefix

LEMMA FoldOfAppend ==
    ASSUME NEW E, NEW seq \in Seq(E), NEW e \in E, NEW base \in Accounts,
           AllFoldable(seq, 1..Len(seq)), Foldable(e)
    PROVE  FoldLeft(Fold, base, Append(seq, e)) = Fold(FoldLeft(Fold, base, seq), e)
<1> DEFINE s == Append(seq, e)
           n == Len(seq)
<1>1. /\ s \in Seq(E) /\ Len(s) = n + 1 /\ n \in Nat
      /\ s[n + 1] = e /\ \A i \in 1..n : s[i] = seq[i]
    OBVIOUS
<1>2. SubSeq(s, 1, n) = seq /\ SubSeq(s, 1, n + 1) = s
    OBVIOUS
<1>. HIDE DEF s, n
<1>3. AllFoldable(s, 1..Len(s))
  <2>1. ASSUME NEW i \in 1..Len(s) PROVE Foldable(s[i])
    <3>1. CASE i = n + 1
      BY <1>1, <3>1
    <3>2. CASE i # n + 1
      <4>1. i \in 1..n
        BY <1>1, <2>1, <3>2
      <4>. QED
        BY <1>1, <4>1 DEF AllFoldable, n
    <3>. QED
      BY <3>1, <3>2
  <2>. QED
    BY <2>1 DEF AllFoldable
<1>4. n \in 0..Len(s) /\ n < Len(s)
    BY <1>1
<1>5. FoldLeft(Fold, base, SubSeq(s, 1, n + 1))
        = Fold(FoldLeft(Fold, base, SubSeq(s, 1, n)), s[n + 1])
    BY <1>1, <1>3, <1>4, FoldOfPrefix
<1>. QED
    BY <1>1, <1>2, <1>5 DEF s

(* The fold of a stream goes on from the fold of any beginning of it. *)
LEMMA FoldSplits ==
    ASSUME NEW E, NEW seq \in Seq(E), NEW base \in Accounts,
           AllFoldable(seq, 1..Len(seq)), NEW k \in 0..Len(seq)
    PROVE  FoldLeft(Fold, FoldLeft(Fold, base, SubSeq(seq, 1, k)), SubSeq(seq, k + 1, Len(seq)))
             = FoldLeft(Fold, base, seq)
<1> DEFINE n == Len(seq)
           b == FoldLeft(Fold, base, SubSeq(seq, 1, k))
           tail == SubSeq(seq, k + 1, n)
           Good == {m \in Nat : k + m <= n =>
                      FoldLeft(Fold, b, SubSeq(tail, 1, m))
                        = FoldLeft(Fold, base, SubSeq(seq, 1, k + m))}
<1>1. n \in Nat /\ k \in Nat /\ k <= n
    OBVIOUS
<1>2. /\ tail \in Seq(E) /\ Len(tail) = n - k
      /\ \A i \in 1..(n - k) : tail[i] = seq[k + i]
    BY <1>1
<1>3. b \in Accounts
    BY FoldOfPrefix
<1>. HIDE DEF b, tail, n
<1>4. AllFoldable(tail, 1..Len(tail))
  <2>1. ASSUME NEW i \in 1..Len(tail) PROVE Foldable(tail[i])
    <3>1. k + i \in 1..n /\ tail[i] = seq[k + i]
      BY <1>1, <1>2
    <3>. QED
      BY <3>1 DEF AllFoldable, n
  <2>. QED
    BY <2>1 DEF AllFoldable
<1>5. 0 \in Good
  <2>1. SubSeq(tail, 1, 0) = <<>> /\ k + 0 = k
    BY <1>1, <1>2
  <2>. QED
    BY <1>3, <2>1, FoldOfNothing DEF b
<1>6. ASSUME NEW m \in Nat, m \in Good PROVE m + 1 \in Good
  <2>1. SUFFICES ASSUME k + (m + 1) <= n
                 PROVE  FoldLeft(Fold, b, SubSeq(tail, 1, m + 1))
                          = FoldLeft(Fold, base, SubSeq(seq, 1, k + (m + 1)))
    OBVIOUS
  <2>2. m \in 0..Len(tail) /\ m < Len(tail) /\ tail[m + 1] = seq[(k + m) + 1]
    BY <1>1, <1>2, <2>1
  <2>3. FoldLeft(Fold, b, SubSeq(tail, 1, m + 1))
          = Fold(FoldLeft(Fold, b, SubSeq(tail, 1, m)), tail[m + 1])
    BY <1>2, <1>3, <1>4, <2>2, FoldOfPrefix
  <2>4. k + m \in 0..Len(seq) /\ k + m < Len(seq) /\ k + (m + 1) = (k + m) + 1 /\ k + m <= n
    BY <1>1, <2>1 DEF n
  <2>5. FoldLeft(Fold, base, SubSeq(seq, 1, (k + m) + 1))
          = Fold(FoldLeft(Fold, base, SubSeq(seq, 1, k + m)), seq[(k + m) + 1])
    BY <2>4, FoldOfPrefix
  <2>6. FoldLeft(Fold, b, SubSeq(tail, 1, m)) = FoldLeft(Fold, base, SubSeq(seq, 1, k + m))
    BY <1>6, <2>4
  <2>. QED
    BY <2>2, <2>3, <2>4, <2>5, <2>6
<1>7. \A m \in Nat : m \in Good
  <2>. HIDE DEF Good
  <2>. QED
    BY <1>5, <1>6, NumberInduction
<1>8. n - k \in Nat /\ k + (n - k) = n
    BY <1>1
<1>9. FoldLeft(Fold, b, SubSeq(tail, 1, n - k)) = FoldLeft(Fold, base, SubSeq(seq, 1, n))
    BY <1>1, <1>7, <1>8
<1>10. SubSeq(tail, 1, n - k) = tail /\ SubSeq(seq, 1, n) = seq
    BY <1>2, WholePrefix DEF n
<1>. QED
    BY <1>9, <1>10 DEF b, tail, n

-----------------------------------------------------------------------------
(* Sums along a sequence *)

MaxSumBody(w, S, g) ==
    [s \in SUBSET S |-> IF s = {} THEN 0 ELSE g[s \ {Max(s)}] + w[Max(s)]]

(* Whoever adds up from the last position gets the sum. *)
LEMMA MaxSumIsSum ==
    ASSUME NEW n \in Nat, NEW w, IntegerOn(w, 1..n), NEW g, g = MaxSumBody(w, 1..n, g)
    PROVE  g[1..n] = SumFunctionOnSet(w, 1..n)
<1> DEFINE S == 1..n
           Good == {s \in SUBSET S : g[s] = SumFunctionOnSet(w, s)}
<1>1. IsFiniteSet(S) /\ S \subseteq Nat /\ IntegerOn(w, S) /\ g = MaxSumBody(w, S, g)
    BY SegmentFinite
<1>. HIDE DEF S
<1>2. {} \in Good
    BY <1>1, SumEmpty DEF MaxSumBody
<1>3. ASSUME NEW s \in SUBSET S, s # {}, \A x \in s : s \ {x} \in Good
      PROVE  s \in Good
  <2> DEFINE m == Max(s)
  <2>1. m \in s
    BY <1>1, <1>3, MaxExists
  <2>2. g[s] = g[s \ {m}] + w[m]
    BY <1>1, <1>3 DEF MaxSumBody
  <2>. HIDE DEF m
  <2>3. g[s \ {m}] = SumFunctionOnSet(w, s \ {m})
    BY <1>3, <2>1
  <2>4. IsFiniteSet(s) /\ IntegerOn(w, s) /\ IsFiniteSet(s \ {m}) /\ IntegerOn(w, s \ {m})
    BY <1>1, FS_Subset DEF IntegerOn
  <2>5. SumFunctionOnSet(w, s) = w[m] + SumFunctionOnSet(w, s \ {m})
    BY <2>1, <2>4, SumWithout
  <2>6. w[m] \in Int /\ SumFunctionOnSet(w, s \ {m}) \in Int
    BY <2>1, <2>4, SumInt DEF IntegerOn
  <2>. QED
    BY <2>2, <2>3, <2>5, <2>6
<1>4. \A s \in SUBSET S : s \in Good
  <2>. HIDE DEF Good
  <2>. QED
    BY <1>1, <1>2, <1>3, SetInduction
<1>5. S \in Good
    BY <1>4
<1>. QED
    BY <1>5 DEF S

LEMMA MaxSumExists ==
    ASSUME NEW n \in Nat, NEW w, IntegerOn(w, 1..n)
    PROVE  \E g : g = MaxSumBody(w, 1..n, g)
<1> DEFINE S == 1..n
           g == [s \in SUBSET S |-> SumFunctionOnSet(w, s)]
<1>1. IsFiniteSet(S) /\ S \subseteq Nat /\ IntegerOn(w, S)
    BY SegmentFinite
<1>. HIDE DEF S
<1>2. ASSUME NEW s \in SUBSET S
      PROVE  g[s] = IF s = {} THEN 0 ELSE g[s \ {Max(s)}] + w[Max(s)]
  <2>1. CASE s = {}
    BY <2>1, SumEmpty
  <2>2. CASE s # {}
    <3> DEFINE m == Max(s)
    <3>1. m \in s
      BY <1>1, <2>2, MaxExists
    <3>. HIDE DEF m
    <3>2. IsFiniteSet(s) /\ IntegerOn(w, s) /\ IsFiniteSet(s \ {m}) /\ IntegerOn(w, s \ {m})
      BY <1>1, FS_Subset DEF IntegerOn
    <3>3. SumFunctionOnSet(w, s) = w[m] + SumFunctionOnSet(w, s \ {m})
      BY <3>1, <3>2, SumWithout
    <3>4. w[m] \in Int /\ SumFunctionOnSet(w, s \ {m}) \in Int
      BY <3>1, <3>2, SumInt DEF IntegerOn
    <3>5. g[s] = g[s \ {m}] + w[m]
      BY <3>3, <3>4
    <3>. QED
      BY <2>2, <3>5 DEF m
  <2>. QED
    BY <2>1, <2>2
<1>3. g = MaxSumBody(w, S, g)
    BY <1>2 DEF MaxSumBody
<1>. QED
    BY <1>3 DEF S

(* One more term at the end. *)
LEMMA SumOfAppend ==
    ASSUME NEW n \in Nat, NEW w, NEW v, IntegerOn(w, 1..n), IntegerOn(v, 1..(n + 1)),
           \A i \in 1..n : v[i] = w[i]
    PROVE  /\ SumFunctionOnSet(v, 1..(n + 1)) = SumFunctionOnSet(w, 1..n) + v[n + 1]
           /\ SumFunctionOnSet(w, 1..n) \in Int
<1>1. (1..(n + 1)) \ {n + 1} = 1..n /\ n + 1 \in 1..(n + 1) /\ n + 1 \in Nat
    OBVIOUS
<1>2. IsFiniteSet(1..n) /\ IsFiniteSet(1..(n + 1)) /\ v[n + 1] \in Int
    BY <1>1, SegmentFinite DEF IntegerOn
<1>3. SumFunctionOnSet(v, 1..(n + 1)) = v[n + 1] + SumFunctionOnSet(v, (1..(n + 1)) \ {n + 1})
    BY <1>1, <1>2, SumWithout
<1>4. SumFunctionOnSet(v, 1..n) = SumFunctionOnSet(w, 1..n)
    BY <1>2, SumSame
<1>5. SumFunctionOnSet(w, 1..n) \in Int
    BY <1>2, SumInt
<1>6. SumFunctionOnSet(v, (1..(n + 1)) \ {n + 1}) = SumFunctionOnSet(w, 1..n)
  <2>1. (1..(n + 1)) \ {n + 1} = 1..n
    BY <1>1
  <2>. QED
    BY ONLY <1>4, <2>1, Zenon
<1> DEFINE before == SumFunctionOnSet(w, 1..n)
           after  == SumFunctionOnSet(v, 1..(n + 1))
<1>7. after = v[n + 1] + before /\ before \in Int /\ v[n + 1] \in Int
    BY ONLY <1>2, <1>3, <1>5, <1>6
<1>. HIDE DEF before, after
<1>8. after = before + v[n + 1]
    BY ONLY <1>7
<1>. QED
    BY <1>5, <1>8 DEF before, after
=============================================================================
