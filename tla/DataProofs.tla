----------------------------- MODULE DataProofs -----------------------------
(***************************************************************************)
(* Sums over finite sets: what SumFunctionOnSet computes, for every finite *)
(* set.  The induction is over the subsets of the set, as a minimal        *)
(* counterexample of strict inclusion.  Sequences whose elements are not   *)
(* of one set.  And the order of a finite set of numbers.                  *)
(***************************************************************************)
EXTENDS Functions, FiniteSetTheorems, SequenceTheorems, WellFoundedInduction, TLAPS

LEMMA MinimalSubset ==
  ASSUME NEW S, IsFiniteSet(S), NEW Bad \in SUBSET (SUBSET S), Bad # {}
  PROVE  \E T \in Bad : IsFiniteSet(T) /\ \A U \in SUBSET T : U # T => U \notin Bad
  <1>1. IsWellFoundedOn(StrictSubsetOrdering(S), SUBSET S)
    BY FS_StrictSubsetOrderingWellFounded, FS_FiniteSubsetsOfFinite
  <1>2. PICK T \in Bad : \A U \in Bad : <<U, T>> \notin StrictSubsetOrdering(S)
    BY <1>1, WFMin
  <1>3. IsFiniteSet(T)
    BY FS_Subset
  <1>4. ASSUME NEW U \in SUBSET T, U # T, U \in Bad PROVE FALSE
    BY <1>2, <1>4 DEF StrictSubsetOrdering
  <1> QED
    BY <1>3, <1>4

Chosen(s) == CHOOSE x \in s : TRUE

LEMMA ChosenIn == ASSUME NEW s, s # {} PROVE Chosen(s) \in s
  BY DEF Chosen

\* g[s] is the sum of f over s, for every subset s of S.
Value(g, f, s) == IF s = {} THEN 0 ELSE f[Chosen(s)] + g[s \ {Chosen(s)}]
Sums(g, f, S) == g = [s \in SUBSET S |-> Value(g, f, s)]

SumsOf(f, S) == CHOOSE g : Sums(g, f, S)

LEMMA SumIsChosen ==
  ASSUME NEW f, NEW S
  PROVE  SumFunctionOnSet(f, S) = SumsOf(f, S)[S]
  BY DEF SumFunctionOnSet, FoldFunctionOnSet, MapThenFoldSet, SumsOf, Sums, Value, Chosen

LEMMA SumsRestrict ==
  ASSUME NEW f, NEW S, NEW T \in SUBSET S, NEW g, Sums(g, f, S)
  PROVE  Sums([s \in SUBSET T |-> g[s]], f, T)
  <1> DEFINE h == [s \in SUBSET T |-> g[s]]
  <1>1. ASSUME NEW s \in SUBSET T PROVE g[s] = Value(h, f, s)
    <2>1. s \in SUBSET S
      OBVIOUS
    <2>2. g[s] = Value(g, f, s)
      BY <2>1 DEF Sums
    <2>3. s \ {Chosen(s)} \in SUBSET T
      OBVIOUS
    <2>4. h[s \ {Chosen(s)}] = g[s \ {Chosen(s)}]
      BY <2>3
    <2> QED BY <2>2, <2>4 DEF Value
  <1> QED
    BY <1>1, Zenon DEF Sums

LEMMA SumsUnique ==
  ASSUME NEW f, NEW S, IsFiniteSet(S), NEW g, NEW h, Sums(g, f, S), Sums(h, f, S)
  PROVE  g = h
  <1> DEFINE Bad == {s \in SUBSET S : g[s] # h[s]}
  <1>1. Bad = {}
    <2> SUFFICES ASSUME Bad # {} PROVE FALSE
      OBVIOUS
    <2>1. PICK T \in Bad : \A U \in SUBSET T : U # T => U \notin Bad
      <3>1. Bad \in SUBSET (SUBSET S)
        OBVIOUS
      <3> HIDE DEF Bad
      <3> QED BY <3>1, MinimalSubset
    <2> DEFINE R == T \ {Chosen(T)}
    <2>2. g[T] = Value(g, f, T) /\ h[T] = Value(h, f, T)
      BY DEF Sums
    <2>3. T # {}
      BY <2>2 DEF Value
    <2>4. R \in SUBSET T /\ R # T /\ R \in SUBSET S
      BY <2>3, ChosenIn
    <2>5. g[R] = h[R]
      BY <2>1, <2>4
    <2> QED BY <2>2, <2>5 DEF Value
  <1>2. g = [s \in SUBSET S |-> g[s]] /\ h = [s \in SUBSET S |-> h[s]]
    BY DEF Sums
  <1>3. \A s \in SUBSET S : g[s] = h[s]
    BY <1>1
  <1> HIDE DEF Bad
  <1> QED
    BY <1>2, <1>3

LEMMA SumsExist ==
  ASSUME NEW f, NEW S, IsFiniteSet(S)
  PROVE  Sums(SumsOf(f, S), f, S)
  <1> DEFINE Bad == {s \in SUBSET S : ~ \E g : Sums(g, f, s)}
  <1>1. Bad = {}
    <2> SUFFICES ASSUME Bad # {} PROVE FALSE
      OBVIOUS
    <2>1. PICK T \in Bad : IsFiniteSet(T) /\ \A U \in SUBSET T : U # T => U \notin Bad
      <3>1. Bad \in SUBSET (SUBSET S)
        OBVIOUS
      <3> HIDE DEF Bad
      <3> QED BY <3>1, MinimalSubset
    <2>2. ASSUME NEW U \in SUBSET T, U # T PROVE Sums(SumsOf(f, U), f, U) /\ IsFiniteSet(U)
      <3>1. \E g : Sums(g, f, U)
        BY <2>1, <2>2
      <3> QED BY <2>1, <3>1, FS_Subset DEF SumsOf
    <2> DEFINE val(s) == SumsOf(f, s)[s]
               R == T \ {Chosen(T)}
               top == IF T = {} THEN 0 ELSE f[Chosen(T)] + val(R)
               g == [s \in SUBSET T |-> IF s = T THEN top ELSE val(s)]
    <2>3. ASSUME NEW s \in SUBSET T, s # T PROVE val(s) = Value(g, f, s)
      <3> DEFINE q == s \ {Chosen(s)}
      <3>1. val(s) = Value(SumsOf(f, s), f, s)
        BY <2>2, <2>3 DEF Sums
      <3>2. CASE s = {}
        BY <3>1, <3>2 DEF Value
      <3>3. CASE s # {}
        <4>1. q \in SUBSET s /\ q \in SUBSET T /\ q # T
          BY <2>3, <3>3
        <4>2. [u \in SUBSET q |-> SumsOf(f, s)[u]] = SumsOf(f, q)
          <5>1. Sums([u \in SUBSET q |-> SumsOf(f, s)[u]], f, q)
            BY <2>2, <2>3, <4>1, SumsRestrict
          <5> QED BY <2>2, <4>1, <5>1, SumsUnique
        <4>3. SumsOf(f, s)[q] = val(q)
          BY <4>2
        <4>4. g[q] = val(q)
          BY <4>1
        <4> QED BY <3>1, <3>3, <4>3, <4>4 DEF Value
      <3> QED BY <3>2, <3>3
    <2>4. top = Value(g, f, T)
      <3>1. T # {} => R \in SUBSET T /\ R # T
        BY ChosenIn
      <3>2. T # {} => g[R] = val(R)
        BY <3>1
      <3> QED BY <3>2 DEF Value
    <2>5. g = [s \in SUBSET T |-> Value(g, f, s)]
      <3>1. \A s \in SUBSET T : (IF s = T THEN top ELSE val(s)) = Value(g, f, s)
        BY <2>3, <2>4
      <3> HIDE DEF top, val
      <3> QED BY <3>1, Zenon
    <2>6. Sums(g, f, T)
      BY <2>5 DEF Sums
    <2> HIDE DEF g
    <2> QED BY <2>1, <2>6
  <1> HIDE DEF Bad
  <1>2. S \notin Bad
    BY <1>1
  <1>3. \E g : Sums(g, f, S)
    BY <1>2 DEF Bad
  <1> QED
    BY <1>3 DEF SumsOf

LEMMA SumEmpty == ASSUME NEW f PROVE SumFunctionOnSet(f, {}) = 0
  <1>1. Sums(SumsOf(f, {}), f, {})
    BY SumsExist, FS_EmptySet
  <1> QED
    BY <1>1, SumIsChosen DEF Sums, Value

\* The sums over the subsets of S are those of one function.
LEMMA SumOfSubset ==
  ASSUME NEW f, NEW S, IsFiniteSet(S), NEW T \in SUBSET S
  PROVE  SumFunctionOnSet(f, T) = SumsOf(f, S)[T]
  <1>1. Sums(SumsOf(f, S), f, S) /\ IsFiniteSet(T) /\ Sums(SumsOf(f, T), f, T)
    BY SumsExist, FS_Subset
  <1>2. Sums([s \in SUBSET T |-> SumsOf(f, S)[s]], f, T)
    BY <1>1, SumsRestrict
  <1>3. [s \in SUBSET T |-> SumsOf(f, S)[s]] = SumsOf(f, T)
    BY <1>1, <1>2, SumsUnique
  <1>4. SumsOf(f, T)[T] = SumsOf(f, S)[T]
    BY <1>3
  <1> QED
    BY <1>4, SumIsChosen

LEMMA SumPicked ==
  ASSUME NEW f, NEW S, IsFiniteSet(S), S # {}
  PROVE  SumFunctionOnSet(f, S) = f[Chosen(S)] + SumFunctionOnSet(f, S \ {Chosen(S)})
  <1>0. Sums(SumsOf(f, S), f, S)
    BY SumsExist
  <1>1. SumsOf(f, S)[S] = Value(SumsOf(f, S), f, S)
    BY <1>0 DEF Sums
  <1>2. /\ SumFunctionOnSet(f, S) = SumsOf(f, S)[S]
        /\ SumFunctionOnSet(f, S \ {Chosen(S)}) = SumsOf(f, S)[S \ {Chosen(S)}]
    BY SumOfSubset
  <1> QED
    BY <1>1, <1>2 DEF Value

LEMMA SumType ==
  ASSUME NEW f, NEW S, IsFiniteSet(S), \A x \in S : f[x] \in Int
  PROVE  SumFunctionOnSet(f, S) \in Int
  <1> DEFINE Bad == {s \in SUBSET S : SumFunctionOnSet(f, s) \notin Int}
  <1>0. Bad \in SUBSET (SUBSET S)
    OBVIOUS
  <1>1. ASSUME NEW T \in Bad, \A U \in SUBSET T : U # T => U \notin Bad PROVE FALSE
    <2> DEFINE R == T \ {Chosen(T)}
    <2>1. T # {}
      BY SumEmpty
    <2>2. IsFiniteSet(T) /\ Chosen(T) \in S /\ R \in SUBSET T /\ R # T
      BY <2>1, ChosenIn, FS_Subset
    <2>3. SumFunctionOnSet(f, R) \in Int
      BY <1>1, <2>2
    <2> QED BY <2>1, <2>2, <2>3, SumPicked
  <1> HIDE DEF Bad
  <1>2. Bad = {}
    BY <1>0, <1>1, MinimalSubset
  <1> QED
    BY <1>2 DEF Bad

\* It does not matter which element is added last.
LEMMA SumElement ==
  ASSUME NEW f, NEW S, IsFiniteSet(S), \A x \in S : f[x] \in Int, NEW e \in S
  PROVE  SumFunctionOnSet(f, S) = f[e] + SumFunctionOnSet(f, S \ {e})
  <1> DEFINE sum(s) == SumFunctionOnSet(f, s)
             Bad == {s \in SUBSET S : \E x \in s : sum(s) # f[x] + sum(s \ {x})}
  <1>0. Bad \in SUBSET (SUBSET S)
    OBVIOUS
  <1>t. \A s \in SUBSET S : IsFiniteSet(s) /\ sum(s) \in Int
    BY SumType, FS_Subset
  <1>1. ASSUME NEW T \in Bad, \A U \in SUBSET T : U # T => U \notin Bad PROVE FALSE
    <2>1. PICK x \in T : sum(T) # f[x] + sum(T \ {x})
      OBVIOUS
    <2> DEFINE c == Chosen(T)
    <2>2. c \in T /\ sum(T) = f[c] + sum(T \ {c})
      BY <1>t, SumPicked, ChosenIn
    <2>3. x # c
      BY <2>1, <2>2
    <2>4. ASSUME NEW u \in T, NEW v \in T \ {u}
          PROVE  sum(T \ {u}) = f[v] + sum((T \ {u}) \ {v})
      <3>1. T \ {u} \in SUBSET T /\ T \ {u} # T /\ T \ {u} \in SUBSET S
        OBVIOUS
      <3>2. T \ {u} \notin Bad
        BY <1>1, <3>1
      <3> QED BY <3>1, <3>2
    <2> HIDE DEF sum, c
    <2>5. (T \ {c}) \ {x} = (T \ {x}) \ {c}
      OBVIOUS
    <2>6. /\ sum(T \ {c}) = f[x] + sum((T \ {c}) \ {x})
          /\ sum(T \ {x}) = f[c] + sum((T \ {c}) \ {x})
      BY <2>2, <2>3, <2>4, <2>5
    <2>7. /\ f[x] \in Int /\ f[c] \in Int /\ (T \ {c}) \ {x} \in SUBSET S
          /\ sum((T \ {c}) \ {x}) \in Int
      BY <1>t, <2>2
    <2> QED BY <2>1, <2>2, <2>6, <2>7
  <1>2. Bad = {}
    <2> HIDE DEF Bad
    <2> QED BY <1>0, <1>1, MinimalSubset
  <1>3. S \notin Bad
    BY <1>2
  <1> QED
    BY <1>3

LEMMA SumExtended ==
  ASSUME NEW f, NEW S, IsFiniteSet(S), \A x \in S : f[x] \in Int,
         NEW e, e \notin S, f[e] \in Int
  PROVE  SumFunctionOnSet(f, S \cup {e}) = f[e] + SumFunctionOnSet(f, S)
  <1>1. IsFiniteSet(S \cup {e}) /\ (S \cup {e}) \ {e} = S
    BY FS_AddElement
  <1>2. \A x \in S \cup {e} : f[x] \in Int
    OBVIOUS
  <1> QED
    BY <1>1, <1>2, SumElement

\* Functions that agree on the set have the same sum over it.
LEMMA SumAgrees ==
  ASSUME NEW f, NEW g, NEW S, IsFiniteSet(S), \A x \in S : f[x] = g[x]
  PROVE  SumFunctionOnSet(f, S) = SumFunctionOnSet(g, S)
  <1> DEFINE Bad == {s \in SUBSET S : SumFunctionOnSet(f, s) # SumFunctionOnSet(g, s)}
  <1>0. Bad \in SUBSET (SUBSET S)
    OBVIOUS
  <1>1. ASSUME NEW T \in Bad, \A U \in SUBSET T : U # T => U \notin Bad PROVE FALSE
    <2> DEFINE R == T \ {Chosen(T)}
    <2>1. T # {}
      BY SumEmpty
    <2>2. IsFiniteSet(T) /\ Chosen(T) \in S /\ R \in SUBSET T /\ R # T
      BY <2>1, ChosenIn, FS_Subset
    <2>3. SumFunctionOnSet(f, R) = SumFunctionOnSet(g, R)
      BY <1>1, <2>2
    <2>4. /\ SumFunctionOnSet(f, T) = f[Chosen(T)] + SumFunctionOnSet(f, R)
          /\ SumFunctionOnSet(g, T) = g[Chosen(T)] + SumFunctionOnSet(g, R)
      BY <2>1, <2>2, SumPicked
    <2>5. f[Chosen(T)] = g[Chosen(T)]
      BY <2>2
    <2> QED BY <2>3, <2>4, <2>5
  <1> HIDE DEF Bad
  <1>2. Bad = {}
    BY <1>0, <1>1, MinimalSubset
  <1> QED
    BY <1>2 DEF Bad

LEMMA SumNat ==
  ASSUME NEW f, NEW S, IsFiniteSet(S), \A x \in S : f[x] \in Nat
  PROVE  SumFunctionOnSet(f, S) \in Nat
  <1> DEFINE Bad == {s \in SUBSET S : SumFunctionOnSet(f, s) \notin Nat}
  <1>0. Bad \in SUBSET (SUBSET S)
    OBVIOUS
  <1>1. ASSUME NEW T \in Bad, \A U \in SUBSET T : U # T => U \notin Bad PROVE FALSE
    <2> DEFINE R == T \ {Chosen(T)}
    <2>1. T # {}
      BY SumEmpty
    <2>2. IsFiniteSet(T) /\ Chosen(T) \in S /\ R \in SUBSET T /\ R # T
      BY <2>1, ChosenIn, FS_Subset
    <2>3. SumFunctionOnSet(f, R) \in Nat
      BY <1>1, <2>2
    <2> QED BY <2>1, <2>2, <2>3, SumPicked
  <1> HIDE DEF Bad
  <1>2. Bad = {}
    BY <1>0, <1>1, MinimalSubset
  <1> QED
    BY <1>2 DEF Bad

-----------------------------------------------------------------------------
(* Sequences.                                                              *)

IsSeq(s) == \E S : s \in Seq(S)

Appended(s, e, d) ==
  /\ IsSeq(d) /\ Len(s) \in Nat /\ Len(d) = Len(s) + 1 /\ d[Len(s) + 1] = e
  /\ \A i \in 1..Len(s) : d[i] = s[i]
WrittenAt(s, i, e, d) ==
  /\ IsSeq(d) /\ Len(d) = Len(s)
  /\ \A j \in 1..Len(s) : d[j] = IF j = i THEN e ELSE s[j]

LEMMA SeqAppend ==
  ASSUME NEW s, IsSeq(s), NEW e, NEW d, d = Append(s, e)
  PROVE  Appended(s, e, d)
  <1>1. PICK S : s \in Seq(S)
    BY DEF IsSeq
  <1> DEFINE T == S \cup {e}
  <1>2. s \in Seq(T) /\ e \in T
    <2>1. s = [i \in 1..Len(s) |-> s[i]] /\ Len(s) \in Nat /\ \A i \in 1..Len(s) : s[i] \in S
      BY <1>1, LenProperties, ElementOfSeq
    <2>2. \A i \in 1..Len(s) : s[i] \in T
      BY <2>1
    <2> HIDE DEF T
    <2>3. [i \in 1..Len(s) |-> s[i]] \in Seq(T)
      BY <2>1, <2>2
    <2> QED BY <2>1, <2>3 DEF T
  <1> HIDE DEF T
  <1>3. Append(s, e) \in Seq(T)
    BY <1>2, AppendProperties
  <1> QED BY <1>2, <1>3, AppendProperties, LenProperties DEF IsSeq, Appended

LEMMA SeqWritten ==
  ASSUME NEW s, IsSeq(s), NEW i \in 1..Len(s), NEW e, NEW d, d = [s EXCEPT ![i] = e]
  PROVE  WrittenAt(s, i, e, d)
  <1>1. PICK S : s \in Seq(S)
    BY DEF IsSeq
  <1> DEFINE T == S \cup {e}
  <1>2. s \in Seq(T) /\ e \in T
    <2>1. s = [j \in 1..Len(s) |-> s[j]] /\ Len(s) \in Nat /\ \A j \in 1..Len(s) : s[j] \in S
      BY <1>1, LenProperties, ElementOfSeq
    <2>2. \A j \in 1..Len(s) : s[j] \in T
      BY <2>1
    <2> HIDE DEF T
    <2>3. [j \in 1..Len(s) |-> s[j]] \in Seq(T)
      BY <2>1, <2>2
    <2> QED BY <2>1, <2>3 DEF T
  <1> HIDE DEF T
  <1>3. [s EXCEPT ![i] = e] \in Seq(T) /\ Len([s EXCEPT ![i] = e]) = Len(s)
        /\ \A j \in 1..Len(s) : [s EXCEPT ![i] = e][j] = IF j = i THEN e ELSE s[j]
    BY <1>2, ExceptSeq
  <1> QED BY <1>3 DEF IsSeq, WrittenAt

Dropped(s, d) ==
  /\ IsSeq(d) /\ Len(s) \in Nat \ {0} /\ Len(d) = Len(s) - 1
  /\ \A i \in 1..Len(s) - 1 : d[i] = s[i + 1]

LEMMA SeqTail ==
  ASSUME NEW s, IsSeq(s), s # <<>>, NEW d, d = Tail(s)
  PROVE  Dropped(s, d)
  <1>1. PICK S : s \in Seq(S)
    BY DEF IsSeq
  <1>2. d \in Seq(S) /\ Len(d) = Len(s) - 1 /\ \A i \in 1..Len(d) : d[i] = s[i + 1]
    BY <1>1, HeadTailProperties
  <1>3. Len(s) \in Nat \ {0}
    BY <1>1, EmptySeq
  <1> QED BY <1>2, <1>3 DEF IsSeq, Dropped

LEMMA SeqHead ==
  ASSUME NEW s, IsSeq(s), s # <<>>
  PROVE  Head(s) = s[1] /\ Len(s) \in Nat \ {0}
  <1>1. PICK S : s \in Seq(S)
    BY DEF IsSeq
  <1>2. Len(s) \in Nat \ {0}
    BY <1>1, EmptySeq
  <1> QED BY <1>1, <1>2

LEMMA SeqLen ==
  ASSUME NEW s, IsSeq(s)
  PROVE  Len(s) \in Nat /\ DOMAIN s = 1..Len(s) /\ (Len(s) = 0 => s = <<>>)
  <1>1. PICK S : s \in Seq(S)
    BY DEF IsSeq
  <1> QED BY <1>1, LenProperties, EmptySeq

\* Sets of numbers, and their elements in order.
LEMMA LargestExists ==
  ASSUME NEW S \in SUBSET Nat, IsFiniteSet(S), S # {}
  PROVE  \E m \in S : \A x \in S : x <= m
  <1> DEFINE Largest(U, m) == m \in U /\ \A x \in U : x <= m
             Bad == {U \in SUBSET S : U # {} /\ ~\E m : Largest(U, m)}
  <1>1. ASSUME Bad # {} PROVE FALSE
    <2>1. PICK T \in Bad : \A U \in SUBSET T : U # T => U \notin Bad
      <3> HIDE DEF Bad
      <3>1. Bad \in SUBSET (SUBSET S)
        BY DEF Bad
      <3> QED BY <1>1, <3>1, MinimalSubset
    <2>2. PICK x \in T : TRUE
      BY <2>1
    <2>3. x \in Nat /\ T \subseteq S /\ \A m : ~Largest(T, m)
      BY <2>1, <2>2
    <2>4. T \ {x} # {}
      BY <2>2, <2>3
    <2>5. PICK m : Largest(T \ {x}, m)
      BY <2>1, <2>2, <2>3, <2>4
    <2>6. m \in Nat /\ m \in T /\ \A y \in T : y # x => y <= m
      BY <2>3, <2>5
    <2>7. CASE x <= m
      BY <2>3, <2>6, <2>7
    <2>8. CASE m < x
      <3>1. \A y \in T : y <= x
        BY <2>3, <2>6, <2>8
      <3> QED BY <2>2, <2>3, <3>1
    <2> QED BY <2>3, <2>6, <2>7, <2>8
  <1> QED BY <1>1

Increasing(S, f) ==
  /\ f \in [1..Cardinality(S) -> S]
  /\ \A i, j \in 1..Cardinality(S) : i < j => f[i] < f[j]

LEMMA OrderExists ==
  ASSUME NEW S \in SUBSET Nat, IsFiniteSet(S)
  PROVE  \E f : Increasing(S, f)
  <1> DEFINE Bad == {U \in SUBSET S : ~\E f : Increasing(U, f)}
  <1>1. ASSUME Bad # {} PROVE FALSE
    <2>1. PICK T \in Bad : \A U \in SUBSET T : U # T => U \notin Bad
      <3> HIDE DEF Bad
      <3>1. Bad \in SUBSET (SUBSET S)
        BY DEF Bad
      <3> QED BY <1>1, <3>1, MinimalSubset
    <2>2. T \in SUBSET Nat /\ T \subseteq S /\ IsFiniteSet(T) /\ \A f : ~Increasing(T, f)
      BY <2>1, FS_Subset
    <2>3. T # {}
      <3>1. Increasing({}, [i \in 1..0 |-> i])
        BY FS_EmptySet DEF Increasing
      <3> QED BY <2>2, <3>1
    <2>4. PICK m \in T : \A x \in T : x <= m
      BY <2>2, <2>3, LargestExists
    <2>5. PICK f : Increasing(T \ {m}, f)
      BY <2>1, <2>2, <2>4
    <2> DEFINE c == Cardinality(T)
               g == [i \in 1..c |-> IF i = c THEN m ELSE f[i]]
    <2>6. Cardinality(T \ {m}) = c - 1 /\ c \in Nat /\ c - 1 \in Nat
      <3>1. IsFiniteSet(T \ {m}) /\ Cardinality(T \ {m}) = Cardinality(T) - 1
        BY <2>2, <2>4, FS_RemoveElement
      <3>2. Cardinality(T) \in Nat /\ Cardinality(T \ {m}) \in Nat
        BY <2>2, <3>1, FS_CardinalityType
      <3> QED BY <3>1, <3>2
    <2> HIDE DEF c
    <2>7. /\ f \in [1..c - 1 -> T \ {m}]
          /\ \A i, j \in 1..c - 1 : i < j => f[i] < f[j]
      BY <2>5, <2>6 DEF Increasing
    <2>8. \A i \in 1..c : i # c => i \in 1..c - 1 /\ f[i] \in T /\ f[i] < m
      <3> SUFFICES ASSUME NEW i \in 1..c, i # c
                   PROVE  i \in 1..c - 1 /\ f[i] \in T /\ f[i] < m
        OBVIOUS
      <3>1. i \in 1..c - 1
        BY <2>6
      <3>2. f[i] \in T /\ f[i] # m
        BY <2>7, <3>1
      <3>3. m \in Nat /\ f[i] \in Nat /\ f[i] <= m
        BY <2>2, <2>4, <3>2
      <3> QED BY <3>1, <3>2, <3>3
    <2>9. g \in [1..c -> T]
      BY <2>4, <2>8
    <2>10. ASSUME NEW i \in 1..c, NEW j \in 1..c, i < j PROVE g[i] < g[j]
      <3>1. i # c
        BY <2>6, <2>10
      <3>2. CASE j = c
        BY <2>8, <3>1, <3>2
      <3>3. CASE j # c
        BY <2>7, <2>8, <2>10, <3>1, <3>3
      <3> QED BY <3>2, <3>3
    <2>11. Increasing(T, g)
      <3> HIDE DEF g
      <3> QED BY <2>9, <2>10 DEF Increasing, c
    <2> QED BY <2>2, <2>11
  <1> QED BY <1>1
=============================================================================
