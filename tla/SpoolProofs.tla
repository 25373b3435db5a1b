----------------------------- MODULE SpoolProofs -----------------------------
(***************************************************************************)
(* Proofs about the spool, for every number of inputs, workers, segments   *)
(* and failures, and every quota.  The account is compared with the disk   *)
(* through sums over the files and over the writers, so the first section  *)
(* is about sums over finite sets; induction is by a smallest set that     *)
(* would fail.                                                             *)
(***************************************************************************)
EXTENDS Spool, TLAPS, FiniteSetTheorems

-----------------------------------------------------------------------------
(* Sums over finite sets.                                                  *)

Some(S) == CHOOSE x \in S : TRUE
Adds(f, g, S) ==
  g = [s \in SUBSET S |-> IF s = {} THEN 0 ELSE f[Some(s)] + g[s \ {Some(s)}]]

LEMMA SmallestSet ==
  ASSUME NEW S, IsFiniteSet(S), NEW B \in SUBSET SUBSET S, B # {}
  PROVE  \E T \in B : \A U \in SUBSET T : U # T => U \notin B
<1>1. IsWellFoundedOn(StrictSubsetOrdering(S), SUBSET S)
  BY FS_StrictSubsetOrderingWellFounded, FS_FiniteSubsetsOfFinite
<1>2. PICK T \in B : \A U \in B : ~(<<U, T>> \in StrictSubsetOrdering(S))
  BY <1>1, WFMin
<1>3. ASSUME NEW U \in SUBSET T, U # T, U \in B PROVE FALSE
  <2>1. <<U, T>> \in StrictSubsetOrdering(S)
    BY <1>3 DEF StrictSubsetOrdering
  <2> QED BY <1>2, <1>3, <2>1
<1> QED BY <1>3

LEMMA AddsUnique ==
  ASSUME NEW f, NEW g, NEW h, NEW S, NEW T, Adds(f, g, S), Adds(f, h, T), IsFiniteSet(S),
         NEW V \in SUBSET S, V \in SUBSET T
  PROVE  g[V] = h[V]
<1> DEFINE B == {U \in SUBSET V : g[U] # h[U]}
<1> SUFFICES ASSUME B # {} PROVE FALSE
  OBVIOUS
<1>1. IsFiniteSet(V) /\ B \in SUBSET SUBSET V
  BY FS_Subset
<1>2. PICK U \in B : \A W \in SUBSET U : W # U => W \notin B
  <2> HIDE DEF B
  <2> QED BY <1>1, SmallestSet
<1>3. U \in SUBSET S /\ U \in SUBSET T
  OBVIOUS
<1>4. g[U] = IF U = {} THEN 0 ELSE f[Some(U)] + g[U \ {Some(U)}]
  BY <1>3 DEF Adds
<1>5. h[U] = IF U = {} THEN 0 ELSE f[Some(U)] + h[U \ {Some(U)}]
  BY <1>3 DEF Adds
<1>6. U # {} /\ Some(U) \in U
  BY <1>4, <1>5 DEF Some
<1>7. g[U \ {Some(U)}] = h[U \ {Some(U)}]
  BY <1>2, <1>6
<1> QED BY <1>4, <1>5, <1>7

LEMMA AddsExists ==
  ASSUME NEW f, NEW S, IsFiniteSet(S)
  PROVE  \E g : Adds(f, g, S)
<1> DEFINE B == {T \in SUBSET S : ~\E g : Adds(f, g, T)}
<1> SUFFICES ASSUME B # {} PROVE FALSE
  OBVIOUS
<1>1. PICK T \in B : \A U \in SUBSET T : U # T => U \notin B
  <2>1. B \in SUBSET SUBSET S
    OBVIOUS
  <2> HIDE DEF B
  <2> QED BY <2>1, SmallestSet
<1> DEFINE h(U) == CHOOSE g : Adds(f, g, U)
           c == Some(T)
           g == [s \in SUBSET T |-> IF s # T THEN h(s)[s] ELSE IF T = {} THEN 0 ELSE f[c] + h(T \ {c})[T \ {c}]]
<1>2. \A U \in SUBSET T : U # T => Adds(f, h(U), U)
  BY <1>1
<1> HIDE DEF h
<1>3. ASSUME NEW s \in SUBSET T, s # {}
      PROVE  g[s] = f[Some(s)] + g[s \ {Some(s)}]
  <2> DEFINE u == s \ {Some(s)}
  <2>1. Some(s) \in s /\ u \in SUBSET T /\ u # T /\ u \in SUBSET s
    BY <1>3 DEF Some
  <2>2. g[u] = h(u)[u]
    BY <2>1
  <2>3. CASE s = T
    BY <1>3, <2>2, <2>3
  <2>4. CASE s # T
    <3>1. g[s] = h(s)[s]
      BY <2>4
    <3>2. Adds(f, h(s), s) /\ Adds(f, h(u), u)
      BY <1>2, <2>1, <2>4
    <3>3. IsFiniteSet(s)
      BY FS_Subset
    <3>4. h(s)[u] = h(u)[u]
      BY <2>1, <3>2, <3>3, AddsUnique
    <3>5. h(s)[s] = f[Some(s)] + h(s)[u]
      BY <1>3, <3>2 DEF Adds
    <3> QED BY <2>2, <3>1, <3>4, <3>5
  <2> QED BY <2>3, <2>4
<1>4. g[{}] = 0
  <2>1. CASE T = {}
    BY <2>1
  <2>2. CASE T # {}
    BY <1>2, <2>2 DEF Adds
  <2> QED BY <2>1, <2>2
<1>5. g = [s \in SUBSET T |-> IF s = {} THEN 0 ELSE f[Some(s)] + g[s \ {Some(s)}]]
  BY <1>3, <1>4
<1>6. Adds(f, g, T)
  BY <1>5 DEF Adds
<1> QED BY <1>6

(* The sum of f over S.                                                    *)
SumOn(f, S) == SumFunctionOnSet(f, S)

LEMMA SumRecursion ==
  ASSUME NEW f, NEW S, IsFiniteSet(S)
  PROVE  /\ S = {} => SumOn(f, S) = 0
         /\ S # {} => Some(S) \in S /\ SumOn(f, S) = f[Some(S)] + SumOn(f, S \ {Some(S)})
<1> DEFINE sum(T) == CHOOSE g : Adds(f, g, T)
           U == S \ {Some(S)}
<1>1. \A T : SumOn(f, T) = sum(T)[T]
  BY DEF SumOn, SumFunctionOnSet, FoldFunctionOnSet, MapThenFoldSet, Adds, Some
<1>2. IsFiniteSet(U)
  BY FS_Subset
<1>3. Adds(f, sum(S), S) /\ Adds(f, sum(U), U)
  BY <1>2, AddsExists
<1> HIDE DEF sum
<1>4. S = {} => sum(S)[S] = 0
  BY <1>3 DEF Adds
<1>5. S # {} => sum(S)[S] = f[Some(S)] + sum(S)[U]
  BY <1>3 DEF Adds
<1>6. sum(S)[U] = sum(U)[U]
  BY <1>2, <1>3, AddsUnique
<1>7. S # {} => Some(S) \in S
  BY DEF Some
<1> QED BY <1>1, <1>4, <1>5, <1>6, <1>7

(* A sum of numbers is a number, to which each of them contributes itself. *)
LEMMA SumNat ==
  ASSUME NEW f, NEW S, IsFiniteSet(S), \A x \in S : f[x] \in Nat
  PROVE  SumOn(f, S) \in Nat
<1> DEFINE B == {T \in SUBSET S : SumOn(f, T) \notin Nat}
<1> SUFFICES ASSUME B # {} PROVE FALSE
  OBVIOUS
<1>1. B \in SUBSET SUBSET S
  OBVIOUS
<1>2. PICK T \in B : \A U \in SUBSET T : U # T => U \notin B
  <2> HIDE DEF B
  <2> QED BY <1>1, SmallestSet
<1>3. IsFiniteSet(T) /\ T \subseteq S
  BY FS_Subset
<1>4. /\ T = {} => SumOn(f, T) = 0
      /\ T # {} => Some(T) \in T /\ SumOn(f, T) = f[Some(T)] + SumOn(f, T \ {Some(T)})
  BY <1>3, SumRecursion
<1>5. T # {} => SumOn(f, T \ {Some(T)}) \in Nat
  BY <1>2, <1>3, <1>4
<1> QED BY <1>3, <1>4, <1>5

LEMMA SumSplit ==
  ASSUME NEW f, NEW S, IsFiniteSet(S), \A x \in S : f[x] \in Nat, NEW x \in S
  PROVE  SumOn(f, S) = f[x] + SumOn(f, S \ {x})
<1> DEFINE B == {T \in SUBSET S : \E y \in T : SumOn(f, T) # f[y] + SumOn(f, T \ {y})}
<1> SUFFICES ASSUME B # {} PROVE FALSE
  OBVIOUS
<1>1. B \in SUBSET SUBSET S
  OBVIOUS
<1>2. PICK T \in B : \A U \in SUBSET T : U # T => U \notin B
  <2> HIDE DEF B
  <2> QED BY <1>1, SmallestSet
<1>3. PICK y \in T : SumOn(f, T) # f[y] + SumOn(f, T \ {y})
  OBVIOUS
<1> DEFINE c == Some(T)
           U == (T \ {c}) \ {y}
<1>4. IsFiniteSet(T) /\ T \subseteq S
  BY FS_Subset
<1>5. c \in T /\ SumOn(f, T) = f[c] + SumOn(f, T \ {c})
  BY <1>3, <1>4, SumRecursion
<1>6. c # y
  BY <1>3, <1>5
<1>7. SumOn(f, T \ {c}) = f[y] + SumOn(f, U)
  BY <1>2, <1>5, <1>6
<1>8. SumOn(f, T \ {y}) = f[c] + SumOn(f, (T \ {y}) \ {c})
  BY <1>2, <1>3, <1>5, <1>6
<1>9. (T \ {y}) \ {c} = U
  OBVIOUS
<1>10. SumOn(f, U) \in Nat
  <2>1. IsFiniteSet(U) /\ \A z \in U : f[z] \in Nat
    BY <1>4, FS_Subset
  <2> HIDE DEF U
  <2> QED BY <2>1, SumNat
<1>11. f[c] \in Nat /\ f[y] \in Nat
  BY <1>4, <1>5
<1>12. SumOn(f, T \ {y}) = f[c] + SumOn(f, U)
  BY <1>8, <1>9
<1> HIDE DEF U, c, B
<1>13. f[c] + (f[y] + SumOn(f, U)) = f[y] + (f[c] + SumOn(f, U))
  BY <1>10, <1>11
<1> QED BY <1>3, <1>5, <1>7, <1>12, <1>13

(* Sums are compared term by term.                                         *)
LEMMA SumLess ==
  ASSUME NEW f, NEW g, NEW S, IsFiniteSet(S),
         \A x \in S : f[x] \in Nat /\ g[x] \in Nat /\ f[x] <= g[x]
  PROVE  SumOn(f, S) <= SumOn(g, S)
<1> DEFINE B == {T \in SUBSET S : ~(SumOn(f, T) <= SumOn(g, T))}
<1> SUFFICES ASSUME B # {} PROVE FALSE
  OBVIOUS
<1>1. B \in SUBSET SUBSET S
  OBVIOUS
<1>2. PICK T \in B : \A U \in SUBSET T : U # T => U \notin B
  <2> HIDE DEF B
  <2> QED BY <1>1, SmallestSet
<1>3. IsFiniteSet(T) /\ T \subseteq S
  BY FS_Subset
<1>4. CASE T = {}
  <2>1. SumOn(f, T) = 0 /\ SumOn(g, T) = 0
    BY <1>3, <1>4, SumRecursion
  <2> QED BY <2>1
<1>5. CASE T # {}
  <2> DEFINE c == Some(T)
             U == T \ {c}
  <2>1. c \in T /\ SumOn(f, T) = f[c] + SumOn(f, U) /\ SumOn(g, T) = g[c] + SumOn(g, U)
    BY <1>3, <1>5, SumRecursion
  <2>2. SumOn(f, U) <= SumOn(g, U)
    BY <1>2, <2>1
  <2>3. IsFiniteSet(U) /\ \A x \in U : f[x] \in Nat /\ g[x] \in Nat
    BY <1>3, FS_Subset
  <2>4. f[c] \in Nat /\ g[c] \in Nat /\ f[c] <= g[c]
    BY <1>3, <2>1
  <2> HIDE DEF U, c
  <2>5. SumOn(f, U) \in Nat /\ SumOn(g, U) \in Nat
    BY <2>3, SumNat
  <2>6. SumOn(f, T) <= SumOn(g, T)
    BY <2>1, <2>2, <2>4, <2>5
  <2> QED BY <2>6
<1> QED BY <1>4, <1>5

LEMMA SumSame ==
  ASSUME NEW f, NEW g, NEW S, IsFiniteSet(S), \A x \in S : f[x] \in Nat /\ f[x] = g[x]
  PROVE  SumOn(f, S) = SumOn(g, S)
<1>1. SumOn(f, S) <= SumOn(g, S) /\ SumOn(g, S) <= SumOn(f, S)
  BY SumLess
<1>2. SumOn(f, S) \in Nat /\ SumOn(g, S) \in Nat
  BY SumNat
<1> QED BY <1>1, <1>2

(* One term changes.                                                       *)
LEMMA SumChange ==
  ASSUME NEW f, NEW g, NEW S, IsFiniteSet(S), \A x \in S : f[x] \in Nat /\ g[x] \in Nat,
         NEW x \in S, \A y \in S \ {x} : f[y] = g[y]
  PROVE  SumOn(g, S) + f[x] = SumOn(f, S) + g[x]
<1> DEFINE U == S \ {x}
<1>1. SumOn(f, S) = f[x] + SumOn(f, U) /\ SumOn(g, S) = g[x] + SumOn(g, U)
  BY SumSplit
<1>2. IsFiniteSet(U) /\ \A y \in U : f[y] \in Nat /\ g[y] \in Nat /\ f[y] = g[y]
  BY FS_Subset
<1> HIDE DEF U
<1>3. SumOn(f, U) = SumOn(g, U) /\ SumOn(f, U) \in Nat
  BY <1>2, SumSame, SumNat
<1> QED BY <1>1, <1>3

(* A smaller set has a smaller sum.                                        *)
LEMMA SumWithin ==
  ASSUME NEW f, NEW S, IsFiniteSet(S), \A x \in S : f[x] \in Nat, NEW R \in SUBSET S
  PROVE  SumOn(f, R) <= SumOn(f, S)
<1> DEFINE B == {T \in SUBSET S : R \subseteq T /\ ~(SumOn(f, R) <= SumOn(f, T))}
<1> SUFFICES ASSUME B # {} PROVE FALSE
  OBVIOUS
<1>1. B \in SUBSET SUBSET S
  OBVIOUS
<1>2. PICK T \in B : \A U \in SUBSET T : U # T => U \notin B
  <2> HIDE DEF B
  <2> QED BY <1>1, SmallestSet
<1>3. IsFiniteSet(T) /\ T \subseteq S /\ IsFiniteSet(R)
  BY FS_Subset
<1>4. SumOn(f, R) \in Nat
  BY <1>3, SumNat
<1>5. PICK x \in T : x \notin R
  BY <1>4
<1> DEFINE U == T \ {x}
<1>6. SumOn(f, T) = f[x] + SumOn(f, U) /\ f[x] \in Nat
  BY <1>3, SumSplit
<1>7. SumOn(f, R) <= SumOn(f, U)
  BY <1>2, <1>5
<1>8. IsFiniteSet(U) /\ \A y \in U : f[y] \in Nat
  BY <1>3, FS_Subset
<1> HIDE DEF U
<1>9. SumOn(f, U) \in Nat
  BY <1>8, SumNat
<1>10. SumOn(f, R) <= SumOn(f, T)
  BY <1>4, <1>6, <1>7, <1>9
<1> QED BY <1>10

(* Terms that are zero do not count.                                       *)
LEMMA SumZeros ==
  ASSUME NEW f, NEW S, IsFiniteSet(S), \A x \in S : f[x] = 0
  PROVE  SumOn(f, S) = 0
<1> DEFINE B == {T \in SUBSET S : SumOn(f, T) # 0}
<1> SUFFICES ASSUME B # {} PROVE FALSE
  OBVIOUS
<1>1. B \in SUBSET SUBSET S
  OBVIOUS
<1>2. PICK T \in B : \A U \in SUBSET T : U # T => U \notin B
  <2> HIDE DEF B
  <2> QED BY <1>1, SmallestSet
<1>3. IsFiniteSet(T)
  BY FS_Subset
<1>4. T # {} /\ Some(T) \in T /\ SumOn(f, T) = f[Some(T)] + SumOn(f, T \ {Some(T)})
  BY <1>3, SumRecursion
<1>5. SumOn(f, T \ {Some(T)}) = 0 /\ f[Some(T)] = 0
  BY <1>2, <1>4
<1> QED BY <1>4, <1>5

LEMMA SumSupport ==
  ASSUME NEW f, NEW S, IsFiniteSet(S), \A x \in S : f[x] \in Nat,
         NEW R \in SUBSET S, \A x \in S \ R : f[x] = 0
  PROVE  SumOn(f, S) = SumOn(f, R)
<1> DEFINE B == {T \in SUBSET S : R \subseteq T /\ SumOn(f, T) # SumOn(f, R)}
<1> SUFFICES ASSUME B # {} PROVE FALSE
  OBVIOUS
<1>1. B \in SUBSET SUBSET S
  OBVIOUS
<1>2. PICK T \in B : \A U \in SUBSET T : U # T => U \notin B
  <2> HIDE DEF B
  <2> QED BY <1>1, SmallestSet
<1>3. IsFiniteSet(T) /\ T \subseteq S
  BY FS_Subset
<1>4. PICK x \in T : x \notin R
  OBVIOUS
<1> DEFINE U == T \ {x}
<1>5. SumOn(f, T) = f[x] + SumOn(f, U) /\ f[x] = 0
  BY <1>3, <1>4, SumSplit
<1>6. SumOn(f, U) = SumOn(f, R)
  BY <1>2, <1>4
<1>7. IsFiniteSet(U) /\ \A y \in U : f[y] \in Nat
  BY <1>3, FS_Subset
<1> HIDE DEF U
<1>8. SumOn(f, U) \in Nat
  BY <1>7, SumNat
<1>9. SumOn(f, T) = SumOn(f, R)
  BY <1>5, <1>6, <1>8
<1> QED BY <1>9

(* The sums of the parts are the sum of the whole.                         *)
LEMMA SumOfParts ==
  ASSUME NEW f, NEW S, IsFiniteSet(S), \A x \in S : f[x] \in Nat,
         NEW I, IsFiniteSet(I), NEW k \in [S -> I]
  PROVE  SumOn([i \in I |-> SumOn(f, {x \in S : k[x] = i})], I) = SumOn(f, S)
<1> DEFINE parts(T) == [i \in I |-> SumOn(f, {x \in T : k[x] = i})]
           B == {T \in SUBSET S : SumOn(parts(T), I) # SumOn(f, T)}
<1> SUFFICES ASSUME B # {} PROVE FALSE
  OBVIOUS
<1>1. B \in SUBSET SUBSET S
  OBVIOUS
<1>2. PICK T \in B : \A U \in SUBSET T : U # T => U \notin B
  <2> HIDE DEF B
  <2> QED BY <1>1, SmallestSet
<1>3. IsFiniteSet(T) /\ T \subseteq S
  BY FS_Subset
<1>4. ASSUME NEW U \in SUBSET S, NEW i \in I PROVE parts(U)[i] \in Nat
  <2> DEFINE P == {x \in U : k[x] = i}
  <2>1. P \in SUBSET S /\ IsFiniteSet(P)
    BY FS_Subset
  <2> HIDE DEF P
  <2>2. SumOn(f, P) \in Nat
    BY <2>1, SumNat
  <2> QED BY <2>2 DEF P
<1>5. CASE T = {}
  <2>1. \A i \in I : parts(T)[i] = 0
    <3> SUFFICES ASSUME NEW i \in I PROVE SumOn(f, {x \in T : k[x] = i}) = 0
      OBVIOUS
    <3>1. {x \in T : k[x] = i} = {}
      BY <1>5
    <3> QED BY <3>1, SumRecursion, FS_EmptySet
  <2> HIDE DEF parts
  <2>2. SumOn(parts(T), I) = 0
    BY <2>1, SumZeros
  <2>3. SumOn(f, T) = 0
    BY <1>3, <1>5, SumRecursion
  <2> QED BY <2>2, <2>3
<1>6. CASE T # {}
  <2> DEFINE c == Some(T)
             U == T \ {c}
  <2>1. c \in T /\ SumOn(f, T) = f[c] + SumOn(f, U)
    BY <1>3, <1>6, SumRecursion
  <2>2. SumOn(parts(U), I) = SumOn(f, U)
    BY <1>2, <2>1
  <2>3. k[c] \in I /\ f[c] \in Nat
    BY <1>3, <2>1
  <2>4. ASSUME NEW i \in I \ {k[c]} PROVE parts(U)[i] = parts(T)[i]
    <3>1. {x \in U : k[x] = i} = {x \in T : k[x] = i}
      OBVIOUS
    <3> QED BY <3>1
  <2>5. parts(T)[k[c]] = f[c] + parts(U)[k[c]]
    <3> DEFINE P == {x \in T : k[x] = k[c]}
    <3>1. {x \in U : k[x] = k[c]} = P \ {c} /\ c \in P
      BY <2>1
    <3>2. IsFiniteSet(P) /\ \A x \in P : f[x] \in Nat
      BY <1>3, FS_Subset
    <3>3. parts(T)[k[c]] = SumOn(f, P) /\ parts(U)[k[c]] = SumOn(f, P \ {c})
      BY <2>3, <3>1
    <3> HIDE DEF P, parts, U
    <3>4. SumOn(f, P) = f[c] + SumOn(f, P \ {c})
      BY <3>1, <3>2, SumSplit
    <3> QED BY <3>3, <3>4
  <2>6. \A i \in I : parts(U)[i] \in Nat /\ parts(T)[i] \in Nat
    BY <1>3, <1>4
  <2>7. U \in SUBSET S /\ IsFiniteSet(U)
    BY <1>3, FS_Subset
  <2> HIDE DEF parts, U
  <2>8. SumOn(parts(T), I) + parts(U)[k[c]] = SumOn(parts(U), I) + parts(T)[k[c]]
    BY <2>3, <2>4, <2>6, SumChange
  <2>9. SumOn(parts(T), I) \in Nat /\ SumOn(f, U) \in Nat
    BY <2>6, <2>7, SumNat
  <2>10. SumOn(parts(T), I) = SumOn(f, T)
    BY <2>1, <2>2, <2>3, <2>5, <2>6, <2>8, <2>9
  <2> QED BY <2>10
<1> QED BY <1>5, <1>6

-----------------------------------------------------------------------------
(* The ledger: what the account says, and what is on disk.                 *)

\* The bytes of some files, and their sum; each file has a place in it, present or not.
Weigh(ids) == [id \in SegmentId |-> IF id \in ids THEN file[id].bytes ELSE 0]
Total(ids) == SumOn(Weigh(ids), SegmentId)

OfInputs(ids, K) == {id \in ids : file[id].input \in K}

\* The files of the inputs K that the account knows of, and those the quotas are about.
Charged(K) == OfInputs(Present(Life) \ (leaked \cap Present({"open"})), K)
Guarded(K) == OfInputs(Present(Life) \ leaked, K)

\* What the writers of the inputs K have on disk under their reservations, and what they reserved.
OfWriter(w, K) == IF writer[w] = None THEN FALSE ELSE writer[w].input \in K
HeldBy(w) == IF InPhase(w, "writing") THEN file[writer[w].id].bytes
             ELSE IF InPhase(w, "published") THEN writer[w].bytes ELSE 0
Holding(K) == [w \in Worker |-> IF OfWriter(w, K) THEN HeldBy(w) ELSE 0]
Reserving(K) == [w \in Worker |-> IF OfWriter(w, K) THEN SegmentLimit ELSE 0]
Held(K) == SumOn(Holding(K), Worker)
Reserved(K) == SumOn(Reserving(K), Worker)

RemovedOf(K) == IF removed = None THEN 0 ELSE IF removed.input \in K THEN removed.bytes ELSE 0

\* A writer's open file is its own, has room for the footer, and is on nobody's list of leftovers.
Owned ==
  /\ \A w \in Worker : InPhase(w, "writing") =>
       /\ writer[w].id \in Present({"open"}) \ leaked
       /\ file[writer[w].id].input = writer[w].input
       /\ file[writer[w].id].bytes < SegmentLimit
  /\ \A v, w \in Worker : InPhase(v, "writing") /\ InPhase(w, "writing") /\ v # w =>
       writer[v].id # writer[w].id
  /\ leaked \subseteq Present({"open", "quarantine"})

\* Nothing is under way in a spool that is not open.
Closed == ~running => writer = NoWriters /\ removed = None /\ account = EmptyAccount

\* The account of an input: stored bytes and what its writers hold are what is on disk, with what
\* was removed and not recorded; of all inputs, they are at least that.
StoredMatch ==
  /\ running => \A i \in InputKey :
       account.storedBy[i] + Held({i}) = Total(Charged({i})) + drift[i] + RemovedOf({i})
  /\ running => account.stored + Held(InputKey) >= Total(Charged(InputKey)) + RemovedOf(InputKey)
  /\ account.stored = SumOn(account.storedBy, InputKey)

ReservedMatch ==
  /\ \A i \in InputKey : /\ account.reservedBy[i] = Reserved({i})
                         /\ account.reservedBy[i] = SegmentLimit * Cardinality(WritersOf(i))
  /\ account.reserved = Reserved(InputKey)
  /\ account.reserved = SumOn(account.reservedBy, InputKey)

\* What the quotas leave room for: the files, and the reservations not yet filled.
RoomLeft ==
  /\ \A i \in InputKey : Total(Guarded({i})) + Reserved({i}) <= InputLimit + Held({i})
  /\ Total(Guarded(InputKey)) + Reserved(InputKey) <= GlobalLimit + Held(InputKey)

\* The inductive invariant.
SpoolInv == TypeOK /\ Owned /\ Closed /\ StoredMatch /\ ReservedMatch /\ RoomLeft

-----------------------------------------------------------------------------
(* How the sums change.                                                    *)

USE LimitAssumption, FiniteAssumption, SpoolNoneAssumption

\* The terms and the sums are numbers; a writer holds no more than it reserved.
Numbered(K) ==
  /\ \A id \in SegmentId : Weigh(Charged(K))[id] \in Nat /\ Weigh(Guarded(K))[id] \in Nat
  /\ \A w \in Worker : /\ HeldBy(w) \in Nat /\ HeldBy(w) <= SegmentLimit
                       /\ Holding(K)[w] \in Nat /\ Reserving(K)[w] \in Nat
                       /\ Holding(K)[w] <= Reserving(K)[w]
  /\ Total(Charged(K)) \in Nat /\ Total(Guarded(K)) \in Nat
  /\ Held(K) \in Nat /\ Reserved(K) \in Nat
  /\ Held(K) <= Reserved(K) /\ Total(Guarded(K)) <= Total(Charged(K))

(* So they are before a step, and after it.                                *)
LEMMA Numbers == \A K : TypeOK => Numbered(K)
<1> SUFFICES ASSUME NEW K, TypeOK PROVE Numbered(K)
  OBVIOUS
<1>1. \A id \in Present(Life) : file[id] \in File /\ file[id].bytes \in Nat
  BY DEF TypeOK, Present, File
<1>3. Charged(K) \subseteq Present(Life) /\ Guarded(K) \subseteq Charged(K)
  BY DEF Charged, Guarded, OfInputs
<1>4. \A id \in SegmentId : /\ Weigh(Charged(K))[id] \in Nat /\ Weigh(Guarded(K))[id] \in Nat
                            /\ Weigh(Guarded(K))[id] <= Weigh(Charged(K))[id]
  BY <1>1, <1>3 DEF Weigh
<1>5. ASSUME NEW w \in Worker PROVE HeldBy(w) \in Nat /\ HeldBy(w) <= SegmentLimit
  <2>1. writer[w] \in Writer \cup {None}
    BY DEF TypeOK
  <2>2. CASE InPhase(w, "writing")
    <3>1. writer[w].id \in Present({"open"})
      BY <2>2 DEF TypeOK
    <3>2. file[writer[w].id] \in File
      BY <3>1 DEF TypeOK, Present
    <3> QED BY <2>2, <3>2 DEF HeldBy, File
  <2>3. CASE ~InPhase(w, "writing")
    BY <2>1, <2>3 DEF HeldBy, InPhase, Writer
  <2> QED BY <2>2, <2>3
<1>6. \A w \in Worker : /\ Holding(K)[w] \in Nat /\ Reserving(K)[w] \in Nat
                        /\ Holding(K)[w] <= Reserving(K)[w]
  BY <1>5 DEF Holding, Reserving
<1>7. Total(Charged(K)) \in Nat /\ Total(Guarded(K)) \in Nat /\ Total(Guarded(K)) <= Total(Charged(K))
  BY <1>4, SumNat, SumLess DEF Total
<1>8. Held(K) \in Nat /\ Reserved(K) \in Nat /\ Held(K) <= Reserved(K)
  BY <1>6, SumNat, SumLess DEF Held, Reserved
<1> QED BY <1>4, <1>5, <1>6, <1>7, <1>8 DEF Numbered

LEMMA NumbersAfter == (\A K : TypeOK => Numbered(K))'
BY Numbers, PTL

(* The sum over some files is that over all identities, with zeros.        *)
LEMMA BytesAreTotal ==
  ASSUME TypeOK, NEW ids \in SUBSET Present(Life)
  PROVE  BytesOf(ids) = Total(ids)
<1> DEFINE g == [id \in ids |-> file[id].bytes]
<1>1. ids \in SUBSET SegmentId /\ IsFiniteSet(ids)
  BY FS_Subset DEF Present
<1>2. \A id \in ids : g[id] \in Nat /\ g[id] = Weigh(ids)[id]
  BY <1>1 DEF Weigh, TypeOK, Present, File
<1>3. /\ \A id \in SegmentId : Weigh(ids)[id] \in Nat
      /\ \A id \in SegmentId \ ids : Weigh(ids)[id] = 0
  BY <1>1, <1>2 DEF Weigh
<1>4. BytesOf(ids) = SumOn(g, ids)
  BY DEF BytesOf, SumFunction, SumOn
<1> HIDE DEF g
<1>5. SumOn(g, ids) = SumOn(Weigh(ids), ids)
  BY <1>1, <1>2, SumSame
<1>6. SumOn(Weigh(ids), SegmentId) = SumOn(Weigh(ids), ids)
  BY <1>1, <1>3, SumSupport
<1> QED BY <1>4, <1>5, <1>6 DEF Total

(* One file changes.                                                       *)
LEMMA FileStep ==
  ASSUME TypeOK, TypeOK', NEW K, NEW id \in SegmentId,
         \A j \in SegmentId \ {id} : file'[j] = file[j] /\ (j \in leaked' <=> j \in leaked)
  PROVE  /\ Total(Charged(K))' + Weigh(Charged(K))[id] = Total(Charged(K)) + Weigh(Charged(K))'[id]
         /\ Total(Guarded(K))' + Weigh(Guarded(K))[id] = Total(Guarded(K)) + Weigh(Guarded(K))'[id]
<1>1. \A j \in SegmentId : /\ Weigh(Charged(K))[j] \in Nat /\ Weigh(Guarded(K))[j] \in Nat
  BY Numbers DEF Numbered
<1>2. \A j \in SegmentId : /\ Weigh(Charged(K))'[j] \in Nat /\ Weigh(Guarded(K))'[j] \in Nat
  BY NumbersAfter DEF Numbered
<1>3. \A j \in SegmentId \ {id} : /\ Weigh(Charged(K))'[j] = Weigh(Charged(K))[j]
                                  /\ Weigh(Guarded(K))'[j] = Weigh(Guarded(K))[j]
  BY DEF Weigh, Charged, Guarded, OfInputs, Present
<1> QED BY <1>1, <1>2, <1>3, SumChange DEF Total

(* No file changes.                                                        *)
LEMMA FilesKept ==
  ASSUME UNCHANGED <<file, leaked>>, NEW K
  PROVE  Total(Charged(K))' = Total(Charged(K)) /\ Total(Guarded(K))' = Total(Guarded(K))
BY DEF Total, Weigh, Charged, Guarded, OfInputs, Present

(* One writer changes.                                                     *)
LEMMA WriterStep ==
  ASSUME TypeOK, TypeOK', NEW K, NEW w \in Worker,
         \A v \in Worker \ {w} : writer'[v] = writer[v] /\ HeldBy(v)' = HeldBy(v)
  PROVE  /\ Held(K)' + Holding(K)[w] = Held(K) + Holding(K)'[w]
         /\ Reserved(K)' + Reserving(K)[w] = Reserved(K) + Reserving(K)'[w]
<1>1. \A v \in Worker : Holding(K)[v] \in Nat /\ Reserving(K)[v] \in Nat
  BY Numbers DEF Numbered
<1>2. \A v \in Worker : Holding(K)'[v] \in Nat /\ Reserving(K)'[v] \in Nat
  BY NumbersAfter DEF Numbered
<1>3. \A v \in Worker \ {w} : /\ Holding(K)'[v] = Holding(K)[v]
                              /\ Reserving(K)'[v] = Reserving(K)[v]
  BY DEF Holding, Reserving, OfWriter
<1> QED BY <1>1, <1>2, <1>3, SumChange DEF Held, Reserved

LEMMA WritersKept ==
  ASSUME UNCHANGED writer, \A v \in Worker : HeldBy(v)' = HeldBy(v), NEW K
  PROVE  Held(K)' = Held(K) /\ Reserved(K)' = Reserved(K)
<1>1. Holding(K)' = Holding(K) /\ Reserving(K)' = Reserving(K)
  BY DEF Holding, Reserving, OfWriter
<1> QED BY <1>1 DEF Held, Reserved

(* The spool is open while something is under way.                         *)
LEMMA UnderWay ==
  ASSUME SpoolInv
  PROVE  /\ \A w \in Worker : writer[w] # None => running
         /\ removed # None => running
BY DEF SpoolInv, Closed, NoWriters

-----------------------------------------------------------------------------
(* The invariant at the start, and what follows from it.                   *)

LEMMA NoWriterSums ==
  ASSUME writer = NoWriters, NEW K
  PROVE  Held(K) = 0 /\ Reserved(K) = 0
<1>1. \A w \in Worker : Holding(K)[w] = 0 /\ Reserving(K)[w] = 0
  BY DEF Holding, Reserving, OfWriter, NoWriters
<1> QED BY <1>1, SumZeros DEF Held, Reserved

LEMMA NoWriterCount ==
  ASSUME writer = NoWriters, NEW i \in InputKey
  PROVE  SegmentLimit * Cardinality(WritersOf(i)) = 0
<1>1. WritersOf(i) = {}
  BY DEF WritersOf, NoWriters
<1> QED BY <1>1, FS_EmptySet

LEMMA SpoolInit == Init => SpoolInv
<1> SUFFICES ASSUME Init PROVE SpoolInv
  OBVIOUS
<1>1. TypeOK
  <2>1. NoBytes \in [InputKey -> Nat] /\ NoWriters \in [Worker -> Writer \cup {None}]
    BY DEF NoBytes, NoWriters
  <2>2. EmptyAccount \in [stored: Nat, reserved: Nat, storedBy: [InputKey -> Nat],
                          reservedBy: [InputKey -> Nat]]
    BY <2>1 DEF EmptyAccount
  <2>3. running \in BOOLEAN
    BY DEF Init
  <2>4. failures \in 0 .. MaxFailures
    BY DEF Init
  <2>5. \A w \in Worker : ~InPhase(w, "writing")
    BY DEF Init, InPhase, NoWriters
  <2> QED BY <2>1, <2>2, <2>3, <2>4, <2>5 DEF Init, TypeOK
<1>2. Owned
  BY DEF Init, Owned, NoWriters, InPhase
<1>3. Closed
  BY DEF Init, Closed
<1>4. SumOn(NoBytes, InputKey) = 0
  BY SumZeros DEF NoBytes
<1>5. StoredMatch
  BY <1>4 DEF Init, StoredMatch, EmptyAccount
<1>6. ReservedMatch
  BY <1>4, NoWriterSums, NoWriterCount DEF Init, ReservedMatch, EmptyAccount, NoBytes
<1>7. ASSUME NEW K PROVE Total(Guarded(K)) = 0
  <2>1. \A id \in SegmentId : Weigh(Guarded(K))[id] = 0
    BY DEF Init, Weigh, Guarded, OfInputs, Present
  <2> QED BY <2>1, SumZeros DEF Total
<1>8. RoomLeft
  BY <1>7, NoWriterSums DEF Init, RoomLeft
<1> QED BY <1>1, <1>2, <1>3, <1>5, <1>6, <1>8 DEF SpoolInv

LEMMA SpoolInvSuffices == SpoolInv => AccountingHolds
<1> SUFFICES ASSUME SpoolInv PROVE AccountingHolds
  OBVIOUS
<1>1. TypeOK /\ StoredMatch /\ ReservedMatch /\ RoomLeft
  BY DEF SpoolInv
<1>2. account \in [stored: Nat, reserved: Nat, storedBy: [InputKey -> Nat], reservedBy: [InputKey -> Nat]]
  BY <1>1 DEF TypeOK
<1>3. \A f \in [InputKey -> Nat] : SumFunction(f) = SumOn(f, InputKey)
  BY DEF SumFunction, SumOn
<1>4. \A K : Numbered(K)
  BY <1>1, Numbers
<1>5. ASSUME NEW i \in InputKey
      PROVE  /\ BytesOf(Counted(i)) = Total(Guarded({i}))
             /\ BytesOf(Of(i, Present(Life) \ (leaked \cap Present({"open"})))) = Total(Charged({i}))
  <2>1. Counted(i) = Guarded({i}) /\ Guarded({i}) \in SUBSET Present(Life)
    BY DEF Counted, Guarded, Of, OfInputs
  <2>2. /\ Of(i, Present(Life) \ (leaked \cap Present({"open"}))) = Charged({i})
        /\ Charged({i}) \in SUBSET Present(Life)
    BY DEF Charged, Of, OfInputs
  <2> QED BY <1>1, <2>1, <2>2, BytesAreTotal
<1>6. BytesOf(Present(Life) \ leaked) = Total(Guarded(InputKey))
  <2>1. Present(Life) \ leaked = Guarded(InputKey)
    BY <1>1 DEF Guarded, OfInputs, Present, TypeOK, File
  <2>2. Present(Life) \ leaked \in SUBSET Present(Life)
    OBVIOUS
  <2> QED BY <1>1, <2>1, <2>2, BytesAreTotal
<1>7. ReservationsMatchWriters
  BY <1>1, <1>2, <1>3 DEF ReservationsMatchWriters, ReservedMatch
<1>8. AccountCovers
  <2> SUFFICES ASSUME running, NEW i \in InputKey
               PROVE  account.storedBy[i] + account.reservedBy[i] >= BytesOf(Counted(i))
    BY DEF AccountCovers
  <2>1. /\ account.storedBy[i] + Held({i}) = Total(Charged({i})) + drift[i] + RemovedOf({i})
        /\ account.reservedBy[i] = Reserved({i})
    BY <1>1 DEF StoredMatch, ReservedMatch
  <2>2. /\ account.storedBy[i] \in Nat /\ drift[i] \in Nat /\ RemovedOf({i}) \in Nat
    BY <1>1, <1>2 DEF TypeOK, RemovedOf, File
  <2>3. /\ Total(Charged({i})) \in Nat /\ Total(Guarded({i})) \in Nat
        /\ Held({i}) \in Nat /\ Reserved({i}) \in Nat
        /\ Held({i}) <= Reserved({i}) /\ Total(Guarded({i})) <= Total(Charged({i}))
    BY <1>4 DEF Numbered
  <2> QED BY <1>5, <2>1, <2>2, <2>3
<1>9. AccountExact
  <2> SUFFICES ASSUME running, writer = NoWriters, removed = None
               PROVE  /\ \A i \in InputKey :
                           account.storedBy[i] =
                             BytesOf(Of(i, Present(Life) \ (leaked \cap Present({"open"})))) + drift[i]
                      /\ account.stored = SumFunction(account.storedBy)
    BY DEF AccountExact
  <2>1. account.stored = SumFunction(account.storedBy)
    BY <1>1, <1>2, <1>3 DEF StoredMatch
  <2>2. ASSUME NEW i \in InputKey
        PROVE  account.storedBy[i] = Total(Charged({i})) + drift[i]
    <3>1. account.storedBy[i] + Held({i}) = Total(Charged({i})) + drift[i] + RemovedOf({i})
      BY <1>1 DEF StoredMatch
    <3>2. Held({i}) = 0 /\ RemovedOf({i}) = 0
      BY NoWriterSums DEF RemovedOf
    <3>3. account.storedBy[i] \in Nat /\ drift[i] \in Nat /\ Total(Charged({i})) \in Nat
      BY <1>1, <1>2, <1>4 DEF TypeOK, Numbered
    <3> QED BY <3>1, <3>2, <3>3
  <2> QED BY <1>5, <2>1, <2>2
<1>10. QuotaHolds
  <2>1. ASSUME NEW K, NEW limit \in Nat, Total(Guarded(K)) + Reserved(K) <= limit + Held(K)
        PROVE  Total(Guarded(K)) <= limit
    <3>1. /\ Total(Guarded(K)) \in Nat /\ Held(K) \in Nat /\ Reserved(K) \in Nat
          /\ Held(K) <= Reserved(K)
      BY <1>4 DEF Numbered
    <3> QED BY <2>1, <3>1
  <2>2. \A i \in InputKey : Total(Guarded({i})) <= InputLimit
    BY <1>1, <2>1 DEF RoomLeft
  <2>3. Total(Guarded(InputKey)) <= GlobalLimit
    BY <1>1, <2>1 DEF RoomLeft
  <2> QED BY <1>5, <1>6, <2>2, <2>3 DEF QuotaHolds
<1> QED BY <1>1, <1>7, <1>8, <1>9, <1>10 DEF AccountingHolds

-----------------------------------------------------------------------------
(* Steps that leave a part of the ledger alone.                            *)

(* Files and open reservations do not grow beyond what is held already.    *)
LEMMA RoomStep ==
  ASSUME SpoolInv, TypeOK',
         \A K : Total(Guarded(K))' + Reserved(K)' + Held(K) <= Total(Guarded(K)) + Reserved(K) + Held(K)'
  PROVE  RoomLeft'
<1>1. ASSUME NEW K, NEW limit \in Nat, Total(Guarded(K)) + Reserved(K) <= limit + Held(K)
      PROVE  Total(Guarded(K))' + Reserved(K)' <= limit + Held(K)'
  <2>1. Total(Guarded(K)) \in Nat /\ Held(K) \in Nat /\ Reserved(K) \in Nat
    BY Numbers DEF SpoolInv, Numbered
  <2>2. Total(Guarded(K))' \in Nat /\ Held(K)' \in Nat /\ Reserved(K)' \in Nat
    BY NumbersAfter DEF Numbered
  <2>3. Total(Guarded(K))' + Reserved(K)' + Held(K) <= Total(Guarded(K)) + Reserved(K) + Held(K)'
    OBVIOUS
  <2> QED BY <1>1, <2>1, <2>2, <2>3
<1>2. \A i \in InputKey : Total(Guarded({i}))' + Reserved({i})' <= InputLimit + Held({i})'
  BY <1>1 DEF SpoolInv, RoomLeft
<1>3. Total(Guarded(InputKey))' + Reserved(InputKey)' <= GlobalLimit + Held(InputKey)'
  BY <1>1 DEF SpoolInv, RoomLeft
<1> QED BY <1>2, <1>3 DEF RoomLeft

(* What is on disk changes as what the writers hold.                       *)
LEMMA StoredStep ==
  ASSUME SpoolInv, TypeOK', running, UNCHANGED <<removed, drift>>,
         account'.stored = account.stored, account'.storedBy = account.storedBy,
         \A K : Total(Charged(K))' + Held(K) = Total(Charged(K)) + Held(K)'
  PROVE  StoredMatch'
<1>1. ASSUME NEW K
      PROVE  /\ Total(Charged(K)) \in Nat /\ Held(K) \in Nat /\ RemovedOf(K) \in Nat
             /\ Total(Charged(K))' \in Nat /\ Held(K)' \in Nat /\ RemovedOf(K)' = RemovedOf(K)
  <2>1. Total(Charged(K)) \in Nat /\ Held(K) \in Nat
    BY Numbers DEF SpoolInv, Numbered
  <2>2. Total(Charged(K))' \in Nat /\ Held(K)' \in Nat
    BY NumbersAfter DEF Numbered
  <2>3. RemovedOf(K) \in Nat
    BY DEF SpoolInv, TypeOK, RemovedOf, File
  <2>4. RemovedOf(K)' = RemovedOf(K)
    BY DEF RemovedOf
  <2> QED BY <2>1, <2>2, <2>3, <2>4
<1>2. ASSUME NEW i \in InputKey
      PROVE  account'.storedBy[i] + Held({i})' = Total(Charged({i}))' + drift'[i] + RemovedOf({i})'
  <2>1. account.storedBy[i] + Held({i}) = Total(Charged({i})) + drift[i] + RemovedOf({i})
    BY DEF SpoolInv, StoredMatch
  <2>2. account.storedBy[i] \in Nat /\ drift[i] \in Nat
    BY DEF SpoolInv, TypeOK
  <2>3. Total(Charged({i}))' + Held({i}) = Total(Charged({i})) + Held({i})'
    OBVIOUS
  <2>4. /\ Total(Charged({i})) \in Nat /\ Held({i}) \in Nat /\ RemovedOf({i}) \in Nat
        /\ Total(Charged({i}))' \in Nat /\ Held({i})' \in Nat /\ RemovedOf({i})' = RemovedOf({i})
        /\ account'.storedBy[i] = account.storedBy[i] /\ drift'[i] = drift[i]
    BY <1>1
  <2> QED BY <2>1, <2>2, <2>3, <2>4
<1>3. account'.stored + Held(InputKey)' >= Total(Charged(InputKey))' + RemovedOf(InputKey)'
  <2>1. account.stored + Held(InputKey) >= Total(Charged(InputKey)) + RemovedOf(InputKey)
    BY DEF SpoolInv, StoredMatch
  <2>2. account.stored \in Nat
    BY DEF SpoolInv, TypeOK
  <2>3. Total(Charged(InputKey))' + Held(InputKey) = Total(Charged(InputKey)) + Held(InputKey)'
    OBVIOUS
  <2> QED BY <1>1, <2>1, <2>2, <2>3
<1>4. account'.stored = SumOn(account'.storedBy, InputKey)
  BY DEF SpoolInv, StoredMatch
<1> QED BY <1>2, <1>3, <1>4 DEF StoredMatch

(* No writer comes or goes.                                                *)
LEMMA ReservedStep ==
  ASSUME SpoolInv, account'.reserved = account.reserved, account'.reservedBy = account.reservedBy,
         \A v \in Worker : \/ writer'[v] = writer[v]
                           \/ writer[v] # None /\ writer'[v] # None /\ writer'[v].input = writer[v].input
  PROVE  ReservedMatch' /\ \A K : Reserved(K)' = Reserved(K)
<1>1. ASSUME NEW K PROVE Reserved(K)' = Reserved(K)
  <2>1. \A v \in Worker : OfWriter(v, K)' <=> OfWriter(v, K)
    BY DEF OfWriter
  <2>2. Reserving(K)' = Reserving(K)
    BY <2>1 DEF Reserving
  <2> QED BY <2>2 DEF Reserved
<1>2. \A i \in InputKey : WritersOf(i)' = WritersOf(i)
  BY DEF WritersOf
<1> QED BY <1>1, <1>2 DEF SpoolInv, ReservedMatch

(* A writer and its file change together.                                  *)
LEMMA WriterProgress ==
  ASSUME SpoolInv, TypeOK', Owned', running, NEW w \in Worker, NEW id \in SegmentId,
         UNCHANGED <<running, account, removed, drift>>,
         writer[w] # None, writer'[w] # None, writer'[w].input = writer[w].input,
         \A v \in Worker \ {w} : writer'[v] = writer[v] /\ HeldBy(v)' = HeldBy(v),
         \A j \in SegmentId \ {id} : file'[j] = file[j] /\ (j \in leaked' <=> j \in leaked),
         \A K : /\ Weigh(Charged(K))[id] = Holding(K)[w]
                /\ Weigh(Guarded(K))[id] = Holding(K)[w]
                /\ Weigh(Charged(K))'[id] = Holding(K)'[w]
                /\ Weigh(Guarded(K))'[id] = Holding(K)'[w]
  PROVE  SpoolInv'
<1>1. TypeOK
  BY DEF SpoolInv
<1>2. ReservedMatch' /\ \A K : Reserved(K)' = Reserved(K)
  BY ReservedStep
<1>3. ASSUME NEW K
      PROVE  /\ Total(Charged(K))' + Held(K) = Total(Charged(K)) + Held(K)'
             /\ Total(Guarded(K))' + Reserved(K)' + Held(K) <= Total(Guarded(K)) + Reserved(K) + Held(K)'
  <2> DEFINE h == Holding(K)[w]
             k == Holding(K)'[w]
  <2>1. /\ Total(Charged(K))' + h = Total(Charged(K)) + k
        /\ Total(Guarded(K))' + h = Total(Guarded(K)) + k
    BY <1>1, FileStep
  <2>2. Held(K)' + h = Held(K) + k
    BY <1>1, WriterStep
  <2>3. /\ Total(Charged(K)) \in Nat /\ Total(Guarded(K)) \in Nat /\ Held(K) \in Nat /\ Reserved(K) \in Nat
        /\ h \in Nat
    BY <1>1, Numbers DEF Numbered
  <2>4. Total(Charged(K))' \in Nat /\ Total(Guarded(K))' \in Nat /\ Held(K)' \in Nat /\ k \in Nat
    BY NumbersAfter DEF Numbered
  <2> HIDE DEF h, k
  <2> QED BY <1>2, <2>1, <2>2, <2>3, <2>4
<1>4. RoomLeft'
  BY <1>3, RoomStep
<1>5. StoredMatch'
  BY <1>3, StoredStep
<1>6. Closed'
  BY DEF Closed
<1> QED BY <1>2, <1>4, <1>5, <1>6 DEF SpoolInv

-----------------------------------------------------------------------------
(* Writers.                                                                *)

(* A writer with an open file: the file weighs what the writer holds.      *)
LEMMA WritingFacts ==
  ASSUME SpoolInv, NEW w \in Worker, InPhase(w, "writing")
  PROVE  LET id == writer[w].id IN
         /\ running /\ writer[w] \in Writer /\ writer[w] # None /\ id \in SegmentId
         /\ file[id] \in File /\ file[id] # None /\ file[id].life = "open" /\ id \notin leaked
         /\ file[id].input = writer[w].input /\ file[id].bytes < SegmentLimit
         /\ \A v \in Worker \ {w} : InPhase(v, "writing") => writer[v].id # id
         /\ \A K : Weigh(Charged(K))[id] = Holding(K)[w] /\ Weigh(Guarded(K))[id] = Holding(K)[w]
<1> DEFINE id == writer[w].id
<1>1. writer[w] \in Writer /\ writer[w] # None
  BY DEF SpoolInv, TypeOK, InPhase
<1>2. id \in SegmentId /\ file[id] # None /\ file[id].life = "open" /\ id \notin leaked
      /\ file[id].input = writer[w].input /\ file[id].bytes < SegmentLimit
  BY DEF SpoolInv, Owned, Present
<1>3. file[id] \in File
  BY <1>2 DEF SpoolInv, TypeOK
<1>4. \A v \in Worker \ {w} : InPhase(v, "writing") => writer[v].id # id
  BY DEF SpoolInv, Owned
<1>5. running
  BY <1>1, UnderWay
<1>6. ASSUME NEW K PROVE Weigh(Charged(K))[id] = Holding(K)[w] /\ Weigh(Guarded(K))[id] = Holding(K)[w]
  <2>1. id \in Charged(K) <=> writer[w].input \in K
    BY <1>2 DEF Charged, OfInputs, Present, Life
  <2>2. id \in Guarded(K) <=> writer[w].input \in K
    BY <1>2 DEF Guarded, OfInputs, Present, Life
  <2>3. Holding(K)[w] = IF writer[w].input \in K THEN file[id].bytes ELSE 0
    BY <1>1 DEF Holding, OfWriter, HeldBy
  <2> QED BY <1>2, <2>1, <2>2, <2>3 DEF Weigh
<1> QED BY <1>1, <1>2, <1>3, <1>4, <1>5, <1>6

(* The other writers hold what they held.                                  *)
LEMMA OthersHold ==
  ASSUME NEW v \in Worker, writer'[v] = writer[v],
         InPhase(v, "writing") => file'[writer[v].id] = file[writer[v].id]
  PROVE  HeldBy(v)' = HeldBy(v)
BY DEF HeldBy, InPhase

(* A writer and its file change together: f is the file and r the writer   *)
(* after the step, and the writer holds what the file weighs.              *)
LEMMA FileAndWriter ==
  ASSUME SpoolInv, running, NEW w \in Worker, NEW id \in SegmentId,
         NEW f \in File \cup {None}, NEW r \in Writer,
         file' = [file EXCEPT ![id] = f], writer' = [writer EXCEPT ![w] = r],
         UNCHANGED <<running, account, removed, drift>>, failures' \in 0 .. MaxFailures,
         writer[w] # None, r.input = writer[w].input,
         \A v \in Worker \ {w} : InPhase(v, "writing") => writer[v].id # id,
         \A K : Weigh(Charged(K))[id] = Holding(K)[w] /\ Weigh(Guarded(K))[id] = Holding(K)[w],
         leaked \subseteq leaked', leaked' \subseteq leaked \cup {id},
         id \in leaked' => f # None /\ f.life = "open",
         f # None /\ id \notin leaked' => f.input = r.input,
         r.phase = "writing" =>
           r.id = id /\ id \notin leaked' /\ f # None /\ f.life = "open" /\ f.bytes < SegmentLimit,
         r.phase = "published" => id \notin leaked' /\ f # None /\ r.bytes = f.bytes,
         r.phase \in {"reserved", "released"} => f = None \/ id \in leaked'
  PROVE  SpoolInv'
<1>1. TypeOK /\ file \in [SegmentId -> File \cup {None}] /\ writer \in [Worker -> Writer \cup {None}]
  BY DEF SpoolInv, TypeOK
<1>2. file'[id] = f /\ \A j \in SegmentId \ {id} : file'[j] = file[j]
  BY <1>1
<1>3. writer'[w] = r /\ r # None /\ \A v \in Worker \ {w} : writer'[v] = writer[v]
  BY <1>1
<1>4. r.phase \in {"reserved", "writing", "published", "released"}
  BY DEF Writer
<1>5. InPhase(w, "writing")' <=> r.phase = "writing"
  BY <1>3 DEF InPhase
<1>6. Owned'
  <2>1. ASSUME NEW v \in Worker, InPhase(v, "writing")'
        PROVE  /\ writer'[v].id \in Present({"open"})' \ leaked'
               /\ file'[writer'[v].id].input = writer'[v].input
               /\ file'[writer'[v].id].bytes < SegmentLimit
    <3>1. CASE v = w
      BY <1>2, <1>3, <1>5, <2>1, <3>1 DEF Present
    <3>2. CASE v # w
      <4>1. InPhase(v, "writing") /\ writer'[v] = writer[v]
        BY <1>3, <2>1, <3>2 DEF InPhase
      <4>2. /\ writer[v].id \in Present({"open"}) \ leaked
            /\ file[writer[v].id].input = writer[v].input
            /\ file[writer[v].id].bytes < SegmentLimit
        BY <4>1 DEF SpoolInv, Owned
      <4>3. writer[v].id \in SegmentId \ {id}
        BY <3>2, <4>1, <4>2 DEF Present
      <4> QED BY <1>2, <4>1, <4>2, <4>3 DEF Present
    <3> QED BY <3>1, <3>2
  <2>2. ASSUME NEW u \in Worker, NEW v \in Worker, InPhase(u, "writing")', InPhase(v, "writing")', u # v
        PROVE  writer'[u].id # writer'[v].id
    <3>1. \A x \in Worker \ {w} : InPhase(x, "writing")' => InPhase(x, "writing")
      BY <1>3 DEF InPhase
    <3>2. CASE u # w /\ v # w
      BY <1>3, <2>2, <3>1, <3>2 DEF SpoolInv, Owned
    <3>3. CASE u = w
      BY <1>3, <1>5, <2>2, <3>1, <3>3
    <3>4. CASE v = w
      BY <1>3, <1>5, <2>2, <3>1, <3>4
    <3> QED BY <3>2, <3>3, <3>4
  <2>3. leaked' \subseteq Present({"open", "quarantine"})'
    <3> SUFFICES ASSUME NEW j \in leaked' PROVE j \in Present({"open", "quarantine"})'
      OBVIOUS
    <3>1. CASE j = id
      BY <1>2, <3>1 DEF Present
    <3>2. CASE j # id
      <4>1. j \in Present({"open", "quarantine"})
        BY <3>2 DEF SpoolInv, Owned
      <4> QED BY <1>2, <3>2, <4>1 DEF Present
    <3> QED BY <3>1, <3>2
  <2> QED BY <2>1, <2>2, <2>3 DEF Owned
<1>7. TypeOK'
  <2>1. file' \in [SegmentId -> File \cup {None}] /\ writer' \in [Worker -> Writer \cup {None}]
    BY <1>1
  <2>2. \A v \in Worker : InPhase(v, "writing")' => writer'[v].id \in Present({"open"})'
    BY <1>6 DEF Owned
  <2>3. leaked' \subseteq SegmentId
    BY <1>1 DEF TypeOK
  <2> QED BY <1>1, <2>1, <2>2, <2>3 DEF TypeOK
<1>8. \A v \in Worker \ {w} : writer'[v] = writer[v] /\ HeldBy(v)' = HeldBy(v)
  <2> SUFFICES ASSUME NEW v \in Worker \ {w} PROVE writer'[v] = writer[v] /\ HeldBy(v)' = HeldBy(v)
    OBVIOUS
  <2>1. InPhase(v, "writing") => writer[v].id \in SegmentId \ {id}
    BY DEF SpoolInv, Owned, Present
  <2> QED BY <1>2, <1>3, <2>1, OthersHold
<1>9. ASSUME NEW K
      PROVE  Weigh(Charged(K))'[id] = Holding(K)'[w] /\ Weigh(Guarded(K))'[id] = Holding(K)'[w]
  <2> DEFINE counts == f # None /\ id \notin leaked'
  <2>1. /\ id \in Charged(K)' <=> counts /\ r.input \in K
        /\ id \in Guarded(K)' <=> counts /\ r.input \in K
    <3>1. f # None => f.life \in Life
      BY DEF File
    <3> QED BY <1>2, <3>1 DEF Charged, Guarded, OfInputs, Present
  <2>2. HeldBy(w)' = IF counts THEN f.bytes ELSE 0
    BY <1>2, <1>3, <1>4 DEF HeldBy, InPhase
  <2>3. Holding(K)'[w] = IF r.input \in K THEN HeldBy(w)' ELSE 0
    BY <1>3 DEF Holding, OfWriter
  <2> QED BY <1>2, <2>1, <2>2, <2>3 DEF Weigh
<1>10. \A j \in SegmentId \ {id} : file'[j] = file[j] /\ (j \in leaked' <=> j \in leaked)
  BY <1>2
<1>11. writer'[w] # None /\ writer'[w].input = writer[w].input
  BY <1>3
<1> QED BY <1>6, <1>7, <1>8, <1>9, <1>10, <1>11, WriterProgress

\* A file as it is after a write, and perhaps a rename.
Written(x, life, n) == [x EXCEPT !.life = life, !.bytes = n]

(* It is a file of the same input.                                         *)
LEMMA WrittenFile ==
  ASSUME NEW x \in File, NEW life \in Life, NEW n \in 1 .. SegmentLimit
  PROVE  LET f == Written(x, life, n) IN
         f \in File /\ f # None /\ f.life = life /\ f.input = x.input /\ f.bytes = n
<1> DEFINE f == Written(x, life, n)
<1>1. f.life = life /\ f.input = x.input /\ f.bytes = n
  BY DEF File, Written
<1>2. f \in File
  BY DEF File, Written
<1>3. f # None
  BY <1>2
<1> QED BY <1>1, <1>2, <1>3

(* A writer that sealed its file.                                          *)
LEMMA Published ==
  ASSUME NEW x \in Writer, NEW n \in 0 .. SegmentLimit
  PROVE  LET r == [x EXCEPT !.phase = "published", !.bytes = n] IN
         r \in Writer /\ r.phase = "published" /\ r.input = x.input /\ r.bytes = n
BY DEF Writer

(* What append_event, the seal, and an aborting writer do is of that kind. *)
LEMMA WritingStep ==
  ASSUME SpoolInv, NEW w \in Worker,
         AppendEvent(w) \/ SealRename(w) \/ RemoveOpen(w) \/ RemoveFails(w)
  PROVE  SpoolInv'
<1> DEFINE id == writer[w].id
<1>1. InPhase(w, "writing")
  BY DEF AppendEvent, SealRename, RemoveOpen, RemoveFails
<1>2. /\ running /\ writer[w] \in Writer /\ writer[w] # None /\ id \in SegmentId
      /\ file[id] \in File /\ file[id] # None /\ file[id].life = "open" /\ id \notin leaked
      /\ file[id].input = writer[w].input /\ file[id].bytes < SegmentLimit
      /\ \A v \in Worker \ {w} : InPhase(v, "writing") => writer[v].id # id
      /\ \A K : Weigh(Charged(K))[id] = Holding(K)[w] /\ Weigh(Guarded(K))[id] = Holding(K)[w]
  BY <1>1, WritingFacts
<1>3. /\ file \in [SegmentId -> File \cup {None}] /\ writer \in [Worker -> Writer \cup {None}]
      /\ failures \in 0 .. MaxFailures
  BY DEF SpoolInv, TypeOK
<1>4. file[id].bytes \in 1 .. SegmentLimit
  BY <1>2 DEF File
<1>5. writer[w].phase = "writing"
  BY <1>1 DEF InPhase
<1> DEFINE grown(life) == Written(file[id], life, file[id].bytes + 1)
           released == [writer[w] EXCEPT !.phase = "released"]
<1>6. ASSUME NEW life \in Life
      PROVE  /\ grown(life) \in File /\ grown(life) # None /\ grown(life).life = life
             /\ grown(life).input = writer[w].input /\ grown(life).bytes = file[id].bytes + 1
  <2>1. file[id].bytes + 1 \in 1 .. SegmentLimit
    BY <1>2, <1>4
  <2> QED BY <1>2, <2>1, WrittenFile
<1>7. released \in Writer /\ released.phase = "released" /\ released.input = writer[w].input
  BY <1>2 DEF Writer
<1>8. CASE AppendEvent(w)
  <2> DEFINE f == grown("open")
  <2>1. /\ file' = [file EXCEPT ![id] = f] /\ file[id].bytes + 2 <= SegmentLimit
        /\ UNCHANGED <<running, account, writer, removed, leaked, drift, failures>>
    BY <1>2, <1>8 DEF AppendEvent, volatile, ghosts, File, Written
  <2>2. f \in File /\ f # None /\ f.life = "open" /\ f.input = writer[w].input /\ f.bytes < SegmentLimit
    <3>1. "open" \in Life
      BY DEF Life
    <3> HIDE DEF grown
    <3> QED BY <1>2, <1>4, <1>6, <2>1, <3>1
  <2>3. writer' = [writer EXCEPT ![w] = writer[w]]
    BY <1>3, <2>1
  <2>4. failures' \in 0 .. MaxFailures
    BY <1>3, <2>1
  <2> DEFINE r == writer[w]
  <2>5. r \in Writer /\ r.id = id /\ r.phase = "writing" /\ r.input = writer[w].input
    BY <1>2, <1>5
  <2>6. writer' = [writer EXCEPT ![w] = r] /\ f.input = r.input
    BY <2>2, <2>3
  <2>7. file' = [file EXCEPT ![id] = f] /\ UNCHANGED <<running, account, removed, drift>> /\ leaked' = leaked
    BY <2>1
  <2>8. r.phase \notin {"reserved", "released", "published"}
    BY <2>5
  <2> HIDE DEF f, id, r
  <2> QED BY <1>2, <2>2, <2>4, <2>5, <2>6, <2>7, <2>8, FileAndWriter
<1>9. CASE SealRename(w)
  <2> DEFINE f == grown("ready")
             r == [writer[w] EXCEPT !.phase = "published", !.bytes = file[id].bytes + 1]
  <2>1. /\ file' = [file EXCEPT ![id] = f] /\ writer' = [writer EXCEPT ![w] = r]
        /\ UNCHANGED <<running, account, removed, leaked, drift, failures>>
    BY <1>2, <1>3, <1>9 DEF SealRename, ghosts, Written
  <2>2. f \in File /\ f # None /\ f.input = writer[w].input /\ f.bytes = file[id].bytes + 1
    <3>1. "ready" \in Life
      BY DEF Life
    <3> HIDE DEF grown
    <3> QED BY <1>2, <1>6, <3>1
  <2>3. r \in Writer /\ r.phase = "published" /\ r.input = writer[w].input /\ r.bytes = file[id].bytes + 1
    <3>1. file[id].bytes + 1 \in 0 .. SegmentLimit
      BY <1>2, <1>4
    <3> QED BY <1>2, <3>1, Published
  <2>4. failures' \in 0 .. MaxFailures
    BY <1>3, <2>1
  <2> HIDE DEF f, r, id
  <2> QED BY <1>2, <2>1, <2>2, <2>3, <2>4, FileAndWriter
<1>10. CASE RemoveOpen(w)
  <2>1. /\ file' = [file EXCEPT ![id] = None] /\ writer' = [writer EXCEPT ![w] = released]
        /\ UNCHANGED <<running, account, removed, leaked, drift, failures>>
    BY <1>3, <1>10 DEF RemoveOpen, ghosts
  <2>2. failures' \in 0 .. MaxFailures
    BY <1>3, <2>1
  <2> HIDE DEF released, id
  <2> QED BY <1>2, <1>7, <2>1, <2>2, FileAndWriter
<1>11. CASE RemoveFails(w)
  <2>1. /\ file' = [file EXCEPT ![id] = file[id]] /\ writer' = [writer EXCEPT ![w] = released]
        /\ leaked' = leaked \cup {id}
        /\ UNCHANGED <<running, account, removed, drift>>
    BY <1>3, <1>11 DEF RemoveFails
  <2>2. failures' \in 0 .. MaxFailures
    BY <1>3, <1>11 DEF RemoveFails, Fail
  <2> HIDE DEF released, id
  <2> QED BY <1>2, <1>7, <2>1, <2>2, FileAndWriter
<1> QED BY <1>8, <1>9, <1>10, <1>11

(* A reservation without a file holds nothing; neither does one that is    *)
(* being given back.                                                       *)
LEMMA IdleFacts ==
  ASSUME SpoolInv, NEW w \in Worker, InPhase(w, "reserved") \/ InPhase(w, "released")
  PROVE  /\ running /\ writer[w] \in Writer /\ writer[w] # None
         /\ \A K : Holding(K)[w] = 0
<1>1. writer[w] \in Writer /\ writer[w] # None
  BY DEF SpoolInv, TypeOK, InPhase
<1>2. running
  BY <1>1, UnderWay
<1>3. HeldBy(w) = 0
  BY DEF HeldBy, InPhase
<1> QED BY <1>1, <1>2, <1>3 DEF Holding

LEMMA CreateOpenKeepsInv ==
  ASSUME SpoolInv, NEW w \in Worker, CreateOpen(w)
  PROVE  SpoolInv'
<1> DEFINE id == CHOOSE j \in SegmentId : file[j] = None
           f == [input |-> writer[w].input, life |-> "open", bytes |-> 1]
           r == [writer[w] EXCEPT !.phase = "writing", !.id = id]
<1>1. /\ running /\ writer[w] \in Writer /\ writer[w] # None
      /\ \A K : Holding(K)[w] = 0
  BY IdleFacts DEF CreateOpen
<1>2. /\ file \in [SegmentId -> File \cup {None}] /\ writer \in [Worker -> Writer \cup {None}]
      /\ failures \in 0 .. MaxFailures
  BY DEF SpoolInv, TypeOK
<1>3. id \in SegmentId /\ file[id] = None
  <2>1. PICK j \in SegmentId : j \notin Present(Life)
    BY DEF CreateOpen, Present
  <2>2. file[j] = None
    BY <1>2, <2>1 DEF Present, File
  <2> QED BY <2>1, <2>2
<1>4. id \notin leaked /\ \A v \in Worker \ {w} : InPhase(v, "writing") => writer[v].id # id
  BY <1>3 DEF SpoolInv, Owned, Present
<1>5. \A K : Weigh(Charged(K))[id] = Holding(K)[w] /\ Weigh(Guarded(K))[id] = Holding(K)[w]
  BY <1>1, <1>3 DEF Weigh, Charged, Guarded, OfInputs, Present
<1>6. f \in File /\ f.input = writer[w].input /\ f.life = "open" /\ f.bytes = 1
  BY <1>1 DEF File, Life, Writer
<1>7. r \in Writer /\ r.input = writer[w].input /\ r.phase = "writing" /\ r.id = id
  <2> HIDE DEF id
  <2> QED BY <1>1, <1>3 DEF Writer
<1>8. /\ file' = [file EXCEPT ![id] = f] /\ writer' = [writer EXCEPT ![w] = r]
      /\ UNCHANGED <<running, account, removed, leaked, drift, failures>>
  <2>1. /\ file' = [file EXCEPT ![id] = f]
        /\ writer' = [writer EXCEPT ![w].phase = "writing", ![w].id = id]
        /\ UNCHANGED <<running, account, removed, leaked, drift, failures>>
    BY DEF CreateOpen, ghosts
  <2> HIDE DEF id
  <2> QED BY <1>2, <2>1
<1> HIDE DEF id, f, r
<1>9. f # None /\ f.bytes < SegmentLimit
  BY <1>6
<1>10. /\ r.phase \notin {"reserved", "released", "published"}
       /\ f.input = r.input
  BY <1>6, <1>7
<1>11. failures' \in 0 .. MaxFailures /\ leaked' = leaked
  BY <1>2, <1>8
<1>12. SpoolInv /\ w \in Worker
  OBVIOUS
<1> QED BY ONLY <1>1, <1>3, <1>4, <1>5, <1>6, <1>7, <1>8, <1>9, <1>10, <1>11, <1>12, FileAndWriter

(* A writer changes and no file does.                                      *)
LEMMA WriterAlone ==
  ASSUME SpoolInv, NEW w \in Worker, NEW r \in Writer \cup {None},
         writer' = [writer EXCEPT ![w] = r], UNCHANGED <<file, leaked>>,
         r = None \/ r.phase # "writing"
  PROVE  /\ Owned'
         /\ \A v \in Worker : InPhase(v, "writing")' => writer'[v].id \in Present({"open"})'
         /\ writer' \in [Worker -> Writer \cup {None}] /\ writer'[w] = r
         /\ \A v \in Worker \ {w} : writer'[v] = writer[v] /\ HeldBy(v)' = HeldBy(v)
<1>1. writer \in [Worker -> Writer \cup {None}]
  BY DEF SpoolInv, TypeOK
<1>2. writer' \in [Worker -> Writer \cup {None}] /\ writer'[w] = r
      /\ \A v \in Worker \ {w} : writer'[v] = writer[v]
  BY <1>1
<1>3. \A v \in Worker : InPhase(v, "writing")' => v # w /\ InPhase(v, "writing")
  BY <1>2 DEF InPhase
<1>4. \A L : Present(L)' = Present(L)
  BY DEF Present
<1>5. Owned'
  BY <1>2, <1>3, <1>4 DEF SpoolInv, Owned
<1>6. \A v \in Worker : InPhase(v, "writing")' => writer'[v].id \in Present({"open"})'
  BY <1>5 DEF Owned
<1>7. \A v \in Worker \ {w} : HeldBy(v)' = HeldBy(v)
  BY <1>2, OthersHold
<1> QED BY <1>2, <1>5, <1>6, <1>7

LEMMA CreateFailsKeepsInv ==
  ASSUME SpoolInv, NEW w \in Worker, CreateFails(w)
  PROVE  SpoolInv'
<1> DEFINE r == [writer[w] EXCEPT !.phase = "released"]
<1>1. /\ running /\ writer[w] \in Writer /\ writer[w] # None
      /\ \A K : Holding(K)[w] = 0
  BY IdleFacts DEF CreateFails
<1>2. r \in Writer /\ r.input = writer[w].input /\ r.phase = "released"
  BY <1>1 DEF Writer
<1>3. /\ writer' = [writer EXCEPT ![w] = r] /\ UNCHANGED <<file, running, account, removed, leaked, drift>>
      /\ failures < MaxFailures /\ failures' = failures + 1
  BY DEF CreateFails, Fail, ghosts, SpoolInv, TypeOK
<1> HIDE DEF r
<1>4. /\ Owned' /\ writer' \in [Worker -> Writer \cup {None}] /\ writer'[w] = r
      /\ \A v \in Worker : InPhase(v, "writing")' => writer'[v].id \in Present({"open"})'
      /\ \A v \in Worker \ {w} : writer'[v] = writer[v] /\ HeldBy(v)' = HeldBy(v)
  BY <1>2, <1>3, WriterAlone
<1>5. TypeOK /\ TypeOK'
  <2>1. failures' \in 0 .. MaxFailures
    BY <1>3 DEF SpoolInv, TypeOK
  <2> QED BY <1>3, <1>4, <2>1 DEF SpoolInv, TypeOK
<1>6. r # None
  BY <1>2
<1>7. HeldBy(w)' = 0
  BY <1>2, <1>4, <1>6 DEF HeldBy, InPhase
<1>8. \A K : Holding(K)'[w] = 0
  BY <1>7 DEF Holding
<1>9. ReservedMatch' /\ \A K : Reserved(K)' = Reserved(K)
  BY <1>1, <1>2, <1>3, <1>4, <1>6, ReservedStep
<1>10. ASSUME NEW K
       PROVE  /\ Total(Charged(K))' + Held(K) = Total(Charged(K)) + Held(K)'
              /\ Total(Guarded(K))' + Reserved(K)' + Held(K) <= Total(Guarded(K)) + Reserved(K) + Held(K)'
  <2>1. Held(K)' + Holding(K)[w] = Held(K) + Holding(K)'[w]
    BY <1>4, <1>5, WriterStep
  <2>2. Total(Charged(K))' = Total(Charged(K)) /\ Total(Guarded(K))' = Total(Guarded(K))
    BY <1>3, FilesKept
  <2>3. Total(Charged(K)) \in Nat /\ Total(Guarded(K)) \in Nat /\ Held(K) \in Nat /\ Reserved(K) \in Nat
    BY <1>5, Numbers DEF Numbered
  <2>4. Held(K)' \in Nat
    BY <1>5, NumbersAfter DEF Numbered
  <2>5. Held(K)' = Held(K)
    BY <1>1, <1>8, <2>1, <2>3, <2>4
  <2> QED BY <1>9, <2>2, <2>3, <2>5
<1>11. RoomLeft'
  BY <1>5, <1>10, RoomStep
<1>12. StoredMatch'
  BY <1>1, <1>3, <1>5, <1>10, StoredStep
<1>13. Closed'
  BY <1>1, <1>3 DEF Closed
<1> QED BY <1>4, <1>5, <1>9, <1>11, <1>12, <1>13 DEF SpoolInv

(* A writer comes: its reservation is in every sum it belongs to.          *)
LEMMA ReserveKeepsInv ==
  ASSUME SpoolInv, NEW w \in Worker, NEW i \in InputKey, Reserve(w, i)
  PROVE  SpoolInv'
<1> DEFINE r == [phase |-> "reserved", input |-> i, id |-> None, bytes |-> 0]
           share(K) == IF i \in K THEN SegmentLimit ELSE 0
<1>1. r \in Writer /\ r.phase = "reserved" /\ r.input = i
  BY DEF Writer
<1>2. /\ writer' = [writer EXCEPT ![w] = r] /\ UNCHANGED <<file, running, removed, leaked, drift, failures>>
      /\ running /\ writer[w] = None /\ Fits(i) /\ account' = Charge(account, i)
  BY DEF Reserve, ghosts
<1> HIDE DEF r
<1>3. r # None
  BY <1>1
<1>4. /\ Owned' /\ writer' \in [Worker -> Writer \cup {None}] /\ writer'[w] = r
      /\ \A v \in Worker : InPhase(v, "writing")' => writer'[v].id \in Present({"open"})'
      /\ \A v \in Worker \ {w} : writer'[v] = writer[v] /\ HeldBy(v)' = HeldBy(v)
  BY <1>1, <1>2, WriterAlone
<1>5. /\ account.stored \in Nat /\ account.reserved \in Nat
      /\ account.storedBy \in [InputKey -> Nat] /\ account.reservedBy \in [InputKey -> Nat]
  BY DEF SpoolInv, TypeOK
<1>6. /\ account'.stored = account.stored /\ account'.storedBy = account.storedBy
      /\ account'.reserved = account.reserved + SegmentLimit
      /\ account'.reservedBy = [account.reservedBy EXCEPT ![i] = @ + SegmentLimit]
      /\ account' \in [stored: Nat, reserved: Nat, storedBy: [InputKey -> Nat], reservedBy: [InputKey -> Nat]]
  <2> DEFINE by == [account.reservedBy EXCEPT ![i] = @ + SegmentLimit]
             n == account.reserved + SegmentLimit
  <2>1. account' = [account EXCEPT !.reserved = n, !.reservedBy = by]
    BY <1>2 DEF Charge, SpoolInv, TypeOK
  <2>2. by \in [InputKey -> Nat] /\ n \in Nat
    BY <1>5
  <2>3. account \in [stored: Nat, reserved: Nat, storedBy: [InputKey -> Nat], reservedBy: [InputKey -> Nat]]
    BY DEF SpoolInv, TypeOK
  <2>4. by = [account.reservedBy EXCEPT ![i] = @ + SegmentLimit] /\ n = account.reserved + SegmentLimit
    OBVIOUS
  <2> HIDE DEF by, n
  <2>5. /\ account'.stored = account.stored /\ account'.storedBy = account.storedBy
        /\ account'.reserved = n /\ account'.reservedBy = by
    BY <2>1, <2>3
  <2>6. account' \in [stored: Nat, reserved: Nat, storedBy: [InputKey -> Nat], reservedBy: [InputKey -> Nat]]
    BY <2>1, <2>2, <2>3
  <2> QED BY <2>4, <2>5, <2>6
<1>7. TypeOK /\ TypeOK'
  BY <1>2, <1>4, <1>6 DEF SpoolInv, TypeOK
<1>8. ASSUME NEW K
      PROVE  /\ Held(K)' = Held(K) /\ Reserved(K)' = Reserved(K) + share(K)
             /\ Held(K) \in Nat /\ Reserved(K) \in Nat
             /\ Total(Charged(K)) \in Nat /\ Total(Guarded(K)) \in Nat
             /\ Total(Charged(K))' = Total(Charged(K)) /\ Total(Guarded(K))' = Total(Guarded(K))
             /\ Total(Guarded(K)) <= Total(Charged(K))
  <2>1. Holding(K)[w] = 0 /\ Reserving(K)[w] = 0
    BY <1>2 DEF Holding, Reserving, OfWriter
  <2>2. HeldBy(w)' = 0
    BY <1>1, <1>3, <1>4 DEF HeldBy, InPhase
  <2>3. Holding(K)'[w] = 0 /\ Reserving(K)'[w] = share(K)
    BY <1>1, <1>3, <1>4, <2>2 DEF Holding, Reserving, OfWriter
  <2>4. /\ Held(K)' + Holding(K)[w] = Held(K) + Holding(K)'[w]
        /\ Reserved(K)' + Reserving(K)[w] = Reserved(K) + Reserving(K)'[w]
    BY <1>4, <1>7, WriterStep
  <2>5. /\ Held(K) \in Nat /\ Reserved(K) \in Nat
        /\ Total(Charged(K)) \in Nat /\ Total(Guarded(K)) \in Nat
        /\ Total(Guarded(K)) <= Total(Charged(K))
    BY <1>7, Numbers DEF Numbered
  <2>6. Held(K)' \in Nat /\ Reserved(K)' \in Nat
    BY <1>7, NumbersAfter DEF Numbered
  <2>7. Total(Charged(K))' = Total(Charged(K)) /\ Total(Guarded(K))' = Total(Guarded(K))
    BY <1>2, FilesKept
  <2> QED BY <2>1, <2>3, <2>4, <2>5, <2>6, <2>7
<1>9. \A K : share(K) \in Nat
  OBVIOUS
<1> HIDE DEF share
<1>10. StoredMatch'
  <2>1. \A K : Total(Charged(K))' + Held(K) = Total(Charged(K)) + Held(K)'
    BY <1>8
  <2> QED BY <1>2, <1>6, <1>7, <2>1, StoredStep
<1>11. ReservedMatch'
  <2>1. ASSUME NEW j \in InputKey
        PROVE  account'.reservedBy[j] = Reserved({j})'
    <3>1. account.reservedBy[j] = Reserved({j}) /\ Reserved({j})' = Reserved({j}) + share({j})
      BY <1>8 DEF SpoolInv, ReservedMatch
    <3>2. account'.reservedBy[j] = account.reservedBy[j] + share({j})
      BY <1>5, <1>6 DEF share
    <3> QED BY <3>1, <3>2
  <2>2. ASSUME NEW j \in InputKey
        PROVE  account'.reservedBy[j] = SegmentLimit * Cardinality(WritersOf(j))'
    <3>1. account.reservedBy[j] = SegmentLimit * Cardinality(WritersOf(j))
      BY DEF SpoolInv, ReservedMatch
    <3>2. CASE j = i
      <4>1. WritersOf(i)' = WritersOf(i) \cup {w} /\ w \notin WritersOf(i)
        BY <1>1, <1>2, <1>3, <1>4 DEF WritersOf
      <4>2. IsFiniteSet(WritersOf(i))
        BY FS_Subset DEF WritersOf
      <4>3. Cardinality(WritersOf(i))' = Cardinality(WritersOf(i)) + 1 /\ Cardinality(WritersOf(i)) \in Nat
        BY <4>1, <4>2, FS_AddElement, FS_CardinalityType
      <4>4. account'.reservedBy[i] = account.reservedBy[i] + SegmentLimit
        BY <1>5, <1>6
      <4>5. \A c \in Nat : SegmentLimit * (c + 1) = SegmentLimit * c + SegmentLimit
        OBVIOUS
      <4> QED BY <3>1, <3>2, <4>3, <4>4, <4>5
    <3>3. CASE j # i
      <4>1. WritersOf(j)' = WritersOf(j)
        BY <1>1, <1>2, <1>3, <1>4, <3>3 DEF WritersOf
      <4>2. account'.reservedBy[j] = account.reservedBy[j]
        BY <1>5, <1>6, <3>3
      <4> QED BY <3>1, <4>1, <4>2
    <3> QED BY <3>2, <3>3
  <2>3. account'.reserved = Reserved(InputKey)'
    <3>1. share(InputKey) = SegmentLimit
      BY DEF share
    <3> QED BY <1>6, <1>8, <3>1 DEF SpoolInv, ReservedMatch
  <2>4. account'.reserved = SumOn(account'.reservedBy, InputKey)
    <3> DEFINE old == account.reservedBy
               new == account'.reservedBy
    <3>1. /\ \A j \in InputKey : old[j] \in Nat /\ new[j] \in Nat
          /\ \A j \in InputKey \ {i} : old[j] = new[j]
          /\ new[i] = old[i] + SegmentLimit
      BY <1>5, <1>6
    <3>2. SumOn(old, InputKey) = account.reserved
      BY DEF SpoolInv, ReservedMatch
    <3> HIDE DEF old, new
    <3>3. SumOn(new, InputKey) + old[i] = SumOn(old, InputKey) + new[i]
      BY <3>1, SumChange
    <3>4. SumOn(new, InputKey) \in Nat
      BY <3>1, SumNat
    <3>5. SumOn(new, InputKey) = account.reserved + SegmentLimit
      BY <1>5, <3>1, <3>2, <3>3, <3>4
    <3> QED BY <1>6, <3>5 DEF new
  <2> QED BY <2>1, <2>2, <2>3, <2>4 DEF ReservedMatch
<1>12. RoomLeft'
  <2>1. ASSUME NEW j \in InputKey PROVE Total(Guarded({j}))' + Reserved({j})' <= InputLimit + Held({j})'
    <3>1. CASE j = i
      <4>1. account.storedBy[i] + Held({i}) = Total(Charged({i})) + drift[i] + RemovedOf({i})
        BY <1>2 DEF SpoolInv, StoredMatch
      <4>2. account.storedBy[i] + account.reservedBy[i] + SegmentLimit <= InputLimit
        BY <1>2 DEF Fits
      <4>3. account.reservedBy[i] = Reserved({i})
        BY DEF SpoolInv, ReservedMatch
      <4>4. drift[i] \in Nat /\ RemovedOf({i}) \in Nat /\ account.storedBy[i] \in Nat
        BY <1>5 DEF SpoolInv, TypeOK, RemovedOf, File
      <4>5. share({i}) = SegmentLimit
        BY DEF share
      <4>6. Total(Guarded({i})) + Reserved({i}) + SegmentLimit <= InputLimit + Held({i})
        BY <1>8, <4>1, <4>2, <4>3, <4>4
      <4> QED BY <1>8, <3>1, <4>5, <4>6
    <3>2. CASE j # i
      <4>1. share({j}) = 0
        BY <3>2 DEF share
      <4>2. Reserved({j})' = Reserved({j})
        BY <1>8, <4>1
      <4> QED BY <1>8, <4>2 DEF SpoolInv, RoomLeft
    <3> QED BY <3>1, <3>2
  <2>2. Total(Guarded(InputKey))' + Reserved(InputKey)' <= GlobalLimit + Held(InputKey)'
    <3>1. account.stored + Held(InputKey) >= Total(Charged(InputKey)) + RemovedOf(InputKey)
      BY <1>2 DEF SpoolInv, StoredMatch
    <3>2. account.stored + account.reserved + SegmentLimit <= GlobalLimit
      BY <1>2 DEF Fits
    <3>3. account.reserved = Reserved(InputKey)
      BY DEF SpoolInv, ReservedMatch
    <3>4. RemovedOf(InputKey) \in Nat
      BY DEF SpoolInv, TypeOK, RemovedOf, File
    <3>5. share(InputKey) = SegmentLimit
      BY DEF share
    <3>6. Total(Guarded(InputKey)) + Reserved(InputKey) + SegmentLimit <= GlobalLimit + Held(InputKey)
      BY <1>5, <1>8, <3>1, <3>2, <3>3, <3>4
    <3> QED BY <1>8, <3>5, <3>6
  <2> QED BY <2>1, <2>2 DEF RoomLeft
<1>13. Closed'
  BY <1>2 DEF Closed
<1> QED BY <1>4, <1>7, <1>10, <1>11, <1>12, <1>13 DEF SpoolInv

(* A writer goes: what the sums lose, and that the account has it.         *)
LEMMA WriterGoes ==
  ASSUME SpoolInv, TypeOK', NEW w \in Worker, writer[w] # None,
         writer' = [writer EXCEPT ![w] = None], UNCHANGED <<file, leaked>>,
         NEW K, NEW s, s = IF writer[w].input \in K THEN SegmentLimit ELSE 0
  PROVE  /\ Reserved(K)' + s = Reserved(K) /\ Held(K)' + Holding(K)[w] = Held(K)
         /\ Held(K) \in Nat /\ Held(K)' \in Nat /\ Reserved(K) \in Nat /\ Reserved(K)' \in Nat
         /\ Total(Charged(K)) \in Nat /\ Total(Guarded(K)) \in Nat /\ Holding(K)[w] \in Nat
         /\ Total(Charged(K))' = Total(Charged(K)) /\ Total(Guarded(K))' = Total(Guarded(K))
<1>1. /\ Owned' /\ writer' \in [Worker -> Writer \cup {None}] /\ writer'[w] = None
      /\ \A v \in Worker \ {w} : writer'[v] = writer[v] /\ HeldBy(v)' = HeldBy(v)
  BY WriterAlone
<1>2. TypeOK
  BY DEF SpoolInv
<1>3. Holding(K)'[w] = 0 /\ Reserving(K)'[w] = 0 /\ Reserving(K)[w] = s
  BY <1>1 DEF Holding, Reserving, OfWriter
<1>4. /\ Held(K)' + Holding(K)[w] = Held(K) + Holding(K)'[w]
      /\ Reserved(K)' + Reserving(K)[w] = Reserved(K) + Reserving(K)'[w]
  BY <1>1, <1>2, WriterStep
<1>5. /\ Held(K) \in Nat /\ Reserved(K) \in Nat /\ Holding(K)[w] \in Nat
      /\ Total(Charged(K)) \in Nat /\ Total(Guarded(K)) \in Nat
  BY <1>2, Numbers DEF Numbered
<1>6. Held(K)' \in Nat /\ Reserved(K)' \in Nat
  BY NumbersAfter DEF Numbered
<1>7. Total(Charged(K))' = Total(Charged(K)) /\ Total(Guarded(K))' = Total(Guarded(K))
  BY FilesKept
<1> QED BY <1>3, <1>4, <1>5, <1>6, <1>7

(* Its reservation is in the account: release_reservation never saturates, *)
(* and publish_reservation never refuses.                                  *)
LEMMA ReservationIsHeld ==
  ASSUME SpoolInv, NEW w \in Worker, writer[w] # None
  PROVE  /\ writer[w] \in Writer /\ writer[w].input \in InputKey
         /\ account.reserved >= SegmentLimit /\ account.reservedBy[writer[w].input] >= SegmentLimit
<1>1. writer[w] \in Writer /\ writer[w].input \in InputKey
  BY DEF SpoolInv, TypeOK, Writer
<1>2. ASSUME NEW K, writer[w].input \in K PROVE Reserved(K) >= SegmentLimit
  <2>1. \A v \in Worker : Reserving(K)[v] \in Nat
    BY DEF Reserving
  <2>2. Reserving(K)[w] = SegmentLimit
    BY <1>2 DEF Reserving, OfWriter
  <2>3. SumOn(Reserving(K), Worker) = Reserving(K)[w] + SumOn(Reserving(K), Worker \ {w})
    BY <2>1, SumSplit
  <2>4. SumOn(Reserving(K), Worker \ {w}) \in Nat
    BY <2>1, FS_RemoveElement, SumNat
  <2> QED BY <2>2, <2>3, <2>4 DEF Reserved
<1> QED BY <1>1, <1>2 DEF SpoolInv, ReservedMatch

(* Giving the reservation back keeps the reservations those of the writers.*)
LEMMA ReservationReturned ==
  ASSUME SpoolInv, TypeOK', NEW w \in Worker, writer[w] # None,
         writer' = [writer EXCEPT ![w] = None], UNCHANGED <<file, leaked>>,
         account'.reserved = account.reserved - SegmentLimit,
         account'.reservedBy =
           [account.reservedBy EXCEPT ![writer[w].input] = @ - SegmentLimit]
  PROVE  ReservedMatch'
<1> DEFINE i == writer[w].input
           share(K) == IF i \in K THEN SegmentLimit ELSE 0
<1>1. /\ i \in InputKey /\ account.reserved >= SegmentLimit /\ account.reservedBy[i] >= SegmentLimit
  BY ReservationIsHeld
<1>2. account.reserved \in Nat /\ account.reservedBy \in [InputKey -> Nat]
  BY DEF SpoolInv, TypeOK
<1>3. \A K : /\ Reserved(K)' + share(K) = Reserved(K) /\ Reserved(K) \in Nat
             /\ Reserved(K)' \in Nat /\ share(K) \in Nat
  BY WriterGoes
<1>4. writer'[w] = None /\ \A v \in Worker \ {w} : writer'[v] = writer[v]
  BY DEF SpoolInv, TypeOK
<1>5. share(InputKey) = SegmentLimit /\ \A j \in InputKey : share({j}) = IF j = i THEN SegmentLimit ELSE 0
  BY <1>1
<1>6. account'.reservedBy = [account.reservedBy EXCEPT ![i] = @ - SegmentLimit]
  OBVIOUS
<1> HIDE DEF share
<1>7. ASSUME NEW j \in InputKey
      PROVE  account'.reservedBy[j] = Reserved({j})'
  <2>1. account.reservedBy[j] = Reserved({j}) /\ Reserved({j})' + share({j}) = Reserved({j})
    BY <1>3 DEF SpoolInv, ReservedMatch
  <2>2. account'.reservedBy[j] + share({j}) = account.reservedBy[j] /\ account'.reservedBy[j] \in Nat
    <3> HIDE DEF i
    <3> QED BY <1>1, <1>2, <1>5, <1>6
  <2> QED BY <1>3, <2>1, <2>2
<1>8. ASSUME NEW j \in InputKey
      PROVE  account'.reservedBy[j] = SegmentLimit * Cardinality(WritersOf(j))'
  <2>1. account.reservedBy[j] = SegmentLimit * Cardinality(WritersOf(j))
    BY DEF SpoolInv, ReservedMatch
  <2>2. CASE j = i
    <3>1. WritersOf(j)' = WritersOf(j) \ {w} /\ w \in WritersOf(j)
      BY <1>4, <2>2 DEF WritersOf
    <3>2. IsFiniteSet(WritersOf(j))
      BY FS_Subset DEF WritersOf
    <3>3. /\ Cardinality(WritersOf(j))' = Cardinality(WritersOf(j)) - 1
          /\ Cardinality(WritersOf(j)) \in Nat
      BY <3>1, <3>2, FS_RemoveElement, FS_CardinalityType
    <3>4. account'.reservedBy[j] = account.reservedBy[j] - SegmentLimit
      <4> HIDE DEF i
      <4> QED BY <1>1, <1>2, <1>6, <2>2
    <3>5. \A c \in Nat : SegmentLimit * (c - 1) = SegmentLimit * c - SegmentLimit
      OBVIOUS
    <3> QED BY <2>1, <3>3, <3>4, <3>5
  <2>3. CASE j # i
    <3>1. WritersOf(j)' = WritersOf(j)
      BY <1>4, <2>3 DEF WritersOf
    <3>2. account'.reservedBy[j] = account.reservedBy[j]
      <4> HIDE DEF i
      <4> QED BY <1>2, <1>6, <2>3
    <3> QED BY <2>1, <3>1, <3>2
  <2> QED BY <2>2, <2>3
<1>9. account'.reserved = Reserved(InputKey)'
  <2>1. account.reserved = Reserved(InputKey) /\ Reserved(InputKey)' + SegmentLimit = Reserved(InputKey)
    BY <1>3, <1>5 DEF SpoolInv, ReservedMatch
  <2> QED BY <1>3, <2>1
<1>10. account'.reserved = SumOn(account'.reservedBy, InputKey)
  <2> DEFINE old == account.reservedBy
             new == account'.reservedBy
  <2>1. /\ \A j \in InputKey : old[j] \in Nat /\ new[j] \in Nat
        /\ \A j \in InputKey \ {i} : old[j] = new[j]
        /\ new[i] = old[i] - SegmentLimit
    <3> HIDE DEF i
    <3> QED BY <1>1, <1>2, <1>6
  <2>2. SumOn(old, InputKey) = account.reserved
    BY DEF SpoolInv, ReservedMatch
  <2> HIDE DEF old, new, i
  <2>3. SumOn(new, InputKey) + old[i] = SumOn(old, InputKey) + new[i]
    BY <1>1, <2>1, SumChange
  <2>4. SumOn(new, InputKey) \in Nat
    BY <2>1, SumNat
  <2>5. SumOn(new, InputKey) = account.reserved - SegmentLimit
    BY <1>1, <1>2, <2>1, <2>2, <2>3, <2>4
  <2> QED BY <2>5 DEF new
<1> QED BY <1>7, <1>8, <1>9, <1>10 DEF ReservedMatch

(* The account after a reservation was given back.                         *)
LEMMA UnchargeFacts ==
  ASSUME SpoolInv, NEW i \in InputKey,
         account.reserved >= SegmentLimit, account.reservedBy[i] >= SegmentLimit
  PROVE  LET a == Uncharge(account, i) IN
         /\ a \in [stored: Nat, reserved: Nat, storedBy: [InputKey -> Nat], reservedBy: [InputKey -> Nat]]
         /\ a.stored = account.stored /\ a.storedBy = account.storedBy
         /\ a.reserved = account.reserved - SegmentLimit
         /\ a.reservedBy = [account.reservedBy EXCEPT ![i] = @ - SegmentLimit]
<1> DEFINE by == [account.reservedBy EXCEPT ![i] = @ - SegmentLimit]
           n == account.reserved - SegmentLimit
           a == Uncharge(account, i)
<1>1. account \in [stored: Nat, reserved: Nat, storedBy: [InputKey -> Nat], reservedBy: [InputKey -> Nat]]
  BY DEF SpoolInv, TypeOK
<1>2. account.reserved \in Nat /\ account.reservedBy \in [InputKey -> Nat]
  BY <1>1
<1>3. Less(account.reserved, SegmentLimit) = n /\ Less(account.reservedBy[i], SegmentLimit) = account.reservedBy[i] - SegmentLimit
  BY <1>2 DEF Less
<1>4. a = [account EXCEPT !.reserved = n, !.reservedBy = by]
  BY <1>1, <1>2, <1>3 DEF Uncharge
<1>5. by \in [InputKey -> Nat] /\ n \in Nat
  BY <1>2
<1> HIDE DEF by, n, a
<1>6. a.stored = account.stored /\ a.storedBy = account.storedBy /\ a.reserved = n /\ a.reservedBy = by
  BY <1>1, <1>4
<1>7. a \in [stored: Nat, reserved: Nat, storedBy: [InputKey -> Nat], reservedBy: [InputKey -> Nat]]
  BY <1>1, <1>4, <1>5
<1> QED BY <1>6, <1>7 DEF a, by, n

LEMMA ReleaseKeepsInv ==
  ASSUME SpoolInv, NEW w \in Worker, Release(w)
  PROVE  SpoolInv'
<1> DEFINE i == writer[w].input
<1>1. running /\ writer[w] # None /\ \A K : Holding(K)[w] = 0
  BY IdleFacts DEF Release
<1>2. /\ i \in InputKey /\ account.reserved >= SegmentLimit /\ account.reservedBy[i] >= SegmentLimit
  BY <1>1, ReservationIsHeld
<1>3. /\ writer' = [writer EXCEPT ![w] = None] /\ UNCHANGED <<file, running, removed, leaked, drift, failures>>
      /\ account' = Uncharge(account, i)
  BY DEF Release, ghosts
<1>4. /\ account' \in [stored: Nat, reserved: Nat, storedBy: [InputKey -> Nat], reservedBy: [InputKey -> Nat]]
      /\ account'.stored = account.stored /\ account'.storedBy = account.storedBy
      /\ account'.reserved = account.reserved - SegmentLimit
      /\ account'.reservedBy = [account.reservedBy EXCEPT ![i] = @ - SegmentLimit]
  <2> HIDE DEF i
  <2> QED BY <1>2, <1>3, UnchargeFacts
<1>5. /\ Owned' /\ writer' \in [Worker -> Writer \cup {None}]
      /\ \A v \in Worker : InPhase(v, "writing")' => writer'[v].id \in Present({"open"})'
  BY <1>3, WriterAlone
<1>6. TypeOK'
  BY <1>3, <1>4, <1>5 DEF SpoolInv, TypeOK
<1>7. ReservedMatch'
  BY <1>1, <1>3, <1>4, <1>6, ReservationReturned
<1>8. ASSUME NEW K
      PROVE  /\ Total(Charged(K))' + Held(K) = Total(Charged(K)) + Held(K)'
             /\ Total(Guarded(K))' + Reserved(K)' + Held(K) <= Total(Guarded(K)) + Reserved(K) + Held(K)'
  <2> DEFINE s == IF i \in K THEN SegmentLimit ELSE 0
  <2>1. s \in Nat
    OBVIOUS
  <2>2. /\ Reserved(K)' + s = Reserved(K) /\ Held(K)' + Holding(K)[w] = Held(K)
        /\ Held(K) \in Nat /\ Held(K)' \in Nat /\ Reserved(K) \in Nat /\ Reserved(K)' \in Nat
        /\ Total(Charged(K)) \in Nat /\ Total(Guarded(K)) \in Nat
        /\ Total(Charged(K))' = Total(Charged(K)) /\ Total(Guarded(K))' = Total(Guarded(K))
    BY <1>1, <1>3, <1>6, WriterGoes
  <2> HIDE DEF s
  <2> QED BY <1>1, <2>1, <2>2
<1>9. RoomLeft'
  BY <1>6, <1>8, RoomStep
<1>10. StoredMatch'
  BY <1>1, <1>3, <1>4, <1>6, <1>8, StoredStep
<1>11. Closed'
  BY <1>1, <1>3 DEF Closed
<1> QED BY <1>5, <1>6, <1>7, <1>9, <1>10, <1>11 DEF SpoolInv

(* The reservation becomes stored bytes: what the writer held is now the   *)
(* account's.                                                              *)
LEMMA PublishKeepsInv ==
  ASSUME SpoolInv, NEW w \in Worker, Publish(w)
  PROVE  SpoolInv'
<1> DEFINE i == writer[w].input
           b == writer[w].bytes
           a == Uncharge(account, i)
           by == [account.storedBy EXCEPT ![i] = @ + b]
<1>1. writer[w] # None /\ writer[w] \in Writer /\ b \in 0 .. SegmentLimit
  BY DEF Publish, InPhase, SpoolInv, TypeOK, Writer
<1>2. running
  BY <1>1, UnderWay
<1>3. /\ i \in InputKey /\ account.reserved >= SegmentLimit /\ account.reservedBy[i] >= SegmentLimit
  BY <1>1, ReservationIsHeld
<1>4. /\ writer' = [writer EXCEPT ![w] = None] /\ UNCHANGED <<file, running, removed, leaked, drift, failures>>
      /\ account' = [a EXCEPT !.stored = @ + b, !.storedBy[i] = @ + b]
  BY <1>3 DEF Publish, Publishable, Convert, ghosts
<1>5. /\ a \in [stored: Nat, reserved: Nat, storedBy: [InputKey -> Nat], reservedBy: [InputKey -> Nat]]
      /\ a.stored = account.stored /\ a.storedBy = account.storedBy
      /\ a.reserved = account.reserved - SegmentLimit
      /\ a.reservedBy = [account.reservedBy EXCEPT ![i] = @ - SegmentLimit]
  <2> HIDE DEF i
  <2> QED BY <1>3, UnchargeFacts
<1>6. \A K : Holding(K)[w] = IF i \in K THEN b ELSE 0
  BY <1>1 DEF Holding, OfWriter, HeldBy, InPhase, Publish
<1>7. account.stored \in Nat /\ account.storedBy \in [InputKey -> Nat]
  BY DEF SpoolInv, TypeOK
<1>8. /\ account' \in [stored: Nat, reserved: Nat, storedBy: [InputKey -> Nat], reservedBy: [InputKey -> Nat]]
      /\ account'.stored = account.stored + b /\ account'.storedBy = by
      /\ account'.reserved = a.reserved /\ account'.reservedBy = a.reservedBy
  <2> DEFINE n == account.stored + b
  <2> HIDE DEF a, i, b
  <2>1. account' = [a EXCEPT !.stored = n, !.storedBy = by]
    BY <1>4, <1>5
  <2>2. by \in [InputKey -> Nat] /\ n \in Nat
    BY <1>1, <1>3, <1>7
  <2>3. n = account.stored + b
    OBVIOUS
  <2> HIDE DEF n, by
  <2>4. account' \in [stored: Nat, reserved: Nat, storedBy: [InputKey -> Nat], reservedBy: [InputKey -> Nat]]
    BY <1>5, <2>1, <2>2
  <2>5. /\ account'.stored = n /\ account'.storedBy = by
        /\ account'.reserved = a.reserved /\ account'.reservedBy = a.reservedBy
    BY <1>5, <2>1
  <2> QED BY <2>3, <2>4, <2>5
<1>9. /\ Owned' /\ writer' \in [Worker -> Writer \cup {None}]
      /\ \A v \in Worker : InPhase(v, "writing")' => writer'[v].id \in Present({"open"})'
  BY <1>4, WriterAlone
<1>10. TypeOK'
  BY <1>4, <1>8, <1>9 DEF SpoolInv, TypeOK
<1>11. ReservedMatch'
  BY <1>1, <1>4, <1>5, <1>8, <1>10, ReservationReturned
<1> DEFINE share(K) == IF i \in K THEN SegmentLimit ELSE 0
           held(K) == IF i \in K THEN b ELSE 0
<1>12. ASSUME NEW K
       PROVE  /\ Reserved(K)' + share(K) = Reserved(K) /\ Held(K)' + held(K) = Held(K)
              /\ Held(K) \in Nat /\ Held(K)' \in Nat /\ Reserved(K) \in Nat /\ Reserved(K)' \in Nat
              /\ Total(Charged(K)) \in Nat /\ Total(Guarded(K)) \in Nat
              /\ Total(Charged(K))' = Total(Charged(K)) /\ Total(Guarded(K))' = Total(Guarded(K))
              /\ RemovedOf(K)' = RemovedOf(K) /\ RemovedOf(K) \in Nat
              /\ held(K) \in Nat /\ share(K) \in Nat /\ held(K) <= share(K)
  <2>1. /\ Reserved(K)' + share(K) = Reserved(K) /\ Held(K)' + Holding(K)[w] = Held(K)
        /\ Held(K) \in Nat /\ Held(K)' \in Nat /\ Reserved(K) \in Nat /\ Reserved(K)' \in Nat
        /\ Total(Charged(K)) \in Nat /\ Total(Guarded(K)) \in Nat
        /\ Total(Charged(K))' = Total(Charged(K)) /\ Total(Guarded(K))' = Total(Guarded(K))
    BY <1>1, <1>4, <1>10, WriterGoes
  <2>2. RemovedOf(K)' = RemovedOf(K) /\ RemovedOf(K) \in Nat
    BY <1>4 DEF SpoolInv, TypeOK, RemovedOf, File
  <2>3. held(K) \in Nat /\ share(K) \in Nat /\ held(K) <= share(K)
    BY <1>1
  <2>4. Holding(K)[w] = held(K)
    BY <1>6
  <2> HIDE DEF held, share
  <2> QED BY <2>1, <2>2, <2>3, <2>4
<1>13. RoomLeft'
  <2> HIDE DEF share, held
  <2>1. ASSUME NEW K
        PROVE  Total(Guarded(K))' + Reserved(K)' + Held(K) <= Total(Guarded(K)) + Reserved(K) + Held(K)'
    BY <1>12
  <2> QED BY <1>10, <2>1, RoomStep
<1>14. StoredMatch'
  <2>1. ASSUME NEW j \in InputKey
        PROVE  account'.storedBy[j] + Held({j})' = Total(Charged({j}))' + drift'[j] + RemovedOf({j})'
    <3>1. account'.storedBy[j] = account.storedBy[j] + held({j})
      <4> HIDE DEF b, i, a
      <4> QED BY <1>1, <1>3, <1>7, <1>8
    <3>2. account.storedBy[j] + Held({j}) = Total(Charged({j})) + drift[j] + RemovedOf({j})
      BY <1>2 DEF SpoolInv, StoredMatch
    <3>3. drift'[j] = drift[j] /\ drift[j] \in Nat /\ account.storedBy[j] \in Nat
      BY <1>4, <1>7 DEF SpoolInv, TypeOK
    <3> HIDE DEF held, share
    <3>4. /\ Held({j})' + held({j}) = Held({j})
          /\ Held({j}) \in Nat /\ Held({j})' \in Nat /\ held({j}) \in Nat /\ Total(Charged({j})) \in Nat
          /\ Total(Charged({j}))' = Total(Charged({j}))
          /\ RemovedOf({j})' = RemovedOf({j}) /\ RemovedOf({j}) \in Nat
      BY <1>12
    <3> QED BY <3>1, <3>2, <3>3, <3>4
  <2>2. account'.stored + Held(InputKey)' >= Total(Charged(InputKey))' + RemovedOf(InputKey)'
    <3>1. account'.stored = account.stored + held(InputKey)
      BY <1>3, <1>8
    <3>2. account.stored + Held(InputKey) >= Total(Charged(InputKey)) + RemovedOf(InputKey)
      BY <1>2 DEF SpoolInv, StoredMatch
    <3> HIDE DEF held, share
    <3> QED BY <1>7, <1>12, <3>1, <3>2
  <2>3. account'.stored = SumOn(account'.storedBy, InputKey)
    <3> DEFINE old == account.storedBy
    <3>1. /\ \A j \in InputKey : old[j] \in Nat /\ by[j] \in Nat
          /\ \A j \in InputKey \ {i} : old[j] = by[j]
          /\ by[i] = old[i] + b /\ b \in Nat /\ i \in InputKey
      <4>1. b \in Nat
        BY <1>1
      <4> HIDE DEF i, b
      <4> QED BY <1>3, <1>7, <4>1
    <3>2. SumOn(old, InputKey) = account.stored
      BY DEF SpoolInv, StoredMatch
    <3> HIDE DEF old, by, i, b
    <3>3. SumOn(by, InputKey) + old[i] = SumOn(old, InputKey) + by[i]
      BY <3>1, SumChange
    <3>4. SumOn(by, InputKey) \in Nat
      BY <3>1, SumNat
    <3> QED BY <1>7, <1>8, <3>1, <3>2, <3>3, <3>4
  <2> QED BY <2>1, <2>2, <2>3 DEF StoredMatch
<1>15. Closed'
  BY <1>2, <1>4 DEF Closed
<1> QED BY <1>9, <1>10, <1>11, <1>13, <1>14, <1>15 DEF SpoolInv

-----------------------------------------------------------------------------
(* The consumer.                                                           *)

(* A sealed file changes: it is no writer's, and no leftover.              *)
LEMMA SealedFileStep ==
  ASSUME SpoolInv, NEW id \in Present({"ready", "delivered"}), NEW f \in File \cup {None},
         file' = [file EXCEPT ![id] = f], UNCHANGED <<running, account, writer, leaked, drift, failures>>,
         removed' \in File \cup {None}
  PROVE  /\ TypeOK' /\ Owned' /\ ReservedMatch' /\ id \in SegmentId /\ id \notin leaked /\ file'[id] = f
         /\ \A j \in SegmentId \ {id} : file'[j] = file[j] /\ (j \in leaked' <=> j \in leaked)
         /\ \A K : Held(K)' = Held(K) /\ Reserved(K)' = Reserved(K)
<1>1. id \in SegmentId /\ file[id] # None /\ file[id].life \in {"ready", "delivered"}
  BY DEF Present
<1>2. file \in [SegmentId -> File \cup {None}]
  BY DEF SpoolInv, TypeOK
<1>3. file' \in [SegmentId -> File \cup {None}] /\ file'[id] = f /\ \A j \in SegmentId \ {id} : file'[j] = file[j]
  BY <1>1, <1>2
<1>4. \A L : L \subseteq {"open", "quarantine"} => Present(L) \subseteq Present(L)' /\ id \notin Present(L)
  BY <1>1, <1>3 DEF Present
<1>5. Present({"open"}) \subseteq Present({"open"})' /\ id \notin Present({"open"})
      /\ Present({"open", "quarantine"}) \subseteq Present({"open", "quarantine"})'
      /\ id \notin Present({"open", "quarantine"})
  BY <1>4
<1>6. id \notin leaked
  BY <1>5 DEF SpoolInv, Owned
<1>7. \A v \in Worker : InPhase(v, "writing")' <=> InPhase(v, "writing")
  BY DEF InPhase
<1>8. \A v \in Worker : InPhase(v, "writing") => writer[v].id \in SegmentId \ {id}
  BY <1>5 DEF SpoolInv, Owned, Present
<1>9. Owned'
  <2>1. \A v \in Worker : InPhase(v, "writing")' =>
          /\ writer'[v].id \in Present({"open"})' \ leaked'
          /\ file'[writer'[v].id].input = writer'[v].input
          /\ file'[writer'[v].id].bytes < SegmentLimit
    BY <1>3, <1>5, <1>7, <1>8 DEF SpoolInv, Owned
  <2>2. \A u, v \in Worker : InPhase(u, "writing")' /\ InPhase(v, "writing")' /\ u # v => writer'[u].id # writer'[v].id
    BY <1>7 DEF SpoolInv, Owned
  <2>3. leaked' \subseteq Present({"open", "quarantine"})'
    BY <1>5 DEF SpoolInv, Owned
  <2> QED BY <2>1, <2>2, <2>3 DEF Owned
<1>10. TypeOK'
  BY <1>3, <1>9 DEF SpoolInv, TypeOK, Owned
<1>11. \A v \in Worker : HeldBy(v)' = HeldBy(v)
  BY <1>3, <1>8, OthersHold
<1>12. \A K : Held(K)' = Held(K) /\ Reserved(K)' = Reserved(K)
  BY <1>11, WritersKept
<1>13. ReservedMatch'
  BY ReservedStep
<1> QED BY <1>1, <1>3, <1>6, <1>9, <1>10, <1>12, <1>13

LEMMA MarkDeliveredKeepsInv ==
  ASSUME SpoolInv, NEW id \in SegmentId, MarkDelivered(id)
  PROVE  SpoolInv'
<1> DEFINE f == [file[id] EXCEPT !.life = "delivered"]
<1>1. id \in Present({"ready", "delivered"}) /\ file[id] # None /\ file[id].life = "ready"
  BY DEF MarkDelivered, Present
<1>2. file[id] \in File
  BY <1>1 DEF SpoolInv, TypeOK
<1>3. f \in File /\ f.life = "delivered" /\ f.input = file[id].input /\ f.bytes = file[id].bytes
  BY <1>2 DEF File, Life
<1>4. /\ file' = [file EXCEPT ![id] = f] /\ running
      /\ UNCHANGED <<running, account, writer, removed, leaked, drift, failures>>
  BY DEF MarkDelivered, volatile, ghosts
<1> HIDE DEF f
<1>5. /\ TypeOK' /\ Owned' /\ ReservedMatch' /\ id \in SegmentId /\ id \notin leaked /\ file'[id] = f
      /\ \A j \in SegmentId \ {id} : file'[j] = file[j] /\ (j \in leaked' <=> j \in leaked)
      /\ \A K : Held(K)' = Held(K) /\ Reserved(K)' = Reserved(K)
  <2>1. removed' \in File \cup {None}
    BY <1>4 DEF SpoolInv, TypeOK
  <2> QED BY <1>1, <1>3, <1>4, <2>1, SealedFileStep
<1>6. f # None /\ "ready" \in Life /\ "delivered" \in Life
  BY <1>3 DEF Life
<1>7. ASSUME NEW K
      PROVE  /\ Total(Charged(K))' + Held(K) = Total(Charged(K)) + Held(K)'
             /\ Total(Guarded(K))' + Reserved(K)' + Held(K) <= Total(Guarded(K)) + Reserved(K) + Held(K)'
  <2>1. /\ Weigh(Charged(K))'[id] = Weigh(Charged(K))[id]
        /\ Weigh(Guarded(K))'[id] = Weigh(Guarded(K))[id]
    <3>1. id \in Charged(K)' <=> id \in Charged(K)
      BY <1>1, <1>3, <1>4, <1>5, <1>6 DEF Charged, OfInputs, Present
    <3>2. id \in Guarded(K)' <=> id \in Guarded(K)
      BY <1>1, <1>3, <1>4, <1>5, <1>6 DEF Guarded, OfInputs, Present
    <3> QED BY <1>3, <1>5, <3>1, <3>2 DEF Weigh
  <2>2. /\ Total(Charged(K))' + Weigh(Charged(K))[id] = Total(Charged(K)) + Weigh(Charged(K))'[id]
        /\ Total(Guarded(K))' + Weigh(Guarded(K))[id] = Total(Guarded(K)) + Weigh(Guarded(K))'[id]
    BY <1>5, FileStep DEF SpoolInv
  <2>3. /\ Total(Charged(K)) \in Nat /\ Total(Guarded(K)) \in Nat /\ Held(K) \in Nat /\ Reserved(K) \in Nat
        /\ Weigh(Charged(K))[id] \in Nat /\ Weigh(Guarded(K))[id] \in Nat
    BY Numbers DEF SpoolInv, Numbered
  <2>4. Total(Charged(K))' \in Nat /\ Total(Guarded(K))' \in Nat
    BY <1>5, NumbersAfter DEF Numbered
  <2> QED BY <1>5, <2>1, <2>2, <2>3, <2>4
<1>8. RoomLeft'
  BY <1>5, <1>7, RoomStep
<1>9. StoredMatch'
  BY <1>4, <1>5, <1>7, StoredStep
<1>10. Closed'
  BY <1>4 DEF Closed
<1> QED BY <1>5, <1>8, <1>9, <1>10 DEF SpoolInv

(* What a compaction takes from the disk it owes the account.              *)
LEMMA CompactRemoveKeepsInv ==
  ASSUME SpoolInv, NEW id \in SegmentId, CompactRemove(id)
  PROVE  SpoolInv'
<1>1. id \in Present({"ready", "delivered"}) /\ file[id] # None /\ file[id].life = "delivered"
  BY DEF CompactRemove, Present
<1>2. file[id] \in File
  BY <1>1 DEF SpoolInv, TypeOK
<1>3. /\ file' = [file EXCEPT ![id] = None] /\ running /\ removed = None /\ removed' = file[id]
      /\ UNCHANGED <<running, account, writer, leaked, drift, failures>>
  BY DEF CompactRemove, ghosts
<1>4. /\ TypeOK' /\ Owned' /\ ReservedMatch' /\ id \in SegmentId /\ id \notin leaked /\ file'[id] = None
      /\ \A j \in SegmentId \ {id} : file'[j] = file[j] /\ (j \in leaked' <=> j \in leaked)
      /\ \A K : Held(K)' = Held(K) /\ Reserved(K)' = Reserved(K)
  BY <1>1, <1>2, <1>3, SealedFileStep
<1>5. ASSUME NEW K
      PROVE  /\ Total(Charged(K))' + RemovedOf(K)' = Total(Charged(K)) /\ RemovedOf(K) = 0
             /\ Total(Guarded(K))' <= Total(Guarded(K))
             /\ Total(Charged(K)) \in Nat /\ Total(Charged(K))' \in Nat /\ RemovedOf(K)' \in Nat
             /\ Total(Guarded(K)) \in Nat /\ Total(Guarded(K))' \in Nat
             /\ Held(K) \in Nat /\ Reserved(K) \in Nat
  <2>1. Weigh(Charged(K))'[id] = 0 /\ Weigh(Guarded(K))'[id] = 0
    BY <1>4 DEF Weigh, Charged, Guarded, OfInputs, Present
  <2>2. RemovedOf(K) = 0 /\ RemovedOf(K)' = IF file[id].input \in K THEN file[id].bytes ELSE 0
    BY <1>1, <1>3 DEF RemovedOf
  <2>3. Weigh(Charged(K))[id] = RemovedOf(K)'
    <3>1. "delivered" \in Life
      BY DEF Life
    <3>2. id \in Charged(K) <=> file[id].input \in K
      BY <1>1, <1>4, <3>1 DEF Charged, OfInputs, Present
    <3> QED BY <2>2, <3>2 DEF Weigh
  <2>4. /\ Total(Charged(K))' + Weigh(Charged(K))[id] = Total(Charged(K)) + Weigh(Charged(K))'[id]
        /\ Total(Guarded(K))' + Weigh(Guarded(K))[id] = Total(Guarded(K)) + Weigh(Guarded(K))'[id]
    BY <1>4, FileStep DEF SpoolInv
  <2>5. /\ Total(Charged(K)) \in Nat /\ Total(Guarded(K)) \in Nat /\ Held(K) \in Nat /\ Reserved(K) \in Nat
        /\ Weigh(Charged(K))[id] \in Nat /\ Weigh(Guarded(K))[id] \in Nat
    BY Numbers DEF SpoolInv, Numbered
  <2>6. Total(Charged(K))' \in Nat /\ Total(Guarded(K))' \in Nat
    BY <1>4, NumbersAfter DEF Numbered
  <2> QED BY <2>1, <2>2, <2>3, <2>4, <2>5, <2>6
<1>6. RoomLeft'
  <2>1. ASSUME NEW K
        PROVE  Total(Guarded(K))' + Reserved(K)' + Held(K) <= Total(Guarded(K)) + Reserved(K) + Held(K)'
    BY <1>4, <1>5
  <2> QED BY <1>4, <2>1, RoomStep
<1>7. StoredMatch'
  <2>1. ASSUME NEW i \in InputKey
        PROVE  account'.storedBy[i] + Held({i})' = Total(Charged({i}))' + drift'[i] + RemovedOf({i})'
    <3>1. account.storedBy[i] + Held({i}) = Total(Charged({i})) + drift[i] + RemovedOf({i})
      BY <1>3 DEF SpoolInv, StoredMatch
    <3>2. account'.storedBy[i] = account.storedBy[i] /\ drift'[i] = drift[i] /\ drift[i] \in Nat
      BY <1>3 DEF SpoolInv, TypeOK
    <3> QED BY <1>4, <1>5, <3>1, <3>2
  <2>2. account'.stored + Held(InputKey)' >= Total(Charged(InputKey))' + RemovedOf(InputKey)'
    BY <1>3, <1>4, <1>5 DEF SpoolInv, StoredMatch
  <2>3. account'.stored = SumOn(account'.storedBy, InputKey)
    BY <1>3 DEF SpoolInv, StoredMatch
  <2> QED BY <2>1, <2>2, <2>3 DEF StoredMatch
<1>8. Closed'
  BY <1>3 DEF Closed
<1> QED BY <1>4, <1>6, <1>7, <1>8 DEF SpoolInv

(* The compaction ends: no file and no writer changes.                     *)
LEMMA CompactEnds ==
  ASSUME SpoolInv, running, UNCHANGED <<file, running, writer, leaked>>, removed # None, removed' = None,
         account' \in [stored: Nat, reserved: Nat, storedBy: [InputKey -> Nat], reservedBy: [InputKey -> Nat]],
         drift' \in [InputKey -> Nat], failures' \in 0 .. MaxFailures,
         account'.reserved = account.reserved, account'.reservedBy = account.reservedBy,
         \A i \in InputKey : account'.storedBy[i] + RemovedOf({i}) + drift[i] = account.storedBy[i] + drift'[i],
         account'.stored + RemovedOf(InputKey) >= account.stored,
         account'.stored = SumOn(account'.storedBy, InputKey)
  PROVE  SpoolInv'
<1>1. Owned' /\ TypeOK'
  <2>1. \A L : Present(L)' = Present(L)
    BY DEF Present
  <2>2. \A v \in Worker : InPhase(v, "writing")' <=> InPhase(v, "writing")
    BY DEF InPhase
  <2>3. Owned'
    BY <2>1, <2>2 DEF SpoolInv, Owned
  <2>4. TypeOK'
    BY <2>3 DEF SpoolInv, TypeOK, Owned
  <2> QED BY <2>3, <2>4
<1>2. \A v \in Worker : HeldBy(v)' = HeldBy(v)
  BY OthersHold
<1>3. ASSUME NEW K
      PROVE  /\ Total(Charged(K))' = Total(Charged(K)) /\ Total(Guarded(K))' = Total(Guarded(K))
             /\ Held(K)' = Held(K) /\ Reserved(K)' = Reserved(K)
             /\ Total(Charged(K)) \in Nat /\ Held(K) \in Nat
             /\ Total(Guarded(K)) \in Nat /\ Reserved(K) \in Nat
             /\ RemovedOf(K) \in Nat /\ RemovedOf(K)' = 0
  <2>1. Total(Charged(K))' = Total(Charged(K)) /\ Total(Guarded(K))' = Total(Guarded(K))
    BY FilesKept
  <2>2. Held(K)' = Held(K) /\ Reserved(K)' = Reserved(K)
    BY <1>2, WritersKept
  <2>3. Total(Charged(K)) \in Nat /\ Held(K) \in Nat /\ Total(Guarded(K)) \in Nat /\ Reserved(K) \in Nat
    BY Numbers DEF SpoolInv, Numbered
  <2>4. RemovedOf(K) \in Nat /\ RemovedOf(K)' = 0
    BY DEF SpoolInv, TypeOK, RemovedOf, File
  <2> QED BY <2>1, <2>2, <2>3, <2>4
<1>4. RoomLeft'
  BY <1>3 DEF SpoolInv, RoomLeft
<1>5. ReservedMatch'
  BY ReservedStep
<1>6. StoredMatch'
  <2>1. ASSUME NEW i \in InputKey
        PROVE  account'.storedBy[i] + Held({i})' = Total(Charged({i}))' + drift'[i] + RemovedOf({i})'
    <3>1. account.storedBy[i] + Held({i}) = Total(Charged({i})) + drift[i] + RemovedOf({i})
      BY DEF SpoolInv, StoredMatch
    <3>2. account'.storedBy[i] + RemovedOf({i}) + drift[i] = account.storedBy[i] + drift'[i]
      OBVIOUS
    <3>3. account.storedBy[i] \in Nat /\ account'.storedBy[i] \in Nat /\ drift[i] \in Nat /\ drift'[i] \in Nat
      BY DEF SpoolInv, TypeOK
    <3> QED BY <1>3, <3>1, <3>2, <3>3
  <2>2. account'.stored + Held(InputKey)' >= Total(Charged(InputKey))' + RemovedOf(InputKey)'
    <3>1. account.stored + Held(InputKey) >= Total(Charged(InputKey)) + RemovedOf(InputKey)
      BY DEF SpoolInv, StoredMatch
    <3>2. account.stored \in Nat /\ account'.stored \in Nat
      BY DEF SpoolInv, TypeOK
    <3> QED BY <1>3, <3>1, <3>2
  <2> QED BY <2>1, <2>2 DEF StoredMatch
<1>7. Closed'
  BY DEF Closed
<1> QED BY <1>1, <1>4, <1>5, <1>6, <1>7 DEF SpoolInv

(* It is recorded in the account, or becomes drift.                        *)
LEMMA CompactAccountKeepsInv ==
  ASSUME SpoolInv, CompactAccount \/ CompactUnsynced
  PROVE  SpoolInv'
<1> DEFINE i == removed.input
           b == removed.bytes
<1>1. removed # None /\ removed' = None /\ UNCHANGED <<file, running, writer, leaked>>
  BY DEF CompactAccount, CompactUnsynced
<1>2. removed \in File /\ i \in InputKey /\ b \in 1 .. SegmentLimit
  BY <1>1 DEF SpoolInv, TypeOK, File
<1>3. running
  BY <1>1, UnderWay
<1>4. \A K : RemovedOf(K) = IF i \in K THEN b ELSE 0
  BY <1>1 DEF RemovedOf
<1>5. /\ account \in [stored: Nat, reserved: Nat, storedBy: [InputKey -> Nat], reservedBy: [InputKey -> Nat]]
      /\ drift \in [InputKey -> Nat] /\ failures \in 0 .. MaxFailures
      /\ account.stored = SumOn(account.storedBy, InputKey)
  BY DEF SpoolInv, TypeOK, StoredMatch
<1>6. account.stored \in Nat /\ account.storedBy \in [InputKey -> Nat]
  BY <1>5
<1>7. failures' \in 0 .. MaxFailures
  BY <1>5 DEF CompactAccount, CompactUnsynced, Fail
<1>8. CASE account' = Discharge(account, i, b) /\ UNCHANGED drift /\ Removable(account, i, b)
  <2> DEFINE old == account.storedBy
             new == [old EXCEPT ![i] = @ - b]
             n == account.stored - b
  <2>1. account.stored >= b /\ old[i] >= b
    BY <1>8 DEF Removable
  <2>2. account' = [account EXCEPT !.stored = n, !.storedBy = new]
    <3>1. Less(old[i], b) = old[i] - b
      BY <1>2, <1>6, <2>1 DEF Less
    <3> QED BY <1>5, <1>8, <3>1 DEF Discharge
  <2>3. new \in [InputKey -> Nat] /\ n \in Nat /\ b \in Nat
    <3>1. b \in Nat
      BY <1>2
    <3> HIDE DEF i, b
    <3> QED BY <1>2, <1>6, <2>1, <3>1
  <2>4. /\ new[i] + b = old[i] /\ n + b = account.stored
        /\ \A j \in InputKey \ {i} : new[j] = old[j]
    <3> HIDE DEF i, b
    <3> QED BY <1>2, <1>6, <2>1, <2>3
  <2>5. i \in InputKey /\ old \in [InputKey -> Nat]
    BY <1>2, <1>6
  <2>6. SumOn(old, InputKey) = account.stored
    BY <1>5
  <2> HIDE DEF new, n, i, b
  <2>7. /\ account' \in [stored: Nat, reserved: Nat, storedBy: [InputKey -> Nat], reservedBy: [InputKey -> Nat]]
        /\ account'.stored = n /\ account'.storedBy = new
        /\ account'.reserved = account.reserved /\ account'.reservedBy = account.reservedBy
    BY <1>5, <2>2, <2>3
  <2>8. account'.stored = SumOn(account'.storedBy, InputKey)
    <3>1. \A j \in InputKey : old[j] \in Nat /\ new[j] \in Nat
      BY <2>3, <2>5
    <3> HIDE DEF old
    <3>2. SumOn(new, InputKey) + old[i] = SumOn(old, InputKey) + new[i]
      BY <2>4, <2>5, <3>1, SumChange
    <3>3. SumOn(new, InputKey) \in Nat
      BY <3>1, SumNat
    <3>4. SumOn(new, InputKey) = n
      BY <1>6, <2>3, <2>4, <2>5, <2>6, <3>1, <3>2, <3>3
    <3> QED BY <2>7, <3>4
  <2>9. \A j \in InputKey : account'.storedBy[j] + RemovedOf({j}) + drift[j] = account.storedBy[j] + drift'[j]
    <3> SUFFICES ASSUME NEW j \in InputKey
                 PROVE  new[j] + RemovedOf({j}) + drift[j] = old[j] + drift[j]
      BY <1>8, <2>7
    <3>1. RemovedOf({j}) = IF j = i THEN b ELSE 0
      BY <1>4
    <3>2. new[j] \in Nat /\ old[j] \in Nat /\ drift[j] \in Nat
      BY <1>5, <2>3, <2>5
    <3> HIDE DEF old
    <3> QED BY <2>3, <2>4, <3>1, <3>2
  <2>10. account'.stored + RemovedOf(InputKey) >= account.stored
    BY <1>4, <1>6, <2>4, <2>5, <2>7
  <2> QED BY <1>1, <1>3, <1>5, <1>7, <1>8, <2>7, <2>8, <2>9, <2>10, CompactEnds
<1>9. CASE UNCHANGED account /\ Drifts(i, b)
  <2>1. drift' = [drift EXCEPT ![i] = @ + b]
    BY <1>9 DEF Drifts
  <2>2. b \in Nat /\ i \in InputKey
    BY <1>2
  <2> HIDE DEF i, b
  <2>3. drift' \in [InputKey -> Nat] /\ \A j \in InputKey : drift'[j] = drift[j] + (IF j = i THEN b ELSE 0)
    BY <1>5, <2>1, <2>2
  <2>4. \A j \in InputKey : account'.storedBy[j] + RemovedOf({j}) + drift[j] = account.storedBy[j] + drift'[j]
    <3> SUFFICES ASSUME NEW j \in InputKey
                 PROVE  account.storedBy[j] + RemovedOf({j}) + drift[j] = account.storedBy[j] + drift'[j]
      BY <1>9
    <3>1. RemovedOf({j}) = IF j = i THEN b ELSE 0
      BY <1>4
    <3>2. account.storedBy[j] \in Nat /\ drift[j] \in Nat
      BY <1>5, <1>6
    <3> QED BY <2>2, <2>3, <3>1, <3>2
  <2>5. account'.stored + RemovedOf(InputKey) >= account.stored
    BY <1>4, <1>6, <1>9, <2>2
  <2>6. account' = account
    BY <1>9
  <2> QED BY <1>1, <1>3, <1>5, <1>7, <2>3, <2>4, <2>5, <2>6, CompactEnds
<1> QED BY <1>8, <1>9 DEF CompactAccount, CompactUnsynced

-----------------------------------------------------------------------------
(* Crashes and restarts.                                                   *)

LEMMA CrashKeepsInv ==
  ASSUME SpoolInv, Crash
  PROVE  SpoolInv'
<1>1. /\ running' = FALSE /\ account' = EmptyAccount /\ writer' = NoWriters /\ removed' = None
      /\ drift' = NoBytes /\ UNCHANGED <<file, leaked>>
  BY DEF Crash
<1>2. failures' \in 0 .. MaxFailures
  BY DEF Crash, Fail, SpoolInv, TypeOK
<1>3. NoBytes \in [InputKey -> Nat] /\ NoWriters \in [Worker -> Writer \cup {None}]
  BY DEF NoBytes, NoWriters
<1>4. /\ EmptyAccount \in [stored: Nat, reserved: Nat, storedBy: [InputKey -> Nat], reservedBy: [InputKey -> Nat]]
      /\ EmptyAccount.stored = 0 /\ EmptyAccount.reserved = 0
      /\ EmptyAccount.storedBy = NoBytes /\ EmptyAccount.reservedBy = NoBytes
  BY <1>3 DEF EmptyAccount
<1>5. \A v \in Worker : ~InPhase(v, "writing")'
  BY <1>1 DEF InPhase, NoWriters
<1>6. Owned'
  <2>1. leaked' \subseteq Present({"open", "quarantine"})'
    BY <1>1 DEF SpoolInv, Owned, Present
  <2> QED BY <1>5, <2>1 DEF Owned
<1>7. TypeOK'
  <2>1. running' \in BOOLEAN /\ removed' \in File \cup {None}
    BY <1>1
  <2> QED BY <1>1, <1>2, <1>3, <1>4, <1>5, <2>1 DEF SpoolInv, TypeOK
<1>8. Closed'
  BY <1>1 DEF Closed
<1>9. SumOn(NoBytes, InputKey) = 0
  BY SumZeros DEF NoBytes
<1>10. StoredMatch'
  BY <1>1, <1>4, <1>9 DEF StoredMatch
<1>11. ASSUME NEW K PROVE Held(K)' = 0 /\ Reserved(K)' = 0
  <2>1. \A w \in Worker : Holding(K)'[w] = 0 /\ Reserving(K)'[w] = 0
    BY <1>1 DEF Holding, Reserving, OfWriter, NoWriters
  <2> QED BY <2>1, SumZeros DEF Held, Reserved
<1>12. \A i \in InputKey : SegmentLimit * Cardinality(WritersOf(i))' = 0
  <2>1. \A i \in InputKey : WritersOf(i)' = {}
    BY <1>1 DEF WritersOf, NoWriters
  <2> QED BY <2>1, FS_EmptySet
<1>13. ReservedMatch'
  BY <1>1, <1>4, <1>9, <1>11, <1>12 DEF ReservedMatch, NoBytes
<1>14. RoomLeft'
  <2>1. ASSUME NEW K
        PROVE  Total(Guarded(K))' + Reserved(K)' + Held(K) <= Total(Guarded(K)) + Reserved(K) + Held(K)'
    <3>1. Total(Guarded(K))' = Total(Guarded(K))
      BY <1>1, FilesKept
    <3>2. Total(Guarded(K)) \in Nat /\ Held(K) \in Nat /\ Reserved(K) \in Nat /\ Held(K) <= Reserved(K)
      BY Numbers DEF SpoolInv, Numbered
    <3> QED BY <1>11, <3>1, <3>2
  <2> QED BY <1>7, <2>1, RoomStep
<1> QED BY <1>6, <1>7, <1>8, <1>10, <1>13, <1>14 DEF SpoolInv

(* What scan_accounting finds of every input adds up to all there is.      *)
LEMMA ScannedBytes ==
  ASSUME TypeOK
  PROVE  LET by == [i \in InputKey |-> BytesOf(Of(i, Present(Life)))] IN
         /\ by \in [InputKey -> Nat]
         /\ \A i \in InputKey : by[i] = Total(OfInputs(Present(Life), {i}))
         /\ SumOn(by, InputKey) = Total(OfInputs(Present(Life), InputKey))
<1> DEFINE by == [i \in InputKey |-> BytesOf(Of(i, Present(Life)))]
           S == Present(Life)
           f == Weigh(S)
           k == [id \in S |-> file[id].input]
<1>1. S \in SUBSET SegmentId /\ IsFiniteSet(S) /\ \A id \in S : file[id] \in File
  BY FS_Subset DEF Present, TypeOK
<1>2. k \in [S -> InputKey] /\ \A id \in S : file[id].bytes \in Nat
  BY <1>1 DEF File
<1>3. \A id \in SegmentId : f[id] \in Nat
  BY <1>2 DEF Weigh
<1>4. ASSUME NEW i \in InputKey
      PROVE  /\ by[i] = Total(OfInputs(S, {i})) /\ by[i] = SumOn(f, {id \in S : k[id] = i})
             /\ by[i] \in Nat
  <2> DEFINE P == {id \in S : k[id] = i}
  <2>1. P = Of(i, S) /\ P = OfInputs(S, {i}) /\ P \in SUBSET S
    BY DEF Of, OfInputs
  <2>2. IsFiniteSet(P) /\ P \in SUBSET SegmentId
    BY <1>1, FS_Subset
  <2>3. by[i] = BytesOf(P)
    BY <2>1
  <2>4. \A id \in P : f[id] \in Nat /\ f[id] = Weigh(P)[id]
    BY <1>1, <1>3 DEF Weigh
  <2>5. /\ \A id \in SegmentId : Weigh(P)[id] \in Nat
        /\ \A id \in SegmentId \ P : Weigh(P)[id] = 0
    BY <1>2, <2>2 DEF Weigh
  <2> HIDE DEF P, f, k, by
  <2>6. BytesOf(P) = Total(P)
    BY <2>1, BytesAreTotal DEF S
  <2>7. SumOn(Weigh(P), SegmentId) = SumOn(Weigh(P), P)
    BY <2>2, <2>5, SumSupport
  <2>8. SumOn(f, P) = SumOn(Weigh(P), P)
    BY <2>2, <2>4, SumSame
  <2>9. SumOn(Weigh(P), SegmentId) \in Nat
    BY <2>5, SumNat
  <2>10. by[i] = Total(P) /\ by[i] = SumOn(f, P) /\ by[i] \in Nat
    BY <2>3, <2>6, <2>7, <2>8, <2>9 DEF Total
  <2> QED BY <2>1, <2>10 DEF P
<1>5. SumOn([i \in InputKey |-> SumOn(f, {id \in S : k[id] = i})], InputKey) = SumOn(f, S)
  <2>1. \A id \in S : f[id] \in Nat
    BY <1>1, <1>3
  <2> HIDE DEF S, f, k
  <2> QED BY <1>1, <1>2, <2>1, SumOfParts
<1>6. by = [i \in InputKey |-> SumOn(f, {id \in S : k[id] = i})]
  <2>1. \A i \in InputKey : BytesOf(Of(i, S)) = SumOn(f, {id \in S : k[id] = i})
    BY <1>4
  <2> HIDE DEF S, f, k
  <2> QED BY <2>1 DEF S
<1>7. SumOn(f, S) = Total(S)
  <2>1. \A id \in SegmentId \ S : f[id] = 0
    BY DEF Weigh
  <2> HIDE DEF S
  <2>2. SumOn(f, SegmentId) = SumOn(f, S)
    <3> HIDE DEF f
    <3> QED BY <1>1, <1>3, <2>1, SumSupport
  <2> QED BY <2>2 DEF Total
<1>8. OfInputs(S, InputKey) = S
  BY <1>1 DEF OfInputs, File
<1>9. by \in [InputKey -> Nat]
  <2>1. \A i \in InputKey : BytesOf(Of(i, Present(Life))) \in Nat
    BY <1>4
  <2> QED BY <2>1
<1> QED BY <1>4, <1>5, <1>6, <1>7, <1>8, <1>9

LEMMA OpenKeepsInv ==
  ASSUME SpoolInv, Open
  PROVE  SpoolInv'
<1> DEFINE by == [i \in InputKey |-> BytesOf(Of(i, Present(Life)))]
           moved(id) == IF id \in Incomplete THEN [file[id] EXCEPT !.life = "quarantine"] ELSE file[id]
           n == SumOn(by, InputKey)
<1>1. /\ writer = NoWriters /\ removed = None /\ TypeOK
      /\ drift' = NoBytes /\ UNCHANGED <<writer, removed, leaked, failures>> /\ running' = TRUE
  BY DEF Open, SpoolInv, Closed
<1>2. /\ by \in [InputKey -> Nat]
      /\ \A i \in InputKey : by[i] = Total(OfInputs(Present(Life), {i}))
      /\ n = Total(OfInputs(Present(Life), InputKey))
  BY <1>1, ScannedBytes
<1>3. n \in Nat
  <2>1. \A i \in InputKey : by[i] \in Nat
    BY <1>2
  <2> HIDE DEF by
  <2> QED BY <2>1, SumNat
<1>4. account' = [EmptyAccount EXCEPT !.stored = n, !.storedBy = by]
  <2>1. account' = [EmptyAccount EXCEPT !.stored = SumFunction(by), !.storedBy = by]
    BY DEF Open
  <2>2. SumFunction(by) = n
    BY DEF SumFunction, SumOn
  <2> QED BY <2>1, <2>2
<1>5. NoBytes \in [InputKey -> Nat]
  BY DEF NoBytes
<1>6. /\ account' \in [stored: Nat, reserved: Nat, storedBy: [InputKey -> Nat], reservedBy: [InputKey -> Nat]]
      /\ account'.stored = n /\ account'.storedBy = by
      /\ account'.reserved = 0 /\ account'.reservedBy = NoBytes
  <2> HIDE DEF n, by
  <2> QED BY <1>2, <1>3, <1>4, <1>5 DEF EmptyAccount
<1>7. file' = [id \in SegmentId |-> moved(id)] /\ file \in [SegmentId -> File \cup {None}]
  BY DEF Open, SpoolInv, TypeOK
<1>8. ASSUME NEW id \in SegmentId
      PROVE  /\ file'[id] \in File \cup {None} /\ (file'[id] = None <=> file[id] = None)
             /\ file[id] # None =>
                  /\ file'[id].input = file[id].input /\ file'[id].bytes = file[id].bytes
                  /\ file'[id].life = IF file[id].life = "open" THEN "quarantine" ELSE file[id].life
                  /\ file'[id].life \in Life /\ file[id].life \in Life
  <2>1. file'[id] = moved(id) /\ file[id] \in File \cup {None}
    BY <1>7
  <2>2. CASE file[id] = None
    <3>1. id \notin Incomplete
      BY <2>2 DEF Incomplete, Present
    <3> QED BY <2>1, <2>2, <3>1
  <2>3. CASE file[id] # None
    <3>1. file[id] \in File /\ (id \in Incomplete <=> file[id].life = "open")
      BY <2>1, <2>3 DEF Incomplete, Present
    <3>2. CASE id \in Incomplete
      <4> DEFINE f == [file[id] EXCEPT !.life = "quarantine"]
      <4>1. f \in File /\ f.life = "quarantine" /\ f.input = file[id].input /\ f.bytes = file[id].bytes
        BY <3>1 DEF File, Life
      <4>2. file'[id] = f
        BY <2>1, <3>2
      <4> HIDE DEF f
      <4> QED BY <2>3, <3>1, <3>2, <4>1, <4>2 DEF File
    <3>3. CASE id \notin Incomplete
      BY <2>1, <2>3, <3>1, <3>3 DEF File
    <3> QED BY <3>2, <3>3
  <2> QED BY <2>2, <2>3
<1>9. Present(Life)' = Present(Life) /\ Present({"open"})' = {}
  BY <1>8 DEF Present
<1>10. ASSUME NEW K
       PROVE  /\ Total(Charged(K))' = Total(OfInputs(Present(Life), K))
              /\ Total(Guarded(K))' = Total(Guarded(K))
  <2>1. \A id \in Present(Life) : file'[id].input = file[id].input /\ file'[id].bytes = file[id].bytes
    BY <1>8 DEF Present
  <2>2. Charged(K)' = OfInputs(Present(Life), K)
    BY <1>9, <2>1 DEF Charged, OfInputs
  <2>3. Guarded(K)' = Guarded(K)
    BY <1>1, <1>9, <2>1 DEF Guarded, OfInputs
  <2>4. OfInputs(Present(Life), K) \subseteq Present(Life) /\ Guarded(K) \subseteq Present(Life)
    BY DEF OfInputs, Guarded
  <2>5. Weigh(Charged(K))' = Weigh(OfInputs(Present(Life), K)) /\ Weigh(Guarded(K))' = Weigh(Guarded(K))
    BY <2>1, <2>2, <2>3, <2>4 DEF Weigh
  <2> QED BY <2>5 DEF Total
<1>11. \A v \in Worker : ~InPhase(v, "writing")'
  BY <1>1 DEF InPhase, NoWriters
<1>12. Owned'
  <2>1. leaked' \subseteq Present({"open", "quarantine"})'
    <3>1. Present({"open", "quarantine"}) \subseteq Present({"open", "quarantine"})'
      BY <1>8 DEF Present
    <3> QED BY <1>1, <3>1 DEF SpoolInv, Owned
  <2> QED BY <1>11, <2>1 DEF Owned
<1>13. TypeOK'
  <2>1. file' \in [SegmentId -> File \cup {None}]
    BY <1>7, <1>8
  <2>2. running' \in BOOLEAN
    BY <1>1
  <2> QED BY <1>1, <1>5, <1>6, <1>11, <2>1, <2>2 DEF TypeOK
<1>14. Closed'
  BY <1>1 DEF Closed
<1>15. ASSUME NEW K PROVE Held(K) = 0 /\ Reserved(K) = 0 /\ Held(K)' = 0 /\ Reserved(K)' = 0
  <2>1. Held(K) = 0 /\ Reserved(K) = 0
    BY <1>1, NoWriterSums
  <2>2. \A w \in Worker : Holding(K)'[w] = 0 /\ Reserving(K)'[w] = 0
    BY <1>1 DEF Holding, Reserving, OfWriter, NoWriters
  <2> QED BY <2>1, <2>2, SumZeros DEF Held, Reserved
<1>16. RoomLeft'
  BY <1>10, <1>15 DEF SpoolInv, RoomLeft
<1>17. ReservedMatch'
  <2>1. SumOn(NoBytes, InputKey) = 0
    BY SumZeros DEF NoBytes
  <2>2. \A i \in InputKey : WritersOf(i)' = {}
    BY <1>1 DEF WritersOf, NoWriters
  <2>3. \A i \in InputKey : SegmentLimit * Cardinality(WritersOf(i))' = 0
    BY <2>2, FS_EmptySet
  <2> QED BY <1>6, <1>15, <2>1, <2>3 DEF ReservedMatch, NoBytes
<1>18. StoredMatch'
  <2>1. \A K : RemovedOf(K)' = 0
    BY <1>1 DEF RemovedOf
  <2>2. ASSUME NEW i \in InputKey
        PROVE  account'.storedBy[i] + Held({i})' = Total(Charged({i}))' + drift'[i] + RemovedOf({i})'
    <3>1. account'.storedBy[i] = Total(Charged({i}))' /\ account'.storedBy[i] \in Nat
      BY <1>2, <1>6, <1>10
    <3>2. drift'[i] = 0
      BY <1>1 DEF NoBytes
    <3> QED BY <1>15, <2>1, <3>1, <3>2
  <2>3. account'.stored + Held(InputKey)' >= Total(Charged(InputKey))' + RemovedOf(InputKey)'
    <3>1. account'.stored = Total(Charged(InputKey))' /\ account'.stored \in Nat
      BY <1>2, <1>3, <1>6, <1>10
    <3> QED BY <1>15, <2>1, <3>1
  <2>4. account'.stored = SumOn(account'.storedBy, InputKey)
    BY <1>6
  <2> QED BY <2>2, <2>3, <2>4 DEF StoredMatch
<1> QED BY <1>12, <1>13, <1>14, <1>16, <1>17, <1>18 DEF SpoolInv

-----------------------------------------------------------------------------
(* The theorems.                                                           *)

LEMMA StutterKeepsInv ==
  ASSUME SpoolInv, UNCHANGED vars
  PROVE  SpoolInv'
<1>1. UNCHANGED <<file, running, account, writer, removed, leaked, drift, failures>>
  BY DEF vars, volatile, ghosts
<1>2. /\ \A L : Present(L)' = Present(L)
      /\ \A v \in Worker : \A p : InPhase(v, p)' <=> InPhase(v, p)
  BY <1>1 DEF Present, InPhase
<1>3. TypeOK' /\ Owned' /\ Closed'
  BY <1>1, <1>2 DEF SpoolInv, TypeOK, Owned, Closed
<1>4. \A v \in Worker : HeldBy(v)' = HeldBy(v)
  BY <1>1, OthersHold
<1>5. ASSUME NEW K
      PROVE  /\ Total(Charged(K))' = Total(Charged(K)) /\ Total(Guarded(K))' = Total(Guarded(K))
             /\ Held(K)' = Held(K) /\ Reserved(K)' = Reserved(K) /\ RemovedOf(K)' = RemovedOf(K)
  BY <1>1, <1>4, FilesKept, WritersKept DEF RemovedOf
<1>6. \A i \in InputKey : WritersOf(i)' = WritersOf(i)
  BY <1>1 DEF WritersOf
<1>7. StoredMatch' /\ ReservedMatch' /\ RoomLeft'
  BY <1>1, <1>5, <1>6 DEF SpoolInv, StoredMatch, ReservedMatch, RoomLeft
<1> QED BY <1>3, <1>7 DEF SpoolInv

LEMMA NextKeepsSpoolInv == SpoolInv /\ [Next]_vars => SpoolInv'
<1> SUFFICES ASSUME SpoolInv, [Next]_vars PROVE SpoolInv'
  OBVIOUS
<1>1. CASE Open
  BY <1>1, OpenKeepsInv
<1>2. CASE Crash
  BY <1>2, CrashKeepsInv
<1>3. ASSUME NEW w \in Worker, NEW i \in InputKey, Reserve(w, i) PROVE SpoolInv'
  BY <1>3, ReserveKeepsInv
<1>4. ASSUME NEW w \in Worker, CreateOpen(w) PROVE SpoolInv'
  BY <1>4, CreateOpenKeepsInv
<1>5. ASSUME NEW w \in Worker, CreateFails(w) PROVE SpoolInv'
  BY <1>5, CreateFailsKeepsInv
<1>6. ASSUME NEW w \in Worker, AppendEvent(w) \/ SealRename(w) \/ RemoveOpen(w) \/ RemoveFails(w)
      PROVE  SpoolInv'
  BY <1>6, WritingStep
<1>7. ASSUME NEW w \in Worker, Publish(w) PROVE SpoolInv'
  BY <1>7, PublishKeepsInv
<1>8. ASSUME NEW w \in Worker, Release(w) PROVE SpoolInv'
  BY <1>8, ReleaseKeepsInv
<1>9. ASSUME NEW id \in SegmentId, MarkDelivered(id) PROVE SpoolInv'
  BY <1>9, MarkDeliveredKeepsInv
<1>10. ASSUME NEW id \in SegmentId, CompactRemove(id) PROVE SpoolInv'
  BY <1>10, CompactRemoveKeepsInv
<1>11. CASE CompactAccount \/ CompactUnsynced
  BY <1>11, CompactAccountKeepsInv
<1>12. CASE UNCHANGED vars
  BY <1>12, StutterKeepsInv
<1> QED BY <1>1, <1>2, <1>3, <1>4, <1>5, <1>6, <1>7, <1>8, <1>9, <1>10, <1>11, <1>12 DEF Next

(* The byte account of spool.rs is right in every state: the reservations  *)
(* are those of the living writers, stored and reserved bytes cover the    *)
(* files, are exact when nothing is under way, and the quotas hold.        *)
THEOREM AccountStaysTrue == Spec => []AccountingHolds
<1>1. Spec => []SpoolInv
  BY SpoolInit, NextKeepsSpoolInv, PTL DEF Spec
<1> QED BY <1>1, SpoolInvSuffices, PTL

\* What a step may do to one file.
MayBecome(id) ==
  /\ id \in Present({"ready"}) =>
       Kept(id) \/ (running /\ file'[id] = [file[id] EXCEPT !.life = "delivered"])
  /\ id \in Present({"delivered"}) => Kept(id) \/ (file'[id] = None /\ removed' = file[id])
  /\ id \in Present({"quarantine"}) => Kept(id)
  /\ id \in Present({"open"}) /\ ~running =>
       Kept(id) \/ file'[id] = [file[id] EXCEPT !.life = "quarantine"]

(* Every step does no more.                                                *)
LEMMA NextKeepsSealed ==
  ASSUME SpoolInv, Next, NEW id \in SegmentId
  PROVE  MayBecome(id)
<1>1. file \in [SegmentId -> File \cup {None}]
  BY DEF SpoolInv, TypeOK
<1>2. /\ id \in Present({"ready"}) => file[id] # None /\ file[id].life = "ready"
      /\ id \in Present({"delivered"}) => file[id] # None /\ file[id].life = "delivered"
      /\ id \in Present({"quarantine"}) => file[id] # None /\ file[id].life = "quarantine"
      /\ id \in Present({"open"}) => file[id] # None /\ file[id].life = "open"
  BY DEF Present
<1>3. CASE Kept(id)
  BY <1>3 DEF MayBecome
<1>4. CASE Open
  <2>1. file'[id] = IF id \in Incomplete THEN [file[id] EXCEPT !.life = "quarantine"] ELSE file[id]
    BY <1>4 DEF Open
  <2>2. id \in Incomplete <=> id \in Present({"open"})
    BY DEF Incomplete
  <2> QED BY <1>2, <2>1, <2>2 DEF MayBecome, Kept
<1>5. ASSUME NEW w \in Worker, AppendEvent(w) \/ SealRename(w) \/ RemoveOpen(w) PROVE MayBecome(id)
  <2>1. InPhase(w, "writing")
    BY <1>5 DEF AppendEvent, SealRename, RemoveOpen
  <2>2. running /\ file[writer[w].id].life = "open"
    BY <2>1, WritingFacts
  <2>3. id # writer[w].id => Kept(id)
    BY <1>1, <1>5 DEF AppendEvent, SealRename, RemoveOpen, Kept
  <2> QED BY <1>2, <2>2, <2>3 DEF MayBecome
<1>6. ASSUME NEW w \in Worker, CreateOpen(w) PROVE MayBecome(id)
  <2> DEFINE new == CHOOSE j \in SegmentId : file[j] = None
  <2>1. PICK j \in SegmentId : file[j] = None
    BY <1>1, <1>6 DEF CreateOpen, Present, File
  <2>2. new \in SegmentId /\ file[new] = None
    BY <2>1
  <2>3. file' = [file EXCEPT ![new] = [input |-> writer[w].input, life |-> "open", bytes |-> 1]]
    BY <1>6 DEF CreateOpen
  <2> HIDE DEF new
  <2>4. id # new => Kept(id)
    BY <1>1, <2>3 DEF Kept
  <2> QED BY <1>2, <2>2, <2>4 DEF MayBecome
<1>7. ASSUME NEW j \in SegmentId, MarkDelivered(j) PROVE MayBecome(id)
  <2>1. running /\ j \in Present({"ready"}) /\ file' = [file EXCEPT ![j].life = "delivered"]
    BY <1>7 DEF MarkDelivered
  <2>2. file[j].life = "ready"
    BY <2>1 DEF Present
  <2>3. IF id = j THEN file'[id] = [file[id] EXCEPT !.life = "delivered"] ELSE Kept(id)
    BY <1>1, <2>1 DEF Kept
  <2> QED BY <1>2, <2>1, <2>2, <2>3 DEF MayBecome
<1>8. ASSUME NEW j \in SegmentId, CompactRemove(j) PROVE MayBecome(id)
  <2>1. /\ running /\ j \in Present({"delivered"}) /\ file' = [file EXCEPT ![j] = None]
        /\ removed' = file[j]
    BY <1>8 DEF CompactRemove
  <2>2. file[j].life = "delivered"
    BY <2>1 DEF Present
  <2>3. IF id = j THEN file'[id] = None ELSE Kept(id)
    BY <1>1, <2>1 DEF Kept
  <2> QED BY <1>2, <2>1, <2>2, <2>3 DEF MayBecome
<1>9. CASE UNCHANGED file
  BY <1>3, <1>9 DEF Kept
<1> QED
  <2>1. \/ UNCHANGED file
        \/ Open
        \/ \E w \in Worker : AppendEvent(w) \/ SealRename(w) \/ RemoveOpen(w)
        \/ \E w \in Worker : CreateOpen(w)
        \/ \E j \in SegmentId : MarkDelivered(j)
        \/ \E j \in SegmentId : CompactRemove(j)
    BY DEF Next, Crash, Reserve, CreateFails, Publish, RemoveFails, Release,
           CompactAccount, CompactUnsynced
  <2> QED BY <1>4, <1>5, <1>6, <1>7, <1>8, <1>9, <2>1

(* What was sealed survives: no writer, failure, crash or restart touches  *)
(* a ready segment but to mark it delivered, only a compaction removes a   *)
(* delivered one, and startup only quarantines an incomplete one.          *)
THEOREM SealedSegmentsSurvive == Spec => SealedSurvives
<1>1. Spec => []SpoolInv
  BY SpoolInit, NextKeepsSpoolInv, PTL DEF Spec
<1>2. SpoolInv /\ [Next]_vars => [\A id \in SegmentId : MayBecome(id)]_vars
  BY NextKeepsSealed
<1>3. Spec => [][\A id \in SegmentId : MayBecome(id)]_vars
  BY <1>1, <1>2, PTL DEF Spec
<1> QED BY <1>3 DEF SealedSurvives, MayBecome

=============================================================================
