----------------------------- MODULE PimProofs -----------------------------
(***************************************************************************)
(* Proofs about dcPIM: PimMatch, for every set of hosts and pairs, every   *)
(* number of links, rounds and epochs and whatever is late; and PimFlow,   *)
(* for every set of flows, every size, window and number of links and of   *)
(* faults.                                                                 *)
(*                                                                         *)
(* Sums over links are folds.  What they give is proved without an         *)
(* induction over the summands: a set of subsets of a finite set has a     *)
(* least one (LeastSubset), and the least for which an equation fails is   *)
(* neither empty nor larger by one than one for which it holds.            *)
(*                                                                         *)
(* MatchInv carries LinksAgree, ReceiverPaced and SenderShared.  Its core  *)
(* is that no host is an epoch behind another (InStep), that a request,    *)
(* its grant, the accept and the release are one message that changes its  *)
(* kind (OneOfAKey), so that what an accept adds it adds once              *)
(* (LinksKnown), and that a sender whose packets are on time has room for  *)
(* all that it has granted (Room): before it grants again, each grant has  *)
(* been accepted or has run out (GrantingNone).                            *)
(*                                                                         *)
(* PimInv carries TokensWithinGoal and LinkAwake.  Until its first resend  *)
(* timeout a flow is asked for its packets in order: only packets that     *)
(* were asked for can be received, so that the next token is always for    *)
(* the next packet, and that the receiver notices the last one (RoundOf).  *)
(* A flow that is neither waiting nor at a later goal is therefore         *)
(* unfinished, and what stands in the queue then is a candidate: the RTS   *)
(* that brings the first one starts the chain.                             *)
(***************************************************************************)
EXTENDS PimMatch, PimFlow, FiniteSetsExt, FiniteSetTheorems, WellFoundedInduction, TLAPS

-----------------------------------------------------------------------------
(* Sums *)

\* A set of subsets of a finite set has one that no other is within.
LEMMA LeastSubset ==
    ASSUME NEW S, IsFiniteSet(S), NEW family \in SUBSET SUBSET S, family # {}
    PROVE  \E T \in family : \A U \in family : U \subseteq T => U = T
<1>1. family \subseteq FiniteSubsetsOf(S)
    BY FS_Subset DEF FiniteSubsetsOf
<1>2. PICK T \in family : \A U \in family : ~ (<< U, T >> \in StrictSubsetOrdering(S))
    BY <1>1, FS_StrictSubsetOrderingWellFounded, WFMin
<1>3. ASSUME NEW U \in family, U \subseteq T PROVE U = T
    BY <1>2, <1>3 DEF StrictSubsetOrdering
<1>4. QED
    BY <1>3

\* The element that a fold over a set takes first.
First(s) == CHOOSE x \in s : TRUE

\* A set that has an element has a first one.
LEMMA FirstIsIn ==
    ASSUME NEW s, s # {}
    PROVE  First(s) \in s
  BY DEF First

\* g is the recursive function that defines the sum of f over S, and over its subsets.
Adds(g, f, S) ==
    g = [s \in SUBSET S |-> IF s = {} THEN 0 ELSE f[First(s)] + g[s \ {First(s)}]]

\* The sum of the community modules is such a function.
LEMMA SumIs ==
    ASSUME NEW f, NEW S
    PROVE  SumFunctionOnSet(f, S) = (CHOOSE g : Adds(g, f, S))[S]
  BY DEF SumFunctionOnSet, FoldFunctionOnSet, MapThenFoldSet, Adds, First

\* There is one function that adds up f over the subsets of a finite set.
LEMMA AddsOnce ==
    ASSUME NEW f, NEW S, IsFiniteSet(S), NEW g, NEW h, Adds(g, f, S), Adds(h, f, S)
    PROVE  g = h
<1> DEFINE differ == {s \in SUBSET S : g[s] # h[s]}
<1>1. CASE differ = {}
    BY <1>1 DEF Adds
<1>2. CASE differ # {}
  <2>0. differ \in SUBSET SUBSET S
    OBVIOUS
  <2> HIDE DEF differ
  <2>1. PICK T \in differ : \A U \in differ : U \subseteq T => U = T
    BY <1>2, <2>0, LeastSubset
  <2> USE DEF differ
  <2>2. T # {}
    BY <2>1 DEF Adds
  <2>3. T \ {First(T)} \in SUBSET S /\ T \ {First(T)} # T
    BY <2>2, FirstIsIn
  <2>4. g[T \ {First(T)}] = h[T \ {First(T)}]
    BY <2>1, <2>3
  <2>5. g[T] = f[First(T)] + g[T \ {First(T)}] /\ h[T] = f[First(T)] + h[T \ {First(T)}]
    BY <2>1, <2>2 DEF Adds
  <2>6. QED
    BY <2>1, <2>4, <2>5
<1>3. QED
    BY <1>1, <1>2

\* The function for a set has the one for each of its parts.
LEMMA AddsWithin ==
    ASSUME NEW f, NEW S, NEW T \in SUBSET S, NEW g, Adds(g, f, S)
    PROVE  Adds([s \in SUBSET T |-> g[s]], f, T)
<1> DEFINE h == [s \in SUBSET T |-> g[s]]
<1>1. ASSUME NEW s \in SUBSET T
      PROVE  h[s] = IF s = {} THEN 0 ELSE f[First(s)] + h[s \ {First(s)}]
  <2>1. g[s] = IF s = {} THEN 0 ELSE f[First(s)] + g[s \ {First(s)}]
    BY DEF Adds
  <2>2. h[s] = g[s] /\ h[s \ {First(s)}] = g[s \ {First(s)}]
    OBVIOUS
  <2>3. QED
    BY <2>1, <2>2
<1>2. h = [s \in SUBSET T |-> h[s]]
    OBVIOUS
<1> HIDE DEF h
<1>3. h = [s \in SUBSET T |-> IF s = {} THEN 0 ELSE f[First(s)] + h[s \ {First(s)}]]
    BY <1>1, <1>2
<1>4. QED
    BY <1>3 DEF Adds, h

\* What one of them says of a subset is the sum over it.
LEMMA AddsSums ==
    ASSUME NEW f, NEW S, IsFiniteSet(S), NEW T \in SUBSET S, NEW g, Adds(g, f, S)
    PROVE  g[T] = SumFunctionOnSet(f, T)
<1> DEFINE h == [s \in SUBSET T |-> g[s]]
<1>1. Adds(h, f, T) /\ IsFiniteSet(T) /\ h[T] = g[T]
  <2>1. Adds([s \in SUBSET T |-> g[s]], f, T)
    BY AddsWithin
  <2>2. QED
    BY <2>1, FS_Subset
<1> HIDE DEF h
<1>2. Adds(CHOOSE k : Adds(k, f, T), f, T)
    BY <1>1
<1>3. h = CHOOSE k : Adds(k, f, T)
    BY <1>1, <1>2, AddsOnce
<1>4. QED
    BY <1>1, <1>3, SumIs

\* There is such a function.
LEMMA AddsExists ==
    ASSUME NEW f, NEW S, IsFiniteSet(S)
    PROVE  \E g : Adds(g, f, S)
<1> DEFINE none == {T \in SUBSET S : ~ \E g : Adds(g, f, T)}
<1>1. SUFFICES ASSUME none # {} PROVE FALSE
    OBVIOUS
<1>0. none \in SUBSET SUBSET S
    OBVIOUS
<1> HIDE DEF none
<1>2. PICK T \in none : \A U \in none : U \subseteq T => U = T
    BY <1>0, <1>1, LeastSubset
<1> USE DEF none
<1> DEFINE value(s) == IF s = {} THEN 0 ELSE f[First(s)] + SumFunctionOnSet(f, s \ {First(s)})
           g == [s \in SUBSET T |-> value(s)]
<1>3. ASSUME NEW s \in SUBSET T, s # T
      PROVE  value(s) = SumFunctionOnSet(f, s)
  <2>1. PICK h : Adds(h, f, s)
    BY <1>2, <1>3
  <2>2. IsFiniteSet(s)
    BY FS_Subset, s \subseteq S
  <2>3. h[s] = SumFunctionOnSet(f, s)
    BY <2>1, <2>2, AddsSums
  <2>4. h[s \ {First(s)}] = SumFunctionOnSet(f, s \ {First(s)})
    BY <2>1, <2>2, AddsSums
  <2>5. h[s] = IF s = {} THEN 0 ELSE f[First(s)] + h[s \ {First(s)}]
    BY <2>1 DEF Adds
  <2>6. QED
    BY <2>3, <2>4, <2>5
<1>4. ASSUME NEW s \in SUBSET T
      PROVE  g[s] = IF s = {} THEN 0 ELSE f[First(s)] + g[s \ {First(s)}]
  <2>1. CASE s = {}
    BY <2>1
  <2>2. CASE s # {}
    <3>1. s \ {First(s)} \in SUBSET T /\ s \ {First(s)} # T
      BY <2>2, FirstIsIn
    <3>2. g[s \ {First(s)}] = value(s \ {First(s)})
      BY <3>1
    <3>3. g[s \ {First(s)}] = SumFunctionOnSet(f, s \ {First(s)})
      BY <1>3, <3>1, <3>2
    <3>4. QED
      BY <2>2, <3>3
  <2>3. QED
    BY <2>1, <2>2
<1>5. g = [s \in SUBSET T |-> g[s]]
    OBVIOUS
<1> HIDE DEF g
<1>6. g = [s \in SUBSET T |-> IF s = {} THEN 0 ELSE f[First(s)] + g[s \ {First(s)}]]
    BY <1>4, <1>5
<1>7. QED
    BY <1>2, <1>6 DEF Adds

\* The recursion of a sum: an element, and the rest.
LEMMA SumStep ==
    ASSUME NEW f, NEW S, IsFiniteSet(S)
    PROVE  SumFunctionOnSet(f, S) = IF S = {} THEN 0 ELSE f[First(S)] + SumFunctionOnSet(f, S \ {First(S)})
<1>1. PICK g : Adds(g, f, S)
    BY AddsExists
<1>2. g[S] = IF S = {} THEN 0 ELSE f[First(S)] + g[S \ {First(S)}]
    BY <1>1 DEF Adds
<1>3. g[S] = SumFunctionOnSet(f, S) /\ g[S \ {First(S)}] = SumFunctionOnSet(f, S \ {First(S)})
  <2>1. S \in SUBSET S /\ S \ {First(S)} \in SUBSET S
    OBVIOUS
  <2>2. QED
    BY <1>1, <2>1, AddsSums
<1>4. QED
    BY <1>2, <1>3

\* Nothing adds up to 0.
LEMMA SumEmpty ==
    ASSUME NEW f
    PROVE  SumFunctionOnSet(f, {}) = 0
  BY SumStep, FS_EmptySet

\* A sum of integers is an integer.
LEMMA SumInt ==
    ASSUME NEW f, NEW S, IsFiniteSet(S), \A x \in S : f[x] \in Int
    PROVE  SumFunctionOnSet(f, S) \in Int
<1> DEFINE bad == {T \in SUBSET S : SumFunctionOnSet(f, T) \notin Int}
<1>1. SUFFICES ASSUME bad # {} PROVE FALSE
    BY S \in SUBSET S
<1>2. bad \in SUBSET SUBSET S
    OBVIOUS
<1> HIDE DEF bad
<1>3. PICK T \in bad : \A U \in bad : U \subseteq T => U = T
    BY <1>1, <1>2, LeastSubset
<1> USE DEF bad
<1>4. IsFiniteSet(T)
    BY <1>3, FS_Subset
<1>5. T # {}
    BY <1>3, SumEmpty
<1>6. First(T) \in T
    BY <1>5, FirstIsIn
<1>7. T \ {First(T)} \notin bad
    BY <1>3, <1>6
<1>8. SumFunctionOnSet(f, T \ {First(T)}) \in Int /\ f[First(T)] \in Int
    BY <1>3, <1>6, <1>7
<1>9. SumFunctionOnSet(f, T) = f[First(T)] + SumFunctionOnSet(f, T \ {First(T)})
    BY <1>4, <1>5, SumStep
<1>10. QED
    BY <1>3, <1>8, <1>9

\* The recursion with any element.
LEMMA SumRemove ==
    ASSUME NEW f, NEW S, IsFiniteSet(S), \A x \in S : f[x] \in Int, NEW x \in S
    PROVE  SumFunctionOnSet(f, S) = f[x] + SumFunctionOnSet(f, S \ {x})
<1> DEFINE bad == {T \in SUBSET S : \E y \in T : SumFunctionOnSet(f, T) # f[y] + SumFunctionOnSet(f, T \ {y})}
<1>1. SUFFICES ASSUME bad # {} PROVE FALSE
    BY S \in SUBSET S
<1>2. bad \in SUBSET SUBSET S
    OBVIOUS
<1> HIDE DEF bad
<1>3. PICK T \in bad : \A U \in bad : U \subseteq T => U = T
    BY <1>1, <1>2, LeastSubset
<1> USE DEF bad
<1>4. PICK y \in T : SumFunctionOnSet(f, T) # f[y] + SumFunctionOnSet(f, T \ {y})
    BY <1>3
<1> DEFINE z == First(T)
           R == (T \ {y}) \ {z}
<1>5. z \in T /\ IsFiniteSet(T)
    BY <1>3, <1>4, FirstIsIn, FS_Subset
<1>6. SumFunctionOnSet(f, T) = f[z] + SumFunctionOnSet(f, T \ {z})
    BY <1>4, <1>5, SumStep
<1>7. y # z
    BY <1>4, <1>6
<1> HIDE DEF z
<1>8. T \ {z} \notin bad /\ T \ {y} \notin bad
    BY <1>3, <1>4, <1>5
<1>9. (T \ {z}) \ {y} = R /\ (T \ {y}) \ {z} = R
    OBVIOUS
<1>10. T \ {z} \in SUBSET S /\ T \ {y} \in SUBSET S /\ R \in SUBSET S
    BY <1>3
<1> HIDE DEF R
<1>11. SumFunctionOnSet(f, T \ {z}) = f[y] + SumFunctionOnSet(f, R)
    BY <1>4, <1>7, <1>8, <1>9, <1>10
<1>12. SumFunctionOnSet(f, T \ {y}) = f[z] + SumFunctionOnSet(f, R)
    BY <1>5, <1>7, <1>8, <1>9, <1>10
<1>13. f[y] \in Int /\ f[z] \in Int /\ SumFunctionOnSet(f, R) \in Int
  <2>1. IsFiniteSet(R)
    BY <1>10, FS_Subset
  <2>2. QED
    BY <1>3, <1>4, <1>5, <1>10, <2>1, SumInt
<1>14. QED
    BY <1>4, <1>6, <1>11, <1>12, <1>13

\* Smaller summands have a smaller sum.
LEMMA SumAtMost ==
    ASSUME NEW f, NEW g, NEW S, IsFiniteSet(S),
           \A x \in S : f[x] \in Int /\ g[x] \in Int /\ f[x] <= g[x]
    PROVE  SumFunctionOnSet(f, S) <= SumFunctionOnSet(g, S)
<1> DEFINE bad == {T \in SUBSET S : ~(SumFunctionOnSet(f, T) <= SumFunctionOnSet(g, T))}
<1>1. SUFFICES ASSUME bad # {} PROVE FALSE
    BY S \in SUBSET S
<1>2. bad \in SUBSET SUBSET S
    OBVIOUS
<1> HIDE DEF bad
<1>3. PICK T \in bad : \A U \in bad : U \subseteq T => U = T
    BY <1>1, <1>2, LeastSubset
<1> USE DEF bad
<1>4. IsFiniteSet(T)
    BY <1>3, FS_Subset
<1>5. T # {}
  <2>1. SumFunctionOnSet(f, {}) = 0 /\ SumFunctionOnSet(g, {}) = 0
    BY SumEmpty
  <2>2. ~(SumFunctionOnSet(f, T) <= SumFunctionOnSet(g, T))
    BY <1>3
  <2>3. ASSUME T = {} PROVE FALSE
    BY <2>1, <2>2, <2>3
  <2>4. QED
    BY <2>3
<1> DEFINE x == First(T)
           R == T \ {x}
<1>6. x \in T
    BY <1>5, FirstIsIn
<1>7. SumFunctionOnSet(f, T) = f[x] + SumFunctionOnSet(f, R) /\ SumFunctionOnSet(g, T) = g[x] + SumFunctionOnSet(g, R)
    BY <1>4, <1>5, SumStep
<1>8. R \in SUBSET S /\ R \notin bad /\ IsFiniteSet(R)
    BY <1>3, <1>4, <1>6, FS_Subset
<1> HIDE DEF x, R
<1>9. SumFunctionOnSet(f, R) <= SumFunctionOnSet(g, R)
    BY <1>8
<1>10. SumFunctionOnSet(f, R) \in Int /\ SumFunctionOnSet(g, R) \in Int
    BY <1>8, SumInt
<1>11. f[x] \in Int /\ g[x] \in Int /\ f[x] <= g[x]
    BY <1>3, <1>6
<1>12. QED
    BY <1>3, <1>7, <1>9, <1>10, <1>11

\* Equal summands have equal sums.
LEMMA SumSame ==
    ASSUME NEW f, NEW g, NEW S, IsFiniteSet(S), \A x \in S : f[x] \in Int /\ g[x] = f[x]
    PROVE  SumFunctionOnSet(g, S) = SumFunctionOnSet(f, S)
<1>1. SumFunctionOnSet(f, S) <= SumFunctionOnSet(g, S) /\ SumFunctionOnSet(g, S) <= SumFunctionOnSet(f, S)
    BY SumAtMost
<1>2. SumFunctionOnSet(f, S) \in Int /\ SumFunctionOnSet(g, S) \in Int
    BY SumInt
<1>3. QED
    BY <1>1, <1>2

\* Zeros add up to 0.
LEMMA SumZero ==
    ASSUME NEW f, NEW S, IsFiniteSet(S), \A x \in S : f[x] = 0
    PROVE  SumFunctionOnSet(f, S) = 0
<1> DEFINE bad == {T \in SUBSET S : SumFunctionOnSet(f, T) # 0}
<1>1. SUFFICES ASSUME bad # {} PROVE FALSE
    BY S \in SUBSET S
<1>2. bad \in SUBSET SUBSET S
    OBVIOUS
<1> HIDE DEF bad
<1>3. PICK T \in bad : \A U \in bad : U \subseteq T => U = T
    BY <1>1, <1>2, LeastSubset
<1> USE DEF bad
<1>4. T # {} /\ IsFiniteSet(T)
    BY <1>3, SumEmpty, FS_Subset
<1>5. First(T) \in T
    BY <1>4, FirstIsIn
<1>6. SumFunctionOnSet(f, T) = f[First(T)] + SumFunctionOnSet(f, T \ {First(T)})
    BY <1>4, SumStep
<1>7. SumFunctionOnSet(f, T \ {First(T)}) = 0 /\ f[First(T)] = 0
    BY <1>3, <1>5
<1>8. QED
    BY <1>3, <1>6, <1>7

\* A sum of natural numbers is one.
LEMMA SumNat ==
    ASSUME NEW f, NEW S, IsFiniteSet(S), \A x \in S : f[x] \in Nat
    PROVE  SumFunctionOnSet(f, S) \in Nat
<1> DEFINE zero == [x \in S |-> 0]
<1>1. \A x \in S : zero[x] = 0
    OBVIOUS
<1> HIDE DEF zero
<1>2. SumFunctionOnSet(zero, S) = 0
    BY <1>1, SumZero
<1>3. \A x \in S : zero[x] \in Int /\ f[x] \in Int /\ zero[x] <= f[x]
    BY <1>1
<1>4. SumFunctionOnSet(zero, S) <= SumFunctionOnSet(f, S)
    BY <1>3, SumAtMost
<1>5. SumFunctionOnSet(f, S) \in Int
    BY SumInt
<1>6. QED
    BY <1>2, <1>4, <1>5

\* One element more.
LEMMA SumInsert ==
    ASSUME NEW f, NEW S, IsFiniteSet(S), NEW x, x \notin S, \A y \in S \cup {x} : f[y] \in Int
    PROVE  SumFunctionOnSet(f, S \cup {x}) = f[x] + SumFunctionOnSet(f, S)
<1>1. IsFiniteSet(S \cup {x}) /\ (S \cup {x}) \ {x} = S
    BY FS_AddElement
<1>2. QED
    BY <1>1, SumRemove

\* One value changes.
LEMMA SumChange ==
    ASSUME NEW f, NEW g, NEW S, IsFiniteSet(S), NEW x \in S, \A y \in S : f[y] \in Int /\ g[y] \in Int,
           \A y \in S \ {x} : g[y] = f[y]
    PROVE  SumFunctionOnSet(g, S) = SumFunctionOnSet(f, S) + (g[x] - f[x])
<1>1. IsFiniteSet(S \ {x})
    BY FS_RemoveElement
<1>2. SumFunctionOnSet(g, S \ {x}) = SumFunctionOnSet(f, S \ {x})
    BY <1>1, SumSame
<1>3. SumFunctionOnSet(g, S) = g[x] + SumFunctionOnSet(g, S \ {x}) /\ SumFunctionOnSet(f, S) = f[x] + SumFunctionOnSet(f, S \ {x})
    BY SumRemove
<1>4. SumFunctionOnSet(f, S \ {x}) \in Int
    BY <1>1, SumInt
<1>5. QED
    BY <1>2, <1>3, <1>4

\* A value is no more than the sum.
LEMMA SumBounds ==
    ASSUME NEW f, NEW S, IsFiniteSet(S), NEW x \in S, \A y \in S : f[y] \in Nat
    PROVE  f[x] <= SumFunctionOnSet(f, S)
<1>1. IsFiniteSet(S \ {x})
    BY FS_RemoveElement
<1>2. SumFunctionOnSet(f, S) = f[x] + SumFunctionOnSet(f, S \ {x}) /\ SumFunctionOnSet(f, S \ {x}) \in Nat
    BY <1>1, SumRemove, SumNat
<1>3. QED
    BY <1>2

\* The sum of sums.
LEMMA SumPlus ==
    ASSUME NEW f, NEW g, NEW h, NEW S, IsFiniteSet(S),
           \A x \in S : f[x] \in Int /\ g[x] \in Int /\ h[x] = f[x] + g[x]
    PROVE  SumFunctionOnSet(h, S) = SumFunctionOnSet(f, S) + SumFunctionOnSet(g, S)
<1> DEFINE bad == {T \in SUBSET S : SumFunctionOnSet(h, T) # SumFunctionOnSet(f, T) + SumFunctionOnSet(g, T)}
<1>1. SUFFICES ASSUME bad # {} PROVE FALSE
    BY S \in SUBSET S
<1>2. bad \in SUBSET SUBSET S
    OBVIOUS
<1> HIDE DEF bad
<1>3. PICK T \in bad : \A U \in bad : U \subseteq T => U = T
    BY <1>1, <1>2, LeastSubset
<1> USE DEF bad
<1>4. IsFiniteSet(T) /\ T \in SUBSET S
    BY <1>3, FS_Subset
<1>5. T # {}
  <2>1. SumFunctionOnSet(f, {}) = 0 /\ SumFunctionOnSet(g, {}) = 0 /\ SumFunctionOnSet(h, {}) = 0
    BY SumEmpty
  <2>2. SumFunctionOnSet(h, T) # SumFunctionOnSet(f, T) + SumFunctionOnSet(g, T)
    BY <1>3
  <2>3. ASSUME T = {} PROVE FALSE
    BY <2>1, <2>2, <2>3
  <2>4. QED
    BY <2>3
<1> DEFINE x == First(T)
           R == T \ {x}
<1>6. x \in T
    BY <1>5, FirstIsIn
<1>7. /\ SumFunctionOnSet(f, T) = f[x] + SumFunctionOnSet(f, R)
      /\ SumFunctionOnSet(g, T) = g[x] + SumFunctionOnSet(g, R)
      /\ SumFunctionOnSet(h, T) = h[x] + SumFunctionOnSet(h, R)
    BY <1>4, <1>5, SumStep
<1>8. R \in SUBSET S /\ R \notin bad /\ IsFiniteSet(R)
    BY <1>3, <1>4, <1>6, FS_Subset
<1> HIDE DEF x, R
<1>9. SumFunctionOnSet(h, R) = SumFunctionOnSet(f, R) + SumFunctionOnSet(g, R)
    BY <1>8
<1>10. SumFunctionOnSet(f, R) \in Int /\ SumFunctionOnSet(g, R) \in Int
    BY <1>8, SumInt
<1>11. f[x] \in Int /\ g[x] \in Int /\ h[x] = f[x] + g[x]
    BY <1>4, <1>6
<1>12. QED
    BY <1>3, <1>7, <1>9, <1>10, <1>11

\* A sum over some of the elements.
LEMMA SumWithin ==
    ASSUME NEW f, NEW S, IsFiniteSet(S), NEW W \in SUBSET S, \A x \in S : f[x] \in Nat
    PROVE  SumFunctionOnSet(f, W) <= SumFunctionOnSet(f, S)
<1> DEFINE bad == {T \in SUBSET S : ~(SumFunctionOnSet(f, T \cap W) <= SumFunctionOnSet(f, T))}
<1>1. SUFFICES ASSUME bad # {} PROVE FALSE
  <2>1. S \in SUBSET S /\ S \cap W = W
    OBVIOUS
  <2>2. QED
    BY <2>1
<1>2. bad \in SUBSET SUBSET S
    OBVIOUS
<1> HIDE DEF bad
<1>3. PICK T \in bad : \A U \in bad : U \subseteq T => U = T
    BY <1>1, <1>2, LeastSubset
<1> USE DEF bad
<1>4. IsFiniteSet(T) /\ T \in SUBSET S /\ IsFiniteSet(T \cap W)
    BY <1>3, FS_Subset
<1>5. ~(SumFunctionOnSet(f, T \cap W) <= SumFunctionOnSet(f, T))
    BY <1>3
<1>6. T # {}
  <2>1. ASSUME T = {} PROVE FALSE
    <3>1. T \cap W = {} /\ SumFunctionOnSet(f, {}) = 0
      BY <2>1, SumEmpty
    <3>2. QED
      BY <1>5, <2>1, <3>1
  <2>2. QED
    BY <2>1
<1>7. PICK x \in T : TRUE
    BY <1>6
<1> DEFINE R == T \ {x}
<1>8. R \in SUBSET S /\ R \notin bad /\ IsFiniteSet(R) /\ IsFiniteSet(R \cap W)
    BY <1>3, <1>4, <1>7, FS_Subset
<1>9. SumFunctionOnSet(f, T) = f[x] + SumFunctionOnSet(f, R)
    BY <1>4, <1>7, SumRemove
<1>10. SumFunctionOnSet(f, T \cap W) = (IF x \in W THEN f[x] ELSE 0) + SumFunctionOnSet(f, R \cap W)
  <2>1. CASE x \in W
    <3>1. x \in T \cap W /\ (T \cap W) \ {x} = R \cap W
      BY <1>7, <2>1
    <3>2. SumFunctionOnSet(f, T \cap W) = f[x] + SumFunctionOnSet(f, (T \cap W) \ {x})
      BY <1>4, <3>1, SumRemove
    <3>3. QED
      BY <2>1, <3>1, <3>2
  <2>2. CASE x \notin W
    <3>1. T \cap W = R \cap W
      BY <2>2
    <3>2. SumFunctionOnSet(f, R \cap W) \in Int
      BY <1>8, SumInt
    <3>3. QED
      BY <2>2, <3>1, <3>2
  <2>3. QED
    BY <2>1, <2>2
<1>11. SumFunctionOnSet(f, R \cap W) <= SumFunctionOnSet(f, R)
    BY <1>8
<1>12. SumFunctionOnSet(f, R) \in Int /\ SumFunctionOnSet(f, R \cap W) \in Int
    BY <1>8, SumInt
<1>13. f[x] \in Nat
    BY <1>4, <1>7
<1> HIDE DEF R
<1>14. QED
    BY <1>5, <1>9, <1>10, <1>11, <1>12, <1>13

\* A sum by keys: for each key, the sum over the elements that have it.
LEMMA SumByKey ==
    ASSUME NEW f, NEW key, NEW S, IsFiniteSet(S), NEW Keys, IsFiniteSet(Keys),
           \A x \in S : f[x] \in Int /\ key[x] \in Keys
    PROVE  SumFunctionOnSet([k \in Keys |-> SumFunctionOnSet(f, {x \in S : key[x] = k})], Keys) = SumFunctionOnSet(f, S)
<1> DEFINE having(T, k) == {x \in T : key[x] = k}
           parts(T) == [k \in Keys |-> SumFunctionOnSet(f, having(T, k))]
           bad == {T \in SUBSET S : SumFunctionOnSet(parts(T), Keys) # SumFunctionOnSet(f, T)}
<1>1. SUFFICES ASSUME bad # {} PROVE FALSE
    BY S \in SUBSET S
<1>2. bad \in SUBSET SUBSET S
    OBVIOUS
<1> HIDE DEF bad
<1>3. PICK T \in bad : \A U \in bad : U \subseteq T => U = T
    BY <1>1, <1>2, LeastSubset
<1> USE DEF bad
<1>4. IsFiniteSet(T) /\ T \in SUBSET S /\ \A k \in Keys : IsFiniteSet(having(T, k))
    BY <1>3, FS_Subset
<1>5. SumFunctionOnSet(parts(T), Keys) # SumFunctionOnSet(f, T)
    BY <1>3
<1>6. T # {}
  <2>1. ASSUME T = {} PROVE FALSE
    <3>1. \A k \in Keys : having(T, k) = {}
      BY <2>1
    <3>2. \A k \in Keys : parts(T)[k] = 0
      BY <3>1, SumEmpty
    <3> HIDE DEF parts
    <3>3. SumFunctionOnSet(parts(T), Keys) = 0 /\ SumFunctionOnSet(f, {}) = 0
      BY <3>2, SumZero, SumEmpty
    <3>4. QED
      BY <1>5, <2>1, <3>3
  <2>2. QED
    BY <2>1
<1>7. PICK x \in T : TRUE
    BY <1>6
<1> DEFINE R == T \ {x}
<1>8. R \in SUBSET S /\ R \notin bad /\ IsFiniteSet(R) /\ \A k \in Keys : IsFiniteSet(having(R, k))
    BY <1>3, <1>4, <1>7, FS_Subset
<1>9. SumFunctionOnSet(f, T) = f[x] + SumFunctionOnSet(f, R)
    BY <1>4, <1>7, SumRemove
<1>10. key[x] \in Keys /\ f[x] \in Int
    BY <1>4, <1>7
<1>11. ASSUME NEW k \in Keys, k # key[x] PROVE parts(T)[k] = parts(R)[k]
  <2>1. having(T, k) = having(R, k)
    BY <1>11
  <2>2. QED
    BY <2>1
<1>12. parts(T)[key[x]] = f[x] + parts(R)[key[x]]
  <2>1. x \in having(T, key[x]) /\ having(T, key[x]) \ {x} = having(R, key[x])
    BY <1>7
  <2>2. SumFunctionOnSet(f, having(T, key[x])) = f[x] + SumFunctionOnSet(f, having(T, key[x]) \ {x})
    <3>1. IsFiniteSet(having(T, key[x])) /\ \A y \in having(T, key[x]) : f[y] \in Int
      BY <1>4, <1>10
    <3> HIDE DEF having
    <3>2. QED
      BY <2>1, <3>1, SumRemove
  <2>3. QED
    BY <1>10, <2>1, <2>2
<1>13. \A k \in Keys : parts(T)[k] \in Int /\ parts(R)[k] \in Int
  <2>1. \A k \in Keys : SumFunctionOnSet(f, having(T, k)) \in Int /\ SumFunctionOnSet(f, having(R, k)) \in Int
    <3>1. \A k \in Keys : (\A y \in having(T, k) : f[y] \in Int) /\ (\A y \in having(R, k) : f[y] \in Int)
      BY <1>4
    <3> HIDE DEF having
    <3>2. QED
      BY <1>4, <1>8, <3>1, SumInt
  <2>2. QED
    BY <2>1
<1>14. SumFunctionOnSet(parts(R), Keys) = SumFunctionOnSet(f, R)
    BY <1>8
<1>15. SumFunctionOnSet(f, R) \in Int
    BY <1>8, SumInt
<1> HIDE DEF parts, R
<1>16. SumFunctionOnSet(parts(T), Keys) = SumFunctionOnSet(parts(R), Keys) + (parts(T)[key[x]] - parts(R)[key[x]])
  <2>1. \A k \in Keys \ {key[x]} : parts(T)[k] = parts(R)[k]
    BY <1>11
  <2>2. QED
    BY <1>10, <1>13, <2>1, SumChange
<1>17. QED
    BY <1>5, <1>9, <1>10, <1>12, <1>13, <1>14, <1>15, <1>16

\* The names of the elements of S.
Names(name, S) == {name[x] : x \in S}

\* g gives the names what f gives the elements.
Renames(f, g, name, S) ==
    /\ IsFiniteSet(S)
    /\ \A x \in S : f[x] \in Int /\ g[name[x]] = f[x]
    /\ \A x, y \in S : name[x] = name[y] => x = y

\* The same sum over other names of the elements.
LEMMA SumNamed ==
    ASSUME NEW f, NEW g, NEW name, NEW S, Renames(f, g, name, S)
    PROVE  SumFunctionOnSet(g, Names(name, S)) = SumFunctionOnSet(f, S) /\ IsFiniteSet(Names(name, S))
<1>0. /\ IsFiniteSet(S)
      /\ \A x \in S : f[x] \in Int /\ g[name[x]] = f[x]
      /\ \A x, y \in S : name[x] = name[y] => x = y
    BY DEF Renames
<1> DEFINE named(T) == Names(name, T)
           bad == {T \in SUBSET S : ~(IsFiniteSet(named(T)) /\ SumFunctionOnSet(g, named(T)) = SumFunctionOnSet(f, T))}
<1>1. SUFFICES ASSUME bad # {} PROVE FALSE
    BY <1>0, S \in SUBSET S
<1>2. bad \in SUBSET SUBSET S
    OBVIOUS
<1> HIDE DEF bad
<1>3. PICK T \in bad : \A U \in bad : U \subseteq T => U = T
    BY <1>0, <1>1, <1>2, LeastSubset
<1> USE DEF bad
<1>4. IsFiniteSet(T) /\ T \in SUBSET S
    BY <1>0, <1>3, FS_Subset
<1>5. ~(IsFiniteSet(named(T)) /\ SumFunctionOnSet(g, named(T)) = SumFunctionOnSet(f, T))
    BY <1>3
<1>6. T # {}
  <2>1. ASSUME T = {} PROVE FALSE
    <3>1. named(T) = {}
      BY <2>1 DEF Names
    <3>2. SumFunctionOnSet(f, {}) = 0 /\ SumFunctionOnSet(g, {}) = 0 /\ IsFiniteSet({})
      BY SumEmpty, FS_EmptySet
    <3>3. QED
      BY <1>5, <2>1, <3>1, <3>2
  <2>2. QED
    BY <2>1
<1>7. PICK x \in T : TRUE
    BY <1>6
<1> DEFINE R == T \ {x}
<1>8. R \in SUBSET S /\ R \notin bad /\ IsFiniteSet(R)
    BY <1>3, <1>4, <1>7, FS_Subset
<1>9. SumFunctionOnSet(f, T) = f[x] + SumFunctionOnSet(f, R)
    BY <1>0, <1>4, <1>7, SumRemove
<1>10. named(T) = named(R) \cup {name[x]} /\ name[x] \notin named(R)
    BY <1>0, <1>4, <1>7 DEF Names
<1>11. IsFiniteSet(named(R)) /\ SumFunctionOnSet(g, named(R)) = SumFunctionOnSet(f, R)
    BY <1>8
<1>12. \A n \in named(R) \cup {name[x]} : g[n] \in Int
    BY <1>0, <1>4, <1>7 DEF Names
<1>13. g[name[x]] = f[x]
    BY <1>0, <1>4, <1>7
<1> HIDE DEF named, R
<1>14. IsFiniteSet(named(R) \cup {name[x]})
    BY <1>11, FS_AddElement
<1>15. SumFunctionOnSet(g, named(R) \cup {name[x]}) = g[name[x]] + SumFunctionOnSet(g, named(R))
    BY <1>10, <1>11, <1>12, SumInsert
<1>16. QED
    BY <1>5, <1>9, <1>10, <1>11, <1>13, <1>14, <1>15

-----------------------------------------------------------------------------
(* The invariant of the matching *)

\* The number of a half round, from the number of an epoch and of a round in it.
Start(e) == e * EpochLength

\* The links of a set of messages.
LinkSum(M)   == SumFunctionOnSet([m \in M |-> m.total], M)
\* And the prompt links.
PromptSum(M) == SumFunctionOnSet([m \in M |-> m.prompt], M)

\* A packet of the matching. Its prompt links may be negative: see PromptNatural.
IsMessage(m) ==
    /\ m = Message(m.type, m.src, m.dst, m.epoch, m.iter, m.remaining, m.total, m.prompt)
    /\ m.type \in {"req", "grant", "accept", "grantsr"}
    /\ m.src \in Host /\ m.dst \in Host /\ m.epoch \in Nat /\ m.iter \in 1 .. IterLimit
    /\ m.total \in Nat /\ m.prompt \in Int /\ m.prompt <= m.total

\* KeepsTx the fields of an epoch.
IsRecord(E) ==
    E = [ iter |-> E.iter, receiver_at |-> E.receiver_at, sender_at |-> E.sender_at,
             num_tx_link |-> E.num_tx_link, num_tx_prompt_link |-> E.num_tx_prompt_link,
             from |-> E.from, from_prompt |-> E.from_prompt,
             num_rx_link |-> E.num_rx_link, num_rx_prompt_link |-> E.num_rx_prompt_link,
             to |-> E.to, to_prompt |-> E.to_prompt, req_q |-> E.req_q, grants_q |-> E.grants_q ]

\* The type of a PimEpoch.
IsEpoch(E) ==
    /\ IsRecord(E)
    /\ E.iter \in 0 .. IterLimit + 1 /\ E.receiver_at \in Int /\ E.sender_at \in Int
    /\ E.num_tx_link \in 0 .. PimK /\ E.num_tx_prompt_link \in Int /\ E.num_tx_prompt_link <= PimK
    /\ E.num_rx_link \in 0 .. PimK /\ E.num_rx_prompt_link \in Int
    /\ E.from \in [Host -> Nat] /\ E.to \in [Host -> Nat]
    /\ E.from_prompt \in [Host -> Int] /\ E.to_prompt \in [Host -> Int]
    /\ IsFiniteSet(E.req_q) /\ \A q \in E.req_q : IsMessage(q)
    /\ IsFiniteSet(E.grants_q) /\ \A q \in E.grants_q : IsMessage(q)

\* The type invariant.
MatchTyped ==
    /\ clock \in Nat /\ late \in Nat /\ to_come \in Nat
    /\ DOMAIN epochs = Host
    /\ \A h \in Host : /\ DOMAIN epochs[h] \subseteq 0 .. MaxEpoch
                       /\ \A e \in DOMAIN epochs[h] : IsEpoch(epochs[h][e])
    /\ new_epoch \in [Host -> 0 .. MaxEpoch + 1]
    /\ links \in [Host -> [Host -> Nat]]
    /\ size \in [Pairs -> Nat]
    /\ IsFiniteSet(packets) /\ \A m \in packets : IsMessage(m)

\* When the rounds of an epoch are.
Timed(e, E) ==
    /\ E.iter <= IterLimit =>
          /\ E.receiver_at = Start(e) + 2 * E.iter /\ clock <= E.receiver_at
          /\ clock >= Start(e) + (IF E.iter = 0 THEN 0 ELSE 2 * (E.iter - 1))
          /\ E.sender_at = Start(e) + 2 * E.iter + 1 \/ (E.iter > 0 /\ E.sender_at = Start(e) + 2 * E.iter - 1)
    /\ E.iter > IterLimit =>
          E.receiver_at = Never /\ clock >= Start(e) + 2 * IterLimit
    /\ E.sender_at # Never => clock <= E.sender_at

\* No round and no epoch is overdue.
Clocked ==
    /\ \A h \in Host : \A e \in DOMAIN epochs[h] : Timed(e, epochs[h][e])
    /\ \A h \in Host : new_epoch[h] <= MaxEpoch => clock <= Start(new_epoch[h])

\* The host is in the data phase of the epoch.
Done(h, e) == epochs[h][e].iter > IterLimit

\* A host has the epoch that is being matched, and the one before it.
EpochsInOrder ==
    \A h \in Host :
        /\ new_epoch[h] > 0 /\ (new_epoch[h] <= MaxEpoch \/ ~AllFinished) => new_epoch[h] - 1 \in DOMAIN epochs[h]
        /\ \A e \in DOMAIN epochs[h] :
              /\ e < new_epoch[h]
              /\ \A d \in DOMAIN epochs[h] : e < d => Done(h, e) /\ d = e + 1
              /\ \A d \in DOMAIN epochs[h] : Done(h, e) => e <= d
              /\ ~Done(h, e) /\ e > 0 => e - 1 \in DOMAIN epochs[h]

\* No host is an epoch behind another.
InStep ==
    \A h, g \in Host : \A e \in DOMAIN epochs[h] :
        \/ \E d \in DOMAIN epochs[g] : d >= e
        \/ new_epoch[g] = e /\ e <= MaxEpoch /\ clock = Start(e) /\ ~AllFinished

\* Messages of one exchange: a request with its grant, its accept and its release.
SameKey(m, q) == m.epoch = q.epoch /\ m.src = q.src /\ m.dst = q.dst /\ m.iter = q.iter

\* Where messages are.
Queued ==
    \A h \in Host : \A e \in DOMAIN epochs[h] :
        /\ \A q \in epochs[h][e].req_q : q.type = "req" /\ q.src = h /\ q.epoch = e
        /\ \A q \in epochs[h][e].grants_q : q.type = "grant" /\ q.dst = h /\ q.epoch = e /\ q.iter = epochs[h][e].iter

\* A message comes from a round that its receiver has begun, and its grant from an epoch
\* that its sender has begun.
HasAsked(m) ==
    /\ m.epoch < new_epoch[m.dst]
    /\ m.epoch \in DOMAIN epochs[m.dst] =>
          IF m.type \in {"req", "grant"} THEN m.iter <= epochs[m.dst][m.epoch].iter ELSE m.iter < epochs[m.dst][m.epoch].iter
    /\ m.type # "req" => m.epoch < new_epoch[m.src]

\* All messages do.
AllAsked ==
    /\ \A m \in packets : HasAsked(m)
    /\ \A h \in Host : \A e \in DOMAIN epochs[h] : \A q \in epochs[h][e].req_q \cup epochs[h][e].grants_q : HasAsked(q)

\* A request, its grant, the accept and the release are one after the other.
OneOfAKey ==
    /\ \A m, n \in packets : SameKey(m, n) => m = n
    /\ \A h \in Host : \A e \in DOMAIN epochs[h] :
          /\ \A q \in epochs[h][e].req_q \cup epochs[h][e].grants_q : \A m \in packets : ~SameKey(m, q)
          /\ \A p, q \in epochs[h][e].req_q : SameKey(p, q) => p = q
          /\ \A p, q \in epochs[h][e].grants_q : SameKey(p, q) => p = q
    /\ \A h, g \in Host : \A e \in DOMAIN epochs[h] \cap DOMAIN epochs[g] :
          \A p \in epochs[h][e].req_q, q \in epochs[g][e].grants_q : ~SameKey(p, q)

\* Nothing is agreed with a host that has not begun the epoch.
NotBegun ==
    \A h, g \in Host : \A e \in DOMAIN epochs[h] :
        e >= new_epoch[g] => /\ epochs[h][e].from[g] = 0 /\ epochs[h][e].from_prompt[g] = 0
                             /\ epochs[h][e].to[g] = 0 /\ epochs[h][e].to_prompt[g] = 0

\* What the receiver counts and the sender does not is in an accept or a grantsr.
LinksKnown ==
    \A s, r \in Host : \A e \in DOMAIN epochs[s] \cap DOMAIN epochs[r] :
        epochs[r][e].from[s] = epochs[s][e].to[r] + LinkSum(Flying(e, s, r))

\* The links of a host are those of its pairs, and the links of the data phase no more.
\* (num_tx_link of a receiver is not made smaller by a grantsr.)
Counted ==
    \A h \in Host :
        /\ \A e \in DOMAIN epochs[h] :
              /\ SumFunction(epochs[h][e].from) <= epochs[h][e].num_tx_link
              /\ SumFunction(epochs[h][e].to) = epochs[h][e].num_rx_link
              /\ Done(h, e) => SumFunction(links[h]) <= epochs[h][e].num_tx_link
        /\ (\A e \in DOMAIN epochs[h] : ~Done(h, e)) => links[h] = NoLinks

\* While packets are on time: each arrives within the half round in which it was sent, and
\* nothing comes back.
PacketsOnTime ==
    \A m \in packets :
        \/ m.type = "req"    /\ clock = Start(m.epoch) + 2 * (m.iter - 1)
        \/ m.type = "grant"  /\ clock = Start(m.epoch) + 2 * m.iter - 1
        \/ m.type = "accept" /\ clock = Start(m.epoch) + 2 * m.iter

\* While packets are on time: a request is answered in the round that has sent it.
RequestsOnTime ==
    \A h \in Host : \A e \in DOMAIN epochs[h] : \A q \in epochs[h][e].req_q : q.iter = epochs[h][e].iter

\* While packets are on time: no number of prompt links is negative.
NaturalPrompts ==
    /\ \A m \in packets : m.prompt >= 0
    /\ \A h \in Host : \A e \in DOMAIN epochs[h] : \A q \in epochs[h][e].req_q \cup epochs[h][e].grants_q : q.prompt >= 0

\* What a sender has granted in an epoch, and has not been answered.
Granting(e, s) ==
    {m \in packets : m.type \in {"grant", "accept"} /\ m.epoch = e /\ m.src = s}
    \cup UNION {{q \in epochs[r][e].grants_q : q.src = s} : r \in {r \in Host : e \in DOMAIN epochs[r]}}

\* While packets are on time: a sender has room for all it has granted, and the grants in
\* question are those of its last round.
Room ==
    \A s \in Host : \A e \in DOMAIN epochs[s] :
        /\ \A m \in Granting(e, s) : epochs[s][e].sender_at = Start(e) + 2 * m.iter + 1
        /\ epochs[s][e].num_rx_link + LinkSum(Granting(e, s)) <= PimK
        /\ epochs[s][e].num_rx_prompt_link + PromptSum(Granting(e, s)) <= PimK

\* While packets are on time: as LinksKnown, for prompt links.
PromptsKnown ==
    \A s, r \in Host : \A e \in DOMAIN epochs[s] \cap DOMAIN epochs[r] :
        epochs[r][e].from_prompt[s] = epochs[s][e].to_prompt[r] + PromptSum(Flying(e, s, r))

\* While packets are on time: the links of a data phase are those of its epoch, and with the
\* prompt links of the next epoch they are no more than num_tx_prompt_link of that.
Pacing ==
    \A h \in Host : \A e \in DOMAIN epochs[h] :
        IF Done(h, e) THEN links[h] = epochs[h][e].from
        ELSE SumFunction(links[h]) + SumFunction(epochs[h][e].from_prompt) <= epochs[h][e].num_tx_prompt_link

\* The part of the invariant that late packets break.
OnTime == /\ PacketsOnTime /\ RequestsOnTime /\ NaturalPrompts /\ Room /\ PromptsKnown /\ Pacing

\* The inductive invariant of the matching.
MatchInv ==
    /\ MatchTyped /\ Clocked /\ EpochsInOrder /\ InStep /\ Queued /\ AllAsked /\ OneOfAKey /\ NotBegun
    /\ LinksKnown /\ Counted
    /\ late = 0 => OnTime

-----------------------------------------------------------------------------
(* Sums of links *)

\* A sum over two sets that have nothing in common.
LEMMA SumDisjoint ==
    ASSUME NEW f, NEW A, NEW B, IsFiniteSet(A), IsFiniteSet(B), A \cap B = {}, \A x \in A \cup B : f[x] \in Int
    PROVE  SumFunctionOnSet(f, A \cup B) = SumFunctionOnSet(f, A) + SumFunctionOnSet(f, B)
<1> DEFINE family == {T \in SUBSET B : SumFunctionOnSet(f, A \cup T) # SumFunctionOnSet(f, A) + SumFunctionOnSet(f, T)}
<1>1. SUFFICES ASSUME family # {} PROVE FALSE
    OBVIOUS
<1>2. family \in SUBSET SUBSET B
    OBVIOUS
<1>2a. \A T : T \in family <=> T \in SUBSET B /\ SumFunctionOnSet(f, A \cup T) # SumFunctionOnSet(f, A) + SumFunctionOnSet(f, T)
    OBVIOUS
<1> HIDE DEF family
<1>3. PICK T \in family : \A U \in family : U \subseteq T => U = T
    BY <1>1, <1>2, LeastSubset
<1>4. IsFiniteSet(T) /\ T \subseteq B /\ IsFiniteSet(A \cup T)
    BY <1>2, <1>3, FS_Subset, FS_Union
<1>5. SumFunctionOnSet(f, A) \in Int
    BY SumInt
<1>6. CASE T = {}
  <2>1. A \cup T = A
    BY <1>6
  <2>2. SumFunctionOnSet(f, T) = 0
    BY <1>6, SumEmpty
  <2>3. QED
    BY <1>2a, <1>3, <1>5, <2>1, <2>2
<1>7. CASE T # {}
  <2>1. PICK x \in T : TRUE
    BY <1>7
  <2> DEFINE U == T \ {x}
             V == A \cup T
  <2>2. U \notin family /\ U \in SUBSET B
    BY <1>3, <1>4, <2>1
  <2>3. SumFunctionOnSet(f, A \cup U) = SumFunctionOnSet(f, A) + SumFunctionOnSet(f, U)
    BY <1>2a, <2>2
  <2>4. \A y \in T : f[y] \in Int
    BY <1>4
  <2>5. SumFunctionOnSet(f, T) = f[x] + SumFunctionOnSet(f, U)
    BY <1>4, <2>1, <2>4, SumRemove
  <2>6. V \ {x} = A \cup U /\ x \in V /\ IsFiniteSet(V) /\ \A y \in V : f[y] \in Int
    BY <1>4, <2>1
  <2>7. SumFunctionOnSet(f, V) = f[x] + SumFunctionOnSet(f, V \ {x})
    <3> HIDE DEF V
    <3>1. QED
      BY <2>6, SumRemove
  <2>8. IsFiniteSet(U) /\ \A y \in U : f[y] \in Int
    BY <1>4, <2>4, FS_Subset
  <2>9. SumFunctionOnSet(f, U) \in Int /\ f[x] \in Int
    BY <2>1, <2>4, <2>8, SumInt
  <2>10. SumFunctionOnSet(f, V \ {x}) = SumFunctionOnSet(f, A) + SumFunctionOnSet(f, U)
    BY <2>3, <2>6
  <2>10a. SumFunctionOnSet(f, V) = SumFunctionOnSet(f, A) + SumFunctionOnSet(f, T)
    <3> HIDE DEF U, V
    <3>1. QED
      BY <1>5, <2>5, <2>7, <2>9, <2>10
  <2>11. QED
    BY <1>2a, <1>3, <2>10a
<1>8. QED
    BY <1>6, <1>7

\* A finite set of messages with numbers of links.
IsWeighed(M) == IsFiniteSet(M) /\ \A m \in M : m.total \in Nat /\ m.prompt \in Int

\* The links of a part of a set of messages are a sum over that part.
LEMMA LinkSumIs ==
    ASSUME NEW M, NEW N \in SUBSET M, IsWeighed(M)
    PROVE  /\ LinkSum(N) = SumFunctionOnSet([m \in M |-> m.total], N)
           /\ PromptSum(N) = SumFunctionOnSet([m \in M |-> m.prompt], N)
           /\ IsFiniteSet(N)
<1> DEFINE f == [m \in M |-> m.total]
           g == [m \in M |-> m.prompt]
           f1 == [m \in N |-> m.total]
           g1 == [m \in N |-> m.prompt]
<1>1. IsFiniteSet(N)
    BY FS_Subset DEF IsWeighed
<1>2. \A m \in N : f[m] \in Int /\ f1[m] = f[m]
    BY DEF IsWeighed
<1>3. \A m \in N : g[m] \in Int /\ g1[m] = g[m]
    BY DEF IsWeighed
<1>4. LinkSum(N) = SumFunctionOnSet(f1, N) /\ PromptSum(N) = SumFunctionOnSet(g1, N)
    BY DEF LinkSum, PromptSum
<1> HIDE DEF f, g, f1, g1
<1>5. SumFunctionOnSet(f1, N) = SumFunctionOnSet(f, N)
    BY <1>1, <1>2, SumSame
<1>6. SumFunctionOnSet(g1, N) = SumFunctionOnSet(g, N)
    BY <1>1, <1>3, SumSame
<1>7. QED
    BY <1>1, <1>4, <1>5, <1>6 DEF f, g

\* Links are natural numbers, and prompt links if those of each message are.
LEMMA LinkSumNat ==
    ASSUME NEW M, IsWeighed(M)
    PROVE  LinkSum(M) \in Nat /\ PromptSum(M) \in Int /\ ((\A m \in M : m.prompt >= 0) => PromptSum(M) >= 0)
<1> DEFINE f == [m \in M |-> m.total]
           g == [m \in M |-> m.prompt]
<1>1. \A m \in M : f[m] \in Nat
    BY DEF IsWeighed
<1>2. \A m \in M : g[m] \in Int
    BY DEF IsWeighed
<1>3. IsFiniteSet(M)
    BY DEF IsWeighed
<1>4. (\A m \in M : m.prompt >= 0) => \A m \in M : g[m] \in Nat
    BY <1>2
<1>5. LinkSum(M) = SumFunctionOnSet(f, M) /\ PromptSum(M) = SumFunctionOnSet(g, M)
    BY DEF LinkSum, PromptSum
<1> HIDE DEF f, g
<1>6. SumFunctionOnSet(f, M) \in Nat
    BY <1>1, <1>3, SumNat
<1>7. SumFunctionOnSet(g, M) \in Int
    BY <1>2, <1>3, SumInt
<1>8. (\A m \in M : g[m] \in Nat) => SumFunctionOnSet(g, M) \in Nat
    BY <1>3, SumNat
<1>9. QED
    BY <1>4, <1>5, <1>6, <1>7, <1>8

\* No message has no links.
LEMMA LinkSumEmpty ==
    LinkSum({}) = 0 /\ PromptSum({}) = 0
  BY SumEmpty DEF LinkSum, PromptSum

\* The sum of a part is no more than the whole; prompt links may be negative.
LEMMA LinkSumPart ==
    ASSUME NEW M, NEW N \in SUBSET M, IsWeighed(M)
    PROVE  LinkSum(N) <= LinkSum(M) /\ ((\A m \in M : m.prompt >= 0) => PromptSum(N) <= PromptSum(M))
<1> DEFINE f == [m \in M |-> m.total]
           g == [m \in M |-> m.prompt]
<1>1. \A m \in M : f[m] \in Nat
    BY DEF IsWeighed
<1>2. (\A m \in M : m.prompt >= 0) => \A m \in M : g[m] \in Nat
    BY DEF IsWeighed
<1>3. IsFiniteSet(M)
    BY DEF IsWeighed
<1>4. LinkSum(M) = SumFunctionOnSet(f, M) /\ PromptSum(M) = SumFunctionOnSet(g, M)
    BY DEF LinkSum, PromptSum
<1>5. LinkSum(N) = SumFunctionOnSet(f, N) /\ PromptSum(N) = SumFunctionOnSet(g, N)
    BY LinkSumIs
<1> HIDE DEF f, g
<1>6. SumFunctionOnSet(f, N) <= SumFunctionOnSet(f, M)
    BY <1>1, <1>3, SumWithin
<1>7. (\A m \in M : g[m] \in Nat) => SumFunctionOnSet(g, N) <= SumFunctionOnSet(g, M)
    BY <1>3, SumWithin
<1>8. QED
    BY <1>2, <1>4, <1>5, <1>6, <1>7

\* The links of two sets apart.
LEMMA LinkSumUnion ==
    ASSUME NEW M, NEW N, IsWeighed(M), IsWeighed(N), M \cap N = {}
    PROVE  /\ LinkSum(M \cup N) = LinkSum(M) + LinkSum(N)
           /\ PromptSum(M \cup N) = PromptSum(M) + PromptSum(N)
           /\ IsWeighed(M \cup N)
<1> DEFINE W == M \cup N
           f == [m \in W |-> m.total]
           g == [m \in W |-> m.prompt]
<1>1. IsWeighed(W) /\ M \in SUBSET W /\ N \in SUBSET W /\ W \in SUBSET W
    BY FS_Union DEF IsWeighed
<1>2. \A m \in W : f[m] \in Int /\ g[m] \in Int
    BY <1>1 DEF IsWeighed
<1> HIDE DEF W
<1>3. LinkSum(W) = SumFunctionOnSet(f, W) /\ PromptSum(W) = SumFunctionOnSet(g, W)
    BY <1>1, LinkSumIs
<1>4. LinkSum(M) = SumFunctionOnSet(f, M) /\ PromptSum(M) = SumFunctionOnSet(g, M)
    BY <1>1, LinkSumIs
<1>5. LinkSum(N) = SumFunctionOnSet(f, N) /\ PromptSum(N) = SumFunctionOnSet(g, N)
    BY <1>1, LinkSumIs
<1>6. IsFiniteSet(M) /\ IsFiniteSet(N)
    BY DEF IsWeighed
<1> USE DEF W
<1> HIDE DEF f, g
<1>7. SumFunctionOnSet(f, M \cup N) = SumFunctionOnSet(f, M) + SumFunctionOnSet(f, N)
    BY <1>2, <1>6, SumDisjoint
<1>8. SumFunctionOnSet(g, M \cup N) = SumFunctionOnSet(g, M) + SumFunctionOnSet(g, N)
    BY <1>2, <1>6, SumDisjoint
<1>9. QED
    BY <1>1, <1>3, <1>4, <1>5, <1>7, <1>8

\* The links of one message.
LEMMA LinkSumOne ==
    ASSUME NEW m, m.total \in Nat, m.prompt \in Int
    PROVE  LinkSum({m}) = m.total /\ PromptSum({m}) = m.prompt /\ IsWeighed({m})
<1> DEFINE f == [x \in {m} |-> x.total]
           g == [x \in {m} |-> x.prompt]
<1>1. IsFiniteSet({m})
    BY FS_Singleton
<1>1a. IsFiniteSet({m}) /\ f[m] = m.total /\ g[m] = m.prompt
    BY <1>1
<1>1b. \A x \in {m} : f[x] \in Int
    OBVIOUS
<1>1c. \A x \in {m} : g[x] \in Int
    OBVIOUS
<1>2. LinkSum({m}) = SumFunctionOnSet(f, {m}) /\ PromptSum({m}) = SumFunctionOnSet(g, {m})
    BY DEF LinkSum, PromptSum
<1>3. {m} \ {m} = {}
    OBVIOUS
<1> HIDE DEF f, g
<1>4. SumFunctionOnSet(f, {m}) = f[m] + SumFunctionOnSet(f, {m} \ {m})
    BY <1>1a, <1>1b, SumRemove, m \in {m}
<1>5. SumFunctionOnSet(g, {m}) = g[m] + SumFunctionOnSet(g, {m} \ {m})
    BY <1>1a, <1>1c, SumRemove, m \in {m}
<1>6. SumFunctionOnSet(f, {}) = 0 /\ SumFunctionOnSet(g, {}) = 0
    BY SumEmpty
<1>7. QED
    BY <1>1a, <1>2, <1>3, <1>4, <1>5, <1>6 DEF IsWeighed

\* A message more, and a message less.
LEMMA LinkSumAdd ==
    ASSUME NEW M, NEW m, IsWeighed(M), m.total \in Nat, m.prompt \in Int, m \notin M
    PROVE  /\ LinkSum(M \cup {m}) = LinkSum(M) + m.total
           /\ PromptSum(M \cup {m}) = PromptSum(M) + m.prompt
           /\ IsWeighed(M \cup {m})
<1>1. IsWeighed({m}) /\ M \cap {m} = {}
    BY LinkSumOne
<1>2. LinkSum({m}) = m.total /\ PromptSum({m}) = m.prompt
    BY LinkSumOne
<1>3. LinkSum(M \cup {m}) = LinkSum(M) + LinkSum({m}) /\ PromptSum(M \cup {m}) = PromptSum(M) + PromptSum({m})
    BY <1>1, LinkSumUnion
<1>3a. IsWeighed(M \cup {m})
    BY <1>1, LinkSumUnion
<1>4. QED
    BY <1>2, <1>3, <1>3a

\* The links of a set without one of its messages.
LEMMA LinkSumLess ==
    ASSUME NEW M, NEW m \in M, IsWeighed(M)
    PROVE  /\ LinkSum(M) = LinkSum(M \ {m}) + m.total
           /\ PromptSum(M) = PromptSum(M \ {m}) + m.prompt
           /\ IsWeighed(M \ {m})
<1> DEFINE N == M \ {m}
<1>1. IsWeighed(N) /\ m \notin N /\ M = N \cup {m} /\ m.total \in Nat /\ m.prompt \in Int
    BY FS_Subset DEF IsWeighed
<1> HIDE DEF N
<1>2. LinkSum(N \cup {m}) = LinkSum(N) + m.total /\ PromptSum(N \cup {m}) = PromptSum(N) + m.prompt
    BY <1>1, LinkSumAdd
<1>3. QED
    BY <1>1, <1>2 DEF N

-----------------------------------------------------------------------------
(* Sharing *)

\* The sum of numbers and one more.
LEMMA SumAppend ==
    ASSUME NEW L \in Nat, NEW f, NEW g, \A i \in 1 .. L + 1 : g[i] \in Int, \A i \in 1 .. L : f[i] = g[i]
    PROVE  /\ SumFunctionOnSet(g, 1 .. L + 1) = SumFunctionOnSet(f, 1 .. L) + g[L + 1]
           /\ SumFunctionOnSet(f, 1 .. L) \in Int
<1>1. IsFiniteSet(1 .. L)
    BY FS_Interval
<1>2. (1 .. L) \cup {L + 1} = 1 .. L + 1 /\ L + 1 \notin 1 .. L
    OBVIOUS
<1>3. SumFunctionOnSet(g, (1 .. L) \cup {L + 1}) = g[L + 1] + SumFunctionOnSet(g, 1 .. L)
  <2> DEFINE S == 1 .. L
             x == L + 1
  <2>1. x \notin S /\ IsFiniteSet(S) /\ \A y \in S \cup {x} : g[y] \in Int
    BY <1>1, <1>2
  <2> HIDE DEF S, x
  <2>2. SumFunctionOnSet(g, S \cup {x}) = g[x] + SumFunctionOnSet(g, S)
    BY <2>1, SumInsert
  <2>3. QED
    BY <2>2 DEF S, x
<1>4. SumFunctionOnSet(f, 1 .. L) = SumFunctionOnSet(g, 1 .. L)
  <2>1. \A y \in 1 .. L : g[y] \in Int /\ f[y] = g[y]
    OBVIOUS
  <2>2. QED
    BY <1>1, <2>1, SumSame
<1>5. SumFunctionOnSet(g, 1 .. L) \in Int
  <2>1. \A y \in 1 .. L : g[y] \in Int
    OBVIOUS
  <2>2. QED
    BY <1>1, <2>1, SumInt
<1>6. g[L + 1] \in Int
    OBVIOUS
<1>7. SumFunctionOnSet(g, 1 .. L + 1) = g[L + 1] + SumFunctionOnSet(g, 1 .. L)
    BY <1>2, <1>3
<1> DEFINE all == SumFunctionOnSet(g, 1 .. L + 1)
           some == SumFunctionOnSet(g, 1 .. L)
<1>8. all = g[L + 1] + some /\ some \in Int /\ SumFunctionOnSet(f, 1 .. L) = some
    BY <1>4, <1>5, <1>7
<1>9. QED
  <2> HIDE DEF all, some
  <2>1. all = some + g[L + 1]
    BY <1>6, <1>8
  <2>2. QED
    BY <1>8, <2>1 DEF all

\* g answers q with no more than it asks for.
Answers(g, q) ==
    /\ IsMessage(g) /\ SameKey(g, q) /\ g.type = q.type
    /\ g.total <= q.total /\ g.prompt <= q.prompt

\* q with other numbers of links.
Reply(q, t, p) == [q EXCEPT !.total = t, !.prompt = p]
\* All such messages.
Replies(q) == {Reply(q, t, p) : t \in Nat, p \in Int}

\* What Give appends is one of them.
LEMMA ReplyIs ==
    ASSUME NEW q, NEW t \in Nat, NEW p \in Int
    PROVE  [q EXCEPT !.total = t, !.prompt = p] \in Replies(q)
<1>1. Reply(q, t, p) \in Replies(q)
    BY DEF Replies
<1>2. QED
    BY <1>1 DEF Reply

\* It is a message of the same key, and answers q.
LEMMA RepliesAre ==
    ASSUME NEW q, IsMessage(q), NEW t \in Nat, NEW p \in Int, t <= q.total, p <= q.prompt, p <= t
    PROVE  LET g == [q EXCEPT !.total = t, !.prompt = p]
           IN  Answers(g, q) /\ g.total = t /\ g.prompt = p
<1> DEFINE g == [q EXCEPT !.total = t, !.prompt = p]
<1>1. q = Message(q.type, q.src, q.dst, q.epoch, q.iter, q.remaining, q.total, q.prompt)
    BY DEF IsMessage
<1>2. g = [q EXCEPT !.total = t, !.prompt = p]
    OBVIOUS
<1> HIDE DEF g
<1>3. /\ g = Message(g.type, g.src, g.dst, g.epoch, g.iter, g.remaining, g.total, g.prompt)
      /\ g.type = q.type /\ g.src = q.src /\ g.dst = q.dst /\ g.epoch = q.epoch /\ g.iter = q.iter
      /\ g.remaining = q.remaining /\ g.total = t /\ g.prompt = p
    BY <1>1, <1>2 DEF Message
<1>4. IsMessage(g)
    BY <1>3 DEF IsMessage
<1>5. QED
    BY <1>3, <1>4 DEF Answers, SameKey, g

\* acc is the recursive function of Allot.
Allots(acc, N, free, prompt, asks) ==
    acc = [n \in 0 .. N |-> IF n = 0 THEN [free |-> free, prompt |-> prompt, given |-> << >>] ELSE Give(acc[n - 1], asks[n])]

\* Allot takes it by CHOOSE.
LEMMA AllotIs ==
    ASSUME NEW free, NEW prompt, NEW asks
    PROVE  Allot(free, prompt, asks) = (CHOOSE acc : Allots(acc, Len(asks), free, prompt, asks))[Len(asks)].given
  BY DEF Allot, Allots

\* What it is for each number of messages.
LEMMA AllotsStep ==
    ASSUME NEW acc, NEW N \in Nat, NEW free, NEW prompt, NEW asks, Allots(acc, N, free, prompt, asks)
    PROVE  /\ acc[0] = [free |-> free, prompt |-> prompt, given |-> << >>]
           /\ \A n \in 1 .. N : acc[n] = Give(acc[n - 1], asks[n])
<1>1. 0 \in 0 .. N
    OBVIOUS
<1>2. acc[0] = [free |-> free, prompt |-> prompt, given |-> << >>]
    BY <1>1 DEF Allots
<1>3. ASSUME NEW n \in 1 .. N
      PROVE  acc[n] = Give(acc[n - 1], asks[n])
  <2>1. n \in 0 .. N /\ n # 0
    OBVIOUS
  <2>2. QED
    BY <2>1 DEF Allots
<1>4. QED
    BY <1>2, <1>3

\* There is such a function.
LEMMA AllotsExists ==
    ASSUME NEW N \in Nat, NEW free, NEW prompt, NEW asks
    PROVE  \E acc : Allots(acc, N, free, prompt, asks)
<1> DEFINE none == {n \in Nat : ~ \E acc : Allots(acc, n, free, prompt, asks)}
           first == [free |-> free, prompt |-> prompt, given |-> << >>]
<1>1. SUFFICES ASSUME none # {} PROVE FALSE
    OBVIOUS
<1>2. PICK n \in none : \A k \in none : ~ (<< k, n >> \in OpToRel(<, Nat))
    BY <1>1, NatLessThanWellFounded, WFMin
<1>3. \A k \in none : ~(k < n)
    BY <1>2 DEF OpToRel
<1>4. CASE n = 0
  <2>1. Allots([k \in 0 .. 0 |-> first], 0, free, prompt, asks)
    BY DEF Allots
  <2>2. QED
    BY <1>4, <2>1
<1>5. CASE n # 0
  <2>1. n - 1 \in Nat /\ n - 1 \notin none
    BY <1>3, <1>5
  <2>2. PICK f : Allots(f, n - 1, free, prompt, asks)
    BY <2>1
  <2> DEFINE final == Give(f[n - 1], asks[n])
             g == [k \in 0 .. n |-> IF k = n THEN final ELSE f[k]]
  <2>3. \A k \in 0 .. n - 1 : f[k] = IF k = 0 THEN first ELSE Give(f[k - 1], asks[k])
    BY <2>2 DEF Allots
  <2> HIDE DEF first, final
  <2>4. \A k \in 0 .. n - 1 : g[k] = f[k]
    BY <2>1
  <2>5. g[n] = final /\ g = [k \in 0 .. n |-> g[k]]
    BY <2>1
  <2> HIDE DEF g
  <2>6. ASSUME NEW k \in 0 .. n
        PROVE  g[k] = IF k = 0 THEN first ELSE Give(g[k - 1], asks[k])
    <3>1. CASE k = n
      <4>1. g[n - 1] = f[n - 1]
        BY <2>1, <2>4
      <4>2. g[n] = Give(g[n - 1], asks[n])
        BY <2>5, <4>1 DEF final
      <4>3. QED
        BY <1>5, <3>1, <4>2
    <3>2. CASE k # n
      <4>1. k \in 0 .. n - 1 /\ (k # 0 => k - 1 \in 0 .. n - 1)
        BY <2>1, <3>2
      <4>2. QED
        BY <2>3, <2>4, <4>1
    <3>3. QED
        BY <3>1, <3>2
  <2>7. g = [k \in 0 .. n |-> IF k = 0 THEN first ELSE Give(g[k - 1], asks[k])]
    BY <2>5, <2>6
  <2>8. Allots(g, n, free, prompt, asks)
    BY <2>7 DEF Allots, first
  <2>9. QED
    BY <2>8
<1>6. QED
    BY <1>4, <1>5

\* What holds of the first n messages, of which those with room have an answer.
Dealt(A, n, free, prompt, asks) ==
    /\ A = [free |-> A.free, prompt |-> A.prompt, given |-> A.given]
    /\ A.given \in Seq(UNION {Replies(asks[k]) : k \in DOMAIN asks})
    /\ Len(A.given) <= n /\ (A.free > 0 => Len(A.given) = n)
    /\ \A i \in 1 .. Len(A.given) : Answers(A.given[i], asks[i])
    /\ A.free \in Nat /\ A.prompt \in Int
    /\ A.free = free - SumFunctionOnSet(Totals(A.given), 1 .. Len(A.given))
    /\ A.prompt = prompt - SumFunctionOnSet(Prompts(A.given), 1 .. Len(A.given))
    /\ prompt >= 0 => A.prompt >= 0
    /\ prompt >= 0 /\ (\A i \in DOMAIN asks : asks[i].prompt >= 0) => \A i \in 1 .. Len(A.given) : A.given[i].prompt >= 0

\* It holds of none.
LEMMA DealtFirst ==
    ASSUME NEW free \in Nat, NEW prompt \in Int, NEW asks
    PROVE  Dealt([free |-> free, prompt |-> prompt, given |-> << >>], 0, free, prompt, asks)
<1> DEFINE A == [free |-> free, prompt |-> prompt, given |-> << >>]
<1>1. A.given = << >> /\ Len(A.given) = 0 /\ 1 .. Len(A.given) = {} /\ A.free = free /\ A.prompt = prompt
    OBVIOUS
<1>2. SumFunctionOnSet(Totals(A.given), {}) = 0 /\ SumFunctionOnSet(Prompts(A.given), {}) = 0
    BY SumEmpty
<1>3. A = [free |-> A.free, prompt |-> A.prompt, given |-> A.given]
    OBVIOUS
<1>4. A.given \in Seq(UNION {Replies(asks[k]) : k \in DOMAIN asks})
    BY <1>1
<1> HIDE DEF A
<1>5. QED
  <2>1. Dealt(A, 0, free, prompt, asks)
    BY <1>1, <1>2, <1>3, <1>4 DEF Dealt
  <2>2. QED
    BY <2>1 DEF A

\* It holds of one more.
LEMMA DealtNext ==
    ASSUME NEW free \in Nat, NEW prompt \in Int, NEW asks, NEW n \in Nat, n + 1 \in DOMAIN asks,
           IsMessage(asks[n + 1]), NEW A, Dealt(A, n, free, prompt, asks)
    PROVE  Dealt(Give(A, asks[n + 1]), n + 1, free, prompt, asks)
<1> DEFINE S == UNION {Replies(asks[k]) : k \in DOMAIN asks}
           q == asks[n + 1]
           total == Smaller(A.free, q.total)
           part == Smaller(A.prompt, Smaller(total, q.prompt))
           g == [q EXCEPT !.total = total, !.prompt = part]
           given == Append(A.given, g)
           B == [free |-> A.free - total, prompt |-> A.prompt - part, given |-> given]
<1>1. /\ A.given \in Seq(S) /\ Len(A.given) \in Nat /\ Len(A.given) <= n /\ (A.free > 0 => Len(A.given) = n)
      /\ A.free \in Nat /\ A.prompt \in Int
    BY DEF Dealt
<1>2. CASE A.free <= 0
  <2>1. Give(A, q) = A
    BY <1>2 DEF Give
  <2>2. Dealt(A, n + 1, free, prompt, asks)
    BY <1>1, <1>2 DEF Dealt
  <2>3. QED
    BY <2>1, <2>2
<1>3. CASE A.free > 0
  <2>1. Give(A, q) = B
    BY <1>1, <1>3 DEF Give
  <2>2. q.total \in Nat /\ q.prompt \in Int /\ IsMessage(q)
    BY DEF IsMessage
  <2>3. total \in Nat /\ total <= A.free /\ total <= q.total
    BY <1>1, <1>3, <2>2 DEF Smaller
  <2>4. part \in Int /\ part <= A.prompt /\ part <= total /\ part <= q.prompt
      /\ (A.prompt >= 0 /\ q.prompt >= 0 => part >= 0)
    <3> HIDE DEF total, q
    <3>1. QED
      BY <1>1, <2>2, <2>3 DEF Smaller
  <2>5. g \in S
    <3> HIDE DEF total, part, q, S
    <3>1. g \in Replies(q)
      BY <2>3, <2>4, ReplyIs
    <3>2. QED
      BY <3>1 DEF q, S
  <2>6. Len(A.given) = n
    BY <1>1, <1>3
  <2> HIDE DEF total, part, S, q
  <2>7. Answers(g, q) /\ g.total = total /\ g.prompt = part
    BY <2>2, <2>3, <2>4, RepliesAre
  <2> HIDE DEF g
  <2>8. /\ given \in Seq(S) /\ Len(given) = n + 1 /\ given[n + 1] = g
        /\ \A i \in 1 .. n : given[i] = A.given[i]
        /\ DOMAIN given = 1 .. n + 1 /\ DOMAIN A.given = 1 .. n
    BY <1>1, <2>5, <2>6
  <2> HIDE DEF given
  <2>9. \A i \in 1 .. n + 1 : Answers(given[i], asks[i])
    <3>1. \A i \in 1 .. n : Answers(A.given[i], asks[i])
      BY <2>6 DEF Dealt
    <3>2. ASSUME NEW i \in 1 .. n + 1 PROVE Answers(given[i], asks[i])
      <4>1. CASE i = n + 1
        BY <2>7, <2>8, <4>1 DEF q
      <4>2. CASE i # n + 1
        <5>1. i \in 1 .. n
          BY <4>2
        <5>2. QED
          BY <2>8, <3>1, <5>1
      <4>3. QED
        BY <4>1, <4>2
    <3>3. QED
      BY <3>2
  <2>10. \A i \in 1 .. n + 1 : given[i].total \in Nat /\ given[i].prompt \in Int
    BY <2>9 DEF Answers, IsMessage
  <2>11. SumFunctionOnSet(Totals(given), 1 .. n + 1) = SumFunctionOnSet(Totals(A.given), 1 .. n) + total
      /\ SumFunctionOnSet(Totals(A.given), 1 .. n) \in Int
    <3> DEFINE f == Totals(A.given)
               h == Totals(given)
    <3>1. \A i \in 1 .. n + 1 : h[i] = given[i].total
      BY <2>8 DEF Totals
    <3>2. \A i \in 1 .. n : f[i] = A.given[i].total
      BY <2>8 DEF Totals
    <3>3. h[n + 1] = total
      BY <2>7, <2>8, <3>1
    <3>4. \A i \in 1 .. n : f[i] = h[i]
      BY <2>8, <3>1, <3>2
    <3>5. \A i \in 1 .. n + 1 : h[i] \in Int
      BY <2>10, <3>1
    <3> HIDE DEF f, h
    <3>6. SumFunctionOnSet(h, 1 .. n + 1) = SumFunctionOnSet(f, 1 .. n) + h[n + 1]
       /\ SumFunctionOnSet(f, 1 .. n) \in Int
      BY <3>4, <3>5, SumAppend
    <3>7. QED
      BY <3>3, <3>6 DEF f, h
  <2>12. SumFunctionOnSet(Prompts(given), 1 .. n + 1) = SumFunctionOnSet(Prompts(A.given), 1 .. n) + part
      /\ SumFunctionOnSet(Prompts(A.given), 1 .. n) \in Int
    <3> DEFINE f == Prompts(A.given)
               h == Prompts(given)
    <3>1. \A i \in 1 .. n + 1 : h[i] = given[i].prompt
      BY <2>8 DEF Prompts
    <3>2. \A i \in 1 .. n : f[i] = A.given[i].prompt
      BY <2>8 DEF Prompts
    <3>3. h[n + 1] = part
      BY <2>7, <2>8, <3>1
    <3>4. \A i \in 1 .. n : f[i] = h[i]
      BY <2>8, <3>1, <3>2
    <3>5. \A i \in 1 .. n + 1 : h[i] \in Int
      BY <2>10, <3>1
    <3> HIDE DEF f, h
    <3>6. SumFunctionOnSet(h, 1 .. n + 1) = SumFunctionOnSet(f, 1 .. n) + h[n + 1]
       /\ SumFunctionOnSet(f, 1 .. n) \in Int
      BY <3>4, <3>5, SumAppend
    <3>7. QED
      BY <3>3, <3>6 DEF f, h
  <2>13. /\ A.free = free - SumFunctionOnSet(Totals(A.given), 1 .. n)
         /\ A.prompt = prompt - SumFunctionOnSet(Prompts(A.given), 1 .. n)
         /\ prompt >= 0 => A.prompt >= 0
    BY <2>6 DEF Dealt
  <2>14. prompt >= 0 /\ (\A i \in DOMAIN asks : asks[i].prompt >= 0) => \A i \in 1 .. n + 1 : given[i].prompt >= 0
    <3>1. SUFFICES ASSUME prompt >= 0, \A i \in DOMAIN asks : asks[i].prompt >= 0, NEW i \in 1 .. n + 1
                   PROVE  given[i].prompt >= 0
      OBVIOUS
    <3>2. CASE i = n + 1
      <4>1. q.prompt >= 0
        BY <3>1 DEF q
      <4>2. QED
        BY <2>4, <2>7, <2>8, <2>13, <3>1, <3>2, <4>1
    <3>3. CASE i # n + 1
      <4>1. i \in 1 .. n
        BY <3>3
      <4>2. A.given[i].prompt >= 0
        BY <2>6, <3>1, <4>1 DEF Dealt
      <4>3. QED
        BY <2>8, <4>1, <4>2
    <3>4. QED
      BY <3>2, <3>3
  <2>15. B.free = A.free - total /\ B.prompt = A.prompt - part /\ B.given = given
       /\ B = [free |-> B.free, prompt |-> B.prompt, given |-> B.given]
    OBVIOUS
  <2> HIDE DEF B
  <2>16. B.free \in Nat /\ B.prompt \in Int /\ (prompt >= 0 => B.prompt >= 0)
    BY <1>1, <2>3, <2>4, <2>13, <2>15
  <2>17. B.free = free - SumFunctionOnSet(Totals(given), 1 .. n + 1)
    BY <1>1, <2>3, <2>11, <2>13, <2>15
  <2>18. B.prompt = prompt - SumFunctionOnSet(Prompts(given), 1 .. n + 1)
    BY <1>1, <2>4, <2>12, <2>13, <2>15
  <2>19. Dealt(B, n + 1, free, prompt, asks)
    BY <2>8, <2>9, <2>14, <2>15, <2>16, <2>17, <2>18 DEF Dealt, S
  <2>20. QED
    BY <2>1, <2>19 DEF q
<1>4. QED
    BY <1>1, <1>2, <1>3

\* What handle_all_req and handle_all_grants answer to the messages of a queue.
Deals(given, Q, free, prompt) ==
    /\ IsWeighed(Range(given)) /\ \A g \in Range(given) : \E q \in Q : Answers(g, q)
    /\ \A g, h \in Range(given) : SameKey(g, h) => g = h
    /\ SumFunction(Totals(given)) = LinkSum(Range(given)) /\ LinkSum(Range(given)) <= free
    /\ SumFunction(Prompts(given)) = PromptSum(Range(given))
    /\ prompt >= 0 => PromptSum(Range(given)) <= prompt
    /\ prompt >= 0 /\ (\A q \in Q : q.prompt >= 0) => \A g \in Range(given) : g.prompt >= 0
    /\ \A s \in Host : /\ SumFunctionOnSet(Totals(given), From(s, given)) = LinkSum({g \in Range(given) : g.src = s})
                       /\ SumFunctionOnSet(Prompts(given), From(s, given)) = PromptSum({g \in Range(given) : g.src = s})
    /\ given = << >> <=> Range(given) = {}

\* Sums over a sequence of different messages are sums over their set.
LEMMA SumsOfSequence ==
    ASSUME NEW given, NEW L \in Nat, DOMAIN given = 1 .. L,
           \A i \in 1 .. L : given[i].total \in Nat /\ given[i].prompt \in Int,
           \A i, j \in 1 .. L : given[i] = given[j] => i = j,
           NEW S \in SUBSET (1 .. L)
    PROVE  /\ IsWeighed(Names(given, S))
           /\ SumFunctionOnSet(Totals(given), S) = LinkSum(Names(given, S))
           /\ SumFunctionOnSet(Prompts(given), S) = PromptSum(Names(given, S))
<1> DEFINE G == Names(given, S)
           f == Totals(given)
           h == Prompts(given)
           t == [m \in G |-> m.total]
           p == [m \in G |-> m.prompt]
<1>1. IsFiniteSet(S)
  <2>1. IsFiniteSet(1 .. L)
    BY FS_Interval
  <2>2. QED
    BY <2>1, FS_Subset
<1>2. \A i \in S : /\ f[i] = given[i].total /\ h[i] = given[i].prompt /\ given[i] \in G
                    /\ given[i].total \in Int /\ given[i].prompt \in Int
    BY DEF Totals, Prompts, Names
<1>3. \A m \in G : t[m] = m.total /\ p[m] = m.prompt
    OBVIOUS
<1>5. LinkSum(G) = SumFunctionOnSet(t, G) /\ PromptSum(G) = SumFunctionOnSet(p, G)
    BY DEF LinkSum, PromptSum
<1> HIDE DEF f, h, t, p
<1>5a. \A i, j \in S : given[i] = given[j] => i = j
    OBVIOUS
<1>5b. \A i \in S : f[i] \in Int /\ t[given[i]] = f[i]
    BY <1>2, <1>3
<1>5c. \A i \in S : h[i] \in Int /\ p[given[i]] = h[i]
    BY <1>2, <1>3
<1>6. Renames(f, t, given, S) /\ Renames(h, p, given, S)
    BY <1>1, <1>5a, <1>5b, <1>5c DEF Renames
<1>7. SumFunctionOnSet(t, Names(given, S)) = SumFunctionOnSet(f, S) /\ IsFiniteSet(Names(given, S))
    BY <1>6, SumNamed
<1>7a. SumFunctionOnSet(p, Names(given, S)) = SumFunctionOnSet(h, S)
    BY <1>6, SumNamed
<1>8. IsWeighed(G)
    BY <1>2, <1>7 DEF IsWeighed, G, Names
<1>9. QED
    BY <1>5, <1>7, <1>7a, <1>8 DEF f, h, G

\* Allot deals out what is free.
LEMMA AllotDeals ==
    ASSUME NEW Q, IsFiniteSet(Q), \A q \in Q : IsMessage(q), \A p, q \in Q : SameKey(p, q) => p = q,
           NEW free \in Nat, NEW prompt \in Int, NEW order \in SetToSeqs(Q)
    PROVE  Deals(Allot(free, prompt, order), Q, free, prompt)
<1> DEFINE N == Cardinality(Q)
<1>1. N \in Nat
    BY FS_CardinalityType
<1>2. order \in [1 .. N -> Q] /\ \A i, j \in 1 .. N : i # j => order[i] # order[j]
    BY DEF SetToSeqs
<1> HIDE DEF N
<1>3. order \in Seq(Q) /\ Len(order) = N /\ DOMAIN order = 1 .. N
    BY <1>1, <1>2
<1> DEFINE acc == CHOOSE acc : Allots(acc, N, free, prompt, order)
           A == acc[N]
<1>4. Allots(acc, N, free, prompt, order)
    BY <1>1, AllotsExists
<1>5. Allot(free, prompt, order) = A.given
    BY <1>3, AllotIs
<1> HIDE DEF acc
<1>6. acc[0] = [free |-> free, prompt |-> prompt, given |-> << >>]
      /\ \A n \in 1 .. N : acc[n] = Give(acc[n - 1], order[n])
    BY <1>1, <1>4, AllotsStep
<1>7. \A n \in 0 .. N : Dealt(acc[n], n, free, prompt, order)
  <2> DEFINE bad == {n \in Nat : n \in 0 .. N /\ ~Dealt(acc[n], n, free, prompt, order)}
  <2>1. SUFFICES ASSUME bad # {} PROVE FALSE
    BY <1>1
  <2>2. PICK n \in bad : \A k \in bad : ~ (<< k, n >> \in OpToRel(<, Nat))
    BY <2>1, NatLessThanWellFounded, WFMin
  <2>3. \A k \in bad : ~(k < n)
    BY <2>2 DEF OpToRel
  <2>4. Dealt(acc[0], 0, free, prompt, order)
    BY <1>6, DealtFirst
  <2>5. n # 0
    BY <2>2, <2>4
  <2>5a. n \in Nat /\ n \in 0 .. N
    BY <2>2
  <2>6. n \in 1 .. N /\ n - 1 \in Nat /\ n - 1 \in 0 .. N
    <3> HIDE DEF bad
    <3>1. QED
      BY <1>1, <2>5, <2>5a
  <2>7. n - 1 \notin bad
    BY <2>3, <2>6
  <2>8. Dealt(acc[n - 1], n - 1, free, prompt, order)
    BY <2>6, <2>7
  <2>9. acc[n] = Give(acc[n - 1], order[n])
    BY <1>6, <2>6
  <2>10. n \in DOMAIN order /\ IsMessage(order[n])
    BY <1>2, <1>3, <2>6
  <2>11. \A k \in Nat : \A B : k + 1 \in DOMAIN order /\ IsMessage(order[k + 1]) /\ Dealt(B, k, free, prompt, order)
            => Dealt(Give(B, order[k + 1]), k + 1, free, prompt, order)
    BY DealtNext
  <2> DEFINE k == n - 1
  <2>12. k \in Nat /\ k + 1 = n
    BY <2>6
  <2>13. Dealt(Give(acc[k], order[n]), n, free, prompt, order)
    <3> HIDE DEF k
    <3>1. Dealt(acc[k], k, free, prompt, order)
      BY <2>8 DEF k
    <3>2. QED
      BY <2>10, <2>11, <2>12, <3>1
  <2>14. QED
    BY <2>2, <2>9, <2>13
<1>8. Dealt(A, N, free, prompt, order)
    BY <1>1, <1>7
<1> DEFINE given == A.given
           L == Len(given)
           G == Range(given)
<1>9. /\ given \in Seq(UNION {Replies(order[k]) : k \in DOMAIN order}) /\ L <= N
      /\ \A i \in 1 .. L : Answers(given[i], order[i])
      /\ A.free \in Nat /\ A.prompt \in Int
      /\ A.free = free - SumFunctionOnSet(Totals(given), 1 .. L)
      /\ A.prompt = prompt - SumFunctionOnSet(Prompts(given), 1 .. L)
      /\ prompt >= 0 => A.prompt >= 0
      /\ prompt >= 0 /\ (\A i \in DOMAIN order : order[i].prompt >= 0) => \A i \in 1 .. L : given[i].prompt >= 0
    BY <1>8 DEF Dealt
<1>10. L \in Nat /\ DOMAIN given = 1 .. L
    BY <1>9
<1> HIDE DEF A
<1> HIDE DEF given, L
<1>11. \A i \in 1 .. L : i \in 1 .. N /\ order[i] \in Q
    BY <1>1, <1>2, <1>9, <1>10
<1>12. \A i, j \in 1 .. L : SameKey(given[i], given[j]) => i = j
  <2> SUFFICES ASSUME NEW i \in 1 .. L, NEW j \in 1 .. L, SameKey(given[i], given[j])
               PROVE  i = j
    OBVIOUS
  <2>1. SameKey(order[i], order[j])
    BY <1>9 DEF Answers, SameKey
  <2>2. order[i] = order[j]
    BY <1>11, <2>1
  <2>3. QED
    BY <1>2, <1>11, <2>2
<1>13. \A i, j \in 1 .. L : given[i] = given[j] => i = j
    BY <1>12 DEF SameKey
<1>14. \A i \in 1 .. L : given[i].total \in Nat /\ given[i].prompt \in Int
    BY <1>9 DEF Answers, IsMessage
<1>15. G = {given[i] : i \in 1 .. L}
    BY <1>10 DEF Range
<1>16. IsWeighed(G) /\ SumFunctionOnSet(Totals(given), 1 .. L) = LinkSum(G)
       /\ SumFunctionOnSet(Prompts(given), 1 .. L) = PromptSum(G)
  <2> HIDE DEF G
  <2> DEFINE S == 1 .. L
  <2>1. S \in SUBSET (1 .. L) /\ G = Names(given, S)
    BY <1>15 DEF Names
  <2> HIDE DEF S
  <2>2. IsWeighed(Names(given, S)) /\ SumFunctionOnSet(Totals(given), S) = LinkSum(Names(given, S))
       /\ SumFunctionOnSet(Prompts(given), S) = PromptSum(Names(given, S))
    BY <1>10, <1>13, <1>14, <2>1, SumsOfSequence
  <2>3. QED
    BY <2>1, <2>2 DEF S
<1>17. SumFunction(Totals(given)) = LinkSum(G) /\ SumFunction(Prompts(given)) = PromptSum(G)
  <2>1. DOMAIN Totals(given) = 1 .. L /\ DOMAIN Prompts(given) = 1 .. L
    BY <1>10 DEF Totals, Prompts
  <2>2. QED
    BY <1>16, <2>1 DEF SumFunction, FoldFunction, SumFunctionOnSet
<1>18. ASSUME NEW s \in Host
       PROVE  /\ SumFunctionOnSet(Totals(given), From(s, given)) = LinkSum({g \in G : g.src = s})
              /\ SumFunctionOnSet(Prompts(given), From(s, given)) = PromptSum({g \in G : g.src = s})
  <2> DEFINE S == From(s, given)
             H == {g \in G : g.src = s}
  <2>1. S \in SUBSET (1 .. L) /\ H = Names(given, S)
    BY <1>10, <1>15 DEF From, Names
  <2> HIDE DEF S, H
  <2>2. SumFunctionOnSet(Totals(given), S) = LinkSum(Names(given, S))
       /\ SumFunctionOnSet(Prompts(given), S) = PromptSum(Names(given, S))
    BY <1>10, <1>13, <1>14, <2>1, SumsOfSequence
  <2>3. QED
    BY <2>1, <2>2 DEF S, H
<1>19. \A g \in G : \E q \in Q : Answers(g, q)
    BY <1>9, <1>11, <1>15
<1>20. \A g, h \in G : SameKey(g, h) => g = h
    BY <1>12, <1>15
<1>21. LinkSum(G) \in Nat /\ PromptSum(G) \in Int
    BY <1>16, LinkSumNat
<1>22. LinkSum(G) <= free /\ (prompt >= 0 => PromptSum(G) <= prompt)
  <2> HIDE DEF G
  <2>1. A.free = free - LinkSum(G) /\ A.prompt = prompt - PromptSum(G)
    BY <1>9, <1>16
  <2>2. QED
    BY <1>9, <1>21, <2>1
<1>23. prompt >= 0 /\ (\A q \in Q : q.prompt >= 0) => \A g \in G : g.prompt >= 0
    BY <1>2, <1>3, <1>9, <1>15
<1>24. given = << >> <=> G = {}
  <2>1. given = << >> => L = 0
    BY DEF L
  <2>2. L = 0 => given = << >>
    BY <1>9 DEF L
  <2>3. L = 0 <=> G = {}
    BY <1>10, <1>15
  <2>4. QED
    BY <2>1, <2>2, <2>3
<1>25. Deals(given, Q, free, prompt)
    BY <1>16, <1>17, <1>18, <1>19, <1>20, <1>22, <1>23, <1>24 DEF Deals
<1>26. QED
    BY <1>5, <1>25 DEF given, A

\* So does a host that answers nothing.
LEMMA NothingDeals ==
    ASSUME NEW Q, NEW free \in Nat, NEW prompt \in Int
    PROVE  Deals(<< >>, Q, free, prompt)
<1> DEFINE given == << >>
           G == Range(given)
<1>1. DOMAIN given = {} /\ G = {}
    BY DEF Range
<1>2. IsWeighed(G)
    BY <1>1, FS_EmptySet DEF IsWeighed
<1>3. DOMAIN Totals(given) = {} /\ DOMAIN Prompts(given) = {}
    BY <1>1 DEF Totals, Prompts
<1>4. SumFunction(Totals(given)) = 0 /\ SumFunction(Prompts(given)) = 0
  <2>1. SumFunctionOnSet(Totals(given), {}) = 0 /\ SumFunctionOnSet(Prompts(given), {}) = 0
    BY SumEmpty
  <2>2. QED
    BY <1>3, <2>1 DEF SumFunction, FoldFunction, SumFunctionOnSet
<1>5. LinkSum(G) = 0 /\ PromptSum(G) = 0
    BY <1>1, LinkSumEmpty
<1>6. ASSUME NEW s \in Host
      PROVE  /\ SumFunctionOnSet(Totals(given), From(s, given)) = LinkSum({g \in G : g.src = s})
             /\ SumFunctionOnSet(Prompts(given), From(s, given)) = PromptSum({g \in G : g.src = s})
  <2>1. From(s, given) = {} /\ {g \in G : g.src = s} = {}
    BY <1>1 DEF From
  <2>2. SumFunctionOnSet(Totals(given), {}) = 0 /\ SumFunctionOnSet(Prompts(given), {}) = 0
    BY SumEmpty
  <2>3. QED
    BY <2>1, <2>2, LinkSumEmpty
<1>7. Deals(given, Q, free, prompt)
  <2> HIDE DEF G
  <2>1. /\ IsWeighed(G) /\ \A g \in G : \E q \in Q : Answers(g, q)
        /\ \A g, h \in G : SameKey(g, h) => g = h
        /\ LinkSum(G) <= free /\ (prompt >= 0 => PromptSum(G) <= prompt)
        /\ \A g \in G : g.prompt >= 0
        /\ given = << >> <=> G = {}
    BY <1>1, <1>2, <1>5 DEF G
  <2> USE DEF G
  <2> HIDE DEF given
  <2>2. QED
    BY <1>4, <1>5, <1>6, <2>1 DEF Deals
<1>8. QED
    BY <1>7

\* The sum over the messages of each host is the sum over all.
LEMMA LinkSumByHost ==
    ASSUME NEW M, IsWeighed(M), NEW key, \A m \in M : key[m] \in Host
    PROVE  /\ SumFunction([h \in Host |-> LinkSum({m \in M : key[m] = h})]) = LinkSum(M)
           /\ SumFunction([h \in Host |-> PromptSum({m \in M : key[m] = h})]) = PromptSum(M)
<1> DEFINE t == [m \in M |-> m.total]
           p == [m \in M |-> m.prompt]
           T == [h \in Host |-> SumFunctionOnSet(t, {m \in M : key[m] = h})]
           P == [h \in Host |-> SumFunctionOnSet(p, {m \in M : key[m] = h})]
<1>1. IsFiniteSet(M) /\ IsFiniteSet(Host)
    BY MatchAssumption DEF IsWeighed
<1>2. (\A m \in M : t[m] \in Int /\ key[m] \in Host) /\ \A m \in M : p[m] \in Int /\ key[m] \in Host
    BY DEF IsWeighed
<1>3. LinkSum(M) = SumFunctionOnSet(t, M) /\ PromptSum(M) = SumFunctionOnSet(p, M)
    BY DEF LinkSum, PromptSum
<1>4. ASSUME NEW h \in Host
      PROVE  /\ LinkSum({m \in M : key[m] = h}) = SumFunctionOnSet(t, {m \in M : key[m] = h})
             /\ PromptSum({m \in M : key[m] = h}) = SumFunctionOnSet(p, {m \in M : key[m] = h})
  <2>1. {m \in M : key[m] = h} \in SUBSET M
    OBVIOUS
  <2>2. QED
    BY <2>1, LinkSumIs
<1>5. T = [h \in Host |-> LinkSum({m \in M : key[m] = h})] /\ P = [h \in Host |-> PromptSum({m \in M : key[m] = h})]
    BY <1>4
<1>6. DOMAIN T = Host /\ DOMAIN P = Host
    OBVIOUS
<1>7. SumFunctionOnSet(T, Host) = SumFunctionOnSet(t, M)
  <2> HIDE DEF t
  <2>1. QED
    BY <1>1, <1>2, SumByKey
<1>8. SumFunctionOnSet(P, Host) = SumFunctionOnSet(p, M)
  <2> HIDE DEF p
  <2>1. QED
    BY <1>1, <1>2, SumByKey
<1>9. SumFunction(T) = SumFunctionOnSet(T, DOMAIN T) /\ SumFunction(P) = SumFunctionOnSet(P, DOMAIN P)
    BY DEF SumFunction, SumFunctionOnSet, FoldFunction
<1> HIDE DEF T, P, t, p
<1>10. QED
    BY <1>3, <1>5, <1>6, <1>7, <1>8, <1>9

-----------------------------------------------------------------------------
(* The steps *)

\* The epochs after a step that changes one of them.
Turned(h, e, F, D) ==
    /\ DOMAIN epochs' = Host /\ e \in D
    /\ DOMAIN epochs'[h] = D /\ epochs'[h][e] = F
    /\ \A i \in D : i # e => i \in DOMAIN epochs[h] /\ epochs'[h][i] = epochs[h][i]
    /\ \A g \in Host : g # h => epochs'[g] = epochs[g]

\* What a host has as a receiver stays as it is.
KeepsTx(F, E) ==
    /\ F.from = E.from /\ F.from_prompt = E.from_prompt
    /\ F.num_tx_link = E.num_tx_link /\ F.num_tx_prompt_link = E.num_tx_prompt_link

\* What it has as a sender does.
KeepsRx(F, E) ==
    /\ F.to = E.to /\ F.to_prompt = E.to_prompt
    /\ F.num_rx_link = E.num_rx_link /\ F.num_rx_prompt_link = E.num_rx_prompt_link

\* Its rounds do.
KeepsTimes(F, E) == F.iter = E.iter /\ F.receiver_at = E.receiver_at /\ F.sender_at = E.sender_at

\* Its queues do.
KeepsQueues(F, E) == F.req_q = E.req_q /\ F.grants_q = E.grants_q

\* The requests of a round.
Asks(Q, h, e, F) ==
    /\ IsFiniteSet(Q)
    /\ \A q \in Q : /\ IsMessage(q) /\ q.type = "req" /\ q.dst = h /\ q.epoch = e /\ q.iter = F.iter
                    /\ q.prompt >= 0
    /\ \A p, q \in Q : p.src = q.src => p = q

\* The messages that are about a source.
OfSource(s, M) == {m \in M : m.src = s}

\* A receiver's round: what it accepts (given), asks for (Q) and has afterwards (F).
ReceiverTurn(h, e, given, F, Q) ==
    LET E == epochs[h][e]
        G == Range(given)
    IN  /\ ReceiverDue(h, e)
        /\ Deals(given, E.grants_q, PimK - E.num_tx_link, PimK - E.num_tx_prompt_link)
        /\ IsEpoch(F) /\ F.iter = E.iter + 1 /\ F.sender_at = E.sender_at
        /\ F.num_tx_link = E.num_tx_link + LinkSum(G) /\ F.num_tx_prompt_link = E.num_tx_prompt_link + PromptSum(G)
        /\ \A s \in Host : /\ F.from[s] = E.from[s] + LinkSum(OfSource(s, G))
                           /\ F.from_prompt[s] = E.from_prompt[s] + PromptSum(OfSource(s, G))
        /\ KeepsRx(F, E) /\ F.req_q = {} /\ F.grants_q = {}
        /\ \/ /\ F.iter <= IterLimit /\ F.receiver_at = clock + 2
              /\ Turned(h, e, F, DOMAIN epochs[h]) /\ links' = links
              /\ Asks(Q, h, e, F)
           \/ /\ F.iter > IterLimit /\ F.receiver_at = Never
              /\ Turned(h, e, F, DOMAIN epochs[h] \ {e - 1}) /\ links' = [links EXCEPT ![h] = F.from]
              /\ Q = {}
        /\ packets' = packets \cup AcceptPkts(given) \cup Q
        /\ UNCHANGED << clock, new_epoch, size, to_come, late >>

\* send_all_req asks each source once, for a natural number of links.
LEMMA RequestsAre ==
    ASSUME MatchTyped, NEW h \in Host, NEW e \in Nat, NEW E, IsEpoch(E), E.iter \in 1 .. IterLimit
    PROVE  Asks(Requests(h, e, E), h, e, E)
<1> DEFINE need(s) == size[<<s, h>>] - (links[h][s] + E.from[s])
           ask(s)  == Smaller(need(s), PimK - E.num_tx_link)
           P == {s \in Host : <<s, h>> \in Pairs /\ need(s) > 0}
           msg(s) == Message("req", s, h, e, E.iter, size[<<s, h>>], ask(s), Smaller(ask(s), PimK - E.num_tx_prompt_link))
<1>1. CASE E.num_tx_link = PimK
  <2>1. Requests(h, e, E) = {}
    BY <1>1 DEF Requests
  <2>2. QED
    BY <2>1, FS_EmptySet DEF Asks
<1>2. CASE E.num_tx_link # PimK
  <2>1. Requests(h, e, E) = {msg(s) : s \in P}
    BY <1>2 DEF Requests
  <2>2. ASSUME NEW s \in P
        PROVE  /\ IsMessage(msg(s)) /\ msg(s).type = "req" /\ msg(s).dst = h /\ msg(s).epoch = e /\ msg(s).iter = E.iter
               /\ msg(s).prompt >= 0 /\ msg(s).src = s
    <3>1. size[<<s, h>>] \in Nat /\ links[h][s] \in Nat /\ E.from[s] \in Nat
      BY DEF MatchTyped, IsEpoch
    <3>2. need(s) \in Int /\ need(s) > 0
      BY <3>1
    <3>3. PimK - E.num_tx_link \in Nat /\ PimK - E.num_tx_prompt_link \in Nat
      BY MatchAssumption DEF IsEpoch
    <3> DEFINE n == ask(s)
               p == Smaller(n, PimK - E.num_tx_prompt_link)
    <3>4. n \in Nat
      <4> HIDE DEF need
      <4>1. QED
        BY <3>2, <3>3 DEF Smaller
    <3> HIDE DEF n
    <3>5. p \in Nat /\ p <= n
      BY <3>3, <3>4 DEF Smaller
    <3> HIDE DEF p
    <3>6. msg(s) = Message("req", s, h, e, E.iter, size[<<s, h>>], n, p)
      BY DEF n, p
    <3> DEFINE m == Message("req", s, h, e, E.iter, size[<<s, h>>], n, p)
    <3>7. /\ m.type = "req" /\ m.src = s /\ m.dst = h /\ m.epoch = e /\ m.iter = E.iter /\ m.total = n /\ m.prompt = p
          /\ m = Message(m.type, m.src, m.dst, m.epoch, m.iter, m.remaining, m.total, m.prompt)
      BY DEF Message
    <3> HIDE DEF m
    <3>8. IsMessage(m) /\ m.prompt >= 0
      BY <3>4, <3>5, <3>7 DEF IsMessage
    <3> HIDE DEF msg
    <3>9. msg(s) = m
      BY <3>6 DEF m
    <3>10. QED
      BY <3>7, <3>8, <3>9
  <2>3. IsFiniteSet(P) /\ \A x, y \in P : msg(x) = msg(y) => x = y
    <3>1. IsFiniteSet(P)
      BY MatchAssumption, FS_Subset
    <3>2. QED
      <4> HIDE DEF msg, P
      <4>1. QED
        BY <2>2, <3>1
  <2> HIDE DEF msg, P
  <2>4. IsFiniteSet({msg(s) : s \in P})
    <3> DEFINE name == [s \in P |-> msg(s)]
               f == [s \in P |-> 0]
               g == [y \in {msg(s) : s \in P} |-> 0]
    <3>1. Renames(f, g, name, P)
      BY <2>3 DEF Renames
    <3>2. Names(name, P) = {msg(s) : s \in P}
      BY DEF Names
    <3> HIDE DEF f, g, name
    <3>3. IsFiniteSet(Names(name, P))
      BY <3>1, SumNamed
    <3>4. QED
      BY <3>2, <3>3
  <2>5. ASSUME NEW p \in {msg(s) : s \in P}, NEW q \in {msg(s) : s \in P}, p.src = q.src
        PROVE  p = q
    BY <2>2, <2>5
  <2>6. QED
    BY <2>1, <2>2, <2>4, <2>5 DEF Asks
<1>3. QED
    BY <1>1, <1>2

\* What handle_all_grants adds to an epoch.
LEMMA WithAcceptedIs ==
    ASSUME NEW E, IsEpoch(E), E.iter <= IterLimit, NEW given, Deals(given, E.grants_q, PimK - E.num_tx_link, PimK - E.num_tx_prompt_link),
           NEW F, F = WithAccepted(E, given)
    PROVE  /\ IsEpoch(F) /\ F.iter = E.iter + 1 /\ F.sender_at = E.sender_at /\ F.receiver_at = E.receiver_at
           /\ F.num_tx_link = E.num_tx_link + LinkSum(Range(given))
           /\ F.num_tx_prompt_link = E.num_tx_prompt_link + PromptSum(Range(given))
           /\ \A s \in Host : /\ F.from[s] = E.from[s] + LinkSum(OfSource(s, Range(given)))
                              /\ F.from_prompt[s] = E.from_prompt[s] + PromptSum(OfSource(s, Range(given)))
           /\ KeepsRx(F, E) /\ F.req_q = {} /\ F.grants_q = {}
<1> DEFINE G == Range(given)
           A == SumFunction(Totals(given))
           B == SumFunction(Prompts(given))
           X == [s \in Host |-> E.from[s] + SumFunctionOnSet(Totals(given), From(s, given))]
           Y == [s \in Host |-> E.from_prompt[s] + SumFunctionOnSet(Prompts(given), From(s, given))]
<1>0. IsRecord(E)
    BY DEF IsEpoch
<1>1. F = [ E EXCEPT !.iter = @ + 1, !.req_q = {}, !.grants_q = {},
               !.num_tx_link = @ + A, !.num_tx_prompt_link = @ + B,
               !.from = X,
               !.from_prompt = Y ]
    BY DEF WithAccepted
<1> HIDE DEF A, B, X, Y
<1>2. /\ IsRecord(F)
      /\ F.iter = E.iter + 1 /\ F.receiver_at = E.receiver_at /\ F.sender_at = E.sender_at
      /\ F.req_q = {} /\ F.grants_q = {} /\ F.num_tx_link = E.num_tx_link + A /\ F.num_tx_prompt_link = E.num_tx_prompt_link + B
      /\ F.from = X /\ F.from_prompt = Y
      /\ F.to = E.to /\ F.to_prompt = E.to_prompt /\ F.num_rx_link = E.num_rx_link /\ F.num_rx_prompt_link = E.num_rx_prompt_link
    BY <1>0, <1>1 DEF IsRecord
<1>3. /\ A = LinkSum(G) /\ LinkSum(G) <= PimK - E.num_tx_link /\ B = PromptSum(G)
      /\ (PimK - E.num_tx_prompt_link >= 0 => PromptSum(G) <= PimK - E.num_tx_prompt_link)
      /\ IsWeighed(G)
    BY DEF Deals, A, B
<1>4. \A s \in Host : /\ SumFunctionOnSet(Totals(given), From(s, given)) = LinkSum(OfSource(s, G))
                      /\ SumFunctionOnSet(Prompts(given), From(s, given)) = PromptSum(OfSource(s, G))
    BY DEF Deals, OfSource
<1>5. LinkSum(G) \in Nat /\ PromptSum(G) \in Int
    BY <1>3, LinkSumNat
<1>6. \A s \in Host : LinkSum(OfSource(s, G)) \in Nat /\ PromptSum(OfSource(s, G)) \in Int
  <2> TAKE s \in Host
  <2>1. OfSource(s, G) \in SUBSET G
    BY DEF OfSource
  <2>2. IsWeighed(OfSource(s, G))
    BY <1>3, <2>1, FS_Subset DEF IsWeighed
  <2>3. QED
    BY <2>2, LinkSumNat
<1>7. \A s \in Host : X[s] = E.from[s] + LinkSum(OfSource(s, G)) /\ Y[s] = E.from_prompt[s] + PromptSum(OfSource(s, G))
    BY <1>4 DEF X, Y
<1>8. X \in [Host -> Nat] /\ Y \in [Host -> Int]
  <2>1. \A s \in Host : X[s] \in Nat /\ Y[s] \in Int
    BY <1>6, <1>7 DEF IsEpoch
  <2>2. QED
    BY <2>1 DEF X, Y
<1> HIDE DEF G
<1>9. /\ F.iter \in 0 .. IterLimit + 1 /\ F.receiver_at \in Int /\ F.sender_at \in Int
      /\ F.num_tx_link \in 0 .. PimK /\ F.num_tx_prompt_link \in Int /\ F.num_tx_prompt_link <= PimK
      /\ F.num_rx_link \in 0 .. PimK /\ F.num_rx_prompt_link \in Int
    BY <1>2, <1>3, <1>5, MatchAssumption DEF IsEpoch
<1>10. F.to \in [Host -> Nat] /\ F.to_prompt \in [Host -> Int]
    BY <1>2 DEF IsEpoch
<1>11. IsEpoch(F)
    BY <1>2, <1>8, <1>9, <1>10, FS_EmptySet DEF IsEpoch
<1>12. QED
    BY <1>2, <1>3, <1>7, <1>11 DEF KeepsRx, G

\* A step that defines the epochs of a host anew changes one of them.
LEMMA TurnedIs ==
    ASSUME DOMAIN epochs = Host, NEW h \in Host, NEW e, NEW F, NEW D, e \in D,
           \A i \in D : i # e => i \in DOMAIN epochs[h],
           epochs' = [epochs EXCEPT ![h] = [i \in D |-> IF i = e THEN F ELSE epochs[h][i]]]
    PROVE  Turned(h, e, F, D)
  BY DEF Turned

\* A step that updates an epoch changes one of them.
LEMMA TurnedOne ==
    ASSUME DOMAIN epochs = Host, NEW h \in Host, NEW e \in DOMAIN epochs[h], NEW F,
           epochs' = [epochs EXCEPT ![h][e] = F]
    PROVE  Turned(h, e, F, DOMAIN epochs[h])
  BY DEF Turned

\* ReceiverRound is a receiver's round.
LEMMA ReceiverRoundIs ==
    ASSUME MatchTyped, OneOfAKey, NEW h \in Host, NEW e \in DOMAIN epochs[h], epochs[h][e].iter <= IterLimit,
           ReceiverRound(h, e)
    PROVE  \E given, F, Q : ReceiverTurn(h, e, given, F, Q)
<1> DEFINE E0 == epochs[h][e]
<1>0. DOMAIN epochs = Host /\ IsEpoch(E0) /\ e \in Nat /\ links \in [Host -> [Host -> Nat]]
    BY MatchBoundsAssumption DEF MatchTyped
<1> HIDE DEF E0
<1>1. PICK given \in Accepted(E0) :
          LET E == WithAccepted(E0, given)
          IN  /\ \/ AskAgain(h, e, E)
                 \/ BeginDataPhase(h, e, E)
              /\ packets' = packets \cup AcceptPkts(given)
                            \cup IF E.iter <= IterLimit THEN Requests(h, e, E) ELSE {}
    BY DEF ReceiverRound, E0
<1>2. Deals(given, E0.grants_q, PimK - E0.num_tx_link, PimK - E0.num_tx_prompt_link)
  <2>1. PimK - E0.num_tx_link \in Nat /\ PimK - E0.num_tx_prompt_link \in Int
    BY <1>0, MatchAssumption DEF IsEpoch
  <2>2. CASE E0.num_tx_link = PimK
    <3>1. given = << >>
      BY <1>1, <2>2 DEF Accepted
    <3>2. QED
      BY <2>1, <3>1, NothingDeals
  <2>3. CASE E0.num_tx_link # PimK
    <3>1. PICK order \in Orders(E0.grants_q, E0.iter) :
             given = Allot(PimK - E0.num_tx_link, PimK - E0.num_tx_prompt_link, order)
      BY <1>1, <2>3 DEF Accepted
    <3>2. order \in SetToSeqs(E0.grants_q)
      BY <3>1 DEF Orders
    <3>3. IsFiniteSet(E0.grants_q) /\ \A q \in E0.grants_q : IsMessage(q)
      BY <1>0 DEF IsEpoch
    <3>4. \A p, q \in E0.grants_q : SameKey(p, q) => p = q
      BY DEF OneOfAKey, E0
    <3>5. QED
      BY <2>1, <3>1, <3>2, <3>3, <3>4, AllotDeals
  <2>4. QED
    BY <2>2, <2>3
<1> DEFINE E == WithAccepted(E0, given)
<1>3. /\ IsEpoch(E) /\ E.iter = E0.iter + 1 /\ E.sender_at = E0.sender_at
      /\ E.num_tx_link = E0.num_tx_link + LinkSum(Range(given))
      /\ E.num_tx_prompt_link = E0.num_tx_prompt_link + PromptSum(Range(given))
      /\ \A s \in Host : /\ E.from[s] = E0.from[s] + LinkSum(OfSource(s, Range(given)))
                         /\ E.from_prompt[s] = E0.from_prompt[s] + PromptSum(OfSource(s, Range(given)))
      /\ KeepsRx(E, E0) /\ E.req_q = {} /\ E.grants_q = {}
  <2>1. E0.iter <= IterLimit
    BY DEF E0
  <2>2. QED
    BY <1>0, <1>2, <2>1, WithAcceptedIs
<1>4. /\ \/ AskAgain(h, e, E)
         \/ BeginDataPhase(h, e, E)
      /\ packets' = packets \cup AcceptPkts(given) \cup IF E.iter <= IterLimit THEN Requests(h, e, E) ELSE {}
    BY <1>1
<1> HIDE DEF E
<1> DEFINE at == IF E.iter <= IterLimit THEN clock + 2 ELSE Never
           F == [E EXCEPT !.receiver_at = at]
           Q == IF E.iter <= IterLimit THEN Requests(h, e, E) ELSE {}
<1>5. E.iter \in Int /\ clock \in Nat /\ IterLimit \in Int /\ Never \in Int
    BY <1>3, MatchAssumption DEF IsEpoch, MatchTyped, Never
<1>6. at \in Int
    BY <1>5
<1>7. F = [E EXCEPT !.receiver_at = at]
    OBVIOUS
<1>8. /\ IsEpoch(F) /\ F.receiver_at = at /\ F.iter = E.iter /\ F.sender_at = E.sender_at
      /\ F.num_tx_link = E.num_tx_link /\ F.num_tx_prompt_link = E.num_tx_prompt_link
      /\ F.from = E.from /\ F.from_prompt = E.from_prompt
      /\ F.to = E.to /\ F.to_prompt = E.to_prompt /\ F.num_rx_link = E.num_rx_link /\ F.num_rx_prompt_link = E.num_rx_prompt_link
      /\ F.req_q = E.req_q /\ F.grants_q = E.grants_q
  <2> HIDE DEF at, F
  <2>1. IsRecord(E)
    BY <1>3 DEF IsEpoch
  <2>2. /\ IsRecord(F) /\ F.receiver_at = at /\ F.iter = E.iter /\ F.sender_at = E.sender_at
        /\ F.num_tx_link = E.num_tx_link /\ F.num_tx_prompt_link = E.num_tx_prompt_link
        /\ F.from = E.from /\ F.from_prompt = E.from_prompt
        /\ F.to = E.to /\ F.to_prompt = E.to_prompt /\ F.num_rx_link = E.num_rx_link /\ F.num_rx_prompt_link = E.num_rx_prompt_link
        /\ F.req_q = E.req_q /\ F.grants_q = E.grants_q
    BY <1>7, <2>1 DEF IsRecord
  <2>3. IsEpoch(F)
    BY <1>3, <1>6, <2>2 DEF IsEpoch
  <2>4. QED
    BY <2>2, <2>3
<1> HIDE DEF F
<1>9. \/ /\ F.iter <= IterLimit /\ F.receiver_at = clock + 2
         /\ Turned(h, e, F, DOMAIN epochs[h]) /\ links' = links
         /\ Asks(Q, h, e, F)
      \/ /\ F.iter > IterLimit /\ F.receiver_at = Never
         /\ Turned(h, e, F, DOMAIN epochs[h] \ {e - 1}) /\ links' = [links EXCEPT ![h] = F.from]
         /\ Q = {}
  <2>1. CASE AskAgain(h, e, E)
    <3>1. E.iter <= IterLimit /\ epochs' = [epochs EXCEPT ![h][e] = F] /\ links' = links /\ at = clock + 2
      BY <2>1 DEF AskAgain, F
    <3>2. Turned(h, e, F, DOMAIN epochs[h])
      BY <1>0, <3>1, TurnedOne
    <3>3. E.iter \in 1 .. IterLimit
      BY <1>3, <1>0, <1>5, <3>1 DEF IsEpoch
    <3>4. Asks(Requests(h, e, E), h, e, E)
      BY <1>0, <1>3, <3>3, RequestsAre
    <3>5. Asks(Q, h, e, F)
      BY <1>8, <3>1, <3>4 DEF Asks
    <3>6. QED
      BY <1>8, <3>1, <3>2, <3>5
  <2>2. CASE BeginDataPhase(h, e, E)
    <3>1. E.iter > IterLimit /\ ~(E.iter <= IterLimit)
      BY <1>5, <2>2 DEF BeginDataPhase
    <3>2. /\ links' = [links EXCEPT ![h] = E.from] /\ at = Never /\ Q = {}
          /\ epochs' = [epochs EXCEPT ![h] = [i \in DOMAIN epochs[h] \ {e - 1} |-> IF i = e THEN F ELSE epochs[h][i]]]
      BY <1>0, <2>2, <3>1 DEF BeginDataPhase, F
    <3> DEFINE D == DOMAIN epochs[h] \ {e - 1}
    <3>3. e \in D /\ \A i \in D : i # e => i \in DOMAIN epochs[h]
      BY <1>0
    <3>4. epochs' = [epochs EXCEPT ![h] = [i \in D |-> IF i = e THEN F ELSE epochs[h][i]]]
      BY <3>2
    <3> HIDE DEF D
    <3>5. Turned(h, e, F, D)
      BY <1>0, <3>3, <3>4, TurnedIs
    <3>6. QED
      BY <1>8, <3>1, <3>2, <3>5 DEF D
  <2>3. QED
    BY <1>4, <2>1, <2>2
<1>10. packets' = packets \cup AcceptPkts(given) \cup Q
    BY <1>4
<1>11. KeepsRx(F, E0)
    BY <1>3, <1>8 DEF KeepsRx
<1>12. ReceiverDue(h, e) /\ UNCHANGED << clock, new_epoch, size, to_come, late >>
    BY DEF ReceiverRound
<1> HIDE DEF Q
<1>13. ReceiverTurn(h, e, given, F, Q)
    BY <1>2, <1>3, <1>8, <1>9, <1>10, <1>11, <1>12 DEF ReceiverTurn, E0
<1>14. QED
    BY <1>13

\* The messages with another type: an accept is a grant that comes back.
Retyped(M, type) == {[g EXCEPT !.type = type] : g \in M}

\* A message with another type.
Retype(g, type) == [g EXCEPT !.type = type]

\* It has the same key and the same links.
LEMMA RetypeIs ==
    ASSUME NEW g, IsMessage(g), NEW type \in {"req", "grant", "accept", "grantsr"}
    PROVE  LET n == Retype(g, type)
           IN  IsMessage(n) /\ n.type = type /\ SameKey(n, g) /\ n.total = g.total /\ n.prompt = g.prompt
<1> DEFINE n == [g EXCEPT !.type = type]
<1>1. g = Message(g.type, g.src, g.dst, g.epoch, g.iter, g.remaining, g.total, g.prompt)
    BY DEF IsMessage
<1>2. n = [g EXCEPT !.type = type]
    OBVIOUS
<1> HIDE DEF n
<1>3. /\ n = Message(n.type, n.src, n.dst, n.epoch, n.iter, n.remaining, n.total, n.prompt)
      /\ n.type = type /\ n.src = g.src /\ n.dst = g.dst /\ n.epoch = g.epoch /\ n.iter = g.iter
      /\ n.total = g.total /\ n.prompt = g.prompt
    BY <1>1, <1>2 DEF Message
<1>4. IsMessage(n)
    BY <1>3 DEF IsMessage
<1>5. QED
    BY <1>3, <1>4 DEF SameKey, n, Retype

\* Messages have the same links under another type.
LEMMA RetypedSums ==
    ASSUME NEW M, IsWeighed(M), \A g \in M : IsMessage(g), \A g, h \in M : SameKey(g, h) => g = h,
           NEW type \in {"req", "grant", "accept", "grantsr"}
    PROVE  /\ IsWeighed(Retyped(M, type))
           /\ LinkSum(Retyped(M, type)) = LinkSum(M) /\ PromptSum(Retyped(M, type)) = PromptSum(M)
<1> DEFINE N == Retyped(M, type)
           name == [g \in M |-> Retype(g, type)]
           f == [m \in M |-> m.total]
           h == [m \in M |-> m.prompt]
           t == [m \in N |-> m.total]
           p == [m \in N |-> m.prompt]
<1>1. N = {Retype(g, type) : g \in M}
    BY DEF Retyped, Retype
<1>2. ASSUME NEW g \in M
      PROVE  LET n == Retype(g, type)
             IN  IsMessage(n) /\ SameKey(n, g) /\ n.total = g.total /\ n.prompt = g.prompt
    BY RetypeIs
<1>3. N = Names(name, M)
    BY <1>1 DEF Names
<1>4. \A g \in M : name[g] = Retype(g, type) /\ name[g] \in N
    BY <1>1
<1> HIDE DEF N, name
<1>5. \A x, y \in M : name[x] = name[y] => x = y
    BY <1>2, <1>4 DEF SameKey
<1>6. IsFiniteSet(M) /\ \A g \in M : g.total \in Nat /\ g.prompt \in Int
    BY DEF IsWeighed
<1>7. \A g \in M : f[g] \in Int /\ t[name[g]] = f[g]
    BY <1>2, <1>4, <1>6
<1>8. \A g \in M : h[g] \in Int /\ p[name[g]] = h[g]
    BY <1>2, <1>4, <1>6
<1>9. LinkSum(M) = SumFunctionOnSet(f, M) /\ PromptSum(M) = SumFunctionOnSet(h, M)
      /\ LinkSum(N) = SumFunctionOnSet(t, N) /\ PromptSum(N) = SumFunctionOnSet(p, N)
    BY DEF LinkSum, PromptSum
<1> HIDE DEF f, h, t, p
<1>10. Renames(f, t, name, M) /\ Renames(h, p, name, M)
    BY <1>5, <1>6, <1>7, <1>8 DEF Renames
<1>11. SumFunctionOnSet(t, Names(name, M)) = SumFunctionOnSet(f, M) /\ IsFiniteSet(Names(name, M))
    BY <1>10, SumNamed
<1>12. SumFunctionOnSet(p, Names(name, M)) = SumFunctionOnSet(h, M)
    BY <1>10, SumNamed
<1>13. \A n \in N : n.total \in Nat /\ n.prompt \in Int
    BY <1>1, <1>2 DEF IsMessage
<1>14. IsWeighed(N)
    BY <1>3, <1>11, <1>13 DEF IsWeighed
<1>15. QED
    BY <1>3, <1>9, <1>11, <1>12, <1>14 DEF N

\* And the same keys.
LEMMA RetypedAre ==
    ASSUME NEW M, IsWeighed(M), \A g \in M : IsMessage(g), \A g, h \in M : SameKey(g, h) => g = h,
           NEW type \in {"req", "grant", "accept", "grantsr"}
    PROVE  /\ IsWeighed(Retyped(M, type))
           /\ \A n \in Retyped(M, type) :
                 /\ IsMessage(n) /\ n.type = type
                 /\ \E g \in M : SameKey(n, g) /\ n.total = g.total /\ n.prompt = g.prompt
           /\ \A n, k \in Retyped(M, type) : SameKey(n, k) => n = k
           /\ LinkSum(Retyped(M, type)) = LinkSum(M) /\ PromptSum(Retyped(M, type)) = PromptSum(M)
           /\ \A s : /\ LinkSum(OfSource(s, Retyped(M, type))) = LinkSum(OfSource(s, M))
                     /\ PromptSum(OfSource(s, Retyped(M, type))) = PromptSum(OfSource(s, M))
<1> DEFINE N == Retyped(M, type)
<1>1. N = {Retype(g, type) : g \in M}
    BY DEF Retyped, Retype
<1>2. ASSUME NEW g \in M
      PROVE  LET n == Retype(g, type)
             IN  IsMessage(n) /\ n.type = type /\ SameKey(n, g) /\ n.total = g.total /\ n.prompt = g.prompt
    BY RetypeIs
<1>3. \A n \in N : IsMessage(n) /\ n.type = type /\ \E g \in M : SameKey(n, g) /\ n.total = g.total /\ n.prompt = g.prompt
    BY <1>1, <1>2
<1>4. \A n, k \in N : SameKey(n, k) => n = k
  <2> SUFFICES ASSUME NEW g \in M, NEW h \in M, SameKey(Retype(g, type), Retype(h, type))
               PROVE  Retype(g, type) = Retype(h, type)
    BY <1>1
  <2>1. SameKey(Retype(g, type), g) /\ SameKey(Retype(h, type), h)
    BY <1>2
  <2>2. SameKey(g, h)
    BY <2>1 DEF SameKey
  <2>3. QED
    BY <2>2
<1>5. IsWeighed(N) /\ LinkSum(N) = LinkSum(M) /\ PromptSum(N) = PromptSum(M)
    BY RetypedSums
<1>6. ASSUME NEW s
      PROVE  LinkSum(OfSource(s, N)) = LinkSum(OfSource(s, M)) /\ PromptSum(OfSource(s, N)) = PromptSum(OfSource(s, M))
  <2> DEFINE W == OfSource(s, M)
  <2>1. W \subseteq M
    BY DEF OfSource
  <2>2. \A g \in M : Retype(g, type).src = g.src
    BY <1>2 DEF SameKey
  <2>3. OfSource(s, N) = {Retype(g, type) : g \in W}
    BY <1>1, <2>2 DEF OfSource
  <2>4. OfSource(s, N) = Retyped(W, type)
    BY <2>3 DEF Retyped, Retype
  <2>5. IsWeighed(W)
    BY <2>1, FS_Subset DEF IsWeighed
  <2> HIDE DEF W
  <2>6. (\A g \in W : IsMessage(g)) /\ \A g, h \in W : SameKey(g, h) => g = h
    BY <2>1
  <2>7. LinkSum(Retyped(W, type)) = LinkSum(W) /\ PromptSum(Retyped(W, type)) = PromptSum(W)
    BY <2>5, <2>6, RetypedSums
  <2>8. QED
    BY <2>4, <2>7 DEF W
<1>7. QED
    BY <1>3, <1>4, <1>5, <1>6

\* A sender's round: what it grants (given) and what its epoch is afterwards (F).
SenderIter(h, e, given, F) ==
    LET E == epochs[h][e]
    IN  /\ ~AnyReceiverDue /\ SenderDue(h, e)
        /\ IsEpoch(F) /\ F.iter = E.iter /\ F.receiver_at = E.receiver_at
        /\ KeepsTx(F, E) /\ KeepsRx(F, E) /\ F.grants_q = E.grants_q /\ F.req_q \subseteq E.req_q
        /\ Turned(h, e, F, DOMAIN epochs[h])
        /\ \/ /\ E.iter > IterLimit /\ F.sender_at = Never
              /\ packets' = packets /\ given = << >>
           \/ /\ E.iter <= IterLimit /\ F.sender_at = clock + 2
              /\ Deals(given, E.req_q, PimK - E.num_rx_link, PimK - E.num_rx_prompt_link)
              /\ packets' = packets \cup Retyped(Range(given), "grant")
              /\ \A g \in Range(given) : \A r \in F.req_q : ~SameKey(r, g)
        /\ UNCHANGED << clock, new_epoch, links, size, to_come, late >>

\* SenderRound is a sender's round.
LEMMA SenderRoundIs ==
    ASSUME MatchTyped, OneOfAKey, NEW h \in Host, NEW e \in DOMAIN epochs[h], SenderRound(h, e)
    PROVE  \E given, F : SenderIter(h, e, given, F)
<1> DEFINE E == epochs[h][e]
<1>0. DOMAIN epochs = Host /\ IsEpoch(E) /\ clock \in Nat
    BY DEF MatchTyped
<1>1. ~AnyReceiverDue /\ SenderDue(h, e) /\ UNCHANGED << clock, new_epoch, links, size, to_come, late >>
    BY DEF SenderRound
<1>2. CASE E.iter > IterLimit /\ epochs' = [epochs EXCEPT ![h][e].sender_at = Never] /\ packets' = packets
  <2> DEFINE F == [E EXCEPT !.sender_at = Never]
  <2>1. epochs' = [epochs EXCEPT ![h][e] = F]
    BY <1>2
  <2>2. F = [E EXCEPT !.sender_at = Never]
    OBVIOUS
  <2> HIDE DEF F
  <2>3. /\ IsEpoch(F) /\ F.iter = E.iter /\ F.receiver_at = E.receiver_at
        /\ KeepsTx(F, E) /\ KeepsRx(F, E) /\ F.grants_q = E.grants_q /\ F.req_q = E.req_q /\ F.sender_at = Never
    <3> HIDE DEF E
    <3>1. IsRecord(E)
      BY <1>0 DEF IsEpoch
    <3>2. /\ IsRecord(F) /\ F.iter = E.iter /\ F.receiver_at = E.receiver_at
          /\ KeepsTx(F, E) /\ KeepsRx(F, E) /\ F.grants_q = E.grants_q /\ F.req_q = E.req_q /\ F.sender_at = Never
      BY <2>2, <3>1 DEF IsRecord, KeepsTx, KeepsRx
    <3>3. Never \in Int
      BY DEF Never
    <3>4. IsEpoch(F)
      BY <1>0, <3>2, <3>3 DEF IsEpoch, KeepsTx, KeepsRx
    <3>5. QED
      BY <3>2, <3>4
  <2>4. Turned(h, e, F, DOMAIN epochs[h])
    BY <1>0, <2>1, TurnedOne
  <2>5. SenderIter(h, e, << >>, F)
    BY <1>1, <1>2, <2>3, <2>4 DEF SenderIter
  <2>6. QED
    BY <2>5
<1>3. ASSUME E.iter <= IterLimit, NEW given \in Granted(E),
             packets' = packets \cup {[g EXCEPT !.type = "grant"] : g \in Range(given)},
             epochs' = [epochs EXCEPT ![h][e].sender_at = clock + 2,
                                            ![h][e].req_q = IF given = << >> THEN @
                                                            ELSE {r \in @ : \A g \in Range(given) : g.src # r.src \/ g.dst # r.dst}]
      PROVE  \E F : SenderIter(h, e, given, F)
  <2> DEFINE R == IF given = << >> THEN E.req_q ELSE {r \in E.req_q : \A g \in Range(given) : g.src # r.src \/ g.dst # r.dst}
             F == [E EXCEPT !.sender_at = clock + 2, !.req_q = R]
  <2>1. epochs' = [epochs EXCEPT ![h][e] = F]
    <3> DEFINE f == epochs[h]
               f1 == [f EXCEPT ![e].sender_at = clock + 2]
               f2 == [f1 EXCEPT ![e].req_q = IF given = << >> THEN @ ELSE {r \in @ : \A g \in Range(given) : g.src # r.src \/ g.dst # r.dst}]
    <3>1. f1[e].req_q = E.req_q
      BY <1>0 DEF IsEpoch, IsRecord
    <3>2. f2 = [f EXCEPT ![e] = F]
      BY <3>1, <1>0
    <3>3. epochs' = [epochs EXCEPT ![h] = f2]
      BY <1>0, <1>3
    <3>4. QED
      BY <3>2, <3>3
  <2>2. Deals(given, E.req_q, PimK - E.num_rx_link, PimK - E.num_rx_prompt_link)
    <3>1. PimK - E.num_rx_link \in Nat /\ PimK - E.num_rx_prompt_link \in Int
      BY <1>0, MatchAssumption DEF IsEpoch
    <3>2. CASE E.num_rx_link = PimK
      <4>1. given = << >>
        BY <1>3, <3>2 DEF Granted
      <4>2. QED
        BY <3>1, <4>1, NothingDeals
    <3>3. CASE E.num_rx_link # PimK
      <4>1. PICK order \in Orders(E.req_q, E.iter) :
               given = Allot(PimK - E.num_rx_link, PimK - E.num_rx_prompt_link, order)
        BY <1>3, <3>3 DEF Granted
      <4>2. order \in SetToSeqs(E.req_q)
        BY <4>1 DEF Orders
      <4>3. IsFiniteSet(E.req_q) /\ \A q \in E.req_q : IsMessage(q)
        BY <1>0 DEF IsEpoch
      <4>4. \A p, q \in E.req_q : SameKey(p, q) => p = q
        BY DEF OneOfAKey
      <4> HIDE DEF E
      <4>5. QED
        BY <3>1, <4>1, <4>2, <4>3, <4>4, AllotDeals
    <3>4. QED
      BY <3>2, <3>3
  <2>3. R \subseteq E.req_q /\ \A g \in Range(given) : \A r \in R : ~SameKey(r, g)
    <3>1. given = << >> => Range(given) = {}
      BY <2>2 DEF Deals
    <3>2. QED
      BY <3>1 DEF SameKey
  <2>4. F = [E EXCEPT !.sender_at = clock + 2, !.req_q = R]
    OBVIOUS
  <2> HIDE DEF F, R
  <2>5. /\ IsEpoch(F) /\ F.iter = E.iter /\ F.receiver_at = E.receiver_at
        /\ KeepsTx(F, E) /\ KeepsRx(F, E) /\ F.grants_q = E.grants_q /\ F.req_q = R /\ F.sender_at = clock + 2
    <3> HIDE DEF E
    <3>1. IsRecord(E)
      BY <1>0 DEF IsEpoch
    <3>2. /\ IsRecord(F) /\ F.iter = E.iter /\ F.receiver_at = E.receiver_at
          /\ KeepsTx(F, E) /\ KeepsRx(F, E) /\ F.grants_q = E.grants_q /\ F.req_q = R /\ F.sender_at = clock + 2
      BY <2>4, <3>1 DEF IsRecord, KeepsTx, KeepsRx
    <3>3. IsFiniteSet(R) /\ \A q \in R : IsMessage(q)
      BY <1>0, <2>3, FS_Subset DEF IsEpoch
    <3>4. clock + 2 \in Int
      BY <1>0
    <3>5. IsEpoch(F)
      BY <1>0, <3>2, <3>3, <3>4 DEF IsEpoch, KeepsTx, KeepsRx
    <3>6. QED
      BY <3>2, <3>5
  <2>6. Turned(h, e, F, DOMAIN epochs[h])
    BY <1>0, <2>1, TurnedOne
  <2>7. packets' = packets \cup Retyped(Range(given), "grant")
    BY <1>3 DEF Retyped
  <2> HIDE DEF E
  <2>8. SenderIter(h, e, given, F)
    BY <1>1, <1>3, <2>2, <2>3, <2>5, <2>6, <2>7 DEF SenderIter, E
  <2>9. QED
    BY <2>8
<1>4. QED
    BY <1>2, <1>3 DEF SenderRound

\* A new epoch F.
NewTurn(h, F) ==
    LET e == new_epoch[h]
    IN  /\ ~AnyReceiverDue /\ ~AnySenderDue /\ NewEpochDue(h)
        /\ UNCHANGED << clock, links, size, to_come, packets, late >>
        /\ ~AllFinished /\ new_epoch' = [new_epoch EXCEPT ![h] = e + 1]
        /\ IsEpoch(F) /\ F.iter = 0 /\ F.receiver_at = clock /\ F.sender_at = clock + 1
        /\ F.num_tx_link = 0 /\ F.from = NoLinks /\ F.from_prompt = NoLinks
        /\ F.num_rx_link = 0 /\ F.to = NoLinks /\ F.to_prompt = NoLinks
        /\ F.req_q = {} /\ F.grants_q = {}
        /\ e = 0 => F.num_tx_prompt_link = 0 /\ F.num_rx_prompt_link = 0
        /\ e > 0 => F.num_tx_prompt_link = epochs[h][e - 1].num_tx_link /\ F.num_rx_prompt_link = epochs[h][e - 1].num_rx_link
        /\ Turned(h, e, F, DOMAIN epochs[h] \cup {e})

\* StartNewEpoch is one, unless all flows are finished.
LEMMA StartNewEpochIs ==
    ASSUME MatchTyped, EpochsInOrder, NEW h \in Host, StartNewEpoch(h), ~AllFinished
    PROVE  \E F : NewTurn(h, F)
<1> DEFINE e == new_epoch[h]
           F == PromptLinks(h, e)
<1>0. DOMAIN epochs = Host /\ clock \in Nat /\ e \in Nat /\ NewEpochDue(h)
    BY MatchBoundsAssumption DEF MatchTyped, StartNewEpoch
<1>1. e > 0 => e - 1 \in DOMAIN epochs[h] /\ IsEpoch(epochs[h][e - 1])
    BY DEF EpochsInOrder, MatchTyped
<1> DEFINE a == IF e = 0 THEN 0 ELSE epochs[h][e - 1].num_tx_link
           b == IF e = 0 THEN 0 ELSE epochs[h][e - 1].num_rx_link
<1>2. a \in 0 .. PimK /\ b \in 0 .. PimK
    BY <1>0, <1>1, MatchAssumption DEF IsEpoch
<1>3. F = Epoch(clock, a, b)
    BY DEF PromptLinks
<1>4. epochs' = [epochs EXCEPT ![h] = [i \in DOMAIN epochs[h] \cup {e} |-> IF i = e THEN F ELSE epochs[h][i]]]
    BY <1>0 DEF StartNewEpoch
<1>5. /\ ~AnyReceiverDue /\ ~AnySenderDue /\ UNCHANGED << clock, links, size, to_come, packets, late >>
      /\ new_epoch' = [new_epoch EXCEPT ![h] = e + 1]
    BY DEF StartNewEpoch
<1> HIDE DEF F, a, b
<1>6. Turned(h, e, F, DOMAIN epochs[h] \cup {e})
  <2> DEFINE D == DOMAIN epochs[h] \cup {e}
  <2>1. e \in D /\ \A i \in D : i # e => i \in DOMAIN epochs[h]
    OBVIOUS
  <2>2. epochs' = [epochs EXCEPT ![h] = [i \in D |-> IF i = e THEN F ELSE epochs[h][i]]]
    BY <1>4
  <2> HIDE DEF D, e
  <2>3. Turned(h, e, F, D)
    BY <1>0, <2>1, <2>2, TurnedIs
  <2>4. QED
    BY <2>3 DEF D
<1>7. /\ IsRecord(F) /\ F.iter = 0 /\ F.receiver_at = clock /\ F.sender_at = clock + 1
      /\ F.num_tx_link = 0 /\ F.from = NoLinks /\ F.from_prompt = NoLinks
      /\ F.num_rx_link = 0 /\ F.to = NoLinks /\ F.to_prompt = NoLinks
      /\ F.req_q = {} /\ F.grants_q = {} /\ F.num_tx_prompt_link = a /\ F.num_rx_prompt_link = b
    BY <1>3 DEF Epoch, IsRecord
<1>8. NoLinks \in [Host -> Nat] /\ NoLinks \in [Host -> Int]
    BY DEF NoLinks
<1>9. IsEpoch(F)
  <2>1. F.iter \in 0 .. IterLimit + 1 /\ F.receiver_at \in Int /\ F.sender_at \in Int
    BY <1>0, <1>7, MatchAssumption
  <2>2. /\ F.num_tx_link \in 0 .. PimK /\ F.num_tx_prompt_link \in Int /\ F.num_tx_prompt_link <= PimK
        /\ F.num_rx_link \in 0 .. PimK /\ F.num_rx_prompt_link \in Int
    BY <1>2, <1>7, MatchAssumption
  <2>3. QED
    BY <1>7, <1>8, <2>1, <2>2, FS_EmptySet DEF IsEpoch
<1>10. /\ e = 0 => F.num_tx_prompt_link = 0 /\ F.num_rx_prompt_link = 0
       /\ e > 0 => F.num_tx_prompt_link = epochs[h][e - 1].num_tx_link /\ F.num_rx_prompt_link = epochs[h][e - 1].num_rx_link
    BY <1>0, <1>7 DEF a, b
<1> HIDE DEF e
<1>11. NewTurn(h, F)
    BY <1>0, <1>5, <1>6, <1>7, <1>9, <1>10 DEF NewTurn, e
<1>12. QED
    BY <1>11

\* A packet for an epoch that the host has.
MessageTurn(m, F, B) ==
    LET h == Recipient(m)
        E == epochs[h][m.epoch]
    IN  /\ ~AnyDue /\ m \in packets /\ h \in Host /\ m.epoch \in DOMAIN epochs[h]
        /\ IsEpoch(F) /\ KeepsTimes(F, E)
        /\ Turned(h, m.epoch, F, DOMAIN epochs[h])
        /\ packets' = (packets \ {m}) \cup B
        /\ UNCHANGED << clock, new_epoch, links, size, to_come, late >>

\* A request comes in.
RequestTurn(m, F) ==
    LET E == epochs[Recipient(m)][m.epoch]
    IN  /\ m.type = "req" /\ KeepsTx(F, E) /\ KeepsRx(F, E) /\ F.grants_q = E.grants_q
        /\ F.req_q = E.req_q \/ (F.req_q = E.req_q \cup {m} /\ m.iter >= E.iter)

\* A grant comes in.
GrantTurn(m, F) ==
    LET E == epochs[Recipient(m)][m.epoch]
    IN  /\ m.type = "grant" /\ KeepsTx(F, E) /\ KeepsRx(F, E) /\ F.req_q = E.req_q
        /\ F.grants_q = E.grants_q \/ (F.grants_q = E.grants_q \cup {m} /\ m.iter >= E.iter)

\* An accept comes in: the sender keeps a part and returns what is beyond pim_k.
AcceptTurn(m, F, B, kept, beyond) ==
    LET E == epochs[Recipient(m)][m.epoch]
    IN  /\ m.type = "accept" /\ KeepsTx(F, E) /\ KeepsQueues(F, E)
        /\ kept \in Nat /\ beyond \in Nat /\ kept + beyond = m.total
        /\ F.num_rx_link = E.num_rx_link + kept /\ F.to = [E.to EXCEPT ![m.dst] = @ + kept]
        /\ \A g \in Host : g # m.dst => F.to_prompt[g] = E.to_prompt[g]
        /\ \/ /\ beyond = 0 /\ B = {}
              /\ kept = 0 => F.num_rx_prompt_link = E.num_rx_prompt_link /\ F.to_prompt = E.to_prompt
              /\ kept > 0 => /\ F.num_rx_prompt_link = E.num_rx_prompt_link + m.prompt
                             /\ F.to_prompt = [E.to_prompt EXCEPT ![m.dst] = @ + m.prompt]
           \/ /\ beyond > 0 /\ E.num_rx_link + m.total > PimK
              /\ \E n : B = {n} /\ IsMessage(n) /\ n.type = "grantsr" /\ SameKey(n, m) /\ n.total = beyond

\* A grantsr comes in.
ReleaseTurn(m, F) ==
    LET E == epochs[Recipient(m)][m.epoch]
    IN  /\ m.type = "grantsr" /\ KeepsRx(F, E) /\ KeepsQueues(F, E)
        /\ F.num_tx_link = E.num_tx_link /\ F.num_tx_prompt_link = E.num_tx_prompt_link
        /\ F.from = [E.from EXCEPT ![m.src] = Less(@, m.total)]
        /\ F.from_prompt = [E.from_prompt EXCEPT ![m.src] = Less(@, m.prompt)]

\* ReceiveReq is the arrival of a request.
LEMMA ReceiveReqIs ==
    ASSUME MatchTyped, ~AnyDue, NEW m \in packets, ReceiveReq(m), UNCHANGED << clock, new_epoch, links, size, to_come, late >>
    PROVE  \E F : MessageTurn(m, F, {}) /\ RequestTurn(m, F)
<1> DEFINE h == Recipient(m)
           e == m.epoch
           E == epochs[h][e]
           R == IF m.iter < E.iter THEN E.req_q ELSE E.req_q \cup {m}
           F == [E EXCEPT !.req_q = R]
<1>1. m.type = "req" /\ IsMessage(m) /\ h \in Host /\ e \in DOMAIN epochs[h] /\ DOMAIN epochs = Host
    BY DEF ReceiveReq, Known, MatchTyped, IsMessage, Recipient
<1>2. IsEpoch(E)
    BY <1>1 DEF MatchTyped
<1>3. epochs' = [epochs EXCEPT ![h][e] = F] /\ packets' = packets \ {m}
    BY DEF ReceiveReq, Update, Of
<1>4. F = [E EXCEPT !.req_q = R]
    OBVIOUS
<1>5. IsFiniteSet(R) /\ (\A q \in R : IsMessage(q)) /\ (R = E.req_q \/ (R = E.req_q \cup {m} /\ m.iter >= E.iter))
  <2>1. IsFiniteSet(E.req_q) /\ IsFiniteSet(E.req_q \cup {m}) /\ m.iter \in Int /\ E.iter \in Int
    BY <1>1, <1>2, FS_AddElement DEF IsEpoch, IsMessage
  <2>2. QED
    BY <1>1, <1>2, <2>1 DEF IsEpoch
<1> HIDE DEF F, R
<1>6. Turned(h, e, F, DOMAIN epochs[h])
    BY <1>1, <1>3, TurnedOne
<1> HIDE DEF E
<1>7. /\ IsRecord(F) /\ KeepsTimes(F, E) /\ KeepsTx(F, E) /\ KeepsRx(F, E) /\ F.grants_q = E.grants_q /\ F.req_q = R
    BY <1>2, <1>4 DEF IsEpoch, IsRecord, KeepsTimes, KeepsTx, KeepsRx
<1>8. IsEpoch(F)
    BY <1>2, <1>5, <1>7 DEF IsEpoch, KeepsTimes, KeepsTx, KeepsRx
<1>9. packets' = (packets \ {m}) \cup {}
    BY <1>3
<1>10. MessageTurn(m, F, {}) /\ RequestTurn(m, F)
    BY <1>1, <1>5, <1>6, <1>7, <1>8, <1>9 DEF MessageTurn, RequestTurn, E
<1>11. QED
    BY <1>10

\* ReceiveGrants is that of a grant.
LEMMA ReceiveGrantsIs ==
    ASSUME MatchTyped, ~AnyDue, NEW m \in packets, ReceiveGrants(m), UNCHANGED << clock, new_epoch, links, size, to_come, late >>
    PROVE  \E F : MessageTurn(m, F, {}) /\ GrantTurn(m, F)
<1> DEFINE h == Recipient(m)
           e == m.epoch
           E == epochs[h][e]
           R == IF m.iter < E.iter THEN E.grants_q ELSE E.grants_q \cup {m}
           F == [E EXCEPT !.grants_q = R]
<1>1. m.type = "grant" /\ IsMessage(m) /\ h \in Host /\ e \in DOMAIN epochs[h] /\ DOMAIN epochs = Host
    BY DEF ReceiveGrants, Known, MatchTyped, IsMessage, Recipient
<1>2. IsEpoch(E)
    BY <1>1 DEF MatchTyped
<1>3. epochs' = [epochs EXCEPT ![h][e] = F] /\ packets' = packets \ {m}
    BY DEF ReceiveGrants, Update, Of
<1>4. F = [E EXCEPT !.grants_q = R]
    OBVIOUS
<1>5. IsFiniteSet(R) /\ (\A q \in R : IsMessage(q)) /\ (R = E.grants_q \/ (R = E.grants_q \cup {m} /\ m.iter >= E.iter))
  <2>1. IsFiniteSet(E.grants_q) /\ IsFiniteSet(E.grants_q \cup {m}) /\ m.iter \in Int /\ E.iter \in Int
    BY <1>1, <1>2, FS_AddElement DEF IsEpoch, IsMessage
  <2>2. QED
    BY <1>1, <1>2, <2>1 DEF IsEpoch
<1> HIDE DEF F, R
<1>6. Turned(h, e, F, DOMAIN epochs[h])
    BY <1>1, <1>3, TurnedOne
<1> HIDE DEF E
<1>7. /\ IsRecord(F) /\ KeepsTimes(F, E) /\ KeepsTx(F, E) /\ KeepsRx(F, E) /\ F.grants_q = R /\ F.req_q = E.req_q
    BY <1>2, <1>4 DEF IsEpoch, IsRecord, KeepsTimes, KeepsTx, KeepsRx
<1>8. IsEpoch(F)
    BY <1>2, <1>5, <1>7 DEF IsEpoch, KeepsTimes, KeepsTx, KeepsRx
<1>9. packets' = (packets \ {m}) \cup {}
    BY <1>3
<1>10. MessageTurn(m, F, {}) /\ GrantTurn(m, F)
    BY <1>1, <1>5, <1>6, <1>7, <1>8, <1>9 DEF MessageTurn, GrantTurn, E
<1>11. QED
    BY <1>10

\* ReceiveGrantsR is that of a grantsr.
LEMMA ReceiveGrantsRIs ==
    ASSUME MatchTyped, ~AnyDue, NEW m \in packets, ReceiveGrantsR(m), UNCHANGED << clock, new_epoch, links, size, to_come, late >>
    PROVE  \E F : MessageTurn(m, F, {}) /\ ReleaseTurn(m, F)
<1> DEFINE h == Recipient(m)
           e == m.epoch
           E == epochs[h][e]
           X == [E.from EXCEPT ![m.src] = Less(@, m.total)]
           Y == [E.from_prompt EXCEPT ![m.src] = Less(@, m.prompt)]
           F == [E EXCEPT !.from = X, !.from_prompt = Y]
<1>1. m.type = "grantsr" /\ IsMessage(m) /\ h \in Host /\ e \in DOMAIN epochs[h] /\ DOMAIN epochs = Host
    BY DEF ReceiveGrantsR, Known, MatchTyped, IsMessage, Recipient
<1>2. IsEpoch(E)
    BY <1>1 DEF MatchTyped
<1>3. packets' = packets \ {m} /\ epochs' = [epochs EXCEPT ![h][e] = [E EXCEPT !.from[m.src] = Less(@, m.total), !.from_prompt[m.src] = Less(@, m.prompt)]]
    BY DEF ReceiveGrantsR, Update, Of
<1>4. F = [E EXCEPT !.from = X, !.from_prompt = Y]
    OBVIOUS
<1>3a. [E EXCEPT !.from[m.src] = Less(@, m.total), !.from_prompt[m.src] = Less(@, m.prompt)] = F
    BY <1>2 DEF IsEpoch, IsRecord
<1>3b. epochs' = [epochs EXCEPT ![h][e] = F]
    BY <1>3, <1>3a
<1>5. X \in [Host -> Nat] /\ Y \in [Host -> Int]
  <2>1. /\ m.src \in Host /\ m.total \in Nat /\ m.prompt \in Int /\ E.from \in [Host -> Nat] /\ E.from_prompt \in [Host -> Int]
    BY <1>1, <1>2 DEF IsMessage, IsEpoch
  <2>2. Less(E.from[m.src], m.total) \in Nat /\ Less(E.from_prompt[m.src], m.prompt) \in Int
    BY <2>1 DEF Less
  <2> HIDE DEF E
  <2>3. QED
    BY <2>1, <2>2
<1> HIDE DEF F
<1>6. Turned(h, e, F, DOMAIN epochs[h])
    BY <1>1, <1>3b, TurnedOne
<1> HIDE DEF E, X, Y
<1>7. /\ IsRecord(F) /\ KeepsTimes(F, E) /\ KeepsRx(F, E) /\ KeepsQueues(F, E) /\ F.from = X /\ F.from_prompt = Y
      /\ F.num_tx_link = E.num_tx_link /\ F.num_tx_prompt_link = E.num_tx_prompt_link
    BY <1>2, <1>4 DEF IsEpoch, IsRecord, KeepsTimes, KeepsQueues, KeepsRx
<1>8. IsEpoch(F)
    BY <1>2, <1>5, <1>7 DEF IsEpoch, KeepsTimes, KeepsQueues, KeepsRx
<1>9. packets' = (packets \ {m}) \cup {}
    BY <1>3
<1>10. MessageTurn(m, F, {})
    BY <1>1, <1>6, <1>7, <1>8, <1>9 DEF MessageTurn, E
<1>10a. ReleaseTurn(m, F)
    BY <1>1, <1>7 DEF ReleaseTurn, E, X, Y
<1>11. QED
    BY <1>10, <1>10a

\* ReceiveAccept is that of an accept.
LEMMA ReceiveAcceptIs ==
    ASSUME MatchTyped, ~AnyDue, NEW m \in packets, ReceiveAccept(m), UNCHANGED << clock, new_epoch, links, size, to_come, late >>
    PROVE  \E F, kept, beyond : MessageTurn(m, F, Excess(m)) /\ AcceptTurn(m, F, Excess(m), kept, beyond)
<1> DEFINE h == Recipient(m)
           e == m.epoch
           E == epochs[h][e]
           kept == Kept(m)
           beyond == Beyond(m)
           prompt == m.prompt - BeyondPrompt(m)
           a == E.num_rx_link + kept
           b == E.num_rx_prompt_link + prompt
           X == [E.to EXCEPT ![m.dst] = @ + kept]
           Y == [E.to_prompt EXCEPT ![m.dst] = @ + prompt]
           F1 == [E EXCEPT !.num_rx_link = a, !.num_rx_prompt_link = b, !.to = X, !.to_prompt = Y]
           F == IF kept = 0 THEN E ELSE F1
<1>1. m.type = "accept" /\ IsMessage(m) /\ h \in Host /\ e \in DOMAIN epochs[h] /\ DOMAIN epochs = Host
    BY DEF ReceiveAccept, Known, MatchTyped, IsMessage, Recipient
<1>2. IsEpoch(E)
    BY <1>1 DEF MatchTyped
<1>3. /\ m.total \in Nat /\ m.prompt \in Int /\ m.prompt <= m.total /\ m.dst \in Host
      /\ E.num_rx_link \in 0 .. PimK /\ E.num_rx_prompt_link \in Int /\ PimK \in Nat
      /\ E.to \in [Host -> Nat] /\ E.to_prompt \in [Host -> Int]
    BY <1>1, <1>2, MatchAssumption DEF IsMessage, IsEpoch
<1>4. beyond = IF E.num_rx_link + m.total > PimK THEN E.num_rx_link + m.total - PimK ELSE 0
    BY DEF Beyond, Of
<1>5. kept = m.total - beyond
    BY DEF Kept
<1> HIDE DEF E, kept, beyond
<1>6. /\ kept \in Nat /\ beyond \in Nat /\ kept + beyond = m.total /\ a \in 0 .. PimK
      /\ beyond > 0 => E.num_rx_link + m.total > PimK
    BY <1>3, <1>4, <1>5
<1>7. BeyondPrompt(m) = IF beyond > 0 /\ m.prompt > kept THEN m.prompt - kept ELSE 0
    BY DEF BeyondPrompt, kept, beyond
<1>8. /\ BeyondPrompt(m) \in Int /\ prompt \in Int /\ (beyond = 0 => prompt = m.prompt)
      /\ BeyondPrompt(m) <= beyond
    BY <1>3, <1>6, <1>7
<1>9. b \in Int /\ X \in [Host -> Nat] /\ Y \in [Host -> Int]
  <2> HIDE DEF prompt
  <2>1. E.to[m.dst] + kept \in Nat /\ E.to_prompt[m.dst] + prompt \in Int
    BY <1>3, <1>6, <1>8
  <2>2. QED
    BY <1>3, <1>6, <1>8, <2>1
<1>10. Excess(m) = IF beyond = 0 THEN {} ELSE {[m EXCEPT !.type = "grantsr", !.total = beyond, !.prompt = BeyondPrompt(m)]}
    BY DEF Excess, beyond
<1>11. beyond > 0 => \E n : Excess(m) = {n} /\ IsMessage(n) /\ n.type = "grantsr" /\ SameKey(n, m) /\ n.total = beyond
  <2> SUFFICES ASSUME beyond > 0
               PROVE  \E n : Excess(m) = {n} /\ IsMessage(n) /\ n.type = "grantsr" /\ SameKey(n, m) /\ n.total = beyond
    OBVIOUS
  <2> DEFINE p == BeyondPrompt(m)
             n == [m EXCEPT !.type = "grantsr", !.total = beyond, !.prompt = p]
  <2>1. Excess(m) = {n}
    BY <1>6, <1>10
  <2>2. n = [m EXCEPT !.type = "grantsr", !.total = beyond, !.prompt = p]
    OBVIOUS
  <2>3. p \in Int /\ p <= beyond
    BY <1>8
  <2> HIDE DEF n, p
  <2>4. m = Message(m.type, m.src, m.dst, m.epoch, m.iter, m.remaining, m.total, m.prompt)
    BY <1>1 DEF IsMessage
  <2>5. /\ n = Message(n.type, n.src, n.dst, n.epoch, n.iter, n.remaining, n.total, n.prompt)
        /\ n.type = "grantsr" /\ n.src = m.src /\ n.dst = m.dst /\ n.epoch = m.epoch /\ n.iter = m.iter
        /\ n.total = beyond /\ n.prompt = p
    BY <2>2, <2>4 DEF Message
  <2>6. IsMessage(n) /\ SameKey(n, m)
    BY <1>1, <1>6, <2>3, <2>5 DEF IsMessage, SameKey
  <2>7. QED
    BY <2>1, <2>5, <2>6
<1>12. epochs' = [epochs EXCEPT ![h][e] = F] /\ packets' = (packets \ {m}) \cup Excess(m)
  <2>1. packets' = (packets \ {m}) \cup Excess(m)
        /\ epochs' = [epochs EXCEPT ![h][e] = IF kept = 0 THEN E ELSE
               [E EXCEPT !.num_rx_link = @ + kept, !.num_rx_prompt_link = @ + prompt,
                                        !.to[m.dst] = @ + kept, !.to_prompt[m.dst] = @ + prompt]]
    BY DEF ReceiveAccept, Update, Of, E, kept
  <2>2. [E EXCEPT !.num_rx_link = @ + kept, !.num_rx_prompt_link = @ + prompt,
                                        !.to[m.dst] = @ + kept, !.to_prompt[m.dst] = @ + prompt] = F1
    BY <1>2 DEF IsEpoch, IsRecord
  <2>3. QED
    BY <2>1, <2>2
<1>13. F1 = [E EXCEPT !.num_rx_link = a, !.num_rx_prompt_link = b, !.to = X, !.to_prompt = Y]
    OBVIOUS
<1> HIDE DEF F1, a, b, X, Y
<1>14. /\ IsRecord(F1) /\ KeepsTimes(F1, E) /\ KeepsTx(F1, E) /\ KeepsQueues(F1, E)
       /\ F1.num_rx_link = a /\ F1.num_rx_prompt_link = b /\ F1.to = X /\ F1.to_prompt = Y
    BY <1>2, <1>13 DEF IsEpoch, IsRecord, KeepsTimes, KeepsQueues, KeepsTx
<1>15. IsEpoch(F1)
    BY <1>2, <1>6, <1>9, <1>14 DEF IsEpoch, KeepsTimes, KeepsQueues, KeepsTx
<1>16. IsEpoch(F) /\ KeepsTimes(F, E) /\ KeepsTx(F, E) /\ KeepsQueues(F, E)
    BY <1>2, <1>14, <1>15 DEF KeepsTimes, KeepsTx, KeepsQueues
<1>17. /\ F.num_rx_link = E.num_rx_link + kept /\ F.to = [E.to EXCEPT ![m.dst] = @ + kept]
  <2>1. CASE kept = 0
    <3>1. E.num_rx_link = E.num_rx_link + 0 /\ E.to = [E.to EXCEPT ![m.dst] = @ + 0]
      BY <1>3
    <3>2. QED
      BY <2>1, <3>1
  <2>2. CASE kept # 0
    BY <1>14, <2>2 DEF a, X
  <2>3. QED
    BY <2>1, <2>2
<1>18. /\ kept = 0 => F.num_rx_prompt_link = E.num_rx_prompt_link /\ F.to_prompt = E.to_prompt
       /\ kept > 0 /\ beyond = 0 => /\ F.num_rx_prompt_link = E.num_rx_prompt_link + m.prompt
                                   /\ F.to_prompt = [E.to_prompt EXCEPT ![m.dst] = @ + m.prompt]
    BY <1>8, <1>14 DEF b, Y
<1>18a. \A g \in Host : g # m.dst => F.to_prompt[g] = E.to_prompt[g]
  <2>1. \A g \in Host : g # m.dst => Y[g] = E.to_prompt[g]
    BY <1>3 DEF Y
  <2>2. QED
    BY <1>14, <2>1
<1> HIDE DEF F
<1>19. Turned(h, e, F, DOMAIN epochs[h])
    BY <1>1, <1>12, TurnedOne
<1>20. MessageTurn(m, F, Excess(m))
    BY <1>1, <1>12, <1>16, <1>19 DEF MessageTurn, E
<1>21. AcceptTurn(m, F, Excess(m), kept, beyond)
    BY <1>1, <1>6, <1>10, <1>11, <1>16, <1>17, <1>18, <1>18a DEF AcceptTurn, E
<1>22. QED
    BY <1>20, <1>21

-----------------------------------------------------------------------------
(* When epochs begin *)

\* Epochs start at natural times, EpochLength apart.
LEMMA StartNat ==
    ASSUME NEW e \in Nat
    PROVE  Start(e) \in Nat /\ Start(e + 1) = Start(e) + EpochLength
<1>1. EpochLength \in Nat
    BY LengthAssumption
<1>2. e * EpochLength \in Nat /\ (e + 1) * EpochLength = e * EpochLength + EpochLength
    BY <1>1
<1>3. QED
    BY <1>2 DEF Start

\* An earlier epoch starts at least EpochLength before a later one.
LEMMA StartLess ==
    ASSUME NEW d \in Nat, NEW e \in Nat, d < e
    PROVE  Start(d) + EpochLength <= Start(e)
<1> DEFINE n == e - d - 1
<1>1. n \in Nat /\ e = d + 1 + n /\ EpochLength \in Nat
    BY LengthAssumption
<1> HIDE DEF n
<1>2. (d + 1 + n) * EpochLength = d * EpochLength + EpochLength + n * EpochLength /\ n * EpochLength \in Nat
      /\ d * EpochLength \in Nat
    BY <1>1
<1>3. QED
    BY <1>1, <1>2 DEF Start

\* What the assumptions say of the constants.
Lengths ==
    /\ EpochLength \in Nat /\ IterLimit \in Nat /\ IterLimit > 0 /\ EpochLength >= 2 * IterLimit
    /\ PimK \in Nat /\ PimK > 0 /\ MaxEpoch \in Nat

\* They hold.
LEMMA LengthsAre == Lengths
  BY MatchAssumption, LengthAssumption, MatchBoundsAssumption DEF Lengths

\* The epochs after a step are the ones before it, but for one.
LEMMA TurnedEach ==
    ASSUME DOMAIN epochs = Host, NEW h \in Host, NEW e, NEW F, NEW D, Turned(h, e, F, D)
    PROVE  \A g \in Host : \A i \in DOMAIN epochs'[g] :
              \/ g = h /\ i = e /\ epochs'[g][i] = F
              \/ i \in DOMAIN epochs[g] /\ epochs'[g][i] = epochs[g][i] /\ (g = h => i # e)
  BY DEF Turned

\* The types of the epochs.
Epochal ==
    /\ DOMAIN epochs = Host
    /\ \A g \in Host : /\ DOMAIN epochs[g] \subseteq 0 .. MaxEpoch
                       /\ \A i \in DOMAIN epochs[g] : IsEpoch(epochs[g][i])

\* They keep their types when one of them changes.
LEMMA TurnedTyped ==
    ASSUME Epochal, NEW h \in Host, NEW e, NEW F, NEW D, Turned(h, e, F, D), IsEpoch(F), D \subseteq 0 .. MaxEpoch
    PROVE  Epochal'
<1>1. DOMAIN epochs' = Host
    BY DEF Turned
<1>2. \A g \in Host : DOMAIN epochs'[g] \subseteq 0 .. MaxEpoch
    BY DEF Turned, Epochal
<1>3. \A g \in Host : \A i \in DOMAIN epochs'[g] : IsEpoch(epochs'[g][i])
    BY DEF Turned, Epochal
<1>4. QED
    BY <1>1, <1>2, <1>3 DEF Epochal

\* Rounds and epochs stay as they are.
TimesKept ==
    /\ \A g \in Host : /\ DOMAIN epochs'[g] = DOMAIN epochs[g]
                       /\ \A i \in DOMAIN epochs[g] : KeepsTimes(epochs'[g][i], epochs[g][i])
    /\ UNCHANGED << clock, new_epoch >>
    /\ (AllFinished <=> AllFinished') \/ (~AnyDue /\ (AllFinished => AllFinished'))

\* Times stay right when rounds and epochs stay as they are, whatever flows finish or come.
LEMMA TimesFrame ==
    ASSUME MatchTyped, Clocked, EpochsInOrder, InStep, TimesKept
    PROVE  Clocked' /\ EpochsInOrder' /\ InStep'
<1>1. Clocked'
    BY DEF Clocked, TimesKept, Timed, KeepsTimes
<1>2. EpochsInOrder'
    BY DEF EpochsInOrder, TimesKept, Done, KeepsTimes
<1>3. InStep'
  <2>1. SUFFICES ASSUME NEW h \in Host, NEW g \in Host, NEW e \in DOMAIN epochs[h]
                 PROVE  \/ \E d \in DOMAIN epochs'[g] : d >= e
                        \/ new_epoch'[g] = e /\ e <= MaxEpoch /\ clock' = Start(e) /\ ~AllFinished'
    BY DEF InStep, TimesKept
  <2>2. CASE \E d \in DOMAIN epochs[g] : d >= e
    BY <2>2 DEF TimesKept
  <2>3. CASE new_epoch[g] = e /\ e <= MaxEpoch /\ clock = Start(e) /\ ~AllFinished
    <3>1. AnyDue
      BY <2>3 DEF AnyDue, NewEpochDue, Start
    <3>2. QED
      BY <2>3, <3>1 DEF TimesKept
  <2>4. QED
    BY <2>2, <2>3 DEF InStep
<1>4. QED
    BY <1>1, <1>2, <1>3

\* A step that changes no round of an epoch keeps the times.
LEMMA TurnedTimes ==
    ASSUME DOMAIN epochs = Host, NEW h \in Host, NEW e \in DOMAIN epochs[h], NEW F, Turned(h, e, F, DOMAIN epochs[h]),
           KeepsTimes(F, epochs[h][e]), UNCHANGED << clock, new_epoch, size, to_come >>
    PROVE  TimesKept
<1>1. AllFinished <=> AllFinished'
    BY DEF AllFinished
<1>2. \A g \in Host : /\ DOMAIN epochs'[g] = DOMAIN epochs[g]
                      /\ \A i \in DOMAIN epochs[g] : KeepsTimes(epochs'[g][i], epochs[g][i])
    BY DEF Turned, KeepsTimes
<1>3. QED
    BY <1>1, <1>2 DEF TimesKept

\* So does one that changes the flows alone.
LEMMA SizesTimes ==
    ASSUME MatchTyped, UNCHANGED << clock, new_epoch, epochs >>,
           \/ UNCHANGED << size, to_come >>
           \/ ~AnyDue /\ \E p \in Pairs : DataArrives(p) \/ FlowArrives(p)
    PROVE  TimesKept
<1>1. \A g \in Host : /\ DOMAIN epochs'[g] = DOMAIN epochs[g]
                      /\ \A i \in DOMAIN epochs[g] : KeepsTimes(epochs'[g][i], epochs[g][i])
    BY DEF KeepsTimes
<1>2. (AllFinished <=> AllFinished') \/ (~AnyDue /\ (AllFinished => AllFinished'))
  <2>1. CASE UNCHANGED << size, to_come >>
    BY <2>1 DEF AllFinished
  <2>2. ASSUME ~AnyDue, NEW p \in Pairs, DataArrives(p) \/ FlowArrives(p)
        PROVE  AllFinished => AllFinished'
    <3>1. AllFinished => ~DataArrives(p)
      BY DEF AllFinished, DataArrives
    <3>2. AllFinished => ~FlowArrives(p)
      BY DEF AllFinished, FlowArrives
    <3>3. QED
      BY <2>2, <3>1, <3>2
  <2>3. QED
    BY <2>1, <2>2
<1>3. QED
    BY <1>1, <1>2 DEF TimesKept

-----------------------------------------------------------------------------
(* Rounds *)

\* A receiver's round.
LEMMA ReceiverTurnAt ==
    ASSUME MatchTyped, Clocked, NEW h \in Host, NEW e \in DOMAIN epochs[h], NEW given, NEW F, NEW Q,
           ReceiverTurn(h, e, given, F, Q)
    PROVE  /\ DOMAIN epochs = Host /\ e \in Nat /\ Start(e) \in Nat /\ clock \in Nat
           /\ epochs[h][e].iter \in Nat /\ epochs[h][e].iter <= IterLimit /\ clock = Start(e) + 2 * epochs[h][e].iter
           /\ epochs[h][e].sender_at = clock + 1
           /\ F.iter = epochs[h][e].iter + 1 /\ Timed(e, F)
<1> DEFINE E == epochs[h][e]
<1>1. /\ DOMAIN epochs = Host /\ IsEpoch(E) /\ e \in Nat /\ clock \in Nat
      /\ E.iter \in Nat /\ E.sender_at \in Int
    BY MatchBoundsAssumption DEF MatchTyped, IsEpoch
<1>2. /\ E.receiver_at = clock /\ F.iter = E.iter + 1 /\ F.sender_at = E.sender_at /\ F.iter \in Nat
      /\ F.iter <= IterLimit => F.receiver_at = clock + 2
      /\ F.iter > IterLimit => F.receiver_at = Never
    BY <1>1, LengthsAre DEF ReceiverTurn, ReceiverDue, Lengths
<1>3. Timed(e, E) /\ Start(e) \in Nat
    BY <1>1, StartNat DEF Clocked
<1> HIDE DEF E
<1>4. E.iter <= IterLimit /\ clock = Start(e) + 2 * E.iter
    BY <1>1, <1>2, <1>3, LengthsAre DEF Timed, Never, Lengths
<1>5. E.sender_at = Start(e) + 2 * E.iter + 1 \/ (E.iter > 0 /\ E.sender_at = Start(e) + 2 * E.iter - 1)
    BY <1>3, <1>4 DEF Timed
<1>6. E.sender_at # Never
    BY <1>1, <1>3, <1>5 DEF Never
<1>7. clock <= E.sender_at
    BY <1>3, <1>6 DEF Timed
<1>8. E.sender_at = clock + 1
    BY <1>1, <1>3, <1>4, <1>5, <1>7
<1>9. Timed(e, F)
    BY <1>1, <1>2, <1>3, <1>4, <1>8, LengthsAre DEF Timed, Lengths
<1>10. QED
    BY <1>1, <1>2, <1>3, <1>4, <1>8, <1>9 DEF E

\* Times stay right in a receiver's round.
LEMMA ReceiverTurnTimes ==
    ASSUME MatchTyped, Clocked, EpochsInOrder, InStep, NEW h \in Host, NEW e \in DOMAIN epochs[h], NEW given, NEW F, NEW Q,
           ReceiverTurn(h, e, given, F, Q)
    PROVE  Clocked' /\ EpochsInOrder' /\ InStep'
<1> DEFINE D == IF F.iter <= IterLimit THEN DOMAIN epochs[h] ELSE DOMAIN epochs[h] \ {e - 1}
<1>1. /\ DOMAIN epochs = Host /\ e \in Nat /\ clock \in Nat /\ \A g \in Host : DOMAIN epochs[g] \subseteq Nat
      /\ F.iter = epochs[h][e].iter + 1 /\ Timed(e, F) /\ epochs[h][e].iter <= IterLimit /\ epochs[h][e].iter \in Nat
    BY MatchBoundsAssumption, ReceiverTurnAt DEF MatchTyped
<1>2. /\ Turned(h, e, F, D)
      /\ UNCHANGED << clock, new_epoch, size, to_come >>
    BY <1>1, LengthsAre DEF ReceiverTurn, Lengths
<1>2a. e \in D /\ (AllFinished' <=> AllFinished)
    BY <1>1, <1>2 DEF AllFinished, Turned
<1>2b. D \subseteq DOMAIN epochs[h] /\ \A i \in DOMAIN epochs[h] : i \in D \/ (i = e - 1 /\ F.iter > IterLimit)
    BY <1>1, LengthsAre DEF Lengths
<1>2c. F.iter > IterLimit => e - 1 \notin D
    BY <1>1, LengthsAre DEF Lengths
<1> HIDE DEF D
<1>3. \A g \in Host : \A i \in DOMAIN epochs'[g] :
              \/ g = h /\ i = e /\ epochs'[g][i] = F
              \/ i \in DOMAIN epochs[g] /\ epochs'[g][i] = epochs[g][i] /\ (g = h => i # e)
    BY <1>1, <1>2, TurnedEach
<1>4. \A g \in Host : /\ DOMAIN epochs'[g] \subseteq DOMAIN epochs[g]
                      /\ \A i \in DOMAIN epochs[g] : i \in DOMAIN epochs'[g] \/ (g = h /\ i = e - 1 /\ F.iter > IterLimit)
    BY <1>1, <1>2, <1>2b DEF Turned
<1>5. \A g \in Host : \A i \in DOMAIN epochs'[g] : Done(g, i) => Done(g, i)'
    BY <1>1, <1>3, LengthsAre DEF Done, Lengths
<1>6. \A g \in Host : \A i \in DOMAIN epochs'[g] : Done(g, i)' => Done(g, i) \/ (g = h /\ i = e /\ F.iter > IterLimit)
    BY <1>1, <1>3, LengthsAre DEF Done, Lengths
<1>7. Clocked'
  <2>1. \A g \in Host : \A i \in DOMAIN epochs'[g] : Timed(i, epochs[g][i])'
    BY <1>1, <1>2, <1>3 DEF Clocked, Timed
  <2>2. \A g \in Host : new_epoch'[g] <= MaxEpoch => clock' <= Start(new_epoch'[g])
    BY <1>2 DEF Clocked
  <2>3. QED
    BY <2>1, <2>2 DEF Clocked
<1>8. EpochsInOrder'
  <2>1. SUFFICES ASSUME NEW g \in Host
                 PROVE  /\ new_epoch[g] > 0 /\ (new_epoch[g] <= MaxEpoch \/ ~AllFinished) => new_epoch[g] - 1 \in DOMAIN epochs'[g]
                        /\ \A i \in DOMAIN epochs'[g] :
                              /\ i < new_epoch[g]
                              /\ \A d \in DOMAIN epochs'[g] : i < d => Done(g, i)' /\ d = i + 1
                              /\ \A d \in DOMAIN epochs'[g] : Done(g, i)' => i <= d
                              /\ ~Done(g, i)' /\ i > 0 => i - 1 \in DOMAIN epochs'[g]
    BY <1>2, <1>2a DEF EpochsInOrder, Done
  <2>2. new_epoch[g] \in Nat /\ e < new_epoch[h] /\ ~Done(h, e)
    BY <1>1, LengthsAre DEF MatchTyped, EpochsInOrder, Done, Lengths
  <2>3. new_epoch[g] > 0 /\ (new_epoch[g] <= MaxEpoch \/ ~AllFinished) => new_epoch[g] - 1 \in DOMAIN epochs'[g]
    BY <1>1, <1>4, <2>2 DEF EpochsInOrder
  <2>4. ASSUME NEW i \in DOMAIN epochs'[g]
        PROVE  /\ i < new_epoch[g]
               /\ \A d \in DOMAIN epochs'[g] : i < d => Done(g, i)' /\ d = i + 1
    BY <1>4, <1>5 DEF EpochsInOrder
  <2>5. ASSUME NEW i \in DOMAIN epochs'[g], NEW d \in DOMAIN epochs'[g], Done(g, i)'
        PROVE  i <= d
    <3>1. CASE Done(g, i)
      BY <1>4, <3>1 DEF EpochsInOrder
    <3>2. CASE g = h /\ i = e /\ F.iter > IterLimit
      <4>1. d # e - 1
        BY <1>2, <1>2c, <3>2 DEF Turned
      <4>2. d < e => e = d + 1
        BY <1>4, <3>2 DEF EpochsInOrder
      <4>3. QED
        BY <1>1, <1>4, <3>2, <4>1, <4>2
    <3>3. QED
      BY <1>6, <2>5, <3>1, <3>2
  <2>6. ASSUME NEW i \in DOMAIN epochs'[g], ~Done(g, i)', i > 0
        PROVE  i - 1 \in DOMAIN epochs'[g]
    <3>1. i \in DOMAIN epochs[g] /\ ~Done(g, i)
      BY <1>4, <1>5, <2>6
    <3>2. i - 1 \in DOMAIN epochs[g]
      BY <2>6, <3>1 DEF EpochsInOrder
    <3>3. CASE g = h /\ i - 1 = e - 1 /\ F.iter > IterLimit
      <4>1. i = e
        BY <1>1, <3>1, <3>3
      <4>2. epochs'[g][i] = F
        BY <1>2, <3>3, <4>1 DEF Turned
      <4>3. QED
        BY <2>6, <3>3, <4>2 DEF Done
    <3>4. QED
      BY <1>4, <3>2, <3>3
  <2>7. QED
    BY <2>3, <2>4, <2>5, <2>6
<1>9. InStep'
  <2>1. SUFFICES ASSUME NEW f \in Host, NEW g \in Host, NEW i \in DOMAIN epochs'[f]
                 PROVE  \/ \E d \in DOMAIN epochs'[g] : d >= i
                        \/ new_epoch[g] = i /\ i <= MaxEpoch /\ clock = Start(i) /\ ~AllFinished
    BY <1>2, <1>2a DEF InStep
  <2>2. CASE \E d \in DOMAIN epochs[g] : d >= i
    <3>1. PICK d \in DOMAIN epochs[g] : d >= i
      BY <2>2
    <3>2. CASE d \in DOMAIN epochs'[g]
      BY <3>1, <3>2
    <3>3. CASE d \notin DOMAIN epochs'[g]
      <4>1. g = h /\ d = e - 1 /\ e \in DOMAIN epochs'[g]
        BY <1>2, <1>2a, <1>4, <3>3 DEF Turned
      <4>2. QED
        BY <1>1, <1>4, <3>1, <4>1
    <3>4. QED
      BY <3>2, <3>3
  <2>3. QED
    BY <1>4, <2>2 DEF InStep
<1>10. QED
    BY <1>7, <1>8, <1>9

\* A sender's round.
LEMMA SenderTurnAt ==
    ASSUME MatchTyped, Clocked, NEW h \in Host, NEW e \in DOMAIN epochs[h], NEW given, NEW F,
           SenderIter(h, e, given, F)
    PROVE  /\ DOMAIN epochs = Host /\ e \in Nat /\ Start(e) \in Nat /\ clock \in Nat /\ epochs[h][e].iter \in Nat
           /\ epochs[h][e].iter <= IterLimit => epochs[h][e].iter > 0 /\ clock = Start(e) + 2 * epochs[h][e].iter - 1
           /\ Timed(e, F)
<1> DEFINE E == epochs[h][e]
<1>1. /\ DOMAIN epochs = Host /\ IsEpoch(E) /\ e \in Nat /\ clock \in Nat
      /\ E.iter \in Nat /\ E.sender_at \in Int /\ Start(e) \in Nat
    BY MatchBoundsAssumption, StartNat DEF MatchTyped, IsEpoch
<1>2. /\ E.sender_at = clock /\ F.iter = E.iter /\ F.receiver_at = E.receiver_at
      /\ E.iter <= IterLimit => F.sender_at = clock + 2
      /\ E.iter > IterLimit => F.sender_at = Never
    BY <1>1, LengthsAre DEF SenderIter, SenderDue, Lengths
<1>3. Timed(e, E)
    BY <1>1 DEF Clocked
<1> HIDE DEF E
<1>4. CASE E.iter <= IterLimit
  <2>1. /\ E.sender_at = Start(e) + 2 * E.iter + 1 \/ (E.iter > 0 /\ E.sender_at = Start(e) + 2 * E.iter - 1)
        /\ E.receiver_at = Start(e) + 2 * E.iter /\ clock <= E.receiver_at
        /\ clock >= Start(e) + (IF E.iter = 0 THEN 0 ELSE 2 * (E.iter - 1))
    BY <1>3, <1>4 DEF Timed
  <2>2. E.iter > 0 /\ clock = Start(e) + 2 * E.iter - 1
    BY <1>1, <1>2, <2>1
  <2>3. F.iter <= IterLimit /\ F.sender_at = Start(e) + 2 * F.iter + 1
    BY <1>1, <1>2, <1>4, <2>2
  <2>4. Timed(e, F)
    BY <1>1, <1>2, <1>4, <2>1, <2>2, <2>3, LengthsAre DEF Timed, Lengths
  <2>5. QED
    BY <1>1, <2>2, <2>4 DEF E
<1>5. CASE E.iter > IterLimit
  <2>1. Timed(e, F) /\ ~(E.iter <= IterLimit)
    BY <1>1, <1>2, <1>3, <1>5, LengthsAre DEF Timed, Lengths
  <2>2. QED
    BY <1>1, <2>1 DEF E
<1>6. QED
    BY <1>1, <1>4, <1>5, LengthsAre DEF Lengths

\* Times stay right in a sender's round.
LEMMA SenderTurnTimes ==
    ASSUME MatchTyped, Clocked, EpochsInOrder, InStep, NEW h \in Host, NEW e \in DOMAIN epochs[h], NEW given, NEW F,
           SenderIter(h, e, given, F)
    PROVE  Clocked' /\ EpochsInOrder' /\ InStep'
<1>1. /\ DOMAIN epochs = Host /\ Timed(e, F) /\ Turned(h, e, F, DOMAIN epochs[h]) /\ F.iter = epochs[h][e].iter
      /\ UNCHANGED << clock, new_epoch, size, to_come >>
    BY SenderTurnAt DEF SenderIter
<1>2. AllFinished' <=> AllFinished
    BY <1>1 DEF AllFinished
<1>3. \A g \in Host : \A i \in DOMAIN epochs'[g] :
              \/ g = h /\ i = e /\ epochs'[g][i] = F
              \/ i \in DOMAIN epochs[g] /\ epochs'[g][i] = epochs[g][i] /\ (g = h => i # e)
    BY <1>1, TurnedEach
<1>4. \A g \in Host : DOMAIN epochs'[g] = DOMAIN epochs[g]
    BY <1>1 DEF Turned
<1>5. \A g \in Host : \A i \in DOMAIN epochs'[g] : epochs'[g][i].iter = epochs[g][i].iter
    BY <1>1, <1>3
<1>6. Clocked'
  <2>1. \A g \in Host : \A i \in DOMAIN epochs'[g] : Timed(i, epochs[g][i])'
    BY <1>1, <1>3 DEF Clocked, Timed
  <2>2. \A g \in Host : new_epoch'[g] <= MaxEpoch => clock' <= Start(new_epoch'[g])
    BY <1>1 DEF Clocked
  <2>3. QED
    BY <2>1, <2>2 DEF Clocked
<1>7. EpochsInOrder'
    BY <1>1, <1>2, <1>4, <1>5 DEF EpochsInOrder, Done
<1>8. InStep'
    BY <1>1, <1>2, <1>4 DEF InStep
<1>9. QED
    BY <1>6, <1>7, <1>8

\* What start_new_epoch finds: the last epoch is matched, and the only one.
LEMMA NewTurnAt ==
    ASSUME MatchTyped, Clocked, EpochsInOrder, NEW h \in Host, NEW F, NewTurn(h, F)
    PROVE  /\ DOMAIN epochs = Host /\ new_epoch[h] \in Nat /\ new_epoch[h] <= MaxEpoch
           /\ clock = Start(new_epoch[h]) /\ Start(new_epoch[h]) \in Nat
           /\ new_epoch[h] = 0 => DOMAIN epochs[h] = {}
           /\ new_epoch[h] > 0 => DOMAIN epochs[h] = {new_epoch[h] - 1} /\ Done(h, new_epoch[h] - 1)
<1> DEFINE e == new_epoch[h]
<1>1. /\ DOMAIN epochs = Host /\ e \in Nat /\ e <= MaxEpoch /\ clock = Start(e) /\ ~AllFinished /\ ~AnyReceiverDue
      /\ DOMAIN epochs[h] \subseteq Nat /\ \A i \in DOMAIN epochs[h] : IsEpoch(epochs[h][i])
    BY LengthsAre DEF MatchTyped, NewTurn, NewEpochDue, Start, Lengths
<1>2. Start(e) \in Nat /\ \A i \in DOMAIN epochs[h] : i < e
    BY <1>1, StartNat DEF EpochsInOrder
<1>3. CASE e = 0
  <2>1. DOMAIN epochs[h] = {}
    BY <1>1, <1>2, <1>3
  <2>2. QED
    BY <1>1, <1>2, <1>3, <2>1
<1>4. CASE e > 0
  <2>1. e - 1 \in DOMAIN epochs[h] /\ e - 1 \in Nat
    BY <1>1, <1>4 DEF EpochsInOrder
  <2> DEFINE E == epochs[h][e - 1]
  <2>2. Timed(e - 1, E) /\ IsEpoch(E) /\ E.receiver_at # clock
    BY <1>1, <2>1 DEF Clocked, AnyReceiverDue, ReceiverDue
  <2>3. E.iter \in Nat /\ Start(e - 1) \in Nat /\ Start(e) = Start(e - 1) + EpochLength
    BY <1>1, <2>1, <2>2, StartNat DEF IsEpoch
  <2> HIDE DEF E
  <2>4. E.iter > IterLimit
    <3>1. SUFFICES ASSUME E.iter <= IterLimit PROVE FALSE
      BY <2>3, LengthsAre DEF Lengths
    <3>2. E.receiver_at = Start(e - 1) + 2 * E.iter /\ clock <= E.receiver_at
      BY <2>2, <3>1 DEF Timed
    <3>3. QED
      BY <1>1, <2>2, <2>3, <3>1, <3>2, LengthsAre DEF Lengths
  <2>5. Done(h, e - 1)
    BY <2>4 DEF Done, E
  <2>6. \A d \in DOMAIN epochs[h] : e - 1 <= d
    BY <2>1, <2>5 DEF EpochsInOrder
  <2>7. DOMAIN epochs[h] = {e - 1}
    BY <1>1, <1>2, <2>1, <2>6
  <2>8. QED
    BY <1>1, <1>2, <1>4, <2>5, <2>7
<1>5. QED
    BY <1>1, <1>3, <1>4

\* Times stay right when an epoch begins.
LEMMA NewTurnTimes ==
    ASSUME MatchTyped, Clocked, EpochsInOrder, InStep, NEW h \in Host, NEW F, NewTurn(h, F)
    PROVE  Clocked' /\ EpochsInOrder' /\ InStep'
<1>0. PICK e : e = new_epoch[h]
    OBVIOUS
<1>1. /\ DOMAIN epochs = Host /\ e \in Nat /\ e <= MaxEpoch /\ clock = Start(e) /\ Start(e) \in Nat /\ ~AllFinished
      /\ \A g \in Host : DOMAIN epochs[g] \subseteq Nat
      /\ \A g \in Host : new_epoch[g] \in Nat
  <2>1. /\ DOMAIN epochs = Host /\ e \in Nat /\ e <= MaxEpoch /\ clock = Start(e) /\ Start(e) \in Nat
    BY <1>0, NewTurnAt
  <2>2. ~AllFinished
    BY DEF NewTurn
  <2>3. /\ \A g \in Host : DOMAIN epochs[g] \subseteq Nat
        /\ \A g \in Host : new_epoch[g] \in Nat
    BY LengthsAre DEF MatchTyped, Lengths
  <2>4. QED
    BY <2>1, <2>2, <2>3
<1>2. /\ Turned(h, e, F, DOMAIN epochs[h] \cup {e}) /\ F.iter = 0 /\ F.receiver_at = clock /\ F.sender_at = clock + 1
      /\ UNCHANGED << clock, size, to_come >>
      /\ new_epoch'[h] = e + 1 /\ \A g \in Host : g # h => new_epoch'[g] = new_epoch[g]
    BY <1>0, <1>1 DEF NewTurn, MatchTyped
<1>3. AllFinished' <=> AllFinished
    BY <1>2 DEF AllFinished
<1>4. \A g \in Host : \A i \in DOMAIN epochs'[g] :
              \/ g = h /\ i = e /\ epochs'[g][i] = F
              \/ i \in DOMAIN epochs[g] /\ epochs'[g][i] = epochs[g][i] /\ (g = h => i # e)
    BY <1>1, <1>2, TurnedEach
<1>5. /\ DOMAIN epochs'[h] = DOMAIN epochs[h] \cup {e} /\ e \notin DOMAIN epochs[h]
      /\ \A g \in Host : g # h => DOMAIN epochs'[g] = DOMAIN epochs[g]
    BY <1>0, <1>1, <1>2 DEF Turned, EpochsInOrder
<1>6. /\ e = 0 => DOMAIN epochs[h] = {}
      /\ e > 0 => DOMAIN epochs[h] = {e - 1} /\ Done(h, e - 1)
    BY <1>0, NewTurnAt
<1>6a. e \in DOMAIN epochs'[h] /\ epochs'[h][e] = F
    BY <1>2 DEF Turned
<1>7. Clocked'
  <2>1. Timed(e, F)
    BY <1>1, <1>2, LengthsAre DEF Timed, Lengths
  <2>2. \A g \in Host : \A i \in DOMAIN epochs'[g] : Timed(i, epochs[g][i])'
    BY <1>2, <1>4, <2>1 DEF Clocked, Timed
  <2>3. ASSUME NEW g \in Host, new_epoch'[g] <= MaxEpoch PROVE clock' <= Start(new_epoch'[g])
    <3>1. CASE g = h
      BY <1>1, <1>2, <3>1, StartNat, LengthsAre DEF Lengths
    <3>2. CASE g # h
      BY <1>2, <2>3, <3>2 DEF Clocked
    <3>3. QED
      BY <3>1, <3>2
  <2>4. QED
    BY <2>2, <2>3 DEF Clocked
<1>8. EpochsInOrder'
  <2>1. ASSUME NEW g \in Host, g # h
        PROVE  /\ new_epoch'[g] > 0 /\ (new_epoch'[g] <= MaxEpoch \/ ~AllFinished') => new_epoch'[g] - 1 \in DOMAIN epochs'[g]
               /\ \A i \in DOMAIN epochs'[g] :
                     /\ i < new_epoch'[g]
                     /\ \A d \in DOMAIN epochs'[g] : i < d => Done(g, i)' /\ d = i + 1
                     /\ \A d \in DOMAIN epochs'[g] : Done(g, i)' => i <= d
                     /\ ~Done(g, i)' /\ i > 0 => i - 1 \in DOMAIN epochs'[g]
    <3>1. epochs'[g] = epochs[g] /\ new_epoch'[g] = new_epoch[g]
      BY <1>2, <2>1 DEF Turned
    <3>2. QED
      BY <1>3, <3>1 DEF EpochsInOrder, Done
  <2>2. DOMAIN epochs'[h] = (IF e = 0 THEN {0} ELSE {e - 1, e})
    BY <1>1, <1>5, <1>6
  <2>3. ~Done(h, e)' /\ (e > 0 => Done(h, e - 1)')
    <3>1. ~Done(h, e)'
      BY <1>2, <1>6a, LengthsAre DEF Done, Lengths
    <3>2. e > 0 => epochs'[h][e - 1] = epochs[h][e - 1]
      BY <1>1, <1>4, <2>2
    <3>3. QED
      BY <1>6, <3>1, <3>2 DEF Done
  <2>4. /\ new_epoch'[h] > 0 /\ (new_epoch'[h] <= MaxEpoch \/ ~AllFinished') => new_epoch'[h] - 1 \in DOMAIN epochs'[h]
        /\ \A i \in DOMAIN epochs'[h] :
              /\ i < new_epoch'[h]
              /\ \A d \in DOMAIN epochs'[h] : i < d => Done(h, i)' /\ d = i + 1
              /\ \A d \in DOMAIN epochs'[h] : Done(h, i)' => i <= d
              /\ ~Done(h, i)' /\ i > 0 => i - 1 \in DOMAIN epochs'[h]
    BY <1>1, <1>2, <2>2, <2>3
  <2>5. QED
    BY <2>1, <2>4 DEF EpochsInOrder
<1>9. InStep'
  <2>1. SUFFICES ASSUME NEW f \in Host, NEW g \in Host, NEW i \in DOMAIN epochs'[f]
                 PROVE  \/ \E d \in DOMAIN epochs'[g] : d >= i
                        \/ new_epoch'[g] = i /\ i <= MaxEpoch /\ clock = Start(i) /\ ~AllFinished
    BY <1>2, <1>3 DEF InStep
  <2>2. CASE f = h /\ i = e
    <3>1. CASE g = h
      BY <1>1, <1>6a, <3>1, <2>2
    <3>2. CASE g # h /\ new_epoch[g] > e
      <4>1. new_epoch[g] - 1 \in DOMAIN epochs[g]
        BY <1>1, <3>2 DEF EpochsInOrder
      <4>2. QED
        BY <1>1, <1>5, <2>2, <3>2, <4>1
    <3>3. CASE g # h /\ new_epoch[g] <= e
      <4>1. new_epoch[g] <= MaxEpoch /\ clock <= Start(new_epoch[g])
        BY <1>1, <3>3, LengthsAre DEF Clocked, Lengths
      <4>2. ~(new_epoch[g] < e)
        <5>1. SUFFICES ASSUME new_epoch[g] < e PROVE FALSE
          OBVIOUS
        <5>2. Start(new_epoch[g]) + EpochLength <= Start(e)
          BY <1>1, <5>1, StartLess
        <5>3. Start(new_epoch[g]) \in Nat
          BY <1>1, StartNat
        <5>4. QED
          BY <1>1, <4>1, <5>2, <5>3, LengthsAre DEF Lengths
      <4>3. new_epoch[g] = e
        BY <1>1, <3>3, <4>2
      <4>4. QED
        BY <1>1, <1>2, <2>2, <3>3, <4>3
    <3>4. QED
      BY <1>1, <3>1, <3>2, <3>3
  <2>3. CASE i \in DOMAIN epochs[f]
    <3>1. CASE \E d \in DOMAIN epochs[g] : d >= i
      BY <1>5, <3>1
    <3>2. CASE new_epoch[g] = i /\ i <= MaxEpoch /\ clock = Start(i) /\ ~AllFinished
      <4>1. CASE g = h
        BY <1>0, <1>1, <1>6a, <3>2, <4>1
      <4>2. CASE g # h
        BY <1>2, <3>2, <4>2
      <4>3. QED
        BY <4>1, <4>2
    <3>3. QED
      BY <2>3, <3>1, <3>2 DEF InStep
  <2>4. QED
    BY <1>4, <2>2, <2>3
<1>10. QED
    BY <1>7, <1>8, <1>9

\* A host that starts no more epochs.
LEMMA StopTimes ==
    ASSUME MatchTyped, Clocked, EpochsInOrder, InStep, NEW h \in Host, AllFinished,
           new_epoch' = [new_epoch EXCEPT ![h] = MaxEpoch + 1], UNCHANGED << clock, epochs, size, to_come >>
    PROVE  Clocked' /\ EpochsInOrder' /\ InStep'
<1>1. new_epoch'[h] = MaxEpoch + 1 /\ \A g \in Host : g # h => new_epoch'[g] = new_epoch[g]
    BY DEF MatchTyped
<1>2. AllFinished'
    BY DEF AllFinished
<1>3. Clocked'
    BY <1>1, LengthsAre DEF Clocked, Timed, Lengths
<1>4. EpochsInOrder'
  <2>1. \A i \in DOMAIN epochs[h] : i <= MaxEpoch /\ i \in Int
    BY LengthsAre DEF MatchTyped, Lengths
  <2>2. QED
    BY <1>1, <1>2, <2>1, LengthsAre DEF EpochsInOrder, Done, Lengths
<1>5. InStep'
    BY <1>2 DEF InStep
<1>6. QED
    BY <1>3, <1>4, <1>5

\* Half a round passes only when nothing is due.
LEMMA TickTimes ==
    ASSUME MatchTyped, Clocked, EpochsInOrder, InStep, Tick
    PROVE  Clocked' /\ EpochsInOrder' /\ InStep'
<1>1. ~AnyDue /\ clock' = clock + 1 /\ UNCHANGED << epochs, new_epoch, size, to_come >> /\ clock \in Nat
    BY DEF Tick, MatchTyped
<1>2. ASSUME NEW g \in Host, NEW i \in DOMAIN epochs[g]
      PROVE  Timed(i, epochs[g][i])'
  <2> DEFINE E == epochs[g][i]
  <2>1. E.receiver_at # clock /\ E.sender_at # clock /\ Timed(i, E) /\ E.sender_at \in Int /\ E.receiver_at \in Int
        /\ Start(i) \in Nat /\ E.iter \in Nat
    BY <1>1, <1>2, StartNat, LengthsAre DEF AnyDue, AnyReceiverDue, AnySenderDue, ReceiverDue, SenderDue, Clocked, MatchTyped, IsEpoch, Lengths
  <2> HIDE DEF E
  <2>2. /\ E.iter <= IterLimit =>
              /\ E.receiver_at = Start(i) + 2 * E.iter /\ clock + 1 <= E.receiver_at
              /\ clock + 1 >= Start(i) + (IF E.iter = 0 THEN 0 ELSE 2 * (E.iter - 1))
              /\ E.sender_at = Start(i) + 2 * E.iter + 1 \/ (E.iter > 0 /\ E.sender_at = Start(i) + 2 * E.iter - 1)
        /\ E.iter > IterLimit =>
              E.receiver_at = Never /\ clock + 1 >= Start(i) + 2 * IterLimit
        /\ E.sender_at # Never => clock + 1 <= E.sender_at
    BY <1>1, <2>1, LengthsAre DEF Timed, Lengths
  <2>3. QED
    BY <1>1, <2>2 DEF Timed, E
<1>3. ASSUME NEW g \in Host, new_epoch[g] <= MaxEpoch PROVE clock + 1 <= Start(new_epoch[g])
  <2>1. clock # Start(new_epoch[g])
    BY <1>1, <1>3 DEF AnyDue, NewEpochDue, Start
  <2>2. Start(new_epoch[g]) \in Nat /\ clock <= Start(new_epoch[g])
    BY <1>3, StartNat DEF MatchTyped, Clocked
  <2>3. QED
    BY <1>1, <2>1, <2>2
<1>4. Clocked'
    BY <1>1, <1>2, <1>3 DEF Clocked
<1>5. EpochsInOrder'
    BY <1>1 DEF EpochsInOrder, Done, AllFinished
<1>6. ASSUME NEW g \in Host, new_epoch[g] <= MaxEpoch PROVE clock # Start(new_epoch[g])
    BY <1>1, <1>6 DEF AnyDue, NewEpochDue, Start
<1>7. InStep'
    BY <1>1, <1>6 DEF InStep
<1>8. QED
    BY <1>4, <1>5, <1>7

-----------------------------------------------------------------------------
(* Types *)

\* All of the type invariant but the epochs.
Otherwise ==
    /\ clock \in Nat /\ late \in Nat /\ to_come \in Nat
    /\ new_epoch \in [Host -> 0 .. MaxEpoch + 1]
    /\ links \in [Host -> [Host -> Nat]]
    /\ size \in [Pairs -> Nat]
    /\ IsFiniteSet(packets) /\ \A m \in packets : IsMessage(m)

\* Together they are the type invariant.
LEMMA TypedIs == MatchTyped <=> Epochal /\ Otherwise
  BY DEF MatchTyped, Epochal, Otherwise

\* And so they are after a step.
LEMMA TypedNow ==
    ASSUME Epochal', Otherwise'
    PROVE  MatchTyped'
<1>1. /\ DOMAIN epochs' = Host
      /\ \A h \in Host : /\ DOMAIN epochs'[h] \subseteq 0 .. MaxEpoch
                         /\ \A e \in DOMAIN epochs'[h] : IsEpoch(epochs'[h][e])
    BY DEF Epochal
<1>2. QED
    BY <1>1 DEF MatchTyped, Otherwise

\* Types in a receiver's round.
LEMMA ReceiverTurnTyped ==
    ASSUME MatchTyped, NEW h \in Host, NEW e \in DOMAIN epochs[h], NEW given, NEW F, NEW Q,
           ReceiverTurn(h, e, given, F, Q)
    PROVE  MatchTyped' /\ IsFiniteSet(AcceptPkts(given)) /\ IsFiniteSet(Q)
<1> DEFINE A == AcceptPkts(given)
           G == Range(given)
           E == epochs[h][e]
           D == IF F.iter <= IterLimit THEN DOMAIN epochs[h] ELSE DOMAIN epochs[h] \ {e - 1}
<1>1. Epochal /\ Otherwise
    BY TypedIs
<1>2. Deals(given, E.grants_q, PimK - E.num_tx_link, PimK - E.num_tx_prompt_link) /\ IsEpoch(F) /\ F.iter \in Int
    BY DEF ReceiverTurn, IsEpoch
<1>3. Turned(h, e, F, D) /\ D \subseteq 0 .. MaxEpoch
    BY <1>1, <1>2, LengthsAre DEF ReceiverTurn, Lengths, Epochal
<1> HIDE DEF D
<1>4. Epochal'
    BY <1>1, <1>2, <1>3, TurnedTyped
<1>5. /\ IsWeighed(G) /\ (\A g \in G : IsMessage(g)) /\ (\A g, k \in G : SameKey(g, k) => g = k)
    BY <1>2 DEF Deals, Answers
<1>6. A = Retyped(G, "accept")
    BY DEF AcceptPkts, Retyped
<1> HIDE DEF A, G
<1>7. IsFiniteSet(A) /\ \A n \in A : IsMessage(n)
  <2>1. IsWeighed(Retyped(G, "accept")) /\ \A n \in Retyped(G, "accept") : IsMessage(n)
    BY <1>5, RetypedAre
  <2>2. QED
    BY <1>6, <2>1 DEF IsWeighed
<1>8. IsFiniteSet(Q) /\ \A q \in Q : IsMessage(q)
    BY FS_EmptySet DEF ReceiverTurn, Asks
<1>9. packets' = packets \cup A \cup Q /\ UNCHANGED << clock, new_epoch, size, to_come, late >>
    BY DEF ReceiverTurn, A
<1>10. links' \in [Host -> [Host -> Nat]]
  <2>1. F.from \in [Host -> Nat]
    BY <1>2 DEF IsEpoch
  <2>2. links' = links \/ links' = [links EXCEPT ![h] = F.from]
    BY DEF ReceiverTurn
  <2>3. QED
    BY <1>1, <2>1, <2>2 DEF Otherwise
<1>11. IsFiniteSet(packets') /\ \A m \in packets' : IsMessage(m)
  <2>1. IsFiniteSet(packets \cup A)
    BY <1>1, <1>7, FS_Union DEF Otherwise
  <2>2. IsFiniteSet((packets \cup A) \cup Q)
    BY <1>8, <2>1, FS_Union
  <2>3. QED
    BY <1>1, <1>7, <1>8, <1>9, <2>2 DEF Otherwise
<1>12. Otherwise'
    BY <1>1, <1>9, <1>10, <1>11 DEF Otherwise
<1>13. QED
    BY <1>4, <1>7, <1>8, <1>12, TypedNow DEF A

\* Types in a sender's round.
LEMMA SenderTurnTyped ==
    ASSUME MatchTyped, NEW h \in Host, NEW e \in DOMAIN epochs[h], NEW given, NEW F,
           SenderIter(h, e, given, F)
    PROVE  MatchTyped'
<1> DEFINE G == Range(given)
           E == epochs[h][e]
<1>1. Epochal /\ Otherwise
    BY TypedIs
<1>2. IsEpoch(F) /\ Turned(h, e, F, DOMAIN epochs[h]) /\ DOMAIN epochs[h] \subseteq 0 .. MaxEpoch
    BY <1>1 DEF SenderIter, Epochal
<1>3. Epochal'
    BY <1>1, <1>2, TurnedTyped
<1>4. UNCHANGED << clock, new_epoch, links, size, to_come, late >>
    BY DEF SenderIter
<1>5. IsFiniteSet(packets') /\ \A m \in packets' : IsMessage(m)
  <2>1. CASE packets' = packets
    BY <1>1, <2>1 DEF Otherwise
  <2>2. CASE /\ Deals(given, E.req_q, PimK - E.num_rx_link, PimK - E.num_rx_prompt_link)
             /\ packets' = packets \cup Retyped(G, "grant")
    <3>1. /\ IsWeighed(G) /\ (\A g \in G : IsMessage(g)) /\ (\A g, k \in G : SameKey(g, k) => g = k)
      BY <2>2 DEF Deals, Answers
    <3> HIDE DEF G
    <3>2. IsWeighed(Retyped(G, "grant")) /\ \A n \in Retyped(G, "grant") : IsMessage(n)
      BY <3>1, RetypedAre
    <3>3. IsFiniteSet(packets \cup Retyped(G, "grant"))
      BY <1>1, <3>2, FS_Union DEF Otherwise, IsWeighed
    <3>4. QED
      BY <1>1, <2>2, <3>2, <3>3 DEF Otherwise
  <2>3. QED
    BY <2>1, <2>2 DEF SenderIter
<1>6. Otherwise'
    BY <1>1, <1>4, <1>5 DEF Otherwise
<1>7. QED
    BY <1>3, <1>6, TypedNow

\* Types when an epoch begins.
LEMMA NewTurnTyped ==
    ASSUME MatchTyped, Clocked, EpochsInOrder, NEW h \in Host, NEW F, NewTurn(h, F)
    PROVE  MatchTyped'
<1>1. Epochal /\ Otherwise
    BY TypedIs
<1>2. PICK e : e = new_epoch[h]
    OBVIOUS
<1>3. e \in 0 .. MaxEpoch
    BY <1>2, NewTurnAt, LengthsAre DEF Lengths
<1>4. IsEpoch(F) /\ Turned(h, e, F, DOMAIN epochs[h] \cup {e}) /\ DOMAIN epochs[h] \cup {e} \subseteq 0 .. MaxEpoch
    BY <1>1, <1>2, <1>3 DEF NewTurn, Epochal
<1>5. Epochal'
    BY <1>1, <1>4, TurnedTyped
<1>6. UNCHANGED << clock, packets, links, size, to_come, late >> /\ new_epoch' = [new_epoch EXCEPT ![h] = e + 1]
    BY <1>2 DEF NewTurn
<1>7. e + 1 \in 0 .. MaxEpoch + 1
    BY <1>3, LengthsAre DEF Lengths
<1>8. Otherwise'
    BY <1>1, <1>6, <1>7 DEF Otherwise
<1>9. QED
    BY <1>5, <1>8, TypedNow

\* Types when a host stops.
LEMMA StopTyped ==
    ASSUME MatchTyped, NEW h \in Host,
           new_epoch' = [new_epoch EXCEPT ![h] = MaxEpoch + 1], UNCHANGED << clock, epochs, links, size, to_come, packets, late >>
    PROVE  MatchTyped'
<1>1. MaxEpoch + 1 \in 0 .. MaxEpoch + 1
    BY LengthsAre DEF Lengths
<1>2. QED
    BY <1>1 DEF MatchTyped

\* Types when a packet comes in.
LEMMA MessageTurnTyped ==
    ASSUME MatchTyped, NEW m, NEW F, NEW B, IsFiniteSet(B), \A n \in B : IsMessage(n), MessageTurn(m, F, B)
    PROVE  MatchTyped'
<1> DEFINE h == Recipient(m)
           D == DOMAIN epochs[h]
<1>1. Epochal /\ Otherwise
    BY TypedIs
<1>2. h \in Host /\ IsEpoch(F) /\ Turned(h, m.epoch, F, D) /\ D \subseteq 0 .. MaxEpoch
    BY <1>1 DEF MessageTurn, Epochal
<1> HIDE DEF h, D
<1>3. Epochal'
    BY <1>1, <1>2, TurnedTyped
<1>4. UNCHANGED << clock, new_epoch, links, size, to_come, late >> /\ packets' = (packets \ {m}) \cup B
    BY DEF MessageTurn
<1>5. IsFiniteSet(packets')
  <2>1. IsFiniteSet(packets \ {m})
    BY <1>1, FS_RemoveElement DEF Otherwise
  <2>2. QED
    BY <1>4, <2>1, FS_Union
<1>6. Otherwise'
    BY <1>1, <1>4, <1>5 DEF Otherwise
<1>7. QED
    BY <1>3, <1>6, TypedNow

\* Types when a packet is dropped.
LEMMA DropTyped ==
    ASSUME MatchTyped, NEW m, packets' = packets \ {m}, UNCHANGED << clock, epochs, new_epoch, links, size, to_come, late >>
    PROVE  MatchTyped'
<1>1. IsFiniteSet(packets \ {m})
    BY FS_RemoveElement DEF MatchTyped
<1>2. QED
    BY <1>1 DEF MatchTyped

\* Types when DATA arrives.
LEMMA DataTyped ==
    ASSUME MatchTyped, NEW p \in Pairs, DataArrives(p)
    PROVE  MatchTyped'
<1>1. size[p] \in Nat /\ size[p] > 0
    BY DEF MatchTyped, DataArrives
<1>2. size[p] - 1 \in Nat
    BY <1>1
<1>3. size' \in [Pairs -> Nat]
    BY <1>2 DEF MatchTyped, DataArrives
<1>4. QED
    BY <1>3 DEF MatchTyped, DataArrives

\* Types when a flow arrives.
LEMMA FlowTyped ==
    ASSUME MatchTyped, NEW p \in Pairs, FlowArrives(p)
    PROVE  MatchTyped'
<1>1. PICK n \in 1 .. MaxSize : size' = [size EXCEPT ![p] = IF @ = 0 THEN n ELSE Smaller(@, n)]
    BY DEF FlowArrives
<1>2. (IF size[p] = 0 THEN n ELSE Smaller(size[p], n)) \in Nat
    BY MatchBoundsAssumption DEF MatchTyped, Smaller
<1>3. size' \in [Pairs -> Nat]
    BY <1>1, <1>2 DEF MatchTyped
<1>4. to_come' \in Nat
    BY DEF FlowArrives, MatchTyped
<1>5. QED
    BY <1>3, <1>4 DEF MatchTyped, FlowArrives

\* Types as time passes.
LEMMA TickTyped ==
    ASSUME MatchTyped, Tick
    PROVE  MatchTyped' /\ (late' = 0 => late = 0 /\ packets = {})
<1>1. Cardinality(packets) \in Nat /\ (Cardinality(packets) = 0 <=> packets = {})
    BY FS_CardinalityType, FS_EmptySet DEF MatchTyped
<1>2. clock' \in Nat /\ late' \in Nat /\ late' = late + Cardinality(packets)
    BY <1>1 DEF Tick, MatchTyped
<1>3. QED
    BY <1>1, <1>2 DEF MatchTyped, Tick

-----------------------------------------------------------------------------
(* Keys *)

\* The part of the invariant about messages.
Keyed == Queued /\ AllAsked /\ OneOfAKey

\* The messages in a host's queues.
Waits(g, i) == epochs[g][i].req_q \cup epochs[g][i].grants_q

\* Epochs are no less far after a step.
Further ==
    /\ \A g \in Host : new_epoch[g] \in Int /\ new_epoch'[g] \in Int /\ new_epoch[g] <= new_epoch'[g]
    /\ \A g \in Host : \A i \in DOMAIN epochs'[g] :
          \/ i \in DOMAIN epochs[g] /\ epochs[g][i].iter \in Int /\ epochs'[g][i].iter \in Int
             /\ epochs[g][i].iter <= epochs'[g][i].iter
          \/ i >= new_epoch[g] /\ i \in Int

\* What has been asked stays so.
LEMMA AskedStill ==
    ASSUME Further, NEW m, IsMessage(m), HasAsked(m)
    PROVE  HasAsked(m)'
<1>1. m.src \in Host /\ m.dst \in Host /\ m.epoch \in Int /\ m.iter \in Int
    BY DEF IsMessage
<1>2. m.epoch < new_epoch'[m.dst] /\ (m.type # "req" => m.epoch < new_epoch'[m.src])
    BY <1>1 DEF HasAsked, Further
<1>3. ASSUME m.epoch \in DOMAIN epochs'[m.dst]
      PROVE  IF m.type \in {"req", "grant"} THEN m.iter <= epochs'[m.dst][m.epoch].iter ELSE m.iter < epochs'[m.dst][m.epoch].iter
  <2>1. /\ m.epoch \in DOMAIN epochs[m.dst] /\ epochs[m.dst][m.epoch].iter \in Int /\ epochs'[m.dst][m.epoch].iter \in Int
        /\ epochs[m.dst][m.epoch].iter <= epochs'[m.dst][m.epoch].iter
    BY <1>1, <1>3 DEF HasAsked, Further
  <2>2. QED
    BY <1>1, <2>1 DEF HasAsked
<1>4. QED
    BY <1>2, <1>3 DEF HasAsked

\* What a step brings is asked, and what has been asked still is.
LEMMA AllAskedStill ==
    ASSUME MatchTyped, AllAsked, Further,
           \A m \in packets' : m \in packets \/ HasAsked(m)',
           \A g \in Host : \A i \in DOMAIN epochs'[g] : \A q \in Waits(g, i)' :
              \/ q \in packets
              \/ i \in DOMAIN epochs[g] /\ q \in Waits(g, i)
    PROVE  AllAsked'
<1>1. \A m \in packets : HasAsked(m)'
    BY AskedStill DEF AllAsked, MatchTyped
<1>2. \A g \in Host : \A i \in DOMAIN epochs[g] : \A q \in Waits(g, i) : HasAsked(q)'
    BY AskedStill DEF AllAsked, MatchTyped, IsEpoch, Waits
<1>3. \A m \in packets' : HasAsked(m)'
    BY <1>1
<1>4. \A g \in Host : \A i \in DOMAIN epochs'[g] : \A q \in Waits(g, i)' : HasAsked(q)'
    BY <1>1, <1>2
<1>5. QED
    BY <1>3, <1>4 DEF AllAsked, Waits

\* A step that changes one epoch leaves none less far.
LEMMA TurnedFurther ==
    ASSUME MatchTyped, NEW h \in Host, NEW e \in DOMAIN epochs[h], NEW F, NEW D, Turned(h, e, F, D), IsEpoch(F),
           epochs[h][e].iter <= F.iter, UNCHANGED new_epoch
    PROVE  Further
<1>1. DOMAIN epochs = Host /\ \A g \in Host : new_epoch[g] \in Int
    BY LengthsAre DEF MatchTyped, Lengths
<1>2. \A g \in Host : \A i \in DOMAIN epochs'[g] :
              \/ g = h /\ i = e /\ epochs'[g][i] = F
              \/ i \in DOMAIN epochs[g] /\ epochs'[g][i] = epochs[g][i] /\ (g = h => i # e)
    BY <1>1, TurnedEach
<1>3. \A g \in Host : \A i \in DOMAIN epochs[g] : epochs[g][i].iter \in Int
    BY LengthsAre DEF MatchTyped, IsEpoch, Lengths
<1>4. F.iter \in Int
    BY LengthsAre DEF IsEpoch, Lengths
<1>5. QED
    BY <1>1, <1>2, <1>3, <1>4 DEF Further

\* Accepts answer grants, and grants requests.
LEMMA AnswersAre ==
    ASSUME NEW given, NEW q, NEW W, NEW free, NEW prompt, Deals(given, W, free, prompt),
           NEW type \in {"req", "grant", "accept", "grantsr"}
    PROVE  /\ \A n \in Retyped(Range(given), type) :
                 IsMessage(n) /\ n.type = type /\ \E g \in W : SameKey(n, g)
           /\ \A n, k \in Retyped(Range(given), type) : SameKey(n, k) => n = k
<1> DEFINE G == Range(given)
<1>1. /\ IsWeighed(G) /\ (\A g \in G : IsMessage(g) /\ \E w \in W : SameKey(g, w)) /\ (\A g, k \in G : SameKey(g, k) => g = k)
    BY DEF Deals, Answers
<1> HIDE DEF G
<1>2. /\ \A n \in Retyped(G, type) :
             /\ IsMessage(n) /\ n.type = type
             /\ \E g \in G : SameKey(n, g) /\ n.total = g.total /\ n.prompt = g.prompt
      /\ \A n, k \in Retyped(G, type) : SameKey(n, k) => n = k
    BY <1>1, RetypedAre
<1>3. ASSUME NEW n \in Retyped(G, type) PROVE \E w \in W : SameKey(n, w)
  <2>1. PICK g \in G : SameKey(n, g)
    BY <1>2
  <2>2. PICK w \in W : SameKey(g, w)
    BY <1>1
  <2>3. SameKey(n, w)
    BY <2>1, <2>2 DEF SameKey
  <2>4. QED
    BY <2>3
<1>4. QED
    BY <1>2, <1>3 DEF G

\* The four parts of OneOfAKey.
Lone == \A m, n \in packets : SameKey(m, n) => m = n
\* What is under way is in no queue.
Apart == \A h \in Host : \A e \in DOMAIN epochs[h] : \A q \in Waits(h, e) : \A m \in packets : ~SameKey(m, q)
\* A queue has one message of a key.
AloneInQueue ==
    \A h \in Host : \A e \in DOMAIN epochs[h] :
          /\ \A p, q \in epochs[h][e].req_q : SameKey(p, q) => p = q
          /\ \A p, q \in epochs[h][e].grants_q : SameKey(p, q) => p = q
\* The queues of sender and receiver have no key in common.
QueuesApart ==
    \A h, g \in Host : \A e \in DOMAIN epochs[h] : e \in DOMAIN epochs[g] =>
          \A p \in epochs[h][e].req_q, q \in epochs[g][e].grants_q : ~SameKey(p, q)

\* They are OneOfAKey.
LEMMA OneOfAKeyIs == OneOfAKey <=> Lone /\ Apart /\ AloneInQueue /\ QueuesApart
<1>1. OneOfAKey => Lone /\ Apart /\ AloneInQueue /\ QueuesApart
    BY DEF OneOfAKey, Lone, Apart, AloneInQueue, QueuesApart, Waits
<1>2. Lone /\ Apart /\ AloneInQueue /\ QueuesApart => OneOfAKey
    BY DEF OneOfAKey, Lone, Apart, AloneInQueue, QueuesApart, Waits
<1>3. QED
    BY <1>1, <1>2

\* And so they are after a step.
LEMMA OneOfAKeyNow ==
    ASSUME Lone', Apart', AloneInQueue', QueuesApart'
    PROVE  OneOfAKey'
  BY DEF OneOfAKey, Lone, Apart, AloneInQueue, QueuesApart, Waits

\* Queues that have become no longer.
Shorter ==
    \A g \in Host : \A i \in DOMAIN epochs'[g] :
        i \in DOMAIN epochs[g] =>
        epochs'[g][i].req_q \subseteq epochs[g][i].req_q /\ epochs'[g][i].grants_q \subseteq epochs[g][i].grants_q
\* New epochs have empty queues.
Emptier ==
    \A g \in Host : \A i \in DOMAIN epochs'[g] :
        i \notin DOMAIN epochs[g] => epochs'[g][i].req_q = {} /\ epochs'[g][i].grants_q = {}

\* Fewer messages in the queues have no more in common.
LEMMA ShorterKeys ==
    ASSUME Shorter, Emptier, AloneInQueue, QueuesApart
    PROVE  AloneInQueue' /\ QueuesApart'
<1>1. AloneInQueue'
    BY DEF AloneInQueue, Shorter, Emptier
<1>2. QueuesApart'
    BY DEF QueuesApart, Shorter, Emptier
<1>3. QED
    BY <1>1, <1>2

\* What the type invariant says of epochs and rounds.
LEMMA EpochsTyped ==
    ASSUME MatchTyped
    PROVE  /\ DOMAIN epochs = Host /\ clock \in Nat /\ late \in Nat
           /\ \A g \in Host : /\ DOMAIN epochs[g] \subseteq Nat /\ new_epoch[g] \in Nat
                              /\ \A i \in DOMAIN epochs[g] : i <= MaxEpoch /\ IsEpoch(epochs[g][i]) /\ epochs[g][i].iter \in Nat
<1>1. DOMAIN epochs = Host /\ clock \in Nat /\ late \in Nat
    BY DEF MatchTyped
<1>2. \A g \in Host : new_epoch[g] \in Nat /\ \A i \in DOMAIN epochs[g] : i \in Nat /\ i <= MaxEpoch
    BY LengthsAre DEF MatchTyped, Lengths
<1>3. \A g \in Host : \A i \in DOMAIN epochs[g] : IsEpoch(epochs[g][i])
    BY DEF MatchTyped
<1>4. \A g \in Host : \A i \in DOMAIN epochs[g] : epochs[g][i].iter \in Nat
    BY <1>3, LengthsAre DEF IsEpoch, Lengths
<1>5. QED
    BY <1>1, <1>2, <1>3, <1>4

\* Keys in a receiver's round: an accept has the key of a grant that leaves the queue, and
\* requests have the number of the new round.
LEMMA ReceiverTurnKeys ==
    ASSUME MatchTyped, Clocked, EpochsInOrder, Keyed, NEW h \in Host, NEW e \in DOMAIN epochs[h], NEW given, NEW F, NEW Q,
           ReceiverTurn(h, e, given, F, Q)
    PROVE  Keyed'
<1> DEFINE A == AcceptPkts(given)
           E == epochs[h][e]
           D == IF F.iter <= IterLimit THEN DOMAIN epochs[h] ELSE DOMAIN epochs[h] \ {e - 1}
<1>1. /\ DOMAIN epochs = Host /\ e \in Nat /\ E.iter \in Nat /\ F.iter = E.iter + 1 /\ IsEpoch(F)
      /\ \A g \in Host : DOMAIN epochs[g] \subseteq Nat
    BY ReceiverTurnAt, EpochsTyped DEF ReceiverTurn
<1>2. Turned(h, e, F, D)
    BY <1>1, LengthsAre DEF ReceiverTurn, Lengths
<1>3. Further
    BY <1>1, <1>2, TurnedFurther DEF ReceiverTurn
<1>4. \A g \in Host : \A i \in DOMAIN epochs'[g] :
              \/ g = h /\ i = e /\ epochs'[g][i] = F
              \/ i \in DOMAIN epochs[g] /\ epochs'[g][i] = epochs[g][i] /\ (g = h => i # e)
    BY <1>1, <1>2, TurnedEach
<1> HIDE DEF D
<1>5. Asks(Q, h, e, F)
    BY FS_EmptySet DEF ReceiverTurn, Asks
<1>6. packets' = packets \cup A \cup Q /\ F.req_q = {} /\ F.grants_q = {} /\ UNCHANGED new_epoch
    BY DEF ReceiverTurn
<1>7. /\ \A n \in A : IsMessage(n) /\ n.type = "accept" /\ \E g \in E.grants_q : SameKey(n, g)
      /\ \A n, k \in A : SameKey(n, k) => n = k
  <2>1. A = Retyped(Range(given), "accept")
    BY DEF AcceptPkts, Retyped
  <2>2. Deals(given, E.grants_q, PimK - E.num_tx_link, PimK - E.num_tx_prompt_link)
    BY DEF ReceiverTurn
  <2> HIDE DEF A, E
  <2>3. QED
    BY <2>1, <2>2, AnswersAre
<1>8. \A n \in A : n.dst = h /\ n.epoch = e /\ n.iter = E.iter /\ n.src \in Host
  <2>1. \A g \in E.grants_q : g.dst = h /\ g.epoch = e /\ g.iter = E.iter
    BY DEF Keyed, Queued
  <2>2. QED
    BY <1>7, <2>1 DEF SameKey, IsMessage
<1>9. \A q \in Q : IsMessage(q) /\ q.type = "req" /\ q.dst = h /\ q.epoch = e /\ q.iter = F.iter
    BY <1>5 DEF Asks
<1>10. e \in DOMAIN epochs'[h] /\ epochs'[h][e] = F /\ e < new_epoch[h]
    BY <1>2 DEF Turned, EpochsInOrder
<1>11. Shorter /\ Emptier
    BY <1>4, <1>6 DEF Shorter, Emptier
<1>12. Queued'
    BY <1>4, <1>6 DEF Queued, Keyed
<1>13. AllAsked'
  <2>1. ASSUME NEW n \in A PROVE HasAsked(n)'
    <3>1. PICK g \in E.grants_q : SameKey(n, g)
      BY <1>7
    <3>2. g.type = "grant" /\ HasAsked(g)
      BY <3>1 DEF Keyed, Queued, AllAsked
    <3>3. n.epoch < new_epoch[n.src]
      BY <3>1, <3>2 DEF HasAsked, SameKey
    <3>4. n.iter < F.iter
      BY <1>1, <1>8
    <3>5. QED
      BY <1>6, <1>7, <1>8, <1>10, <3>3, <3>4 DEF HasAsked
  <2>2. ASSUME NEW q \in Q PROVE HasAsked(q)'
    <3>1. q.iter <= F.iter
      BY <1>1, <1>9
    <3>2. QED
      BY <1>6, <1>9, <1>10, <3>1 DEF HasAsked
  <2>3. \A m \in packets' : m \in packets \/ HasAsked(m)'
    BY <1>6, <2>1, <2>2
  <2>4. \A g \in Host : \A i \in DOMAIN epochs'[g] : \A q \in Waits(g, i)' : i \in DOMAIN epochs[g] /\ q \in Waits(g, i)
    BY <1>4, <1>6 DEF Waits
  <2> HIDE DEF A, E
  <2>5. QED
    BY <1>3, <2>3, <2>4, AllAskedStill DEF Keyed
<1>14. Lone /\ Apart /\ AloneInQueue /\ QueuesApart
    BY OneOfAKeyIs DEF Keyed
<1>15. \A m \in packets : IsMessage(m) /\ HasAsked(m)
    BY DEF MatchTyped, Keyed, AllAsked
<1>16. ASSUME NEW m \in packets, NEW q \in Q PROVE ~SameKey(m, q)
  <2>1. SUFFICES ASSUME SameKey(m, q) PROVE FALSE
    OBVIOUS
  <2>2. m.dst = h /\ m.epoch = e /\ m.iter = F.iter
    BY <1>9, <2>1 DEF SameKey
  <2>3. m.iter <= E.iter /\ m.iter \in Int
    BY <1>1, <1>15, <2>2 DEF HasAsked, IsMessage
  <2>4. QED
    BY <1>1, <2>2, <2>3
<1>17. ASSUME NEW m \in packets, NEW n \in A PROVE ~SameKey(m, n) /\ ~SameKey(n, m)
  <2>1. PICK g \in E.grants_q : SameKey(n, g)
    BY <1>7
  <2>2. ~SameKey(m, g)
    BY <1>14, <2>1 DEF Apart, Waits
  <2>3. QED
    BY <2>1, <2>2 DEF SameKey
<1>18. ASSUME NEW q \in Q, NEW n \in A PROVE ~SameKey(q, n)
    BY <1>1, <1>8, <1>9 DEF SameKey
<1>19. ASSUME NEW p \in Q, NEW q \in Q, SameKey(p, q) PROVE p = q
    BY <1>5, <1>19 DEF SameKey, Asks
<1>20. Lone'
  <2>1. ASSUME NEW m \in packets', NEW n \in packets', SameKey(m, n) PROVE m = n
    <3>1. SameKey(n, m)
      BY <2>1 DEF SameKey
    <3> HIDE DEF A
    <3>2. QED
      BY <1>6, <1>7, <1>14, <1>16, <1>17, <1>18, <1>19, <2>1, <3>1 DEF Lone
  <2>2. QED
    BY <2>1 DEF Lone
<1>21. Apart'
  <2>1. SUFFICES ASSUME NEW g \in Host, NEW i \in DOMAIN epochs'[g], NEW q \in Waits(g, i)', NEW m \in packets', SameKey(m, q)
                 PROVE  FALSE
    BY DEF Apart
  <2>2. i \in DOMAIN epochs[g] /\ q \in Waits(g, i) /\ ~(g = h /\ i = e)
    BY <1>4, <1>6, <2>1 DEF Waits
  <2>3. IsMessage(q) /\ HasAsked(q)
    BY <2>2 DEF MatchTyped, IsEpoch, Waits, Keyed, AllAsked
  <2>4. m \notin packets
    BY <1>14, <2>1, <2>2 DEF Apart
  <2>5. m \notin Q
    <3>1. SUFFICES ASSUME m \in Q PROVE FALSE
      OBVIOUS
    <3>2. q.dst = h /\ q.epoch = e /\ q.iter = F.iter
      BY <1>9, <2>1, <3>1 DEF SameKey
    <3>3. q.iter <= E.iter /\ q.iter \in Int
      BY <1>1, <2>3, <3>2 DEF HasAsked, IsMessage
    <3>4. QED
      BY <1>1, <3>2, <3>3
  <2>6. m \notin A
    <3>1. SUFFICES ASSUME m \in A PROVE FALSE
      OBVIOUS
    <3>2. PICK k \in E.grants_q : SameKey(m, k)
      BY <1>7, <3>1
    <3>3. SameKey(q, k) /\ q.dst = h /\ q.epoch = e
      BY <1>8, <2>1, <3>1, <3>2 DEF SameKey
    <3>4. CASE q \in epochs[g][i].req_q
      <4>1. i = e
        BY <2>2, <3>3, <3>4 DEF Keyed, Queued
      <4>2. QED
        BY <1>14, <2>2, <3>2, <3>3, <3>4, <4>1 DEF QueuesApart
    <3>5. CASE q \in epochs[g][i].grants_q
      <4>1. i = e /\ g = h
        BY <2>2, <3>3, <3>5 DEF Keyed, Queued
      <4>2. QED
        BY <2>2, <4>1
    <3>6. QED
      BY <2>2, <3>4, <3>5 DEF Waits
  <2> HIDE DEF A
  <2>7. QED
    BY <1>6, <2>1, <2>4, <2>5, <2>6
<1>22. AloneInQueue' /\ QueuesApart'
    BY <1>11, <1>14, ShorterKeys
<1>23. OneOfAKey'
    BY <1>20, <1>21, <1>22, OneOfAKeyNow
<1>24. QED
    BY <1>12, <1>13, <1>23 DEF Keyed

\* Keys in a sender's round: a grant has the key of a request that leaves the queue.
LEMMA SenderTurnKeys ==
    ASSUME MatchTyped, Clocked, EpochsInOrder, Keyed, NEW h \in Host, NEW e \in DOMAIN epochs[h], NEW given, NEW F,
           SenderIter(h, e, given, F)
    PROVE  Keyed'
<1> DEFINE A == IF epochs[h][e].iter <= IterLimit THEN Retyped(Range(given), "grant") ELSE {}
           E == epochs[h][e]
           D == DOMAIN epochs[h]
<1>1. /\ DOMAIN epochs = Host /\ e \in Nat /\ E.iter \in Nat /\ F.iter = E.iter /\ IsEpoch(F)
      /\ \A g \in Host : DOMAIN epochs[g] \subseteq Nat
    BY SenderTurnAt, EpochsTyped DEF SenderIter
<1>2. Turned(h, e, F, D)
    BY <1>1, LengthsAre DEF SenderIter, Lengths
<1>3. Further
    BY <1>1, <1>2, TurnedFurther DEF SenderIter
<1>4. \A g \in Host : \A i \in DOMAIN epochs'[g] :
              \/ g = h /\ i = e /\ epochs'[g][i] = F
              \/ i \in DOMAIN epochs[g] /\ epochs'[g][i] = epochs[g][i] /\ (g = h => i # e)
    BY <1>1, <1>2, TurnedEach
<1> HIDE DEF D
<1>5. packets' = packets \cup A /\ F.req_q \subseteq E.req_q /\ F.grants_q = E.grants_q /\ UNCHANGED new_epoch
    BY <1>1, LengthsAre DEF SenderIter, Lengths
<1>6. /\ \A n \in A : IsMessage(n) /\ n.type = "grant" /\ \E g \in E.req_q : SameKey(n, g)
      /\ \A n, k \in A : SameKey(n, k) => n = k
      /\ \A n \in A : \A r \in F.req_q : ~SameKey(r, n)
  <2>1. CASE E.iter <= IterLimit
    <3>1. A = Retyped(Range(given), "grant")
      BY <2>1
    <3>2. Deals(given, E.req_q, PimK - E.num_rx_link, PimK - E.num_rx_prompt_link)
      BY <1>1, <2>1, LengthsAre DEF SenderIter, Lengths
    <3>3. \A g \in Range(given) : \A r \in F.req_q : ~SameKey(r, g)
      BY <1>1, <2>1, LengthsAre DEF SenderIter, Lengths
    <3>4. /\ IsWeighed(Range(given)) /\ (\A g \in Range(given) : IsMessage(g)) /\ (\A g, k \in Range(given) : SameKey(g, k) => g = k)
      BY <3>2 DEF Deals, Answers
    <3> HIDE DEF A, E
    <3>5. /\ \A n \in A : IsMessage(n) /\ n.type = "grant" /\ \E g \in E.req_q : SameKey(n, g)
          /\ \A n, k \in A : SameKey(n, k) => n = k
      BY <3>1, <3>2, AnswersAre
    <3>6. \A n \in Retyped(Range(given), "grant") : \E g \in Range(given) : SameKey(n, g)
      BY <3>4, RetypedAre
    <3>7. \A n \in A : \A r \in F.req_q : ~SameKey(r, n)
      BY <3>1, <3>3, <3>6 DEF SameKey
    <3>8. QED
      BY <3>5, <3>7
  <2>2. CASE ~(E.iter <= IterLimit)
    BY <2>2
  <2>3. QED
    BY <2>1, <2>2
<1>7. \A n \in A : n.src = h /\ n.epoch = e /\ n.dst \in Host
  <2>1. \A g \in E.req_q : g.src = h /\ g.epoch = e
    BY DEF Keyed, Queued
  <2>2. QED
    BY <1>6, <2>1 DEF SameKey, IsMessage
<1>8. e \in DOMAIN epochs'[h] /\ epochs'[h][e] = F /\ e < new_epoch[h]
    BY <1>2 DEF Turned, EpochsInOrder
<1>9. Shorter /\ Emptier
    BY <1>4, <1>5 DEF Shorter, Emptier
<1>10. Queued'
    BY <1>1, <1>4, <1>5 DEF Queued, Keyed
<1>11. AllAsked'
  <2>1. ASSUME NEW n \in A PROVE HasAsked(n)'
    <3>1. PICK g \in E.req_q : SameKey(n, g)
      BY <1>6
    <3>2. g.type = "req" /\ HasAsked(g) /\ IsMessage(g)
      BY <3>1 DEF Keyed, Queued, AllAsked, MatchTyped, IsEpoch
    <3>3. HasAsked(g)'
      BY <1>3, <3>2, AskedStill
    <3>4. n.type = "grant" /\ n.epoch < new_epoch'[n.src]
      BY <1>5, <1>6, <1>7, <1>8
    <3>5. QED
      BY <3>1, <3>2, <3>3, <3>4 DEF HasAsked, SameKey
  <2>2. \A m \in packets' : m \in packets \/ HasAsked(m)'
    BY <1>5, <2>1
  <2>3. \A g \in Host : \A i \in DOMAIN epochs'[g] : \A q \in Waits(g, i)' : i \in DOMAIN epochs[g] /\ q \in Waits(g, i)
    BY <1>4, <1>5 DEF Waits
  <2> HIDE DEF A, E
  <2>4. QED
    BY <1>3, <2>2, <2>3, AllAskedStill DEF Keyed
<1>12. Lone /\ Apart /\ AloneInQueue /\ QueuesApart
    BY OneOfAKeyIs DEF Keyed
<1>13. ASSUME NEW m \in packets, NEW n \in A PROVE ~SameKey(m, n) /\ ~SameKey(n, m)
  <2>1. PICK g \in E.req_q : SameKey(n, g)
    BY <1>6
  <2>2. ~SameKey(m, g)
    BY <1>12, <2>1 DEF Apart, Waits
  <2>3. QED
    BY <2>1, <2>2 DEF SameKey
<1>14. Lone'
  <2>1. ASSUME NEW m \in packets', NEW n \in packets', SameKey(m, n) PROVE m = n
    <3> HIDE DEF A
    <3>1. QED
      BY <1>5, <1>6, <1>12, <1>13, <2>1 DEF Lone
  <2>2. QED
    BY <2>1 DEF Lone
<1>15. Apart'
  <2>1. SUFFICES ASSUME NEW g \in Host, NEW i \in DOMAIN epochs'[g], NEW q \in Waits(g, i)', NEW m \in packets', SameKey(m, q)
                 PROVE  FALSE
    BY DEF Apart
  <2>2. i \in DOMAIN epochs[g] /\ q \in Waits(g, i) /\ (g = h /\ i = e => q \in F.req_q \cup F.grants_q)
    BY <1>4, <1>5, <2>1 DEF Waits
  <2>3. m \notin packets
    BY <1>12, <2>1, <2>2 DEF Apart
  <2>4. m \notin A
    <3>1. SUFFICES ASSUME m \in A PROVE FALSE
      OBVIOUS
    <3>2. PICK k \in E.req_q : SameKey(m, k)
      BY <1>6, <3>1
    <3>3. SameKey(k, q) /\ q.src = h /\ q.epoch = e
      BY <1>7, <2>1, <3>1, <3>2 DEF SameKey
    <3>4. CASE q \in epochs[g][i].grants_q
      <4>1. i = e
        BY <2>2, <3>3, <3>4 DEF Keyed, Queued
      <4>2. QED
        BY <1>12, <2>2, <3>2, <3>3, <3>4, <4>1 DEF QueuesApart
    <3>5. CASE q \in epochs[g][i].req_q
      <4>1. i = e /\ g = h
        BY <2>2, <3>3, <3>5 DEF Keyed, Queued
      <4>2. CASE q \in F.req_q
        <5>1. SameKey(q, m)
          BY <2>1 DEF SameKey
        <5>2. QED
          BY <1>6, <3>1, <4>2, <5>1
      <4>3. CASE q \in F.grants_q
        <5>1. q \in E.grants_q
          BY <1>5, <4>3
        <5>2. QED
          BY <1>12, <3>2, <3>3, <5>1 DEF QueuesApart
      <4>4. QED
        BY <2>2, <4>1, <4>2, <4>3
    <3>6. QED
      BY <2>2, <3>4, <3>5 DEF Waits
  <2> HIDE DEF A
  <2>5. QED
    BY <1>5, <2>1, <2>3, <2>4
<1>16. AloneInQueue' /\ QueuesApart'
    BY <1>9, <1>12, ShorterKeys
<1>17. OneOfAKey'
    BY <1>14, <1>15, <1>16, OneOfAKeyNow
<1>18. QED
    BY <1>10, <1>11, <1>17 DEF Keyed

\* Steps that leave packets and queues alone.
LEMMA NewTurnKeys ==
    ASSUME MatchTyped, Clocked, EpochsInOrder, Keyed, NEW h \in Host, NEW F, NewTurn(h, F)
    PROVE  Keyed'
<1>0. PICK e : e = new_epoch[h]
    OBVIOUS
<1>1. /\ DOMAIN epochs = Host /\ e \in Nat /\ \A g \in Host : new_epoch[g] \in Nat /\ DOMAIN epochs[g] \subseteq Nat
      /\ \A g \in Host : \A i \in DOMAIN epochs[g] : epochs[g][i].iter \in Nat
    BY <1>0, EpochsTyped
<1>2. /\ Turned(h, e, F, DOMAIN epochs[h] \cup {e}) /\ F.req_q = {} /\ F.grants_q = {}
      /\ UNCHANGED packets
      /\ new_epoch' = [new_epoch EXCEPT ![h] = e + 1]
    BY <1>0, <1>1 DEF NewTurn
<1>2a. new_epoch'[h] = e + 1 /\ \A g \in Host : g # h => new_epoch'[g] = new_epoch[g]
    BY <1>2 DEF MatchTyped
<1>3. \A g \in Host : \A i \in DOMAIN epochs'[g] :
              \/ g = h /\ i = e /\ epochs'[g][i] = F
              \/ i \in DOMAIN epochs[g] /\ epochs'[g][i] = epochs[g][i] /\ (g = h => i # e)
    BY <1>1, <1>2, TurnedEach
<1>4. Further
    BY <1>0, <1>1, <1>2a, <1>3 DEF Further
<1>5. e \notin DOMAIN epochs[h]
    BY <1>0, <1>1 DEF EpochsInOrder
<1>6. Shorter /\ Emptier
    BY <1>2, <1>3, <1>5 DEF Shorter, Emptier
<1>7. Queued'
    BY <1>2, <1>3 DEF Queued, Keyed
<1>8. AllAsked'
  <2>1. \A g \in Host : \A i \in DOMAIN epochs'[g] : \A q \in Waits(g, i)' : i \in DOMAIN epochs[g] /\ q \in Waits(g, i)
    BY <1>2, <1>3 DEF Waits
  <2>2. QED
    BY <1>2, <1>4, <2>1, AllAskedStill DEF Keyed
<1>9. Lone /\ Apart /\ AloneInQueue /\ QueuesApart
    BY OneOfAKeyIs DEF Keyed
<1>10. Lone'
    BY <1>2, <1>9 DEF Lone
<1>11. Apart'
  <2>1. \A g \in Host : \A i \in DOMAIN epochs'[g] : \A q \in Waits(g, i)' : i \in DOMAIN epochs[g] /\ q \in Waits(g, i)
    BY <1>2, <1>3 DEF Waits
  <2>2. QED
    BY <1>2, <1>9, <2>1 DEF Apart
<1>12. AloneInQueue' /\ QueuesApart'
    BY <1>6, <1>9, ShorterKeys
<1>13. QED
    BY <1>7, <1>8, <1>10, <1>11, <1>12, OneOfAKeyNow DEF Keyed

\* Keys when a host stops.
LEMMA StopKeys ==
    ASSUME MatchTyped, Keyed, NEW h \in Host,
           new_epoch' = [new_epoch EXCEPT ![h] = MaxEpoch + 1], UNCHANGED << epochs, packets >>
    PROVE  Keyed'
<1>1. \A g \in Host : new_epoch[g] \in Int /\ new_epoch'[g] \in Int /\ new_epoch[g] <= new_epoch'[g]
    BY LengthsAre DEF MatchTyped, Lengths
<1>2. Further
    BY <1>1, EpochsTyped DEF Further
<1>3. AllAsked'
  <2>1. \A g \in Host : \A i \in DOMAIN epochs'[g] : \A q \in Waits(g, i)' : i \in DOMAIN epochs[g] /\ q \in Waits(g, i)
    BY DEF Waits
  <2>2. QED
    BY <1>2, <2>1, AllAskedStill DEF Keyed
<1>4. Queued' /\ OneOfAKey'
    BY DEF Keyed, Queued, OneOfAKey
<1>5. QED
    BY <1>3, <1>4 DEF Keyed

\* Keys when neither packets nor epochs change.
LEMMA FrameKeys ==
    ASSUME Keyed, UNCHANGED << epochs, new_epoch, packets >>
    PROVE  Keyed'
  BY DEF Keyed, Queued, OneOfAKey, AllAsked, HasAsked

\* Keys when a packet is dropped.
LEMMA DropKeys ==
    ASSUME Keyed, NEW m, packets' = packets \ {m}, UNCHANGED << epochs, new_epoch >>
    PROVE  Keyed'
<1>1. Queued' /\ AllAsked'
    BY DEF Keyed, Queued, AllAsked, HasAsked
<1>2. OneOfAKey'
    BY DEF Keyed, OneOfAKey
<1>3. QED
    BY <1>1, <1>2 DEF Keyed

\* A packet has gone into a queue, or is answered by a grantsr, or is no more.
Passes(m, F, B) ==
    LET E == epochs[Recipient(m)][m.epoch]
    IN  /\ F.req_q \subseteq E.req_q \cup {m} /\ F.grants_q \subseteq E.grants_q \cup {m}
        /\ m \in F.req_q => m.type = "req"
        /\ m \in F.grants_q => m.type = "grant" /\ m.iter >= E.iter
        /\ m \in F.req_q \cup F.grants_q => B = {}
        /\ \A n \in B : m.type = "accept" /\ n.type = "grantsr" /\ SameKey(n, m)
        /\ \A n, k \in B : n = k

\* Keys when a packet comes in.
LEMMA MessageTurnKeys ==
    ASSUME MatchTyped, EpochsInOrder, Keyed, NEW m, NEW F, NEW B, MessageTurn(m, F, B), Passes(m, F, B)
    PROVE  Keyed'
<1>0. PICK h, e : h = Recipient(m) /\ e = m.epoch
    OBVIOUS
<1>1. /\ h \in Host /\ e \in DOMAIN epochs[h] /\ DOMAIN epochs = Host /\ e \in Nat /\ epochs[h][e].iter \in Nat
      /\ m \in packets /\ IsMessage(m) /\ HasAsked(m) /\ ~(m \in packets')
      /\ \A k \in packets : IsMessage(k)
  <2>1. h \in Host /\ e \in DOMAIN epochs[h] /\ m \in packets
    BY <1>0 DEF MessageTurn
  <2>2. IsMessage(m) /\ HasAsked(m) /\ \A k \in packets : IsMessage(k)
    BY <2>1 DEF MatchTyped, Keyed, AllAsked
  <2>3. \A n \in B : n # m
    BY DEF Passes
  <2>4. ~(m \in packets')
    BY <2>3 DEF MessageTurn
  <2>5. QED
    BY <2>1, <2>2, <2>4, EpochsTyped
<1>2. /\ Turned(h, e, F, DOMAIN epochs[h]) /\ F.iter = epochs[h][e].iter /\ IsEpoch(F)
      /\ packets' = (packets \ {m}) \cup B /\ UNCHANGED new_epoch
    BY <1>0 DEF MessageTurn, KeepsTimes
<1>3. \A g \in Host : \A i \in DOMAIN epochs'[g] :
              \/ g = h /\ i = e /\ epochs'[g][i] = F
              \/ i \in DOMAIN epochs[g] /\ epochs'[g][i] = epochs[g][i] /\ (g = h => i # e)
    BY <1>1, <1>2, TurnedEach
<1>4. Further
    BY <1>1, <1>2, TurnedFurther
<1>5. /\ F.req_q \subseteq epochs[h][e].req_q \cup {m} /\ F.grants_q \subseteq epochs[h][e].grants_q \cup {m}
      /\ m \in F.req_q => m.type = "req"
      /\ m \in F.grants_q => m.type = "grant" /\ m.iter >= epochs[h][e].iter
      /\ m \in F.req_q \cup F.grants_q => B = {}
      /\ \A n \in B : m.type = "accept" /\ n.type = "grantsr" /\ SameKey(n, m)
      /\ \A n, k \in B : n = k
    BY <1>0 DEF Passes
<1>6. m.type = "req" => h = m.src
    BY <1>0 DEF Recipient
<1>7. m.type = "grant" => h = m.dst
    BY <1>0 DEF Recipient
<1>8. m.type = "grant" => m.iter <= epochs[h][e].iter
    BY <1>0, <1>1, <1>7 DEF HasAsked
<1>9. Queued'
  <2>1. \A q \in F.req_q : q.type = "req" /\ q.src = h /\ q.epoch = e
    BY <1>0, <1>1, <1>5, <1>6 DEF Keyed, Queued
  <2>2. m \in F.grants_q => m.type = "grant" /\ m.dst = h /\ m.epoch = e /\ m.iter = F.iter
    BY <1>0, <1>1, <1>2, <1>5, <1>7, <1>8 DEF IsMessage
  <2>3. \A q \in F.grants_q : q.type = "grant" /\ q.dst = h /\ q.epoch = e /\ q.iter = F.iter
    BY <1>1, <1>2, <1>5, <2>2 DEF Keyed, Queued
  <2>4. QED
    BY <1>3, <2>1, <2>3 DEF Keyed, Queued
<1>10. AllAsked'
  <2>1. HasAsked(m)'
    BY <1>1, <1>4, AskedStill
  <2>2. \A n \in B : HasAsked(n)'
    BY <1>5, <2>1 DEF HasAsked, SameKey
  <2>3. \A k \in packets' : k \in packets \/ HasAsked(k)'
    BY <1>2, <2>2
  <2>4. \A g \in Host : \A i \in DOMAIN epochs'[g] : \A q \in Waits(g, i)' :
          q \in packets \/ (i \in DOMAIN epochs[g] /\ q \in Waits(g, i))
    BY <1>1, <1>3, <1>5 DEF Waits
  <2>5. QED
    BY <1>4, <2>3, <2>4, AllAskedStill DEF Keyed
<1>11. Lone /\ Apart /\ AloneInQueue /\ QueuesApart
    BY OneOfAKeyIs DEF Keyed
\* Each packet after the step has the key of one before it, and those in queues too.
<1>12. \A k \in packets' : \E o \in packets : SameKey(k, o) /\ (o = m => k \in B) /\ (o # m => k = o)
  <2>1. ASSUME NEW k \in B PROVE SameKey(k, m)
    BY <1>5, <2>1
  <2>2. \A k \in packets : SameKey(k, k)
    BY DEF SameKey
  <2>3. QED
    BY <1>1, <1>2, <2>1, <2>2
<1>13. Lone'
    BY <1>1, <1>5, <1>11, <1>12 DEF Lone, SameKey
<1>14. Apart'
  <2>1. SUFFICES ASSUME NEW g \in Host, NEW i \in DOMAIN epochs'[g], NEW q \in Waits(g, i)', NEW k \in packets', SameKey(k, q)
                 PROVE  FALSE
    BY DEF Apart
  <2>2. PICK o \in packets : SameKey(k, o) /\ (o = m => k \in B) /\ (o # m => k = o)
    BY <1>12
  <2>3. SameKey(o, q)
    BY <2>1, <2>2 DEF SameKey
  <2>4. CASE i \in DOMAIN epochs[g] /\ q \in Waits(g, i)
    BY <1>11, <2>3, <2>4 DEF Apart
  <2>5. CASE q = m
    <3>1. o = m
      BY <1>1, <1>11, <2>3, <2>5 DEF Lone
    <3>2. k \in B /\ m \in Waits(g, i)'
      BY <2>1, <2>2, <2>5, <3>1
    <3>3. m \in F.req_q \cup F.grants_q
      BY <1>1, <1>3, <1>11, <2>2, <3>1, <3>2 DEF Waits, Apart, SameKey
    <3>4. QED
      BY <1>5, <3>2, <3>3
  <2>6. QED
    BY <1>1, <1>3, <1>5, <2>4, <2>5 DEF Waits
<1>15. AloneInQueue'
  <2>1. \A q \in epochs[h][e].req_q \cup epochs[h][e].grants_q : ~SameKey(m, q) /\ ~SameKey(q, m)
    BY <1>1, <1>11 DEF Apart, Waits, SameKey
  <2>2. /\ \A p, q \in F.req_q : SameKey(p, q) => p = q
        /\ \A p, q \in F.grants_q : SameKey(p, q) => p = q
    BY <1>1, <1>5, <1>11, <2>1 DEF AloneInQueue
  <2>3. QED
    BY <1>3, <1>11, <2>2 DEF AloneInQueue
<1>16. QueuesApart'
  <2>1. SUFFICES ASSUME NEW f \in Host, NEW g \in Host, NEW i \in DOMAIN epochs'[f], i \in DOMAIN epochs'[g],
                        NEW p \in epochs'[f][i].req_q, NEW q \in epochs'[g][i].grants_q, SameKey(p, q)
                 PROVE  FALSE
    BY DEF QueuesApart
  <2>2. i \in DOMAIN epochs[f] /\ i \in DOMAIN epochs[g]
    BY <1>1, <1>3, <2>1
  <2>3. p \in epochs[f][i].req_q \/ (p = m /\ m \in F.req_q)
    BY <1>3, <1>5
  <2>4. q \in epochs[g][i].grants_q \/ (q = m /\ m \in F.grants_q)
    BY <1>3, <1>5, <2>1
  <2>5. CASE p = m
    <3>1. q # m \/ ~(m \in F.grants_q) \/ ~(m \in F.req_q)
      BY <1>5
    <3>2. q \in epochs[g][i].grants_q => FALSE
      BY <1>1, <1>11, <2>1, <2>2, <2>5 DEF Apart, Waits
    <3>3. m \notin epochs[f][i].req_q
      BY <1>1, <1>11, <2>2 DEF Apart, Waits, SameKey
    <3>4. QED
      BY <2>3, <2>4, <2>5, <3>1, <3>2, <3>3
  <2>6. CASE p # m
    <3>1. p \in epochs[f][i].req_q
      BY <2>3, <2>6
    <3>2. q = m
      BY <1>11, <2>1, <2>2, <2>4, <3>1 DEF QueuesApart
    <3>3. SameKey(m, p)
      BY <2>1, <3>2 DEF SameKey
    <3>4. QED
      BY <1>1, <1>11, <2>2, <3>1, <3>3 DEF Apart, Waits
  <2>7. QED
    BY <2>5, <2>6
<1>17. QED
    BY <1>9, <1>10, <1>13, <1>14, <1>15, <1>16, OneOfAKeyNow DEF Keyed

-----------------------------------------------------------------------------
(* Links *)

\* What Flying is made of.
LEMMA FlyingWeighed ==
    ASSUME MatchTyped, NEW e, NEW s, NEW r
    PROVE  IsWeighed(Flying(e, s, r)) /\ IsWeighed(packets) /\ \A m \in Flying(e, s, r) : IsMessage(m)
<1>1. IsWeighed(packets) /\ \A m \in packets : IsMessage(m)
    BY DEF MatchTyped, IsMessage, IsWeighed
<1>2. Flying(e, s, r) \in SUBSET packets
    BY DEF Flying
<1>3. IsFiniteSet(Flying(e, s, r))
    BY <1>1, <1>2, FS_Subset DEF IsWeighed
<1>4. QED
    BY <1>1, <1>2, <1>3 DEF IsWeighed

\* The links of hosts stay as they are, and what is on its way.
LinksKept ==
    /\ \A g \in Host : \A i \in DOMAIN epochs'[g] : i \in DOMAIN epochs[g] /\ KeepsTx(epochs'[g][i], epochs[g][i]) /\ KeepsRx(epochs'[g][i], epochs[g][i])
    /\ \A s, r \in Host : \A i \in DOMAIN epochs[s] \cap DOMAIN epochs[r] : Flying(i, s, r)' = Flying(i, s, r)

\* Then both ends know as much of them as before.
LEMMA LinksKeptKnown ==
    ASSUME LinksKept
    PROVE  (LinksKnown => LinksKnown') /\ (PromptsKnown => PromptsKnown')
<1>1. LinksKnown => LinksKnown'
    BY DEF LinksKnown, LinksKept, KeepsTx, KeepsRx
<1>2. PromptsKnown => PromptsKnown'
    BY DEF PromptsKnown, LinksKept, KeepsTx, KeepsRx
<1>3. QED
    BY <1>1, <1>2

\* And hosts that had nothing agreed on still have nothing.
LEMMA KeptBegun ==
    ASSUME MatchTyped, NotBegun, \A g \in Host : new_epoch[g] <= new_epoch'[g] /\ new_epoch'[g] \in Nat,
           \A g \in Host : \A i \in DOMAIN epochs'[g] :
               i \in DOMAIN epochs[g] /\ KeepsTx(epochs'[g][i], epochs[g][i]) /\ KeepsRx(epochs'[g][i], epochs[g][i])
    PROVE  NotBegun'
<1>1. SUFFICES ASSUME NEW h \in Host, NEW g \in Host, NEW e \in DOMAIN epochs'[h], e >= new_epoch'[g]
               PROVE  /\ epochs'[h][e].from[g] = 0 /\ epochs'[h][e].from_prompt[g] = 0
                      /\ epochs'[h][e].to[g] = 0 /\ epochs'[h][e].to_prompt[g] = 0
    BY DEF NotBegun
<1>2. e \in DOMAIN epochs[h] /\ e \in Nat /\ new_epoch[g] \in Nat
    BY EpochsTyped
<1>3. e >= new_epoch[g]
    BY <1>1, <1>2
<1>4. QED
    BY <1>2, <1>3 DEF NotBegun, KeepsTx, KeepsRx

\* The round stays as it is.
SameIter(F, E) == F.iter = E.iter

\* And what was counted stays so.
LEMMA KeptCounted ==
    ASSUME Counted, UNCHANGED links,
           \A g \in Host : DOMAIN epochs'[g] = DOMAIN epochs[g],
           \A g \in Host : \A i \in DOMAIN epochs'[g] :
               KeepsTx(epochs'[g][i], epochs[g][i]) /\ KeepsRx(epochs'[g][i], epochs[g][i]) /\ SameIter(epochs'[g][i], epochs[g][i])
    PROVE  Counted'
<1>1. \A g \in Host : \A i \in DOMAIN epochs'[g] : Done(g, i)' <=> Done(g, i)
    BY DEF Done, SameIter
<1>2. \A g \in Host : \A i \in DOMAIN epochs'[g] :
              /\ SumFunction(epochs'[g][i].from) <= epochs'[g][i].num_tx_link
              /\ SumFunction(epochs'[g][i].to) = epochs'[g][i].num_rx_link
              /\ Done(g, i)' => SumFunction(links'[g]) <= epochs'[g][i].num_tx_link
    BY <1>1 DEF Counted, KeepsTx, KeepsRx
<1>3. \A g \in Host : (\A i \in DOMAIN epochs'[g] : ~Done(g, i)') => links'[g] = NoLinks
    BY <1>1 DEF Counted
<1>4. QED
    BY <1>2, <1>3 DEF Counted

\* The part of the invariant about links.
Linked == NotBegun /\ LinksKnown /\ Counted

\* A sender's round changes no links.
LEMMA SenderTurnLinks ==
    ASSUME MatchTyped, Linked, NEW h \in Host, NEW e \in DOMAIN epochs[h], NEW given, NEW F, SenderIter(h, e, given, F)
    PROVE  Linked' /\ (PromptsKnown => PromptsKnown')
<1>1. DOMAIN epochs = Host /\ Turned(h, e, F, DOMAIN epochs[h]) /\ UNCHANGED << new_epoch, links >>
      /\ KeepsTx(F, epochs[h][e]) /\ KeepsRx(F, epochs[h][e]) /\ F.iter = epochs[h][e].iter
    BY EpochsTyped DEF SenderIter
<1>2. \A g \in Host : \A i \in DOMAIN epochs'[g] :
              \/ g = h /\ i = e /\ epochs'[g][i] = F
              \/ i \in DOMAIN epochs[g] /\ epochs'[g][i] = epochs[g][i] /\ (g = h => i # e)
    BY <1>1, TurnedEach
<1>3. \A g \in Host : DOMAIN epochs'[g] = DOMAIN epochs[g]
    BY <1>1 DEF Turned
<1>4. \A g \in Host : \A i \in DOMAIN epochs'[g] :
               /\ i \in DOMAIN epochs[g] /\ KeepsTx(epochs'[g][i], epochs[g][i]) /\ KeepsRx(epochs'[g][i], epochs[g][i])
               /\ SameIter(epochs'[g][i], epochs[g][i])
    BY <1>1, <1>2, <1>3 DEF KeepsTx, KeepsRx, SameIter
<1>5. \A i, s, r : Flying(i, s, r)' = Flying(i, s, r)
  <2>1. CASE packets' = packets
    BY <2>1 DEF Flying
  <2>2. CASE /\ Deals(given, epochs[h][e].req_q, PimK - epochs[h][e].num_rx_link, PimK - epochs[h][e].num_rx_prompt_link)
             /\ packets' = packets \cup Retyped(Range(given), "grant")
    <3>1. \A n \in Retyped(Range(given), "grant") : n.type = "grant"
      BY <2>2, AnswersAre
    <3>2. QED
      BY <2>2, <3>1 DEF Flying
  <2>3. QED
    BY <2>1, <2>2 DEF SenderIter
<1>6. LinksKept
    BY <1>4, <1>5 DEF LinksKept
<1>7. \A g \in Host : new_epoch[g] <= new_epoch'[g] /\ new_epoch'[g] \in Nat
    BY <1>1, EpochsTyped
<1>8. NotBegun'
    BY <1>4, <1>7, KeptBegun DEF Linked
<1>9. Counted'
    BY <1>1, <1>3, <1>4, KeptCounted DEF Linked
<1>10. QED
    BY <1>6, <1>8, <1>9, LinksKeptKnown DEF Linked

\* Steps of other kinds that leave the links alone.
LEMMA FrameLinks ==
    ASSUME MatchTyped, Linked, UNCHANGED << epochs, links >>, \A g \in Host : new_epoch[g] <= new_epoch'[g] /\ new_epoch'[g] \in Nat,
           \/ packets' = packets
           \/ \E m \in packets : Drop(m)
    PROVE  Linked' /\ (PromptsKnown => PromptsKnown')
<1>1. \A g \in Host : \A i \in DOMAIN epochs'[g] :
               /\ i \in DOMAIN epochs[g] /\ KeepsTx(epochs'[g][i], epochs[g][i]) /\ KeepsRx(epochs'[g][i], epochs[g][i])
               /\ SameIter(epochs'[g][i], epochs[g][i])
    BY DEF KeepsTx, KeepsRx, SameIter
<1>2. ASSUME NEW s \in Host, NEW r \in Host, NEW i \in DOMAIN epochs[s] \cap DOMAIN epochs[r]
      PROVE  Flying(i, s, r)' = Flying(i, s, r)
  <2>1. CASE packets' = packets
    BY <2>1 DEF Flying
  <2>2. ASSUME NEW m \in packets, Drop(m) PROVE Flying(i, s, r)' = Flying(i, s, r)
    <3>1. packets' = packets \ {m} /\ m.epoch \notin DOMAIN epochs[Recipient(m)]
      BY <2>2 DEF Drop, Known
    <3>2. m \notin Flying(i, s, r)
      <4>1. SUFFICES ASSUME m \in Flying(i, s, r) PROVE FALSE
        OBVIOUS
      <4>2. m.epoch = i /\ m.src = s /\ m.dst = r
        BY <4>1 DEF Flying
      <4>3. Recipient(m) \in {s, r}
        BY <4>2 DEF Recipient
      <4>4. QED
        BY <3>1, <4>2, <4>3
    <3>3. QED
      BY <3>1, <3>2 DEF Flying
  <2>3. QED
    BY <2>1, <2>2
<1>3. LinksKept
    BY <1>1, <1>2 DEF LinksKept
<1>4. NotBegun'
    BY <1>1, KeptBegun DEF Linked
<1>5. Counted'
    BY <1>1, KeptCounted DEF Linked
<1>6. QED
    BY <1>3, <1>4, <1>5, LinksKeptKnown DEF Linked

\* The links of an epoch that begins.
LEMMA NewTurnLinks ==
    ASSUME MatchTyped, Clocked, EpochsInOrder, Keyed, Linked, NEW h \in Host, NEW F, NewTurn(h, F)
    PROVE  Linked' /\ (PromptsKnown => PromptsKnown')
<1>0. PICK e : e = new_epoch[h]
    OBVIOUS
<1>1. /\ DOMAIN epochs = Host /\ e \in Nat /\ \A g \in Host : new_epoch[g] \in Nat /\ DOMAIN epochs[g] \subseteq Nat
    BY <1>0, EpochsTyped
<1>2. /\ Turned(h, e, F, DOMAIN epochs[h] \cup {e})
      /\ F.iter = 0 /\ F.num_tx_link = 0 /\ F.from = NoLinks /\ F.from_prompt = NoLinks
      /\ F.num_rx_link = 0 /\ F.to = NoLinks /\ F.to_prompt = NoLinks
      /\ UNCHANGED << packets, links >>
      /\ new_epoch' = [new_epoch EXCEPT ![h] = e + 1]
    BY <1>0, <1>1 DEF NewTurn
<1>3. \A g \in Host : \A i \in DOMAIN epochs'[g] :
              \/ g = h /\ i = e /\ epochs'[g][i] = F
              \/ i \in DOMAIN epochs[g] /\ epochs'[g][i] = epochs[g][i] /\ (g = h => i # e)
    BY <1>1, <1>2, TurnedEach
<1>4. \A g \in Host : new_epoch'[g] \in Nat /\ new_epoch[g] <= new_epoch'[g]
    BY <1>0, <1>1, <1>2 DEF MatchTyped
<1>4a. \A g \in Host : DOMAIN epochs[g] \subseteq DOMAIN epochs'[g] /\ \A i \in DOMAIN epochs[g] : epochs'[g][i] = epochs[g][i]
  <2>1. e \notin DOMAIN epochs[h]
    BY <1>0, <1>1 DEF EpochsInOrder
  <2>2. QED
    BY <1>2, <2>1 DEF Turned
<1>5. \A g \in Host : NoLinks[g] = 0
    BY DEF NoLinks
<1>6. \A i, s, r : Flying(i, s, r)' = Flying(i, s, r)
    BY <1>2 DEF Flying
<1>7. \A g \in Host : Flying(e, h, g) = {} /\ Flying(e, g, h) = {}
  <2>1. \A m \in packets : m.type \in {"accept", "grantsr"} => m.epoch < new_epoch[m.src] /\ m.epoch < new_epoch[m.dst]
    BY DEF Keyed, AllAsked, HasAsked
  <2>2. QED
    BY <1>0, <1>1, <2>1 DEF Flying
<1>8. \A g \in Host : e \in DOMAIN epochs[g] =>
         /\ epochs[g][e].from[h] = 0 /\ epochs[g][e].from_prompt[h] = 0
         /\ epochs[g][e].to[h] = 0 /\ epochs[g][e].to_prompt[h] = 0
    BY <1>0, <1>1 DEF Linked, NotBegun
<1>9. NotBegun'
  <2>1. SUFFICES ASSUME NEW f \in Host, NEW g \in Host, NEW i \in DOMAIN epochs'[f], i >= new_epoch'[g]
               PROVE  /\ epochs'[f][i].from[g] = 0 /\ epochs'[f][i].from_prompt[g] = 0
                      /\ epochs'[f][i].to[g] = 0 /\ epochs'[f][i].to_prompt[g] = 0
    BY DEF NotBegun
  <2>2. CASE i \in DOMAIN epochs[f] /\ epochs'[f][i] = epochs[f][i]
    <3>1. i >= new_epoch[g]
      BY <1>1, <1>4, <2>1, <2>2
    <3>2. QED
      BY <2>2, <3>1 DEF Linked, NotBegun
  <2>3. CASE epochs'[f][i] = F
    BY <1>2, <1>5, <2>3
  <2>4. QED
    BY <1>3, <2>2, <2>3
<1>10. ASSUME NEW s \in Host, NEW r \in Host, NEW i \in DOMAIN epochs'[s] \cap DOMAIN epochs'[r]
       PROVE  /\ LinksKnown => epochs'[r][i].from[s] = epochs'[s][i].to[r] + LinkSum(Flying(i, s, r))
              /\ PromptsKnown => epochs'[r][i].from_prompt[s] = epochs'[s][i].to_prompt[r] + PromptSum(Flying(i, s, r))
  <2>1. CASE s = h /\ i = e
    <3>1. epochs'[s][i].to[r] = 0 /\ epochs'[s][i].to_prompt[r] = 0 /\ Flying(i, s, r) = {}
      BY <1>2, <1>5, <1>7, <2>1 DEF Turned
    <3>2. epochs'[r][i].from[s] = 0 /\ epochs'[r][i].from_prompt[s] = 0
      BY <1>2, <1>3, <1>5, <1>8, <2>1
    <3>3. QED
      BY <3>1, <3>2, LinkSumEmpty
  <2>2. CASE r = h /\ i = e
    <3>1. epochs'[r][i].from[s] = 0 /\ epochs'[r][i].from_prompt[s] = 0 /\ Flying(i, s, r) = {}
      BY <1>2, <1>5, <1>7, <2>2 DEF Turned
    <3>2. epochs'[s][i].to[r] = 0 /\ epochs'[s][i].to_prompt[r] = 0
      BY <1>2, <1>3, <1>5, <1>8, <2>2
    <3>3. QED
      BY <3>1, <3>2, LinkSumEmpty
  <2>3. CASE ~(s = h /\ i = e) /\ ~(r = h /\ i = e)
    <3>1. i \in DOMAIN epochs[s] /\ epochs'[s][i] = epochs[s][i] /\ i \in DOMAIN epochs[r] /\ epochs'[r][i] = epochs[r][i]
      BY <1>3, <2>3
    <3>2. QED
      BY <3>1 DEF LinksKnown, PromptsKnown
  <2>4. QED
    BY <2>1, <2>2, <2>3
<1>11. LinksKnown'
    BY <1>6, <1>10 DEF LinksKnown, Linked
<1>12. PromptsKnown => PromptsKnown'
    BY <1>6, <1>10 DEF PromptsKnown
<1>13. Counted'
  <2>1. SumFunction(NoLinks) = 0
    <3>1. DOMAIN NoLinks = Host /\ IsFiniteSet(Host)
      BY MatchAssumption DEF NoLinks
    <3>2. SumFunctionOnSet(NoLinks, Host) = 0
      BY <1>5, <3>1, SumZero
    <3>3. SumFunction(NoLinks) = SumFunctionOnSet(NoLinks, DOMAIN NoLinks)
      BY DEF SumFunction, SumFunctionOnSet, FoldFunction
    <3>4. QED
      BY <3>1, <3>2, <3>3
  <2>2. \A g \in Host : \A i \in DOMAIN epochs'[g] :
              /\ SumFunction(epochs'[g][i].from) <= epochs'[g][i].num_tx_link
              /\ SumFunction(epochs'[g][i].to) = epochs'[g][i].num_rx_link
              /\ Done(g, i)' => SumFunction(links'[g]) <= epochs'[g][i].num_tx_link
    <3>1. SUFFICES ASSUME NEW g \in Host, NEW i \in DOMAIN epochs'[g]
                   PROVE  /\ SumFunction(epochs'[g][i].from) <= epochs'[g][i].num_tx_link
                          /\ SumFunction(epochs'[g][i].to) = epochs'[g][i].num_rx_link
                          /\ epochs'[g][i].iter > IterLimit => SumFunction(links[g]) <= epochs'[g][i].num_tx_link
      BY <1>2 DEF Done
    <3>2. CASE epochs'[g][i] = F
      BY <1>2, <2>1, <3>2, LengthsAre DEF Lengths
    <3>3. CASE i \in DOMAIN epochs[g] /\ epochs'[g][i] = epochs[g][i]
      BY <3>3 DEF Linked, Counted, Done
    <3>4. QED
      BY <1>3, <3>2, <3>3
  <2>3. \A g \in Host : (\A i \in DOMAIN epochs'[g] : ~Done(g, i)') => links'[g] = NoLinks
    BY <1>2, <1>4a DEF Linked, Counted, Done
  <2>4. QED
    BY <2>2, <2>3 DEF Counted
<1>14. QED
    BY <1>9, <1>11, <1>12, <1>13 DEF Linked

\* The accepts of a receiver's round, and what they do to the links under way.
LEMMA AcceptsAre ==
    ASSUME MatchTyped, Clocked, EpochsInOrder, Keyed, NEW h \in Host, NEW e \in DOMAIN epochs[h], NEW given, NEW F, NEW Q,
           ReceiverTurn(h, e, given, F, Q)
    PROVE  LET A == AcceptPkts(given)
               G == Range(given)
           IN  /\ IsWeighed(G) /\ \A g \in G : IsMessage(g)
               /\ IsWeighed(A) /\ LinkSum(A) = LinkSum(G) /\ PromptSum(A) = PromptSum(G)
               /\ \A s : LinkSum(OfSource(s, A)) = LinkSum(OfSource(s, G)) /\ PromptSum(OfSource(s, A)) = PromptSum(OfSource(s, G))
               /\ \A n \in A : /\ IsMessage(n) /\ n.type = "accept" /\ n.dst = h /\ n.epoch = e /\ n.iter = epochs[h][e].iter
                               /\ \E g \in epochs[h][e].grants_q : SameKey(n, g)
               /\ \A n \in A : n \notin packets
               /\ \A n \in A : \E g \in G : SameKey(n, g) /\ n.total = g.total /\ n.prompt = g.prompt
<1> DEFINE A == AcceptPkts(given)
           G == Range(given)
           E == epochs[h][e]
<1>1. Deals(given, E.grants_q, PimK - E.num_tx_link, PimK - E.num_tx_prompt_link)
    BY DEF ReceiverTurn
<1>2. A = Retyped(G, "accept")
    BY DEF AcceptPkts, Retyped
<1>3. /\ IsWeighed(G) /\ (\A g \in G : IsMessage(g)) /\ (\A g, k \in G : SameKey(g, k) => g = k)
    BY <1>1 DEF Deals, Answers
<1>4. \A n \in A : IsMessage(n) /\ n.type = "accept" /\ \E g \in E.grants_q : SameKey(n, g)
  <2> HIDE DEF A, E
  <2>1. QED
    BY <1>1, <1>2, AnswersAre
<1>5. \A g \in E.grants_q : g.dst = h /\ g.epoch = e /\ g.iter = E.iter
    BY DEF Keyed, Queued
<1>6. \A n \in A : n.dst = h /\ n.epoch = e /\ n.iter = E.iter
    BY <1>4, <1>5 DEF SameKey
<1>7. ASSUME NEW n \in A PROVE n \notin packets
  <2>1. PICK g \in E.grants_q : SameKey(n, g)
    BY <1>4
  <2>2. QED
    BY <2>1, OneOfAKeyIs DEF Keyed, Apart, Waits
<1> HIDE DEF A, G, E
<1>8. IsWeighed(A) /\ LinkSum(A) = LinkSum(G) /\ PromptSum(A) = PromptSum(G)
      /\ (\A s : LinkSum(OfSource(s, A)) = LinkSum(OfSource(s, G)) /\ PromptSum(OfSource(s, A)) = PromptSum(OfSource(s, G)))
      /\ \A n \in A : \E g \in G : SameKey(n, g) /\ n.total = g.total /\ n.prompt = g.prompt
    BY <1>2, <1>3, RetypedAre
<1>9. QED
    BY <1>3, <1>4, <1>6, <1>7, <1>8 DEF A, G, E

\* They are what is added to the links under way.
LEMMA ReceiverTurnFlying ==
    ASSUME MatchTyped, Clocked, EpochsInOrder, Keyed, NEW h \in Host, NEW e \in DOMAIN epochs[h], NEW given, NEW F, NEW Q,
           ReceiverTurn(h, e, given, F, Q)
    PROVE  /\ \A i, s, r : ~(i = e /\ r = h) => Flying(i, s, r)' = Flying(i, s, r)
           /\ \A s : /\ LinkSum(Flying(e, s, h)') = LinkSum(Flying(e, s, h)) + LinkSum(OfSource(s, Range(given)))
                     /\ PromptSum(Flying(e, s, h)') = PromptSum(Flying(e, s, h)) + PromptSum(OfSource(s, Range(given)))
<1> DEFINE A == AcceptPkts(given)
           G == Range(given)
<1>1. /\ IsWeighed(A)
      /\ \A s : LinkSum(OfSource(s, A)) = LinkSum(OfSource(s, G)) /\ PromptSum(OfSource(s, A)) = PromptSum(OfSource(s, G))
      /\ \A n \in A : n.type = "accept" /\ n.dst = h /\ n.epoch = e /\ n \notin packets
    BY AcceptsAre
<1>2. packets' = packets \cup A \cup Q /\ \A q \in Q : q.type = "req"
    BY DEF ReceiverTurn, Asks
<1> HIDE DEF A, G
<1>3. \A i, s, r : Flying(i, s, r)' = Flying(i, s, r) \cup {n \in A : n.epoch = i /\ n.src = s /\ n.dst = r}
    BY <1>1, <1>2 DEF Flying
<1>4. \A i, s, r : ~(i = e /\ r = h) => Flying(i, s, r)' = Flying(i, s, r)
    BY <1>1, <1>3
<1>5. ASSUME NEW s
      PROVE  /\ LinkSum(Flying(e, s, h)') = LinkSum(Flying(e, s, h)) + LinkSum(OfSource(s, G))
             /\ PromptSum(Flying(e, s, h)') = PromptSum(Flying(e, s, h)) + PromptSum(OfSource(s, G))
  <2> DEFINE X == Flying(e, s, h)
             Y == OfSource(s, A)
  <2>1. Flying(e, s, h)' = X \cup Y
    BY <1>1, <1>3 DEF OfSource
  <2>2a. IsWeighed(X)
    BY FlyingWeighed
  <2>2. IsWeighed(X) /\ X \subseteq packets
    BY <2>2a DEF Flying
  <2>3. Y \subseteq A /\ IsFiniteSet(Y)
    BY <1>1, FS_Subset DEF OfSource, IsWeighed
  <2>4. IsWeighed(Y) /\ X \cap Y = {}
    BY <1>1, <2>2, <2>3 DEF IsWeighed
  <2> HIDE DEF X, Y
  <2>5. LinkSum(X \cup Y) = LinkSum(X) + LinkSum(Y) /\ PromptSum(X \cup Y) = PromptSum(X) + PromptSum(Y)
    BY <2>2, <2>4, LinkSumUnion
  <2>6. LinkSum(Y) = LinkSum(OfSource(s, G)) /\ PromptSum(Y) = PromptSum(OfSource(s, G))
    BY <1>1 DEF Y
  <2>7. QED
    BY <2>1, <2>5, <2>6 DEF X
<1>6. QED
    BY <1>4, <1>5 DEF G

\* Sums over hosts.
LEMMA HostSum ==
    ASSUME NEW f, DOMAIN f = Host
    PROVE  SumFunction(f) = SumFunctionOnSet(f, Host) /\ IsFiniteSet(Host)
  BY MatchAssumption DEF SumFunction, SumFunctionOnSet, FoldFunction

\* A sum of natural numbers over hosts is one.
LEMMA HostSumNat ==
    ASSUME NEW f \in [Host -> Nat]
    PROVE  SumFunction(f) \in Nat
<1>1. SumFunction(f) = SumFunctionOnSet(f, Host) /\ IsFiniteSet(Host) /\ \A s \in Host : f[s] \in Nat
    BY HostSum
<1>2. QED
    BY <1>1, SumNat

\* The sum over hosts of sums.
LEMMA HostSumPlus ==
    ASSUME NEW f \in [Host -> Int], NEW g \in [Host -> Int], NEW d \in [Host -> Int], \A s \in Host : g[s] = f[s] + d[s]
    PROVE  SumFunction(g) = SumFunction(f) + SumFunction(d) /\ SumFunction(f) \in Int /\ SumFunction(d) \in Int
<1>1. /\ SumFunction(f) = SumFunctionOnSet(f, Host) /\ SumFunction(g) = SumFunctionOnSet(g, Host)
      /\ SumFunction(d) = SumFunctionOnSet(d, Host) /\ IsFiniteSet(Host)
    BY HostSum
<1>2. \A s \in Host : f[s] \in Int /\ d[s] \in Int /\ g[s] = f[s] + d[s]
    OBVIOUS
<1>3. SumFunctionOnSet(g, Host) = SumFunctionOnSet(f, Host) + SumFunctionOnSet(d, Host)
    BY <1>1, <1>2, SumPlus
<1>4. SumFunctionOnSet(f, Host) \in Int /\ SumFunctionOnSet(d, Host) \in Int
    BY <1>1, <1>2, SumInt
<1>5. QED
    BY <1>1, <1>3, <1>4

\* What a receiver's accepts add to the sums of its links.
LEMMA ReceiverTurnSums ==
    ASSUME MatchTyped, NEW h \in Host, NEW e \in DOMAIN epochs[h], NEW given, NEW F, NEW Q,
           ReceiverTurn(h, e, given, F, Q)
    PROVE  /\ SumFunction(F.from) = SumFunction(epochs[h][e].from) + LinkSum(Range(given))
           /\ SumFunction(F.from_prompt) = SumFunction(epochs[h][e].from_prompt) + PromptSum(Range(given))
           /\ LinkSum(Range(given)) \in Nat /\ PromptSum(Range(given)) \in Int
           /\ SumFunction(epochs[h][e].from) \in Nat /\ SumFunction(epochs[h][e].from_prompt) \in Int
<1> DEFINE G == Range(given)
           E == epochs[h][e]
           key == [g \in G |-> g.src]
           L == [s \in Host |-> LinkSum({m \in G : key[m] = s})]
           P == [s \in Host |-> PromptSum({m \in G : key[m] = s})]
<1>1. IsWeighed(G) /\ \A g \in G : IsMessage(g)
    BY DEF ReceiverTurn, Deals, Answers
<1>2. \A m \in G : key[m] \in Host
    BY <1>1 DEF IsMessage
<1>3. SumFunction(L) = LinkSum(G) /\ SumFunction(P) = PromptSum(G)
  <2> HIDE DEF G, key
  <2>1. QED
    BY <1>1, <1>2, LinkSumByHost
<1>4. \A s \in Host : {m \in G : key[m] = s} = OfSource(s, G)
    BY DEF OfSource
<1>5. \A s \in Host : L[s] = LinkSum(OfSource(s, G)) /\ P[s] = PromptSum(OfSource(s, G))
    BY <1>4
<1>6. \A s \in Host : LinkSum(OfSource(s, G)) \in Nat /\ PromptSum(OfSource(s, G)) \in Int
  <2> TAKE s \in Host
  <2>1. OfSource(s, G) \in SUBSET G
    BY DEF OfSource
  <2>2. IsWeighed(OfSource(s, G))
    BY <1>1, <2>1, FS_Subset DEF IsWeighed
  <2>3. QED
    BY <2>2, LinkSumNat
<1>7. L \in [Host -> Nat] /\ P \in [Host -> Int]
    BY <1>5, <1>6
<1>8. /\ \A s \in Host : /\ F.from[s] = E.from[s] + LinkSum(OfSource(s, G))
                         /\ F.from_prompt[s] = E.from_prompt[s] + PromptSum(OfSource(s, G))
      /\ IsEpoch(E) /\ IsEpoch(F)
    BY EpochsTyped DEF ReceiverTurn
<1> HIDE DEF L, P, G, E
<1>9. /\ E.from \in [Host -> Nat] /\ F.from \in [Host -> Nat] /\ E.from_prompt \in [Host -> Int] /\ F.from_prompt \in [Host -> Int]
      /\ E.from \in [Host -> Int] /\ F.from \in [Host -> Int] /\ L \in [Host -> Int]
    BY <1>7, <1>8 DEF IsEpoch
<1>10. \A s \in Host : F.from[s] = E.from[s] + L[s]
    BY <1>5, <1>8
<1>11. \A s \in Host : F.from_prompt[s] = E.from_prompt[s] + P[s]
    BY <1>5, <1>8
<1>12. SumFunction(F.from) = SumFunction(E.from) + SumFunction(L)
    BY <1>9, <1>10, HostSumPlus
<1>13. SumFunction(F.from_prompt) = SumFunction(E.from_prompt) + SumFunction(P) /\ SumFunction(E.from_prompt) \in Int
    BY <1>7, <1>9, <1>11, HostSumPlus
<1>14. SumFunction(E.from) \in Nat
    BY <1>9, HostSumNat
<1>15. LinkSum(G) \in Nat /\ PromptSum(G) \in Int
    BY <1>1, LinkSumNat
<1>16. QED
    BY <1>3, <1>12, <1>13, <1>14, <1>15 DEF E, G

\* Links in a receiver's round: what it counts is under way in its accepts.
LEMMA ReceiverTurnLinks ==
    ASSUME MatchTyped, Clocked, EpochsInOrder, EpochsInOrder', Keyed, Linked,
           NEW h \in Host, NEW e \in DOMAIN epochs[h], NEW given, NEW F, NEW Q,
           ReceiverTurn(h, e, given, F, Q)
    PROVE  Linked' /\ (PromptsKnown => PromptsKnown')
<1> DEFINE E == epochs[h][e]
           D == IF F.iter <= IterLimit THEN DOMAIN epochs[h] ELSE DOMAIN epochs[h] \ {e - 1}
           G == Range(given)
<1>1. /\ DOMAIN epochs = Host /\ e \in Nat /\ E.iter \in Nat /\ E.iter <= IterLimit /\ F.iter = E.iter + 1 /\ IsEpoch(F) /\ IsEpoch(E)
      /\ \A g \in Host : DOMAIN epochs[g] \subseteq Nat
    BY ReceiverTurnAt, EpochsTyped DEF ReceiverTurn
<1>2. Turned(h, e, F, D)
    BY <1>1, LengthsAre DEF ReceiverTurn, Lengths
<1>3. \A g \in Host : \A i \in DOMAIN epochs'[g] :
              \/ g = h /\ i = e /\ epochs'[g][i] = F
              \/ i \in DOMAIN epochs[g] /\ epochs'[g][i] = epochs[g][i] /\ (g = h => i # e)
    BY <1>1, <1>2, TurnedEach
<1>3a. epochs'[h][e] = F /\ e \in DOMAIN epochs'[h]
    BY <1>2 DEF Turned
<1>3b. F.iter <= IterLimit => DOMAIN epochs'[h] = DOMAIN epochs[h]
    BY <1>2 DEF Turned
<1>3c. \A g \in Host : g # h => DOMAIN epochs'[g] = DOMAIN epochs[g]
    BY <1>2 DEF Turned
<1> HIDE DEF D
<1>4. /\ F.num_tx_link = E.num_tx_link + LinkSum(G)
      /\ \A s \in Host : /\ F.from[s] = E.from[s] + LinkSum(OfSource(s, G))
                         /\ F.from_prompt[s] = E.from_prompt[s] + PromptSum(OfSource(s, G))
      /\ KeepsRx(F, E) /\ UNCHANGED new_epoch
      /\ (F.iter <= IterLimit /\ links' = links) \/ (F.iter > IterLimit /\ links' = [links EXCEPT ![h] = F.from])
    BY DEF ReceiverTurn
<1>5. /\ \A i, s, r : ~(i = e /\ r = h) => Flying(i, s, r)' = Flying(i, s, r)
      /\ \A s : /\ LinkSum(Flying(e, s, h)') = LinkSum(Flying(e, s, h)) + LinkSum(OfSource(s, G))
                /\ PromptSum(Flying(e, s, h)') = PromptSum(Flying(e, s, h)) + PromptSum(OfSource(s, G))
    BY ReceiverTurnFlying
<1>6. ASSUME NEW s PROVE /\ LinkSum(Flying(e, s, h)) \in Nat /\ PromptSum(Flying(e, s, h)) \in Int
                         /\ LinkSum(OfSource(s, G)) \in Nat /\ PromptSum(OfSource(s, G)) \in Int
  <2>1. IsWeighed(Flying(e, s, h)) /\ IsWeighed(G)
    BY FlyingWeighed DEF ReceiverTurn, Deals
  <2>2. OfSource(s, G) \in SUBSET G
    BY DEF OfSource
  <2>3. IsWeighed(OfSource(s, G))
    BY <2>1, <2>2, FS_Subset DEF IsWeighed
  <2>4. QED
    BY <2>1, <2>3, LinkSumNat
<1>7. NotBegun'
  <2>1. SUFFICES ASSUME NEW f \in Host, NEW g \in Host, NEW i \in DOMAIN epochs'[f], i >= new_epoch[g]
               PROVE  /\ epochs'[f][i].from[g] = 0 /\ epochs'[f][i].from_prompt[g] = 0
                      /\ epochs'[f][i].to[g] = 0 /\ epochs'[f][i].to_prompt[g] = 0
    BY <1>4 DEF NotBegun
  <2>2. CASE f = h /\ i = e
    <3>1. OfSource(g, G) = {}
      <4>1. SUFFICES ASSUME NEW k \in G, k.src = g PROVE FALSE
        BY DEF OfSource
      <4>2. PICK q \in E.grants_q : Answers(k, q)
        BY DEF ReceiverTurn, Deals
      <4>3. q.src = g /\ q.type = "grant" /\ q.epoch = e /\ HasAsked(q)
        BY <4>1, <4>2 DEF Keyed, Queued, AllAsked, Answers, SameKey
      <4>4. e < new_epoch[g]
        BY <4>3 DEF HasAsked
      <4>5. QED
        BY <1>1, <2>1, <2>2, <4>4, EpochsTyped
    <3>2. E.from[g] = 0 /\ E.from_prompt[g] = 0 /\ E.to[g] = 0 /\ E.to_prompt[g] = 0
      BY <2>1, <2>2 DEF Linked, NotBegun
    <3>3. QED
      BY <1>3a, <1>4, <2>2, <3>1, <3>2, LinkSumEmpty DEF KeepsRx
  <2>3. CASE i \in DOMAIN epochs[f] /\ epochs'[f][i] = epochs[f][i]
    BY <2>1, <2>3 DEF Linked, NotBegun
  <2>4. QED
    BY <1>3, <2>2, <2>3
<1>8. ASSUME NEW s \in Host, NEW r \in Host, NEW i \in DOMAIN epochs'[s] \cap DOMAIN epochs'[r]
      PROVE  /\ LinksKnown => epochs'[r][i].from[s] = epochs'[s][i].to[r] + LinkSum(Flying(i, s, r)')
             /\ PromptsKnown => epochs'[r][i].from_prompt[s] = epochs'[s][i].to_prompt[r] + PromptSum(Flying(i, s, r)')
  <2>1. i \in DOMAIN epochs[s] \cap DOMAIN epochs[r]
    BY <1>1, <1>3
  <2>2. epochs'[s][i].to = epochs[s][i].to /\ epochs'[s][i].to_prompt = epochs[s][i].to_prompt
    BY <1>3, <1>4 DEF KeepsRx
  <2>3. epochs[s][i].to[r] \in Nat /\ epochs[s][i].to_prompt[r] \in Int
    BY <2>1, EpochsTyped DEF IsEpoch
  <2>4. CASE i = e /\ r = h
    <3>1. epochs'[r][i].from[s] = E.from[s] + LinkSum(OfSource(s, G)) /\ epochs'[r][i].from_prompt[s] = E.from_prompt[s] + PromptSum(OfSource(s, G))
      BY <1>3a, <1>4, <2>4
    <3>2. /\ LinksKnown => E.from[s] = epochs[s][i].to[r] + LinkSum(Flying(e, s, h))
          /\ PromptsKnown => E.from_prompt[s] = epochs[s][i].to_prompt[r] + PromptSum(Flying(e, s, h))
      BY <2>1, <2>4 DEF LinksKnown, PromptsKnown
    <3> HIDE DEF E, G
    <3>3. /\ LinkSum(Flying(i, s, r)') = LinkSum(Flying(e, s, h)) + LinkSum(OfSource(s, G))
          /\ PromptSum(Flying(i, s, r)') = PromptSum(Flying(e, s, h)) + PromptSum(OfSource(s, G))
      BY <1>5, <2>4
    <3>4. /\ LinkSum(Flying(e, s, h)) \in Nat /\ PromptSum(Flying(e, s, h)) \in Int
          /\ LinkSum(OfSource(s, G)) \in Nat /\ PromptSum(OfSource(s, G)) \in Int
      BY <1>6
    <3>5. QED
      BY <2>2, <2>3, <3>1, <3>2, <3>3, <3>4
  <2>5. CASE ~(i = e /\ r = h)
    <3>1. epochs'[r][i] = epochs[r][i] /\ Flying(i, s, r)' = Flying(i, s, r)
      BY <1>3, <1>5, <2>5
    <3>2. QED
      BY <2>1, <2>2, <3>1 DEF LinksKnown, PromptsKnown
  <2>6. QED
    BY <2>4, <2>5
<1>9. LinksKnown'
    BY <1>8 DEF LinksKnown, Linked, LinkSum
<1>10. PromptsKnown => PromptsKnown'
    BY <1>8 DEF PromptsKnown, PromptSum
<1>11. SumFunction(F.from) = SumFunction(E.from) + LinkSum(G) /\ LinkSum(G) \in Nat /\ SumFunction(E.from) \in Nat
    BY ReceiverTurnSums
<1>12. SumFunction(F.from) <= F.num_tx_link
  <2>1. SumFunction(E.from) <= E.num_tx_link /\ E.num_tx_link \in Int
    BY <1>1, LengthsAre DEF Linked, Counted, IsEpoch, Lengths
  <2> HIDE DEF E, G
  <2>2. QED
    BY <1>4, <1>11, <2>1
<1>13. Counted'
  <2>1. ASSUME NEW g \in Host, NEW i \in DOMAIN epochs'[g]
        PROVE  /\ SumFunction(epochs'[g][i].from) <= epochs'[g][i].num_tx_link
               /\ SumFunction(epochs'[g][i].to) = epochs'[g][i].num_rx_link
    <3>1. CASE g = h /\ i = e /\ epochs'[g][i] = F
      <4>1. SumFunction(E.to) = E.num_rx_link
        BY DEF Linked, Counted
      <4>2. QED
        BY <1>4, <1>12, <3>1, <4>1 DEF KeepsRx
    <3>2. CASE i \in DOMAIN epochs[g] /\ epochs'[g][i] = epochs[g][i]
      BY <3>2 DEF Linked, Counted
    <3>3. QED
      BY <1>3, <3>1, <3>2
  <2>2. ASSUME NEW g \in Host, NEW i \in DOMAIN epochs'[g], Done(g, i)'
        PROVE  SumFunction(links'[g]) <= epochs'[g][i].num_tx_link
    <3>1. CASE g = h /\ F.iter > IterLimit
      <4>1. Done(h, e)'
        BY <1>3a, <3>1 DEF Done
      <4>2. i = e
        BY <1>1, <1>3, <1>3a, <2>2, <3>1, <4>1 DEF EpochsInOrder
      <4>3. F.iter \in Nat /\ links'[h] = F.from
        BY <1>1, <1>4, <3>1, LengthsAre DEF Lengths, MatchTyped
      <4>4. QED
        BY <1>3a, <1>12, <3>1, <4>2, <4>3
    <3>2. CASE ~(g = h /\ F.iter > IterLimit)
      <4>1. links'[g] = links[g]
        BY <1>4, <3>2 DEF MatchTyped
      <4>2. i \in DOMAIN epochs[g] /\ epochs'[g][i] = epochs[g][i]
        BY <1>3, <2>2, <3>2 DEF Done
      <4>3. QED
        BY <2>2, <4>1, <4>2 DEF Linked, Counted, Done
    <3>3. QED
      BY <3>1, <3>2
  <2>3. ASSUME NEW g \in Host, \A i \in DOMAIN epochs'[g] : ~Done(g, i)'
        PROVE  links'[g] = NoLinks
    <3>1. ~(g = h /\ F.iter > IterLimit)
      BY <1>3a, <2>3 DEF Done
    <3>2. links'[g] = links[g]
      BY <1>4, <3>1 DEF MatchTyped
    <3>3. DOMAIN epochs'[g] = DOMAIN epochs[g]
      BY <1>1, <1>3b, <1>3c, <3>1, LengthsAre DEF Lengths
    <3>4. \A i \in DOMAIN epochs[g] : ~Done(g, i)
      BY <1>1, <1>3, <2>3, <3>3, LengthsAre DEF Done, Lengths
    <3>5. QED
      BY <3>2, <3>4 DEF Linked, Counted
  <2>4. QED
    BY <2>1, <2>2, <2>3 DEF Counted
<1>14. QED
    BY <1>7, <1>9, <1>10, <1>13 DEF Linked

\* A packet that comes in.
LEMMA MessageTurnIs ==
    ASSUME MatchTyped, NEW m, NEW F, NEW B, MessageTurn(m, F, B)
    PROVE  LET h == Recipient(m)
           IN  /\ h \in Host /\ m.epoch \in DOMAIN epochs[h] /\ DOMAIN epochs = Host /\ IsMessage(m) /\ m \in packets
               /\ IsEpoch(epochs[h][m.epoch]) /\ IsEpoch(F) /\ F.iter = epochs[h][m.epoch].iter
               /\ Turned(h, m.epoch, F, DOMAIN epochs[h])
               /\ packets' = (packets \ {m}) \cup B
               /\ UNCHANGED << new_epoch, links >> /\ \A g \in Host : new_epoch[g] <= new_epoch'[g] /\ new_epoch'[g] \in Nat
               /\ \A g \in Host : DOMAIN epochs'[g] = DOMAIN epochs[g]
               /\ epochs'[h][m.epoch] = F
               /\ \A g \in Host : \A i \in DOMAIN epochs[g] : ~(g = h /\ i = m.epoch) => epochs'[g][i] = epochs[g][i]
<1> DEFINE h == Recipient(m)
<1>1. /\ h \in Host /\ m.epoch \in DOMAIN epochs[h] /\ m \in packets /\ IsEpoch(F) /\ F.iter = epochs[h][m.epoch].iter
      /\ Turned(h, m.epoch, F, DOMAIN epochs[h])
      /\ packets' = (packets \ {m}) \cup B
      /\ UNCHANGED << new_epoch, links >>
    BY DEF MessageTurn, KeepsTimes
<1>2. DOMAIN epochs = Host /\ IsMessage(m) /\ IsEpoch(epochs[h][m.epoch])
    BY <1>1 DEF MatchTyped
<1>3. \A g \in Host : new_epoch[g] <= new_epoch'[g] /\ new_epoch'[g] \in Nat
    BY <1>1, EpochsTyped
<1> HIDE DEF h
<1>4. /\ \A g \in Host : DOMAIN epochs'[g] = DOMAIN epochs[g]
      /\ epochs'[h][m.epoch] = F
      /\ \A g \in Host : \A i \in DOMAIN epochs[g] : ~(g = h /\ i = m.epoch) => epochs'[g][i] = epochs[g][i]
    BY <1>1 DEF Turned
<1>5. QED
    BY <1>1, <1>2, <1>3, <1>4 DEF h

\* Requests and grants change no links.
LEMMA QueueTurnLinks ==
    ASSUME MatchTyped, Linked, NEW m, NEW F, MessageTurn(m, F, {}), RequestTurn(m, F) \/ GrantTurn(m, F)
    PROVE  Linked' /\ (PromptsKnown => PromptsKnown')
<1>0. PICK h, e : h = Recipient(m) /\ e = m.epoch
    OBVIOUS
<1>1. /\ h \in Host /\ e \in DOMAIN epochs[h] /\ F.iter = epochs[h][e].iter
      /\ packets' = (packets \ {m}) \cup {} /\ UNCHANGED links /\ \A g \in Host : new_epoch[g] <= new_epoch'[g] /\ new_epoch'[g] \in Nat
      /\ \A g \in Host : DOMAIN epochs'[g] = DOMAIN epochs[g]
      /\ epochs'[h][e] = F
      /\ \A g \in Host : \A i \in DOMAIN epochs[g] : ~(g = h /\ i = e) => epochs'[g][i] = epochs[g][i]
    BY <1>0, MessageTurnIs
<1>2. KeepsTx(F, epochs[h][e]) /\ KeepsRx(F, epochs[h][e]) /\ m.type \notin {"accept", "grantsr"}
    BY <1>0 DEF RequestTurn, GrantTurn
<1>3. \A g \in Host : \A i \in DOMAIN epochs'[g] :
               /\ i \in DOMAIN epochs[g] /\ KeepsTx(epochs'[g][i], epochs[g][i]) /\ KeepsRx(epochs'[g][i], epochs[g][i])
               /\ SameIter(epochs'[g][i], epochs[g][i])
    BY <1>1, <1>2 DEF KeepsTx, KeepsRx, SameIter
<1>4. \A i, s, r : Flying(i, s, r)' = Flying(i, s, r)
    BY <1>1, <1>2 DEF Flying
<1>5. LinksKept
    BY <1>3, <1>4 DEF LinksKept
<1>6. NotBegun'
    BY <1>1, <1>3, KeptBegun DEF Linked
<1>7. Counted'
    BY <1>1, <1>3, KeptCounted DEF Linked
<1>8. QED
    BY <1>5, <1>6, <1>7, LinksKeptKnown DEF Linked

\* Of a sum over hosts one is more.
LEMMA HostSumMore ==
    ASSUME NEW f \in [Host -> Int], NEW x \in Host, NEW n \in Int
    PROVE  SumFunction([f EXCEPT ![x] = @ + n]) = SumFunction(f) + n
<1> DEFINE g == [f EXCEPT ![x] = @ + n]
<1>1. DOMAIN f = Host /\ DOMAIN g = Host /\ (\A y \in Host : f[y] \in Int /\ g[y] \in Int) /\ g[x] = f[x] + n
      /\ \A y \in Host \ {x} : g[y] = f[y]
    OBVIOUS
<1> HIDE DEF g
<1>2. SumFunction(f) = SumFunctionOnSet(f, Host) /\ SumFunction(g) = SumFunctionOnSet(g, Host) /\ IsFiniteSet(Host)
    BY <1>1, HostSum
<1>3. SumFunctionOnSet(g, Host) = SumFunctionOnSet(f, Host) + (g[x] - f[x])
    BY <1>1, <1>2, SumChange
<1>4. SumFunctionOnSet(f, Host) \in Int /\ f[x] \in Int /\ g[x] - f[x] = n
    BY <1>1, <1>2, SumInt
<1>5. QED
    BY <1>2, <1>3, <1>4 DEF g

\* An accept: what the sender keeps is no longer under way, the rest still is.
LEMMA AcceptTurnLinks ==
    ASSUME MatchTyped, Keyed, Linked, NEW m, NEW F, NEW B, NEW kept, NEW beyond, MessageTurn(m, F, B), AcceptTurn(m, F, B, kept, beyond)
    PROVE  Linked' /\ (PromptsKnown /\ beyond = 0 /\ m.prompt >= 0 => PromptsKnown')
<1>0. PICK h, e, r : h = Recipient(m) /\ e = m.epoch /\ r = m.dst
    OBVIOUS
<1> DEFINE E == epochs[h][e]
<1>1. /\ h \in Host /\ e \in DOMAIN epochs[h] /\ F.iter = E.iter /\ IsMessage(m) /\ m \in packets
      /\ IsEpoch(E) /\ IsEpoch(F) /\ DOMAIN epochs = Host
      /\ packets' = (packets \ {m}) \cup B /\ UNCHANGED << new_epoch, links >>
      /\ \A g \in Host : new_epoch[g] <= new_epoch'[g] /\ new_epoch'[g] \in Nat
      /\ \A g \in Host : DOMAIN epochs'[g] = DOMAIN epochs[g]
      /\ epochs'[h][e] = F
      /\ \A g \in Host : \A i \in DOMAIN epochs[g] : ~(g = h /\ i = e) => epochs'[g][i] = epochs[g][i]
    BY <1>0, MessageTurnIs
<1>2. /\ m.type = "accept" /\ KeepsTx(F, E) /\ kept \in Nat /\ beyond \in Nat /\ kept + beyond = m.total
      /\ F.num_rx_link = E.num_rx_link + kept /\ F.to = [E.to EXCEPT ![r] = @ + kept]
      /\ \A g \in Host : g # r => F.to_prompt[g] = E.to_prompt[g]
      /\ \/ /\ beyond = 0 /\ B = {}
            /\ kept = 0 => F.num_rx_prompt_link = E.num_rx_prompt_link /\ F.to_prompt = E.to_prompt
            /\ kept > 0 => /\ F.num_rx_prompt_link = E.num_rx_prompt_link + m.prompt
                           /\ F.to_prompt = [E.to_prompt EXCEPT ![r] = @ + m.prompt]
         \/ /\ beyond > 0 /\ E.num_rx_link + m.total > PimK
            /\ \E n : B = {n} /\ IsMessage(n) /\ n.type = "grantsr" /\ SameKey(n, m) /\ n.total = beyond
    BY <1>0 DEF AcceptTurn
<1>3. h = m.src /\ r \in Host /\ m.total \in Nat /\ m.prompt \in Int /\ m.prompt <= m.total
    BY <1>0, <1>1, <1>2 DEF Recipient, IsMessage
<1>3a. /\ E.to \in [Host -> Nat] /\ E.to_prompt \in [Host -> Int] /\ DOMAIN E.to = Host
       /\ E.num_rx_link \in Int
    BY <1>1, LengthsAre DEF IsEpoch, Lengths
<1>4. /\ F.to[r] = E.to[r] + kept /\ \A g \in Host : g # r => F.to[g] = E.to[g]
    BY <1>2, <1>3, <1>3a
<1>4b. beyond = 0 /\ m.prompt >= 0 => F.to_prompt[r] = E.to_prompt[r] + m.prompt
  <2>1. SUFFICES ASSUME beyond = 0, m.prompt >= 0 PROVE F.to_prompt[r] = E.to_prompt[r] + m.prompt
    OBVIOUS
  <2>2. kept = 0 => m.prompt = 0
    BY <1>2, <1>3, <2>1
  <2>3. E.to_prompt[r] \in Int
    BY <1>3, <1>3a
  <2>4. QED
    BY <1>2, <1>3, <1>3a, <2>1, <2>2, <2>3
<1> HIDE DEF E
<1>5. HasAsked(m) /\ m.epoch < new_epoch[m.dst]
    BY <1>1 DEF Keyed, AllAsked, HasAsked
<1>6. NotBegun'
  <2>1. SUFFICES ASSUME NEW f \in Host, NEW g \in Host, NEW i \in DOMAIN epochs'[f], i >= new_epoch[g]
               PROVE  /\ epochs'[f][i].from[g] = 0 /\ epochs'[f][i].from_prompt[g] = 0
                      /\ epochs'[f][i].to[g] = 0 /\ epochs'[f][i].to_prompt[g] = 0
    BY <1>1 DEF NotBegun
  <2>2. CASE f = h /\ i = e
    <3>1. g # r
      <4>1. e < new_epoch[r] /\ e >= new_epoch[g]
        BY <1>0, <1>5, <2>1, <2>2
      <4>2. e \in Nat /\ new_epoch[r] \in Nat
        BY <1>1, <1>3, EpochsTyped
      <4>3. QED
        BY <4>1, <4>2
    <3>2. E.from[g] = 0 /\ E.from_prompt[g] = 0 /\ E.to[g] = 0 /\ E.to_prompt[g] = 0
      BY <2>1, <2>2, <1>1 DEF Linked, NotBegun, E
    <3>4. QED
      BY <1>1, <1>2, <1>4, <2>2, <3>1, <3>2 DEF KeepsTx
  <2>3. CASE ~(f = h /\ i = e)
    BY <1>1, <2>1, <2>3 DEF Linked, NotBegun
  <2>4. QED
    BY <2>2, <2>3
<1>7. /\ m \in Flying(e, h, r)
      /\ \A i, s, t : ~(i = e /\ s = h /\ t = r) => Flying(i, s, t)' = Flying(i, s, t)
      /\ Flying(e, h, r)' = (Flying(e, h, r) \ {m}) \cup B
  <2>1. m.epoch = e /\ m.src = h /\ m.dst = r
    BY <1>0, <1>3
  <2>2. \A n \in B : n.epoch = e /\ n.src = h /\ n.dst = r /\ n.type = "grantsr"
    BY <1>2, <2>1 DEF SameKey
  <2>3. QED
    BY <1>1, <1>2, <2>1, <2>2 DEF Flying
<1>8. /\ LinkSum(Flying(e, h, r)') = LinkSum(Flying(e, h, r)) - kept /\ LinkSum(Flying(e, h, r)) \in Int
      /\ beyond = 0 => PromptSum(Flying(e, h, r)') = PromptSum(Flying(e, h, r)) - m.prompt
      /\ PromptSum(Flying(e, h, r)) \in Int
  <2> DEFINE X == Flying(e, h, r)
             R == X \ {m}
  <2>1. IsWeighed(X) /\ m \in X
    BY <1>7, FlyingWeighed
  <2>2. X \subseteq packets
    BY DEF Flying
  <2> HIDE DEF X
  <2>3. LinkSum(X) = LinkSum(R) + m.total /\ PromptSum(X) = PromptSum(R) + m.prompt /\ IsWeighed(R)
    BY <2>1, LinkSumLess
  <2> HIDE DEF R
  <2>4. LinkSum(R) \in Nat /\ PromptSum(R) \in Int
    BY <2>3, LinkSumNat
  <2>5. CASE beyond = 0 /\ B = {}
    <3>1. Flying(e, h, r)' = R
      BY <1>7, <2>5 DEF R, X
    <3>2. QED
      BY <1>2, <1>3, <2>3, <2>4, <2>5, <3>1 DEF X
  <2>6. CASE beyond > 0
    <3>1. PICK n : B = {n} /\ IsMessage(n) /\ n.type = "grantsr" /\ SameKey(n, m) /\ n.total = beyond
      BY <1>2, <2>6
    <3>2. n \notin R
      <4>1. n \in packets => n = m
        BY <1>1, <3>1, OneOfAKeyIs DEF Keyed, Lone
      <4>2. QED
        BY <1>2, <2>2, <3>1, <4>1 DEF R
    <3>3. n.total \in Nat /\ n.prompt \in Int
      BY <3>1 DEF IsMessage
    <3>4. LinkSum(R \cup {n}) = LinkSum(R) + n.total
      BY <2>3, <3>2, <3>3, LinkSumAdd
    <3>5. Flying(e, h, r)' = R \cup {n}
      BY <1>7, <3>1 DEF R, X
    <3>6. QED
      BY <1>2, <1>3, <2>3, <2>4, <2>6, <3>1, <3>4, <3>5 DEF X
  <2>7. QED
    BY <1>2, <2>5, <2>6
<1>9. ASSUME NEW s \in Host, NEW t \in Host, NEW i \in DOMAIN epochs[s] \cap DOMAIN epochs[t]
      PROVE  /\ epochs'[t][i].from[s] = epochs'[s][i].to[t] + LinkSum(Flying(i, s, t)')
             /\ PromptsKnown /\ beyond = 0 /\ m.prompt >= 0 =>
                   epochs'[t][i].from_prompt[s] = epochs'[s][i].to_prompt[t] + PromptSum(Flying(i, s, t)')
  <2>1. epochs'[t][i].from = epochs[t][i].from /\ epochs'[t][i].from_prompt = epochs[t][i].from_prompt
    BY <1>1, <1>2 DEF KeepsTx, E
  <2>2. /\ epochs[t][i].from[s] = epochs[s][i].to[t] + LinkSum(Flying(i, s, t))
        /\ PromptsKnown => epochs[t][i].from_prompt[s] = epochs[s][i].to_prompt[t] + PromptSum(Flying(i, s, t))
    BY DEF Linked, LinksKnown, PromptsKnown
  <2>3. CASE s = h /\ i = e /\ t = r
    <3>1. epochs[s][i] = E /\ epochs'[s][i] = F
      BY <1>1, <2>3 DEF E
    <3>2. E.to[r] \in Nat /\ E.to_prompt[r] \in Int
      BY <1>3, <1>3a
    <3>3. epochs'[t][i].from[s] = E.to[r] + LinkSum(Flying(e, h, r))
      BY <2>1, <2>2, <2>3, <3>1
    <3>4. PromptsKnown => epochs'[t][i].from_prompt[s] = E.to_prompt[r] + PromptSum(Flying(e, h, r))
      BY <2>1, <2>2, <2>3, <3>1
    <3>5. epochs'[t][i].from[s] = F.to[r] + LinkSum(Flying(e, h, r)')
      BY <1>2, <1>4, <1>8, <3>2, <3>3
    <3>6. PromptsKnown /\ beyond = 0 /\ m.prompt >= 0 => epochs'[t][i].from_prompt[s] = F.to_prompt[r] + PromptSum(Flying(e, h, r)')
      BY <1>3, <1>4b, <1>8, <3>2, <3>4
    <3>7. QED
      BY <2>3, <3>1, <3>5, <3>6
  <2>4. CASE ~(s = h /\ i = e /\ t = r)
    <3>1. Flying(i, s, t)' = Flying(i, s, t)
      BY <1>7, <2>4
    <3>2. epochs'[s][i].to[t] = epochs[s][i].to[t] /\ epochs'[s][i].to_prompt[t] = epochs[s][i].to_prompt[t]
      BY <1>1, <1>2, <1>4, <2>4 DEF E
    <3>3. QED
      BY <2>1, <2>2, <3>1, <3>2
  <2>5. QED
    BY <2>3, <2>4
<1>9a. \A s, t \in Host : \A i \in DOMAIN epochs'[s] \cap DOMAIN epochs'[t] :
             /\ epochs'[t][i].from[s] = epochs'[s][i].to[t] + LinkSum(Flying(i, s, t)')
             /\ PromptsKnown /\ beyond = 0 /\ m.prompt >= 0 =>
                   epochs'[t][i].from_prompt[s] = epochs'[s][i].to_prompt[t] + PromptSum(Flying(i, s, t)')
    BY <1>1, <1>9
<1>10. LinksKnown'
    BY <1>9a DEF LinksKnown, LinkSum
<1>11. PromptsKnown /\ beyond = 0 /\ m.prompt >= 0 => PromptsKnown'
    BY <1>9a DEF PromptsKnown, PromptSum
<1>12. SumFunction(F.to) = F.num_rx_link
  <2>1. SumFunction(E.to) = E.num_rx_link
    BY <1>1 DEF Linked, Counted, E
  <2>2. E.to \in [Host -> Int]
    BY <1>3a
  <2>3. SumFunction([E.to EXCEPT ![r] = @ + kept]) = SumFunction(E.to) + kept
    BY <1>2, <1>3, <2>2, HostSumMore
  <2>4. QED
    BY <1>2, <2>1, <2>3
<1>13. Counted'
  <2>1. \A g \in Host : \A i \in DOMAIN epochs'[g] : Done(g, i)' <=> Done(g, i)
    BY <1>1 DEF Done, E
  <2>2. \A g \in Host : \A i \in DOMAIN epochs'[g] :
              /\ SumFunction(epochs'[g][i].from) <= epochs'[g][i].num_tx_link
              /\ SumFunction(epochs'[g][i].to) = epochs'[g][i].num_rx_link
              /\ Done(g, i)' => SumFunction(links'[g]) <= epochs'[g][i].num_tx_link
    BY <1>1, <1>2, <1>12, <2>1 DEF Linked, Counted, KeepsTx, E
  <2>3. \A g \in Host : (\A i \in DOMAIN epochs'[g] : ~Done(g, i)') => links'[g] = NoLinks
    BY <1>1, <2>1 DEF Linked, Counted
  <2>4. QED
    BY <2>2, <2>3 DEF Counted
<1>14. QED
    BY <1>6, <1>10, <1>11, <1>13 DEF Linked

\* A release: the receiver has counted what comes back.
LEMMA ReleaseTurnLinks ==
    ASSUME MatchTyped, Keyed, Linked, NEW m, NEW F, MessageTurn(m, F, {}), ReleaseTurn(m, F)
    PROVE  Linked'
<1>0. PICK h, e, s : h = Recipient(m) /\ e = m.epoch /\ s = m.src
    OBVIOUS
<1> DEFINE E == epochs[h][e]
<1>1. /\ h \in Host /\ e \in DOMAIN epochs[h] /\ F.iter = E.iter /\ IsMessage(m) /\ m \in packets
      /\ IsEpoch(E) /\ IsEpoch(F) /\ DOMAIN epochs = Host
      /\ packets' = (packets \ {m}) \cup {} /\ UNCHANGED << new_epoch, links >>
      /\ \A g \in Host : DOMAIN epochs'[g] = DOMAIN epochs[g]
      /\ epochs'[h][e] = F
      /\ \A g \in Host : \A i \in DOMAIN epochs[g] : ~(g = h /\ i = e) => epochs'[g][i] = epochs[g][i]
    BY <1>0, MessageTurnIs
<1>2. /\ m.type = "grantsr" /\ KeepsRx(F, E)
      /\ F.num_tx_link = E.num_tx_link
      /\ F.from = [E.from EXCEPT ![s] = Less(@, m.total)]
      /\ F.from_prompt = [E.from_prompt EXCEPT ![s] = Less(@, m.prompt)]
    BY <1>0 DEF ReleaseTurn
<1>3. h = m.dst /\ s \in Host /\ m.total \in Nat /\ m.prompt \in Int
    BY <1>0, <1>1, <1>2 DEF Recipient, IsMessage
<1>4. E.from \in [Host -> Nat] /\ E.from_prompt \in [Host -> Int] /\ F.from \in [Host -> Nat]
    BY <1>1 DEF IsEpoch
<1>5. F.from[s] = Less(E.from[s], m.total) /\ \A g \in Host : g # s => F.from[g] = E.from[g] /\ F.from_prompt[g] = E.from_prompt[g]
    BY <1>2, <1>3, <1>4
<1> HIDE DEF E
<1>6. NotBegun'
  <2>1. SUFFICES ASSUME NEW f \in Host, NEW g \in Host, NEW i \in DOMAIN epochs'[f], i >= new_epoch[g]
               PROVE  /\ epochs'[f][i].from[g] = 0 /\ epochs'[f][i].from_prompt[g] = 0
                      /\ epochs'[f][i].to[g] = 0 /\ epochs'[f][i].to_prompt[g] = 0
    BY <1>1 DEF NotBegun
  <2>2. CASE f = h /\ i = e
    <3>1. g # s
      <4>1. e < new_epoch[s] /\ e >= new_epoch[g]
        BY <1>0, <1>1, <1>2, <2>1, <2>2 DEF Keyed, AllAsked, HasAsked
      <4>2. e \in Nat /\ new_epoch[s] \in Nat
        BY <1>1, <1>3, EpochsTyped
      <4>3. QED
        BY <4>1, <4>2
    <3>2. E.from[g] = 0 /\ E.from_prompt[g] = 0 /\ E.to[g] = 0 /\ E.to_prompt[g] = 0
      BY <2>1, <2>2, <1>1 DEF Linked, NotBegun, E
    <3>3. QED
      BY <1>1, <1>2, <1>5, <2>2, <3>1, <3>2 DEF KeepsRx
  <2>3. CASE ~(f = h /\ i = e)
    BY <1>1, <2>1, <2>3 DEF Linked, NotBegun
  <2>4. QED
    BY <2>2, <2>3
<1>7. /\ m \in Flying(e, s, h)
      /\ \A i, t, r : ~(i = e /\ t = s /\ r = h) => Flying(i, t, r)' = Flying(i, t, r)
      /\ Flying(e, s, h)' = Flying(e, s, h) \ {m}
    BY <1>0, <1>1, <1>2, <1>3 DEF Flying
<1>8. /\ LinkSum(Flying(e, s, h)') = LinkSum(Flying(e, s, h)) - m.total /\ LinkSum(Flying(e, s, h)) \in Int
      /\ m.total <= LinkSum(Flying(e, s, h))
  <2> DEFINE X == Flying(e, s, h)
             R == X \ {m}
  <2>1. IsWeighed(X) /\ m \in X
    BY <1>7, FlyingWeighed
  <2> HIDE DEF X
  <2>3. LinkSum(X) = LinkSum(R) + m.total /\ IsWeighed(R)
    BY <2>1, LinkSumLess
  <2> HIDE DEF R
  <2>4. LinkSum(R) \in Nat
    BY <2>3, LinkSumNat
  <2>5. Flying(e, s, h)' = R
    BY <1>7 DEF R, X
  <2>6. QED
    BY <1>3, <2>3, <2>4, <2>5 DEF X
<1>9. ASSUME NEW t \in Host, NEW r \in Host, NEW i \in DOMAIN epochs[t] \cap DOMAIN epochs[r]
      PROVE  epochs'[r][i].from[t] = epochs'[t][i].to[r] + LinkSum(Flying(i, t, r)')
  <2>1. epochs'[t][i].to = epochs[t][i].to
    BY <1>1, <1>2 DEF KeepsRx, E
  <2>2. epochs[r][i].from[t] = epochs[t][i].to[r] + LinkSum(Flying(i, t, r))
    BY DEF Linked, LinksKnown
  <2>3. CASE t = s /\ i = e /\ r = h
    <3>1. epochs[r][i] = E /\ epochs'[r][i] = F
      BY <1>1, <2>3 DEF E
    <3>2. epochs[t][i].to[r] \in Nat /\ E.from[s] \in Nat
      BY <1>3, <1>4, EpochsTyped DEF IsEpoch
    <3>3. E.from[s] = epochs[t][i].to[r] + LinkSum(Flying(e, s, h))
      BY <2>2, <2>3, <3>1
    <3>4. Less(E.from[s], m.total) = E.from[s] - m.total
      BY <1>3, <1>8, <3>2, <3>3 DEF Less
    <3>5. F.from[s] = epochs[t][i].to[r] + LinkSum(Flying(e, s, h)')
      BY <1>3, <1>5, <1>8, <3>2, <3>3, <3>4
    <3>6. QED
      BY <2>1, <2>3, <3>1, <3>5
  <2>4. CASE ~(t = s /\ i = e /\ r = h)
    <3>1. Flying(i, t, r)' = Flying(i, t, r)
      BY <1>7, <2>4
    <3>2. epochs'[r][i].from[t] = epochs[r][i].from[t]
      BY <1>1, <1>5, <2>4 DEF E
    <3>3. QED
      BY <2>1, <2>2, <3>1, <3>2
  <2>5. QED
    BY <2>3, <2>4
<1>9a. \A t, r \in Host : \A i \in DOMAIN epochs'[t] \cap DOMAIN epochs'[r] :
             epochs'[r][i].from[t] = epochs'[t][i].to[r] + LinkSum(Flying(i, t, r)')
    BY <1>1, <1>9
<1>10. LinksKnown'
    BY <1>9a DEF LinksKnown, LinkSum
<1>11. SumFunction(F.from) <= F.num_tx_link
  <2>1. SumFunction(E.from) <= E.num_tx_link /\ E.num_tx_link \in Int
    BY <1>1, LengthsAre DEF Linked, Counted, E, IsEpoch, Lengths
  <2>2. /\ SumFunction(E.from) = SumFunctionOnSet(E.from, Host) /\ SumFunction(F.from) = SumFunctionOnSet(F.from, Host)
        /\ IsFiniteSet(Host)
    BY <1>4, HostSum
  <2>3. \A g \in Host : F.from[g] \in Int /\ E.from[g] \in Int /\ F.from[g] <= E.from[g]
    <3>1. \A g \in Host : F.from[g] \in Nat /\ E.from[g] \in Nat
      BY <1>4
    <3>2. F.from[s] <= E.from[s]
      BY <1>3, <1>5, <3>1 DEF Less
    <3>3. QED
      BY <1>5, <3>1, <3>2
  <2>4. SumFunctionOnSet(F.from, Host) <= SumFunctionOnSet(E.from, Host)
    BY <2>2, <2>3, SumAtMost
  <2>5. SumFunctionOnSet(F.from, Host) \in Int /\ SumFunctionOnSet(E.from, Host) \in Int
    BY <2>2, <2>3, SumInt
  <2>6. QED
    BY <1>2, <2>1, <2>2, <2>4, <2>5
<1>12. Counted'
  <2>1. \A g \in Host : \A i \in DOMAIN epochs'[g] : Done(g, i)' <=> Done(g, i)
    BY <1>1 DEF Done, E
  <2>2. \A g \in Host : \A i \in DOMAIN epochs'[g] :
              /\ SumFunction(epochs'[g][i].from) <= epochs'[g][i].num_tx_link
              /\ SumFunction(epochs'[g][i].to) = epochs'[g][i].num_rx_link
              /\ Done(g, i)' => SumFunction(links'[g]) <= epochs'[g][i].num_tx_link
    BY <1>1, <1>2, <1>11, <2>1 DEF Linked, Counted, KeepsRx, E
  <2>3. \A g \in Host : (\A i \in DOMAIN epochs'[g] : ~Done(g, i)') => links'[g] = NoLinks
    BY <1>1, <2>1 DEF Linked, Counted
  <2>4. QED
    BY <2>2, <2>3 DEF Counted
<1>13. QED
    BY <1>6, <1>10, <1>12 DEF Linked

-----------------------------------------------------------------------------
(* Packets on time *)

\* What belongs to Granting.
LEMMA GrantingIs ==
    ASSUME NEW e, NEW s, NEW m
    PROVE  m \in Granting(e, s) <=>
              \/ m \in packets /\ m.type \in {"grant", "accept"} /\ m.epoch = e /\ m.src = s
              \/ \E r \in Host : e \in DOMAIN epochs[r] /\ m \in epochs[r][e].grants_q /\ m.src = s
  BY DEF Granting

\* It is a finite set of messages.
LEMMA GrantingWeighed ==
    ASSUME MatchTyped, NEW e, NEW s
    PROVE  IsWeighed(Granting(e, s)) /\ \A m \in Granting(e, s) : IsMessage(m)
<1> DEFINE R == {r \in Host : e \in DOMAIN epochs[r]}
           f == [r \in R |-> {q \in epochs[r][e].grants_q : q.src = s}]
           T == {{q \in epochs[r][e].grants_q : q.src = s} : r \in R}
           P == {m \in packets : m.type \in {"grant", "accept"} /\ m.epoch = e /\ m.src = s}
<1>1. IsFiniteSet(R)
    BY MatchAssumption, FS_Subset
<1>2. f \in Surjection(R, T)
    BY DEF Surjection
<1>3. \A r \in R : IsFiniteSet(epochs[r][e].grants_q)
    BY DEF MatchTyped, IsEpoch
<1>4. \A x \in T : IsFiniteSet(x)
  <2>1. SUFFICES ASSUME NEW r \in R PROVE IsFiniteSet({q \in epochs[r][e].grants_q : q.src = s})
    OBVIOUS
  <2>2. QED
    BY <1>3, FS_Subset
<1>5. IsFiniteSet(P)
    BY FS_Subset DEF MatchTyped
<1>6. Granting(e, s) = P \cup UNION T
    BY DEF Granting
<1>7. \A m \in Granting(e, s) : IsMessage(m)
    BY GrantingIs DEF MatchTyped, IsEpoch
<1> HIDE DEF P, T, f, R
<1>8. IsFiniteSet(T)
    BY <1>1, <1>2, FS_Surjection
<1>9. IsFiniteSet(UNION T)
    BY <1>4, <1>8, FS_UNION
<1>10. IsFiniteSet(Granting(e, s))
    BY <1>5, <1>6, <1>9, FS_Union
<1>11. QED
    BY <1>7, <1>10 DEF IsWeighed, IsMessage

\* None has a negative number of prompt links.
LEMMA GrantingNatural ==
    ASSUME NaturalPrompts, NEW e, NEW s
    PROVE  \A m \in Granting(e, s) : m.prompt >= 0
  BY GrantingIs DEF NaturalPrompts

\* A part of what has been granted takes no more room.
LEMMA PartFits ==
    ASSUME NEW M, NEW N \in SUBSET M, IsWeighed(M), \A m \in M : m.prompt >= 0
    PROVE  /\ LinkSum(N) <= LinkSum(M) /\ PromptSum(N) <= PromptSum(M) /\ IsWeighed(N)
           /\ LinkSum(N) \in Nat /\ LinkSum(M) \in Nat /\ PromptSum(N) \in Nat /\ PromptSum(M) \in Nat
<1>1. IsFiniteSet(N) /\ LinkSum(N) <= LinkSum(M) /\ PromptSum(N) <= PromptSum(M)
    BY FS_Subset, LinkSumPart DEF IsWeighed
<1>2. IsWeighed(N) /\ \A m \in N : m.prompt >= 0
    BY <1>1 DEF IsWeighed
<1>3. /\ LinkSum(N) \in Nat /\ PromptSum(N) \in Int /\ PromptSum(N) >= 0
      /\ LinkSum(M) \in Nat /\ PromptSum(M) \in Int /\ PromptSum(M) >= 0
    BY <1>2, LinkSumNat
<1>4. QED
    BY <1>1, <1>2, <1>3

\* Nor do answers.
LEMMA AnswersFit ==
    ASSUME NEW G, NEW W, IsWeighed(G), IsWeighed(W), \A w \in W : IsMessage(w) /\ w.prompt >= 0,
           \A p, q \in G : SameKey(p, q) => p = q,
           \A g \in G : g.total \in Nat /\ g.prompt \in Int /\ \E w \in W : SameKey(g, w) /\ g.total <= w.total /\ g.prompt <= w.prompt
    PROVE  LinkSum(G) <= LinkSum(W) /\ PromptSum(G) <= PromptSum(W)
<1> DEFINE name == [g \in G |-> CHOOSE w \in W : SameKey(g, w) /\ g.total <= w.total /\ g.prompt <= w.prompt]
           N == Names(name, G)
           ft == [g \in G |-> name[g].total]
           fp == [g \in G |-> name[g].prompt]
           gt == [w \in N |-> w.total]
           gp == [w \in N |-> w.prompt]
           st == [g \in G |-> g.total]
           sp == [g \in G |-> g.prompt]
<1>1. ASSUME NEW g \in G PROVE name[g] \in W /\ SameKey(g, name[g]) /\ g.total <= name[g].total /\ g.prompt <= name[g].prompt
    OBVIOUS
<1> HIDE DEF name
<1>2. N \subseteq W
    BY <1>1 DEF Names
<1>3. \A x, y \in G : name[x] = name[y] => x = y
    BY <1>1 DEF SameKey
<1>4. \A g \in G : name[g] \in N
    BY DEF Names
<1>5. \A w \in W : w.total \in Nat /\ w.prompt \in Int
    BY DEF IsWeighed
<1>6. Renames(ft, gt, name, G) /\ Renames(fp, gp, name, G)
    BY <1>1, <1>3, <1>4, <1>5 DEF Renames, IsWeighed
<1>7. SumFunctionOnSet(gt, N) = SumFunctionOnSet(ft, G) /\ SumFunctionOnSet(gp, N) = SumFunctionOnSet(fp, G)
  <2> HIDE DEF gt, ft, gp, fp
  <2>1. QED
    BY <1>6, SumNamed
<1>8. LinkSum(N) = SumFunctionOnSet(gt, N) /\ PromptSum(N) = SumFunctionOnSet(gp, N)
      /\ LinkSum(G) = SumFunctionOnSet(st, G) /\ PromptSum(G) = SumFunctionOnSet(sp, G)
    BY DEF LinkSum, PromptSum
<1>9. /\ \A g \in G : st[g] \in Int /\ ft[g] \in Int /\ st[g] <= ft[g]
      /\ \A g \in G : sp[g] \in Int /\ fp[g] \in Int /\ sp[g] <= fp[g]
      /\ IsFiniteSet(G)
    BY <1>1, <1>5 DEF IsWeighed
<1>10. SumFunctionOnSet(st, G) <= SumFunctionOnSet(ft, G) /\ SumFunctionOnSet(sp, G) <= SumFunctionOnSet(fp, G)
  <2> HIDE DEF st, ft, sp, fp
  <2>1. QED
    BY <1>9, SumAtMost
<1>11. LinkSum(N) <= LinkSum(W) /\ PromptSum(N) <= PromptSum(W)
       /\ LinkSum(N) \in Nat /\ LinkSum(W) \in Nat /\ PromptSum(N) \in Nat /\ PromptSum(W) \in Nat
  <2> HIDE DEF N
  <2>1. QED
    BY <1>2, PartFits
<1>12. LinkSum(G) \in Nat /\ PromptSum(G) \in Int
    BY LinkSumNat
<1> HIDE DEF N, ft, fp, gt, gp, st, sp
<1>13. LinkSum(G) <= LinkSum(N) /\ PromptSum(G) <= PromptSum(N)
    BY <1>7, <1>8, <1>10
<1>14. QED
    BY <1>11, <1>12, <1>13

\* By its next round, all that a sender has granted is answered.
LEMMA GrantingNone ==
    ASSUME MatchTyped, Clocked, Queued, PacketsOnTime, Room, NEW s \in Host, NEW e \in DOMAIN epochs[s], epochs[s][e].sender_at = clock
    PROVE  Granting(e, s) = {}
<1>1. SUFFICES ASSUME NEW m \in Granting(e, s) PROVE FALSE
    OBVIOUS
<1>2. e \in Nat /\ Start(e) \in Nat /\ clock \in Nat /\ DOMAIN epochs = Host
    BY EpochsTyped, StartNat
<1>3. IsMessage(m) /\ m.iter \in Nat /\ m.iter >= 1 /\ m.iter <= IterLimit
    BY GrantingWeighed, LengthsAre DEF IsMessage, Lengths
<1>4. clock = Start(e) + 2 * m.iter + 1
    BY DEF Room
<1>5. CASE m \in packets /\ m.type \in {"grant", "accept"} /\ m.epoch = e /\ m.src = s
  <2>1. clock = Start(e) + 2 * m.iter - 1 \/ clock = Start(e) + 2 * m.iter
    BY <1>5 DEF PacketsOnTime
  <2>2. QED
    BY <1>2, <1>3, <1>4, <2>1
<1>6. ASSUME NEW r \in Host, e \in DOMAIN epochs[r], m \in epochs[r][e].grants_q PROVE FALSE
  <2> DEFINE E == epochs[r][e]
  <2>1. m.iter = E.iter /\ Timed(e, E)
    BY <1>6 DEF Queued, Clocked
  <2> HIDE DEF E
  <2>2. clock <= Start(e) + 2 * E.iter
    BY <1>3, <2>1 DEF Timed
  <2>3. QED
    BY <1>2, <1>3, <1>4, <2>1, <2>2
<1>7. QED
    BY <1>5, <1>6, GrantingIs

\* The room of a sender after a receiver's round.
LEMMA ReceiverTurnGranting ==
    ASSUME MatchTyped, Clocked, EpochsInOrder, Keyed, NaturalPrompts,
           NEW h \in Host, NEW e \in DOMAIN epochs[h], NEW given, NEW F, NEW Q,
           ReceiverTurn(h, e, given, F, Q), NEW s \in Host, NEW i
    PROVE  /\ LinkSum(Granting(i, s)') <= LinkSum(Granting(i, s)) /\ PromptSum(Granting(i, s)') <= PromptSum(Granting(i, s))
           /\ \A m \in Granting(i, s)' : \E o \in Granting(i, s) : m.iter = o.iter
           /\ \A n \in AcceptPkts(given) : n.prompt >= 0
           /\ LinkSum(Granting(i, s)') \in Nat /\ PromptSum(Granting(i, s)') \in Nat
           /\ LinkSum(Granting(i, s)) \in Nat /\ PromptSum(Granting(i, s)) \in Nat
<1> DEFINE A == AcceptPkts(given)
           G == Range(given)
           E == epochs[h][e]
           D == IF F.iter <= IterLimit THEN DOMAIN epochs[h] ELSE DOMAIN epochs[h] \ {e - 1}
           X == Granting(i, s)
           W == {q \in E.grants_q : q.src = s /\ e = i}
           N == X \ W
           Y == {n \in A : n.src = s /\ e = i}
<1>1. /\ DOMAIN epochs = Host /\ e \in Nat /\ IsEpoch(E) /\ E.iter <= IterLimit /\ F.iter = E.iter + 1 /\ E.iter \in Nat
    BY ReceiverTurnAt, EpochsTyped DEF ReceiverTurn
<1>2. Turned(h, e, F, D)
    BY <1>1, LengthsAre DEF ReceiverTurn, Lengths
<1>3. \A g \in Host : \A j \in DOMAIN epochs'[g] :
              \/ g = h /\ j = e /\ epochs'[g][j] = F
              \/ j \in DOMAIN epochs[g] /\ epochs'[g][j] = epochs[g][j] /\ (g = h => j # e)
    BY <1>1, <1>2, TurnedEach
<1> HIDE DEF D
<1>4. /\ packets' = packets \cup A \cup Q /\ F.grants_q = {} /\ \A q \in Q : q.type = "req"
      /\ Deals(given, E.grants_q, PimK - E.num_tx_link, PimK - E.num_tx_prompt_link)
    BY DEF ReceiverTurn, Asks
<1>5. /\ IsWeighed(A)
      /\ \A n \in A : /\ IsMessage(n) /\ n.type = "accept" /\ n.dst = h /\ n.epoch = e /\ n.iter = E.iter
                      /\ \E g \in E.grants_q : SameKey(n, g)
      /\ \A n \in A : n \notin packets
      /\ \A n \in A : \E g \in G : SameKey(n, g) /\ n.total = g.total /\ n.prompt = g.prompt
    BY AcceptsAre
<1>6. \A p, q \in A : SameKey(p, q) => p = q
  <2>1. A = Retyped(G, "accept")
    BY DEF AcceptPkts, Retyped
  <2> HIDE DEF A, E
  <2>2. QED
    BY <1>4, <2>1, AnswersAre DEF G
<1>7. (\A q \in E.grants_q : q.prompt >= 0 /\ IsMessage(q) /\ q.type = "grant" /\ q.dst = h /\ q.epoch = e /\ q.iter = E.iter)
    BY EpochsTyped DEF NaturalPrompts, Keyed, Queued, IsEpoch
<1>8. \A g \in G : g.prompt >= 0 /\ \E w \in E.grants_q : SameKey(g, w) /\ g.total <= w.total /\ g.prompt <= w.prompt
  <2>1. PimK - E.num_tx_prompt_link >= 0
    BY <1>1, LengthsAre DEF IsEpoch, Lengths
  <2>2. QED
    BY <1>4, <1>7, <2>1 DEF Deals, Answers
<1> HIDE DEF A, G
<1>9. \A n \in A : n.prompt >= 0 /\ \E w \in E.grants_q : SameKey(n, w) /\ n.total <= w.total /\ n.prompt <= w.prompt
  <2> TAKE n \in A
  <2>1. PICK g \in G : SameKey(n, g) /\ n.total = g.total /\ n.prompt = g.prompt
    BY <1>5
  <2>2. PICK w \in E.grants_q : SameKey(g, w) /\ g.total <= w.total /\ g.prompt <= w.prompt
    BY <1>8
  <2>3. SameKey(n, w)
    BY <2>1, <2>2 DEF SameKey
  <2>4. QED
    BY <1>8, <2>1, <2>2, <2>3
<1>10. W \subseteq X
  <2>1. SUFFICES ASSUME NEW q \in W PROVE q \in Granting(i, s)
    OBVIOUS
  <2>2. QED
    BY GrantingIs
<1>11. IsWeighed(X) /\ \A m \in X : IsMessage(m) /\ m.prompt >= 0
    BY GrantingWeighed, GrantingNatural
<1>12. Granting(i, s)' \subseteq N \cup Y
  <2>1. SUFFICES ASSUME NEW m \in Granting(i, s)' PROVE m \in N \cup Y
    OBVIOUS
  <2>2. \/ m \in packets' /\ m.type \in {"grant", "accept"} /\ m.epoch = i /\ m.src = s
        \/ \E r \in Host : i \in DOMAIN epochs'[r] /\ m \in epochs'[r][i].grants_q /\ m.src = s
    BY DEF Granting
  <2>3. CASE m \in packets' /\ m.type \in {"grant", "accept"} /\ m.epoch = i /\ m.src = s
    <3>1. m \in packets \/ m \in A
      BY <1>4, <2>3
    <3>2. CASE m \in packets
      <4>1. m \in X
        BY <2>3, <3>2, GrantingIs
      <4>2. m \notin W
        BY <3>2, OneOfAKeyIs DEF Keyed, Apart, Waits, SameKey
      <4>3. QED
        BY <4>1, <4>2
    <3>3. CASE m \in A
      BY <1>5, <2>3, <3>3
    <3>4. QED
      BY <3>1, <3>2, <3>3
  <2>4. ASSUME NEW r \in Host, i \in DOMAIN epochs'[r], m \in epochs'[r][i].grants_q, m.src = s PROVE m \in N
    <3>1. i \in DOMAIN epochs[r] /\ m \in epochs[r][i].grants_q /\ (r = h => i # e)
      BY <1>3, <1>4, <2>4
    <3>2. m \in X
      BY <2>4, <3>1, GrantingIs
    <3>3. m \notin W
      BY <1>7, <3>1 DEF Keyed, Queued
    <3>4. QED
      BY <3>2, <3>3
  <2>5. QED
    BY <2>2, <2>3, <2>4
<1>13. IsFiniteSet(Y) /\ IsFiniteSet(W) /\ IsFiniteSet(N)
    BY <1>5, <1>10, <1>11, FS_Subset DEF IsWeighed
<1>14. IsWeighed(Y) /\ IsWeighed(W) /\ IsWeighed(N) /\ N \cap Y = {} /\ N \cap W = {} /\ N \cup W = X
  <2>1. IsWeighed(Y) /\ IsWeighed(W) /\ IsWeighed(N)
    BY <1>5, <1>10, <1>11, <1>13 DEF IsWeighed
  <2>2. N \cap Y = {}
    <3>1. \A n \in A : n \notin X
      BY <1>5, GrantingIs DEF Keyed, Queued
    <3>2. QED
      BY <3>1
  <2>3. N \cap W = {} /\ N \cup W = X
    BY <1>10
  <2>4. QED
    BY <2>1, <2>2, <2>3
<1>15. LinkSum(Y) <= LinkSum(W) /\ PromptSum(Y) <= PromptSum(W)
  <2>1. \A w \in W : IsMessage(w) /\ w.prompt >= 0
    BY <1>7
  <2>2. \A p, q \in Y : SameKey(p, q) => p = q
    BY <1>6
  <2>3. \A g \in Y : g.total \in Nat /\ g.prompt \in Int /\ \E w \in W : SameKey(g, w) /\ g.total <= w.total /\ g.prompt <= w.prompt
    <3> TAKE g \in Y
    <3>1. PICK w \in E.grants_q : SameKey(g, w) /\ g.total <= w.total /\ g.prompt <= w.prompt
      BY <1>9
    <3>2. w \in W
      BY <3>1 DEF SameKey
    <3>3. QED
      BY <1>5, <3>1, <3>2 DEF IsMessage
  <2> HIDE DEF Y, W
  <2>4. QED
    BY <1>14, <2>1, <2>2, <2>3, AnswersFit
<1>16. \A m \in N \cup Y : m.prompt >= 0 /\ \E o \in X : m.iter = o.iter
  <2>1. \A m \in N : m.prompt >= 0
    BY <1>11
  <2>2. ASSUME NEW m \in Y PROVE m.prompt >= 0 /\ \E o \in X : m.iter = o.iter
    <3>1. PICK g \in E.grants_q : SameKey(m, g)
      BY <1>5
    <3>2. g \in W /\ m.iter = g.iter
      BY <3>1 DEF SameKey
    <3>3. QED
      BY <1>9, <1>10, <3>2
  <2>3. QED
    BY <2>1, <2>2
<1> HIDE DEF X, Y, W, N
<1>17. /\ LinkSum(N \cup Y) = LinkSum(N) + LinkSum(Y) /\ PromptSum(N \cup Y) = PromptSum(N) + PromptSum(Y)
       /\ IsWeighed(N \cup Y)
       /\ LinkSum(N \cup W) = LinkSum(N) + LinkSum(W) /\ PromptSum(N \cup W) = PromptSum(N) + PromptSum(W)
    BY <1>14, LinkSumUnion
<1>18. /\ LinkSum(N) \in Nat /\ PromptSum(N) \in Int /\ LinkSum(Y) \in Nat /\ PromptSum(Y) \in Int
       /\ LinkSum(W) \in Nat /\ PromptSum(W) \in Int
    BY <1>14, LinkSumNat
<1>19. LinkSum(N \cup Y) <= LinkSum(X) /\ PromptSum(N \cup Y) <= PromptSum(X)
  <2>1. LinkSum(X) = LinkSum(N) + LinkSum(W) /\ PromptSum(X) = PromptSum(N) + PromptSum(W)
    BY <1>14, <1>17
  <2>2. LinkSum(N) + LinkSum(Y) <= LinkSum(N) + LinkSum(W) /\ PromptSum(N) + PromptSum(Y) <= PromptSum(N) + PromptSum(W)
    BY <1>15, <1>18
  <2>3. QED
    BY <1>17, <2>1, <2>2
<1>20. PICK Z : Z = Granting(i, s)'
    OBVIOUS
<1>21. /\ LinkSum(Z) <= LinkSum(N \cup Y) /\ PromptSum(Z) <= PromptSum(N \cup Y)
       /\ LinkSum(Z) \in Nat /\ PromptSum(Z) \in Nat /\ LinkSum(N \cup Y) \in Nat /\ PromptSum(N \cup Y) \in Nat
    BY <1>12, <1>16, <1>17, <1>20, PartFits
<1>22. LinkSum(X) \in Nat /\ PromptSum(X) \in Nat
    BY <1>11, PartFits
<1>23. LinkSum(Z) <= LinkSum(X) /\ PromptSum(Z) <= PromptSum(X)
    BY <1>19, <1>21, <1>22
<1>24. QED
    BY <1>9, <1>12, <1>16, <1>20, <1>21, <1>22, <1>23 DEF X, A

\* A receiver's round leaves senders their room.
LEMMA ReceiverTurnRoom ==
    ASSUME MatchTyped, Clocked, EpochsInOrder, Keyed, NaturalPrompts, Room,
           NEW h \in Host, NEW e \in DOMAIN epochs[h], NEW given, NEW F, NEW Q,
           ReceiverTurn(h, e, given, F, Q)
    PROVE  Room'
<1> DEFINE E == epochs[h][e]
           D == IF F.iter <= IterLimit THEN DOMAIN epochs[h] ELSE DOMAIN epochs[h] \ {e - 1}
<1>1. /\ DOMAIN epochs = Host /\ e \in Nat /\ E.iter <= IterLimit /\ F.iter = E.iter + 1 /\ E.iter \in Nat
    BY ReceiverTurnAt
<1>2. Turned(h, e, F, D)
    BY <1>1, LengthsAre DEF ReceiverTurn, Lengths
<1>3. \A g \in Host : \A j \in DOMAIN epochs'[g] :
              \/ g = h /\ j = e /\ epochs'[g][j] = F
              \/ j \in DOMAIN epochs[g] /\ epochs'[g][j] = epochs[g][j] /\ (g = h => j # e)
    BY <1>1, <1>2, TurnedEach
<1> HIDE DEF D
<1>4. KeepsRx(F, E) /\ F.sender_at = E.sender_at
    BY DEF ReceiverTurn
<1>5. \A g \in Host : \A j \in DOMAIN epochs'[g] :
          /\ j \in DOMAIN epochs[g] /\ epochs'[g][j].sender_at = epochs[g][j].sender_at
          /\ epochs'[g][j].num_rx_link = epochs[g][j].num_rx_link /\ epochs'[g][j].num_rx_prompt_link = epochs[g][j].num_rx_prompt_link
    BY <1>3, <1>4 DEF KeepsRx
<1>6. ASSUME NEW s \in Host, NEW i \in DOMAIN epochs'[s]
      PROVE  /\ \A m \in Granting(i, s)' : epochs'[s][i].sender_at = Start(i) + 2 * m.iter + 1
             /\ epochs'[s][i].num_rx_link + LinkSum(Granting(i, s)') <= PimK
             /\ epochs'[s][i].num_rx_prompt_link + PromptSum(Granting(i, s)') <= PimK
  <2>1. /\ LinkSum(Granting(i, s)') <= LinkSum(Granting(i, s)) /\ PromptSum(Granting(i, s)') <= PromptSum(Granting(i, s))
        /\ \A m \in Granting(i, s)' : \E o \in Granting(i, s) : m.iter = o.iter
        /\ LinkSum(Granting(i, s)') \in Nat /\ PromptSum(Granting(i, s)') \in Nat
        /\ LinkSum(Granting(i, s)) \in Nat /\ PromptSum(Granting(i, s)) \in Nat
    BY ReceiverTurnGranting
  <2>2. i \in DOMAIN epochs[s]
    BY <1>5
  <2>3. epochs[s][i].num_rx_link \in Int /\ epochs[s][i].num_rx_prompt_link \in Int /\ PimK \in Nat
    BY <2>2, EpochsTyped, LengthsAre DEF IsEpoch, Lengths
  <2>4. /\ \A m \in Granting(i, s) : epochs[s][i].sender_at = Start(i) + 2 * m.iter + 1
        /\ epochs[s][i].num_rx_link + LinkSum(Granting(i, s)) <= PimK
        /\ epochs[s][i].num_rx_prompt_link + PromptSum(Granting(i, s)) <= PimK
    BY <2>2 DEF Room
  <2>5. \A m \in Granting(i, s)' : epochs'[s][i].sender_at = Start(i) + 2 * m.iter + 1
    BY <1>5, <2>1, <2>4
  <2>6. /\ epochs[s][i].num_rx_link + LinkSum(Granting(i, s)') <= PimK
        /\ epochs[s][i].num_rx_prompt_link + PromptSum(Granting(i, s)') <= PimK
    BY <2>1, <2>3, <2>4
  <2>7. QED
    BY <1>5, <2>5, <2>6
<1>7. QED
    BY <1>6 DEF Room, LinkSum, PromptSum

\* A receiver's round, with packets on time.
LEMMA ReceiverTurnOnTime ==
    ASSUME MatchTyped, Clocked, EpochsInOrder, EpochsInOrder', Keyed, Linked, OnTime,
           NEW h \in Host, NEW e \in DOMAIN epochs[h], NEW given, NEW F, NEW Q,
           ReceiverTurn(h, e, given, F, Q)
    PROVE  OnTime'
<1> DEFINE A == AcceptPkts(given)
           E == epochs[h][e]
           D == IF F.iter <= IterLimit THEN DOMAIN epochs[h] ELSE DOMAIN epochs[h] \ {e - 1}
<1>1. /\ DOMAIN epochs = Host /\ e \in Nat /\ E.iter <= IterLimit /\ F.iter = E.iter + 1 /\ E.iter \in Nat
      /\ clock = Start(e) + 2 * E.iter /\ Start(e) \in Nat
    BY ReceiverTurnAt
<1>2. Turned(h, e, F, D)
    BY <1>1, LengthsAre DEF ReceiverTurn, Lengths
<1>3. \A g \in Host : \A j \in DOMAIN epochs'[g] :
              \/ g = h /\ j = e /\ epochs'[g][j] = F
              \/ j \in DOMAIN epochs[g] /\ epochs'[g][j] = epochs[g][j] /\ (g = h => j # e)
    BY <1>1, <1>2, TurnedEach
<1>3a. epochs'[h][e] = F /\ e \in DOMAIN epochs'[h]
    BY <1>2 DEF Turned
<1> HIDE DEF D
<1>4. /\ packets' = packets \cup A \cup Q /\ F.req_q = {} /\ F.grants_q = {} /\ UNCHANGED clock
      /\ (F.iter <= IterLimit /\ links' = links) \/ (F.iter > IterLimit /\ links' = [links EXCEPT ![h] = F.from])
      /\ F.num_tx_prompt_link = E.num_tx_prompt_link + PromptSum(Range(given))
    BY DEF ReceiverTurn
<1>5. /\ \A n \in A : n.type = "accept" /\ n.epoch = e /\ n.iter = E.iter
      /\ \A n \in A : n.prompt >= 0
  <2>1. \A n \in A : n.type = "accept" /\ n.epoch = e /\ n.iter = E.iter
    BY AcceptsAre
  <2>2. NaturalPrompts
    BY DEF OnTime
  <2>3. /\ LinkSum(Granting(e, h)') <= LinkSum(Granting(e, h)) /\ PromptSum(Granting(e, h)') <= PromptSum(Granting(e, h))
        /\ \A n \in AcceptPkts(given) : n.prompt >= 0
    <3> HIDE DEF A, E
    <3>1. QED
      BY <2>2, ReceiverTurnGranting
  <2>4. QED
    BY <2>1, <2>3
<1>6. \A q \in Q : q.type = "req" /\ q.epoch = e /\ q.iter = F.iter /\ q.prompt >= 0
    BY DEF ReceiverTurn, Asks
<1> HIDE DEF A
<1>7. PacketsOnTime'
  <2>1. SUFFICES ASSUME NEW m \in packets'
                 PROVE  \/ m.type = "req"    /\ clock = Start(m.epoch) + 2 * (m.iter - 1)
                        \/ m.type = "grant"  /\ clock = Start(m.epoch) + 2 * m.iter - 1
                        \/ m.type = "accept" /\ clock = Start(m.epoch) + 2 * m.iter
    BY <1>4 DEF PacketsOnTime
  <2>2. CASE m \in packets
    BY <2>2 DEF OnTime, PacketsOnTime
  <2>3. CASE m \in A
    BY <1>1, <1>5, <2>3
  <2>4. CASE m \in Q
    <3>1. clock = Start(e) + 2 * (F.iter - 1)
      BY <1>1
    <3>2. QED
      BY <1>6, <2>4, <3>1
  <2>5. QED
    BY <1>4, <2>2, <2>3, <2>4
<1>8. RequestsOnTime'
    BY <1>3, <1>4 DEF OnTime, RequestsOnTime
<1>9. NaturalPrompts'
    BY <1>3, <1>4, <1>5, <1>6 DEF OnTime, NaturalPrompts
<1>10. Room'
    BY ReceiverTurnRoom DEF OnTime
<1>11. PromptsKnown'
    BY ReceiverTurnLinks DEF OnTime
<1>12. Pacing'
  <2>1. ASSUME NEW g \in Host, NEW i \in DOMAIN epochs'[g], Done(g, i)'
        PROVE  links'[g] = epochs'[g][i].from
    <3>1. CASE g = h /\ F.iter > IterLimit
      <4>1. Done(h, e)'
        BY <1>3a, <3>1 DEF Done
      <4>2. i = e
        BY <1>1, <1>3, <1>3a, <2>1, <3>1, <4>1, EpochsTyped DEF EpochsInOrder
      <4>3. F.iter \in Nat /\ links'[h] = F.from
        BY <1>1, <1>4, <3>1, LengthsAre DEF Lengths, MatchTyped
      <4>4. QED
        BY <1>3a, <3>1, <4>2, <4>3
    <3>2. CASE ~(g = h /\ F.iter > IterLimit)
      <4>1. links'[g] = links[g]
        BY <1>4, <3>2 DEF MatchTyped
      <4>2. i \in DOMAIN epochs[g] /\ epochs'[g][i] = epochs[g][i]
        BY <1>3, <2>1, <3>2 DEF Done
      <4>3. QED
        BY <2>1, <4>1, <4>2 DEF OnTime, Pacing, Done
    <3>3. QED
      BY <3>1, <3>2
  <2>2. ASSUME NEW g \in Host, NEW i \in DOMAIN epochs'[g], ~Done(g, i)'
        PROVE  SumFunction(links'[g]) + SumFunction(epochs'[g][i].from_prompt) <= epochs'[g][i].num_tx_prompt_link
    <3>1. ~(g = h /\ F.iter > IterLimit)
      <4>1. SUFFICES ASSUME g = h, F.iter > IterLimit PROVE FALSE
        OBVIOUS
      <4>2. Done(h, e)' /\ i # e
        BY <1>3a, <2>2, <4>1 DEF Done
      <4>3. i \in DOMAIN epochs[h] /\ i \in Nat
        BY <1>1, <1>3, <4>1, <4>2, EpochsTyped
      <4>4. e <= i
        BY <1>3a, <4>1, <4>2 DEF EpochsInOrder
      <4>5. Done(h, e)
        BY <1>1, <4>2, <4>3, <4>4 DEF EpochsInOrder
      <4>6. QED
        BY <1>1, <4>5, LengthsAre DEF Done, Lengths
    <3>2. links'[g] = links[g] /\ SumFunction(links[g]) \in Int
      <4>1. links'[g] = links[g]
        BY <1>4, <3>1 DEF MatchTyped
      <4>2. links[g] \in [Host -> Nat]
        BY DEF MatchTyped
      <4>3. QED
        BY <4>1, <4>2, HostSumNat
    <3>3. CASE i \in DOMAIN epochs[g] /\ epochs'[g][i] = epochs[g][i]
      BY <2>2, <3>2, <3>3 DEF OnTime, Pacing, Done
    <3>4. CASE g = h /\ i = e /\ epochs'[g][i] = F
      <4>1. SumFunction(links[h]) + SumFunction(E.from_prompt) <= E.num_tx_prompt_link
        BY <1>1, LengthsAre DEF OnTime, Pacing, Done, Lengths
      <4>2. /\ SumFunction(F.from_prompt) = SumFunction(E.from_prompt) + PromptSum(Range(given))
            /\ PromptSum(Range(given)) \in Int /\ SumFunction(E.from_prompt) \in Int
        BY ReceiverTurnSums
      <4>3. E.num_tx_prompt_link \in Int
        BY EpochsTyped DEF IsEpoch
      <4> HIDE DEF E
      <4>4. SumFunction(links[h]) + SumFunction(F.from_prompt) <= F.num_tx_prompt_link
        BY <1>4, <3>2, <3>4, <4>1, <4>2, <4>3
      <4>5. QED
        BY <3>2, <3>4, <4>4
    <3>5. QED
      BY <1>3, <3>3, <3>4
  <2>3. QED
    BY <2>1, <2>2 DEF Pacing
<1>13. QED
    BY <1>7, <1>8, <1>9, <1>10, <1>11, <1>12 DEF OnTime

\* Steps that leave a receiver's links alone.
LEMMA PacingKept ==
    ASSUME Pacing, UNCHANGED links,
           \A g \in Host : \A i \in DOMAIN epochs'[g] :
              i \in DOMAIN epochs[g] /\ KeepsTx(epochs'[g][i], epochs[g][i]) /\ SameIter(epochs'[g][i], epochs[g][i])
    PROVE  Pacing'
<1>1. ASSUME NEW g \in Host, NEW i \in DOMAIN epochs'[g]
      PROVE  /\ i \in DOMAIN epochs[g] /\ (Done(g, i)' <=> Done(g, i)) /\ links'[g] = links[g]
             /\ epochs'[g][i].from = epochs[g][i].from /\ epochs'[g][i].from_prompt = epochs[g][i].from_prompt
             /\ epochs'[g][i].num_tx_prompt_link = epochs[g][i].num_tx_prompt_link
    BY DEF Done, KeepsTx, SameIter
<1>2. QED
    BY <1>1 DEF Pacing

\* A sender's round.
LEMMA SenderTurnGranting ==
    ASSUME MatchTyped, Clocked, Keyed, OnTime,
           NEW h \in Host, NEW e \in DOMAIN epochs[h], NEW given, NEW F, SenderIter(h, e, given, F)
    PROVE  LET E == epochs[h][e]
               X == Retyped(Range(given), "grant")
           IN  /\ packets' = packets \cup X
               /\ \A n \in X : /\ IsMessage(n) /\ n.type = "grant" /\ n.src = h /\ n.epoch = e /\ n.iter = E.iter /\ n.prompt >= 0
                               /\ E.iter <= IterLimit
               /\ E.num_rx_link + LinkSum(X) <= PimK /\ E.num_rx_prompt_link + PromptSum(X) <= PimK
               /\ \A i, s : ~(i = e /\ s = h) => Granting(i, s)' = Granting(i, s)
               /\ Granting(e, h)' = X
<1> DEFINE E == epochs[h][e]
           X == Retyped(Range(given), "grant")
<1>0. /\ DOMAIN epochs = Host /\ e \in Nat /\ IsEpoch(E) /\ PimK \in Nat /\ IterLimit \in Nat
    BY EpochsTyped, LengthsAre DEF Lengths
<1>1. /\ E.sender_at = clock /\ E.num_rx_link \in Nat /\ E.num_rx_link <= PimK /\ E.num_rx_prompt_link \in Int /\ E.iter \in Nat
  <2>1. SenderDue(h, e)
    BY DEF SenderIter
  <2>2. QED
    BY <1>0, <2>1 DEF SenderDue, IsEpoch
<1>2. Granting(e, h) = {}
    BY <1>1, GrantingNone DEF OnTime, Keyed
<1>3. E.num_rx_prompt_link <= PimK
  <2>1. E.num_rx_prompt_link + PromptSum({}) <= PimK
    BY <1>2 DEF OnTime, Room
  <2>2. QED
    BY <1>1, <2>1, LinkSumEmpty
<1>4. \A q \in E.req_q : q.type = "req" /\ q.src = h /\ q.epoch = e /\ q.iter = E.iter /\ q.prompt >= 0
    BY DEF Keyed, Queued, OnTime, RequestsOnTime, NaturalPrompts
<1> DEFINE IsGranted == /\ packets' = packets \cup X
                        /\ \A n \in X : /\ IsMessage(n) /\ n.type = "grant" /\ n.src = h /\ n.epoch = e /\ n.iter = E.iter /\ n.prompt >= 0
                                        /\ E.iter <= IterLimit
                        /\ E.num_rx_link + LinkSum(X) <= PimK /\ E.num_rx_prompt_link + PromptSum(X) <= PimK
<1>5. ASSUME E.iter > IterLimit PROVE IsGranted
  <2>1. packets' = packets /\ given = << >>
    BY <1>0, <1>1, <1>5 DEF SenderIter
  <2>2. X = {}
    BY <2>1 DEF Retyped, Range
  <2>3. LinkSum(X) = 0 /\ PromptSum(X) = 0
    BY <2>2, LinkSumEmpty
  <2> HIDE DEF E
  <2>4. QED
    BY <1>1, <1>3, <2>1, <2>2, <2>3
<1>6. ASSUME E.iter <= IterLimit PROVE IsGranted
  <2>1. /\ Deals(given, E.req_q, PimK - E.num_rx_link, PimK - E.num_rx_prompt_link)
        /\ packets' = packets \cup X
    BY <1>0, <1>1, <1>6 DEF SenderIter
  <2>2. \A n \in X : IsMessage(n) /\ n.type = "grant" /\ \E g \in E.req_q : SameKey(n, g)
    <3>1. X = Retyped(Range(given), "grant")
      OBVIOUS
    <3> HIDE DEF X, E
    <3>2. QED
      BY <2>1, <3>1, AnswersAre
  <2>3. /\ IsWeighed(Range(given)) /\ (\A g \in Range(given) : IsMessage(g)) /\ (\A g, k \in Range(given) : SameKey(g, k) => g = k)
        /\ LinkSum(Range(given)) <= PimK - E.num_rx_link
    BY <2>1 DEF Deals, Answers
  <2>4. /\ PromptSum(Range(given)) <= PimK - E.num_rx_prompt_link
        /\ \A g \in Range(given) : g.prompt >= 0
    <3>1. PimK - E.num_rx_prompt_link >= 0
      BY <1>0, <1>1, <1>3
    <3>2. QED
      BY <1>4, <2>1, <3>1 DEF Deals
  <2>5. /\ LinkSum(X) = LinkSum(Range(given)) /\ PromptSum(X) = PromptSum(Range(given))
        /\ \A n \in X : \E g \in Range(given) : n.prompt = g.prompt
    BY <2>3, RetypedAre
  <2>6. LinkSum(Range(given)) \in Nat /\ PromptSum(Range(given)) \in Int
    BY <2>3, LinkSumNat
  <2>7. \A n \in X : n.src = h /\ n.epoch = e /\ n.iter = E.iter /\ n.prompt >= 0
    BY <1>4, <2>2, <2>4, <2>5 DEF SameKey
  <2> HIDE DEF X, E
  <2>8. E.num_rx_link + LinkSum(X) <= PimK /\ E.num_rx_prompt_link + PromptSum(X) <= PimK
    BY <1>0, <1>1, <2>3, <2>4, <2>5, <2>6
  <2>9. QED
    BY <1>6, <2>1, <2>2, <2>7, <2>8
<1>8. IsGranted
    BY <1>0, <1>1, <1>5, <1>6
<1>9. /\ DOMAIN epochs' = Host
      /\ \A g \in Host : DOMAIN epochs'[g] = DOMAIN epochs[g] /\ \A i \in DOMAIN epochs[g] : epochs'[g][i].grants_q = epochs[g][i].grants_q
  <2>1. Turned(h, e, F, DOMAIN epochs[h]) /\ F.grants_q = E.grants_q
    BY DEF SenderIter
  <2>2. QED
    BY <1>0, <2>1 DEF Turned
<1> HIDE DEF X, E
<1>10. \A i, s, m : m \in Granting(i, s)' <=> m \in Granting(i, s) \/ (m \in X /\ i = e /\ s = h)
    BY <1>0, <1>8, <1>9 DEF Granting
<1>11. (\A i, s : ~(i = e /\ s = h) => Granting(i, s)' = Granting(i, s)) /\ Granting(e, h)' = X
    BY <1>2, <1>10
<1>12. QED
    BY <1>8, <1>11 DEF X, E

\* A sender's round, with packets on time: it grants within its room.
LEMMA SenderTurnOnTime ==
    ASSUME MatchTyped, Clocked, Keyed, Linked, OnTime,
           NEW h \in Host, NEW e \in DOMAIN epochs[h], NEW given, NEW F, SenderIter(h, e, given, F)
    PROVE  OnTime'
<1> DEFINE E == epochs[h][e]
           X == Retyped(Range(given), "grant")
<1>1. /\ DOMAIN epochs = Host /\ e \in Nat /\ Start(e) \in Nat /\ clock \in Nat /\ E.iter \in Nat
      /\ E.iter <= IterLimit => clock = Start(e) + 2 * E.iter - 1
    BY SenderTurnAt
<1>2. /\ packets' = packets \cup X
      /\ \A n \in X : /\ n.type = "grant" /\ n.epoch = e /\ n.iter = E.iter /\ n.prompt >= 0 /\ E.iter <= IterLimit
      /\ E.num_rx_link + LinkSum(X) <= PimK /\ E.num_rx_prompt_link + PromptSum(X) <= PimK
      /\ \A i, s : ~(i = e /\ s = h) => Granting(i, s)' = Granting(i, s)
      /\ Granting(e, h)' = X
    BY SenderTurnGranting
<1>3. /\ Turned(h, e, F, DOMAIN epochs[h]) /\ KeepsTx(F, E) /\ KeepsRx(F, E) /\ F.iter = E.iter
      /\ F.grants_q = E.grants_q /\ F.req_q \subseteq E.req_q
      /\ E.iter <= IterLimit => F.sender_at = clock + 2
      /\ UNCHANGED << clock, links >>
    BY <1>1, LengthsAre DEF SenderIter, Lengths
<1>4. \A g \in Host : \A j \in DOMAIN epochs'[g] :
              \/ g = h /\ j = e /\ epochs'[g][j] = F
              \/ j \in DOMAIN epochs[g] /\ epochs'[g][j] = epochs[g][j] /\ ~(g = h /\ j = e)
    BY <1>1, <1>3, TurnedEach
<1> HIDE DEF X
<1>5. PacketsOnTime'
    BY <1>1, <1>2, <1>3 DEF OnTime, PacketsOnTime
<1>6. RequestsOnTime'
    BY <1>3, <1>4 DEF OnTime, RequestsOnTime
<1>7. NaturalPrompts'
    BY <1>2, <1>3, <1>4 DEF OnTime, NaturalPrompts
<1>8. Room'
  <2>1. ASSUME NEW s \in Host, NEW i \in DOMAIN epochs'[s]
        PROVE  /\ \A m \in Granting(i, s)' : epochs'[s][i].sender_at = Start(i) + 2 * m.iter + 1
               /\ epochs'[s][i].num_rx_link + LinkSum(Granting(i, s)') <= PimK
               /\ epochs'[s][i].num_rx_prompt_link + PromptSum(Granting(i, s)') <= PimK
    <3>1. CASE s = h /\ i = e
      <4>1. epochs'[s][i] = F
        BY <1>4, <2>1, <3>1
      <4>2. F.num_rx_link = E.num_rx_link /\ F.num_rx_prompt_link = E.num_rx_prompt_link
        BY <1>3 DEF KeepsRx
      <4>3. ASSUME NEW m \in X PROVE F.sender_at = Start(e) + 2 * m.iter + 1
        BY <1>1, <1>2, <1>3
      <4>4. QED
        BY <1>2, <3>1, <4>1, <4>2, <4>3
    <3>2. CASE ~(s = h /\ i = e)
      <4>1. i \in DOMAIN epochs[s] /\ epochs'[s][i] = epochs[s][i] /\ Granting(i, s)' = Granting(i, s)
        BY <1>2, <1>4, <2>1, <3>2
      <4>2. QED
        BY <4>1 DEF OnTime, Room
    <3>3. QED
      BY <3>1, <3>2
  <2>2. QED
    BY <2>1 DEF Room, LinkSum, PromptSum
<1>9. PromptsKnown'
    BY SenderTurnLinks DEF OnTime
<1>10. Pacing'
  <2>1. \A g \in Host : \A i \in DOMAIN epochs'[g] :
              i \in DOMAIN epochs[g] /\ KeepsTx(epochs'[g][i], epochs[g][i]) /\ SameIter(epochs'[g][i], epochs[g][i])
    BY <1>3, <1>4 DEF KeepsTx, SameIter
  <2>2. QED
    BY <1>3, <2>1, PacingKept DEF OnTime
<1>11. QED
    BY <1>5, <1>6, <1>7, <1>8, <1>9, <1>10 DEF OnTime

\* No links add up to 0.
LEMMA NoLinksSum == SumFunction(NoLinks) = 0 /\ NoLinks \in [Host -> Nat]
<1>1. \A g \in Host : NoLinks[g] = 0
    BY DEF NoLinks
<1>2. DOMAIN NoLinks = Host /\ IsFiniteSet(Host) /\ NoLinks \in [Host -> Nat]
    BY MatchAssumption DEF NoLinks
<1>3. SumFunctionOnSet(NoLinks, Host) = 0
    BY <1>1, <1>2, SumZero
<1>4. QED
    BY <1>2, <1>3, HostSum

\* A new epoch: nothing is granted in it yet, and what the last one has agreed on is
\* not free for its prompt links.
LEMMA NewTurnOnTime ==
    ASSUME MatchTyped, Clocked, EpochsInOrder, Keyed, Linked, OnTime, NEW h \in Host, NEW F, NewTurn(h, F)
    PROVE  OnTime'
<1>0. PICK e : e = new_epoch[h]
    OBVIOUS
<1>1. /\ DOMAIN epochs = Host /\ e \in Nat /\ PimK \in Nat /\ IterLimit \in Nat
      /\ \A g \in Host : new_epoch[g] \in Nat /\ DOMAIN epochs[g] \subseteq Nat
    BY <1>0, EpochsTyped, LengthsAre DEF Lengths
<1>2. /\ Turned(h, e, F, DOMAIN epochs[h] \cup {e})
      /\ F.iter = 0 /\ F.from_prompt = NoLinks /\ F.num_rx_link = 0
      /\ F.req_q = {} /\ F.grants_q = {}
      /\ e = 0 => F.num_tx_prompt_link = 0 /\ F.num_rx_prompt_link = 0
      /\ e > 0 => F.num_tx_prompt_link = epochs[h][e - 1].num_tx_link /\ F.num_rx_prompt_link = epochs[h][e - 1].num_rx_link
      /\ UNCHANGED << clock, packets, links >>
    BY <1>0, <1>1 DEF NewTurn
<1>3. \A g \in Host : \A i \in DOMAIN epochs'[g] :
              \/ g = h /\ i = e /\ epochs'[g][i] = F
              \/ i \in DOMAIN epochs[g] /\ epochs'[g][i] = epochs[g][i] /\ (g = h => i # e)
    BY <1>1, <1>2, TurnedEach
<1>4. \A g \in Host : DOMAIN epochs[g] \subseteq DOMAIN epochs'[g] /\ \A i \in DOMAIN epochs[g] : epochs'[g][i] = epochs[g][i]
  <2>1. e \notin DOMAIN epochs[h]
    BY <1>0, <1>1 DEF EpochsInOrder
  <2>2. QED
    BY <1>2, <2>1 DEF Turned
<1>5. DOMAIN epochs' = Host
    BY <1>2 DEF Turned
<1>6. \A i, s : Granting(i, s)' = Granting(i, s)
  <2>1. ASSUME NEW i, NEW s, NEW m PROVE m \in Granting(i, s)' <=> m \in Granting(i, s)
    <3>1. m \in Granting(i, s)' <=>
              \/ m \in packets' /\ m.type \in {"grant", "accept"} /\ m.epoch = i /\ m.src = s
              \/ \E r \in Host : i \in DOMAIN epochs'[r] /\ m \in epochs'[r][i].grants_q /\ m.src = s
      BY DEF Granting
    <3>2. \A r \in Host : i \in DOMAIN epochs'[r] /\ m \in epochs'[r][i].grants_q <=> i \in DOMAIN epochs[r] /\ m \in epochs[r][i].grants_q
      BY <1>2, <1>3, <1>4
    <3>3. QED
      BY <1>2, <3>1, <3>2, GrantingIs
  <2>2. QED
    BY <2>1
<1>7. Granting(e, h) = {}
  <2>1. ASSUME NEW m, m.type # "req", m.epoch = e, m.src = h, HasAsked(m) PROVE FALSE
    BY <1>0, <1>1, <2>1 DEF HasAsked
  <2>2. SUFFICES ASSUME NEW m \in Granting(e, h) PROVE FALSE
    OBVIOUS
  <2>3. CASE m \in packets /\ m.type \in {"grant", "accept"} /\ m.epoch = e /\ m.src = h
    BY <2>1, <2>3 DEF Keyed, AllAsked
  <2>4. ASSUME NEW r \in Host, e \in DOMAIN epochs[r], m \in epochs[r][e].grants_q, m.src = h PROVE FALSE
    <3>1. m.type = "grant" /\ m.epoch = e /\ HasAsked(m)
      BY <2>4 DEF Keyed, Queued, AllAsked
    <3>2. QED
      BY <2>1, <2>4, <3>1
  <2>5. QED
    BY <2>3, <2>4, GrantingIs
<1>8. PacketsOnTime'
    BY <1>2 DEF OnTime, PacketsOnTime
<1>9. RequestsOnTime'
    BY <1>2, <1>3 DEF OnTime, RequestsOnTime
<1>10. NaturalPrompts'
    BY <1>2, <1>3 DEF OnTime, NaturalPrompts
<1>11. /\ new_epoch[h] > 0 => e - 1 \in DOMAIN epochs[h] /\ Done(h, e - 1) /\ IsEpoch(epochs[h][e - 1])
       /\ new_epoch[h] = 0 => DOMAIN epochs[h] = {}
  <2>1. /\ new_epoch[h] = 0 => DOMAIN epochs[h] = {}
        /\ new_epoch[h] > 0 => DOMAIN epochs[h] = {new_epoch[h] - 1} /\ Done(h, new_epoch[h] - 1)
    BY NewTurnAt
  <2>2. QED
    BY <1>0, <2>1, EpochsTyped
<1>12. Room'
  <2>1. ASSUME NEW s \in Host, NEW i \in DOMAIN epochs'[s]
        PROVE  /\ \A m \in Granting(i, s)' : epochs'[s][i].sender_at = Start(i) + 2 * m.iter + 1
               /\ epochs'[s][i].num_rx_link + LinkSum(Granting(i, s)') <= PimK
               /\ epochs'[s][i].num_rx_prompt_link + PromptSum(Granting(i, s)') <= PimK
    <3>1. CASE s = h /\ i = e /\ epochs'[s][i] = F
      <4>1. Granting(i, s)' = {}
        BY <1>6, <1>7, <3>1
      <4>2. F.num_rx_prompt_link \in Int /\ F.num_rx_prompt_link <= PimK
        BY <1>0, <1>1, <1>2, <1>11 DEF IsEpoch
      <4>3. QED
        BY <1>1, <1>2, <3>1, <4>1, <4>2, LinkSumEmpty
    <3>2. CASE i \in DOMAIN epochs[s] /\ epochs'[s][i] = epochs[s][i]
      BY <1>6, <3>2 DEF OnTime, Room
    <3>3. QED
      BY <1>3, <3>1, <3>2
  <2>2. QED
    BY <2>1 DEF Room, LinkSum, PromptSum
<1>13. PromptsKnown'
    BY NewTurnLinks DEF OnTime
<1>14. Pacing'
  <2>1. ASSUME NEW g \in Host, NEW i \in DOMAIN epochs'[g]
        PROVE  IF epochs'[g][i].iter > IterLimit THEN links'[g] = epochs'[g][i].from
               ELSE SumFunction(links'[g]) + SumFunction(epochs'[g][i].from_prompt) <= epochs'[g][i].num_tx_prompt_link
    <3>1. CASE g = h /\ i = e /\ epochs'[g][i] = F
      <4>1. links'[h] = links[h] /\ links[h] \in [Host -> Nat]
        BY <1>2 DEF MatchTyped
      <4>2. SumFunction(links[h]) \in Nat
        BY <4>1, HostSumNat
      <4>3. SumFunction(links[h]) <= F.num_tx_prompt_link
        <5>1. CASE e = 0
          <6>1. links[h] = NoLinks
            BY <1>0, <1>11, <5>1 DEF Linked, Counted
          <6>2. QED
            BY <1>2, <5>1, <6>1, NoLinksSum
        <5>2. CASE e > 0
          BY <1>0, <1>2, <1>11, <5>2 DEF Linked, Counted
        <5>3. QED
          BY <1>1, <5>1, <5>2
      <4>4. QED
        BY <1>1, <1>2, <3>1, <4>1, <4>2, <4>3, NoLinksSum
    <3>2. CASE i \in DOMAIN epochs[g] /\ epochs'[g][i] = epochs[g][i]
      BY <1>2, <3>2 DEF OnTime, Pacing, Done
    <3>3. QED
      BY <1>3, <3>1, <3>2
  <2>2. QED
    BY <2>1 DEF Pacing, Done
<1>15. QED
    BY <1>8, <1>9, <1>10, <1>12, <1>13, <1>14 DEF OnTime

\* No more is granted than before.
LEMMA RoomKept ==
    ASSUME MatchTyped, NaturalPrompts, Room,
           \A s \in Host : \A i \in DOMAIN epochs'[s] :
              /\ i \in DOMAIN epochs[s] /\ KeepsRx(epochs'[s][i], epochs[s][i]) /\ KeepsTimes(epochs'[s][i], epochs[s][i])
              /\ Granting(i, s)' \subseteq Granting(i, s)
    PROVE  Room'
<1>1. PimK \in Nat
    BY LengthsAre DEF Lengths
<1>2. ASSUME NEW s \in Host, NEW i \in DOMAIN epochs'[s]
      PROVE  /\ \A m \in Granting(i, s)' : epochs'[s][i].sender_at = Start(i) + 2 * m.iter + 1
             /\ epochs'[s][i].num_rx_link + LinkSum(Granting(i, s)') <= PimK
             /\ epochs'[s][i].num_rx_prompt_link + PromptSum(Granting(i, s)') <= PimK
  <2>1. /\ i \in DOMAIN epochs[s] /\ Granting(i, s)' \subseteq Granting(i, s)
        /\ epochs'[s][i].sender_at = epochs[s][i].sender_at
        /\ epochs'[s][i].num_rx_link = epochs[s][i].num_rx_link /\ epochs'[s][i].num_rx_prompt_link = epochs[s][i].num_rx_prompt_link
    BY <1>2 DEF KeepsRx, KeepsTimes
  <2>2. IsWeighed(Granting(i, s)) /\ \A m \in Granting(i, s) : m.prompt >= 0
    BY GrantingWeighed, GrantingNatural
  <2>3. PICK Z : Z = Granting(i, s)'
    OBVIOUS
  <2>4. /\ LinkSum(Z) <= LinkSum(Granting(i, s)) /\ PromptSum(Z) <= PromptSum(Granting(i, s))
        /\ LinkSum(Z) \in Nat /\ PromptSum(Z) \in Nat
        /\ LinkSum(Granting(i, s)) \in Nat /\ PromptSum(Granting(i, s)) \in Nat
    <3>1. Z \in SUBSET Granting(i, s)
      BY <2>1, <2>3
    <3>2. QED
      BY <2>2, <3>1, PartFits
  <2>5. epochs[s][i].num_rx_link \in Int /\ epochs[s][i].num_rx_prompt_link \in Int
    BY <2>1, EpochsTyped DEF IsEpoch
  <2>6. /\ \A m \in Granting(i, s) : epochs[s][i].sender_at = Start(i) + 2 * m.iter + 1
        /\ epochs[s][i].num_rx_link + LinkSum(Granting(i, s)) <= PimK
        /\ epochs[s][i].num_rx_prompt_link + PromptSum(Granting(i, s)) <= PimK
    BY <2>1 DEF Room
  <2>7. epochs[s][i].num_rx_link + LinkSum(Z) <= PimK /\ epochs[s][i].num_rx_prompt_link + PromptSum(Z) <= PimK
    BY <1>1, <2>4, <2>5, <2>6
  <2>8. QED
    BY <2>1, <2>3, <2>6, <2>7
<1>3. QED
    BY <1>2 DEF Room, LinkSum, PromptSum

\* Steps that change neither epochs nor links.
LEMMA FrameOnTime ==
    ASSUME MatchTyped, Linked, OnTime, UNCHANGED << epochs, links, clock >>,
           \A g \in Host : new_epoch[g] <= new_epoch'[g] /\ new_epoch'[g] \in Nat,
           \/ packets' = packets
           \/ \E m \in packets : Drop(m)
    PROVE  OnTime'
<1>1. packets' \subseteq packets
    BY DEF Drop
<1>2. PacketsOnTime' /\ RequestsOnTime' /\ NaturalPrompts'
    BY <1>1 DEF OnTime, PacketsOnTime, RequestsOnTime, NaturalPrompts
<1>3. Room'
  <2>1. ASSUME NEW s \in Host, NEW i \in DOMAIN epochs'[s]
        PROVE  /\ i \in DOMAIN epochs[s] /\ KeepsRx(epochs'[s][i], epochs[s][i]) /\ KeepsTimes(epochs'[s][i], epochs[s][i])
               /\ Granting(i, s)' \subseteq Granting(i, s)
    BY <1>1 DEF KeepsRx, KeepsTimes, Granting
  <2>2. QED
    BY <2>1, RoomKept DEF OnTime
<1>4. PromptsKnown'
    BY FrameLinks DEF OnTime
<1>5. Pacing'
    BY PacingKept DEF OnTime, KeepsTx, SameIter
<1>6. QED
    BY <1>2, <1>3, <1>4, <1>5 DEF OnTime

\* A request is asked for at the start of a round, and comes before the next.
LEMMA RoundOfRequest ==
    ASSUME NEW start \in Nat, NEW time \in Nat, NEW i \in Nat, NEW k \in Nat,
           time <= start + 2 * i, time # start + 2 * i, time = start + 2 * (k - 1), k >= i
    PROVE  k = i
  OBVIOUS

\* Requests and grants that come in.
LEMMA QueueTurnOnTime ==
    ASSUME MatchTyped, Clocked, Keyed, Linked, OnTime, NEW m, NEW F, MessageTurn(m, F, {}), RequestTurn(m, F) \/ GrantTurn(m, F)
    PROVE  OnTime'
<1> DEFINE h == Recipient(m)
           e == m.epoch
           E == epochs[h][e]
<1>1. /\ h \in Host /\ e \in DOMAIN epochs[h] /\ DOMAIN epochs = Host /\ IsMessage(m) /\ m \in packets
      /\ packets' = packets \ {m} /\ links' = links
      /\ epochs'[h][e] = F
      /\ \A g \in Host : DOMAIN epochs'[g] = DOMAIN epochs[g]
      /\ \A g \in Host : \A i \in DOMAIN epochs[g] : ~(g = h /\ i = e) => epochs'[g][i] = epochs[g][i]
    BY MessageTurnIs
<1>2. ~AnyDue /\ clock' = clock /\ KeepsTimes(F, E) /\ KeepsTx(F, E) /\ KeepsRx(F, E)
    BY DEF MessageTurn, RequestTurn, GrantTurn
<1>3. /\ F.req_q \subseteq E.req_q \cup {m} /\ F.grants_q \subseteq E.grants_q \cup {m}
      /\ m \in F.grants_q => m.type = "grant" \/ m \in E.grants_q
      /\ m \in F.req_q => (m.type = "req" /\ m.iter >= E.iter) \/ m \in E.req_q
    BY DEF RequestTurn, GrantTurn
<1>4. IsEpoch(E) /\ Timed(e, E) /\ e \in Nat /\ Start(e) \in Nat /\ clock \in Nat /\ E.iter \in Nat
      /\ m.iter \in Nat /\ m.iter <= IterLimit /\ IterLimit \in Nat
    BY <1>1, EpochsTyped, StartNat, LengthsAre DEF Clocked, IsMessage, Lengths
<1>5. E.receiver_at # clock
    BY <1>1, <1>2 DEF AnyDue, AnyReceiverDue, ReceiverDue
<1> HIDE DEF h, e, E
<1>6. m \in F.req_q => m.iter = E.iter
  <2>1. CASE m \in E.req_q
    BY <1>1, <2>1 DEF OnTime, RequestsOnTime, E
  <2>2. CASE m.type = "req" /\ m.iter >= E.iter
    <3>1. E.iter <= IterLimit
      BY <1>4, <2>2
    <3>2. clock <= Start(e) + 2 * E.iter /\ clock # Start(e) + 2 * E.iter
      BY <1>4, <1>5, <3>1 DEF Timed
    <3>3. clock = Start(e) + 2 * (m.iter - 1)
      BY <1>1, <2>2 DEF OnTime, PacketsOnTime, e
    <3>4. Start(e) \in Nat /\ clock \in Nat /\ E.iter \in Nat /\ m.iter \in Nat /\ m.iter >= E.iter
      BY <1>4, <2>2
    <3>5. QED
      BY <3>2, <3>3, <3>4, RoundOfRequest
  <2>3. QED
    BY <1>3, <2>1, <2>2
<1>7. \A g \in Host : \A i \in DOMAIN epochs'[g] :
            /\ i \in DOMAIN epochs[g]
            /\ (g = h /\ i = e /\ epochs'[g][i] = F /\ epochs[g][i] = E) \/ epochs'[g][i] = epochs[g][i]
    BY <1>1 DEF E
<1>8. PacketsOnTime'
    BY <1>1, <1>2 DEF OnTime, PacketsOnTime
<1>9. RequestsOnTime'
  <2>1. F.iter = E.iter
    BY <1>2 DEF KeepsTimes
  <2>2. QED
    BY <1>3, <1>6, <1>7, <2>1 DEF OnTime, RequestsOnTime
<1>10. NaturalPrompts'
    BY <1>1, <1>3, <1>7 DEF OnTime, NaturalPrompts
<1>11. Room'
  <2>1. ASSUME NEW s \in Host, NEW i \in DOMAIN epochs'[s]
        PROVE  i \in DOMAIN epochs[s] /\ KeepsRx(epochs'[s][i], epochs[s][i]) /\ KeepsTimes(epochs'[s][i], epochs[s][i])
    BY <1>2, <1>7 DEF KeepsRx, KeepsTimes
  <2>2. ASSUME NEW s, NEW i, NEW k \in Granting(i, s)' PROVE k \in Granting(i, s)
    <3>1. \/ k \in packets' /\ k.type \in {"grant", "accept"} /\ k.epoch = i /\ k.src = s
          \/ \E r \in Host : i \in DOMAIN epochs'[r] /\ k \in epochs'[r][i].grants_q /\ k.src = s
      BY <2>2 DEF Granting
    <3>2. CASE k \in packets' /\ k.type \in {"grant", "accept"} /\ k.epoch = i /\ k.src = s
      BY <1>1, <3>2, GrantingIs
    <3>3. ASSUME NEW r \in Host, i \in DOMAIN epochs'[r], k \in epochs'[r][i].grants_q, k.src = s PROVE k \in Granting(i, s)
      <4>1. CASE i \in DOMAIN epochs[r] /\ k \in epochs[r][i].grants_q
        BY <3>3, <4>1, GrantingIs
      <4>2. CASE k = m /\ i = e /\ m.type = "grant"
        BY <1>1, <3>3, <4>2, GrantingIs DEF e
      <4>3. QED
        BY <1>3, <1>7, <3>3, <4>1, <4>2
    <3>4. QED
      BY <3>1, <3>2, <3>3
  <2>3. QED
    BY <2>1, <2>2, RoomKept DEF OnTime
<1>12. PromptsKnown'
    BY QueueTurnLinks DEF OnTime
<1>13. Pacing'
  <2>1. \A g \in Host : \A i \in DOMAIN epochs'[g] :
              i \in DOMAIN epochs[g] /\ KeepsTx(epochs'[g][i], epochs[g][i]) /\ SameIter(epochs'[g][i], epochs[g][i])
    BY <1>2, <1>7 DEF KeepsTx, SameIter, KeepsTimes
  <2>2. QED
    BY <1>1, <2>1, PacingKept DEF OnTime
<1>14. QED
    BY <1>8, <1>9, <1>10, <1>11, <1>12, <1>13 DEF OnTime

\* An accept on time takes the room that has been granted for it.
LEMMA AcceptTurnFits ==
    ASSUME MatchTyped, Keyed, OnTime, NEW m, NEW F, NEW B, NEW kept, NEW beyond,
           MessageTurn(m, F, B), AcceptTurn(m, F, B, kept, beyond)
    PROVE  LET E == epochs[m.src][m.epoch]
               G == Granting(m.epoch, m.src)
           IN  /\ beyond = 0 /\ kept = m.total /\ B = {} /\ m.prompt >= 0
               /\ E.num_rx_link + LinkSum(G) <= PimK /\ E.num_rx_prompt_link + PromptSum(G) <= PimK
               /\ LinkSum(G) = LinkSum(G \ {m}) + m.total /\ PromptSum(G) = PromptSum(G \ {m}) + m.prompt
               /\ LinkSum(G \ {m}) \in Nat /\ PromptSum(G \ {m}) \in Nat /\ IsWeighed(G \ {m})
<1> DEFINE E == epochs[m.src][m.epoch]
           G == Granting(m.epoch, m.src)
<1>1. /\ m.type = "accept" /\ m.src \in Host /\ m.epoch \in DOMAIN epochs[m.src] /\ IsMessage(m) /\ m \in packets
      /\ Recipient(m) = m.src /\ IsEpoch(E) /\ PimK \in Nat
  <2>1. m.type = "accept"
    BY DEF AcceptTurn
  <2>2. Recipient(m) = m.src
    BY <2>1 DEF Recipient
  <2>3. QED
    BY <2>1, <2>2, MessageTurnIs, LengthsAre DEF Lengths
<1>2. m \in G
  BY <1>1, GrantingIs
<1>3. m.prompt >= 0 /\ m.total \in Nat /\ m.prompt \in Int
  BY <1>1 DEF OnTime, NaturalPrompts, IsMessage
<1>4. IsWeighed(G) /\ \A k \in G : k.prompt >= 0
  BY GrantingWeighed, GrantingNatural DEF OnTime
<1>5. E.num_rx_link + LinkSum(G) <= PimK /\ E.num_rx_prompt_link + PromptSum(G) <= PimK
  BY <1>1 DEF OnTime, Room
<1>6. E.num_rx_link \in Nat
  BY <1>1 DEF IsEpoch
<1> HIDE DEF G
<1>7. LinkSum(G) = LinkSum(G \ {m}) + m.total /\ PromptSum(G) = PromptSum(G \ {m}) + m.prompt /\ IsWeighed(G \ {m})
  BY <1>2, <1>4, LinkSumLess
<1>8. LinkSum(G \ {m}) \in Nat /\ PromptSum(G \ {m}) \in Nat
  <2>1. G \ {m} \in SUBSET G
    OBVIOUS
  <2>2. QED
    BY <1>4, <2>1, PartFits
<1>9. E.num_rx_link + m.total <= PimK
  <2> HIDE DEF E
  <2>1. QED
    BY <1>1, <1>3, <1>5, <1>6, <1>7, <1>8
<1>10. beyond = 0 /\ B = {} /\ kept + beyond = m.total /\ kept \in Nat
  <2>1. ~(E.num_rx_link + m.total > PimK)
    BY <1>1, <1>3, <1>6, <1>9
  <2>2. QED
    BY <1>1, <2>1 DEF AcceptTurn
<1>11. kept = m.total
  BY <1>3, <1>10
<1>12. QED
  BY <1>3, <1>5, <1>7, <1>8, <1>10, <1>11 DEF G

\* An accept, with packets on time.
LEMMA AcceptTurnOnTime ==
    ASSUME MatchTyped, Clocked, Keyed, Linked, OnTime, NEW m, NEW F, NEW B, NEW kept, NEW beyond,
           MessageTurn(m, F, B), AcceptTurn(m, F, B, kept, beyond)
    PROVE  OnTime'
<1> DEFINE h == m.src
           e == m.epoch
           E == epochs[h][e]
           G == Granting(e, h)
<1>1. /\ beyond = 0 /\ kept = m.total /\ B = {} /\ m.prompt >= 0
      /\ E.num_rx_link + LinkSum(G) <= PimK /\ E.num_rx_prompt_link + PromptSum(G) <= PimK
      /\ LinkSum(G) = LinkSum(G \ {m}) + m.total /\ PromptSum(G) = PromptSum(G \ {m}) + m.prompt
      /\ LinkSum(G \ {m}) \in Nat /\ PromptSum(G \ {m}) \in Nat /\ IsWeighed(G \ {m})
  BY AcceptTurnFits
<1>2. m.type = "accept" /\ Recipient(m) = h
  BY DEF AcceptTurn, Recipient
<1>3. /\ h \in Host /\ e \in DOMAIN epochs[h] /\ DOMAIN epochs = Host /\ IsMessage(m) /\ m \in packets
      /\ IsEpoch(E) /\ packets' = packets \ {m} /\ links' = links
      /\ epochs'[h][e] = F
      /\ \A g \in Host : DOMAIN epochs'[g] = DOMAIN epochs[g]
      /\ \A g \in Host : \A i \in DOMAIN epochs[g] : ~(g = h /\ i = e) => epochs'[g][i] = epochs[g][i]
  BY <1>1, <1>2, MessageTurnIs
<1>4. /\ clock' = clock /\ KeepsTimes(F, E) /\ KeepsTx(F, E) /\ KeepsQueues(F, E)
      /\ F.num_rx_link = E.num_rx_link + kept
      /\ kept = 0 => F.num_rx_prompt_link = E.num_rx_prompt_link
      /\ kept > 0 => F.num_rx_prompt_link = E.num_rx_prompt_link + m.prompt
  BY <1>1, <1>2 DEF MessageTurn, AcceptTurn
<1>5. \A g \in Host : \A i \in DOMAIN epochs'[g] :
            /\ i \in DOMAIN epochs[g]
            /\ (g = h /\ i = e /\ epochs'[g][i] = F /\ epochs[g][i] = E) \/ (~(g = h /\ i = e) /\ epochs'[g][i] = epochs[g][i])
  BY <1>3
<1>6. /\ E.num_rx_link \in Int /\ E.num_rx_prompt_link \in Int /\ PimK \in Nat /\ m.total \in Nat /\ m.prompt \in Int
  BY <1>3, LengthsAre DEF IsEpoch, IsMessage, Lengths
<1> HIDE DEF E, G, e, h
<1>7. PacketsOnTime'
  BY <1>3, <1>4 DEF OnTime, PacketsOnTime
<1>8. RequestsOnTime' /\ NaturalPrompts'
  BY <1>3, <1>4, <1>5 DEF OnTime, RequestsOnTime, NaturalPrompts, KeepsQueues, KeepsTimes
<1>9. \A s, i : Granting(i, s)' \subseteq Granting(i, s) \ {m}
  <2>1. ASSUME NEW s, NEW i, NEW k \in Granting(i, s)' PROVE k \in Granting(i, s) \ {m}
    <3>1. \/ k \in packets' /\ k.type \in {"grant", "accept"} /\ k.epoch = i /\ k.src = s
          \/ \E r \in Host : i \in DOMAIN epochs'[r] /\ k \in epochs'[r][i].grants_q /\ k.src = s
      BY <2>1 DEF Granting
    <3>2. CASE k \in packets' /\ k.type \in {"grant", "accept"} /\ k.epoch = i /\ k.src = s
      BY <1>3, <3>2, GrantingIs
    <3>3. ASSUME NEW r \in Host, i \in DOMAIN epochs'[r], k \in epochs'[r][i].grants_q, k.src = s PROVE k \in Granting(i, s) \ {m}
      <4>1. i \in DOMAIN epochs[r] /\ k \in epochs[r][i].grants_q
        BY <1>4, <1>5, <3>3 DEF KeepsQueues
      <4>2. k.type = "grant"
        BY <4>1 DEF Keyed, Queued
      <4>3. QED
        BY <1>2, <3>3, <4>1, <4>2, GrantingIs
    <3>4. QED
      BY <3>1, <3>2, <3>3
  <2>2. QED
    BY <2>1
<1>10. Room'
  <2>1. ASSUME NEW s \in Host, NEW i \in DOMAIN epochs'[s]
        PROVE  /\ \A k \in Granting(i, s)' : epochs'[s][i].sender_at = Start(i) + 2 * k.iter + 1
               /\ epochs'[s][i].num_rx_link + LinkSum(Granting(i, s)') <= PimK
               /\ epochs'[s][i].num_rx_prompt_link + PromptSum(Granting(i, s)') <= PimK
    <3>1. PICK Z : Z = Granting(i, s)'
      OBVIOUS
    <3>2. i \in DOMAIN epochs[s] /\ epochs'[s][i].sender_at = epochs[s][i].sender_at
      BY <1>4, <1>5 DEF KeepsTimes
    <3>3. \A k \in Granting(i, s)' : epochs'[s][i].sender_at = Start(i) + 2 * k.iter + 1
      BY <1>9, <3>2 DEF OnTime, Room
    <3>4. IsWeighed(Granting(i, s)) /\ \A k \in Granting(i, s) : k.prompt >= 0
      BY GrantingWeighed, GrantingNatural DEF OnTime
    <3>5. CASE s = h /\ i = e
      <4>1. Z \in SUBSET (G \ {m})
        BY <1>9, <3>1, <3>5 DEF G
      <4>2. \A k \in G \ {m} : k.prompt >= 0
        BY <3>4, <3>5 DEF G
      <4>3. LinkSum(Z) <= LinkSum(G \ {m}) /\ PromptSum(Z) <= PromptSum(G \ {m}) /\ LinkSum(Z) \in Nat /\ PromptSum(Z) \in Nat
        <5>1. PICK N : N = G \ {m}
          OBVIOUS
        <5>2. QED
          BY <1>1, <4>1, <4>2, <5>1, PartFits
      <4>4. F.num_rx_link + LinkSum(Z) <= PimK
        BY <1>1, <1>4, <1>6, <4>3
      <4>5. F.num_rx_prompt_link + PromptSum(Z) <= PimK
        BY <1>1, <1>4, <1>6, <4>3
      <4>6. QED
        BY <1>5, <3>1, <3>3, <3>5, <4>4, <4>5
    <3>6. CASE ~(s = h /\ i = e)
      <4>1. epochs'[s][i] = epochs[s][i]
        BY <1>5, <3>6
      <4>2. /\ LinkSum(Z) <= LinkSum(Granting(i, s)) /\ PromptSum(Z) <= PromptSum(Granting(i, s))
            /\ LinkSum(Z) \in Nat /\ PromptSum(Z) \in Nat
            /\ LinkSum(Granting(i, s)) \in Nat /\ PromptSum(Granting(i, s)) \in Nat
        <5>1. Z \in SUBSET Granting(i, s)
          BY <1>9, <3>1
        <5>2. QED
          BY <3>4, <5>1, PartFits
      <4>3. /\ epochs[s][i].num_rx_link + LinkSum(Granting(i, s)) <= PimK
            /\ epochs[s][i].num_rx_prompt_link + PromptSum(Granting(i, s)) <= PimK
        BY <3>2 DEF OnTime, Room
      <4>4. epochs[s][i].num_rx_link \in Int /\ epochs[s][i].num_rx_prompt_link \in Int
        BY <3>2, EpochsTyped DEF IsEpoch
      <4>5. epochs[s][i].num_rx_link + LinkSum(Z) <= PimK /\ epochs[s][i].num_rx_prompt_link + PromptSum(Z) <= PimK
        BY <1>6, <4>2, <4>3, <4>4
      <4>6. QED
        BY <3>1, <3>3, <4>1, <4>5
    <3>7. QED
      BY <3>5, <3>6
  <2>2. QED
    BY <2>1 DEF Room, LinkSum, PromptSum
<1>11. PromptsKnown'
  BY <1>1, AcceptTurnLinks DEF OnTime
<1>12. Pacing'
  <2>1. \A g \in Host : \A i \in DOMAIN epochs'[g] :
              i \in DOMAIN epochs[g] /\ KeepsTx(epochs'[g][i], epochs[g][i]) /\ SameIter(epochs'[g][i], epochs[g][i])
    BY <1>4, <1>5 DEF KeepsTx, SameIter, KeepsTimes
  <2>2. QED
    BY <1>3, <2>1, PacingKept DEF OnTime
<1>13. QED
  BY <1>7, <1>8, <1>10, <1>11, <1>12 DEF OnTime

\* Nothing is released.
LEMMA NoRelease ==
    ASSUME OnTime, NEW m \in packets
    PROVE  m.type # "grantsr"
  BY DEF OnTime, PacketsOnTime

-----------------------------------------------------------------------------
(* The invariant *)

\* The part of the invariant about times.
InTime == Clocked /\ EpochsInOrder /\ InStep

\* The parts of the invariant.
LEMMA MatchInvIs == MatchInv <=> MatchTyped /\ InTime /\ Keyed /\ Linked /\ (late = 0 => OnTime)
  BY DEF MatchInv, InTime, Keyed, Linked

\* And after a step.
LEMMA MatchInvNow ==
    ASSUME MatchTyped', InTime', Keyed', Linked', late' = 0 => OnTime'
    PROVE  MatchInv'
  BY DEF MatchInv, InTime, Keyed, Linked

\* The invariant holds at first.
LEMMA InitMatches ==
    ASSUME MatchInit
    PROVE  MatchInv
<1>1. /\ clock = 0 /\ late = 0 /\ packets = {} /\ to_come = MaxArrivals /\ size \in [Pairs -> 0 .. MaxSize]
      /\ DOMAIN epochs = Host /\ \A h \in Host : DOMAIN epochs[h] = {} /\ new_epoch[h] = 0 /\ links[h] = NoLinks
      /\ new_epoch = [h \in Host |-> 0] /\ links = [h \in Host |-> NoLinks]
    BY DEF MatchInit
<1>2. MaxSize \in Nat /\ MaxArrivals \in Nat /\ MaxEpoch \in Nat
    BY MatchBoundsAssumption
<1>3. MatchTyped
  <2>1. size \in [Pairs -> Nat] /\ new_epoch \in [Host -> 0 .. MaxEpoch + 1] /\ links \in [Host -> [Host -> Nat]]
    BY <1>1, <1>2, NoLinksSum
  <2>2. IsFiniteSet(packets)
    BY <1>1, FS_EmptySet
  <2>3. QED
    BY <1>1, <1>2, <2>1, <2>2 DEF MatchTyped
<1>4. InTime
  <2>1. Start(0) \in Nat
    BY StartNat
  <2>2. QED
    BY <1>1, <2>1 DEF InTime, Clocked, EpochsInOrder, InStep
<1>5. Keyed
    BY <1>1 DEF Keyed, Queued, AllAsked, OneOfAKey
<1>6. Linked
    BY <1>1 DEF Linked, NotBegun, LinksKnown, Counted
<1>7. OnTime
    BY <1>1 DEF OnTime, PacketsOnTime, RequestsOnTime, NaturalPrompts, Room, PromptsKnown, Pacing
<1>8. QED
    BY <1>3, <1>4, <1>5, <1>6, <1>7, MatchInvIs

\* ReceiverRound keeps it.
LEMMA ReceiverRoundMatches ==
    ASSUME MatchInv, NEW h \in Host, NEW e \in DOMAIN epochs[h], ReceiverRound(h, e)
    PROVE  MatchInv'
<1>1. MatchTyped /\ Clocked /\ EpochsInOrder /\ InStep /\ Keyed /\ Linked /\ (late = 0 => OnTime) /\ OneOfAKey
    BY MatchInvIs DEF InTime, Keyed
<1>2. epochs[h][e].iter <= IterLimit
  <2>1. epochs[h][e].receiver_at = clock /\ clock \in Nat /\ epochs[h][e].iter \in Nat /\ IterLimit \in Nat
    BY <1>1, EpochsTyped, LengthsAre DEF ReceiverRound, ReceiverDue, Lengths
  <2>2. Timed(e, epochs[h][e])
    BY <1>1 DEF Clocked
  <2>3. QED
    BY <2>1, <2>2 DEF Timed, Never
<1>3. PICK given, F, Q : ReceiverTurn(h, e, given, F, Q)
    BY <1>1, <1>2, ReceiverRoundIs
<1>4. MatchTyped'
    BY <1>1, <1>3, ReceiverTurnTyped
<1>5. Clocked' /\ EpochsInOrder' /\ InStep'
    BY <1>1, <1>3, ReceiverTurnTimes
<1>6. Keyed'
    BY <1>1, <1>3, ReceiverTurnKeys
<1>7. Linked'
    BY <1>1, <1>3, <1>5, ReceiverTurnLinks
<1>8. late' = 0 => OnTime'
  <2>1. late' = late
    BY <1>3 DEF ReceiverTurn
  <2>2. QED
    BY <1>1, <1>3, <1>5, <2>1, ReceiverTurnOnTime
<1>9. QED
    BY <1>4, <1>5, <1>6, <1>7, <1>8, MatchInvNow DEF InTime

\* SenderRound keeps it.
LEMMA SenderRoundMatches ==
    ASSUME MatchInv, NEW h \in Host, NEW e \in DOMAIN epochs[h], SenderRound(h, e)
    PROVE  MatchInv'
<1>1. MatchTyped /\ Clocked /\ EpochsInOrder /\ InStep /\ Keyed /\ Linked /\ (late = 0 => OnTime) /\ OneOfAKey
    BY MatchInvIs DEF InTime, Keyed
<1>2. PICK given, F : SenderIter(h, e, given, F)
    BY <1>1, SenderRoundIs
<1>3. MatchTyped'
    BY <1>1, <1>2, SenderTurnTyped
<1>4. Clocked' /\ EpochsInOrder' /\ InStep'
    BY <1>1, <1>2, SenderTurnTimes
<1>5. Keyed'
    BY <1>1, <1>2, SenderTurnKeys
<1>6. Linked'
    BY <1>1, <1>2, SenderTurnLinks
<1>7. late' = 0 => OnTime'
  <2>1. late' = late
    BY <1>2 DEF SenderIter
  <2>2. QED
    BY <1>1, <1>2, <2>1, SenderTurnOnTime
<1>8. QED
    BY <1>3, <1>4, <1>5, <1>6, <1>7, MatchInvNow DEF InTime

\* StartNewEpoch keeps it.
LEMMA StartNewEpochMatches ==
    ASSUME MatchInv, NEW h \in Host, StartNewEpoch(h)
    PROVE  MatchInv'
<1>1. MatchTyped /\ Clocked /\ EpochsInOrder /\ InStep /\ Keyed /\ Linked /\ (late = 0 => OnTime)
    BY MatchInvIs DEF InTime
<1>2. CASE AllFinished
  <2>1. new_epoch' = [new_epoch EXCEPT ![h] = MaxEpoch + 1] /\ UNCHANGED << clock, epochs, links, size, to_come, packets, late >>
    BY <1>2 DEF StartNewEpoch
  <2>2. \A g \in Host : new_epoch[g] <= new_epoch'[g] /\ new_epoch'[g] \in Nat
    BY <1>1, <2>1, LengthsAre DEF MatchTyped, Lengths
  <2>3. MatchTyped' /\ Clocked' /\ EpochsInOrder' /\ InStep'
    BY <1>1, <1>2, <2>1, StopTyped, StopTimes
  <2>4. Keyed' /\ Linked'
    BY <1>1, <2>1, <2>2, StopKeys, FrameLinks
  <2>5. late' = 0 => OnTime'
    BY <1>1, <2>1, <2>2, FrameOnTime
  <2>6. QED
    BY <2>3, <2>4, <2>5, MatchInvNow DEF InTime
<1>3. CASE ~AllFinished
  <2>1. PICK F : NewTurn(h, F)
    BY <1>1, <1>3, StartNewEpochIs
  <2>2. MatchTyped'
    BY <1>1, <2>1, NewTurnTyped
  <2>3. Clocked' /\ EpochsInOrder' /\ InStep'
    BY <1>1, <2>1, NewTurnTimes
  <2>4. Keyed'
    BY <1>1, <2>1, NewTurnKeys
  <2>5. Linked'
    BY <1>1, <2>1, NewTurnLinks
  <2>6. late' = 0 => OnTime'
    <3>1. late' = late
      BY <2>1 DEF NewTurn
    <3>2. QED
      BY <1>1, <2>1, <3>1, NewTurnOnTime
  <2>7. QED
    BY <2>2, <2>3, <2>4, <2>5, <2>6, MatchInvNow DEF InTime
<1>4. QED
    BY <1>2, <1>3

\* What is in a queue is not under way.
LEMMA NotQueued ==
    ASSUME Keyed, NEW g \in Host, NEW i \in DOMAIN epochs[g], NEW m \in packets
    PROVE  m \notin epochs[g][i].req_q /\ m \notin epochs[g][i].grants_q
  BY OneOfAKeyIs DEF Keyed, Apart, Waits, SameKey

\* The parts of the invariant that do not depend on the kind of a packet.
LEMMA MessageTurnMatches ==
    ASSUME MatchTyped, Clocked, EpochsInOrder, InStep, Keyed,
           NEW m, NEW F, NEW B, IsFiniteSet(B), \A n \in B : IsMessage(n), MessageTurn(m, F, B), Passes(m, F, B)
    PROVE  MatchTyped' /\ Clocked' /\ EpochsInOrder' /\ InStep' /\ Keyed' /\ late' = late
<1>1. MatchTyped'
    BY MessageTurnTyped
<1>2. Keyed'
    BY MessageTurnKeys
<1>3. /\ DOMAIN epochs = Host /\ Recipient(m) \in Host /\ m.epoch \in DOMAIN epochs[Recipient(m)]
      /\ Turned(Recipient(m), m.epoch, F, DOMAIN epochs[Recipient(m)])
      /\ KeepsTimes(F, epochs[Recipient(m)][m.epoch]) /\ UNCHANGED << clock, new_epoch, size, to_come, late >>
    BY EpochsTyped DEF MessageTurn
<1>4. TimesKept
    BY <1>3, TurnedTimes
<1>5. QED
    BY <1>1, <1>2, <1>3, <1>4, TimesFrame

\* ReceiveReq keeps the invariant.
LEMMA ReceiveReqMatches ==
    ASSUME MatchInv, ~AnyDue, NEW m \in packets, ReceiveReq(m), UNCHANGED << clock, new_epoch, links, size, to_come, late >>
    PROVE  MatchInv'
<1>1. MatchTyped /\ Clocked /\ EpochsInOrder /\ InStep /\ Keyed /\ Linked /\ (late = 0 => OnTime)
    BY MatchInvIs DEF InTime
<1>2. PICK F : MessageTurn(m, F, {}) /\ RequestTurn(m, F)
    BY <1>1, ReceiveReqIs
<1>3. Recipient(m) \in Host /\ m.epoch \in DOMAIN epochs[Recipient(m)]
    BY <1>2 DEF MessageTurn
<1>4. m \notin epochs[Recipient(m)][m.epoch].grants_q
    BY <1>1, <1>3, NotQueued
<1>5. Passes(m, F, {})
    BY <1>2, <1>4 DEF Passes, RequestTurn
<1>6. MatchTyped' /\ Clocked' /\ EpochsInOrder' /\ InStep' /\ Keyed' /\ late' = late
  <2>1. IsFiniteSet({})
    BY FS_EmptySet
  <2>2. QED
    BY <1>1, <1>2, <1>5, <2>1, MessageTurnMatches
<1>7. Linked' /\ (late' = 0 => OnTime')
    BY <1>1, <1>2, <1>6, QueueTurnLinks, QueueTurnOnTime
<1>8. QED
    BY <1>6, <1>7, MatchInvNow DEF InTime

\* ReceiveGrants keeps it.
LEMMA ReceiveGrantsMatches ==
    ASSUME MatchInv, ~AnyDue, NEW m \in packets, ReceiveGrants(m), UNCHANGED << clock, new_epoch, links, size, to_come, late >>
    PROVE  MatchInv'
<1>1. MatchTyped /\ Clocked /\ EpochsInOrder /\ InStep /\ Keyed /\ Linked /\ (late = 0 => OnTime)
    BY MatchInvIs DEF InTime
<1>2. PICK F : MessageTurn(m, F, {}) /\ GrantTurn(m, F)
    BY <1>1, ReceiveGrantsIs
<1>3. Recipient(m) \in Host /\ m.epoch \in DOMAIN epochs[Recipient(m)]
    BY <1>2 DEF MessageTurn
<1>4. m \notin epochs[Recipient(m)][m.epoch].req_q /\ m \notin epochs[Recipient(m)][m.epoch].grants_q
    BY <1>1, <1>3, NotQueued
<1>5. Passes(m, F, {})
    BY <1>2, <1>4 DEF Passes, GrantTurn
<1>6. MatchTyped' /\ Clocked' /\ EpochsInOrder' /\ InStep' /\ Keyed' /\ late' = late
  <2>1. IsFiniteSet({})
    BY FS_EmptySet
  <2>2. QED
    BY <1>1, <1>2, <1>5, <2>1, MessageTurnMatches
<1>7. Linked' /\ (late' = 0 => OnTime')
    BY <1>1, <1>2, <1>6, QueueTurnLinks, QueueTurnOnTime
<1>8. QED
    BY <1>6, <1>7, MatchInvNow DEF InTime

\* ReceiveAccept keeps it.
LEMMA ReceiveAcceptMatches ==
    ASSUME MatchInv, ~AnyDue, NEW m \in packets, ReceiveAccept(m), UNCHANGED << clock, new_epoch, links, size, to_come, late >>
    PROVE  MatchInv'
<1>1. MatchTyped /\ Clocked /\ EpochsInOrder /\ InStep /\ Keyed /\ Linked /\ (late = 0 => OnTime)
    BY MatchInvIs DEF InTime
<1>2. PICK F, kept, beyond : MessageTurn(m, F, Excess(m)) /\ AcceptTurn(m, F, Excess(m), kept, beyond)
    BY <1>1, ReceiveAcceptIs
<1>3. PICK B : B = Excess(m)
    OBVIOUS
<1>4. MessageTurn(m, F, B) /\ AcceptTurn(m, F, B, kept, beyond)
    BY <1>2, <1>3
<1>5. Recipient(m) \in Host /\ m.epoch \in DOMAIN epochs[Recipient(m)]
    BY <1>4 DEF MessageTurn
<1>6. m \notin epochs[Recipient(m)][m.epoch].req_q /\ m \notin epochs[Recipient(m)][m.epoch].grants_q
    BY <1>1, <1>5, NotQueued
<1>7. /\ m.type = "accept" /\ F.req_q = epochs[Recipient(m)][m.epoch].req_q /\ F.grants_q = epochs[Recipient(m)][m.epoch].grants_q
      /\ B = {} \/ \E n : B = {n} /\ IsMessage(n) /\ n.type = "grantsr" /\ SameKey(n, m)
    BY <1>4 DEF AcceptTurn, KeepsQueues
<1>8. IsFiniteSet(B) /\ \A n \in B : IsMessage(n)
    BY <1>7, FS_EmptySet, FS_Singleton
<1>9. Passes(m, F, B)
    BY <1>6, <1>7 DEF Passes
<1>10. MatchTyped' /\ Clocked' /\ EpochsInOrder' /\ InStep' /\ Keyed' /\ late' = late
    BY <1>1, <1>4, <1>8, <1>9, MessageTurnMatches
<1>11. Linked' /\ (late' = 0 => OnTime')
    BY <1>1, <1>4, <1>10, AcceptTurnLinks, AcceptTurnOnTime
<1>12. QED
    BY <1>10, <1>11, MatchInvNow DEF InTime

\* ReceiveGrantsR keeps it.
LEMMA ReceiveGrantsRMatches ==
    ASSUME MatchInv, ~AnyDue, NEW m \in packets, ReceiveGrantsR(m), UNCHANGED << clock, new_epoch, links, size, to_come, late >>
    PROVE  MatchInv'
<1>1. MatchTyped /\ Clocked /\ EpochsInOrder /\ InStep /\ Keyed /\ Linked /\ (late = 0 => OnTime)
    BY MatchInvIs DEF InTime
<1>2. PICK F : MessageTurn(m, F, {}) /\ ReleaseTurn(m, F)
    BY <1>1, ReceiveGrantsRIs
<1>3. Recipient(m) \in Host /\ m.epoch \in DOMAIN epochs[Recipient(m)]
    BY <1>2 DEF MessageTurn
<1>4. m \notin epochs[Recipient(m)][m.epoch].req_q /\ m \notin epochs[Recipient(m)][m.epoch].grants_q
    BY <1>1, <1>3, NotQueued
<1>5. Passes(m, F, {})
    BY <1>2, <1>4 DEF Passes, ReleaseTurn, KeepsQueues
<1>6. MatchTyped' /\ Clocked' /\ EpochsInOrder' /\ InStep' /\ Keyed' /\ late' = late
  <2>1. IsFiniteSet({})
    BY FS_EmptySet
  <2>2. QED
    BY <1>1, <1>2, <1>5, <2>1, MessageTurnMatches
<1>7. Linked'
    BY <1>1, <1>2, ReleaseTurnLinks
<1>8. ~(late' = 0)
    BY <1>1, <1>2, <1>6, NoRelease DEF ReleaseTurn
<1>9. QED
    BY <1>6, <1>7, <1>8, MatchInvNow DEF InTime

\* Drop keeps it.
LEMMA DropMatches ==
    ASSUME MatchInv, NEW m \in packets, Drop(m), UNCHANGED << clock, new_epoch, links, size, to_come, late >>
    PROVE  MatchInv'
<1>1. MatchTyped /\ Clocked /\ EpochsInOrder /\ InStep /\ Keyed /\ Linked /\ (late = 0 => OnTime)
    BY MatchInvIs DEF InTime
<1>2. packets' = packets \ {m} /\ UNCHANGED epochs
    BY DEF Drop
<1>3. MatchTyped' /\ Keyed'
    BY <1>1, <1>2, DropTyped, DropKeys
<1>4. TimesKept
    BY <1>1, <1>2, SizesTimes
<1>5. \A g \in Host : new_epoch[g] <= new_epoch'[g] /\ new_epoch'[g] \in Nat
    BY <1>1, EpochsTyped
<1>6. Clocked' /\ EpochsInOrder' /\ InStep'
    BY <1>1, <1>4, TimesFrame
<1>7. Linked' /\ (late' = 0 => OnTime')
    BY <1>1, <1>2, <1>5, FrameLinks, FrameOnTime
<1>8. QED
    BY <1>3, <1>6, <1>7, MatchInvNow DEF InTime

\* DataArrives and FlowArrives keep it.
LEMMA FlowsMatch ==
    ASSUME MatchInv, NEW p \in Pairs, DataArrives(p) \/ FlowArrives(p)
    PROVE  MatchInv'
<1>1. MatchTyped /\ Clocked /\ EpochsInOrder /\ InStep /\ Keyed /\ Linked /\ (late = 0 => OnTime)
    BY MatchInvIs DEF InTime
<1>2. UNCHANGED << clock, epochs, new_epoch, links, packets, late >> /\ ~AnyDue
    BY DEF DataArrives, FlowArrives
<1>3. MatchTyped'
    BY <1>1, DataTyped, FlowTyped
<1>4. Keyed'
    BY <1>1, <1>2, FrameKeys
<1>5. TimesKept
    BY <1>1, <1>2, SizesTimes
<1>6. \A g \in Host : new_epoch[g] <= new_epoch'[g] /\ new_epoch'[g] \in Nat
    BY <1>1, <1>2, EpochsTyped
<1>7. Clocked' /\ EpochsInOrder' /\ InStep'
    BY <1>1, <1>5, TimesFrame
<1>8. Linked' /\ (late' = 0 => OnTime')
    BY <1>1, <1>2, <1>6, FrameLinks, FrameOnTime
<1>9. QED
    BY <1>3, <1>4, <1>7, <1>8, MatchInvNow DEF InTime

\* Tick keeps it.
LEMMA TickMatches ==
    ASSUME MatchInv, Tick
    PROVE  MatchInv'
<1>1. MatchTyped /\ Clocked /\ EpochsInOrder /\ InStep /\ Keyed /\ Linked /\ (late = 0 => OnTime)
    BY MatchInvIs DEF InTime
<1>2. UNCHANGED << epochs, new_epoch, links, size, to_come, packets >>
    BY DEF Tick
<1>3. MatchTyped' /\ (late' = 0 => late = 0 /\ packets = {})
    BY <1>1, TickTyped
<1>4. Clocked' /\ EpochsInOrder' /\ InStep'
    BY <1>1, TickTimes
<1>5. \A g \in Host : new_epoch[g] <= new_epoch'[g] /\ new_epoch'[g] \in Nat
    BY <1>1, <1>2, EpochsTyped
<1>6. Keyed' /\ Linked'
    BY <1>1, <1>2, <1>5, FrameKeys, FrameLinks
<1>7. ASSUME late' = 0 PROVE OnTime'
  <2>1. OnTime /\ packets = {}
    BY <1>1, <1>3, <1>7
  <2>2. PacketsOnTime' /\ RequestsOnTime' /\ NaturalPrompts'
    BY <1>2, <2>1 DEF OnTime, PacketsOnTime, RequestsOnTime, NaturalPrompts
  <2>3. Room'
    <3>1. ASSUME NEW s \in Host, NEW i \in DOMAIN epochs'[s]
          PROVE  /\ i \in DOMAIN epochs[s] /\ KeepsRx(epochs'[s][i], epochs[s][i]) /\ KeepsTimes(epochs'[s][i], epochs[s][i])
                 /\ Granting(i, s)' \subseteq Granting(i, s)
      BY <1>2 DEF KeepsRx, KeepsTimes, Granting
    <3>2. QED
      BY <1>1, <2>1, <3>1, RoomKept DEF OnTime
  <2>4. PromptsKnown'
    BY <1>1, <1>2, <1>5, <2>1, FrameLinks DEF OnTime
  <2>5. Pacing'
    BY <1>2, <2>1, PacingKept DEF OnTime, KeepsTx, SameIter
  <2>6. QED
    BY <2>2, <2>3, <2>4, <2>5 DEF OnTime
<1>8. QED
    BY <1>3, <1>4, <1>6, <1>7, MatchInvNow DEF InTime

\* A step that changes nothing keeps it.
LEMMA StutterMatches ==
    ASSUME MatchInv, UNCHANGED matchvars
    PROVE  MatchInv'
<1>1. MatchTyped /\ Clocked /\ EpochsInOrder /\ InStep /\ Keyed /\ Linked /\ (late = 0 => OnTime)
    BY MatchInvIs DEF InTime
<1>2. UNCHANGED << clock, epochs, new_epoch, links, size, to_come, packets, late >>
    BY DEF matchvars
<1>3. MatchTyped'
    BY <1>1, <1>2 DEF MatchTyped
<1>4. Keyed' /\ TimesKept
    BY <1>1, <1>2, FrameKeys, SizesTimes
<1>5. \A g \in Host : new_epoch[g] <= new_epoch'[g] /\ new_epoch'[g] \in Nat
    BY <1>1, <1>2, EpochsTyped
<1>6. Clocked' /\ EpochsInOrder' /\ InStep'
    BY <1>1, <1>4, TimesFrame
<1>7. Linked' /\ (late' = 0 => OnTime')
    BY <1>1, <1>2, <1>5, FrameLinks, FrameOnTime
<1>8. QED
    BY <1>3, <1>4, <1>6, <1>7, MatchInvNow DEF InTime

\* Every step keeps the invariant.
LEMMA NextMatches ==
    ASSUME MatchInv, [MatchNext]_matchvars
    PROVE  MatchInv'
<1>1. CASE \E h \in Host : \E e \in DOMAIN epochs[h] : ReceiverRound(h, e) \/ SenderRound(h, e)
    BY <1>1, ReceiverRoundMatches, SenderRoundMatches
<1>2. CASE \E h \in Host : StartNewEpoch(h)
    BY <1>2, StartNewEpochMatches
<1>3. ASSUME NEW m \in packets, Receive(m) PROVE MatchInv'
  <2>1. ~AnyDue /\ UNCHANGED << clock, new_epoch, links, size, to_come, late >>
    BY <1>3 DEF Receive
  <2>2. CASE Drop(m)
    BY <2>1, <2>2, DropMatches
  <2>3. CASE ReceiveReq(m)
    BY <2>1, <2>3, ReceiveReqMatches
  <2>4. CASE ReceiveGrants(m)
    BY <2>1, <2>4, ReceiveGrantsMatches
  <2>5. CASE ReceiveAccept(m)
    BY <2>1, <2>5, ReceiveAcceptMatches
  <2>6. CASE ReceiveGrantsR(m)
    BY <2>1, <2>6, ReceiveGrantsRMatches
  <2>7. QED
    BY <1>3, <2>2, <2>3, <2>4, <2>5, <2>6 DEF Receive
<1>4. CASE \E p \in Pairs : DataArrives(p) \/ FlowArrives(p)
    BY <1>4, FlowsMatch
<1>5. CASE Tick
    BY <1>5, TickMatches
<1>6. CASE UNCHANGED matchvars
    BY <1>6, StutterMatches
<1>7. QED
    BY <1>1, <1>2, <1>3, <1>4, <1>5, <1>6 DEF MatchNext

-----------------------------------------------------------------------------
(* The theorems about the matching *)

\* The invariant holds at all times, for any hosts, pairs, links, rounds and epochs and
\* however late packets are (class PimEpoch and PimHost::start_new_epoch in
\* ext/pimhost.cpp).
THEOREM MatchInvariant == MatchSpec => []MatchInv
<1>1. MatchInit => MatchInv
    BY InitMatches
<1>2. MatchInv /\ [MatchNext]_matchvars => MatchInv'
    BY NextMatches
<1>3. QED
    BY <1>1, <1>2, PTL DEF MatchSpec

\* The variables stay within their types: no host has more than pim_k links of an epoch as
\* a receiver or as a sender (handle_all_req, handle_all_grants, receive_accept_pkt).
THEOREM MatchTypes == MatchSpec => []MatchTyped
<1>1. MatchInv => MatchTyped
    BY DEF MatchInv
<1>2. QED
    BY <1>1, MatchInvariant, PTL

\* A sum over a function is one over its domain.
LEMMA SumOverDomain ==
    ASSUME NEW f
    PROVE  SumFunction(f) = SumFunctionOnSet(f, DOMAIN f)
  BY DEF SumFunction, SumFunctionOnSet, FoldFunction

\* The invariant implies LinksAgree.
LEMMA InvLinksAgree ==
    ASSUME MatchInv
    PROVE  LinksAgree
<1>1. MatchTyped /\ LinksKnown /\ (late = 0 => PromptsKnown)
    BY MatchInvIs DEF Linked, OnTime
<1>2. SUFFICES ASSUME NEW p \in Pairs, NEW e \in DOMAIN epochs[p[1]] \cap DOMAIN epochs[p[2]]
               PROVE  LET flying == Flying(e, p[1], p[2])
                      IN  /\ epochs[p[2]][e].from[p[1]] = epochs[p[1]][e].to[p[2]] + SumFunction([m \in flying |-> m.total])
                          /\ late = 0 => epochs[p[2]][e].from_prompt[p[1]] = epochs[p[1]][e].to_prompt[p[2]] + SumFunction([m \in flying |-> m.prompt])
    BY DEF LinksAgree
<1>3. p[1] \in Host /\ p[2] \in Host
    BY MatchAssumption
<1> DEFINE flying == Flying(e, p[1], p[2])
<1>4. SumFunction([m \in flying |-> m.total]) = LinkSum(flying) /\ SumFunction([m \in flying |-> m.prompt]) = PromptSum(flying)
  <2> HIDE DEF flying
  <2>1. DOMAIN [m \in flying |-> m.total] = flying /\ DOMAIN [m \in flying |-> m.prompt] = flying
    OBVIOUS
  <2>2. QED
    BY <2>1, SumOverDomain DEF LinkSum, PromptSum
<1>5. epochs[p[2]][e].from[p[1]] = epochs[p[1]][e].to[p[2]] + LinkSum(flying)
    BY <1>1, <1>3 DEF LinksKnown
<1>6. late = 0 => epochs[p[2]][e].from_prompt[p[1]] = epochs[p[1]][e].to_prompt[p[2]] + PromptSum(flying)
    BY <1>1, <1>3 DEF PromptsKnown
<1>7. QED
    BY <1>4, <1>5, <1>6

\* A receiver matches no more than one epoch at a time.
LEMMA MatchingIs ==
    ASSUME MatchTyped, Clocked, EpochsInOrder, NEW r \in Host
    PROVE  /\ \A e \in Matching(r) : e \in DOMAIN epochs[r] /\ ~Done(r, e)
           /\ Matching(r) = {} \/ \E e \in DOMAIN epochs[r] : Matching(r) = {e}
<1>1. \A e \in Matching(r) : e \in DOMAIN epochs[r] /\ ~Done(r, e)
    BY DEF Matching, Clocked, Timed, Done
<1>2. ASSUME NEW d \in Matching(r), NEW e \in Matching(r) PROVE d = e
  <2>1. d \in Nat /\ e \in Nat
    BY <1>1, EpochsTyped
  <2>2. ~(d < e) /\ ~(e < d)
    BY <1>1 DEF EpochsInOrder
  <2>3. QED
    BY <2>1, <2>2
<1>3. QED
    BY <1>1, <1>2

\* A sum of integers over hosts is one.
LEMMA HostSumInt ==
    ASSUME NEW f \in [Host -> Int]
    PROVE  SumFunction(f) \in Int
<1>1. SumFunction(f) = SumFunctionOnSet(f, Host) /\ IsFiniteSet(Host)
    BY HostSum
<1>2. QED
    BY <1>1, SumInt

\* The sum of one number.
LEMMA SumOfOne ==
    ASSUME NEW f, NEW x, DOMAIN f = {x}, f[x] \in Int
    PROVE  SumFunction(f) = f[x]
<1>1. SumFunction(f) = SumFunctionOnSet(f, {x})
    BY SumOverDomain
<1>2. IsFiniteSet({x}) /\ {x} \ {x} = {}
    BY FS_Singleton
<1>3. SumFunctionOnSet(f, {x}) = f[x] + SumFunctionOnSet(f, {x} \ {x})
    BY <1>2, SumRemove
<1>4. SumFunctionOnSet(f, {}) = 0
    BY SumEmpty
<1>5. QED
    BY <1>1, <1>2, <1>3, <1>4

\* The invariant implies ReceiverPaced.
LEMMA InvReceiverPaced ==
    ASSUME MatchInv
    PROVE  ReceiverPaced
<1>1. MatchTyped /\ Clocked /\ EpochsInOrder /\ Counted /\ (late = 0 => Pacing)
    BY MatchInvIs DEF InTime, Linked, OnTime
<1>2. SUFFICES ASSUME NEW r \in Host
               PROVE  /\ SumFunction(links[r]) <= PimK
                      /\ late = 0 => SumFunction([s \in Host |-> Paced(r, s)]) <= PimK
    BY DEF ReceiverPaced
<1>3. PimK \in Nat /\ IsFiniteSet(Host) /\ \A e \in DOMAIN epochs[r] : IsEpoch(epochs[r][e])
    BY <1>1, EpochsTyped, LengthsAre, MatchAssumption DEF Lengths
<1>4. links[r] \in [Host -> Nat] /\ SumFunction(links[r]) \in Nat
  <2>1. links[r] \in [Host -> Nat]
    BY <1>1 DEF MatchTyped
  <2>2. QED
    BY <2>1, HostSumNat
<1>5. SumFunction(links[r]) <= PimK
  <2>1. CASE \E e \in DOMAIN epochs[r] : Done(r, e)
    <3>1. PICK e \in DOMAIN epochs[r] : Done(r, e)
      BY <2>1
    <3>2. SumFunction(links[r]) <= epochs[r][e].num_tx_link
      BY <1>1, <3>1 DEF Counted
    <3>3. epochs[r][e].num_tx_link \in Nat /\ epochs[r][e].num_tx_link <= PimK
      BY <1>3 DEF IsEpoch
    <3>4. QED
      BY <1>3, <1>4, <3>2, <3>3
  <2>2. CASE \A e \in DOMAIN epochs[r] : ~Done(r, e)
    BY <1>1, <1>3, <2>2, NoLinksSum DEF Counted
  <2>3. QED
    BY <2>1, <2>2
<1>6. ASSUME late = 0 PROVE SumFunction([s \in Host |-> Paced(r, s)]) <= PimK
  <2> DEFINE paced == [s \in Host |-> Paced(r, s)]
             prompt(s) == [e \in Matching(r) |-> epochs[r][e].from_prompt[s]]
  <2>1. CASE Matching(r) = {}
    <3>1. ASSUME NEW s \in Host PROVE paced[s] = links[r][s]
      <4>1. SumFunction(prompt(s)) = 0
        <5>1. DOMAIN prompt(s) = {}
          BY <2>1
        <5> HIDE DEF prompt
        <5>2. SumFunction(prompt(s)) = SumFunctionOnSet(prompt(s), {})
          BY <5>1, SumOverDomain
        <5>3. QED
          BY <5>2, SumEmpty
      <4>2. links[r][s] \in Nat
        BY <1>4
      <4>3. QED
        BY <4>1, <4>2 DEF Paced
    <3>2. DOMAIN paced = Host
      OBVIOUS
    <3> HIDE DEF paced
    <3>3. \A s \in Host : links[r][s] \in Int /\ paced[s] = links[r][s]
      BY <1>4, <3>1
    <3>4. SumFunctionOnSet(paced, Host) = SumFunctionOnSet(links[r], Host)
      BY <1>3, <3>3, SumSame
    <3>5. SumFunction(paced) = SumFunction(links[r])
      BY <1>4, <3>2, <3>4, HostSum
    <3>6. QED
      BY <1>5, <3>5 DEF paced
  <2>2. ASSUME NEW e \in DOMAIN epochs[r], Matching(r) = {e} PROVE SumFunction(paced) <= PimK
    <3> DEFINE E == epochs[r][e]
    <3>1. IsEpoch(E) /\ E.from_prompt \in [Host -> Int] /\ E.num_tx_prompt_link \in Int /\ E.num_tx_prompt_link <= PimK
      BY <1>3 DEF IsEpoch
    <3>2. SumFunction(links[r]) + SumFunction(E.from_prompt) <= E.num_tx_prompt_link
      <4>1. ~Done(r, e)
        BY <1>1, <2>2, MatchingIs
      <4>2. QED
        BY <1>1, <1>6, <4>1 DEF Pacing
    <3>3. ASSUME NEW s \in Host PROVE paced[s] = links[r][s] + E.from_prompt[s]
      <4>1. DOMAIN prompt(s) = {e} /\ prompt(s)[e] = E.from_prompt[s] /\ E.from_prompt[s] \in Int
        BY <2>2, <3>1
      <4> HIDE DEF prompt
      <4>2. SumFunction(prompt(s)) = prompt(s)[e]
        <5>1. PICK f : f = prompt(s)
          OBVIOUS
        <5>2. QED
          BY <4>1, <5>1, SumOfOne
      <4>3. paced[s] = links[r][s] + SumFunction(prompt(s))
        BY DEF Paced, prompt
      <4>4. QED
        BY <4>1, <4>2, <4>3
    <3>4. paced \in [Host -> Int] /\ links[r] \in [Host -> Int]
      <4>1. \A s \in Host : links[r][s] \in Int /\ E.from_prompt[s] \in Int
        BY <1>4, <3>1
      <4>2. \A s \in Host : paced[s] \in Int
        <5> HIDE DEF E, paced
        <5>1. QED
          BY <3>3, <4>1
      <4>3. paced = [s \in Host |-> paced[s]]
        OBVIOUS
      <4> HIDE DEF paced
      <4>4. QED
        BY <1>4, <4>2, <4>3
    <3> HIDE DEF paced, E
    <3>5. SumFunction(paced) = SumFunction(links[r]) + SumFunction(E.from_prompt) /\ SumFunction(E.from_prompt) \in Int
      BY <3>1, <3>3, <3>4, HostSumPlus
    <3>6. QED
      BY <1>3, <1>4, <3>1, <3>2, <3>5
  <2>3. QED
    BY <1>1, <2>1, <2>2, MatchingIs
<1>7. QED
    BY <1>5, <1>6

\* Both ends of a pair agree on the links of an epoch, but for what an accept or a grantsr
\* still carries, however late it comes; and on its prompt links while packets are on time
\* (receive_accept_pkt, receive_grantsr).
THEOREM LinksStayAgreed == MatchSpec => []LinksAgree
  BY MatchInvariant, InvLinksAgree, PTL

\* No receiver ever has more than pim_k links in a data phase; while packets are on time it
\* paces tokens for no more with the prompt links of the next epoch (start_new_epoch,
\* handle_all_grants, schedule_receiver_iter_evt).
THEOREM ReceiversArePaced == MatchSpec => []ReceiverPaced
  BY MatchInvariant, InvReceiverPaced, PTL

\* Between the events of a time, no two hosts are in the data phases of different epochs.
LEMMA OneDataPhase ==
    ASSUME MatchTyped, Clocked, EpochsInOrder, InStep, ~AnyDue,
           NEW r \in Host, NEW e \in DOMAIN epochs[r], Done(r, e),
           NEW g \in Host, NEW d \in DOMAIN epochs[g], Done(g, d)
    PROVE  ~(e < d)
<1>1. SUFFICES ASSUME e < d PROVE FALSE
    OBVIOUS
<1>2. /\ DOMAIN epochs = Host /\ clock \in Nat /\ e \in Nat /\ d \in Nat
      /\ \A i \in DOMAIN epochs[r] : i \in Nat /\ epochs[r][i].iter \in Nat
    BY EpochsTyped
<1>3. Start(d) \in Nat /\ IterLimit \in Nat /\ IterLimit > 0
    BY <1>2, StartNat, LengthsAre DEF Lengths
<1>4. clock >= Start(d) + 2 * IterLimit
    BY DEF Clocked, Timed, Done
<1>5. PICK i \in DOMAIN epochs[r] : i >= d
    BY <1>2, <1>3, <1>4 DEF InStep
<1>6. i = e + 1 /\ i = d
    BY <1>1, <1>2, <1>5 DEF EpochsInOrder
<1>7. ~Done(r, d)
    BY <1>1, <1>2, <1>5, <1>6 DEF EpochsInOrder
<1>8. epochs[r][d].receiver_at # clock
    BY <1>5, <1>6 DEF AnyDue, AnyReceiverDue, ReceiverDue
<1>9. epochs[r][d].iter <= IterLimit /\ epochs[r][d].iter \in Nat
    BY <1>2, <1>3, <1>5, <1>6, <1>7 DEF Done
<1>10. epochs[r][d].receiver_at = Start(d) + 2 * epochs[r][d].iter /\ clock <= epochs[r][d].receiver_at
    BY <1>5, <1>6, <1>9 DEF Clocked, Timed
<1>11. QED
    BY <1>2, <1>3, <1>4, <1>8, <1>9, <1>10

\* A host whose data phase it is finds the epoch at every other host.
LEMMA PhaseAtAll ==
    ASSUME MatchTyped, Clocked, EpochsInOrder, InStep, ~AnyDue,
           NEW r \in Host, NEW e \in DOMAIN epochs[r], Done(r, e), NEW s \in Host
    PROVE  e \in DOMAIN epochs[s]
<1>1. /\ DOMAIN epochs = Host /\ clock \in Nat /\ e \in Nat /\ Start(e) \in Nat /\ IterLimit \in Nat /\ IterLimit > 0
      /\ \A i \in DOMAIN epochs[s] : i \in Nat
    BY EpochsTyped, StartNat, LengthsAre DEF Lengths
<1>2. clock >= Start(e) + 2 * IterLimit
    BY DEF Clocked, Timed, Done
<1>3. PICK d \in DOMAIN epochs[s] : d >= e
    BY <1>1, <1>2 DEF InStep
<1>4. CASE d = e
    BY <1>4
<1>5. CASE d > e
  <2>1. ~Done(s, d)
    <3>1. SUFFICES ASSUME Done(s, d) PROVE FALSE
      OBVIOUS
    <3>2. ~(e < d)
      BY <3>1, OneDataPhase
    <3>3. QED
      BY <1>5, <3>2
  <2>2. d - 1 \in DOMAIN epochs[s]
    BY <1>1, <1>5, <2>1 DEF EpochsInOrder
  <2>3. Done(s, d - 1)
    BY <1>1, <2>2 DEF EpochsInOrder
  <2>4. ~(e < d - 1)
    <3>1. PICK i \in DOMAIN epochs[s] : i = d - 1
      BY <2>2
    <3>2. QED
      BY <2>3, <3>1, OneDataPhase
  <2>5. d - 1 = e
    BY <1>1, <1>3, <1>5, <2>2, <2>4
  <2>6. QED
    BY <2>2, <2>5
<1>6. QED
    BY <1>1, <1>3, <1>4, <1>5

\* What receivers have of a sender is no more than it has granted.
LEMMA SharedFits ==
    ASSUME MatchTyped, Linked, OnTime, NEW s \in Host, NEW e \in DOMAIN epochs[s],
           NEW f \in [Host -> Nat], \A r \in Host : f[r] <= epochs[s][e].to[r] + LinkSum(Flying(e, s, r))
    PROVE  SumFunction(f) <= PimK
<1> DEFINE E == epochs[s][e]
           M == {m \in packets : m.epoch = e /\ m.src = s /\ m.type \in {"accept", "grantsr"}}
           key == [m \in M |-> m.dst]
           fly == [r \in Host |-> LinkSum({m \in M : key[m] = r})]
           all == [r \in Host |-> E.to[r] + fly[r]]
<1>1. /\ IsEpoch(E) /\ E.to \in [Host -> Nat] /\ E.num_rx_link \in Nat /\ PimK \in Nat
      /\ IsFiniteSet(Host)
    BY EpochsTyped, LengthsAre, MatchAssumption DEF IsEpoch, Lengths
<1>2. IsWeighed(M) /\ \A m \in M : key[m] \in Host
  <2>1. IsFiniteSet(M)
    BY FS_Subset DEF MatchTyped
  <2>2. QED
    BY <2>1 DEF IsWeighed, MatchTyped, IsMessage
<1>3. M \in SUBSET Granting(e, s)
  <2>1. SUFFICES ASSUME NEW m \in M PROVE m \in Granting(e, s)
    OBVIOUS
  <2>2. m.type = "accept"
    BY NoRelease
  <2>3. QED
    BY <2>2, GrantingIs
<1>4. ASSUME NEW r \in Host PROVE {m \in M : key[m] = r} = Flying(e, s, r)
    BY DEF Flying
<1>5. \A r \in Host : fly[r] \in Nat /\ fly[r] = LinkSum(Flying(e, s, r))
  <2>1. ASSUME NEW r \in Host PROVE fly[r] = LinkSum(Flying(e, s, r)) /\ LinkSum(Flying(e, s, r)) \in Nat
    <3>1. fly[r] = LinkSum({m \in M : key[m] = r})
      OBVIOUS
    <3>2. IsWeighed(Flying(e, s, r))
      BY FlyingWeighed
    <3>3. LinkSum(Flying(e, s, r)) \in Nat
      BY <3>2, LinkSumNat
    <3> HIDE DEF fly, M, key
    <3>4. QED
      BY <1>4, <3>1, <3>3
  <2>2. QED
    BY <2>1
<1> HIDE DEF M, key
<1>6. SumFunction(fly) = LinkSum(M)
  <2>1. fly = [r \in Host |-> LinkSum({m \in M : key[m] = r})]
    OBVIOUS
  <2> HIDE DEF fly
  <2>2. QED
    BY <1>2, <2>1, LinkSumByHost
<1>7. LinkSum(M) <= LinkSum(Granting(e, s)) /\ LinkSum(M) \in Nat /\ LinkSum(Granting(e, s)) \in Nat
  <2>1. IsWeighed(Granting(e, s)) /\ \A m \in Granting(e, s) : m.prompt >= 0
    BY GrantingWeighed, GrantingNatural DEF OnTime
  <2>2. QED
    BY <1>3, <2>1, PartFits
<1>8. E.num_rx_link + LinkSum(Granting(e, s)) <= PimK
    BY DEF OnTime, Room
<1>9. SumFunction(E.to) = E.num_rx_link
    BY DEF Linked, Counted
<1>10. fly \in [Host -> Int] /\ all \in [Host -> Int] /\ E.to \in [Host -> Int]
  <2>1. DOMAIN fly = Host /\ fly = [r \in Host |-> fly[r]]
    OBVIOUS
  <2> HIDE DEF fly, E
  <2>2. fly \in [Host -> Int]
    BY <1>5, <2>1
  <2>3. \A r \in Host : E.to[r] + fly[r] \in Int
    BY <1>1, <1>5
  <2>4. QED
    BY <1>1, <2>2, <2>3
<1>11. \A r \in Host : all[r] = E.to[r] + fly[r] /\ f[r] \in Int /\ all[r] \in Int /\ f[r] <= all[r]
  <2>1. \A r \in Host : all[r] = E.to[r] + fly[r]
    OBVIOUS
  <2> HIDE DEF fly, all
  <2>2. QED
    BY <1>5, <1>10, <2>1
<1> HIDE DEF fly, all, E
<1>12. SumFunction(all) = SumFunction(E.to) + SumFunction(fly)
    BY <1>10, <1>11, HostSumPlus
<1>13. SumFunction(f) <= SumFunction(all)
  <2>1. SumFunctionOnSet(f, Host) <= SumFunctionOnSet(all, Host)
    BY <1>1, <1>11, SumAtMost
  <2>2. DOMAIN f = Host /\ DOMAIN all = Host
    BY <1>10
  <2>3. QED
    BY <2>1, <2>2, HostSum
<1>14. SumFunction(f) \in Nat
    BY HostSumNat
<1>15. QED
    BY <1>1, <1>6, <1>7, <1>8, <1>9, <1>12, <1>13, <1>14

\* The invariant implies SenderShared.
LEMMA InvSenderShared ==
    ASSUME MatchInv
    PROVE  SenderShared
<1>1. SUFFICES ASSUME late = 0, ~AnyDue, NEW s \in Host
               PROVE  SumFunction([r \in Host |-> links[r][s]]) <= PimK
    BY DEF SenderShared
<1>2. MatchTyped /\ Clocked /\ EpochsInOrder /\ InStep /\ Linked /\ OnTime
    BY <1>1, MatchInvIs DEF InTime
<1> DEFINE f == [r \in Host |-> links[r][s]]
<1>3. f \in [Host -> Nat] /\ PimK \in Nat /\ \A r \in Host : f[r] = links[r][s]
    BY <1>2, LengthsAre DEF MatchTyped, Lengths
<1>4. \A r \in Host : (\A e \in DOMAIN epochs[r] : ~Done(r, e)) => f[r] = 0
    BY <1>2 DEF Linked, Counted, NoLinks
<1> HIDE DEF f
<1>5. CASE \A r \in Host : \A e \in DOMAIN epochs[r] : ~Done(r, e)
  <2>1. \A r \in Host : f[r] = 0
    BY <1>4, <1>5
  <2>2. f = NoLinks
    BY <1>3, <2>1 DEF NoLinks
  <2>3. QED
    BY <1>3, <2>2, NoLinksSum DEF f
<1>6. ASSUME NEW q \in Host, NEW e \in DOMAIN epochs[q], Done(q, e) PROVE SumFunction(f) <= PimK
  <2>1. e \in DOMAIN epochs[s]
    BY <1>1, <1>2, <1>6, PhaseAtAll
  <2>2. IsEpoch(epochs[s][e]) /\ epochs[s][e].to \in [Host -> Nat]
    BY <1>2, <2>1, EpochsTyped DEF IsEpoch
  <2>3. ASSUME NEW r \in Host PROVE f[r] <= epochs[s][e].to[r] + LinkSum(Flying(e, s, r))
    <3>1. LinkSum(Flying(e, s, r)) \in Nat
      <4>1. IsWeighed(Flying(e, s, r))
        BY <1>2, FlyingWeighed
      <4>2. QED
        BY <4>1, LinkSumNat
    <3>2. CASE \A d \in DOMAIN epochs[r] : ~Done(r, d)
      BY <1>4, <2>2, <3>1, <3>2
    <3>3. ASSUME NEW d \in DOMAIN epochs[r], Done(r, d) PROVE f[r] <= epochs[s][e].to[r] + LinkSum(Flying(e, s, r))
      <4>1. d = e
        <5>1. ~(d < e)
          BY <1>1, <1>2, <1>6, <3>3, OneDataPhase
        <5>2. ~(e < d)
          BY <1>1, <1>2, <1>6, <3>3, OneDataPhase
        <5>3. d \in Nat /\ e \in Nat
          BY <1>2, EpochsTyped
        <5>4. QED
          BY <5>1, <5>2, <5>3
      <4>2. links[r] = epochs[r][e].from
        BY <1>2, <3>3, <4>1 DEF OnTime, Pacing
      <4>3. epochs[r][e].from[s] = epochs[s][e].to[r] + LinkSum(Flying(e, s, r))
        BY <1>2, <2>1, <3>3, <4>1 DEF Linked, LinksKnown
      <4>4. f[r] = epochs[s][e].to[r] + LinkSum(Flying(e, s, r))
        BY <1>3, <4>2, <4>3
      <4>5. QED
        BY <2>2, <3>1, <4>4
    <3>4. QED
      BY <3>2, <3>3
  <2>4. QED
    BY <1>2, <1>3, <2>1, <2>3, SharedFits
<1>7. QED
    BY <1>5, <1>6 DEF f

\* While packets are on time, the receivers of a sender have no more than pim_k of its links
\* in a data phase, though each begins it by its own clock (handle_all_req,
\* schedule_receiver_iter_evt).
THEOREM SendersAreShared == MatchSpec => []SenderShared
  BY MatchInvariant, InvSenderShared, PTL

-----------------------------------------------------------------------------
(* Sets of numbers *)

\* A set of the first n numbers is finite, its size is at most n and n only for
\* all of them, and one new number makes it one larger.
LEMMA NumberSets ==
    ASSUME NEW n \in Nat, NEW s \in SUBSET (0 .. n - 1)
    PROVE  /\ IsFiniteSet(s) /\ Cardinality(s) \in 0 .. n
           /\ Cardinality(s) = n <=> s = 0 .. n - 1
           /\ \A i \in 0 .. n - 1 : Cardinality(s \cup {i}) = IF i \in s THEN Cardinality(s) ELSE Cardinality(s) + 1
<1>1. IsFiniteSet(0 .. n - 1) /\ Cardinality(0 .. n - 1) = n
    <2>1. IsFiniteSet(0 .. n - 1) /\ Cardinality(0 .. n - 1) = IF 0 > n - 1 THEN 0 ELSE n - 1 - 0 + 1
        BY FS_Interval
    <2>2. QED
        BY <2>1
<1>2. /\ IsFiniteSet(s) /\ Cardinality(s) <= Cardinality(0 .. n - 1)
      /\ Cardinality(0 .. n - 1) = Cardinality(s) => 0 .. n - 1 = s
    BY <1>1, FS_Subset
<1>3. Cardinality(s) \in Nat
    BY <1>2, FS_CardinalityType
<1>4. \A i \in 0 .. n - 1 : Cardinality(s \cup {i}) = IF i \in s THEN Cardinality(s) ELSE Cardinality(s) + 1
    BY <1>2, FS_AddElement
<1>5. QED
    BY <1>1, <1>2, <1>3, <1>4

\* Min of a non-empty set of numbers is its least element.
LEMMA MinIsLeast ==
    ASSUME NEW s \in SUBSET Nat, s # {}
    PROVE  Min(s) \in s /\ \A j \in s : Min(s) <= j
<1>1. PICK i \in s : \A j \in s : ~ (<<j, i>> \in OpToRel(<, Nat))
    BY NatLessThanWellFounded, WFMin
<1>2. \A j \in s : ~(j < i)
    BY <1>1 DEF OpToRel
<1>3. \A j \in s : i <= j
    BY <1>2
<1>4. QED
    BY <1>3 DEF Min

-----------------------------------------------------------------------------
(* Packets                                                                 *)

\* A flow has packets, and its own tokens are all or none.
LEMMA InitSize ==
    ASSUME NEW f \in Flow
    PROVE  /\ Size[f] \in Nat \ {0} /\ InitToken(f) \in {0, Size[f]}
           /\ InitToken(f) = IF Size[f] <= TokenInitial THEN Size[f] ELSE 0
           /\ 0 \in 0 .. Size[f] - 1
BY TokenAssumption DEF InitToken

\* The next token asks for a packet that is missing; when the packets have been
\* asked for in order, for the next one in order.
LEMMA NextTokenIsMissing ==
    ASSUME NEW f \in Flow, NEW F \in FlowStates, ~(0 .. Size[f] - 1 \subseteq F.packets_received)
    PROVE  /\ NextToken(F, f) \in 0 .. Size[f] - 1
           /\ \A c \in 0 .. Size[f] - 1 :
                 F.last_token_data_seq_num_sent = c - 1 /\ c \notin F.packets_received => NextToken(F, f) = c
<1> DEFINE missing == 0 .. Size[f] - 1 \ F.packets_received
           ahead   == {d \in missing : d >= (F.last_token_data_seq_num_sent + 1) % Size[f]}
<1>1. Size[f] \in Nat \ {0} /\ missing # {} /\ missing \in SUBSET Nat /\ ahead \in SUBSET Nat
    BY TokenAssumption
<1>2. /\ ahead # {} => Min(ahead) \in ahead /\ \A j \in ahead : Min(ahead) <= j
      /\ Min(missing) \in missing
    BY <1>1, MinIsLeast
<1>3. NextToken(F, f) = IF ahead = {} THEN Min(missing) ELSE Min(ahead)
    BY DEF NextToken, Missing
<1>4. NextToken(F, f) \in 0 .. Size[f] - 1
    BY <1>2, <1>3
<1>5. ASSUME NEW c \in 0 .. Size[f] - 1, F.last_token_data_seq_num_sent = c - 1, c \notin F.packets_received
      PROVE  NextToken(F, f) = c
    <2>1. (F.last_token_data_seq_num_sent + 1) % Size[f] = c
        BY <1>1, <1>5
    <2>2. ahead = {d \in missing : d >= c}
        BY <2>1
    <2>3. c \in ahead /\ \A j \in ahead : c <= j
        BY <1>5, <2>2
    <2>4. Min(ahead) \in Nat /\ Min(ahead) <= c /\ c <= Min(ahead)
        BY <1>1, <1>2, <2>3
    <2>5. QED
        BY <1>3, <2>3, <2>4
<1>6. QED
    BY <1>4, <1>5

\* What a packet is.
LEMMA PacketIs ==
    ASSUME NEW f \in Flow, NEW seq \in Nat, NEW data \in 0 .. Size[f] - 1,
           NEW type \in {"init", "rts", "token", "data", "ack"}
    PROVE  /\ Packet(type, f, seq, data) \in Packets
           /\ Packet(type, f, seq, data).type = type /\ Packet(type, f, seq, data).flow = f
           /\ Packet(type, f, seq, data).data = data
BY TokenAssumption DEF Packet, Packets

-----------------------------------------------------------------------------
(* What becomes of a flow object                                           *)

\* A field of a flow object changes within its type.
LEMMA FieldUpdate ==
    ASSUME NEW F \in FlowStates
    PROVE  /\ \A b \in BOOLEAN :
                 /\ [F EXCEPT !.started = b] \in FlowStates
                 /\ [F EXCEPT !.rts_received = b] \in FlowStates
                 /\ [F EXCEPT !.window_old = b] \in FlowStates
                 /\ [F EXCEPT !.finished = b] \in FlowStates
                 /\ [F EXCEPT !.finished_at_receiver = b] \in FlowStates
           /\ \A n \in Nat :
                 /\ [F EXCEPT !.received_count = n] \in FlowStates
                 /\ [F EXCEPT !.token_count = n] \in FlowStates
                 /\ [F EXCEPT !.token_goal = n] \in FlowStates
                 /\ [F EXCEPT !.finish_events = n] \in FlowStates
           /\ \A i \in Int :
                 /\ [F EXCEPT !.largest_token_seq_received = i] \in FlowStates
                 /\ [F EXCEPT !.last_token_data_seq_num_sent = i] \in FlowStates
           /\ \A s \in SUBSET Nat : [F EXCEPT !.packets_received = s] \in FlowStates
           /\ \A r \in {"none", "waiting", "met"} : [F EXCEPT !.redundancy = r] \in FlowStates
<1>1. \A b \in BOOLEAN : [F EXCEPT !.started = b] \in FlowStates
    BY DEF FlowStates
<1>2. \A b \in BOOLEAN : [F EXCEPT !.rts_received = b] \in FlowStates
    BY DEF FlowStates
<1>3. \A b \in BOOLEAN : [F EXCEPT !.window_old = b] \in FlowStates
    BY DEF FlowStates
<1>4. \A b \in BOOLEAN : [F EXCEPT !.finished = b] \in FlowStates
    BY DEF FlowStates
<1>5. \A b \in BOOLEAN : [F EXCEPT !.finished_at_receiver = b] \in FlowStates
    BY DEF FlowStates
<1>6. \A n \in Nat : [F EXCEPT !.received_count = n] \in FlowStates
    BY DEF FlowStates
<1>7. \A n \in Nat : [F EXCEPT !.token_count = n] \in FlowStates
    BY DEF FlowStates
<1>8. \A n \in Nat : [F EXCEPT !.token_goal = n] \in FlowStates
    BY DEF FlowStates
<1>9. \A n \in Nat : [F EXCEPT !.finish_events = n] \in FlowStates
    BY DEF FlowStates
<1>10. \A i \in Int : [F EXCEPT !.largest_token_seq_received = i] \in FlowStates
    BY DEF FlowStates
<1>11. \A i \in Int : [F EXCEPT !.last_token_data_seq_num_sent = i] \in FlowStates
    BY DEF FlowStates
<1>12. \A s \in SUBSET Nat : [F EXCEPT !.packets_received = s] \in FlowStates
    BY DEF FlowStates
<1>13. \A r \in {"none", "waiting", "met"} : [F EXCEPT !.redundancy = r] \in FlowStates
    BY DEF FlowStates
<1>14. QED
    BY <1>1, <1>2, <1>3, <1>4, <1>5, <1>6, <1>7, <1>8, <1>9, <1>10, <1>11, <1>12, <1>13

\* The fields that the rest of the simulator, and the transfer, see.
Untold(F, G) ==
    /\ G.received_count = F.received_count /\ G.packets_received = F.packets_received
    /\ G.finished_at_receiver = F.finished_at_receiver
    /\ G.finished = F.finished /\ G.finish_events = F.finish_events

\* They decide whether the counts are true.
LEMMA UntoldCounts ==
    ASSUME NEW f, NEW F, NEW G, CountOf(F, f), Untold(F, G) PROVE CountOf(G, f)
BY DEF CountOf, Untold

\* Whether a flow has waited for its resend timeout.
Waited(F, f) == F.redundancy # "none" \/ F.token_goal > Size[f]

\* How the object of a flow may change: what has been asked for stays so until the first
\* resend timeout, which a flow does not forget.
Goes(F, G, f) ==
    /\ G \in FlowStates /\ CountOf(G, f) /\ RoundOf(G, f)
    /\ Waited(F, f) => Waited(G, f)
    /\ F.rts_received => G.rts_received
    /\ F.finished_at_receiver => G.finished_at_receiver
    /\ G.token_goal = Size[f] => F.token_goal = Size[f] /\ Asked(G, f) >= Asked(F, f)

\* What a flow object has that the invariant holds for.
Good(F, f) == F \in FlowStates /\ CountOf(F, f) /\ RoundOf(F, f)

\* Changes follow each other.
LEMMA GoesOn ==
    ASSUME NEW f \in Flow, NEW F \in FlowStates, NEW G \in FlowStates, NEW H \in FlowStates,
           Goes(F, G, f), Goes(G, H, f)
    PROVE  Goes(F, H, f)
<1>1. Asked(F, f) \in Nat /\ Asked(G, f) \in Nat /\ Asked(H, f) \in Nat
    BY InitSize DEF Asked, FlowStates
<1>2. QED
    BY <1>1 DEF Goes

LEMMA GoesNowhere == ASSUME NEW f \in Flow, NEW F, Good(F, f) PROVE Goes(F, F, f)
<1>1. Asked(F, f) \in Nat
    BY InitSize DEF Asked, FlowStates, Good
<1>2. QED
    BY <1>1 DEF Goes, Good

\* A flow below its size has a packet that is missing.
LEMMA SomeMissing ==
    ASSUME NEW f \in Flow, NEW F, Good(F, f), ~F.finished_at_receiver
    PROVE  /\ ~(0 .. Size[f] - 1 \subseteq F.packets_received) /\ ~F.finished
           /\ F.received_count < Size[f]
<1>1. /\ ~F.finished /\ F.packets_received \in SUBSET (0 .. Size[f] - 1)
      /\ F.received_count = Cardinality(F.packets_received) /\ F.received_count # Size[f]
    BY DEF CountOf, Good
<1>2. F.packets_received # 0 .. Size[f] - 1
    BY <1>1, NumberSets, InitSize
<1>3. F.received_count < Size[f]
    BY <1>1, InitSize DEF CountOf, Good, FlowStates
<1>4. QED
    BY <1>1, <1>2, <1>3


\* The RTS of a long flow.
LEMMA RtsReceived ==
    ASSUME NEW f \in Flow, NEW F, Good(F, f), ~F.rts_received, InitToken(f) = 0
    PROVE  Goes(F, [F EXCEPT !.rts_received = TRUE], f) /\ Untold(F, [F EXCEPT !.rts_received = TRUE])
<1> DEFINE G == [F EXCEPT !.rts_received = TRUE]
<1>1. /\ F \in FlowStates /\ CountOf(F, f) /\ RoundOf(F, f)
    BY DEF Good
<1>2. /\ G \in FlowStates /\ G.rts_received
      /\ G.token_goal = F.token_goal /\ G.token_count = F.token_count /\ G.redundancy = F.redundancy
      /\ G.last_token_data_seq_num_sent = F.last_token_data_seq_num_sent
      /\ G.packets_received = F.packets_received /\ G.finished = F.finished
      /\ G.finished_at_receiver = F.finished_at_receiver
      /\ Untold(F, G)
    BY <1>1 DEF FlowStates, Untold
<1> HIDE DEF G
<1>3. Asked(F, f) = 0 /\ Asked(G, f) = F.token_count /\ F.token_count \in Nat
    BY <1>1, <1>2 DEF Asked, FlowStates
<1>4. RoundOf(G, f)
    BY <1>1, <1>2, <1>3, InitSize DEF RoundOf
<1>5. QED
    BY <1>1, <1>2, <1>3, <1>4, UntoldCounts DEF Goes, Waited, G

\* receive_short_flow: the tokens that the sender has of its own are counted.
LEMMA ShortFlowGoes ==
    ASSUME NEW f \in Flow, NEW F, Good(F, f), ~F.rts_received
    PROVE  /\ Goes(F, ShortFlow(F, f), f) /\ Untold(F, ShortFlow(F, f)) /\ ShortFlow(F, f).rts_received
           /\ InitToken(f) = Size[f] => Waited(ShortFlow(F, f), f)
<1> DEFINE G  == ShortFlow(F, f)
           F0 == [F EXCEPT !.rts_received = TRUE]
           F1 == [F0 EXCEPT !.token_count = InitToken(f)]
           F2 == [F1 EXCEPT !.last_token_data_seq_num_sent = InitToken(f) - 1]
           r  == IF InitToken(f) = F.token_goal THEN "waiting" ELSE F.redundancy
           F3 == [F2 EXCEPT !.redundancy = r]
<1>1. /\ F \in FlowStates /\ CountOf(F, f) /\ RoundOf(F, f) /\ InitToken(f) \in Nat /\ InitToken(f) - 1 \in Int
    BY InitSize DEF Good
<1>2. G \in FlowStates
    <2>1. F0 \in FlowStates
        BY <1>1, FieldUpdate
    <2>2. F1 \in FlowStates
        <3> HIDE DEF F0
        <3> QED BY <1>1, <2>1, FieldUpdate
    <2>3. F2 \in FlowStates
        <3> HIDE DEF F1
        <3> QED BY <1>1, <2>2, FieldUpdate
    <2>4. r \in {"none", "waiting", "met"}
        BY <1>1 DEF FlowStates
    <2>5. F3 \in FlowStates
        <3> HIDE DEF F2, r
        <3> QED BY <2>3, <2>4, FieldUpdate
    <2>6. G = F3
        BY DEF ShortFlow
    <2>7. QED
        BY <2>5, <2>6
<1>3. /\ G.rts_received /\ G.token_count = InitToken(f) /\ G.last_token_data_seq_num_sent = InitToken(f) - 1
      /\ G.redundancy = r /\ G.token_goal = F.token_goal
      /\ G.packets_received = F.packets_received /\ G.finished = F.finished
      /\ G.finished_at_receiver = F.finished_at_receiver /\ Untold(F, G)
    BY <1>1 DEF FlowStates, Untold, ShortFlow
<1> HIDE DEF G
<1>4. Asked(F, f) = InitToken(f) /\ Asked(G, f) = InitToken(f)
    BY <1>1, <1>3 DEF Asked
<1>5. RoundOf(G, f)
    BY <1>1, <1>3, <1>4, InitSize DEF RoundOf
<1>6. Waited(F, f) => Waited(G, f)
    BY <1>3 DEF Waited
<1>7. InitToken(f) = Size[f] => Waited(G, f)
    <2>1. Size[f] \in Nat /\ F.token_goal \in Nat /\ F.token_goal >= Size[f]
        BY <1>1, InitSize DEF RoundOf, FlowStates
    <2>2. QED
        BY <1>3, <2>1 DEF Waited
<1>8. QED
    BY <1>1, <1>2, <1>3, <1>4, <1>5, <1>6, <1>7, UntoldCounts DEF Goes, G

\* A link of n takes a flow.
LEMMA TakenGoes ==
    ASSUME NEW f \in Flow, NEW F, Good(F, f), F.rts_received, ~F.finished_at_receiver, NEW n \in Nat,
           F.redundancy # "waiting"
    PROVE  /\ Goes(F, Taken(F, f, n), f) /\ Untold(F, Taken(F, f, n))
           /\ Taken(F, f, n).redundancy = "none"
<1> DEFINE G    == Taken(F, f, n)
           goal == F.token_goal + Size[f] - F.received_count
           F0   == [F EXCEPT !.redundancy = "none"]
           F1   == [F0 EXCEPT !.token_goal = goal]
           A    == IF F.redundancy # "met" THEN F ELSE F1
           i    == F.token_count - (TokenWindow \div K) * n
<1>1. /\ F \in FlowStates /\ CountOf(F, f) /\ RoundOf(F, f)
      /\ F.received_count < Size[f] /\ F.received_count \in Nat /\ F.token_goal \in Nat /\ Size[f] \in Nat
      /\ F.redundancy \in {"none", "waiting", "met"}
    BY SomeMissing, InitSize DEF Good, FlowStates
<1>2. goal \in Nat /\ goal > F.token_goal
    BY <1>1
<1>3. A \in FlowStates
    <2>1. F0 \in FlowStates
        BY <1>1 DEF FlowStates
    <2>2. F1 \in FlowStates
        <3> HIDE DEF F0, goal
        <3> QED BY <1>2, <2>1 DEF FlowStates
    <2>3. QED
        BY <1>1, <2>2
<1>4. i \in Int
    <2>1. TokenWindow \div K \in Int /\ n \in Int
        BY TokenAssumption
    <2>2. (TokenWindow \div K) * n \in Int
        BY <2>1
    <2>3. F.token_count \in Int
        BY <1>1 DEF FlowStates
    <2>4. QED
        BY <2>2, <2>3
<1>5. G = A \/ G = [A EXCEPT !.largest_token_seq_received = i]
    BY DEF Taken
<1>6. /\ A.rts_received /\ A.token_count = F.token_count
      /\ A.last_token_data_seq_num_sent = F.last_token_data_seq_num_sent
      /\ A.redundancy = "none" /\ A.token_goal = IF F.redundancy = "met" THEN goal ELSE F.token_goal
      /\ A.packets_received = F.packets_received /\ A.finished = F.finished
      /\ A.finished_at_receiver = F.finished_at_receiver /\ Untold(F, A)
    BY <1>1 DEF FlowStates, Untold
<1> HIDE DEF A, i
<1>7. /\ G \in FlowStates
      /\ G.rts_received /\ G.token_count = F.token_count
      /\ G.last_token_data_seq_num_sent = F.last_token_data_seq_num_sent
      /\ G.redundancy = "none" /\ G.token_goal = IF F.redundancy = "met" THEN goal ELSE F.token_goal
      /\ G.packets_received = F.packets_received /\ G.finished = F.finished
      /\ G.finished_at_receiver = F.finished_at_receiver /\ Untold(F, G)
    BY <1>3, <1>4, <1>5, <1>6 DEF FlowStates, Untold
<1> HIDE DEF G, goal
<1>8. Asked(F, f) = F.token_count /\ Asked(G, f) = F.token_count /\ F.token_count \in Nat
    BY <1>1, <1>7 DEF Asked, FlowStates
<1>9. RoundOf(G, f)
    <2>1. G.token_goal >= Size[f] /\ (G.token_goal = Size[f] => F.token_goal = Size[f] /\ F.redundancy # "met")
        BY <1>1, <1>2, <1>7 DEF RoundOf
    <2>2. QED
        BY <1>1, <1>7, <1>8, <2>1 DEF RoundOf
<1>10. Waited(F, f) => Waited(G, f)
    BY <1>1, <1>2, <1>7 DEF Waited, RoundOf
<1>11. G.token_goal = Size[f] => F.token_goal = Size[f]
    BY <1>1, <1>2, <1>7 DEF RoundOf
<1>12. QED
    BY <1>1, <1>7, <1>8, <1>9, <1>10, <1>11, UntoldCounts DEF Goes, G

\* A token for a flow.  In the first round it is for the next packet, and after the last
\* one the flow waits.
LEMMA WithTokenGoes ==
    ASSUME NEW f \in Flow, NEW F, Good(F, f), F.rts_received, ~F.finished_at_receiver, F.redundancy = "none"
    PROVE  /\ Goes(F, WithToken(F, f), f) /\ Untold(F, WithToken(F, f))
           /\ NextToken(F, f) \in 0 .. Size[f] - 1
           /\ WithToken(F, f).token_goal = Size[f] => NextToken(F, f) < Asked(WithToken(F, f), f)
<1> DEFINE G  == WithToken(F, f)
           d  == NextToken(F, f)
           F0 == [F EXCEPT !.token_count = F.token_count + 1]
           F1 == [F0 EXCEPT !.last_token_data_seq_num_sent = d]
           S  == [F1 EXCEPT !.window_old = FALSE]
<1>1. /\ F \in FlowStates /\ CountOf(F, f) /\ RoundOf(F, f) /\ F.token_count + 1 \in Nat /\ F.token_count \in Nat
      /\ Size[f] \in Nat \ {0}
    BY InitSize DEF Good, FlowStates
<1>2. ~(0 .. Size[f] - 1 \subseteq F.packets_received) /\ ~F.finished
    BY SomeMissing
<1>3. d \in 0 .. Size[f] - 1 /\ d \in Int
    BY <1>1, <1>2, NextTokenIsMissing
<1>4. S \in FlowStates
    <2>1. F0 \in FlowStates
        BY <1>1, FieldUpdate
    <2>2. F1 \in FlowStates
        <3> HIDE DEF F0, d
        <3> QED BY <1>3, <2>1, FieldUpdate
    <2>3. QED
        <3> HIDE DEF F1
        <3> QED BY <2>2, FieldUpdate
<1>5. G = [S EXCEPT !.redundancy = IF Wrapped(S, f) THEN "waiting" ELSE @]
    BY DEF WithToken
<1>6. /\ S.rts_received /\ S.token_count = F.token_count + 1 /\ S.last_token_data_seq_num_sent = d
      /\ S.redundancy = "none" /\ S.token_goal = F.token_goal
      /\ S.packets_received = F.packets_received /\ S.finished = F.finished
      /\ S.finished_at_receiver = F.finished_at_receiver /\ Untold(F, S)
    BY <1>1 DEF FlowStates, Untold
<1> HIDE DEF S, d
<1>7. /\ G \in FlowStates
      /\ G.rts_received /\ G.token_count = F.token_count + 1 /\ G.last_token_data_seq_num_sent = d
      /\ G.redundancy = (IF Wrapped(S, f) THEN "waiting" ELSE "none") /\ G.token_goal = F.token_goal
      /\ G.packets_received = F.packets_received /\ G.finished = F.finished
      /\ G.finished_at_receiver = F.finished_at_receiver /\ Untold(F, G)
    BY <1>4, <1>5, <1>6 DEF FlowStates, Untold
<1> HIDE DEF G
<1>8. Asked(F, f) = F.token_count /\ Asked(G, f) = F.token_count + 1
    BY <1>7 DEF Asked
<1>9. ASSUME F.token_goal = Size[f]
      PROVE  /\ d = F.token_count /\ F.token_count < Size[f]
             /\ F.packets_received \subseteq 0 .. F.token_count - 1
             /\ ~Wrapped(S, f) => F.token_count + 1 < Size[f]
    <2>1. /\ F.last_token_data_seq_num_sent = F.token_count - 1 /\ F.token_count < Size[f]
          /\ F.packets_received \subseteq 0 .. F.token_count - 1
        BY <1>1, <1>2, <1>8, <1>9 DEF RoundOf
    <2>2. F.token_count \in 0 .. Size[f] - 1 /\ F.token_count \notin F.packets_received
        BY <1>1, <2>1
    <2>3. d = F.token_count
        BY <1>1, <1>2, <2>1, <2>2, NextTokenIsMissing DEF d
    <2>4. NextToken(S, f) \in 0 .. Size[f] - 1
        BY <1>2, <1>4, <1>6, NextTokenIsMissing
    <2>5. F.token_count + 1 >= Size[f] => Wrapped(S, f)
        BY <1>1, <1>6, <2>2, <2>3, <2>4 DEF Wrapped
    <2>6. QED
        BY <1>1, <2>1, <2>3, <2>5
<1>10. RoundOf(G, f)
    <2>1. G.token_goal >= Size[f] /\ G.token_count >= InitToken(f)
        BY <1>1, <1>7, InitSize DEF RoundOf
    <2>2. ASSUME G.token_goal = Size[f]
          PROVE  /\ G.last_token_data_seq_num_sent = G.token_count - 1 /\ G.token_count <= Size[f]
                 /\ G.redundancy = "none" => G.token_count < Size[f]
                 /\ G.packets_received \subseteq 0 .. Asked(G, f) - 1
        BY <1>1, <1>7, <1>8, <1>9, <2>2
    <2>3. QED
        BY <1>7, <2>1, <2>2 DEF RoundOf
<1>11. Waited(F, f) => Waited(G, f)
    BY <1>7 DEF Waited
<1>12. QED
    BY <1>1, <1>3, <1>7, <1>8, <1>9, <1>10, <1>11, UntoldCounts DEF Goes, G, d


\* The flow object after a DATA packet.
Received(F, m) == [WithData(F, m) EXCEPT !.finished_at_receiver = WithData(F, m).received_count >= Size[m.flow]]

\* A DATA packet, before the flow is finished.  In the first round it was asked for.
LEMMA ReceivedGoes ==
    ASSUME NEW f \in Flow, NEW F, Good(F, f), NEW m \in Packets, m.flow = f, ~F.finished, F.rts_received,
           F.token_goal = Size[f] => m.data < Asked(F, f)
    PROVE  /\ Goes(F, Received(F, m), f)
           /\ Received(F, m).received_count = WithData(F, m).received_count
           /\ Received(F, m).received_count = (IF m.data \in F.packets_received THEN F.received_count
                                               ELSE F.received_count + 1)
           /\ Received(F, m).finished_at_receiver <=> Received(F, m).received_count >= Size[f]
           /\ Received(F, m).redundancy = F.redundancy
           /\ Received(F, m).finished = F.finished /\ Received(F, m).finish_events = F.finish_events
<1> DEFINE G     == Received(F, m)
           count == IF m.data \in F.packets_received THEN F.received_count ELSE F.received_count + 1
           all   == F.packets_received \cup {m.data}
           F0    == [F EXCEPT !.packets_received = all]
           F1    == [F0 EXCEPT !.received_count = count]
           W     == WithData(F, m)
<1>1. /\ F \in FlowStates /\ CountOf(F, f) /\ RoundOf(F, f) /\ Size[f] \in Nat \ {0}
      /\ m.data \in 0 .. Size[f] - 1 /\ m.seq \in Nat /\ m.data \in Nat
      /\ F.token_count \in Nat /\ F.received_count \in Nat /\ F.token_goal \in Nat
    BY InitSize DEF Packets, Good, FlowStates
<1>2. /\ F.packets_received \in SUBSET (0 .. Size[f] - 1)
      /\ F.received_count = Cardinality(F.packets_received)
    BY <1>1 DEF CountOf
<1>3. W \in FlowStates
    <2>1. all \in SUBSET Nat /\ count \in Nat
        BY <1>1 DEF FlowStates
    <2>2. F0 \in FlowStates
        BY <1>1, <2>1, FieldUpdate
    <2>3. F1 \in FlowStates
        <3> HIDE DEF F0, count
        <3> QED BY <2>1, <2>2, FieldUpdate
    <2>4. W = [F1 EXCEPT !.largest_token_seq_received = Larger(F1.largest_token_seq_received, m.seq)]
        BY <1>1 DEF WithData, FlowStates
    <2>5. Larger(F1.largest_token_seq_received, m.seq) \in Int
        BY <1>1, <2>3 DEF Larger, FlowStates
    <2>6. QED
        <3> HIDE DEF F1, W
        <3> QED BY <2>3, <2>4, <2>5, FieldUpdate
<1>4. /\ W.received_count = count /\ W.packets_received = all
      /\ W.rts_received /\ W.token_goal = F.token_goal /\ W.token_count = F.token_count
      /\ W.last_token_data_seq_num_sent = F.last_token_data_seq_num_sent
      /\ W.redundancy = F.redundancy /\ W.finished = F.finished /\ W.finish_events = F.finish_events
    BY <1>1 DEF WithData, FlowStates
<1>5. G = [W EXCEPT !.finished_at_receiver = (count >= Size[f])]
    BY <1>4 DEF Received
<1> HIDE DEF W
<1>6. /\ G \in FlowStates
      /\ G.received_count = count /\ G.packets_received = all
      /\ G.finished_at_receiver <=> count >= Size[f]
      /\ G.rts_received /\ G.token_goal = F.token_goal /\ G.token_count = F.token_count
      /\ G.last_token_data_seq_num_sent = F.last_token_data_seq_num_sent
      /\ G.redundancy = F.redundancy /\ G.finished = F.finished /\ G.finish_events = F.finish_events
    <2>1. (count >= Size[f]) \in BOOLEAN
        BY <1>1
    <2> DEFINE done == count >= Size[f]
    <2> HIDE DEF done
    <2>2. [W EXCEPT !.finished_at_receiver = done] \in FlowStates
        BY <1>3, <2>1, FieldUpdate DEF done
    <2>3. QED
        BY <1>3, <1>4, <1>5, <2>2 DEF FlowStates, done
<1> HIDE DEF G
<1>7. all \in SUBSET (0 .. Size[f] - 1) /\ count = Cardinality(all) /\ count \in 0 .. Size[f]
    <2>1. all \in SUBSET (0 .. Size[f] - 1)
        BY <1>1, <1>2
    <2>2. Cardinality(all) = IF m.data \in F.packets_received THEN Cardinality(F.packets_received)
                             ELSE Cardinality(F.packets_received) + 1
        <3>1. IsFiniteSet(F.packets_received)
            BY <1>2, InitSize, NumberSets
        <3>2. QED
            BY <3>1, FS_AddElement
    <2>3. Cardinality(all) \in 0 .. Size[f]
        <3> HIDE DEF all
        <3> QED BY <2>1, InitSize, NumberSets
    <2>4. QED
        BY <1>2, <2>1, <2>2, <2>3
<1> HIDE DEF all
<1>8. CountOf(G, f) /\ (F.finished_at_receiver => G.finished_at_receiver)
    <2>1. G.finished_at_receiver <=> G.received_count = Size[f]
        BY <1>1, <1>6, <1>7
    <2>2. F.finished_at_receiver => G.finished_at_receiver
        BY <1>1, <1>6, <1>7 DEF CountOf
    <2>3. QED
        BY <1>1, <1>6, <1>7, <2>1, <2>2 DEF CountOf
<1>9. Asked(F, f) = F.token_count /\ Asked(G, f) = F.token_count
    BY <1>6 DEF Asked
<1>10. ASSUME F.token_goal = Size[f]
       PROVE  /\ all \subseteq 0 .. F.token_count - 1
              /\ F.token_count < Size[f] => ~G.finished_at_receiver
    <2>1. m.data \in 0 .. F.token_count - 1 /\ F.packets_received \subseteq 0 .. F.token_count - 1
        BY <1>1, <1>9, <1>10 DEF RoundOf
    <2>2. all \subseteq 0 .. F.token_count - 1
        BY <2>1 DEF all
    <2>3. count <= F.token_count
        BY <1>1, <1>7, <2>2, NumberSets
    <2>4. QED
        BY <1>1, <1>6, <1>7, <2>2, <2>3
<1>11. RoundOf(G, f)
    <2>1. G.token_goal >= Size[f] /\ G.token_count >= InitToken(f)
        BY <1>1, <1>6 DEF RoundOf
    <2>2. ASSUME G.token_goal = Size[f]
          PROVE  /\ G.last_token_data_seq_num_sent = G.token_count - 1 /\ G.token_count <= Size[f]
                 /\ G.redundancy = "none" => G.token_count < Size[f] /\ ~G.finished_at_receiver
                 /\ G.packets_received \subseteq 0 .. Asked(G, f) - 1
        BY <1>1, <1>6, <1>9, <1>10, <2>2 DEF RoundOf
    <2>3. QED
        BY <1>6, <2>1, <2>2 DEF RoundOf
<1>12. QED
    BY <1>1, <1>4, <1>6, <1>8, <1>9, <1>11 DEF Goes, Waited, G, W

\* What the timeouts, the start and the ACK do to a flow object.
LEMMA StartedGoes ==
    ASSUME NEW f \in Flow, NEW F, Good(F, f)
    PROVE  /\ Goes(F, [F EXCEPT !.started = TRUE], f) /\ Untold(F, [F EXCEPT !.started = TRUE])
           /\ Goes(F, [F EXCEPT !.window_old = TRUE], f) /\ Untold(F, [F EXCEPT !.window_old = TRUE])
<1>1. ASSUME NEW G, G = [F EXCEPT !.started = TRUE] \/ G = [F EXCEPT !.window_old = TRUE]
      PROVE  Goes(F, G, f) /\ Untold(F, G)
    <2>1. F \in FlowStates /\ CountOf(F, f) /\ RoundOf(F, f) /\ Asked(F, f) \in Nat
        BY InitSize DEF Good, Asked, FlowStates
    <2>2. /\ G \in FlowStates /\ G.rts_received = F.rts_received
          /\ G.token_goal = F.token_goal /\ G.token_count = F.token_count /\ G.redundancy = F.redundancy
          /\ G.last_token_data_seq_num_sent = F.last_token_data_seq_num_sent
          /\ Untold(F, G)
        BY <1>1, <2>1 DEF FlowStates, Untold
    <2>3. Asked(G, f) = Asked(F, f)
        BY <2>2 DEF Asked
    <2>4. RoundOf(G, f)
        BY <2>1, <2>2, <2>3 DEF RoundOf, Untold
    <2>5. CountOf(G, f)
        BY <2>1, <2>2, UntoldCounts
    <2>6. QED
        BY <2>1, <2>2, <2>3, <2>4, <2>5 DEF Goes, Waited, Untold
<1>2. QED
    BY <1>1

LEMMA MetGoes ==
    ASSUME NEW f \in Flow, NEW F, Good(F, f), F.redundancy = "waiting"
    PROVE  Goes(F, [F EXCEPT !.redundancy = "met"], f) /\ Untold(F, [F EXCEPT !.redundancy = "met"])
<1> DEFINE G == [F EXCEPT !.redundancy = "met"]
<1>1. F \in FlowStates /\ CountOf(F, f) /\ RoundOf(F, f) /\ Asked(F, f) \in Nat
    BY InitSize DEF Good, Asked, FlowStates
<1>2. /\ G \in FlowStates /\ G.rts_received = F.rts_received /\ G.redundancy = "met"
      /\ G.token_goal = F.token_goal /\ G.token_count = F.token_count
      /\ G.last_token_data_seq_num_sent = F.last_token_data_seq_num_sent
      /\ Untold(F, G)
    BY <1>1 DEF FlowStates, Untold
<1> HIDE DEF G
<1>3. Asked(G, f) = Asked(F, f)
    BY <1>2 DEF Asked
<1>4. RoundOf(G, f)
    BY <1>1, <1>2, <1>3 DEF RoundOf, Untold
<1>5. CountOf(G, f)
    BY <1>1, <1>2, UntoldCounts
<1>6. QED
    BY <1>1, <1>2, <1>3, <1>4, <1>5 DEF Goes, Waited, Untold, G

\* The flow object after the first ACK.
Acked(F) == [F EXCEPT !.packets_received = {}, !.finished = TRUE, !.finish_events = @ + 1]

LEMMA AckedGoes ==
    ASSUME NEW f \in Flow, NEW F, Good(F, f), F.finished_at_receiver, ~F.finished
    PROVE  /\ Goes(F, Acked(F), f)
           /\ Acked(F).finished /\ Acked(F).finish_events = F.finish_events + 1
           /\ Acked(F).received_count = F.received_count
<1> DEFINE G  == Acked(F)
           F1 == [F EXCEPT !.packets_received = {}]
           F2 == [F1 EXCEPT !.finished = TRUE]
           F3 == [F2 EXCEPT !.finish_events = F.finish_events + 1]
<1>1. /\ F \in FlowStates /\ CountOf(F, f) /\ RoundOf(F, f) /\ Asked(F, f) \in Nat
      /\ F.finish_events + 1 \in Nat /\ {} \in SUBSET Nat
    BY InitSize DEF Good, Asked, FlowStates
<1>2. G \in FlowStates
    <2>1. F1 \in FlowStates
        BY <1>1, FieldUpdate
    <2>2. F2 \in FlowStates
        <3> HIDE DEF F1
        <3> QED BY <2>1, FieldUpdate
    <2>3. F3 \in FlowStates
        <3> HIDE DEF F2
        <3> QED BY <1>1, <2>2, FieldUpdate
    <2>4. QED
        BY <2>3 DEF Acked
<1>3. /\ G.finished /\ G.finish_events = F.finish_events + 1 /\ G.received_count = F.received_count
      /\ G.finished_at_receiver = F.finished_at_receiver /\ G.rts_received = F.rts_received
      /\ G.token_goal = F.token_goal /\ G.token_count = F.token_count /\ G.redundancy = F.redundancy
      /\ G.last_token_data_seq_num_sent = F.last_token_data_seq_num_sent
    BY <1>1 DEF FlowStates, Acked
<1> HIDE DEF G
<1>4. Asked(G, f) = Asked(F, f)
    BY <1>3 DEF Asked
<1>5. RoundOf(G, f)
    BY <1>1, <1>3, <1>4 DEF RoundOf
<1>6. CountOf(G, f)
    BY <1>1, <1>3 DEF CountOf
<1>7. QED
    BY <1>1, <1>2, <1>3, <1>4, <1>5, <1>6 DEF Goes, Waited, G


-----------------------------------------------------------------------------
(* The steps                                                               *)

\* The invariant's parts for one flow and one packet.
LEMMA PartsOf ==
    ASSUME PimInv
    PROVE  /\ \A f \in Flow : flow[f] \in FlowStates /\ Good(flow[f], f)
           /\ \A m \in net \cup token_q : m \in Packets /\ m.flow \in Flow
           /\ \A m \in token_q : m.type \in {"init", "token"}
           /\ \A m \in net : m.type = "ack" => flow[m.flow].finished_at_receiver
           /\ \A f \in queue : f \in Flow /\ flow[f].rts_received
           /\ \A m \in net \cup token_q :
                 m.type \in {"init", "token", "data"} /\ flow[m.flow].token_goal = Size[m.flow]
                 => m.data < Asked(flow[m.flow], m.flow)
BY DEF PimInv, TypeOK, CountsTrue, AsksInOrder, Packets, Good

\* One flow changes.
LEMMA OneFlowChanges ==
    ASSUME PimInv, NEW f \in Flow, NEW G, Goes(flow[f], G, f), flow' = [flow EXCEPT ![f] = G]
    PROVE  /\ flow' \in [Flow -> FlowStates] /\ flow'[f] = G
           /\ \A g \in Flow : g # f => flow'[g] = flow[g]
           /\ \A g \in Flow : Goes(flow[g], flow'[g], g)
<1>1. G \in FlowStates /\ flow \in [Flow -> FlowStates]
    BY DEF Goes, PimInv, TypeOK
<1>2. /\ flow' \in [Flow -> FlowStates] /\ flow'[f] = G
      /\ \A g \in Flow : g # f => flow'[g] = flow[g]
    BY <1>1
<1>3. ASSUME NEW g \in Flow PROVE Goes(flow[g], flow'[g], g)
    <2>1. CASE g = f
        BY <1>2, <2>1
    <2>2. CASE g # f
        <3>1. Goes(flow[g], flow[g], g)
            BY PartsOf, GoesNowhere
        <3>2. QED
            BY <1>2, <2>2, <3>1
    <2>3. QED
        BY <2>1, <2>2
<1>4. QED
    BY <1>2, <1>3

LEMMA NoFlowChanges ==
    ASSUME PimInv, UNCHANGED flow
    PROVE  flow' \in [Flow -> FlowStates] /\ \A g \in Flow : Goes(flow[g], flow'[g], g)
BY PartsOf, GoesNowhere DEF PimInv, TypeOK

\* Nobody who has not waited is done: while no flow has waited, whoever is in the queue
\* is a candidate.
LEMMA QueueIsCandidates ==
    ASSUME PimInv, HasWaited = {} PROVE Candidates(flow) = queue
<1>1. ASSUME NEW f \in queue PROVE ~flow[f].finished_at_receiver /\ flow[f].redundancy = "none"
    <2>1. /\ f \in Flow /\ flow[f] \in FlowStates /\ RoundOf(flow[f], f)
        BY PartsOf DEF Good
    <2>2. flow[f].redundancy = "none" /\ ~(flow[f].token_goal > Size[f])
        BY <2>1 DEF HasWaited
    <2>3. flow[f].token_goal = Size[f]
        BY <2>1, <2>2, InitSize DEF RoundOf, FlowStates
    <2>4. QED
        BY <2>1, <2>2, <2>3 DEF RoundOf
<1>2. QED
    BY <1>1 DEF Candidates, Finished

LEMMA WaitedRemains ==
    ASSUME PimInv, \A g \in Flow : Goes(flow[g], flow'[g], g), HasWaited' = {} PROVE HasWaited = {}
BY DEF HasWaited, Goes, Waited

\* The chain that runs does so after a step that leaves it running and brings no flow.
LEMMA AwakeRemains ==
    ASSUME PimInv, \A g \in Flow : Goes(flow[g], flow'[g], g), queue' \subseteq queue,
           num_links' = num_links, event["data"] # "none" => event'["data"] # "none"
    PROVE  LinkAwake'
<1>1. SUFFICES ASSUME num_links'["data"] > 0, HasWaited' = {}, Candidates(flow)' # {}
               PROVE  event'["data"] # "none"
    BY DEF LinkAwake
<1>2. HasWaited = {}
    BY <1>1, WaitedRemains
<1>3. queue # {}
    BY <1>1 DEF Candidates
<1>4. Candidates(flow) # {}
    BY <1>2, <1>3, QueueIsCandidates
<1>5. QED
    BY <1>1, <1>2, <1>4 DEF PimInv, LinkAwake

\* A step keeps the invariant that changes flows as above, adds ACKs of flows that are
\* received and packets that were asked for.
LEMMA InvKeeps ==
    ASSUME PimInv, TypeOK', LinkAwake', \A g \in Flow : Goes(flow[g], flow'[g], g),
           \A g \in queue' : flow'[g].rts_received,
           \A m \in net' : m.type = "ack" => m \in net \/ flow'[m.flow].finished_at_receiver,
           \A m \in net' \cup token_q' :
              m.type \in {"init", "token", "data"} /\ flow'[m.flow].token_goal = Size[m.flow]
              => m \in net \cup token_q \/ m.data < Asked(flow'[m.flow], m.flow)
    PROVE  PimInv'
<1>1. CountsTrue'
    <2>1. \A g \in Flow : CountOf(flow'[g], g)
        BY DEF Goes
    <2>2. ASSUME NEW m \in net', m.type = "ack" PROVE flow'[m.flow].finished_at_receiver
        <3>1. CASE m \in net
            BY <2>2, <3>1, PartsOf DEF Goes
        <3>2. CASE m \notin net
            BY <2>2, <3>2
        <3>3. QED
            BY <3>1, <3>2
    <2>3. QED
        BY <2>1, <2>2 DEF CountsTrue
<1>2. AsksInOrder'
    <2>1. \A g \in Flow : RoundOf(flow'[g], g)
        BY DEF Goes
    <2>2. ASSUME NEW m \in net' \cup token_q', m.type \in {"init", "token", "data"},
                 flow'[m.flow].token_goal = Size[m.flow]
          PROVE  m.data < Asked(flow'[m.flow], m.flow)
        <3>1. CASE m \in net \cup token_q
            <4>1. m \in Packets /\ m.flow \in Flow
                BY <3>1, PartsOf
            <4>2. /\ flow[m.flow].token_goal = Size[m.flow]
                  /\ Asked(flow'[m.flow], m.flow) >= Asked(flow[m.flow], m.flow)
                BY <2>2, <4>1 DEF Goes
            <4>3. m.data < Asked(flow[m.flow], m.flow)
                BY <2>2, <3>1, <4>2, PartsOf
            <4>4. /\ flow[m.flow] \in FlowStates /\ flow'[m.flow] \in FlowStates /\ m.data \in Nat
                BY <4>1, PartsOf DEF Goes, Packets
            <4>5. Asked(flow[m.flow], m.flow) \in Nat /\ Asked(flow'[m.flow], m.flow) \in Nat
                BY <4>1, <4>4, InitSize DEF Asked, FlowStates
            <4>6. QED
                BY <4>2, <4>3, <4>4, <4>5
        <3>2. CASE m \notin net \cup token_q
            BY <2>2, <3>2
        <3>3. QED
            BY <3>1, <3>2
    <2>3. QED
        BY <2>1, <2>2 DEF AsksInOrder
<1>3. QED
    BY <1>1, <1>2 DEF PimInv

LEMMA InitInv == Init => PimInv
<1> SUFFICES ASSUME Init PROVE PimInv
    OBVIOUS
<1> USE DEF Init
<1>1. \A f \in Flow : NewFlow(f) \in FlowStates
    BY InitSize DEF NewFlow, FlowStates
<1>2. TypeOK
    <2>1. IsFiniteSet(token_q)
        BY FS_EmptySet
    <2>2. 0 \in 0 .. K /\ 0 \in 0 .. MaxFaults
        BY TokenAssumption, TokenBoundsAssumption
    <2>3. num_links \in [Link -> 0 .. K] /\ event \in [Link -> Flow \cup {"none", "due"}]
        BY <2>2
    <2>4. flow \in [Flow -> FlowStates]
        BY <1>1
    <2>5. QED
        BY <2>1, <2>2, <2>3, <2>4 DEF TypeOK
<1>3. CountsTrue
    <2>1. ASSUME NEW f \in Flow PROVE CountOf(NewFlow(f), f)
        BY InitSize, FS_EmptySet DEF CountOf, NewFlow
    <2>2. QED
        BY <2>1 DEF CountsTrue
<1>4. AsksInOrder
    <2>1. ASSUME NEW f \in Flow PROVE RoundOf(NewFlow(f), f)
        BY InitSize DEF RoundOf, NewFlow
    <2>2. QED
        BY <2>1 DEF AsksInOrder
<1>5. LinkAwake
    BY DEF LinkAwake, Candidates
<1>6. QED
    BY <1>2, <1>3, <1>4, <1>5 DEF PimInv


\* The RTS, and a short flow's own tokens.
LEMMA StartFlowKeeps == ASSUME PimInv, NEW f \in Flow, StartFlow(f) PROVE PimInv'
<1> DEFINE G   == [flow[f] EXCEPT !.started = TRUE]
           own == {Packet("init", f, i, i) : i \in 0 .. InitToken(f) - 1}
           rts == Packet("rts", f, 0, 0)
<1>1. /\ flow' = [flow EXCEPT ![f] = G] /\ net' = net \cup {rts} /\ token_q' = token_q \cup own
      /\ pump' = (pump \/ token_q' # {})
      /\ UNCHANGED << queue, hold_on, num_links, event, faults >>
    BY DEF StartFlow
<1>2. Goes(flow[f], G, f) /\ Untold(flow[f], G)
    BY PartsOf, StartedGoes
<1>3. /\ G.rts_received = flow[f].rts_received /\ G.token_count = flow[f].token_count
      /\ RoundOf(G, f)
    BY <1>2, PartsOf DEF FlowStates, Goes
<1> HIDE DEF G
<1>4. /\ flow' \in [Flow -> FlowStates] /\ flow'[f] = G
      /\ \A g \in Flow : g # f => flow'[g] = flow[g]
      /\ \A g \in Flow : Goes(flow[g], flow'[g], g)
    BY <1>1, <1>2, OneFlowChanges
<1>5. rts \in Packets /\ rts.type = "rts" /\ rts.flow = f
    BY PacketIs, InitSize
<1>6. \A i \in 0 .. InitToken(f) - 1 :
          /\ Packet("init", f, i, i) \in Packets /\ Packet("init", f, i, i).type = "init"
          /\ Packet("init", f, i, i).flow = f /\ Packet("init", f, i, i).data = i
    BY PacketIs, InitSize
<1>7. \A m \in own : m \in Packets /\ m.type = "init" /\ m.flow = f /\ m.data \in 0 .. InitToken(f) - 1
    BY <1>6
<1>8. IsFiniteSet(own)
    <2>1. IsFiniteSet(0 .. InitToken(f) - 1)
        <3>1. InitToken(f) \in Nat
            BY InitSize
        <3>2. 0 \in Int /\ InitToken(f) - 1 \in Int
            BY <3>1
        <3>3. QED
            BY <3>2, FS_Interval
    <2> DEFINE token == [i \in 0 .. InitToken(f) - 1 |-> Packet("init", f, i, i)]
    <2>2. token \in Surjection(0 .. InitToken(f) - 1, own)
        BY DEF Surjection
    <2>3. QED
        BY <2>1, <2>2, FS_Surjection
<1> HIDE DEF own, rts
<1>9. TypeOK'
    <2>1. IsFiniteSet(token_q')
        BY <1>1, <1>8, FS_Union DEF PimInv, TypeOK
    <2>2. pump' \in BOOLEAN
        BY <1>1 DEF PimInv, TypeOK
    <2>3. QED
        BY <1>1, <1>4, <1>5, <1>7, <2>1, <2>2 DEF PimInv, TypeOK
<1>10. LinkAwake'
    BY <1>1, <1>4, AwakeRemains
<1>11. \A g \in queue' : flow'[g].rts_received
    BY <1>1, <1>4, PartsOf DEF Goes
<1>12. ASSUME NEW m \in own PROVE m.data < Asked(flow'[m.flow], m.flow)
    <2>1. Asked(G, f) >= InitToken(f) /\ G.token_count \in Nat
        BY <1>2, <1>3, InitSize DEF Asked, RoundOf, Goes, FlowStates
    <2>2. Asked(G, f) \in Nat
        BY <1>2, <1>3, InitSize DEF Asked, Goes, FlowStates
    <2>3. QED
        BY <1>4, <1>7, <2>1, <2>2, InitSize
<1>13. QED
    BY <1>1, <1>4, <1>5, <1>7, <1>9, <1>10, <1>11, <1>12, InvKeeps

\* Packets leave the net.
LEMMA PacketsLeave ==
    ASSUME PimInv, UNCHANGED << flow, queue, num_links, event >>, net' \subseteq net,
           hold_on' \in Nat, faults' \in 0 .. MaxFaults, pump' \in BOOLEAN,
           token_q' \in SUBSET {m \in Packets : m.type \in {"init", "token"}}, IsFiniteSet(token_q'),
           token_q' \subseteq net \cup token_q
    PROVE  PimInv'
<1>1. flow' \in [Flow -> FlowStates] /\ \A g \in Flow : Goes(flow[g], flow'[g], g)
    BY NoFlowChanges
<1>2. TypeOK'
    BY <1>1 DEF PimInv, TypeOK
<1>3. LinkAwake'
    BY <1>1, AwakeRemains
<1>4. \A g \in queue' : flow'[g].rts_received
    BY PartsOf
<1>5. QED
    BY <1>1, <1>2, <1>3, <1>4, InvKeeps

\* The sender stores a token of a flow that is not finished.
LEMMA ReceiveTokenKeeps == ASSUME PimInv, NEW m \in net, ReceiveToken(m) PROVE PimInv'
<1>1. /\ m.type = "token" /\ net' = net \ {m}
      /\ UNCHANGED << flow, queue, hold_on, num_links, event, faults >>
      /\ \/ UNCHANGED << token_q, pump >>
         \/ token_q' = token_q \cup {m} /\ pump' = TRUE
    BY DEF ReceiveToken
<1>2. IsFiniteSet(token_q')
    BY <1>1, FS_AddElement DEF PimInv, TypeOK
<1>3. token_q' \in SUBSET {t \in Packets : t.type \in {"init", "token"}}
    BY <1>1 DEF PimInv, TypeOK
<1>4. /\ hold_on' \in Nat /\ faults' \in 0 .. MaxFaults /\ pump' \in BOOLEAN
    BY <1>1 DEF PimInv, TypeOK
<1>5. net' \subseteq net /\ token_q' \subseteq net \cup token_q
    BY <1>1
<1>6. QED
    BY <1>1, <1>2, <1>3, <1>4, <1>5, PacketsLeave

\* A queue drops a packet.
LEMMA LoseKeeps == ASSUME PimInv, NEW m \in net, Lose(m) PROVE PimInv'
<1>1. /\ net' = net \ {m} /\ faults < MaxFaults /\ faults' = faults + 1
      /\ UNCHANGED << flow, queue, hold_on, num_links, event, token_q, pump >>
    BY DEF Lose
<1>2. /\ hold_on' \in Nat /\ pump' \in BOOLEAN /\ IsFiniteSet(token_q')
      /\ token_q' \in SUBSET {t \in Packets : t.type \in {"init", "token"}}
    BY <1>1 DEF PimInv, TypeOK
<1>3. faults' \in 0 .. MaxFaults
    BY <1>1, TokenBoundsAssumption DEF PimInv, TypeOK
<1>4. net' \subseteq net /\ token_q' \subseteq net \cup token_q
    BY <1>1
<1>5. QED
    BY <1>1, <1>2, <1>3, <1>4, PacketsLeave

\* Tokens expire, and the one after them becomes a DATA packet.
LEMMA SenderTurnKeeps == ASSUME PimInv, SenderTurn PROVE PimInv'
<1>1. PICK old \in SUBSET {t \in token_q : t.type = "token"} :
          /\ faults' = faults + Cardinality(old) /\ faults' <= MaxFaults
          /\ \/ /\ old = token_q
                /\ token_q' = {} /\ pump' = FALSE /\ UNCHANGED net
             \/ \E t \in token_q \ old :
                   /\ token_q' = (token_q \ old) \ {t}
                   /\ net' = net \cup {Packet("data", t.flow, t.seq, t.data)}
                   /\ UNCHANGED pump
    BY DEF SenderTurn
<1>2. UNCHANGED << flow, queue, hold_on, num_links, event >>
    BY DEF SenderTurn
<1>3. faults' \in 0 .. MaxFaults
    <2>1. IsFiniteSet(old)
        BY FS_Subset DEF PimInv, TypeOK
    <2>2. Cardinality(old) \in Nat
        BY <2>1, FS_CardinalityType
    <2>3. QED
        BY <1>1, <2>2, TokenBoundsAssumption DEF PimInv, TypeOK
<1>4. IsFiniteSet(token_q') /\ token_q' \subseteq token_q
    <2>1. token_q' \subseteq token_q
        BY <1>1
    <2>2. QED
        BY <2>1, FS_Subset DEF PimInv, TypeOK
<1>5. /\ hold_on' \in Nat /\ pump' \in BOOLEAN
      /\ token_q' \in SUBSET {t \in Packets : t.type \in {"init", "token"}}
    BY <1>1, <1>2, <1>4 DEF PimInv, TypeOK
<1>6. CASE UNCHANGED net
    <2>1. net' \subseteq net /\ token_q' \subseteq net \cup token_q
        BY <1>4, <1>6
    <2>2. QED
        BY <1>2, <1>3, <1>4, <1>5, <2>1, PacketsLeave
<1>7. ASSUME NEW t \in token_q, net' = net \cup {Packet("data", t.flow, t.seq, t.data)} PROVE PimInv'
    <2> DEFINE p == Packet("data", t.flow, t.seq, t.data)
    <2>1. t \in Packets /\ t.flow \in Flow /\ t.type \in {"init", "token"}
        BY PartsOf
    <2>2. t.seq \in Nat /\ t.data \in 0 .. Size[t.flow] - 1
        BY <2>1, InitSize DEF Packets
    <2>3. p \in Packets /\ p.type = "data" /\ p.flow = t.flow /\ p.data = t.data
        BY <2>1, <2>2, PacketIs
    <2> HIDE DEF p
    <2>4. net' = net \cup {p}
        BY <1>7 DEF p
    <2>5. flow' \in [Flow -> FlowStates] /\ \A g \in Flow : Goes(flow[g], flow'[g], g)
        BY <1>2, NoFlowChanges
    <2>6. TypeOK'
        BY <1>2, <1>3, <1>4, <1>5, <2>3, <2>4, <2>5 DEF PimInv, TypeOK
    <2>7. LinkAwake'
        BY <1>2, <2>5, AwakeRemains
    <2>8. \A g \in queue' : flow'[g].rts_received
        BY <1>2, PartsOf
    <2>9. \A m \in net' : m.type = "ack" => m \in net
        BY <2>3, <2>4
    <2>10. ASSUME NEW m \in net' \cup token_q', flow'[m.flow].token_goal = Size[m.flow]
           PROVE  m \in net \cup token_q \/ m.data < Asked(flow'[m.flow], m.flow)
        <3>1. CASE m = p
            BY <1>2, <2>1, <2>3, <2>10, <3>1, PartsOf
        <3>2. CASE m # p
            BY <1>4, <2>4, <3>2
        <3>3. QED
            BY <3>1, <3>2
    <2>11. QED
        BY <2>5, <2>6, <2>7, <2>8, <2>9, <2>10, InvKeeps
<1>8. QED
    BY <1>1, <1>6, <1>7


\* The first ACK finishes a flow whose packets have all been received.
LEMMA ReceiveAckKeeps == ASSUME PimInv, NEW m \in net, ReceiveAck(m) PROVE PimInv'
<1>f. PICK f \in Flow : f = m.flow
    BY PartsOf
<1>1. /\ m.type = "ack" /\ net' = net \ {m}
      /\ UNCHANGED << queue, hold_on, num_links, event, token_q, pump, faults >>
      /\ IF flow[f].finished THEN UNCHANGED flow ELSE flow' = [flow EXCEPT ![f] = Acked(flow[f])]
    BY <1>f DEF ReceiveAck, Acked
<1>2. CASE flow[f].finished
    <2>1. /\ hold_on' \in Nat /\ pump' \in BOOLEAN /\ IsFiniteSet(token_q') /\ faults' \in 0 .. MaxFaults
          /\ token_q' \in SUBSET {t \in Packets : t.type \in {"init", "token"}}
          /\ net' \subseteq net /\ token_q' \subseteq net \cup token_q
        BY <1>1 DEF PimInv, TypeOK
    <2>2. QED
        BY <1>1, <1>2, <2>1, PacketsLeave
<1>3. CASE ~flow[f].finished
    <2>1. Goes(flow[f], Acked(flow[f]), f)
        <3>1. flow[f].finished_at_receiver
            BY <1>f, <1>1, PartsOf
        <3>2. QED
            BY <1>3, <3>1, PartsOf, AckedGoes
    <2>2. flow' \in [Flow -> FlowStates] /\ \A g \in Flow : Goes(flow[g], flow'[g], g)
        BY <1>1, <1>3, <2>1, OneFlowChanges
    <2>3. TypeOK'
        BY <1>1, <2>2 DEF PimInv, TypeOK
    <2>4. LinkAwake'
        BY <1>1, <2>2, AwakeRemains
    <2>5. \A g \in queue' : flow'[g].rts_received
        BY <1>1, <2>2, PartsOf DEF Goes
    <2>6. QED
        BY <1>1, <2>2, <2>3, <2>4, <2>5, InvKeeps
<1>4. QED
    BY <1>2, <1>3

\* The chain of the data phase may be started again: it is never stopped.
LEMMA RestartedRuns ==
    ASSUME PimInv, NEW f, NEW top, event' = Restarted(f, {top})
    PROVE  /\ event' \in [Link -> Flow \cup {"none", "due"}]
           /\ event["data"] # "none" => event'["data"] # "none"
           /\ f = top /\ num_links["data"] > 0 => event'["data"] # "none"
<1>1. event \in [Link -> Flow \cup {"none", "due"}] /\ "data" \in Link
    BY DEF PimInv, TypeOK, Link
<1>2. event' = event \/ event' = [event EXCEPT !["data"] = "due"]
    BY DEF Restarted
<1>3. f = top /\ num_links["data"] > 0 => event'["data"] # "none"
    BY <1>1 DEF Restarted
<1>4. QED
    BY <1>1, <1>2, <1>3

\* The RTS puts a long flow in the queue; the first one there starts the chain.
LEMMA ReceiveRtsKeeps == ASSUME PimInv, NEW m \in net, ReceiveRts(m) PROVE PimInv'
<1>f. PICK f \in Flow : f = m.flow
    BY PartsOf
<1> DEFINE F == flow[f]
<1>1. /\ m.type = "rts" /\ net' = net \ {m} /\ UNCHANGED << num_links, token_q, pump, faults >>
      /\ IF F.finished \/ F.rts_received
         THEN UNCHANGED << flow, queue, hold_on, event >>
         ELSE /\ queue' = queue \cup {f}
              /\ IF Size[f] > TokenInitial
                 THEN /\ flow' = [flow EXCEPT ![f] = [F EXCEPT !.rts_received = TRUE]]
                      /\ \E top \in queue' : event' = Restarted(f, {top})
                      /\ UNCHANGED hold_on
                 ELSE /\ flow' = [flow EXCEPT ![f] = ShortFlow(F, f)]
                      /\ hold_on' = InitToken(f)
                      /\ UNCHANGED event
    BY <1>f DEF ReceiveRts
<1>2. Good(F, f)
    BY PartsOf
<1>3. CASE F.finished \/ F.rts_received
    <2>1. /\ hold_on' \in Nat /\ pump' \in BOOLEAN /\ IsFiniteSet(token_q') /\ faults' \in 0 .. MaxFaults
          /\ token_q' \in SUBSET {t \in Packets : t.type \in {"init", "token"}}
          /\ net' \subseteq net /\ token_q' \subseteq net \cup token_q
        BY <1>1, <1>3 DEF PimInv, TypeOK
    <2>2. QED
        BY <1>1, <1>3, <2>1, PacketsLeave
<1>4. ASSUME ~F.finished, ~F.rts_received,
             NEW G, Goes(F, G, f), G.rts_received, flow' = [flow EXCEPT ![f] = G], queue' = queue \cup {f},
             event' \in [Link -> Flow \cup {"none", "due"}], hold_on' \in Nat, LinkAwake'
      PROVE  PimInv'
    <2>1. /\ flow' \in [Flow -> FlowStates] /\ flow'[f] = G
          /\ \A g \in Flow : g # f => flow'[g] = flow[g]
          /\ \A g \in Flow : Goes(flow[g], flow'[g], g)
        BY <1>4, OneFlowChanges
    <2>2. TypeOK'
        BY <1>1, <1>4, <2>1 DEF PimInv, TypeOK
    <2>3. \A g \in queue' : flow'[g].rts_received
        BY <1>4, <2>1, PartsOf DEF Goes
    <2>4. \A c \in net' : c \in net
        BY <1>1
    <2> HIDE DEF F
    <2>5. QED
        BY <1>1, <1>4, <2>1, <2>2, <2>3, <2>4, InvKeeps
<1>5. CASE ~F.finished /\ ~F.rts_received /\ Size[f] > TokenInitial
    <2> DEFINE G == [F EXCEPT !.rts_received = TRUE]
    <2>1. InitToken(f) = 0
        BY <1>5, InitSize, TokenAssumption
    <2>2. Goes(F, G, f) /\ G.rts_received
        BY <1>2, <1>5, <2>1, RtsReceived DEF Good, FlowStates
    <2>3. PICK top \in queue' : event' = Restarted(f, {top})
        BY <1>1, <1>5
    <2>4. flow' = [flow EXCEPT ![f] = G] /\ queue' = queue \cup {f} /\ hold_on' = hold_on
        BY <1>1, <1>5
    <2>5. /\ event' \in [Link -> Flow \cup {"none", "due"}]
          /\ event["data"] # "none" => event'["data"] # "none"
          /\ f = top /\ num_links["data"] > 0 => event'["data"] # "none"
        BY <2>3, RestartedRuns
    <2> HIDE DEF G, F
    <2>6. LinkAwake'
        <3>1. SUFFICES ASSUME num_links'["data"] > 0, HasWaited' = {} PROVE event'["data"] # "none"
            BY DEF LinkAwake
        <3>2. \A g \in Flow : Goes(flow[g], flow'[g], g)
            BY <2>2, <2>4, OneFlowChanges DEF F
        <3>3. HasWaited = {}
            BY <3>1, <3>2, WaitedRemains
        <3>4. CASE queue = {}
            <4>1. top = f
                BY <2>3, <2>4, <3>4
            <4>2. QED
                BY <1>1, <2>5, <3>1, <4>1
        <3>5. CASE queue # {}
            <4>1. Candidates(flow) # {}
                BY <3>3, <3>5, QueueIsCandidates
            <4>2. event["data"] # "none"
                BY <1>1, <3>1, <3>3, <4>1 DEF PimInv, LinkAwake
            <4>3. QED
                BY <2>5, <4>2
        <3>6. QED
            BY <3>4, <3>5
    <2>7. hold_on' \in Nat
        BY <2>4 DEF PimInv, TypeOK
    <2>8. QED
        BY <1>4, <1>5, <2>2, <2>4, <2>5, <2>6, <2>7
<1>6. CASE ~F.finished /\ ~F.rts_received /\ ~(Size[f] > TokenInitial)
    <2> DEFINE G == ShortFlow(F, f)
    <2>1. InitToken(f) = Size[f]
        BY <1>6, InitSize, TokenAssumption
    <2>2. Goes(F, G, f) /\ G.rts_received /\ Waited(G, f)
        BY <1>2, <1>6, <2>1, ShortFlowGoes
    <2>3. /\ flow' = [flow EXCEPT ![f] = G] /\ queue' = queue \cup {f}
          /\ hold_on' = InitToken(f) /\ event' = event
        BY <1>1, <1>6
    <2> HIDE DEF G, F
    <2>4. LinkAwake'
        <3>1. flow'[f] = G
            BY <2>2, <2>3, OneFlowChanges DEF F
        <3>2. HasWaited' # {}
            BY <2>2, <3>1 DEF HasWaited, Waited
        <3>3. QED
            BY <3>2 DEF LinkAwake
    <2>5. event' \in [Link -> Flow \cup {"none", "due"}] /\ hold_on' \in Nat
        BY <2>3, InitSize DEF PimInv, TypeOK
    <2>6. QED
        BY <1>4, <1>6, <2>2, <2>3, <2>4, <2>5
<1>7. QED
    BY <1>3, <1>5, <1>6

\* A flow object before a DATA packet is looked at.
Before(f) == IF flow[f].rts_received THEN flow[f] ELSE ShortFlow(flow[f], f)

\* DATA before the flow is finished: what becomes of the flow.
LEMMA TakeDataFlow ==
    ASSUME PimInv, NEW m \in net, m.type = "data", ~flow[m.flow].finished, TakeData(m), NEW f \in Flow, f = m.flow
    PROVE  /\ Goes(flow[f], Received(Before(f), m), f)
           /\ flow' = [flow EXCEPT ![f] = Received(Before(f), m)]
           /\ Received(Before(f), m).received_count = flow[f].received_count
              \/ Received(Before(f), m).received_count = flow[f].received_count + 1
           /\ Received(Before(f), m).finished = flow[f].finished
           /\ Received(Before(f), m).finish_events = flow[f].finish_events
           /\ Received(Before(f), m).rts_received
           /\ Received(Before(f), m).finished_at_receiver
              <=> WithData(Before(f), m).received_count >= Size[f]
<1> DEFINE F == flow[f]
           B == Before(f)
           G == Received(B, m)
           W == WithData(B, m)
<1>1. Good(F, f) /\ F \in FlowStates
    BY PartsOf
<1>2. Goes(F, B, f) /\ B.rts_received /\ Untold(F, B)
    <2>1. CASE F.rts_received
        BY <1>1, <2>1, GoesNowhere DEF Before, Untold
    <2>2. CASE ~F.rts_received
        BY <1>1, <2>2, ShortFlowGoes DEF Before
    <2>3. QED
        BY <2>1, <2>2
<1>3. B \in FlowStates /\ Good(B, f) /\ ~B.finished
    BY <1>2 DEF Goes, Good, Untold
<1>4. m \in Packets
    BY PartsOf
<1>5. ASSUME B.token_goal = Size[f] PROVE m.data < Asked(B, f)
    <2>1. F.token_goal = Size[f] /\ Asked(B, f) >= Asked(F, f)
        BY <1>2, <1>5 DEF Goes
    <2>2. m.data < Asked(F, f)
        BY <2>1, PartsOf
    <2>3. m.data \in Nat /\ Asked(F, f) \in Nat /\ Asked(B, f) \in Nat
        BY <1>1, <1>3, <1>4, InitSize DEF Asked, FlowStates, Packets
    <2>4. QED
        BY <2>1, <2>2, <2>3
<1> HIDE DEF B, F
<1>6. /\ Goes(B, G, f)
      /\ G.received_count = W.received_count
      /\ G.received_count = (IF m.data \in B.packets_received THEN B.received_count ELSE B.received_count + 1)
      /\ G.finished_at_receiver <=> G.received_count >= Size[f]
      /\ G.finished = B.finished /\ G.finish_events = B.finish_events
    BY <1>2, <1>3, <1>4, <1>5, ReceivedGoes
<1>7. Goes(F, G, f)
    <2>1. G \in FlowStates
        BY <1>6 DEF Goes
    <2> HIDE DEF G
    <2>2. QED
        BY <1>1, <1>2, <1>3, <1>6, <2>1, GoesOn
<1>8. flow' = [flow EXCEPT ![f] = G]
    <2>1. \/ /\ W.received_count >= Size[f]
             /\ flow' = [flow EXCEPT ![f] = [W EXCEPT !.finished_at_receiver = TRUE]]
          \/ W.received_count < Size[f] /\ flow' = [flow EXCEPT ![f] = W]
        BY DEF TakeData, B, F, Before, PimInv, TypeOK
    <2>2. G = [W EXCEPT !.finished_at_receiver = (W.received_count >= Size[f])]
        BY DEF Received
    <2>3. ASSUME W.received_count < Size[f] PROVE G = W
        <3>1. W.received_count \in Nat /\ Size[f] \in Nat
            BY <1>6, InitSize DEF Goes, FlowStates
        <3>2. ~B.finished_at_receiver
            BY <1>6, <2>3, <3>1 DEF Goes
        <3>3. W.finished_at_receiver = FALSE /\ W = [W EXCEPT !.finished_at_receiver = W.finished_at_receiver]
            BY <1>3, <3>2 DEF WithData, FlowStates
        <3>4. (W.received_count >= Size[f]) = FALSE
            BY <2>3, <3>1
        <3> HIDE DEF G, W
        <3>5. QED
            BY <2>2, <3>3, <3>4
    <2> HIDE DEF G, W
    <2>4. QED
        BY <2>1, <2>2, <2>3
<1>9. QED
    BY <1>2, <1>6, <1>7, <1>8 DEF Goes, Untold, B, F


\* DATA; the last packet that is missing is acknowledged, and every one after it.
LEMMA ReceiveDataKeeps == ASSUME PimInv, NEW m \in net, ReceiveData(m) PROVE PimInv'
<1>f. PICK f \in Flow : f = m.flow
    BY PartsOf
<1>1. m.type = "data" /\ UNCHANGED << num_links, token_q, pump, faults >>
    BY DEF ReceiveData
<1>2. CASE flow[f].finished
    <2>1. net' = net \ {m} /\ UNCHANGED << flow, queue, hold_on, event >>
        BY <1>f, <1>2 DEF ReceiveData
    <2>2. /\ hold_on' \in Nat /\ pump' \in BOOLEAN /\ IsFiniteSet(token_q') /\ faults' \in 0 .. MaxFaults
          /\ token_q' \in SUBSET {t \in Packets : t.type \in {"init", "token"}}
          /\ net' \subseteq net /\ token_q' \subseteq net \cup token_q
        BY <1>1, <2>1 DEF PimInv, TypeOK
    <2>3. QED
        BY <1>1, <2>1, <2>2, PacketsLeave
<1>3. CASE ~flow[f].finished
    <2> DEFINE G   == Received(Before(f), m)
               W   == WithData(Before(f), m)
               ack == Packet("ack", f, m.seq, 0)
    <2>1. TakeData(m)
        BY <1>f, <1>3 DEF ReceiveData
    <2>2. /\ Goes(flow[f], G, f) /\ flow' = [flow EXCEPT ![f] = G]
          /\ G.finished_at_receiver <=> W.received_count >= Size[f]
        BY <1>f, <1>1, <1>3, <2>1, TakeDataFlow
    <2>3. /\ queue' \subseteq queue
          /\ event' = event \/ \E top \in Flow : event' = Restarted(f, {top})
          /\ \/ W.received_count >= Size[f] /\ net' = (net \ {m}) \cup {ack}
             \/ net' = net \ {m}
          /\ hold_on' \in {hold_on, InitToken(f)}
        BY <1>f, <2>1 DEF TakeData, Before, Candidates, PimInv, TypeOK
    <2> HIDE DEF W, G
    <2>4. ack \in Packets /\ ack.type = "ack" /\ ack.flow = f
        <3>1. m.seq \in Nat /\ 0 \in 0 .. Size[f] - 1
            BY PartsOf, InitSize DEF Packets
        <3>2. QED
            BY <3>1, PacketIs
    <2> HIDE DEF ack
    <2>5. /\ flow' \in [Flow -> FlowStates] /\ flow'[f] = G
          /\ \A g \in Flow : Goes(flow[g], flow'[g], g)
        BY <2>2, OneFlowChanges
    <2>6. /\ event' \in [Link -> Flow \cup {"none", "due"}]
          /\ event["data"] # "none" => event'["data"] # "none"
        <3>1. CASE event' = event
            BY <3>1 DEF PimInv, TypeOK
        <3>2. ASSUME NEW top, event' = Restarted(f, {top}) PROVE <2>6!1 /\ <2>6!2
            BY <3>2, RestartedRuns
        <3>3. QED
            BY <2>3, <3>1, <3>2
    <2>7. hold_on' \in Nat /\ queue' \subseteq Flow /\ net' \in SUBSET Packets
        BY <2>3, <2>4, InitSize DEF PimInv, TypeOK
    <2>8. TypeOK'
        BY <1>1, <2>5, <2>6, <2>7 DEF PimInv, TypeOK
    <2>9. LinkAwake'
        BY <1>1, <2>3, <2>5, <2>6, AwakeRemains
    <2>10. \A g \in queue' : flow'[g].rts_received
        BY <2>3, <2>5, PartsOf DEF Goes
    <2>11. \A c \in net' : c.type = "ack" => c \in net \/ flow'[c.flow].finished_at_receiver
        BY <2>2, <2>3, <2>4, <2>5
    <2>12. \A c \in net' \cup token_q' : c.type \in {"init", "token", "data"} => c \in net \cup token_q
        BY <1>1, <2>3, <2>4
    <2>13. QED
        BY <2>5, <2>8, <2>9, <2>10, <2>11, <2>12, InvKeeps
<1>4. QED
    BY <1>2, <1>3

\* The turn of a link.
LEMMA TokenGoes ==
    ASSUME PimInv, NEW l \in Link, NEW f \in Candidates(flow), f \in Flow
    PROVE  /\ Goes(flow[f], Taken(flow[f], f, num_links[l]), f)
           /\ Untold(flow[f], Taken(flow[f], f, num_links[l]))
           /\ Goes(flow[f], WithToken(Taken(flow[f], f, num_links[l]), f), f)
           /\ Untold(flow[f], WithToken(Taken(flow[f], f, num_links[l]), f))
           /\ NextToken(Taken(flow[f], f, num_links[l]), f) \in 0 .. Size[f] - 1
           /\ WithToken(Taken(flow[f], f, num_links[l]), f).token_goal = Size[f]
              => NextToken(Taken(flow[f], f, num_links[l]), f)
                 < Asked(WithToken(Taken(flow[f], f, num_links[l]), f), f)
           /\ Taken(flow[f], f, num_links[l]).token_count \in Nat
<1> DEFINE F == flow[f]
           n == num_links[l]
           T == Taken(F, f, n)
           G == WithToken(T, f)
<1>1. /\ Good(F, f) /\ F \in FlowStates /\ F.rts_received /\ ~F.finished_at_receiver
      /\ F.redundancy # "waiting" /\ n \in Nat
    BY PartsOf DEF Candidates, Finished, PimInv, TypeOK
<1> HIDE DEF F, n
<1>2. Goes(F, T, f) /\ Untold(F, T) /\ T.redundancy = "none"
    BY <1>1, TakenGoes
<1>3. /\ Good(T, f) /\ T \in FlowStates /\ T.rts_received /\ ~T.finished_at_receiver
      /\ T.token_count \in Nat
    BY <1>1, <1>2 DEF Goes, Good, Untold, FlowStates
<1> HIDE DEF T
<1>4. /\ Goes(T, G, f) /\ Untold(T, G) /\ NextToken(T, f) \in 0 .. Size[f] - 1
      /\ G.token_goal = Size[f] => NextToken(T, f) < Asked(G, f)
    BY <1>2, <1>3, WithTokenGoes
<1>5. G \in FlowStates
    BY <1>4 DEF Goes
<1> HIDE DEF G
<1>6. Goes(F, G, f)
    BY <1>1, <1>2, <1>3, <1>4, <1>5, GoesOn
<1>7. Untold(F, G)
    BY <1>2, <1>4 DEF Untold
<1>8. QED
    BY <1>2, <1>3, <1>4, <1>6, <1>7 DEF T, F, n, G

\* A link's turn, in which a flow becomes G.
LEMMA LinkTurnKeeps ==
    ASSUME PimInv, NEW f \in Flow, NEW G, Goes(flow[f], G, f), flow' = [flow EXCEPT ![f] = G],
           queue' \subseteq queue, event' \in [Link -> Flow \cup {"none", "due"}],
           event["data"] # "none" => event'["data"] # "none",
           UNCHANGED << hold_on, num_links, token_q, pump, faults >>,
           net' \in SUBSET Packets,
           \A m \in net' : m \in net \/ (m.type = "token" /\ m.flow = f
                                         /\ (G.token_goal = Size[f] => m.data < Asked(G, f)))
    PROVE  PimInv'
<1>1. /\ flow' \in [Flow -> FlowStates] /\ flow'[f] = G
      /\ \A g \in Flow : Goes(flow[g], flow'[g], g)
    BY OneFlowChanges
<1>2. TypeOK'
    BY <1>1 DEF PimInv, TypeOK
<1>3. LinkAwake'
    BY <1>1, AwakeRemains
<1>4. \A g \in queue' : flow'[g].rts_received
    BY <1>1, PartsOf DEF Goes
<1>5. QED
    BY <1>1, <1>2, <1>3, <1>4, InvKeeps

LEMMA SendTokenKeeps == ASSUME PimInv, NEW l \in Link, SendToken(l) PROVE PimInv'
<1>1. event[l] = "due" /\ UNCHANGED << num_links, token_q, pump, faults >>
    BY DEF SendToken
<1>2. CASE Hold(l)
    <2>1. /\ hold_on' \in Nat /\ pump' \in BOOLEAN /\ IsFiniteSet(token_q') /\ faults' \in 0 .. MaxFaults
          /\ token_q' \in SUBSET {t \in Packets : t.type \in {"init", "token"}}
          /\ net' \subseteq net /\ token_q' \subseteq net \cup token_q
          /\ UNCHANGED << flow, queue, event >>
        BY <1>1, <1>2 DEF PimInv, TypeOK, Hold
    <2>2. QED
        BY <1>1, <2>1, PacketsLeave
<1>3. CASE /\ num_links[l] = 0 \/ (hold_on = 0 /\ Candidates(flow) = {})
           /\ event' = [event EXCEPT ![l] = "none"]
           /\ queue' = IF num_links[l] = 0 THEN queue ELSE queue \ Finished(flow)
           /\ UNCHANGED << flow, hold_on, net >>
    <2>1. flow' \in [Flow -> FlowStates] /\ \A g \in Flow : Goes(flow[g], flow'[g], g)
        BY <1>3, NoFlowChanges
    <2>2. /\ queue' \subseteq queue /\ event' \in [Link -> Flow \cup {"none", "due"}]
        BY <1>3 DEF PimInv, TypeOK
    <2>3. TypeOK'
        BY <1>1, <1>3, <2>1, <2>2 DEF PimInv, TypeOK
    <2>4. LinkAwake'
        <3>1. CASE l = "data"
            <4>1. SUFFICES ASSUME num_links'["data"] > 0, HasWaited' = {}, Candidates(flow)' # {} PROVE FALSE
                BY DEF LinkAwake
            <4>2. num_links["data"] # 0
                BY <1>1, <4>1
            <4>3. Candidates(flow) = {}
                BY <1>3, <3>1, <4>2
            <4>4. HasWaited = {}
                BY <2>1, <4>1, WaitedRemains
            <4>5. queue = {}
                BY <4>3, <4>4, QueueIsCandidates
            <4>6. QED
                BY <2>2, <4>1, <4>5 DEF Candidates
        <3>2. CASE l # "data"
            <4>1. event'["data"] = event["data"]
                BY <1>3, <3>2 DEF PimInv, TypeOK, Link
            <4>2. QED
                BY <1>1, <2>1, <2>2, <4>1, AwakeRemains
        <3>3. QED
            BY <3>1, <3>2
    <2>5. \A g \in queue' : flow'[g].rts_received
        BY <1>3, <2>2, PartsOf
    <2>6. QED
        BY <1>1, <1>3, <2>1, <2>3, <2>4, <2>5, InvKeeps
<1>4. ASSUME NEW f \in Candidates(flow), queue' \subseteq queue, hold_on' = hold_on,
             IF MaySend(Taken(flow[f], f, num_links[l]), num_links[l])
             THEN TokenFor(f, Taken(flow[f], f, num_links[l]))
             ELSE WaitForWindow(l, f, Taken(flow[f], f, num_links[l]))
      PROVE  PimInv'
    <2> DEFINE T == Taken(flow[f], f, num_links[l])
               G == WithToken(T, f)
               p == Packet("token", f, T.token_count, NextToken(T, f))
    <2>0. f \in Flow
        BY <1>4 DEF Candidates, PimInv, TypeOK
    <2>1. /\ Goes(flow[f], T, f) /\ Goes(flow[f], G, f)
          /\ NextToken(T, f) \in 0 .. Size[f] - 1 /\ T.token_count \in Nat
          /\ G.token_goal = Size[f] => NextToken(T, f) < Asked(G, f)
        BY <2>0, TokenGoes
    <2>2. p \in Packets /\ p.type = "token" /\ p.flow = f /\ p.data = NextToken(T, f)
        BY <2>0, <2>1, PacketIs
    <2>3. event \in [Link -> Flow \cup {"none", "due"}] /\ "data" \in Link /\ net \in SUBSET Packets
        BY DEF PimInv, TypeOK, Link
    <2>4. TokenFor(f, T) \/ WaitForWindow(l, f, T)
        BY <1>4
    <2> HIDE DEF T
    <2>5. CASE TokenFor(f, T)
        <3>1. /\ flow' = [flow EXCEPT ![f] = G] /\ net' = net \cup {p}
              /\ event' = [i \in Link |-> IF event[i] = f THEN "due" ELSE event[i]]
            BY <2>5 DEF TokenFor
        <3>2. /\ event' \in [Link -> Flow \cup {"none", "due"}]
              /\ event["data"] # "none" => event'["data"] # "none"
            BY <2>3, <3>1
        <3> HIDE DEF G, p
        <3>3. /\ net' \in SUBSET Packets
              /\ \A m \in net' : m \in net \/ (m.type = "token" /\ m.flow = f
                                            /\ (G.token_goal = Size[f] => m.data < Asked(G, f)))
            BY <2>1, <2>2, <2>3, <3>1
        <3>4. UNCHANGED << hold_on, num_links, token_q, pump, faults >>
            BY <1>1, <1>4
        <3>5. Goes(flow[f], G, f) /\ flow' = [flow EXCEPT ![f] = G] /\ queue' \subseteq queue
            BY <1>4, <2>1, <3>1
        <3>6. QED
            BY <2>0, <3>2, <3>3, <3>4, <3>5, LinkTurnKeeps
    <2>6. CASE WaitForWindow(l, f, T)
        <3>1. flow' = [flow EXCEPT ![f] = T] /\ net' = net /\ event' = [event EXCEPT ![l] = f]
            BY <2>6 DEF WaitForWindow
        <3>2. f # "none"
            BY <2>0, TokenAssumption
        <3>3. /\ event' \in [Link -> Flow \cup {"none", "due"}]
              /\ event["data"] # "none" => event'["data"] # "none"
            BY <2>0, <2>3, <3>1, <3>2
        <3>4. QED
            BY <1>1, <1>4, <2>0, <2>1, <2>3, <3>1, <3>3, LinkTurnKeeps
    <2>7. QED
        BY <2>4, <2>5, <2>6
<1>5. QED
    <2>1. CASE /\ num_links[l] > 0 /\ hold_on = 0
               /\ \E f \in Candidates(flow), popped \in SUBSET Finished(flow) :
                     LET F == Taken(flow[f], f, num_links[l])
                     IN  /\ queue' = queue \ popped
                         /\ IF MaySend(F, num_links[l]) THEN TokenFor(f, F) ELSE WaitForWindow(l, f, F)
               /\ UNCHANGED hold_on
        <3>1. PICK f \in Candidates(flow), popped \in SUBSET Finished(flow) :
                  /\ queue' = queue \ popped
                  /\ IF MaySend(Taken(flow[f], f, num_links[l]), num_links[l])
                     THEN TokenFor(f, Taken(flow[f], f, num_links[l]))
                     ELSE WaitForWindow(l, f, Taken(flow[f], f, num_links[l]))
            BY <2>1
        <3>2. queue' \subseteq queue
            BY <3>1
        <3>3. QED
            BY <1>4, <2>1, <3>1, <3>2
    <2>2. QED
        BY <1>2, <1>3, <2>1 DEF SendToken

\* The matching changes the links, and with those of a new data phase starts the chain.
LEMMA LinksKeep ==
    ASSUME PimInv, UNCHANGED << flow, queue, hold_on, token_q, pump, net, faults >>,
           num_links' \in [Link -> 0 .. K], event' \in [Link -> Flow \cup {"none", "due"}],
           num_links'["data"] > 0 => \/ event'["data"] = "due"
                                     \/ num_links'["data"] = num_links["data"] /\ event'["data"] = event["data"]
    PROVE  PimInv'
<1>1. flow' \in [Flow -> FlowStates] /\ \A g \in Flow : Goes(flow[g], flow'[g], g)
    BY NoFlowChanges
<1>2. TypeOK'
    BY <1>1 DEF PimInv, TypeOK
<1>3. LinkAwake'
    <2>1. SUFFICES ASSUME num_links'["data"] > 0, HasWaited' = {}, Candidates(flow)' # {}
                   PROVE  event'["data"] # "none"
        BY DEF LinkAwake
    <2>2. HasWaited = {} /\ Candidates(flow) # {}
        BY <2>1 DEF HasWaited, Candidates, Finished
    <2>3. QED
        BY <2>1, <2>2 DEF PimInv, LinkAwake
<1>4. \A g \in queue' : flow'[g].rts_received
    BY PartsOf
<1>5. QED
    BY <1>1, <1>2, <1>3, <1>4, InvKeeps


LEMMA MatchingKeeps ==
    ASSUME PimInv,
           (\E n \in 0 .. K : NewDataPhase(n)) \/ (\E n \in 1 .. K : PromptAccepted(n)) \/ PromptReturned
    PROVE  PimInv'
<1>t. /\ num_links \in [Link -> 0 .. K] /\ event \in [Link -> Flow \cup {"none", "due"}]
      /\ Link = {"data", "prompt"} /\ K \in Nat
    BY TokenAssumption DEF PimInv, TypeOK, Link
<1>1. ASSUME NEW n \in 0 .. K, NewDataPhase(n) PROVE PimInv'
    <2>1. /\ num_links' = [l \in Link |-> IF l = "data" THEN n ELSE 0]
          /\ event' = [l \in Link |-> IF l = "data" /\ n > 0 THEN "due" ELSE "none"]
        BY <1>1 DEF NewDataPhase
    <2>2. UNCHANGED << flow, queue, hold_on, token_q, pump, net, faults >>
        BY <1>1 DEF NewDataPhase
    <2>3. num_links' \in [Link -> 0 .. K] /\ event' \in [Link -> Flow \cup {"none", "due"}]
        BY <1>t, <2>1
    <2>4. num_links'["data"] > 0 => event'["data"] = "due"
        BY <1>t, <2>1
    <2>5. QED
        BY <2>2, <2>3, <2>4, LinksKeep
<1>2. ASSUME NEW n \in 1 .. K, PromptAccepted(n) PROVE PimInv'
    <2>1. /\ num_links["data"] + num_links["prompt"] + n <= K
          /\ num_links' = [num_links EXCEPT !["prompt"] = @ + n]
          /\ event' = [event EXCEPT !["prompt"] = "due"]
          /\ UNCHANGED << flow, queue, hold_on, token_q, pump, net, faults >>
        BY <1>2 DEF PromptAccepted
    <2>2. num_links["prompt"] + n \in 0 .. K
        BY <1>t, <2>1
    <2>3. num_links' \in [Link -> 0 .. K] /\ event' \in [Link -> Flow \cup {"none", "due"}]
        BY <1>t, <2>1, <2>2
    <2>4. num_links'["data"] = num_links["data"] /\ event'["data"] = event["data"]
        BY <1>t, <2>1
    <2>5. QED
        BY <2>1, <2>3, <2>4, LinksKeep
<1>3. ASSUME PromptReturned PROVE PimInv'
    <2>1. /\ num_links' = [num_links EXCEPT !["prompt"] = 0]
          /\ event' = [event EXCEPT !["prompt"] = "none"]
          /\ UNCHANGED << flow, queue, hold_on, token_q, pump, net, faults >>
        BY <1>3 DEF PromptReturned
    <2>2. num_links' \in [Link -> 0 .. K] /\ event' \in [Link -> Flow \cup {"none", "due"}]
        BY <1>t, <2>1
    <2>3. num_links'["data"] = num_links["data"] /\ event'["data"] = event["data"]
        BY <1>t, <2>1
    <2>4. QED
        BY <2>1, <2>2, <2>3, LinksKeep
<1>4. QED
    BY <1>1, <1>2, <1>3

\* Timeouts.
LEMMA TimeoutKeeps ==
    ASSUME PimInv, NEW f \in Flow, ResendTimeout(f) \/ WindowTimeout(f) PROVE PimInv'
<1> DEFINE met == [flow[f] EXCEPT !.redundancy = "met"]
           old == [flow[f] EXCEPT !.window_old = TRUE]
<1>1. faults' \in 0 .. MaxFaults
    <2>1. Timely(f)
        BY DEF ResendTimeout, WindowTimeout
    <2>2. QED
        BY <2>1, TokenBoundsAssumption DEF Timely, PimInv, TypeOK
<1>2. UNCHANGED << queue, hold_on, num_links, token_q, pump, net >>
    BY DEF ResendTimeout, WindowTimeout
<1>3. PICK G : G \in {met, old} /\ Goes(flow[f], G, f) /\ flow' = [flow EXCEPT ![f] = G]
    <2>1. CASE ResendTimeout(f)
        <3>1. flow[f].redundancy = "waiting" /\ flow' = [flow EXCEPT ![f] = met]
            BY <2>1 DEF ResendTimeout
        <3>2. Goes(flow[f], met, f)
            BY <3>1, PartsOf, MetGoes
        <3>3. QED
            BY <3>1, <3>2
    <2>2. CASE WindowTimeout(f)
        <3>1. flow' = [flow EXCEPT ![f] = old]
            BY <2>2 DEF WindowTimeout
        <3>2. Goes(flow[f], old, f)
            BY PartsOf, StartedGoes
        <3>3. QED
            BY <3>1, <3>2
    <2>3. QED
        BY <2>1, <2>2
<1>4. /\ event' \in [Link -> Flow \cup {"none", "due"}]
      /\ event["data"] # "none" => event'["data"] # "none"
    <2>1. event' = event \/ event' = [l \in Link |-> IF event[l] = f THEN "due" ELSE event[l]]
        BY DEF ResendTimeout, WindowTimeout
    <2>2. event \in [Link -> Flow \cup {"none", "due"}] /\ "data" \in Link
        BY DEF PimInv, TypeOK, Link
    <2>3. QED
        BY <2>1, <2>2
<1>5. /\ flow' \in [Flow -> FlowStates]
      /\ \A g \in Flow : Goes(flow[g], flow'[g], g)
    BY <1>3, OneFlowChanges
<1>6. TypeOK'
    BY <1>1, <1>2, <1>4, <1>5 DEF PimInv, TypeOK
<1>7. LinkAwake'
    BY <1>2, <1>4, <1>5, AwakeRemains
<1>8. \A g \in queue' : flow'[g].rts_received
    BY <1>2, <1>5, PartsOf DEF Goes
<1>9. QED
    BY <1>2, <1>5, <1>6, <1>7, <1>8, InvKeeps

\* Every step keeps the invariant.
LEMMA StepKeeps == PimInv /\ [Next]_vars => PimInv'
<1> SUFFICES ASSUME PimInv, [Next]_vars PROVE PimInv'
    OBVIOUS
<1>1. ASSUME NEW f \in Flow, StartFlow(f) PROVE PimInv'
    BY <1>1, StartFlowKeeps
<1>2. ASSUME NEW f \in Flow, ResendTimeout(f) \/ WindowTimeout(f) PROVE PimInv'
    BY <1>2, TimeoutKeeps
<1>3. ASSUME NEW m \in net, ReceiveToken(m) \/ ReceiveAck(m) PROVE PimInv'
    BY <1>3, ReceiveTokenKeeps, ReceiveAckKeeps
<1>4. ASSUME NEW m \in net, ReceiveRts(m) \/ ReceiveData(m) PROVE PimInv'
    BY <1>4, ReceiveRtsKeeps, ReceiveDataKeeps
<1>5. ASSUME NEW m \in net, Lose(m) PROVE PimInv'
    BY <1>5, LoseKeeps
<1>6. CASE SenderTurn
    BY <1>6, SenderTurnKeeps
<1>7. ASSUME NEW l \in Link, SendToken(l) PROVE PimInv'
    BY <1>7, SendTokenKeeps
<1>8. CASE (\E n \in 0 .. K : NewDataPhase(n)) \/ (\E n \in 1 .. K : PromptAccepted(n)) \/ PromptReturned
    BY <1>8, MatchingKeeps
<1>9. CASE UNCHANGED vars
    <2>1. /\ hold_on' \in Nat /\ pump' \in BOOLEAN /\ IsFiniteSet(token_q') /\ faults' \in 0 .. MaxFaults
          /\ token_q' \in SUBSET {t \in Packets : t.type \in {"init", "token"}}
          /\ net' \subseteq net /\ token_q' \subseteq net \cup token_q
          /\ UNCHANGED << flow, queue, num_links, event >>
        BY <1>9 DEF PimInv, TypeOK, vars
    <2>2. QED
        BY <2>1, PacketsLeave
<1>10. QED
    BY <1>1, <1>2, <1>3, <1>4, <1>5, <1>6, <1>7, <1>8, <1>9 DEF Next

-----------------------------------------------------------------------------
(* The theorems about the data phase                                       *)

\* The invariant behind the theorems holds at all times, whatever is lost, expires or is
\* timed out early, and whatever links the matching gives (ext/pimhost.cpp, pimflow.cpp).
THEOREM PimInvariant == Spec => []PimInv
<1>1. Init => PimInv
    BY InitInv
<1>2. PimInv /\ [Next]_vars => PimInv'
    BY StepKeeps
<1>3. QED
    BY <1>1, <1>2, PTL DEF Spec

\* The variables stay within their types.
THEOREM PimTypes == Spec => []TypeOK
<1>1. PimInv => TypeOK
    BY DEF PimInv
<1>2. QED
    BY <1>1, PimInvariant, PTL

\* Before its resend timeout no packet of a flow is asked for twice, for every window,
\* number of links and loss (the test for the last packet in send_token).
THEOREM TokensStayWithinGoal == Spec => []TokensWithinGoal
<1>1. PimInv => TokensWithinGoal
    BY PartsOf DEF TokensWithinGoal, Good, RoundOf
<1>2. QED
    BY <1>1, PimInvariant, PTL

\* While no flow of the pair has waited for its resend timeout, a flow that may have a
\* token finds the chain of a linked pair running (receive_rts and send_token).
THEOREM LinkStaysAwake == Spec => []LinkAwake
<1>1. PimInv => LinkAwake
    BY DEF PimInv
<1>2. QED
    BY <1>1, PimInvariant, PTL

-----------------------------------------------------------------------------
(* The transfer of each flow                                               *)

\* A step delivers a packet of a flow, or finishes the flow, or leaves it as it is.
Told(F, G, f) ==
    \/ G.received_count = F.received_count /\ G.finished = F.finished /\ G.finish_events = F.finish_events
    \/ /\ F.received_count < Size[f] /\ G.received_count = F.received_count + 1
       /\ G.finished = F.finished /\ G.finish_events = F.finish_events
    \/ /\ F.received_count = Size[f] /\ ~F.finished /\ G.finished
       /\ G.received_count = F.received_count /\ G.finish_events = F.finish_events + 1

\* It suffices to look at the flow that changes.
LEMMA OneFlowTells ==
    ASSUME PimInv, NEW f \in Flow, NEW g \in Flow, NEW G, flow' = [flow EXCEPT ![g] = G],
           g = f => Told(flow[f], G, f)
    PROVE  Told(flow[f], flow'[f], f)
<1>1. flow'[f] = IF g = f THEN G ELSE flow[f]
    BY DEF PimInv, TypeOK
<1>2. QED
    BY <1>1 DEF Told

LEMMA DataTells ==
    ASSUME PimInv, NEW m \in net, ReceiveData(m), NEW f \in Flow
    PROVE  Told(flow[f], flow'[f], f)
<1>1. PICK g \in Flow : g = m.flow
    BY PartsOf
<1>2. CASE flow[g].finished
    BY <1>1, <1>2 DEF ReceiveData, Told
<1>3. CASE ~flow[g].finished
    <2> DEFINE G == Received(Before(g), m)
    <2>1. m.type = "data" /\ TakeData(m)
        BY <1>1, <1>3 DEF ReceiveData
    <2>2. /\ Goes(flow[g], G, g) /\ flow' = [flow EXCEPT ![g] = G]
          /\ G.received_count = flow[g].received_count \/ G.received_count = flow[g].received_count + 1
          /\ G.finished = flow[g].finished /\ G.finish_events = flow[g].finish_events
        BY <1>1, <1>3, <2>1, TakeDataFlow
    <2> HIDE DEF G
    <2>3. G.received_count <= Size[g] /\ flow[g].received_count \in Nat /\ Size[g] \in Nat
        BY <2>2, PartsOf, InitSize DEF Goes, CountOf, FlowStates
    <2>4. Told(flow[g], G, g)
        BY <2>2, <2>3 DEF Told
    <2>5. QED
        BY <2>2, <2>4, OneFlowTells
<1>4. QED
    BY <1>2, <1>3

LEMMA AckTells ==
    ASSUME PimInv, NEW m \in net, ReceiveAck(m), NEW f \in Flow
    PROVE  Told(flow[f], flow'[f], f)
<1>1. PICK g \in Flow : g = m.flow
    BY PartsOf
<1>2. flow[g].finished_at_receiver
    BY <1>1, PartsOf DEF ReceiveAck
<1>3. CASE flow[g].finished
    BY <1>1, <1>3 DEF ReceiveAck, Told
<1>4. CASE ~flow[g].finished
    <2>1. flow' = [flow EXCEPT ![g] = Acked(flow[g])]
        BY <1>1, <1>4 DEF ReceiveAck, Acked
    <2>2. /\ Acked(flow[g]).finished /\ Acked(flow[g]).finish_events = flow[g].finish_events + 1
          /\ Acked(flow[g]).received_count = flow[g].received_count
        BY <1>2, <1>4, PartsOf, AckedGoes
    <2>3. flow[g].received_count = Size[g]
        BY <1>2, PartsOf DEF Good, CountOf
    <2>4. Told(flow[g], Acked(flow[g]), g)
        BY <1>4, <2>2, <2>3 DEF Told
    <2>5. QED
        BY <2>1, <2>4, OneFlowTells
<1>5. QED
    BY <1>3, <1>4

\* What the others change of a flow they change in silence.
LEMMA QuietTells ==
    ASSUME PimInv, NEW f \in Flow, NEW g \in Flow, NEW G, flow' = [flow EXCEPT ![g] = G], Untold(flow[g], G)
    PROVE  Told(flow[f], flow'[f], f)
<1>1. Told(flow[g], G, g)
    BY DEF Told, Untold
<1>2. QED
    BY <1>1, OneFlowTells

LEMMA RtsTells ==
    ASSUME PimInv, NEW m \in net, ReceiveRts(m), NEW f \in Flow
    PROVE  Told(flow[f], flow'[f], f)
<1>1. PICK g \in Flow : g = m.flow
    BY PartsOf
<1>2. CASE UNCHANGED flow
    BY <1>2 DEF Told
<1>3. CASE flow' = [flow EXCEPT ![g] = [flow[g] EXCEPT !.rts_received = TRUE]]
    <2>1. Untold(flow[g], [flow[g] EXCEPT !.rts_received = TRUE])
        BY PartsOf DEF Untold, FlowStates
    <2>2. QED
        BY <1>3, <2>1, QuietTells
<1>4. CASE flow' = [flow EXCEPT ![g] = ShortFlow(flow[g], g)] /\ ~flow[g].rts_received
    <2>1. Untold(flow[g], ShortFlow(flow[g], g))
        BY <1>4, PartsOf, ShortFlowGoes
    <2>2. QED
        BY <1>4, <2>1, QuietTells
<1>5. QED
    BY <1>1, <1>2, <1>3, <1>4 DEF ReceiveRts

LEMMA TurnTells ==
    ASSUME PimInv, NEW l \in Link, SendToken(l), NEW f \in Flow
    PROVE  Told(flow[f], flow'[f], f)
<1>1. CASE UNCHANGED flow
    BY <1>1 DEF Told
<1>2. CASE \E g \in Candidates(flow) :
              \/ flow' = [flow EXCEPT ![g] = Taken(flow[g], g, num_links[l])]
              \/ flow' = [flow EXCEPT ![g] = WithToken(Taken(flow[g], g, num_links[l]), g)]
    <2>1. PICK g \in Candidates(flow) :
              \/ flow' = [flow EXCEPT ![g] = Taken(flow[g], g, num_links[l])]
              \/ flow' = [flow EXCEPT ![g] = WithToken(Taken(flow[g], g, num_links[l]), g)]
        BY <1>2
    <2>2. g \in Flow
        BY DEF Candidates, PimInv, TypeOK
    <2>3. /\ Untold(flow[g], Taken(flow[g], g, num_links[l]))
          /\ Untold(flow[g], WithToken(Taken(flow[g], g, num_links[l]), g))
        BY <2>2, TokenGoes
    <2>4. QED
        BY <2>1, <2>2, <2>3, QuietTells
<1>3. QED
    BY <1>1, <1>2 DEF SendToken, Hold, TokenFor, WaitForWindow

LEMMA StepTells ==
    ASSUME PimInv, [Next]_vars, NEW f \in Flow PROVE Told(flow[f], flow'[f], f)
<1>1. CASE UNCHANGED flow
    BY <1>1 DEF Told
<1>2. ASSUME NEW g \in Flow, StartFlow(g) \/ ResendTimeout(g) \/ WindowTimeout(g)
      PROVE  Told(flow[f], flow'[f], f)
    <2>1. PICK G \in { [flow[g] EXCEPT !.started = TRUE], [flow[g] EXCEPT !.redundancy = "met"],
                       [flow[g] EXCEPT !.window_old = TRUE] } : flow' = [flow EXCEPT ![g] = G]
        BY <1>2 DEF StartFlow, ResendTimeout, WindowTimeout
    <2>2. Untold(flow[g], G)
        BY PartsOf DEF Untold, FlowStates
    <2>3. QED
        BY <2>1, <2>2, QuietTells
<1>3. ASSUME NEW m \in net, ReceiveToken(m) \/ ReceiveAck(m) \/ ReceiveRts(m) \/ ReceiveData(m) \/ Lose(m)
      PROVE  Told(flow[f], flow'[f], f)
    <2>1. CASE ReceiveToken(m) \/ Lose(m)
        BY <1>1, <2>1 DEF ReceiveToken, Lose
    <2>2. QED
        BY <1>3, <2>1, AckTells, RtsTells, DataTells
<1>4. ASSUME NEW l \in Link, SendToken(l) PROVE Told(flow[f], flow'[f], f)
    BY <1>4, TurnTells
<1>5. CASE UNCHANGED vars \/ SenderTurn \/ PromptReturned \/ (\E n \in 0 .. K : NewDataPhase(n))
           \/ (\E n \in 1 .. K : PromptAccepted(n))
    BY <1>1, <1>5 DEF vars, SenderTurn, PromptReturned, NewDataPhase, PromptAccepted
<1>6. QED
    BY <1>2, <1>3, <1>4, <1>5 DEF Next

Transferred(f) == INSTANCE AckedTransfer WITH
    PacketCount <- Size[f],
    delivered   <- Delivered(f),
    complete    <- flow[f].finished,
    announced   <- flow[f].finish_events

\* Without its liveness, each flow is a transfer with acknowledgements: its packets are
\* counted one at a time and once each, and after all of them it finishes and posts the
\* FlowFinishedEvent once, whatever the matching does to the links (PimFlow::receive).
THEOREM FlowIsTransfer == ASSUME NEW f \in Flow PROVE Spec => Transferred(f)!SafeTransfer
<1>1. Init => Transferred(f)!TransferInit
    BY FS_EmptySet DEF Init, NewFlow, Delivered, Transferred!TransferInit
<1>2. PimInv => Delivered(f) = flow[f].received_count
    BY PartsOf DEF Good, CountOf, Delivered
<1>3. PimInv /\ PimInv' /\ [Next]_vars
      => [Transferred(f)!TransferNext]_(Transferred(f)!transferVars)
    <2> SUFFICES ASSUME PimInv, PimInv', [Next]_vars
                 PROVE  [Transferred(f)!TransferNext]_(Transferred(f)!transferVars)
        OBVIOUS
    <2>1. Delivered(f) = flow[f].received_count /\ Delivered(f)' = flow'[f].received_count
        BY <1>2 DEF PimInv, CountsTrue, CountOf, Delivered
    <2>2. Told(flow[f], flow'[f], f)
        BY StepTells
    <2>3. QED
        BY <2>1, <2>2 DEF Told, Transferred!TransferNext, Transferred!Deliver,
                          Transferred!Complete, Transferred!transferVars
<1>4. QED
    BY <1>1, <1>3, PimInvariant, PTL DEF Spec, Transferred!SafeTransfer
=============================================================================
