-------------------------- MODULE InductionLemmas --------------------------
(***************************************************************************)
(* Lemmas the proofs about the components share: least elements, recursion *)
(* along a chain, and sums over finite sets.                               *)
(*                                                                         *)
(* Each is induction over data, done by infinite descent: of the numbers,  *)
(* or of the finite sets, that break a claim there would be a least one.   *)
(* Steps and weights are functions, so that no lemma has an operator for a *)
(* parameter.                                                              *)
(***************************************************************************)
EXTENDS Integers, FiniteSets, FiniteSetsExt, FiniteSetTheorems, WellFoundedInduction, TLAPS

\* Among finite sets there is one that no other of them is a part of.
LEMMA SmallestSet ==
    ASSUME NEW S, IsFiniteSet(S), NEW T, T \subseteq SUBSET S, T # {}
    PROVE  \E s \in T : \A t \in T : t \subseteq s => t = s
<1>1. T \subseteq FiniteSubsetsOf(S)
  <2> SUFFICES ASSUME NEW t \in T PROVE t \in FiniteSubsetsOf(S)
    OBVIOUS
  <2>1. IsFiniteSet(t)
    BY FS_Subset
  <2> QED
    BY <2>1 DEF FiniteSubsetsOf
<1>2. PICK s \in T : \A t \in T : ~(<<t, s>> \in StrictSubsetOrdering(S))
  BY <1>1, FS_StrictSubsetOrderingWellFounded, WFMin
<1>3. ASSUME NEW t \in T, t \subseteq s, t # s PROVE FALSE
  BY <1>2, <1>3 DEF StrictSubsetOrdering
<1> QED
  BY <1>3

\* A set of numbers has its least: of the sets of those below one of them, take one that
\* is minimal under inclusion.
LEMMA LeastOf ==
    ASSUME NEW S \in SUBSET Nat, S # {}
    PROVE  /\ Min(S) \in S
           /\ \A n \in S : Min(S) <= n
<1> DEFINE Below(n) == {m \in S : m < n}
           T == {Below(n) : n \in S}
<1>1. T \subseteq FiniteSubsetsOf(S)
  <2> SUFFICES ASSUME NEW n \in S PROVE Below(n) \in FiniteSubsetsOf(S)
    OBVIOUS
  <2>1. \A k \in Nat : k < n => k \in 0 .. n
    OBVIOUS
  <2>4. Below(n) \subseteq 0 .. n
    BY <2>1
  <2>2. IsFiniteSet(0 .. n)
    BY FS_Interval
  <2>3. IsFiniteSet(Below(n))
    BY <2>2, <2>4, FS_Subset
  <2> QED
    BY <2>3 DEF FiniteSubsetsOf
<1>2. T # {}
  OBVIOUS
<1>3. PICK x \in T : \A y \in T : ~(<<y, x>> \in StrictSubsetOrdering(S))
  <2> HIDE DEF T
  <2> QED
    BY <1>1, <1>2, FS_StrictSubsetOrderingWellFounded, WFMin
<1>4. PICK n \in S : x = Below(n)
  OBVIOUS
<1>5. ASSUME NEW m \in S, m < n PROVE FALSE
  <2>4. \A k \in Nat : k < m => k < n
    BY <1>5
  <2>3. ~(m < m)
    OBVIOUS
  <2>1. Below(m) \subseteq Below(n) /\ m \in Below(n) /\ m \notin Below(m)
    BY <1>5, <2>3, <2>4
  <2>2. <<Below(m), Below(n)>> \in StrictSubsetOrdering(S)
    BY <2>1 DEF StrictSubsetOrdering
  <2> QED
    BY <2>2, <1>3, <1>4
<1>6. \A m \in S : n <= m
  BY <1>5
<1> QED
  BY <1>6 DEF Min
-----------------------------------------------------------------------------
(* Recursion along a chain *)

\* f is z where a chain begins, and is made from its value one link before elsewhere.
Follows(f, D, prev, z, step) ==
    f = [p \in D |-> IF prev[p] = p THEN z ELSE step[<<p, f[prev[p]]>>]]

LEMMA FollowsAt ==
    ASSUME NEW D, NEW prev, NEW z, NEW step, NEW f, Follows(f, D, prev, z, step), NEW p \in D
    PROVE  f[p] = IF prev[p] = p THEN z ELSE step[<<p, f[prev[p]]>>]
<1> DEFINE F == [q \in D |-> IF prev[q] = q THEN z ELSE step[<<q, f[prev[q]]>>]]
<1>1. f = F
  BY DEF Follows
<1>2. F[p] = IF prev[p] = p THEN z ELSE step[<<p, f[prev[p]]>>]
  OBVIOUS
<1> HIDE DEF F
<1> QED
  BY <1>1, <1>2

\* There is such a function when every link leads to a lower rank.
LEMMA ChainExists ==
    ASSUME NEW D, NEW prev \in [D -> D], NEW rank \in [D -> Nat], NEW top \in Nat,
           \A p \in D : rank[p] <= top,
           \A p \in D : prev[p] # p => rank[prev[p]] < rank[p],
           NEW z, NEW step
    PROVE  \E f : Follows(f, D, prev, z, step)
<1> DEFINE Low(n) == {p \in D : rank[p] <= n}
           Bad == {n \in Nat : ~ \E f : Follows(f, Low(n), prev, z, step)}
<1>1. Bad = {}
  <2> SUFFICES ASSUME Bad # {} PROVE FALSE
    OBVIOUS
  <2>1. PICK n \in Bad : \A m \in Bad : n <= m
    <3>1. Bad \in SUBSET Nat
      OBVIOUS
    <3> HIDE DEF Bad
    <3> QED
      BY <3>1, LeastOf
  <2>2. n \in Nat /\ ~ \E f : Follows(f, Low(n), prev, z, step)
    OBVIOUS
  <2>3. \E g : \A p \in Low(n) : prev[p] # p =>
                  g[prev[p]] = IF prev[prev[p]] = prev[p] THEN z
                               ELSE step[<<prev[p], g[prev[prev[p]]]>>]
    <3>1. CASE n = 0
      <4>1. ASSUME NEW p \in Low(n) PROVE prev[p] = p
        <5>1. p \in D /\ rank[p] <= 0 /\ rank[p] \in Nat /\ prev[p] \in D /\ rank[prev[p]] \in Nat
          BY <3>1
        <5>2. ~(rank[prev[p]] < rank[p])
          BY <5>1
        <5> QED
          BY <5>1, <5>2
      <4> QED
        BY <4>1
    <3>2. CASE n # 0
      <4>1. n - 1 \in Nat /\ ~(n <= n - 1)
        BY <2>2, <3>2
      <4>2. n - 1 \notin Bad
        BY <2>1, <4>1
      <4>3. PICK g : Follows(g, Low(n - 1), prev, z, step)
        BY <4>1, <4>2
      <4>4. ASSUME NEW p \in Low(n), prev[p] # p PROVE prev[p] \in Low(n - 1)
        <5>1. p \in D /\ rank[p] <= n /\ rank[p] \in Nat /\ prev[p] \in D /\ rank[prev[p]] \in Nat
          OBVIOUS
        <5>2. rank[prev[p]] < rank[p]
          BY <4>4, <5>1
        <5>3. rank[prev[p]] <= n - 1
          BY <2>2, <5>1, <5>2
        <5> QED
          BY <5>1, <5>3
      <4> HIDE DEF Low
      <4>5. \A q \in Low(n - 1) : g[q] = IF prev[q] = q THEN z ELSE step[<<q, g[prev[q]]>>]
        BY <4>3, FollowsAt
      <4> QED
        BY <4>4, <4>5
    <3> QED
      BY <3>1, <3>2
  <2>4. PICK g : \A p \in Low(n) : prev[p] # p =>
                    g[prev[p]] = IF prev[prev[p]] = prev[p] THEN z
                                 ELSE step[<<prev[p], g[prev[prev[p]]]>>]
    BY <2>3
  <2> DEFINE G == [p \in Low(n) |-> IF prev[p] = p THEN z ELSE step[<<p, g[prev[p]]>>]]
             H == [p \in Low(n) |-> IF prev[p] = p THEN z ELSE step[<<p, G[prev[p]]>>]]
  <2>5. ASSUME NEW p \in Low(n), prev[p] # p PROVE G[prev[p]] = g[prev[p]]
    <3>1. p \in D /\ rank[p] <= n /\ rank[p] \in Nat /\ prev[p] \in D /\ rank[prev[p]] \in Nat
      OBVIOUS
    <3>2. rank[prev[p]] < rank[p]
      BY <2>5, <3>1
    <3>3. rank[prev[p]] <= n
      BY <2>2, <3>1, <3>2
    <3>4. prev[p] \in Low(n)
      BY <3>1, <3>3
    <3> HIDE DEF Low
    <3>5. G[prev[p]] = IF prev[prev[p]] = prev[p] THEN z ELSE step[<<prev[p], g[prev[prev[p]]]>>]
      BY <3>4
    <3> HIDE DEF G
    <3> QED
      BY <2>4, <2>5, <3>5
  <2> HIDE DEF Low
  <2>6. \A p \in Low(n) : G[p] = H[p]
    <3>1. ASSUME NEW p \in Low(n) PROVE G[p] = H[p]
      <4>1. G[p] = IF prev[p] = p THEN z ELSE step[<<p, g[prev[p]]>>]
        OBVIOUS
      <4>2. H[p] = IF prev[p] = p THEN z ELSE step[<<p, G[prev[p]]>>]
        OBVIOUS
      <4> HIDE DEF G, H
      <4> QED
        BY <2>5, <4>1, <4>2
    <3> QED
      BY <3>1
  <2>7. G = [p \in Low(n) |-> G[p]] /\ H = [p \in Low(n) |-> H[p]]
    OBVIOUS
  <2>8. Follows(G, Low(n), prev, z, step)
    <3> HIDE DEF G
    <3>1. G = H
      <4> HIDE DEF H
      <4> QED
        BY <2>6, <2>7
    <3> QED
      BY <3>1 DEF Follows
  <2> QED
    BY <2>2, <2>8
<1>2. top \notin Bad
  BY <1>1
<1>3. Low(top) = D
  OBVIOUS
<1> QED
  BY <1>2, <1>3
-----------------------------------------------------------------------------
(* The function behind a sum *)

OneOf(s) == CHOOSE x \in s : TRUE

\* The function that MapThenSumSet builds over the subsets of S.
SumsUp(it, w, S) ==
    it = [s \in SUBSET S |-> IF s = {} THEN 0 ELSE w[OneOf(s)] + it[s \ {OneOf(s)}]]

Total(w, S) == MapThenSumSet(LAMBDA x : w[x], S)

LEMMA OneOfIsMember == ASSUME NEW s, s # {} PROVE OneOf(s) \in s
BY DEF OneOf

LEMMA SumsUpAt ==
    ASSUME NEW S, NEW w, NEW it, SumsUp(it, w, S), NEW s \in SUBSET S
    PROVE  /\ s = {} => it[s] = 0
           /\ s # {} => it[s] = w[OneOf(s)] + it[s \ {OneOf(s)}]
<1> DEFINE F == [t \in SUBSET S |-> IF t = {} THEN 0 ELSE w[OneOf(t)] + it[t \ {OneOf(t)}]]
<1>1. it = F
  BY DEF SumsUp
<1>2. F[s] = IF s = {} THEN 0 ELSE w[OneOf(s)] + it[s \ {OneOf(s)}]
  OBVIOUS
<1> HIDE DEF F
<1> QED
  BY <1>1, <1>2

\* Two such functions agree wherever both are defined.
LEMMA SumsUpAgree ==
    ASSUME NEW A, IsFiniteSet(A), NEW B, NEW w, NEW f, NEW g, SumsUp(f, w, A), SumsUp(g, w, B)
    PROVE  \A s \in SUBSET (A \cap B) : f[s] = g[s]
<1> DEFINE Bad == {s \in SUBSET (A \cap B) : f[s] # g[s]}
<1> SUFFICES ASSUME Bad # {} PROVE FALSE
  OBVIOUS
<1>1. PICK s \in Bad : \A t \in Bad : t \subseteq s => t = s
  <2>1. Bad \subseteq SUBSET A
    OBVIOUS
  <2> HIDE DEF Bad
  <2> QED
    BY <2>1, SmallestSet
<1>2. s \in SUBSET A /\ s \in SUBSET B /\ f[s] # g[s]
  OBVIOUS
<1>3. ASSUME s = {} PROVE FALSE
  <2> HIDE DEF Bad
  <2>1. f[s] = 0
    BY <1>2, <1>3, SumsUpAt
  <2>2. g[s] = 0
    BY <1>2, <1>3, SumsUpAt
  <2> QED
    BY <1>2, <2>1, <2>2
<1>4. s # {} /\ OneOf(s) \in s
  BY <1>3, OneOfIsMember
<1>5. s \ {OneOf(s)} \in SUBSET (A \cap B) /\ s \ {OneOf(s)} # s /\ s \ {OneOf(s)} \subseteq s
  BY <1>4
<1>6. f[s \ {OneOf(s)}] = g[s \ {OneOf(s)}]
  BY <1>1, <1>5
<1> HIDE DEF Bad
<1>7. f[s] = w[OneOf(s)] + f[s \ {OneOf(s)}]
  BY <1>2, <1>4, SumsUpAt
<1>8. g[s] = w[OneOf(s)] + g[s \ {OneOf(s)}]
  BY <1>2, <1>4, SumsUpAt
<1> QED
  BY <1>2, <1>6, <1>7, <1>8

\* There is such a function over the subsets of any finite set.
LEMMA SumsUpExists ==
    ASSUME NEW S, IsFiniteSet(S), NEW w
    PROVE  \E it : SumsUp(it, w, S)
<1> DEFINE Bad == {s \in SUBSET S : ~ \E it : SumsUp(it, w, s)}
<1>1. Bad = {}
  <2> SUFFICES ASSUME Bad # {} PROVE FALSE
    OBVIOUS
  <2>1. PICK s \in Bad : \A t \in Bad : t \subseteq s => t = s
    <3>1. Bad \subseteq SUBSET S
      OBVIOUS
    <3> HIDE DEF Bad
    <3> QED
      BY <3>1, SmallestSet
  <2>2. s \in SUBSET S /\ ~ \E it : SumsUp(it, w, s)
    OBVIOUS
  <2> DEFINE best(t) == CHOOSE it : SumsUp(it, w, t)
             v(t) == best(t)[t]
             G == [t \in SUBSET s |-> IF t = {} THEN 0 ELSE w[OneOf(t)] + v(t \ {OneOf(t)})]
  <2>3. \A t \in SUBSET s : t # s => SumsUp(best(t), w, t)
    <3> SUFFICES ASSUME NEW t \in SUBSET s, t # s PROVE \E it : SumsUp(it, w, t)
      OBVIOUS
    <3>1. t \notin Bad
      BY <2>1
    <3> QED
      BY <2>2, <3>1
  <2> HIDE DEF best
  <2>4. ASSUME NEW t \in SUBSET s, t # {} PROVE v(t \ {OneOf(t)}) = G[t \ {OneOf(t)}]
    <3> DEFINE u == t \ {OneOf(t)}
    <3>1. OneOf(t) \in t
      BY <2>4, OneOfIsMember
    <3>2. u \in SUBSET s /\ u # s
      BY <3>1
    <3>3. SumsUp(best(u), w, u)
      BY <2>3, <3>2
    <3> HIDE DEF u
    <3>4. CASE u = {}
      <4>1. best(u)[u] = 0
        BY <3>3, <3>4, SumsUpAt
      <4> QED
        BY <3>2, <3>4, <4>1 DEF u
    <3>5. CASE u # {}
      <4> DEFINE z == u \ {OneOf(u)}
      <4>1. OneOf(u) \in u
        BY <3>5, OneOfIsMember
      <4>2. z \in SUBSET s /\ z # s /\ z \in SUBSET u
        BY <3>2, <4>1
      <4>3. best(u)[u] = w[OneOf(u)] + best(u)[z]
        BY <3>3, <3>5, SumsUpAt
      <4>4. SumsUp(best(z), w, z)
        BY <2>3, <4>2
      <4>5. IsFiniteSet(u) /\ u \cap z = z
        BY <2>2, <3>2, <4>2, FS_Subset
      <4> HIDE DEF z
      <4>6. \A y \in SUBSET (u \cap z) : best(u)[y] = best(z)[y]
        BY <3>3, <4>4, <4>5, SumsUpAgree
      <4>7. best(u)[z] = best(z)[z]
        BY <4>5, <4>6
      <4>8. G[u] = w[OneOf(u)] + v(z)
        BY <3>2, <3>5 DEF z
      <4> QED
        BY <4>3, <4>7, <4>8 DEF u
    <3> QED
      BY <3>4, <3>5
  <2>5. G = [t \in SUBSET s |-> IF t = {} THEN 0 ELSE w[OneOf(t)] + G[t \ {OneOf(t)}]]
    <3> DEFINE H == [t \in SUBSET s |-> IF t = {} THEN 0 ELSE w[OneOf(t)] + G[t \ {OneOf(t)}]]
    <3>1. \A t \in SUBSET s : G[t] = H[t]
      <4> SUFFICES ASSUME NEW t \in SUBSET s PROVE G[t] = H[t]
        OBVIOUS
      <4>1. G[t] = IF t = {} THEN 0 ELSE w[OneOf(t)] + v(t \ {OneOf(t)})
        OBVIOUS
      <4>2. H[t] = IF t = {} THEN 0 ELSE w[OneOf(t)] + G[t \ {OneOf(t)}]
        BY DEF H
      <4>3. t # {} => v(t \ {OneOf(t)}) = G[t \ {OneOf(t)}]
        BY <2>4
      <4> HIDE DEF v, G, H
      <4> QED
        BY <4>1, <4>2, <4>3
    <3>2. G = [t \in SUBSET s |-> G[t]] /\ H = [t \in SUBSET s |-> H[t]]
      OBVIOUS
    <3> HIDE DEF G, H
    <3>3. G = H
      BY <3>1, <3>2
    <3> QED
      BY <3>3 DEF H
  <2>6. SumsUp(G, w, s)
    <3> HIDE DEF G
    <3> QED
      BY <2>5 DEF SumsUp
  <2> QED
    BY <2>2, <2>6
<1> QED
  BY <1>1
-----------------------------------------------------------------------------
(* Sums *)

\* What MapThenSumSet computes is the value of that function at S, in whichever way the
\* weight of an element is written.
LEMMA TotalIsSum ==
    ASSUME NEW S, IsFiniteSet(S), NEW w, NEW it, SumsUp(it, w, S)
    PROVE  Total(w, S) = it[S]
<1>1. ASSUME NEW j, SumsUp(j, w, S) PROVE j = it
  <2>1. \A s \in SUBSET S : j[s] = it[s]
    <3>1. S \cap S = S
      OBVIOUS
    <3> QED
      BY <1>1, <3>1, SumsUpAgree
  <2>2. j = [s \in SUBSET S |-> j[s]] /\ it = [s \in SUBSET S |-> it[s]]
    BY <1>1 DEF SumsUp
  <2> QED
    BY <2>1, <2>2
<1> QED
  BY <1>1 DEF Total, MapThenSumSet, MapThenFoldSet, SumsUp, OneOf

\* The sum of the weights of S, one of its elements after the other.
LEMMA TotalByOne ==
    ASSUME NEW S, IsFiniteSet(S), NEW w
    PROVE  /\ S = {} => Total(w, S) = 0
           /\ S # {} => Total(w, S) = w[OneOf(S)] + Total(w, S \ {OneOf(S)})
<1>1. PICK it : SumsUp(it, w, S)
  BY SumsUpExists
<1>2. Total(w, S) = it[S]
  BY <1>1, TotalIsSum
<1>3. ASSUME S # {} PROVE it[S \ {OneOf(S)}] = Total(w, S \ {OneOf(S)})
  <2> DEFINE R == S \ {OneOf(S)}
  <2>1. IsFiniteSet(R) /\ R \cap S = R /\ R \in SUBSET (S \cap R)
    BY FS_Subset
  <2> HIDE DEF R
  <2>2. PICK j : SumsUp(j, w, R)
    BY <2>1, SumsUpExists
  <2>3. Total(w, R) = j[R]
    BY <2>1, <2>2, TotalIsSum
  <2>4. it[R] = j[R]
    BY <1>1, <2>1, <2>2, SumsUpAgree
  <2> QED
    BY <2>3, <2>4 DEF R
<1> QED
  BY <1>1, <1>2, <1>3, SumsUpAt

LEMMA TotalType ==
    ASSUME NEW S, IsFiniteSet(S), NEW w, \A x \in S : w[x] \in Nat
    PROVE  Total(w, S) \in Nat
<1> DEFINE Bad == {s \in SUBSET S : Total(w, s) \notin Nat}
<1> SUFFICES ASSUME Bad # {} PROVE FALSE
  OBVIOUS
<1>1. PICK s \in Bad : \A t \in Bad : t \subseteq s => t = s
  <2>1. Bad \subseteq SUBSET S
    OBVIOUS
  <2> HIDE DEF Bad
  <2> QED
    BY <2>1, SmallestSet
<1>2. s \in SUBSET S /\ Total(w, s) \notin Nat /\ IsFiniteSet(s)
  BY FS_Subset
<1>3. s # {}
  BY <1>2, TotalByOne
<1> DEFINE r == s \ {OneOf(s)}
<1>4. OneOf(s) \in s
  BY <1>3, OneOfIsMember
<1>5. r \in SUBSET S /\ r \subseteq s /\ r # s
  BY <1>4
<1>6. Total(w, r) \in Nat
  BY <1>1, <1>5
<1> HIDE DEF r
<1>7. Total(w, s) = w[OneOf(s)] + Total(w, r)
  BY <1>2, <1>3, TotalByOne DEF r
<1>8. w[OneOf(s)] \in Nat
  BY <1>2, <1>4
<1> HIDE DEF Bad
<1> QED
  BY <1>2, <1>6, <1>7, <1>8

\* Any element may be counted first.
LEMMA TotalWithout ==
    ASSUME NEW S, IsFiniteSet(S), NEW w, \A x \in S : w[x] \in Nat, NEW e \in S
    PROVE  Total(w, S) = w[e] + Total(w, S \ {e})
<1> DEFINE Bad == {s \in SUBSET S : \E x \in s : Total(w, s) # w[x] + Total(w, s \ {x})}
<1>1. Bad = {}
  <2> SUFFICES ASSUME Bad # {} PROVE FALSE
    OBVIOUS
  <2>1. PICK s \in Bad : \A t \in Bad : t \subseteq s => t = s
    <3>1. Bad \subseteq SUBSET S
      OBVIOUS
    <3> HIDE DEF Bad
    <3> QED
      BY <3>1, SmallestSet
  <2>2. PICK x \in s : Total(w, s) # w[x] + Total(w, s \ {x})
    OBVIOUS
  <2>3. s \in SUBSET S /\ IsFiniteSet(s)
    BY FS_Subset
  <2> DEFINE y == OneOf(s)
             r == s \ {x}
             q == s \ {y}
  <2>4. y \in s
    BY <2>2, OneOfIsMember
  <2>5. Total(w, s) = w[y] + Total(w, q)
    BY <2>2, <2>3, TotalByOne
  <2>6. x # y
    BY <2>2, <2>5
  <2>7. q \in SUBSET S /\ q \subseteq s /\ q # s /\ x \in q
    BY <2>2, <2>3, <2>4, <2>6
  <2>8. r \in SUBSET S /\ r \subseteq s /\ r # s /\ y \in r
    BY <2>2, <2>3, <2>4, <2>6
  <2>9. q \ {x} = r \ {y}
    OBVIOUS
  <2> HIDE DEF y, r, q
  <2>10. q \notin Bad /\ r \notin Bad
    BY <2>1, <2>7, <2>8
  <2>11. Total(w, q) = w[x] + Total(w, q \ {x})
    BY <2>7, <2>10
  <2>12. Total(w, r) = w[y] + Total(w, r \ {y})
    BY <2>8, <2>10
  <2>13. w[x] \in Nat /\ w[y] \in Nat
    BY <2>2, <2>3, <2>4
  <2>14. Total(w, q \ {x}) \in Nat
    <3>1. IsFiniteSet(q \ {x}) /\ q \ {x} \in SUBSET S
      BY <2>7, FS_Subset
    <3> QED
      BY <3>1, TotalType
  <2>15. Total(w, s) # w[x] + Total(w, r)
    BY <2>2 DEF r
  <2>16. Total(w, r \ {y}) = Total(w, q \ {x})
    BY <2>9
  <2> HIDE DEF Bad
  <2> QED
    BY <2>5, <2>11, <2>12, <2>13, <2>14, <2>15, <2>16
<1>2. S \notin Bad
  BY <1>1
<1> QED
  BY <1>2

\* Only the weights of the elements matter.
LEMMA TotalOfEqual ==
    ASSUME NEW S, IsFiniteSet(S), NEW v, NEW w, \A x \in S : v[x] = w[x]
    PROVE  Total(v, S) = Total(w, S)
<1> DEFINE Bad == {s \in SUBSET S : Total(v, s) # Total(w, s)}
<1> SUFFICES ASSUME Bad # {} PROVE FALSE
  OBVIOUS
<1>1. PICK s \in Bad : \A t \in Bad : t \subseteq s => t = s
  <2>1. Bad \subseteq SUBSET S
    OBVIOUS
  <2> HIDE DEF Bad
  <2> QED
    BY <2>1, SmallestSet
<1>2. s \in SUBSET S /\ Total(v, s) # Total(w, s) /\ IsFiniteSet(s)
  BY FS_Subset
<1>3. s # {}
  BY <1>2, TotalByOne
<1> DEFINE r == s \ {OneOf(s)}
<1>4. OneOf(s) \in s
  BY <1>3, OneOfIsMember
<1>5. r \in SUBSET S /\ r \subseteq s /\ r # s
  BY <1>4
<1>6. Total(v, r) = Total(w, r)
  BY <1>1, <1>5
<1> HIDE DEF r
<1>7. Total(v, s) = v[OneOf(s)] + Total(v, r) /\ Total(w, s) = w[OneOf(s)] + Total(w, r)
  BY <1>2, <1>3, TotalByOne DEF r
<1>8. v[OneOf(s)] = w[OneOf(s)]
  BY <1>2, <1>4
<1> HIDE DEF Bad
<1> QED
  BY <1>2, <1>6, <1>7, <1>8

\* A part weighs no more than the whole.
LEMMA TotalOfPart ==
    ASSUME NEW S, IsFiniteSet(S), NEW w, \A x \in S : w[x] \in Nat, NEW T \in SUBSET S
    PROVE  Total(w, T) <= Total(w, S)
<1> DEFINE Bad == {s \in SUBSET S : \E t \in SUBSET s : ~(Total(w, t) <= Total(w, s))}
<1>1. Bad = {}
  <2> SUFFICES ASSUME Bad # {} PROVE FALSE
    OBVIOUS
  <2>1. PICK s \in Bad : \A t \in Bad : t \subseteq s => t = s
    <3>1. Bad \subseteq SUBSET S
      OBVIOUS
    <3> HIDE DEF Bad
    <3> QED
      BY <3>1, SmallestSet
  <2>2. PICK t \in SUBSET s : ~(Total(w, t) <= Total(w, s))
    OBVIOUS
  <2>3. s \in SUBSET S /\ IsFiniteSet(s)
    BY FS_Subset
  <2>4. Total(w, s) \in Nat
    BY <2>3, TotalType
  <2>5. t # s
    BY <2>2, <2>4
  <2>6. PICK x \in s : x \notin t
    BY <2>5
  <2> DEFINE r == s \ {x}
  <2>7. r \in SUBSET S /\ r \subseteq s /\ r # s /\ t \in SUBSET r
    BY <2>3, <2>6
  <2>8. Total(w, s) = w[x] + Total(w, r)
    BY <2>3, TotalWithout
  <2> HIDE DEF r
  <2>9. Total(w, t) <= Total(w, r)
    BY <2>1, <2>7
  <2>10. IsFiniteSet(r) /\ IsFiniteSet(t)
    BY <2>7, FS_Subset
  <2>11. Total(w, r) \in Nat /\ Total(w, t) \in Nat /\ w[x] \in Nat
    BY <2>3, <2>7, <2>10, TotalType
  <2> HIDE DEF Bad
  <2> QED
    BY <2>2, <2>8, <2>9, <2>11
<1>2. S \notin Bad
  BY <1>1
<1> QED
  BY <1>2
=============================================================================
