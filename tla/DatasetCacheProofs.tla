------------------------- MODULE DatasetCacheProofs -------------------------
(***************************************************************************)
(* DatasetCache keeps its properties for any keys, requests, lifetimes,    *)
(* bounds and payloads.                                                    *)
(***************************************************************************)
EXTENDS DatasetCache, FunctionTheorems, FiniteSetTheorems, SequenceTheorems, TLAPS

-----------------------------------------------------------------------------
(* Numbers and places. *)

\* Numbers are well founded: a set of them has a least one.
LEMMA LeastOf ==
    ASSUME NEW S \in SUBSET Nat, S # {}
    PROVE  \E x \in S : \A y \in S : x <= y
  <1> DEFINE R == OpToRel(<, Nat)
  <1>1. IsWellFoundedOn(R, Nat)
    BY NatLessThanWellFounded
  <1>2. \A x, y \in Nat : y < x => <<y, x>> \in R
    BY DEF OpToRel
  <1> HIDE DEF R
  <1>3. PICK x \in S : \A y \in S : ~(<<y, x>> \in R)
    BY <1>1, WFMin
  <1>4. ASSUME NEW y \in S PROVE x <= y
    <2>1. x \in Nat /\ y \in Nat
      OBVIOUS
    <2>2. ~(<<y, x>> \in R)
      BY <1>3
    <2>3. ~(y < x)
      BY <1>2, <2>1, <2>2
    <2> QED  BY <2>1, <2>3
  <1> QED  BY <1>4

\* A set of places of a sequence has a last one.
LEMMA LastOf ==
    ASSUME NEW m \in Nat, NEW P \in SUBSET (1 .. m), P # {}
    PROVE  \E x \in P : \A y \in P : y <= x
  <1> DEFINE T == {d \in 0 .. m : m - d \in P}
  <1>1. PICK y \in P : TRUE
    OBVIOUS
  <1>2. m - y \in 0 .. m /\ m - (m - y) = y
    OBVIOUS
  <1>3. m - y \in T
    BY <1>1, <1>2
  <1>4. T \subseteq 0 .. m /\ \A d \in 0 .. m : d \in Nat
    OBVIOUS
  <1>5. PICK x \in T : \A d \in T : x <= d
    <2> HIDE DEF T
    <2> QED  BY <1>3, <1>4, LeastOf
  <1>6. ASSUME NEW z \in P PROVE z <= m - x
    <2>1. m - z \in 0 .. m /\ m - (m - z) = z
      OBVIOUS
    <2>2. m - z \in T
      BY <2>1
    <2>3. x <= m - z
      BY <1>5, <2>2
    <2> QED  BY <2>3
  <1>7. m - x \in P
    OBVIOUS
  <1> QED  BY <1>6, <1>7

\* Places are counted without a gap.
LEMMA Places ==
    ASSUME NEW m \in Nat, NEW P \in SUBSET (1 .. m)
    PROVE  /\ IsFiniteSet(P) /\ Cardinality(P) \in Nat /\ Cardinality(P) <= m
           /\ \A n \in 1 .. Cardinality(P) : \E i \in P : Cardinality({j \in P : j <= i}) = n
  <1> DEFINE Upto(i) == {j \in P : j <= i}
  <1>1. IsFiniteSet(1 .. m) /\ Cardinality(1 .. m) = m
    BY FS_Interval
  <1>2. IsFiniteSet(P) /\ Cardinality(P) <= m
    BY <1>1, FS_Subset
  <1>3. Cardinality(P) \in Nat
    BY <1>2, FS_CardinalityType
  <1>4. \A i : IsFiniteSet(Upto(i)) /\ Cardinality(Upto(i)) \in Nat
    BY <1>2, FS_Subset, FS_CardinalityType
  <1>5. ASSUME NEW n \in 1 .. Cardinality(P)
        PROVE  \E i \in P : Cardinality(Upto(i)) = n
    <2> DEFINE S == {i \in P : n <= Cardinality(Upto(i))}
    <2>1. P # {}
      BY <1>2, FS_EmptySet
    <2>2. PICK g \in P : \A y \in P : y <= g
      BY <2>1, LastOf
    <2>3. Upto(g) = P
      BY <2>2
    <2>4. n <= Cardinality(Upto(g))
      BY <1>3, <2>3
    <2>5. S \in SUBSET Nat /\ S # {}
      <3>1. g \in S
        BY <2>2, <2>4
      <3>2. \A i \in 1 .. m : i \in Nat
        OBVIOUS
      <3> HIDE DEF Upto
      <3> QED  BY <3>1, <3>2
    <2>6. PICK x \in S : \A y \in S : x <= y
      <3> HIDE DEF S
      <3> QED  BY <2>5, LeastOf
    <2>7. x \in P /\ x \in 1 .. m /\ n <= Cardinality(Upto(x))
      OBVIOUS
    <2>8. PICK c \in Nat : c = Cardinality(Upto(x))
      BY <1>4
    <2>9. x \in Upto(x)
      BY <2>7
    <2> DEFINE Before == Upto(x) \ {x}
    <2>10. Cardinality(Before) = c - 1 /\ IsFiniteSet(Before)
      <3> HIDE DEF Upto
      <3> QED  BY <1>4, <2>8, <2>9, FS_RemoveElement
    <2>11. CASE Before = {}
      <3>1. c - 1 = 0
        BY <2>10, <2>11, FS_EmptySet
      <3>2. c = n
        BY <2>7, <2>8, <3>1
      <3> QED  BY <2>7, <2>8, <3>2
    <2>12. CASE Before # {}
      <3>1. Before \in SUBSET (1 .. m)
        OBVIOUS
      <3>2. PICK b \in Before : \A y \in Before : y <= b
        <4> HIDE DEF Before
        <4> QED  BY <2>12, <3>1, LastOf
      <3>3. b \in P /\ b \in 1 .. m /\ b < x
        BY <2>7
      <3>4. Upto(b) = Before
        <4>1. ASSUME NEW j \in P, j <= b PROVE j \in Before
          BY <2>7, <3>3, <4>1
        <4>2. ASSUME NEW j \in Before PROVE j \in P /\ j <= b
          BY <3>2
        <4> QED  BY <4>1, <4>2
      <3>5. ~(b \in S)
        <4>1. ~(x <= b)
          BY <2>7, <3>3
        <4> HIDE DEF S
        <4> QED  BY <2>6, <4>1
      <3>6. ~(n <= c - 1)
        BY <2>10, <3>3, <3>4, <3>5
      <3>7. c = n
        BY <2>7, <2>8, <3>6
      <3> QED  BY <2>7, <2>8, <3>7
    <2> QED  BY <2>11, <2>12
  <1> QED  BY <1>2, <1>3, <1>5

\* Finitely many finite sets have a finite union.
LEMMA FiniteUnion ==
    ASSUME NEW n \in Nat, NEW f, \A i \in 1 .. n : IsFiniteSet(f[i])
    PROVE  IsFiniteSet(UNION {f[i] : i \in 1 .. n})
  <1> DEFINE U(m) == UNION {f[i] : i \in 1 .. m}
             Bad == {m \in 0 .. n : ~IsFiniteSet(U(m))}
  <1>1. SUFFICES ASSUME Bad # {} PROVE FALSE
    <2>1. n \notin Bad => IsFiniteSet(U(n))
      OBVIOUS
    <2> QED  BY <2>1
  <1>2. Bad \in SUBSET Nat
    OBVIOUS
  <1>3. PICK m \in Bad : \A y \in Bad : m <= y
    <2> HIDE DEF Bad
    <2> QED  BY <1>1, <1>2, LeastOf
  <1>4. m \in 0 .. n /\ ~IsFiniteSet(U(m))
    OBVIOUS
  <1>5. m # 0
    <2>1. U(0) = {}
      OBVIOUS
    <2> QED  BY <1>4, <2>1, FS_EmptySet
  <1>6. m - 1 \in 0 .. n /\ m \in 1 .. n /\ ~(m <= m - 1)
    BY <1>4, <1>5
  <1>7. IsFiniteSet(U(m - 1))
    <2>1. m - 1 \notin Bad
      <3> HIDE DEF Bad
      <3> QED  BY <1>3, <1>6
    <2> QED  BY <1>6, <2>1
  <1>8. U(m) = U(m - 1) \cup f[m]
    <2>1. \A i : i \in 1 .. m <=> i \in 1 .. m - 1 \/ i = m
      BY <1>6
    <2>2. ASSUME NEW x PROVE x \in U(m) <=> x \in U(m - 1) \/ x \in f[m]
      BY <2>1
    <2> HIDE DEF U
    <2> QED  BY <2>2
  <1>9. IsFiniteSet(f[m])
    BY <1>6
  <1>10. IsFiniteSet(U(m - 1) \cup f[m])
    <2> HIDE DEF U
    <2> QED  BY <1>7, <1>9, FS_Union
  <1> HIDE DEF U, Bad
  <1> QED  BY <1>4, <1>8, <1>10

-----------------------------------------------------------------------------
(* Parts of a sequence of entries. *)

Distinct(s) == \A i, j \in 1 .. Len(s) : s[i].value.key = s[j].value.key => i = j

\* A sequence with some of the datasets of another, each once.
PartOf(part, s) ==
    /\ part \in Seq(Entry) /\ Len(part) <= Len(s) /\ Distinct(part)
    /\ \A n \in 1 .. Len(part) : \E i \in 1 .. Len(s) : part[n].value = s[i].value

\* The parts of an entry are in their domains.
LEMMA EntryTypes ==
    ASSUME NEW e \in Entry
    PROVE  /\ e.value \in Dataset /\ e.value.key \in Key /\ e.value.payload \in Payload
           /\ e.value.payload.size \in Nat /\ e.age \in 0 .. Ttl
  BY PayloadAssumption DEF Entry, Dataset, Age

\* The entries at some places are as many, in other places of their own.
LEMMA AtPlaces ==
    ASSUME NEW s \in Seq(Entry), NEW P \in SUBSET DOMAIN s
    PROVE  /\ At(s, P) \in Seq(Entry) /\ Len(At(s, P)) = Cardinality(P)
           /\ Len(At(s, P)) \in Nat /\ Len(At(s, P)) <= Len(s)
           /\ \E p \in [1 .. Cardinality(P) -> P] :
                 /\ \A n \in 1 .. Cardinality(P) : At(s, P)[n] = s[p[n]]
                 /\ \A m, n \in 1 .. Cardinality(P) : p[m] = p[n] => m = n
  <1>1. PICK m \in Nat : m = Len(s) /\ DOMAIN s = 1 .. m
    OBVIOUS
  <1>2. P \in SUBSET (1 .. m)
    BY <1>1
  <1>3. /\ Cardinality(P) \in Nat /\ Cardinality(P) <= m
        /\ \A n \in 1 .. Cardinality(P) : \E i \in P : Cardinality({j \in P : j <= i}) = n
    BY <1>2, Places
  <1>4. PICK c \in Nat : c = Cardinality(P)
    BY <1>3
  <1> DEFINE p == [n \in 1 .. c |-> CHOOSE i \in P : Cardinality({j \in P : j <= i}) = n]
  <1>5. \A n \in 1 .. c : p[n] \in P /\ Cardinality({j \in P : j <= p[n]}) = n
    BY <1>3, <1>4
  <1>6. At(s, P) = [n \in 1 .. c |-> s[p[n]]]
    BY <1>4 DEF At
  <1>7. p \in [1 .. c -> P]
    BY <1>5
  <1>8. \A a, b \in 1 .. c : p[a] = p[b] => a = b
    BY <1>5
  <1> HIDE DEF p
  <1>9. \A n \in 1 .. c : s[p[n]] \in Entry
    <2>1. \A i \in 1 .. m : s[i] \in Entry
      BY <1>1
    <2>2. \A n \in 1 .. c : p[n] \in 1 .. m
      BY <1>2, <1>5
    <2> QED  BY <2>1, <2>2
  <1>10. At(s, P) \in Seq(Entry) /\ Len(At(s, P)) = c
    <2>1. At(s, P) \in [1 .. c -> Entry]
      BY <1>6, <1>9
    <2> QED  BY <1>6, <2>1, SeqDef, LenProperties
  <1>11. \A n \in 1 .. c : At(s, P)[n] = s[p[n]]
    BY <1>6
  <1>12. /\ At(s, P) \in Seq(Entry) /\ Len(At(s, P)) = Cardinality(P)
        /\ Len(At(s, P)) \in Nat /\ Len(At(s, P)) <= Len(s)
    BY <1>1, <1>3, <1>4, <1>10
  <1> QED  BY <1>4, <1>7, <1>8, <1>11, <1>12

\* Entries taken from a sequence of different keys are a part of it.
LEMMA AtIsPart ==
    ASSUME NEW s \in Seq(Entry), Distinct(s), NEW P \in SUBSET DOMAIN s
    PROVE  /\ PartOf(At(s, P), s)
           /\ \A n \in 1 .. Len(At(s, P)) : \E i \in P : At(s, P)[n] = s[i]
  <1>1. PICK c \in Nat : c = Cardinality(P) /\ c = Len(At(s, P))
    BY AtPlaces
  <1>2. PICK p \in [1 .. c -> P] :
           /\ \A n \in 1 .. c : At(s, P)[n] = s[p[n]]
           /\ \A m, n \in 1 .. c : p[m] = p[n] => m = n
    BY <1>1, AtPlaces
  <1>3. DOMAIN s = 1 .. Len(s)
    OBVIOUS
  <1>4. \A n \in 1 .. c : p[n] \in P /\ p[n] \in 1 .. Len(s)
    BY <1>2, <1>3
  <1>5. Distinct(At(s, P))
    <2> SUFFICES ASSUME NEW m \in 1 .. c, NEW n \in 1 .. c,
                        At(s, P)[m].value.key = At(s, P)[n].value.key
                 PROVE  m = n
      BY <1>1 DEF Distinct
    <2>1. s[p[m]].value.key = s[p[n]].value.key
      BY <1>2
    <2>2. p[m] = p[n]
      BY <1>4, <2>1 DEF Distinct
    <2> QED  BY <1>2, <2>2
  <1>6. \A n \in 1 .. c : \E i \in 1 .. Len(s) : At(s, P)[n].value = s[i].value
    BY <1>2, <1>4
  <1>7. \A n \in 1 .. c : \E i \in P : At(s, P)[n] = s[i]
    BY <1>2, <1>4
  <1>8. At(s, P) \in Seq(Entry) /\ Len(At(s, P)) <= Len(s)
    BY AtPlaces
  <1> QED  BY <1>1, <1>5, <1>6, <1>7, <1>8 DEF PartOf

\* A part of a part is a part.
LEMMA PartOfPart ==
    ASSUME NEW s, NEW t, NEW u, s \in Seq(Entry), PartOf(t, s), PartOf(u, t)
    PROVE  PartOf(u, s)
  <1>1. t \in Seq(Entry) /\ u \in Seq(Entry) /\ Distinct(u)
    BY DEF PartOf
  <1>2. PICK l \in Nat, m \in Nat, n \in Nat : l = Len(s) /\ m = Len(t) /\ n = Len(u)
    BY <1>1
  <1>3. m <= l /\ n <= m
    BY <1>2 DEF PartOf
  <1>4. \A a \in 1 .. n : \E i \in 1 .. l : u[a].value = s[i].value
    <2> SUFFICES ASSUME NEW a \in 1 .. n PROVE \E i \in 1 .. l : u[a].value = s[i].value
      OBVIOUS
    <2>1. PICK b \in 1 .. m : u[a].value = t[b].value
      BY <1>2 DEF PartOf
    <2>2. PICK i \in 1 .. l : t[b].value = s[i].value
      BY <1>2 DEF PartOf
    <2> QED  BY <2>1, <2>2
  <1>5. n <= l
    BY <1>3
  <1> QED  BY <1>1, <1>2, <1>4, <1>5 DEF PartOf

\* A sequence holds finitely many listings, and a part of it no more.
LEMMA ListingsFinite ==
    ASSUME NEW s \in Seq(Entry)
    PROVE  IsFiniteSet(Listings(s)) /\ AdsIn(s) \in Nat
  <1>1. PICK n \in Nat : n = Len(s) /\ DOMAIN s = 1 .. n
    OBVIOUS
  <1> DEFINE f == [i \in 1 .. n |-> {s[i].value.key} \X (1 .. s[i].value.payload.size)]
  <1>2. ASSUME NEW i \in 1 .. n PROVE IsFiniteSet(f[i])
    <2>1. PICK k \in Nat : k = s[i].value.payload.size
      BY <1>1, EntryTypes
    <2> DEFINE g == [j \in 1 .. k |-> <<s[i].value.key, j>>]
    <2>2. f[i] = {s[i].value.key} \X (1 .. k)
      BY <2>1
    <2>3. g \in Surjection(1 .. k, f[i])
      <3> HIDE DEF f
      <3>1. g \in [1 .. k -> f[i]]
        BY <2>2
      <3>2. \A x \in f[i] : \E j \in 1 .. k : g[j] = x
        BY <2>2
      <3> QED  BY <3>1, <3>2 DEF Surjection
    <2>4. IsFiniteSet(1 .. k)
      BY FS_Interval
    <2> HIDE DEF f, g
    <2> QED  BY <2>3, <2>4, FS_Surjection
  <1>3. Listings(s) = UNION {f[i] : i \in 1 .. n}
    BY <1>1 DEF Listings
  <1> HIDE DEF f
  <1>4. IsFiniteSet(Listings(s))
    BY <1>2, <1>3, FiniteUnion
  <1> QED  BY <1>4, FS_CardinalityType DEF AdsIn

\* A part holds no more listings than the whole.
LEMMA PartHoldsLess ==
    ASSUME NEW s \in Seq(Entry), NEW t, PartOf(t, s)
    PROVE  AdsIn(t) \in Nat /\ AdsIn(t) <= AdsIn(s)
  <1>1. t \in Seq(Entry)
    BY DEF PartOf
  <1>2. DOMAIN s = 1 .. Len(s) /\ DOMAIN t = 1 .. Len(t)
    BY <1>1
  <1>3. Listings(t) \subseteq Listings(s)
    <2> SUFFICES ASSUME NEW x \in Listings(t) PROVE x \in Listings(s)
      OBVIOUS
    <2>1. PICK n \in 1 .. Len(t) : x \in {t[n].value.key} \X (1 .. t[n].value.payload.size)
      BY <1>2 DEF Listings
    <2>2. PICK i \in 1 .. Len(s) : t[n].value = s[i].value
      BY DEF PartOf
    <2>3. x \in {s[i].value.key} \X (1 .. s[i].value.payload.size)
      BY <2>1, <2>2
    <2> QED  BY <1>2, <2>3 DEF Listings
  <1>4. IsFiniteSet(Listings(s))
    BY ListingsFinite
  <1>5. Cardinality(Listings(t)) <= Cardinality(Listings(s))
    BY <1>3, <1>4, FS_Subset
  <1> QED  BY <1>1, <1>5, ListingsFinite DEF AdsIn

-----------------------------------------------------------------------------
(* What the removal of entries takes off the total. *)

\* The listings of one entry of a sequence.
Held(s, i) == {s[i].value.key} \X (1 .. s[i].value.payload.size)

\* A sequence holds what its entries hold.
LEMMA ListingOf ==
    ASSUME NEW s \in Seq(Entry), NEW x
    PROVE  x \in Listings(s) <=> \E i \in DOMAIN s : x \in Held(s, i)
  BY DEF Listings, Held

\* The entries at some places hold what is held there.
LEMMA ListingAt ==
    ASSUME NEW s \in Seq(Entry), NEW P \in SUBSET DOMAIN s, NEW x
    PROVE  x \in Listings(At(s, P)) <=> \E i \in P : x \in Held(s, i)
  <1>1. PICK t : t = At(s, P)
    OBVIOUS
  <1>2. PICK c \in Nat : c = Cardinality(P) /\ c = Len(t)
    BY <1>1, AtPlaces
  <1>3. PICK p \in [1 .. c -> P] :
           /\ \A n \in 1 .. c : t[n] = s[p[n]]
           /\ \A m, n \in 1 .. c : p[m] = p[n] => m = n
    BY <1>1, <1>2, AtPlaces
  <1>4. t \in Seq(Entry) /\ DOMAIN t = 1 .. c
    BY <1>1, <1>2, AtPlaces
  <1>5. IsFiniteSet(P)
    <2>1. PICK l \in Nat : DOMAIN s = 1 .. l
      OBVIOUS
    <2> QED  BY <2>1, Places
  <1>6. p \in Surjection(1 .. c, P)
    <2>1. p \in Injection(1 .. c, P)
      BY <1>3 DEF Injection, IsInjective
    <2>2. Cardinality(1 .. c) = c
      BY FS_Interval
    <2> QED  BY <1>2, <1>5, <2>1, <2>2, FS_Injection
  <1>7. \A i \in P : \E n \in 1 .. c : p[n] = i
    BY <1>6 DEF Surjection
  <1>8. \A n \in 1 .. c : Held(t, n) = Held(s, p[n])
    BY <1>3 DEF Held
  <1>9. x \in Listings(t) <=> \E n \in 1 .. c : x \in Held(t, n)
    BY <1>4, ListingOf
  <1>10. x \in Listings(t) <=> \E i \in P : x \in Held(s, i)
    BY <1>3, <1>7, <1>8, <1>9
  <1> QED  BY <1>1, <1>10

\* A running total from which removals take sizes: if it counted the sequence, it
\* counts what is left.
LEMMA RemovedCounts ==
    ASSUME NEW s \in Seq(Entry), Distinct(s), NEW P \in SUBSET DOMAIN s, NEW total,
           total = AdsIn(s)
    PROVE  Removed(total, s, P) = AdsIn(At(s, DOMAIN s \ P))
  <1> DEFINE Q == DOMAIN s \ P
             gone == Listings(At(s, P))
             left == Listings(At(s, Q))
  <1>1. Q \in SUBSET DOMAIN s
    OBVIOUS
  <1>2. \A x : x \in gone <=> \E i \in P : x \in Held(s, i)
    BY ListingAt
  <1>3. \A x : x \in left <=> \E i \in Q : x \in Held(s, i)
    BY <1>1, ListingAt
  <1>4. At(s, P) \in Seq(Entry) /\ At(s, Q) \in Seq(Entry)
    BY <1>1, AtPlaces
  <1>5. /\ IsFiniteSet(gone) /\ AdsIn(At(s, P)) \in Nat
        /\ IsFiniteSet(left) /\ AdsIn(At(s, Q)) \in Nat
    BY <1>4, ListingsFinite
  <1>6. AdsIn(At(s, P)) = Cardinality(gone) /\ AdsIn(At(s, Q)) = Cardinality(left)
    BY DEF AdsIn
  <1> HIDE DEF gone, left
  <1>7. Listings(s) = gone \cup left
    <2>1. \A x : x \in Listings(s) <=> \E i \in DOMAIN s : x \in Held(s, i)
      BY ListingOf
    <2>2. \A i : i \in DOMAIN s <=> i \in P \/ i \in Q
      OBVIOUS
    <2> HIDE DEF Q
    <2>3. \A x : x \in Listings(s) <=> x \in gone \/ x \in left
      BY <1>2, <1>3, <2>1, <2>2
    <2> QED  BY <2>3
  <1>8. gone \cap left = {}
    <2> SUFFICES ASSUME NEW x \in gone, x \in left PROVE FALSE
      OBVIOUS
    <2>1. PICK i \in P : x \in Held(s, i)
      BY <1>2
    <2>2. PICK j \in Q : x \in Held(s, j)
      BY <1>3
    <2>3. i \in 1 .. Len(s) /\ j \in 1 .. Len(s) /\ i # j
      OBVIOUS
    <2>4. s[i].value.key = s[j].value.key
      BY <2>1, <2>2 DEF Held
    <2> QED  BY <2>3, <2>4 DEF Distinct
  <1>9. Cardinality(gone \cup left) = Cardinality(gone) + Cardinality(left) - Cardinality({})
    BY <1>5, <1>8, FS_Union
  <1>10. Cardinality({}) = 0
    BY FS_EmptySet
  <1>11. PICK a \in Nat, b \in Nat : a = AdsIn(At(s, P)) /\ b = AdsIn(At(s, Q))
    BY <1>5
  <1>12. total = a + b - 0
    BY <1>6, <1>7, <1>9, <1>10, <1>11 DEF AdsIn
  <1>13. Removed(total, s, P) = total - a
    BY <1>11 DEF Removed
  <1>14. total - a = b
    BY <1>12
  <1> QED  BY <1>11, <1>13, <1>14

\* A new entry of another key adds its size.
LEMMA AppendCounts ==
    ASSUME NEW s \in Seq(Entry), NEW new \in Entry,
           \A i \in 1 .. Len(s) : s[i].value.key # new.value.key
    PROVE  AdsIn(Append(s, new)) = AdsIn(s) + new.value.payload.size
  <1>1. PICK m \in Nat : m = Len(s) /\ DOMAIN s = 1 .. m
    OBVIOUS
  <1>2. PICK t : t = Append(s, new)
    OBVIOUS
  <1>3. /\ t \in Seq(Entry) /\ DOMAIN t = 1 .. m + 1 /\ t[m + 1] = new
        /\ \A i \in 1 .. m : t[i] = s[i]
    BY <1>1, <1>2, AppendProperties
  <1>4. PICK z \in Nat : z = new.value.payload.size
    BY EntryTypes
  <1>5. PICK added : added = {new.value.key} \X (1 .. z)
    OBVIOUS
  <1>6. Listings(t) = Listings(s) \cup added
    <2>1. Held(t, m + 1) = added
      BY <1>3, <1>4, <1>5 DEF Held
    <2>2. \A i \in 1 .. m : Held(t, i) = Held(s, i)
      BY <1>3 DEF Held
    <2>3. \A i : i \in 1 .. m + 1 <=> i \in 1 .. m \/ i = m + 1
      BY <1>1
    <2>4. \A x : x \in Listings(t) <=> \E i \in 1 .. m + 1 : x \in Held(t, i)
      BY <1>3, ListingOf
    <2>5. \A x : x \in Listings(s) <=> \E i \in 1 .. m : x \in Held(s, i)
      BY <1>1, ListingOf
    <2>6. \A x : x \in Listings(t) <=> x \in Listings(s) \/ x \in added
      BY <2>1, <2>2, <2>3, <2>4, <2>5
    <2> QED  BY <2>6
  <1>7. Listings(s) \cap added = {}
    <2> SUFFICES ASSUME NEW x \in Listings(s), x \in added PROVE FALSE
      OBVIOUS
    <2>1. PICK i \in 1 .. m : x \in Held(s, i)
      BY <1>1, ListingOf
    <2>2. s[i].value.key = new.value.key
      BY <1>5, <2>1 DEF Held
    <2> QED  BY <1>1, <2>1, <2>2
  <1>8. IsFiniteSet(added) /\ Cardinality(added) = z
    <2> DEFINE g == [j \in 1 .. z |-> <<new.value.key, j>>]
    <2>1. g \in [1 .. z -> added]
      BY <1>5
    <2>2. \A x \in added : \E j \in 1 .. z : g[j] = x
      BY <1>5
    <2>3. \A i, j \in 1 .. z : g[i] = g[j] => i = j
      OBVIOUS
    <2> HIDE DEF g
    <2>4. g \in Surjection(1 .. z, added) /\ g \in Injection(1 .. z, added)
      BY <2>1, <2>2, <2>3 DEF Surjection, Injection, IsInjective
    <2>5. IsFiniteSet(1 .. z) /\ Cardinality(1 .. z) = z
      BY FS_Interval
    <2>6. IsFiniteSet(added) /\ Cardinality(added) = Cardinality(1 .. z)
      BY <2>4, <2>5, FS_Surjection
    <2> QED  BY <2>5, <2>6
  <1>9. IsFiniteSet(Listings(s)) /\ AdsIn(s) \in Nat
    BY ListingsFinite
  <1>10. Cardinality(Listings(s) \cup added)
            = Cardinality(Listings(s)) + Cardinality(added) - Cardinality({})
    BY <1>7, <1>8, <1>9, FS_Union
  <1>11. Cardinality({}) = 0
    BY FS_EmptySet
  <1>12. PICK a \in Nat : a = AdsIn(s)
    BY <1>9
  <1>13. AdsIn(t) = a + z - 0
    BY <1>6, <1>8, <1>10, <1>11, <1>12 DEF AdsIn
  <1>14. AdsIn(t) = a + z
    BY <1>13
  <1> QED  BY <1>2, <1>4, <1>12, <1>14

-----------------------------------------------------------------------------
(* The operations of the cache. *)

\* Expired entries go.
LEMMA ValidPart ==
    ASSUME NEW s \in Seq(Entry), Distinct(s)
    PROVE  /\ PartOf(Valid(s), s)
           /\ \A n \in 1 .. Len(Valid(s)) : Valid(s)[n].age < TtlFor(Valid(s)[n].value.payload)
  <1> DEFINE P == DOMAIN s \ Expired(s)
  <1>1. Valid(s) = At(s, P)
    BY DEF Valid
  <1>2. ASSUME NEW i \in P PROVE s[i].age < TtlFor(s[i].value.payload)
    <2>1. s[i] \in Entry
      OBVIOUS
    <2>2. PICK a \in 0 .. Ttl : a = s[i].age
      BY <2>1, EntryTypes
    <2>3. PICK t \in Nat : t = TtlFor(s[i].value.payload)
      BY TtlAssumption DEF TtlFor
    <2>4. ~(a >= t)
      BY <2>2, <2>3 DEF Expired
    <2> QED  BY <2>2, <2>3, <2>4, TtlAssumption
  <1>3. P \in SUBSET DOMAIN s
    OBVIOUS
  <1> HIDE DEF P
  <1>4. PartOf(At(s, P), s) /\ \A n \in 1 .. Len(At(s, P)) : \E i \in P : At(s, P)[n] = s[i]
    BY <1>3, AtIsPart
  <1>5. ASSUME NEW n \in 1 .. Len(At(s, P))
        PROVE  At(s, P)[n].age < TtlFor(At(s, P)[n].value.payload)
    <2>1. PICK i \in P : At(s, P)[n] = s[i]
      BY <1>4
    <2> QED  BY <1>2, <2>1
  <1> QED  BY <1>1, <1>4, <1>5

\* The entries of the other keys are a part that the key is not in.
LEMMA WithoutPart ==
    ASSUME NEW s \in Seq(Entry), Distinct(s), NEW k
    PROVE  /\ PartOf(Without(s, k), s)
           /\ \A n \in 1 .. Len(Without(s, k)) : Without(s, k)[n].value.key # k
  <1> DEFINE P == DOMAIN s \ PlacesOf(s, k)
  <1>1. Without(s, k) = At(s, P)
    BY DEF Without
  <1>2. P \in SUBSET DOMAIN s /\ \A i \in P : s[i].value.key # k
    BY DEF PlacesOf
  <1> HIDE DEF P
  <1>3. PartOf(At(s, P), s) /\ \A n \in 1 .. Len(At(s, P)) : \E i \in P : At(s, P)[n] = s[i]
    BY <1>2, AtIsPart
  <1>4. ASSUME NEW n \in 1 .. Len(At(s, P)) PROVE At(s, P)[n].value.key # k
    <2>1. PICK i \in P : At(s, P)[n] = s[i]
      BY <1>3
    <2> QED  BY <1>2, <2>1
  <1> QED  BY <1>1, <1>3, <1>4

\* A lookup only moves an entry and drops expired ones.
LEMMA TouchedPart ==
    ASSUME entries \in Seq(Entry), Distinct(entries), NEW k
    PROVE  PartOf(Touched(k), entries)
  <1>1. PICK valid : valid = Valid(entries)
    OBVIOUS
  <1>2. PartOf(valid, entries)
    BY <1>1, ValidPart
  <1>3. valid \in Seq(Entry) /\ Distinct(valid)
    BY <1>2 DEF PartOf
  <1>4. PICK n \in Nat : n = Len(valid) /\ DOMAIN valid = 1 .. n
    BY <1>3
  <1> DEFINE P == PlacesOf(valid, k)
             Q == DOMAIN valid \ P
  <1>5. P \in SUBSET (1 .. n) /\ Q \in SUBSET (1 .. n) /\ P \cup Q = 1 .. n /\ P \cap Q = {}
    BY <1>4 DEF PlacesOf
  <1>6. \A i \in P : valid[i].value.key = k
    BY DEF PlacesOf
  <1> HIDE DEF P
  <1>7. PICK b : b = At(valid, P)
    OBVIOUS
  <1>8. PICK a : a = Without(valid, k)
    OBVIOUS
  <1>9. a = At(valid, Q)
    BY <1>8 DEF Without, P
  <1> HIDE DEF Q
  <1>10. /\ PartOf(b, valid)
         /\ \A i \in 1 .. Len(b) : \E j \in P : b[i] = valid[j]
    BY <1>3, <1>4, <1>5, <1>7, AtIsPart
  <1>11. PartOf(a, valid) /\ \A i \in 1 .. Len(a) : a[i].value.key # k
    BY <1>3, <1>8, WithoutPart
  <1>12. PICK x \in Nat, y \in Nat : x = Len(a) /\ y = Len(b)
    BY <1>10, <1>11 DEF PartOf
  <1>13. x + y = n
    <2>1. x = Cardinality(Q) /\ y = Cardinality(P)
      BY <1>3, <1>4, <1>5, <1>7, <1>9, <1>12, AtPlaces
    <2>2. IsFiniteSet(P) /\ IsFiniteSet(Q)
      BY <1>5, Places
    <2>3. Cardinality(P \cup Q) = Cardinality(P) + Cardinality(Q) - Cardinality(P \cap Q)
      BY <2>2, FS_Union
    <2>4. Cardinality(1 .. n) = n /\ Cardinality({}) = 0
      BY FS_Interval, FS_EmptySet
    <2>5. n = y + x - 0
      BY <1>5, <2>1, <2>3, <2>4
    <2> QED  BY <2>5
  <1>14. a \in Seq(Entry) /\ b \in Seq(Entry)
    BY <1>10, <1>11 DEF PartOf
  <1>15. PICK c : c = a \o b
    OBVIOUS
  <1>16. /\ c \in Seq(Entry) /\ Len(c) = n
         /\ \A i \in 1 .. n : c[i] = IF i <= x THEN a[i] ELSE b[i - x]
    BY <1>12, <1>13, <1>14, <1>15, ConcatProperties
  <1>17. ASSUME NEW i \in 1 .. n
         PROVE  \/ i \in 1 .. x /\ c[i] = a[i] /\ c[i].value.key # k
                \/ i - x \in 1 .. y /\ c[i] = b[i - x] /\ c[i].value.key = k
    <2>1. CASE i <= x
      <3>1. i \in 1 .. x /\ c[i] = a[i]
        BY <1>16, <2>1
      <3> QED  BY <1>11, <1>12, <3>1
    <2>2. CASE ~(i <= x)
      <3>1. i - x \in 1 .. y /\ c[i] = b[i - x]
        BY <1>13, <1>16, <2>2
      <3>2. PICK j \in P : b[i - x] = valid[j]
        BY <1>10, <1>12, <3>1
      <3> QED  BY <1>6, <3>1, <3>2
    <2> QED  BY <2>1, <2>2
  <1>18. Distinct(c)
    <2> SUFFICES ASSUME NEW i \in 1 .. n, NEW j \in 1 .. n, c[i].value.key = c[j].value.key
                 PROVE  i = j
      BY <1>16 DEF Distinct
    <2>1. CASE c[i].value.key # k
      <3>1. i \in 1 .. x /\ j \in 1 .. x /\ c[i] = a[i] /\ c[j] = a[j]
        BY <1>17, <2>1
      <3> QED  BY <1>11, <1>12, <3>1 DEF PartOf, Distinct
    <2>2. CASE c[i].value.key = k
      <3>1. i - x \in 1 .. y /\ j - x \in 1 .. y /\ c[i] = b[i - x] /\ c[j] = b[j - x]
        BY <1>17, <2>2
      <3>2. i - x = j - x
        BY <1>10, <1>12, <3>1 DEF PartOf, Distinct
      <3> QED  BY <3>2
    <2> QED  BY <2>1, <2>2
  <1>19. ASSUME NEW i \in 1 .. n PROVE \E j \in 1 .. n : c[i].value = valid[j].value
    <2>1. CASE i \in 1 .. x /\ c[i] = a[i]
      BY <1>4, <1>11, <1>12, <2>1 DEF PartOf
    <2>2. CASE i - x \in 1 .. y /\ c[i] = b[i - x]
      BY <1>4, <1>10, <1>12, <2>2 DEF PartOf
    <2> QED  BY <1>17, <2>1, <2>2
  <1>20. PartOf(c, valid)
    <2>1. Len(c) = n /\ Len(valid) = n /\ n <= n
      BY <1>4, <1>16
    <2>2. \A i \in 1 .. Len(c) : \E j \in 1 .. Len(valid) : c[i].value = valid[j].value
      BY <1>19, <2>1
    <2>3. c \in Seq(Entry) /\ Len(c) <= Len(valid)
      BY <1>16, <2>1
    <2> QED  BY <1>18, <2>2, <2>3 DEF PartOf
  <1>21. Touched(k) = c
    BY <1>1, <1>7, <1>8, <1>15 DEF Touched, P
  <1> QED  BY <1>2, <1>20, <1>21, PartOfPart

\* Entries after one another hold what the parts hold.
LEMMA ListingConcat ==
    ASSUME NEW a \in Seq(Entry), NEW b \in Seq(Entry), NEW x
    PROVE  x \in Listings(a \o b) <=> x \in Listings(a) \/ x \in Listings(b)
  <1>1. PICK m \in Nat, n \in Nat : m = Len(a) /\ n = Len(b)
    OBVIOUS
  <1>2. DOMAIN a = 1 .. m /\ DOMAIN b = 1 .. n
    BY <1>1
  <1>3. PICK c : c = a \o b
    OBVIOUS
  <1>4. /\ c \in Seq(Entry) /\ Len(c) = m + n
        /\ \A i \in 1 .. m + n : c[i] = IF i <= m THEN a[i] ELSE b[i - m]
    BY <1>1, <1>3, ConcatProperties
  <1>5. DOMAIN c = 1 .. m + n
    BY <1>4
  <1>6. \A i \in 1 .. m : i \in 1 .. m + n /\ Held(c, i) = Held(a, i)
    <2>1. \A i \in 1 .. m : i \in 1 .. m + n /\ c[i] = a[i]
      BY <1>4
    <2> QED  BY <2>1 DEF Held
  <1>7. \A j \in 1 .. n : j + m \in 1 .. m + n /\ Held(c, j + m) = Held(b, j)
    <2>1. \A j \in 1 .. n : j + m \in 1 .. m + n /\ ~(j + m <= m) /\ j + m - m = j
      OBVIOUS
    <2>2. \A j \in 1 .. n : j + m \in 1 .. m + n /\ c[j + m] = b[j]
      BY <1>4, <2>1
    <2> QED  BY <2>2 DEF Held
  <1>8. \A i \in 1 .. m + n : i \in 1 .. m \/ (i - m \in 1 .. n /\ i - m + m = i)
    OBVIOUS
  <1>9. x \in Listings(c) <=> \E i \in 1 .. m + n : x \in Held(c, i)
    BY <1>4, <1>5, ListingOf
  <1>10. x \in Listings(a) <=> \E i \in 1 .. m : x \in Held(a, i)
    BY <1>2, ListingOf
  <1>11. x \in Listings(b) <=> \E i \in 1 .. n : x \in Held(b, i)
    BY <1>2, ListingOf
  <1>12. ASSUME x \in Listings(c) PROVE x \in Listings(a) \/ x \in Listings(b)
    <2>1. PICK i \in 1 .. m + n : x \in Held(c, i)
      BY <1>9, <1>12
    <2>2. CASE i \in 1 .. m
      BY <1>6, <1>10, <2>1, <2>2
    <2>3. CASE i - m \in 1 .. n /\ i - m + m = i
      <3>1. Held(c, i) = Held(b, i - m)
        BY <1>7, <2>3
      <3> QED  BY <1>11, <2>1, <2>3, <3>1
    <2> QED  BY <1>8, <2>2, <2>3
  <1>13. x \in Listings(a) => x \in Listings(c)
    BY <1>6, <1>9, <1>10
  <1>14. x \in Listings(b) => x \in Listings(c)
    BY <1>7, <1>9, <1>11
  <1> QED  BY <1>3, <1>12, <1>13, <1>14

\* A lookup keeps what has not expired.
LEMMA TouchedHolds ==
    ASSUME entries \in Seq(Entry), Distinct(entries), NEW k
    PROVE  AdsIn(Touched(k)) = AdsIn(Valid(entries))
  <1>1. PICK valid : valid = Valid(entries)
    OBVIOUS
  <1>2. valid \in Seq(Entry)
    BY <1>1, ValidPart DEF PartOf
  <1> DEFINE P == PlacesOf(valid, k)
             Q == DOMAIN valid \ P
  <1>3. P \in SUBSET DOMAIN valid /\ Q \in SUBSET DOMAIN valid
    BY DEF PlacesOf
  <1>4. \A i : i \in DOMAIN valid <=> i \in P \/ i \in Q
    BY <1>3
  <1>5. Touched(k) = At(valid, Q) \o At(valid, P)
    BY <1>1 DEF Touched, Without
  <1> HIDE DEF P, Q
  <1>6. At(valid, P) \in Seq(Entry) /\ At(valid, Q) \in Seq(Entry)
    BY <1>2, <1>3, AtPlaces
  <1>7. ASSUME NEW x PROVE x \in Listings(Touched(k)) <=> x \in Listings(valid)
    <2>1. x \in Listings(Touched(k)) <=> x \in Listings(At(valid, Q)) \/ x \in Listings(At(valid, P))
      BY <1>5, <1>6, ListingConcat
    <2>2. x \in Listings(At(valid, P)) <=> \E i \in P : x \in Held(valid, i)
      BY <1>2, <1>3, ListingAt
    <2>3. x \in Listings(At(valid, Q)) <=> \E i \in Q : x \in Held(valid, i)
      BY <1>2, <1>3, ListingAt
    <2>4. x \in Listings(valid) <=> \E i \in DOMAIN valid : x \in Held(valid, i)
      BY <1>2, ListingOf
    <2> QED  BY <1>4, <2>1, <2>2, <2>3, <2>4
  <1>8. Listings(Touched(k)) = Listings(valid)
    BY <1>7
  <1> QED  BY <1>1, <1>8 DEF AdsIn

\* Nothing is held nowhere.
LEMMA NothingHeld ==
    /\ AdsIn(<<>>) = 0
    /\ \A s \in Seq(Entry) : AdsIn(At(s, {})) = 0
  <1>1. Cardinality({}) = 0
    BY FS_EmptySet
  <1>2. Listings(<<>>) = {}
    BY DEF Listings
  <1>3. ASSUME NEW s \in Seq(Entry) PROVE Listings(At(s, {})) = {}
    <2>1. \A x : x \in Listings(At(s, {})) <=> \E i \in {} : x \in Held(s, i)
      BY ListingAt
    <2> QED  BY <2>1
  <1> QED  BY <1>1, <1>2, <1>3 DEF AdsIn

\* Evicting the oldest entries ends within the bounds.
LEMMA EvictedFits ==
    ASSUME NEW s \in Seq(Entry), Distinct(s), NEW total, total = AdsIn(s)
    PROVE  /\ Evicted(total, s) \in SUBSET DOMAIN s
           /\ PartOf(At(s, DOMAIN s \ Evicted(total, s)), s)
           /\ Len(At(s, DOMAIN s \ Evicted(total, s))) <= MaxEntries
           /\ Removed(total, s, Evicted(total, s)) <= MaxAds
  <1>1. PICK l \in Nat : l = Len(s) /\ DOMAIN s = 1 .. l
    OBVIOUS
  <1> DEFINE fits(n) == Len(s) - n <= MaxEntries /\ Removed(total, s, 1 .. n) <= MaxAds
             Fit == {n \in 0 .. l : fits(n)}
             n == CHOOSE n \in 0 .. Len(s) : fits(n) /\ \A m \in 0 .. n - 1 : ~fits(m)
  <1>2. l \in Fit
    <2>1. 0 <= MaxEntries /\ 0 <= MaxAds
      BY BoundsAssumption
    <2>2. 1 .. l \in SUBSET DOMAIN s /\ DOMAIN s \ (1 .. l) = {}
      BY <1>1
    <2>3. Removed(total, s, 1 .. l) = AdsIn(At(s, {}))
      BY <2>2, RemovedCounts
    <2>4. Removed(total, s, 1 .. l) = 0
      BY <2>3, NothingHeld
    <2>5. Len(s) - l = 0 /\ l \in 0 .. l
      BY <1>1
    <2> QED  BY <2>1, <2>4, <2>5
  <1>3. Fit \in SUBSET Nat /\ Fit # {}
    <2>1. Fit \subseteq 0 .. l /\ \A m \in 0 .. l : m \in Nat
      OBVIOUS
    <2> HIDE DEF Fit
    <2> QED  BY <1>2, <2>1
  <1>4. PICK first \in Fit : \A m \in Fit : first <= m
    <2> HIDE DEF Fit
    <2> QED  BY <1>3, LeastOf
  <1>5. first \in 0 .. Len(s) /\ fits(first) /\ \A m \in 0 .. first - 1 : ~fits(m)
    <2>1. first \in 0 .. l /\ fits(first)
      OBVIOUS
    <2>2. ASSUME NEW m \in 0 .. first - 1 PROVE ~fits(m)
      <3>1. m \in 0 .. l /\ ~(first <= m)
        BY <2>1
      <3>2. m \notin Fit
        <4> HIDE DEF Fit
        <4> QED  BY <1>4, <3>1
      <3> HIDE DEF fits
      <3> QED  BY <3>1, <3>2
    <2> HIDE DEF fits
    <2> QED  BY <1>1, <2>1, <2>2
  <1>6. n \in 0 .. Len(s) /\ fits(n)
    <2> HIDE DEF fits
    <2> QED  BY <1>5
  <1>7. Evicted(total, s) = 1 .. n
    BY DEF Evicted
  <1> HIDE DEF n
  <1>8. PICK d \in 0 .. l : d = n
    BY <1>1, <1>6
  <1>9. /\ Evicted(total, s) = 1 .. d /\ l - d <= MaxEntries
        /\ Removed(total, s, 1 .. d) <= MaxAds
    BY <1>1, <1>6, <1>7, <1>8
  <1>10. 1 .. d \in SUBSET DOMAIN s /\ DOMAIN s \ (1 .. d) = d + 1 .. l
    BY <1>1
  <1>11. d + 1 .. l \in SUBSET DOMAIN s
    BY <1>1
  <1>12. Cardinality(d + 1 .. l) = l - d
    <2>1. PICK b \in Int : b = d + 1
      OBVIOUS
    <2>2. Cardinality(b .. l) = IF b > l THEN 0 ELSE l - b + 1
      BY FS_Interval
    <2> QED  BY <2>1, <2>2
  <1>13. PartOf(At(s, d + 1 .. l), s) /\ Len(At(s, d + 1 .. l)) = l - d
    BY <1>11, <1>12, AtPlaces, AtIsPart
  <1> QED  BY <1>9, <1>10, <1>13

-----------------------------------------------------------------------------
(* The bounds. *)

\* The entries are of different keys and within the bounds, and _total_ads counts
\* their listings.
CacheInv ==
    /\ entries \in Seq(Entry) /\ Distinct(entries)
    /\ Len(entries) <= MaxEntries
    /\ totalAds = AdsIn(entries) /\ totalAds <= MaxAds

\* A purge takes off the total what it drops.
LEMMA PurgedCounts ==
    ASSUME NEW s \in Seq(Entry), Distinct(s), NEW total, total = AdsIn(s)
    PROVE  Purged(total, s) = AdsIn(Valid(s))
  <1>1. Expired(s) \in SUBSET DOMAIN s
    BY DEF Expired
  <1> QED  BY <1>1, RemovedCounts DEF Purged, Valid

\* A part of what is cached is within the bounds.
LEMMA PartKeeps ==
    ASSUME CacheInv, PartOf(entries', entries), totalAds' = AdsIn(entries')
    PROVE  CacheInv'
  <1>1. entries' \in Seq(Entry) /\ Distinct(entries')
    BY DEF PartOf
  <1>2. PICK a \in Nat, b \in Nat : a = AdsIn(entries) /\ b = AdsIn(entries')
    BY <1>1, ListingsFinite DEF CacheInv
  <1>3. b <= a /\ a <= MaxAds
    BY <1>2, PartHoldsLess DEF CacheInv
  <1>4. PICK l \in Nat, m \in Nat : l = Len(entries) /\ m = Len(entries')
    BY <1>1 DEF CacheInv
  <1>5. m <= l /\ l <= MaxEntries
    BY <1>4 DEF PartOf, CacheInv
  <1>6. b <= MaxAds /\ m <= MaxEntries
    BY <1>3, <1>5, BoundsAssumption
  <1> QED  BY <1>1, <1>2, <1>4, <1>6 DEF CacheInv, Distinct

\* A lookup leaves the cache within its bounds, and its total exact.
LEMMA TouchKeeps ==
    ASSUME CacheInv, NEW k, entries' = Touched(k), totalAds' = Purged(totalAds, entries)
    PROVE  CacheInv'
  <1>1. entries \in Seq(Entry) /\ Distinct(entries) /\ totalAds = AdsIn(entries)
    BY DEF CacheInv
  <1>2. PartOf(entries', entries)
    BY <1>1, TouchedPart
  <1>3. totalAds' = AdsIn(Valid(entries))
    BY <1>1, PurgedCounts
  <1>4. totalAds' = AdsIn(entries')
    BY <1>1, <1>3, TouchedHolds
  <1> QED  BY <1>2, <1>4, PartKeeps

\* A dataset put into the cache leaves it within its bounds, and its total exact.
LEMMA PutKeeps ==
    ASSUME CacheInv, NEW value \in Dataset, Put(value)
    PROVE  CacheInv'
  <1>1. entries \in Seq(Entry) /\ Distinct(entries) /\ totalAds = AdsIn(entries)
    BY DEF CacheInv
  <1>2. PICK others : others = Without(entries, value.key)
    OBVIOUS
  <1>3. PartOf(others, entries) /\ \A n \in 1 .. Len(others) : others[n].value.key # value.key
    BY <1>1, <1>2, WithoutPart
  <1>4. PICK rest : rest = Valid(others)
    OBVIOUS
  <1>5. others \in Seq(Entry) /\ Distinct(others)
    BY <1>3 DEF PartOf
  <1>6. PartOf(rest, others)
    BY <1>4, <1>5, ValidPart
  <1>7. PartOf(rest, entries)
    BY <1>1, <1>3, <1>6, PartOfPart
  <1>8. PICK total : total = Purged(Removed(totalAds, entries, PlacesOf(entries, value.key)), others)
    OBVIOUS
  <1>9. total = AdsIn(rest)
    <2>1. PlacesOf(entries, value.key) \in SUBSET DOMAIN entries
      BY DEF PlacesOf
    <2>2. Removed(totalAds, entries, PlacesOf(entries, value.key)) = AdsIn(others)
      BY <1>1, <1>2, <2>1, RemovedCounts DEF Without
    <2> QED  BY <1>4, <1>5, <1>8, <2>2, PurgedCounts
  <1>10. CASE entries' = rest /\ totalAds' = total
    BY <1>7, <1>9, <1>10, PartKeeps
  <1>11. ASSUME NEW s, s = Append(rest, [value |-> value, age |-> 0]),
                NEW n, n = total + value.payload.size,
                entries' = At(s, DOMAIN s \ Evicted(n, s)),
                totalAds' = Removed(n, s, Evicted(n, s))
         PROVE  CacheInv'
    <2>1. PICK new : new = [value |-> value, age |-> 0]
      OBVIOUS
    <2>2. new \in Entry /\ new.value = value
      BY <2>1, TtlAssumption DEF Entry, Age
    <2>3. rest \in Seq(Entry) /\ Distinct(rest)
      BY <1>6 DEF PartOf
    <2>4. PICK m \in Nat : m = Len(rest)
      BY <2>3
    <2>5. s = Append(rest, new)
      BY <1>11, <2>1
    <2>6. /\ s \in Seq(Entry) /\ Len(s) = m + 1 /\ s[m + 1] = new
          /\ \A i \in 1 .. m : s[i] = rest[i]
      BY <2>2, <2>3, <2>4, <2>5, AppendProperties
    <2>7. ASSUME NEW i \in 1 .. m PROVE rest[i].value.key # value.key
      <3>1. PICK j \in 1 .. Len(others) : rest[i].value = others[j].value
        BY <1>6, <2>4 DEF PartOf
      <3> QED  BY <1>3, <3>1
    <2>8. Distinct(s)
      <3> SUFFICES ASSUME NEW i \in 1 .. m + 1, NEW j \in 1 .. m + 1,
                          s[i].value.key = s[j].value.key
                   PROVE  i = j
        BY <2>6 DEF Distinct
      <3>1. \A h \in 1 .. m + 1 : h \in 1 .. m \/ h = m + 1
        OBVIOUS
      <3>2. CASE i \in 1 .. m /\ j \in 1 .. m
        BY <2>3, <2>4, <2>6, <3>2 DEF Distinct
      <3>3. CASE i = m + 1 /\ j \in 1 .. m
        BY <2>2, <2>6, <2>7, <3>3
      <3>4. CASE i \in 1 .. m /\ j = m + 1
        BY <2>2, <2>6, <2>7, <3>4
      <3>5. CASE i = m + 1 /\ j = m + 1
        BY <3>5
      <3> QED  BY <3>1, <3>2, <3>3, <3>4, <3>5
    <2>9. n = AdsIn(s)
      <3>1. AdsIn(s) = AdsIn(rest) + new.value.payload.size
        BY <2>2, <2>3, <2>4, <2>5, <2>7, AppendCounts
      <3> QED  BY <1>9, <1>11, <2>2, <3>1
    <2>10. /\ Evicted(n, s) \in SUBSET DOMAIN s /\ PartOf(entries', s)
           /\ Len(entries') <= MaxEntries /\ totalAds' <= MaxAds
      BY <1>11, <2>6, <2>8, <2>9, EvictedFits
    <2>11. entries' \in Seq(Entry) /\ Distinct(entries')
      BY <2>10 DEF PartOf
    <2>12. totalAds' = AdsIn(entries')
      BY <1>11, <2>6, <2>8, <2>9, <2>10, RemovedCounts
    <2> QED  BY <2>10, <2>11, <2>12 DEF CacheInv, Distinct
  <1> QED  BY <1>2, <1>4, <1>8, <1>10, <1>11 DEF Put

\* Time changes no dataset.
LEMMA TickKeeps ==
    ASSUME CacheInv, Tick
    PROVE  CacheInv'
  <1>1. PICK l \in Nat : l = Len(entries) /\ DOMAIN entries = 1 .. l
    BY DEF CacheInv
  <1>2. entries' = [i \in 1 .. l |-> [entries[i] EXCEPT !.age = IF @ < Ttl THEN @ + 1 ELSE @]]
    BY <1>1 DEF Tick
  <1>3. ASSUME NEW i \in 1 .. l
        PROVE  entries'[i] \in Entry /\ entries'[i].value = entries[i].value
    <2>1. entries[i] \in Entry
      BY <1>1 DEF CacheInv
    <2>2. PICK a \in 0 .. Ttl : a = entries[i].age
      BY <2>1, EntryTypes
    <2>3. (IF a < Ttl THEN a + 1 ELSE a) \in 0 .. Ttl
      BY TtlAssumption
    <2>4. entries'[i] = [entries[i] EXCEPT !.age = IF a < Ttl THEN a + 1 ELSE a]
      BY <1>2, <2>2
    <2> QED  BY <2>1, <2>3, <2>4 DEF Entry, Age
  <1>4. entries' \in Seq(Entry) /\ Len(entries') = l /\ DOMAIN entries' = 1 .. l
    <2>1. entries' \in [1 .. l -> Entry]
      BY <1>2, <1>3
    <2> QED  BY <1>2, <2>1, SeqDef, LenProperties
  <1>5. Distinct(entries')
    BY <1>1, <1>3, <1>4 DEF CacheInv, Distinct
  <1>6. Listings(entries') = Listings(entries)
    <2> DEFINE held(i) == {entries[i].value.key} \X (1 .. entries[i].value.payload.size)
    <2>1. Listings(entries) = UNION {held(i) : i \in 1 .. l}
      BY <1>1 DEF Listings
    <2>2. Listings(entries') = UNION {{entries'[i].value.key} \X (1 .. entries'[i].value.payload.size) : i \in 1 .. l}
      BY <1>4 DEF Listings
    <2>3. \A i \in 1 .. l : {entries'[i].value.key} \X (1 .. entries'[i].value.payload.size) = held(i)
      BY <1>3
    <2> HIDE DEF held
    <2> QED  BY <2>1, <2>2, <2>3
  <1>7. totalAds' = totalAds
    BY DEF Tick
  <1> QED  BY <1>1, <1>4, <1>5, <1>6, <1>7 DEF CacheInv, AdsIn, Distinct

-----------------------------------------------------------------------------
(* The loads under way. *)

FlightTypes ==
    /\ inflight \in [Key -> Task \cup {NoTask}]
    /\ load \in [Task -> LoadState]
    /\ request \in [Request -> RequestState]

\* A load that goes on is the one registered for its key; a task that was forgotten is
\* nobody's.
FlightInv ==
    /\ FlightTypes
    /\ \A k \in Key : Loading(k) = {inflight[k]} \ {NoTask}
    /\ \A t \in Task : load[t].step = "none" => load[t] = NoLoad
    /\ \A r \in Request : ~Idle(r) =>
          /\ request[r].task \in Task
          /\ load[request[r].task].step # "none"
          /\ load[request[r].task].key = request[r].key

\* A request begins to wait for a task of its key.
LEMMA WaitKeeps ==
    ASSUME FlightInv, NEW r \in Request, NEW k \in Key, NEW t \in Task, WaitFor(r, k, t)
    PROVE  /\ request' \in [Request -> RequestState]
           /\ request'[r].task = t /\ request'[r].key = {k}
           /\ \A q \in Request : q # r => request'[q] = request[q]
  <1>1. [key |-> {k}, task |-> t] \in RequestState
    BY DEF RequestState
  <1>2. request' = [request EXCEPT ![r] = [key |-> {k}, task |-> t]]
    BY DEF WaitFor
  <1> QED  BY <1>1, <1>2 DEF FlightInv, FlightTypes

\* A request joins the load that is registered for its key.
LEMMA JoinFlight ==
    ASSUME FlightInv, NEW r \in Request, NEW k \in Key, Join(r, k)
    PROVE  FlightInv'
  <1>1. inflight[k] \in Task /\ inflight[k] # NoTask
    BY DEF Join, FlightInv, FlightTypes
  <1>2. UNCHANGED <<inflight, load>> /\ WaitFor(r, k, inflight[k])
    BY DEF Join
  <1>3. load[inflight[k]].step = "loading" /\ load[inflight[k]].key = {k}
    BY <1>1 DEF FlightInv, Loading
  <1>4. /\ request' \in [Request -> RequestState]
        /\ request'[r].task = inflight[k] /\ request'[r].key = {k}
        /\ \A q \in Request : q # r => request'[q] = request[q]
    BY <1>1, <1>2, WaitKeeps
  <1>5. ASSUME NEW q \in Request, ~Idle(q)'
        PROVE  /\ request'[q].task \in Task
               /\ load'[request'[q].task].step # "none"
               /\ load'[request'[q].task].key = request'[q].key
    <2>1. CASE q = r
      BY <1>1, <1>2, <1>3, <1>4, <2>1
    <2>2. CASE q # r
      BY <1>2, <1>4, <1>5, <2>2 DEF FlightInv, Idle
    <2> QED  BY <2>1, <2>2
  <1>6. FlightTypes'
    BY <1>2, <1>4 DEF FlightInv, FlightTypes
  <1>7. \A l \in Key : Loading(l)' = {inflight'[l]} \ {NoTask}
    BY <1>2 DEF FlightInv, Loading
  <1>8. \A u \in Task : load'[u].step = "none" => load'[u] = NoLoad
    BY <1>2 DEF FlightInv
  <1> QED  BY <1>5, <1>6, <1>7, <1>8 DEF FlightInv

\* A request starts and registers a load of a key that has none.
LEMMA StartFlight ==
    ASSUME FlightInv, NEW r \in Request, NEW k \in Key, NEW t \in Task, StartLoad(r, k, t)
    PROVE  FlightInv'
  <1> DEFINE started == [step |-> "loading", key |-> {k}, value |-> {}]
  <1>1. /\ inflight[k] = NoTask /\ load[t] = NoLoad
        /\ inflight' = [inflight EXCEPT ![k] = t]
        /\ load' = [load EXCEPT ![t] = started]
        /\ WaitFor(r, k, t)
    BY DEF StartLoad
  <1>2. started \in LoadState /\ started.step = "loading" /\ started.key = {k}
    BY DEF LoadState
  <1> HIDE DEF started
  <1>3. load' \in [Task -> LoadState] /\ inflight' \in [Key -> Task \cup {NoTask}]
    BY <1>1, <1>2 DEF FlightInv, FlightTypes
  <1>4. /\ load'[t] = started /\ inflight'[k] = t
        /\ \A u \in Task : u # t => load'[u] = load[u]
        /\ \A l \in Key : l # k => inflight'[l] = inflight[l]
    BY <1>1 DEF FlightInv, FlightTypes
  <1>5. /\ request' \in [Request -> RequestState]
        /\ request'[r].task = t /\ request'[r].key = {k}
        /\ \A q \in Request : q # r => request'[q] = request[q]
    BY <1>1, WaitKeeps
  <1>6. load[t].step = "none"
    BY <1>1 DEF NoLoad
  <1>7. ASSUME NEW l \in Key PROVE Loading(l)' = {inflight'[l]} \ {NoTask}
    <2>1. Loading(l) = {inflight[l]} \ {NoTask}
      BY DEF FlightInv
    <2>2. CASE l = k
      <3>1. \A u \in Task : ~(load[u].step = "loading" /\ load[u].key = {k})
        BY <1>1, <2>1, <2>2 DEF Loading
      <3>2. \A u \in Task : load'[u].step = "loading" /\ load'[u].key = {k} <=> u = t
        BY <1>2, <1>4, <3>1
      <3> QED  BY <1>4, <2>2, <3>2, NoTaskAssumption DEF Loading
    <2>3. CASE l # k
      <3>1. {k} # {l}
        BY <2>3
      <3>2. \A u \in Task : load'[u].step = "loading" /\ load'[u].key = {l}
                            <=> load[u].step = "loading" /\ load[u].key = {l}
        BY <1>2, <1>4, <1>6, <3>1
      <3> QED  BY <1>4, <2>1, <2>3, <3>2 DEF Loading
    <2> QED  BY <2>2, <2>3
  <1>8. \A u \in Task : load'[u].step = "none" => load'[u] = NoLoad
    BY <1>2, <1>4 DEF FlightInv
  <1>9. ASSUME NEW q \in Request, ~Idle(q)'
        PROVE  /\ request'[q].task \in Task
               /\ load'[request'[q].task].step # "none"
               /\ load'[request'[q].task].key = request'[q].key
    <2>1. CASE q = r
      BY <1>2, <1>4, <1>5, <2>1
    <2>2. CASE q # r
      <3>1. /\ request[q].task \in Task /\ load[request[q].task].step # "none"
            /\ load[request[q].task].key = request[q].key /\ request'[q] = request[q]
        BY <1>5, <1>9, <2>2 DEF FlightInv, Idle
      <3>2. request[q].task # t
        BY <1>6, <3>1
      <3> QED  BY <1>4, <3>1, <3>2
    <2> QED  BY <2>1, <2>2
  <1>10. FlightTypes'
    BY <1>3, <1>5 DEF FlightTypes
  <1> QED  BY <1>7, <1>8, <1>9, <1>10 DEF FlightInv

\* The load of a key ends, in whatever way.
LEMMA EndFlight ==
    ASSUME FlightInv, NEW t \in Task, NEW k \in Key, NEW how \in LoadState,
           how.step # "none", how.step # "loading", how.key = {k}, Ends(t, k, how)
    PROVE  FlightInv'
  <1> DEFINE end == IF WaitersOf(t) = {} THEN NoLoad ELSE how
  <1>1. /\ load[t].step = "loading" /\ load[t].key = {k}
        /\ inflight' = IF inflight[k] = t THEN [inflight EXCEPT ![k] = NoTask] ELSE inflight
        /\ load' = [load EXCEPT ![t] = end]
        /\ request' = request
    BY DEF Ends
  <1>2. NoLoad \in LoadState /\ NoLoad.step = "none"
    BY DEF NoLoad, LoadState
  <1>3. end \in LoadState /\ end.step # "loading" /\ (end.step = "none" => end = NoLoad)
    BY <1>2
  <1>4. WaitersOf(t) # {} => end = how
    OBVIOUS
  <1> HIDE DEF end
  <1>5. inflight[k] = t
    BY <1>1 DEF FlightInv, Loading
  <1>6. inflight' = [inflight EXCEPT ![k] = NoTask]
    BY <1>1, <1>5
  <1>7. FlightTypes'
    BY <1>1, <1>3, <1>6 DEF FlightInv, FlightTypes
  <1>8. /\ load'[t] = end /\ inflight'[k] = NoTask
        /\ \A u \in Task : u # t => load'[u] = load[u]
        /\ \A l \in Key : l # k => inflight'[l] = inflight[l]
    BY <1>1, <1>6 DEF FlightInv, FlightTypes
  <1>9. ASSUME NEW l \in Key PROVE Loading(l)' = {inflight'[l]} \ {NoTask}
    <2>1. Loading(l) = {inflight[l]} \ {NoTask}
      BY DEF FlightInv
    <2>2. CASE l = k
      <3>1. \A u \in Task : load[u].step = "loading" /\ load[u].key = {k} => u = t
        BY <1>5, <2>1, <2>2 DEF Loading
      <3>2. \A u \in Task : ~(load'[u].step = "loading" /\ load'[u].key = {k})
        BY <1>3, <1>8, <3>1
      <3> QED  BY <1>8, <2>2, <3>2 DEF Loading
    <2>3. CASE l # k
      <3>1. {k} # {l}
        BY <2>3
      <3>2. \A u \in Task : load'[u].step = "loading" /\ load'[u].key = {l}
                            <=> load[u].step = "loading" /\ load[u].key = {l}
        BY <1>1, <1>3, <1>8, <3>1
      <3> QED  BY <1>8, <2>1, <2>3, <3>2 DEF Loading
    <2> QED  BY <2>2, <2>3
  <1>10. \A u \in Task : load'[u].step = "none" => load'[u] = NoLoad
    BY <1>3, <1>8 DEF FlightInv
  <1>11. ASSUME NEW q \in Request, ~Idle(q)'
         PROVE  /\ request'[q].task \in Task
                /\ load'[request'[q].task].step # "none"
                /\ load'[request'[q].task].key = request'[q].key
    <2>1. /\ request[q].task \in Task /\ load[request[q].task].step # "none"
          /\ load[request[q].task].key = request[q].key /\ request'[q] = request[q]
      BY <1>1, <1>11 DEF FlightInv, Idle
    <2>2. CASE request[q].task = t
      <3>1. q \in WaitersOf(t)
        BY <2>2 DEF WaitersOf
      <3>2. end = how
        BY <1>4, <3>1
      <3> QED  BY <1>1, <1>8, <2>1, <2>2, <3>2
    <2>3. CASE request[q].task # t
      BY <1>8, <2>1, <2>3
    <2> QED  BY <2>2, <2>3
  <1> QED  BY <1>7, <1>9, <1>10, <1>11 DEF FlightInv

\* A request that waits goes away.
LEMMA LeaveFlight ==
    ASSUME FlightInv, NEW r \in Request, ~Idle(r), Leave(r), UNCHANGED inflight,
           request' = [request EXCEPT ![r] = IdleRequest]
    PROVE  FlightInv'
  <1> DEFINE t == request[r].task
  <1>1. t \in Task
    BY DEF FlightInv
  <1>2. IdleRequest \in RequestState
    BY DEF IdleRequest, RequestState
  <1>3. NoLoad \in LoadState /\ NoLoad.step = "none"
    BY DEF NoLoad, LoadState
  <1>4. /\ request' \in [Request -> RequestState] /\ request'[r] = IdleRequest
        /\ \A q \in Request : q # r => request'[q] = request[q]
    BY <1>2 DEF FlightInv, FlightTypes
  <1>5. ASSUME NEW q \in Request, ~Idle(q)'
        PROVE  q # r /\ ~Idle(q) /\ request'[q] = request[q]
    BY <1>4, <1>5 DEF Idle
  <1>6. CASE load' = load
    <2>1. FlightTypes'
      BY <1>4, <1>6 DEF FlightInv, FlightTypes
    <2>2. \A l \in Key : Loading(l)' = {inflight'[l]} \ {NoTask}
      BY <1>6 DEF FlightInv, Loading
    <2>3. \A u \in Task : load'[u].step = "none" => load'[u] = NoLoad
      BY <1>6 DEF FlightInv
    <2>4. \A q \in Request : ~Idle(q)' =>
             /\ request'[q].task \in Task
             /\ load'[request'[q].task].step # "none"
             /\ load'[request'[q].task].key = request'[q].key
      BY <1>5, <1>6 DEF FlightInv
    <2> QED  BY <2>1, <2>2, <2>3, <2>4 DEF FlightInv
  <1>7. CASE load' # load
    <2>1. /\ load[t].step # "loading" /\ WaitersOf(t) = {r}
          /\ load' = [load EXCEPT ![t] = NoLoad]
      BY <1>7 DEF Leave
    <2>2. load' \in [Task -> LoadState]
      BY <1>3, <2>1 DEF FlightInv, FlightTypes
    <2>3. load'[t] = NoLoad /\ \A u \in Task : u # t => load'[u] = load[u]
      BY <1>1, <2>1 DEF FlightInv, FlightTypes
    <2>4. FlightTypes'
      BY <1>4, <2>2 DEF FlightInv, FlightTypes
    <2>5. \A u \in Task : load'[u].step = "none" => load'[u] = NoLoad
      BY <2>3 DEF FlightInv
    <2>6. ASSUME NEW l \in Key PROVE Loading(l)' = {inflight'[l]} \ {NoTask}
      <3>1. \A u \in Task : load'[u].step = "loading" /\ load'[u].key = {l}
                            <=> load[u].step = "loading" /\ load[u].key = {l}
        BY <1>3, <2>1, <2>3
      <3> QED  BY <3>1 DEF FlightInv, Loading
    <2>7. ASSUME NEW q \in Request, ~Idle(q)'
          PROVE  /\ request'[q].task \in Task
                 /\ load'[request'[q].task].step # "none"
                 /\ load'[request'[q].task].key = request'[q].key
      <3>1. q # r /\ ~Idle(q) /\ request'[q] = request[q]
        BY <1>5, <2>7
      <3>2. request[q].task # t
        BY <2>1, <3>1 DEF WaitersOf
      <3> QED  BY <2>3, <3>1, <3>2 DEF FlightInv
    <2> QED  BY <2>4, <2>5, <2>6, <2>7 DEF FlightInv
  <1> QED  BY <1>6, <1>7

-----------------------------------------------------------------------------

AnswersInv == AnswersFresh /\ answer \in AnswerState

IInv == CacheInv /\ FlightInv /\ AnswersInv

\* A cache without entries, loads and requests satisfies the invariant.
LEMMA InitIInv == Init => IInv
  <1> SUFFICES ASSUME Init PROVE IInv
    OBVIOUS
  <1>1. CacheInv
    <2>1. <<>> \in Seq(Entry) /\ Len(<<>>) = 0
      BY EmptySeq
    <2>2. Distinct(<<>>)
      BY <2>1 DEF Distinct
    <2>3. 0 <= MaxEntries /\ 0 <= MaxAds
      BY BoundsAssumption
    <2> QED  BY <2>1, <2>2, <2>3, NothingHeld DEF Init, CacheInv
  <1>2. FlightInv
    <2>1. NoLoad \in LoadState /\ NoLoad.step = "none" /\ IdleRequest \in RequestState
      BY DEF NoLoad, LoadState, IdleRequest, RequestState
    <2> QED  BY <2>1 DEF Init, FlightInv, FlightTypes, Loading, Idle
  <1>3. AnswersInv
    BY DEF Init, AnswersInv, AnswersFresh, AnswerState
  <1> QED  BY <1>1, <1>2, <1>3 DEF IInv

\* What is found in the cache is within its lifetime.
LEMMA HitIsFresh ==
    ASSUME CacheInv, NEW r \in Request, NEW k \in Key, Hit(r, k)
    PROVE  AnswersInv'
  <1>1. PICK valid : valid = Valid(entries)
    OBVIOUS
  <1>2. /\ PartOf(valid, entries)
        /\ \A n \in 1 .. Len(valid) : valid[n].age < TtlFor(valid[n].value.payload)
    BY <1>1, ValidPart DEF CacheInv
  <1>3. valid \in Seq(Entry) /\ DOMAIN valid = 1 .. Len(valid)
    BY <1>2 DEF PartOf
  <1>4. ASSUME NEW e \in Cached(k)
        PROVE  e.age < TtlFor(e.value.payload) /\ e.value.payload \in Payload /\ e.age \in Age
    <2>1. e \in ToSet(valid)
      BY <1>1 DEF Cached
    <2>2. PICK n \in 1 .. Len(valid) : e = valid[n]
      BY <1>3, <2>1 DEF ToSet
    <2>3. e \in Entry
      BY <1>3, <2>2
    <2> QED  BY <1>2, <2>2, <2>3 DEF Entry, Dataset
  <1>5. ASSUME NEW a \in answer'
        PROVE  a \in [payload: Payload, age: Age] /\ a.age < TtlFor(a.payload)
    <2>1. PICK e \in Cached(k) : a = [payload |-> e.value.payload, age |-> e.age]
      BY <1>5 DEF Hit
    <2> QED  BY <1>4, <2>1
  <1> QED  BY <1>5 DEF AnswersInv, AnswersFresh, AnswerState

\* Every operation, the end of every load and time keep the invariant.
LEMMA StepIInv == IInv /\ [Next]_vars => IInv'
  <1> SUFFICES ASSUME IInv, [Next]_vars PROVE IInv'
    OBVIOUS
  <1>1. CacheInv /\ FlightInv /\ AnswersInv /\ entries \in Seq(Entry) /\ Distinct(entries)
    BY DEF IInv, CacheInv
  <1>2. UNCHANGED answer => AnswersInv'
    BY <1>1 DEF AnswersInv, AnswersFresh
  <1>3. UNCHANGED <<entries, totalAds>> => CacheInv'
    BY <1>1 DEF CacheInv, Distinct
  <1>4. UNCHANGED <<inflight, load, request>> => FlightInv'
    BY <1>1 DEF FlightInv, FlightTypes, Loading, Idle
  <1>5. ASSUME NEW k, entries' = Touched(k), totalAds' = Purged(totalAds, entries)
        PROVE  CacheInv'
    BY <1>1, <1>5, TouchKeeps
  <1>6. ASSUME NEW r \in Request, NEW k \in Key, Hit(r, k) PROVE IInv'
    <2>1. AnswersInv'
      BY <1>1, <1>6, HitIsFresh
    <2> QED  BY <1>4, <1>5, <1>6, <2>1 DEF IInv, Hit
  <1>7. ASSUME NEW r \in Request, NEW k \in Key, Join(r, k) PROVE IInv'
    <2>1. FlightInv'
      BY <1>1, <1>7, JoinFlight
    <2> QED  BY <1>2, <1>5, <1>7, <2>1 DEF IInv, Join
  <1>8. ASSUME NEW r \in Request, NEW k \in Key, NEW t \in Task, StartLoad(r, k, t) PROVE IInv'
    <2>1. FlightInv'
      BY <1>1, <1>8, StartFlight
    <2> QED  BY <1>2, <1>5, <1>8, <2>1 DEF IInv, StartLoad
  <1>9. ASSUME NEW r \in Request, NEW k \in Key, Resume(r, k) PROVE IInv'
    <2>1. FlightInv'
      BY <1>1, <1>9, LeaveFlight DEF Resume
    <2>2. request[r].task \in Task
      BY <1>1, <1>9 DEF FlightInv, Resume
    <2>3. load[request[r].task].value \subseteq Dataset
      BY <1>1, <2>2 DEF FlightInv, FlightTypes, LoadState
    <2>4. 0 \in Age
      BY TtlAssumption DEF Age
    <2>5. ASSUME NEW a \in answer' PROVE a \in [payload: Payload, age: Age] /\ a.age = 0
      <3>1. PICK v \in load[request[r].task].value : a = [payload |-> v.payload, age |-> 0]
        BY <1>9, <2>5 DEF Resume
      <3> QED  BY <2>3, <2>4, <3>1 DEF Dataset
    <2>6. AnswersInv'
      BY <2>5 DEF AnswersInv, AnswersFresh, AnswerState
    <2> QED  BY <1>3, <1>9, <2>1, <2>6 DEF IInv, Resume
  <1>10. ASSUME NEW t \in Task, NEW k \in Key, NEW payload \in Payload, LoadSucceeds(t, k, payload)
         PROVE  IInv'
    <2>1. PICK value \in Dataset :
             /\ Put(value)
             /\ Ends(t, k, [step |-> "loaded", key |-> {k}, value |-> {value}])
      BY <1>10 DEF LoadSucceeds, Dataset
    <2>2. PICK how \in LoadState :
             how = [step |-> "loaded", key |-> {k}, value |-> {value}]
      BY DEF LoadState
    <2>3. FlightInv'
      BY <1>1, <2>1, <2>2, EndFlight
    <2>4. CacheInv'
      BY <1>1, <2>1, PutKeeps
    <2>5. UNCHANGED answer
      BY <2>1 DEF Ends
    <2> QED  BY <1>2, <2>3, <2>4, <2>5 DEF IInv
  <1>11. ASSUME NEW t \in Task, NEW k \in Key, LoadFails(t, k) PROVE IInv'
    <2>1. PICK how \in LoadState : how = [step |-> "failed", key |-> {k}, value |-> {}]
      BY DEF LoadState
    <2>2. Ends(t, k, how) /\ UNCHANGED <<entries, totalAds>>
      BY <1>11, <2>1 DEF LoadFails
    <2>3. FlightInv'
      BY <1>1, <2>1, <2>2, EndFlight
    <2>4. UNCHANGED answer
      BY <2>2 DEF Ends
    <2> QED  BY <1>2, <1>3, <2>2, <2>3, <2>4 DEF IInv
  <1>12. ASSUME NEW r \in Request, Cancel(r) PROVE IInv'
    <2>1. FlightInv'
      BY <1>1, <1>12, LeaveFlight DEF Cancel
    <2> QED  BY <1>2, <1>3, <1>12, <2>1 DEF IInv, Cancel
  <1>13. CASE Tick
    <2>1. CacheInv'
      BY <1>1, <1>13, TickKeeps
    <2> QED  BY <1>2, <1>4, <1>13, <2>1 DEF IInv, Tick
  <1>14. CASE UNCHANGED vars
    BY <1>2, <1>3, <1>4, <1>14 DEF IInv, vars
  <1> QED  BY <1>6, <1>7, <1>8, <1>9, <1>10, <1>11, <1>12, <1>13, <1>14 DEF Next

\* The inductive invariant of the cache holds in every reachable state.
LEMMA Always == Spec => []IInv
  BY InitIInv, StepIInv, PTL DEF Spec

-----------------------------------------------------------------------------
(* The properties. *)

\* However requests come, leave and are cancelled, no two loads of one key run at
\* a time: a load is registered before it starts and stays so until it ends.
THEOREM LoadsAreShared == Spec => []OneLoadPerKey
  <1>1. IInv => OneLoadPerKey
    BY DEF IInv, FlightInv, OneLoadPerKey
  <1> QED  BY <1>1, Always, PTL

\* The cache has one entry for a key, never more entries or listings than its
\* bounds, and _total_ads counts what it holds.
THEOREM CacheStaysBounded == Spec => []CacheBounded
  <1>1. IInv => CacheBounded
    <2> SUFFICES ASSUME IInv PROVE CacheBounded
      OBVIOUS
    <2>1. totalAds \in Nat
      BY ListingsFinite DEF IInv, CacheInv
    <2> QED
      BY <2>1 DEF IInv, CacheInv, FlightInv, FlightTypes, AnswersInv, TypeOK,
                  CacheBounded, Distinct
  <1> QED  BY <1>1, Always, PTL

\* No request is answered from the cache with a dataset past its lifetime, nor with a
\* truncated one past the shorter lifetime it has.
THEOREM AnswersAreFresh == Spec => []AnswersFresh
  <1>1. IInv => AnswersFresh
    BY DEF IInv, AnswersInv
  <1> QED  BY <1>1, Always, PTL

=============================================================================
