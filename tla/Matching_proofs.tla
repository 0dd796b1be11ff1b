---------------------------- MODULE Matching_proofs ----------------------------
(***************************************************************************)
(* Theorems about the pure functions of the report engine, for words and   *)
(* version texts of any size, about what the analyzers take from a         *)
(* Cargo.toml, from the calls of a CMake file and from pinned entries, and *)
(* about the lookup of a mapping under any requests.                       *)
(*                                                                         *)
(* What needs induction (the values of versions, the positions of calls)   *)
(* takes the least counterexample: LeastNumber.                            *)
(***************************************************************************)
EXTENDS MCMatching, FiniteSetTheorems, TLAPS

(***************************************************************************)
(* The least number of a set: 1 .. n is minimal among the intervals of its *)
(* members.                                                                *)
(***************************************************************************)
LEMMA LeastNumber ==
    ASSUME NEW S \in SUBSET Nat, S # {}
    PROVE  \E n \in S : \A m \in S : n <= m
<1> DEFINE R == StrictSubsetOrdering(Nat)
           T == {1 .. n : n \in S}
<1>1. T \subseteq FiniteSubsetsOf(Nat) /\ T # {}
    <2>1. \A n \in S : 1 .. n \in SUBSET Nat /\ IsFiniteSet(1 .. n)
        BY FS_Interval
    <2>2. \A n \in S : 1 .. n \in FiniteSubsetsOf(Nat)
        BY <2>1 DEF FiniteSubsetsOf
    <2>3. QED
        BY <2>2
<1>2. IsWellFoundedOn(R, FiniteSubsetsOf(Nat))
    BY FS_StrictSubsetOrderingWellFounded
<1>3. ASSUME NEW m \in S, NEW n \in S, m < n PROVE << 1 .. m, 1 .. n >> \in R
    <2>1. 1 .. m \subseteq 1 .. n /\ n \in 1 .. n /\ n \notin 1 .. m
        BY <1>3
    <2>2. << 1 .. m, 1 .. n >> \in (SUBSET Nat) \X (SUBSET Nat)
        OBVIOUS
    <2>3. 1 .. m # 1 .. n
        BY <2>1
    <2>4. QED
        BY <2>1, <2>2, <2>3 DEF StrictSubsetOrdering
<1> HIDE DEF R
<1>4. PICK x \in T : \A y \in T : << y, x >> \notin R
    BY <1>1, <1>2, WFMin
<1>5. PICK n \in S : x = 1 .. n
    OBVIOUS
<1>6. \A m \in S : ~ m < n
    BY <1>3, <1>4, <1>5
<1>7. \A m \in S : n <= m
    BY <1>6
<1>8. QED
    BY <1>7

(***************************************************************************)
(* Induction on 0 .. n, the set of the numbers for which something holds.  *)
(***************************************************************************)
LEMMA NumbersAreReached ==
    ASSUME NEW n \in Nat, NEW S, 0 \in S, \A i \in 1 .. n : i - 1 \in S => i \in S
    PROVE  0 .. n \subseteq S
<1> DEFINE Bad == {m \in 0 .. n : m \notin S}
<1>1. SUFFICES ASSUME Bad # {} PROVE FALSE
    OBVIOUS
<1>2. Bad \in SUBSET Nat
    OBVIOUS
<1>3. PICK q \in Bad : \A m \in Bad : q <= m
    BY <1>1, <1>2, LeastNumber
<1>4. q \in 1 .. n /\ q \notin S /\ q - 1 \in 0 .. n
    BY <1>3
<1>5. q - 1 \in Bad
    BY <1>4
<1>6. q <= q - 1
    <2> HIDE DEF Bad
    <2>1. QED
        BY <1>3, <1>5
<1>7. QED
    BY <1>4, <1>6

(***************************************************************************)
(* A function defined by recursion on 0 .. n exists: the least length      *)
(* without one would extend the one before it.                             *)
(***************************************************************************)
Recursion(n, S, b, h) ==
    \E f \in [0 .. n -> S] : f[0] = b /\ \A i \in 1 .. n : f[i] = h[<< i, f[i - 1] >>]

LEMMA RecursionExists ==
    ASSUME NEW n \in Nat, NEW S, NEW b \in S, NEW h \in [(1 .. n) \X S -> S]
    PROVE  Recursion(n, S, b, h)
<1> DEFINE Is(f, m) == /\ f \in [0 .. m -> S] /\ f[0] = b
                       /\ \A i \in 1 .. m : f[i] = h[<< i, f[i - 1] >>]
           Has(m) == \E f : Is(f, m)
           Bad == {m \in 0 .. n : ~ Has(m)}
<1>1. SUFFICES ASSUME Bad # {} PROVE FALSE
    BY DEF Recursion
<1>2. Bad \in SUBSET Nat
    OBVIOUS
<1>3. PICK q \in Bad : \A m \in Bad : q <= m
    BY <1>1, <1>2, LeastNumber
<1>4. Has(0)
    <2>1. Is([i \in 0 .. 0 |-> b], 0)
        OBVIOUS
    <2>2. QED
        BY <2>1
<1>5. q \in 0 .. n /\ ~ Has(q)
    BY <1>3
<1> HIDE DEF Has
<1>6. q \in 1 .. n /\ q - 1 \in 0 .. n /\ q \in Nat
    BY <1>4, <1>5
<1>7. Has(q - 1)
    <2>1. q - 1 \in Bad => q <= q - 1
        BY <1>3
    <2>2. q - 1 \notin Bad
        <3> HIDE DEF Bad
        <3>1. QED
            BY <1>6, <2>1
    <2>3. QED
        BY <1>6, <2>2
<1>8. PICK f : Is(f, q - 1)
    BY <1>7 DEF Has
<1> DEFINE last == h[<< q, f[q - 1] >>]
           g == [i \in 0 .. q |-> IF i = q THEN last ELSE f[i]]
<1>9. f \in [0 .. q - 1 -> S] /\ q - 1 \in 0 .. q - 1
    BY <1>6, <1>8
<1>10. last \in S
    BY <1>6, <1>9
<1> HIDE DEF last
<1>11. q \in 0 .. q /\ \A i \in 0 .. q - 1 : i \in 0 .. q /\ i # q
    BY <1>6
<1>12. DOMAIN g = 0 .. q /\ g[q] = last /\ \A i \in 0 .. q - 1 : g[i] = f[i]
    BY <1>11
<1>13. \A i \in 0 .. q : i = q \/ i \in 0 .. q - 1
    BY <1>6
<1>14. g \in [0 .. q -> S]
    BY <1>9, <1>10, <1>13
<1> HIDE DEF g
<1>15. 0 \in 0 .. q - 1 /\ g[0] = b
    BY <1>6, <1>8, <1>12
<1>16. ASSUME NEW i \in 1 .. q PROVE g[i] = h[<< i, g[i - 1] >>]
    <2>1. i - 1 \in 0 .. q - 1
        BY <1>6
    <2>2. g[i - 1] = f[i - 1]
        BY <1>12, <2>1
    <2>3. CASE i = q
        BY <1>12, <2>2, <2>3 DEF last
    <2>4. CASE i # q
        <3>1. i \in 1 .. q - 1 /\ i \in 0 .. q - 1
            BY <1>6, <2>4
        <3>2. QED
            BY <1>8, <1>12, <2>2, <3>1
    <2>5. QED
        BY <2>3, <2>4
<1>17. Is(g, q)
    BY <1>14, <1>15, <1>16
<1>18. QED
    BY <1>5, <1>17 DEF Has

IsOn(f, n) == f = [i \in 0 .. n |-> f[i]]

\* And it is the only one.
LEMMA RecursionIsUnique ==
    ASSUME NEW n \in Nat, NEW f, NEW g,
           IsOn(f, n), IsOn(g, n),
           f[0] = g[0], \A i \in 1 .. n : f[i - 1] = g[i - 1] => f[i] = g[i]
    PROVE  f = g
<1> DEFINE Bad == {m \in 0 .. n : f[m] # g[m]}
<1>1. SUFFICES ASSUME Bad # {} PROVE FALSE
    <2>1. Bad = {} => \A i \in 0 .. n : f[i] = g[i]
        OBVIOUS
    <2> HIDE DEF Bad
    <2>2. Bad = {} => [i \in 0 .. n |-> f[i]] = [i \in 0 .. n |-> g[i]]
        BY <2>1
    <2>3. QED
        BY <1>1, <2>2 DEF IsOn
<1>2. Bad \in SUBSET Nat
    OBVIOUS
<1>3. PICK q \in Bad : \A m \in Bad : q <= m
    BY <1>1, <1>2, LeastNumber
<1>4. q \in 0 .. n /\ f[q] # g[q]
    BY <1>3
<1>5. q \in 1 .. n /\ q - 1 \in 0 .. n
    BY <1>4
<1>6. f[q - 1] = g[q - 1]
    <2>1. q - 1 \notin Bad
        <3>1. q - 1 \in Bad => q <= q - 1
            BY <1>3
        <3> HIDE DEF Bad
        <3>2. QED
            BY <1>5, <3>1
    <2>2. QED
        BY <1>5, <2>1
<1>7. QED
    BY <1>4, <1>5, <1>6

-----------------------------------------------------------------------------

(***************************************************************************)
(* The numbers up to n that satisfy what all before them do are the first  *)
(* ones.                                                                   *)
(***************************************************************************)
LEMMA PrefixIsInterval ==
    ASSUME NEW n \in Nat, NEW S \in SUBSET (1 .. n), \A i \in S : 1 .. i \subseteq S
    PROVE  \E m \in 0 .. n : S = 1 .. m
<1>1. CASE S = 1 .. n
    BY <1>1
<1>2. CASE S # 1 .. n
    <2> DEFINE T == (1 .. n) \ S
    <2>1. T \in SUBSET Nat /\ T # {}
        <3>1. \E k \in 1 .. n : k \notin S
            BY <1>2
        <3>2. \A k \in T : k \in Nat
            OBVIOUS
        <3>3. QED
            BY <3>1, <3>2
    <2>2. PICK q \in T : \A k \in T : q <= k
        BY <2>1, LeastNumber
    <2>3. \A i \in 1 .. n : i < q => i \in S
        BY <2>2
    <2>4. \A i \in S : i < q
        <3>1. SUFFICES ASSUME NEW i \in S, ~ i < q PROVE FALSE
            OBVIOUS
        <3>2. q \in 1 .. i
            BY <2>2, <3>1
        <3>3. QED
            BY <2>2, <3>2
    <2>5. q \in 1 .. n /\ q - 1 \in 0 .. n
        BY <2>2
    <2>6. \A i : i \in S <=> i \in 1 .. q - 1
        <3>1. \A i \in S : i \in 1 .. n
            OBVIOUS
        <3>2. \A i \in 1 .. q - 1 : i \in 1 .. n /\ i < q
            BY <2>5
        <3>3. \A i \in 1 .. n : i < q => i \in 1 .. q - 1
            BY <2>5
        <3>4. QED
            BY <2>3, <2>4, <3>1, <3>2, <3>3
    <2>7. S = 1 .. q - 1
        BY <2>6
    <2>8. QED
        BY <2>5, <2>7
<1>3. QED
    BY <1>1, <1>2

LEMMA ListOf ==
    ASSUME NEW S, NEW s \in Seq(S)
    PROVE  Len(s) \in Nat /\ DOMAIN s = 1 .. Len(s) /\ \A i \in 1 .. Len(s) : s[i] \in S
OBVIOUS

\* The cast to uint32_t.
LEMMA CastFits ==
    ASSUME NEW c \in Nat
    PROVE  /\ c % Word \in 0 .. Word - 1
           /\ c % Word <= c
           /\ (c % Word) % Word = c % Word
<1>1. Word \in Nat /\ Word > 0
    BY WidthAssumption
<1>2. \A x \in Nat : x % Word \in 0 .. Word - 1
    BY <1>1
<1>3. \A x \in Nat : x % Word <= x
    BY <1>1, SMTT(30)
<1>4. \A x \in 0 .. Word - 1 : x % Word = x
    BY <1>1, SMTT(30)
<1>5. QED
    BY <1>2, <1>3, <1>4

\* parseVersion yields a version, with as many parts as there are numbers.
LEMMA ParsedIsVersion ==
    ASSUME NEW t \in Text
    PROVE  /\ ParseVersion(t) \in Version
           /\ ParseVersion(t).pre = t.pre
           /\ \E m \in 0 .. Len(t.parts) : Parsed(t) = 1 .. m
<1>1. t.parts \in Seq(Component) /\ t.pre \in Nat /\ Len(t.parts) \in Nat
    BY DEF Text
<1>2. Parsed(t) \in SUBSET (1 .. Len(t.parts))
    BY DEF Parsed
<1>3. \A i \in Parsed(t) : 1 .. i \subseteq Parsed(t)
    <2>1. SUFFICES ASSUME NEW i \in Parsed(t), NEW k \in 1 .. i PROVE k \in Parsed(t)
        OBVIOUS
    <2>2. i \in 1 .. Len(t.parts) /\ \A j \in 1 .. i : Numeric(t.parts[j])
        BY DEF Parsed
    <2>3. k \in 1 .. Len(t.parts) /\ \A j \in 1 .. k : j \in 1 .. i
        BY <1>1, <2>2
    <2>4. QED
        BY <2>2, <2>3 DEF Parsed
<1>4. PICK m \in 0 .. Len(t.parts) : Parsed(t) = 1 .. m
    BY <1>1, <1>2, <1>3, PrefixIsInterval
<1>5. \A i \in Parsed(t) : t.parts[i] % Word \in 0 .. Word - 1
    <2>1. SUFFICES ASSUME NEW i \in Parsed(t) PROVE t.parts[i] \in Nat
        BY CastFits
    <2>2. i \in 1 .. Len(t.parts) /\ Numeric(t.parts[i])
        BY DEF Parsed
    <2>3. t.parts[i] \in Component
        BY <1>1, <2>2
    <2>4. QED
        BY <2>2, <2>3 DEF Component, Numeric
<1>6. [i \in Parsed(t) |-> t.parts[i] % Word] \in [1 .. m -> 0 .. Word - 1] /\ m \in Nat
    BY <1>1, <1>4, <1>5
<1>7. [i \in Parsed(t) |-> t.parts[i] % Word] \in Seq(0 .. Word - 1)
    BY <1>6
<1>8. QED
    BY <1>1, <1>4, <1>7 DEF ParseVersion, Version

(***************************************************************************)
(* A version and its infinitely many places, all zero from some one on.    *)
(***************************************************************************)
LEMMA PartsOf ==
    ASSUME NEW v \in Version
    PROVE  /\ v.pre \in Nat /\ Len(v.parts) \in Nat /\ DOMAIN v.parts = 1 .. Len(v.parts)
           /\ \A i : Part(v, i) \in Nat
           /\ \A i : i \notin 1 .. Len(v.parts) => Part(v, i) = 0
<1>1. v.parts \in Seq(0 .. Word - 1) /\ v.pre \in Nat
    BY DEF Version
<1>2. /\ Len(v.parts) \in Nat /\ DOMAIN v.parts = 1 .. Len(v.parts)
      /\ \A i \in 1 .. Len(v.parts) : v.parts[i] \in 0 .. Word - 1
    BY <1>1, ListOf
<1>3. QED
    BY <1>1, <1>2, WidthAssumption DEF Part

Place == Nat \ {0}

Smaller(v, w) ==
    \E i \in Place : Part(v, i) < Part(w, i) /\ \A k \in 1 .. i - 1 : Part(v, k) = Part(w, k)

Agree(v, w) == \A i \in Place : Part(v, i) = Part(w, i)

LEMMA LessIsSmaller ==
    ASSUME NEW v \in Version, NEW w \in Version
    PROVE  Less(v, w) <=> Smaller(v, w)
<1> DEFINE n == IF Len(v.parts) < Len(w.parts) THEN Len(w.parts) ELSE Len(v.parts)
<1>1. n \in Nat /\ Places(v, w) = 1 .. n /\ Len(w.parts) <= n /\ Len(w.parts) \in Nat
    BY PartsOf DEF Places
<1>2. Places(v, w) \subseteq Place
    BY <1>1 DEF Place
<1>3. ASSUME NEW i \in Place, Part(v, i) < Part(w, i) PROVE i \in Places(v, w)
    <2>1. Part(w, i) # 0
        BY <1>3, PartsOf
    <2>2. i \in 1 .. Len(w.parts)
        BY <2>1, PartsOf
    <2> HIDE DEF n
    <2>3. QED
        BY <1>1, <2>2
<1>4. QED
    BY <1>2, <1>3 DEF Less, Smaller

LEMMA OneWay ==
    ASSUME NEW v \in Version, NEW w \in Version
    PROVE  /\ Smaller(v, w) \/ Smaller(w, v) \/ Agree(v, w)
           /\ ~ (Smaller(v, w) /\ Smaller(w, v))
           /\ Agree(v, w) => ~ Smaller(v, w) /\ ~ Smaller(w, v)
<1>1. \A i : Part(v, i) \in Nat /\ Part(w, i) \in Nat
    BY PartsOf
<1>2. Agree(v, w) => ~ Smaller(v, w) /\ ~ Smaller(w, v)
    BY <1>1 DEF Agree, Smaller
<1>3. ASSUME Smaller(v, w), Smaller(w, v) PROVE FALSE
    <2>1. PICK i \in Place : Part(v, i) < Part(w, i) /\ \A k \in 1 .. i - 1 : Part(v, k) = Part(w, k)
        BY <1>3 DEF Smaller
    <2>2. PICK j \in Place : Part(w, j) < Part(v, j) /\ \A k \in 1 .. j - 1 : Part(w, k) = Part(v, k)
        BY <1>3 DEF Smaller
    <2>3. i < j \/ i = j \/ j < i
        BY DEF Place
    <2>4. i < j => i \in 1 .. j - 1
        BY DEF Place
    <2>5. j < i => j \in 1 .. i - 1
        BY DEF Place
    <2>6. QED
        BY <1>1, <2>1, <2>2, <2>3, <2>4, <2>5
<1>4. ASSUME ~ Agree(v, w) PROVE Smaller(v, w) \/ Smaller(w, v)
    <2> DEFINE D == {i \in Place : Part(v, i) # Part(w, i)}
    <2>1. D \in SUBSET Nat /\ D # {}
        BY <1>4 DEF Agree, Place
    <2>2. PICK q \in D : \A k \in D : q <= k
        BY <2>1, LeastNumber
    <2>3. \A k \in 1 .. q - 1 : Part(v, k) = Part(w, k)
        <3>1. SUFFICES ASSUME NEW k \in 1 .. q - 1 PROVE k \notin D /\ k \in Place
            OBVIOUS
        <3>2. q \in Place
            OBVIOUS
        <3> HIDE DEF D
        <3>3. k \in Place /\ ~ q <= k
            BY <3>2 DEF Place
        <3>4. QED
            BY <2>2, <3>3
    <2>4. Part(v, q) < Part(w, q) \/ Part(w, q) < Part(v, q)
        BY <1>1
    <2>5. QED
        BY <2>3, <2>4 DEF Smaller
<1>5. QED
    BY <1>2, <1>3, <1>4

LEMMA SmallerIsTransitive ==
    ASSUME NEW u \in Version, NEW v \in Version, NEW w \in Version
    PROVE  /\ Smaller(u, v) /\ Smaller(v, w) => Smaller(u, w)
           /\ Smaller(u, v) /\ Agree(v, w) => Smaller(u, w)
           /\ Agree(u, v) /\ Smaller(v, w) => Smaller(u, w)
           /\ Agree(u, v) /\ Agree(v, w) => Agree(u, w)
<1>1. \A i : Part(u, i) \in Nat /\ Part(v, i) \in Nat /\ Part(w, i) \in Nat
    BY PartsOf
<1>2. \A i \in Place : 1 .. i - 1 \subseteq Place
    BY DEF Place
<1>3. ASSUME Smaller(u, v), Smaller(v, w) PROVE Smaller(u, w)
    <2>1. PICK i \in Place : Part(u, i) < Part(v, i) /\ \A k \in 1 .. i - 1 : Part(u, k) = Part(v, k)
        BY <1>3 DEF Smaller
    <2>2. PICK j \in Place : Part(v, j) < Part(w, j) /\ \A k \in 1 .. j - 1 : Part(v, k) = Part(w, k)
        BY <1>3 DEF Smaller
    <2>3. CASE i < j
        <3>1. i \in 1 .. j - 1 /\ 1 .. i - 1 \subseteq 1 .. j - 1
            BY <2>3 DEF Place
        <3>2. QED
            BY <2>1, <2>2, <3>1 DEF Smaller
    <2>4. CASE j < i
        <3>1. j \in 1 .. i - 1 /\ 1 .. j - 1 \subseteq 1 .. i - 1
            BY <2>4 DEF Place
        <3>2. QED
            BY <2>1, <2>2, <3>1 DEF Smaller
    <2>5. CASE i = j
        <3>1. Part(u, i) < Part(w, i)
            BY <1>1, <2>1, <2>2, <2>5
        <3>2. QED
            BY <2>1, <2>2, <2>5, <3>1 DEF Smaller
    <2>6. QED
        BY <2>3, <2>4, <2>5 DEF Place
<1>4. QED
    BY <1>2, <1>3 DEF Smaller, Agree

LEMMA SuffixOrder ==
    ASSUME NEW p \in Nat, NEW q \in Nat, NEW r \in Nat
    PROVE  /\ ~ (PreLess(p, q) /\ PreLess(q, p))
           /\ ~ PreLess(q, p) /\ ~ PreLess(r, q) => ~ PreLess(r, p)
BY DEF PreLess

\* What compare answers, said without places.
Below(v, w) == Smaller(v, w) \/ (Agree(v, w) /\ PreLess(v.pre, w.pre))

LEMMA CompareSays ==
    ASSUME NEW v \in Version, NEW w \in Version
    PROVE  /\ Compare(v, w) = IF Below(v, w) THEN -1 ELSE IF Below(w, v) THEN 1 ELSE 0
           /\ ~ (Below(v, w) /\ Below(w, v))
<1>1. /\ Less(v, w) <=> Smaller(v, w)
      /\ Less(w, v) <=> Smaller(w, v)
    BY LessIsSmaller
<1>2. Agree(v, w) <=> Agree(w, v)
    BY DEF Agree
<1>3. ~ (PreLess(v.pre, w.pre) /\ PreLess(w.pre, v.pre))
    BY PartsOf, SuffixOrder
<1>4. QED
    BY <1>1, <1>2, <1>3, OneWay DEF Compare, Below

LEMMA NotBelowIsTransitive ==
    ASSUME NEW u \in Version, NEW v \in Version, NEW w \in Version,
           ~ Below(v, u), ~ Below(w, v)
    PROVE  ~ Below(w, u)
<1>1. /\ ~ PreLess(v.pre, u.pre) /\ ~ PreLess(w.pre, v.pre) => ~ PreLess(w.pre, u.pre)
    BY PartsOf, SuffixOrder
<1>2. /\ Smaller(u, v) \/ (Agree(u, v) /\ ~ PreLess(v.pre, u.pre))
      /\ Smaller(v, w) \/ (Agree(v, w) /\ ~ PreLess(w.pre, v.pre))
    <2>1. (Agree(u, v) <=> Agree(v, u)) /\ (Agree(v, w) <=> Agree(w, v))
        BY DEF Agree
    <2>2. QED
        BY <2>1, OneWay DEF Below
<1>3. Smaller(u, w) \/ (Agree(u, w) /\ ~ PreLess(w.pre, u.pre))
    BY <1>1, <1>2, SmallerIsTransitive
<1>4. Agree(u, w) <=> Agree(w, u)
    BY DEF Agree
<1>5. QED
    BY <1>3, <1>4, OneWay DEF Below

(***************************************************************************)
(* compare is a total preorder on the versions of all texts, whatever      *)
(* their lengths, components and suffixes and however wide a word is.      *)
(***************************************************************************)
THEOREM CompareOrdersTexts ==
    ASSUME NEW t \in Text, NEW lo \in Text, NEW hi \in Text
    PROVE  /\ CompareTexts(t, lo) = - CompareTexts(lo, t)
           /\ CompareTexts(t, lo) <= 0 /\ CompareTexts(lo, hi) <= 0 => CompareTexts(t, hi) <= 0
<1> DEFINE u == ParseVersion(t)
           v == ParseVersion(lo)
           w == ParseVersion(hi)
<1>1. u \in Version /\ v \in Version /\ w \in Version
    BY ParsedIsVersion
<1> HIDE DEF u, v, w
<1>2. Compare(u, v) = - Compare(v, u)
    <2>1. /\ Compare(u, v) = IF Below(u, v) THEN -1 ELSE IF Below(v, u) THEN 1 ELSE 0
          /\ Compare(v, u) = IF Below(v, u) THEN -1 ELSE IF Below(u, v) THEN 1 ELSE 0
          /\ ~ (Below(u, v) /\ Below(v, u))
        BY <1>1, CompareSays
    <2>2. QED
        BY <2>1
<1>3. ASSUME NEW a \in Version, NEW b \in Version PROVE Compare(a, b) <= 0 <=> ~ Below(b, a)
    <2>1. /\ Compare(a, b) = IF Below(a, b) THEN -1 ELSE IF Below(b, a) THEN 1 ELSE 0
          /\ ~ (Below(a, b) /\ Below(b, a))
        BY CompareSays
    <2>2. QED
        BY <2>1
<1>4. Compare(u, v) <= 0 /\ Compare(v, w) <= 0 => Compare(u, w) <= 0
    BY <1>1, <1>3, NotBelowIsTransitive
<1>5. QED
    BY <1>2, <1>4 DEF CompareTexts, u, v, w

-----------------------------------------------------------------------------

\* A step has the same input as before.
LEMMA InputsStay ==
    ASSUME Inputs, [Next]_vars
    PROVE  Inputs'
BY DEF Inputs, Next, vars

\* A member of Texts is a text.
LEMMA TextsAreText == Texts \subseteq Text
<1>1. SUFFICES ASSUME NEW t \in Texts PROVE t \in Text
    OBVIOUS
<1>2. /\ t = [parts |-> t.parts, pre |-> t.pre]
      /\ t.pre \in 0 .. MaxPre /\ t.parts \in UNION {[1 .. n -> Components] : n \in 0 .. MaxPlaces}
    BY DEF Texts
<1>3. PICK n \in 0 .. MaxPlaces : t.parts \in [1 .. n -> Components]
    BY <1>2
<1>4. n \in Nat /\ t.pre \in Nat
    BY <1>2, BoundsAssumption
<1>5. Components \subseteq Component
    BY DEF Components, Component
<1>6. t.parts \in Seq(Component)
    BY <1>3, <1>4, <1>5
<1>7. QED
    BY <1>2, <1>4, <1>6 DEF Text

\* The texts of an input.
LEMMA InputTexts ==
    ASSUME Inputs, input.of = "versions"
    PROVE  input.t \in Text /\ input.lo \in Text /\ input.hi \in Text
BY TextsAreText DEF Inputs

(***************************************************************************)
(* compare is a total preorder on whatever is compared: texts of any       *)
(* number of components, words and suffixes of any range.                  *)
(***************************************************************************)
THEOREM ComparesInOrder == Spec => []CompareIsAnOrder
<1>1. Inputs => CompareIsAnOrder
    BY InputTexts, CompareOrdersTexts DEF CompareIsAnOrder
<1>2. Init => Inputs
    BY DEF Init
<1>3. QED
    BY <1>1, <1>2, InputsStay, PTL DEF Spec

-----------------------------------------------------------------------------

\* A step of Value: what is smaller stays smaller, whatever digit follows.
LEMMA DigitsFollow ==
    ASSUME NEW w \in Nat, NEW x \in Nat, NEW y \in Nat, x < y,
           NEW a \in 0 .. w - 1, NEW b \in 0 .. w - 1
    PROVE  (w * x) + a < (w * y) + b
<1>1. PICK k \in Nat : y = x + 1 + k
    <2>1. y - x - 1 \in Nat /\ y = x + 1 + (y - x - 1)
        OBVIOUS
    <2>2. QED
        BY <2>1
<1>2. w * y = (w * x) + w + (w * k)
    BY <1>1
<1>3. w * k \in Nat /\ w * x \in Nat
    OBVIOUS
<1>4. QED
    BY <1>2, <1>3

DigitsFit(x) == \A i \in 1 .. MaxPlaces : Digit(x, i) \in 0 .. Word - 1

\* f holds the values of x's first components.
IsValueOf(f, x, n) ==
    /\ f \in [0 .. n -> Nat] /\ f[0] = 0
    /\ \A i \in 1 .. n : f[i] = (Word * f[i - 1]) + Digit(x, i)

\* Value is the last of them.
LEMMA ValueIs ==
    ASSUME NEW x, DigitsFit(x)
    PROVE  \E f : IsValueOf(f, x, MaxPlaces) /\ Value(x) = f[MaxPlaces]
<1> DEFINE h == [p \in (1 .. MaxPlaces) \X Nat |-> (Word * p[2]) + Digit(x, p[1])]
           v[i \in 0 .. MaxPlaces] == IF i = 0 THEN 0 ELSE Word * v[i - 1] + Digit(x, i)
<1>1. MaxPlaces \in Nat /\ Word \in Nat
    BY BoundsAssumption, WidthAssumption
<1>2. PICK f \in [0 .. MaxPlaces -> Nat] :
          f[0] = 0 /\ \A i \in 1 .. MaxPlaces : f[i] = (Word * f[i - 1]) + Digit(x, i)
    <2>1. ASSUME NEW i \in 1 .. MaxPlaces, NEW m \in Nat PROVE (Word * m) + Digit(x, i) \in Nat
        <3>1. Word * m \in Nat /\ Digit(x, i) \in Nat
            BY <1>1 DEF DigitsFit
        <3>2. QED
            BY <3>1
    <2>2. h \in [(1 .. MaxPlaces) \X Nat -> Nat]
        BY <2>1
    <2>3. PICK f \in [0 .. MaxPlaces -> Nat] :
              f[0] = 0 /\ \A i \in 1 .. MaxPlaces : f[i] = h[<< i, f[i - 1] >>]
        <3> HIDE DEF h
        <3>1. Recursion(MaxPlaces, Nat, 0, h)
            BY <1>1, <2>2, RecursionExists
        <3>2. QED
            BY <3>1 DEF Recursion
    <2>4. \A i \in 1 .. MaxPlaces : f[i - 1] \in Nat
        BY <1>1
    <2>5. \A i \in 1 .. MaxPlaces : h[<< i, f[i - 1] >>] = (Word * f[i - 1]) + Digit(x, i)
        BY <2>4
    <2>6. QED
        BY <2>3, <2>5
<1>3. f = [i \in 0 .. MaxPlaces |-> IF i = 0 THEN 0 ELSE (Word * f[i - 1]) + Digit(x, i)]
    <2>1. \A i \in 0 .. MaxPlaces : i = 0 \/ i \in 1 .. MaxPlaces
        BY <1>1
    <2>2. \A i \in 0 .. MaxPlaces : f[i] = IF i = 0 THEN 0 ELSE (Word * f[i - 1]) + Digit(x, i)
        BY <1>2, <2>1
    <2>3. QED
        BY <2>2
<1>4. v = CHOOSE g : g = [i \in 0 .. MaxPlaces |->
                             IF i = 0 THEN 0 ELSE (Word * g[i - 1]) + Digit(x, i)]
    OBVIOUS
<1>5. Value(x) = v[MaxPlaces]
    BY DEF Value
<1> HIDE DEF v
<1>6. v = [i \in 0 .. MaxPlaces |-> IF i = 0 THEN 0 ELSE (Word * v[i - 1]) + Digit(x, i)]
    BY <1>3, <1>4
<1>7. v = f
    <2>1. IsOn(v, MaxPlaces) /\ IsOn(f, MaxPlaces)
        BY <1>6 DEF IsOn
    <2>2. v[0] = f[0]
        BY <1>1, <1>2, <1>6
    <2>3. \A i \in 1 .. MaxPlaces : v[i] = (Word * v[i - 1]) + Digit(x, i)
        BY <1>1, <1>6
    <2>4. \A i \in 1 .. MaxPlaces : v[i - 1] = f[i - 1] => v[i] = f[i]
        BY <1>2, <2>3
    <2>5. QED
        BY <1>1, <2>1, <2>2, <2>4, RecursionIsUnique
<1>8. QED
    BY <1>2, <1>5, <1>7 DEF IsValueOf

(***************************************************************************)
(* The values of two texts compare as their components do, from the first  *)
(* one on.                                                                 *)
(***************************************************************************)
LEMMA ValuesCompare ==
    ASSUME NEW x, NEW y, DigitsFit(x), DigitsFit(y), NEW f, NEW g,
           IsValueOf(f, x, MaxPlaces), IsValueOf(g, y, MaxPlaces), NEW n \in 0 .. MaxPlaces
    PROVE  /\ (\E i \in 1 .. n : Digit(x, i) < Digit(y, i)
                                  /\ \A k \in 1 .. i - 1 : Digit(x, k) = Digit(y, k))
                  => f[n] < g[n]
           /\ (\A k \in 1 .. n : Digit(x, k) = Digit(y, k)) => f[n] = g[n]
<1> DEFINE Same(m) == \A k \in 1 .. m : Digit(x, k) = Digit(y, k)
           Less1(m) == \E i \in 1 .. m : Digit(x, i) < Digit(y, i) /\ Same(i - 1)
           Good(m) == (Less1(m) => f[m] < g[m]) /\ (Same(m) => f[m] = g[m])
           Bad == {m \in 0 .. MaxPlaces : ~ Good(m)}
<1>1. MaxPlaces \in Nat /\ Word \in Nat
    BY BoundsAssumption, WidthAssumption
<1>2. SUFFICES ASSUME Bad # {} PROVE FALSE
    <2>1. CASE Bad = {}
        <3>1. Good(n)
            BY <2>1
        <3>2. QED
            BY <3>1
    <2>2. QED
        BY <1>2, <2>1
<1>3. Bad \in SUBSET Nat
    BY <1>1
<1>4. PICK q \in Bad : \A m \in Bad : q <= m
    BY <1>2, <1>3, LeastNumber
<1>5. q \in 0 .. MaxPlaces /\ ~ Good(q)
    BY <1>4
<1>6. Good(0)
    BY DEF IsValueOf
<1>7. q \in 1 .. MaxPlaces /\ q - 1 \in 0 .. MaxPlaces
    BY <1>1, <1>5, <1>6
<1>8. Good(q - 1)
    <2>1. q - 1 \notin Bad
        BY <1>4, <1>7
    <2>2. QED
        BY <1>7, <2>1
<1>9. /\ f[q - 1] \in Nat /\ g[q - 1] \in Nat
      /\ f[q] = (Word * f[q - 1]) + Digit(x, q) /\ g[q] = (Word * g[q - 1]) + Digit(y, q)
      /\ Digit(x, q) \in 0 .. Word - 1 /\ Digit(y, q) \in 0 .. Word - 1
    BY <1>7 DEF IsValueOf, DigitsFit
<1>10. ASSUME Same(q) PROVE f[q] = g[q]
    <2>1. Same(q - 1) /\ Digit(x, q) = Digit(y, q)
        BY <1>7, <1>10
    <2>2. QED
        BY <1>8, <1>9, <2>1
<1>11. ASSUME Less1(q) PROVE f[q] < g[q]
    <2>1. PICK i \in 1 .. q : Digit(x, i) < Digit(y, i) /\ Same(i - 1)
        BY <1>11
    <2>2. CASE i = q
        <3>1. f[q - 1] = g[q - 1] /\ Digit(x, q) < Digit(y, q)
            BY <1>8, <2>1, <2>2
        <3>2. Word * f[q - 1] \in Nat
            BY <1>1, <1>9
        <3>3. QED
            BY <1>9, <3>1, <3>2
    <2>3. CASE i # q
        <3>1. i \in 1 .. q - 1
            BY <1>7, <2>3
        <3>2. f[q - 1] < g[q - 1]
            BY <1>8, <2>1, <3>1
        <3>3. QED
            BY <1>1, <1>9, <3>2, DigitsFollow
    <2>4. QED
        BY <2>2, <2>3
<1>12. QED
    BY <1>5, <1>10, <1>11

\* A text of numbers that fit has just their version, whatever its suffix.
LEMMA PlainVersion ==
    ASSUME NEW x \in Texts, Plain([x EXCEPT !.pre = 0])
    PROVE  /\ ParseVersion(x) \in Version /\ ParseVersion(x).pre = x.pre
           /\ ParseVersion(x).parts = x.parts
           /\ Len(x.parts) <= MaxPlaces /\ DigitsFit(x)
           /\ \A i : Part(ParseVersion(x), i) = Digit(x, i)
<1>1. x \in Text
    BY TextsAreText
<1>2. /\ x.parts \in Seq(Component) /\ DOMAIN x.parts = 1 .. Len(x.parts)
      /\ Len(x.parts) \in Nat /\ \A i \in DOMAIN x.parts : x.parts[i] \in Component
    BY <1>1, ListOf DEF Text
<1>3. \A i \in DOMAIN x.parts : x.parts[i] # Junk /\ x.parts[i] < Word
    BY <1>1 DEF Plain, Text
<1>4. Word \in Nat /\ Word > 0 /\ Long \in Nat /\ Word <= Long /\ MaxPlaces \in Nat
    BY WidthAssumption, BoundsAssumption
<1>5. \A c \in 0 .. Word - 1 : c % Word = c
    BY <1>4, SMTT(30)
<1>6. \A i \in DOMAIN x.parts : x.parts[i] \in 0 .. Word - 1
    <2>1. \A i \in DOMAIN x.parts : x.parts[i] \in Nat
        BY <1>2, <1>3 DEF Component
    <2>2. QED
        BY <1>3, <1>4, <2>1
<1>7. \A i \in DOMAIN x.parts : Numeric(x.parts[i])
    BY <1>3, <1>4, <1>6 DEF Numeric
<1>8. Parsed(x) = DOMAIN x.parts
    BY <1>2, <1>7 DEF Parsed
<1>9. ParseVersion(x).parts = x.parts
    <2>1. \A i \in DOMAIN x.parts : x.parts[i] % Word = x.parts[i]
        BY <1>5, <1>6
    <2>2. x.parts = [i \in DOMAIN x.parts |-> x.parts[i]]
        BY <1>2
    <2>3. QED
        BY <1>8, <2>1, <2>2 DEF ParseVersion
<1>10. Len(x.parts) <= MaxPlaces
    <2>1. PICK k \in 0 .. MaxPlaces : x.parts \in [1 .. k -> Components]
        BY DEF Texts
    <2>2. k \in Nat /\ k <= MaxPlaces /\ DOMAIN x.parts = 1 .. k
        BY <1>4, <2>1
    <2>3. Len(x.parts) = k
        BY <1>2, <2>2
    <2>4. QED
        BY <2>2, <2>3
<1>11. DigitsFit(x)
    BY <1>4, <1>6 DEF DigitsFit, Digit
<1>12. QED
    BY <1>1, <1>9, <1>10, <1>11, ParsedIsVersion DEF Part, Digit

\* A smaller version has the smaller value.
LEMMA SmallerValue ==
    ASSUME NEW x \in Texts, NEW y \in Texts, NEW f, NEW g,
           Plain([x EXCEPT !.pre = 0]), Plain([y EXCEPT !.pre = 0]),
           IsValueOf(f, x, MaxPlaces), IsValueOf(g, y, MaxPlaces)
    PROVE  /\ Smaller(ParseVersion(x), ParseVersion(y)) => f[MaxPlaces] < g[MaxPlaces]
           /\ Agree(ParseVersion(x), ParseVersion(y)) => f[MaxPlaces] = g[MaxPlaces]
<1> DEFINE v == ParseVersion(x)
           w == ParseVersion(y)
<1>1. /\ v \in Version /\ w \in Version /\ w.parts = y.parts /\ Len(w.parts) <= MaxPlaces
      /\ DigitsFit(x) /\ DigitsFit(y)
    BY PlainVersion
<1>2. \A i : Part(v, i) = Digit(x, i) /\ Part(w, i) = Digit(y, i)
    BY PlainVersion
<1>3. MaxPlaces \in Nat /\ MaxPlaces \in 0 .. MaxPlaces
    BY BoundsAssumption
<1> HIDE DEF v, w
<1>4. ASSUME Smaller(v, w) PROVE f[MaxPlaces] < g[MaxPlaces]
    <2>1. PICK i \in Place : Part(v, i) < Part(w, i) /\ \A k \in 1 .. i - 1 : Part(v, k) = Part(w, k)
        BY <1>4 DEF Smaller
    <2>2. Part(w, i) # 0
        BY <1>1, <2>1, PartsOf
    <2>3. i \in 1 .. Len(w.parts) /\ Len(w.parts) \in Nat
        BY <1>1, <2>2, PartsOf
    <2>4. i \in 1 .. MaxPlaces
        BY <1>1, <1>3, <2>3
    <2>5. Digit(x, i) < Digit(y, i) /\ \A k \in 1 .. i - 1 : Digit(x, k) = Digit(y, k)
        BY <1>2, <2>1
    <2>6. QED
        BY <1>1, <1>3, <2>4, <2>5, ValuesCompare
<1>5. ASSUME Agree(v, w) PROVE f[MaxPlaces] = g[MaxPlaces]
    <2>1. \A k \in 1 .. MaxPlaces : k \in Place
        BY <1>3 DEF Place
    <2>2. \A k \in 1 .. MaxPlaces : Digit(x, k) = Digit(y, k)
        BY <1>2, <1>5, <2>1 DEF Agree
    <2>3. QED
        BY <1>1, <1>3, <2>2, ValuesCompare
<1>6. QED
    BY <1>4, <1>5 DEF v, w

\* Versions of numbers compare as their values do.
LEMMA VersionsAreNumbers ==
    ASSUME NEW x \in Texts, NEW y \in Texts,
           Plain([x EXCEPT !.pre = 0]), Plain([y EXCEPT !.pre = 0])
    PROVE  /\ Value(x) \in Nat /\ Value(y) \in Nat
           /\ Smaller(ParseVersion(x), ParseVersion(y)) <=> Value(x) < Value(y)
           /\ Smaller(ParseVersion(y), ParseVersion(x)) <=> Value(y) < Value(x)
           /\ Agree(ParseVersion(x), ParseVersion(y)) <=> Value(x) = Value(y)
<1> DEFINE v == ParseVersion(x)
           w == ParseVersion(y)
<1>1. v \in Version /\ w \in Version /\ DigitsFit(x) /\ DigitsFit(y)
    BY PlainVersion
<1>2. PICK f : IsValueOf(f, x, MaxPlaces) /\ Value(x) = f[MaxPlaces]
    BY <1>1, ValueIs
<1>3. PICK g : IsValueOf(g, y, MaxPlaces) /\ Value(y) = g[MaxPlaces]
    BY <1>1, ValueIs
<1>4. /\ Smaller(v, w) => Value(x) < Value(y)
      /\ Agree(v, w) => Value(x) = Value(y)
    BY <1>2, <1>3, SmallerValue
<1>5. Smaller(w, v) => Value(y) < Value(x)
    BY <1>2, <1>3, SmallerValue
<1>6. Value(x) \in Nat /\ Value(y) \in Nat
    BY <1>2, <1>3, BoundsAssumption DEF IsValueOf
<1>7. Smaller(v, w) \/ Smaller(w, v) \/ Agree(v, w)
    BY <1>1, OneWay
<1> HIDE DEF v, w
<1>8. /\ Smaller(v, w) <=> Value(x) < Value(y)
      /\ Smaller(w, v) <=> Value(y) < Value(x)
      /\ Agree(v, w) <=> Value(x) = Value(y)
    BY <1>4, <1>5, <1>6, <1>7
<1>9. QED
    BY <1>6, <1>8 DEF v, w

\* A version t, perhaps with a suffix, against a bound b without one.
LEMMA BoundsAreNumbers ==
    ASSUME NEW t \in Texts, NEW b \in Texts, Plain([t EXCEPT !.pre = 0]), Plain(b)
    PROVE  /\ Value(t) \in Nat /\ Value(b) \in Nat
           /\ CompareTexts(t, b) >= 0 <=> Value(t) > Value(b) \/ (Value(t) = Value(b) /\ t.pre = 0)
           /\ CompareTexts(t, b) > 0 <=> Value(t) > Value(b)
           /\ CompareTexts(t, b) <= 0 <=> Value(t) <= Value(b)
           /\ CompareTexts(t, b) < 0 <=> ~ (Value(t) > Value(b) \/ (Value(t) = Value(b) /\ t.pre = 0))
           /\ CompareTexts(t, b) = 0 <=> Value(t) = Value(b) /\ t.pre = 0
<1> DEFINE v == ParseVersion(t)
           w == ParseVersion(b)
<1>1. t \in Text /\ b \in Text /\ b.pre = 0 /\ t.pre \in Nat
    BY TextsAreText DEF Plain, Text
<1>2. Plain([b EXCEPT !.pre = 0])
    BY <1>1 DEF Plain, Text
<1>3. v \in Version /\ w \in Version /\ v.pre = t.pre /\ w.pre = 0
    BY <1>1, <1>2, PlainVersion
<1>4. /\ Value(t) \in Nat /\ Value(b) \in Nat
      /\ Smaller(v, w) <=> Value(t) < Value(b)
      /\ Smaller(w, v) <=> Value(b) < Value(t)
      /\ Agree(v, w) <=> Value(t) = Value(b)
    BY <1>2, VersionsAreNumbers
<1>5. Agree(w, v) <=> Agree(v, w)
    BY DEF Agree
<1>6. /\ CompareTexts(t, b) = IF Below(v, w) THEN -1 ELSE IF Below(w, v) THEN 1 ELSE 0
      /\ ~ (Below(v, w) /\ Below(w, v))
    BY <1>3, CompareSays DEF CompareTexts
<1> HIDE DEF v, w
<1>7. /\ Below(v, w) <=> Value(t) < Value(b) \/ (Value(t) = Value(b) /\ t.pre # 0)
      /\ Below(w, v) <=> Value(b) < Value(t)
    BY <1>3, <1>4, <1>5 DEF Below, PreLess
<1>8. QED
    BY <1>4, <1>6, <1>7

(***************************************************************************)
(* For versions of any number of components in any word, a range contains  *)
(* the versions whose numbers lie in it, a suffix just below its number.   *)
(***************************************************************************)
THEOREM RangesHoldNumbers == Spec => []RangesAsNumbers
<1>1. ASSUME Inputs PROVE RangesAsNumbers
    <2> DEFINE t == input.t
               lo == input.lo
               hi == input.hi
               atLeast(b) == Value(t) > b \/ (Value(t) = b /\ t.pre = 0)
    <2>1. SUFFICES ASSUME input.of = "versions", Plain(lo), lo # NoText, Plain(hi), hi # NoText,
                          Plain([t EXCEPT !.pre = 0]), t.parts # << >>
                   PROVE  /\ VersionInRange(t, [AnyVersion EXCEPT !.startInc = lo, !.endExc = hi]) <=>
                                atLeast(Value(lo)) /\ ~ atLeast(Value(hi))
                          /\ VersionInRange(t, [AnyVersion EXCEPT !.startInc = lo, !.endInc = hi]) <=>
                                atLeast(Value(lo)) /\ Value(t) <= Value(hi)
                          /\ VersionInRange(t, [AnyVersion EXCEPT !.startExc = lo, !.endExc = hi]) <=>
                                Value(t) > Value(lo) /\ ~ atLeast(Value(hi))
                          /\ VersionInRange(t, [AnyVersion EXCEPT !.exact = lo]) <=>
                                Value(t) = Value(lo) /\ t.pre = 0
        BY DEF RangesAsNumbers
    <2>2. t \in Texts /\ lo \in Texts /\ hi \in Texts
        BY <1>1, <2>1 DEF Inputs
    <2>3. t # NoText /\ ~ Empty(ParseVersion(t))
        BY <2>1, <2>2, PlainVersion DEF NoText, Empty
    <2>4. /\ CompareTexts(t, lo) >= 0 <=> atLeast(Value(lo))
          /\ CompareTexts(t, lo) > 0 <=> Value(t) > Value(lo)
          /\ CompareTexts(t, lo) = 0 <=> Value(t) = Value(lo) /\ t.pre = 0
        BY <2>1, <2>2, BoundsAreNumbers
    <2>5. /\ CompareTexts(t, hi) < 0 <=> ~ atLeast(Value(hi))
          /\ CompareTexts(t, hi) <= 0 <=> Value(t) <= Value(hi)
        BY <2>1, <2>2, BoundsAreNumbers
    <2> HIDE DEF t, lo, hi, atLeast
    <2>6. VersionInRange(t, [AnyVersion EXCEPT !.startInc = lo, !.endExc = hi])
              <=> CompareTexts(t, lo) >= 0 /\ CompareTexts(t, hi) < 0
        BY <2>1, <2>3 DEF VersionInRange, BelowEnd, AnyVersion
    <2>7. VersionInRange(t, [AnyVersion EXCEPT !.startInc = lo, !.endInc = hi])
              <=> CompareTexts(t, lo) >= 0 /\ CompareTexts(t, hi) <= 0
        BY <2>1, <2>3 DEF VersionInRange, BelowEnd, AnyVersion
    <2>8. VersionInRange(t, [AnyVersion EXCEPT !.startExc = lo, !.endExc = hi])
              <=> CompareTexts(t, lo) > 0 /\ CompareTexts(t, hi) < 0
        BY <2>1, <2>3 DEF VersionInRange, BelowEnd, AnyVersion
    <2>9. VersionInRange(t, [AnyVersion EXCEPT !.exact = lo]) <=> CompareTexts(t, lo) = 0
        BY <2>1, <2>3 DEF VersionInRange, BelowEnd, AnyVersion
    <2>10. QED
        BY <2>4, <2>5, <2>6, <2>7, <2>8, <2>9
<1>2. Init => Inputs
    BY DEF Init
<1>3. QED
    BY <1>1, <1>2, InputsStay, PTL DEF Spec

-----------------------------------------------------------------------------

\* The calls of an input stand at positions, whatever their number.
LEMMA CallsHavePlaces ==
    ASSUME NEW cs \in Lists(CmakeCalls, MaxCalls)
    PROVE  \E n \in Nat :
               /\ DOMAIN cs = 1 .. n /\ DOMAIN Placed(cs) = 1 .. n
               /\ \A i \in 1 .. n : /\ Placed(cs)[i].at \in Nat /\ Placed(cs)[i].tagAt \in Nat
                                    /\ Placed(cs)[i].text \in {OneZero, OneOne, NoText}
<1>1. PICK n \in 0 .. MaxCalls : cs \in [1 .. n -> CmakeCalls]
    BY DEF Lists
<1>2. n \in Nat /\ DOMAIN cs = 1 .. n
    BY <1>1, BoundsAssumption
<1> DEFINE past(i) == cs[i].gap + Len(cs[i].text.parts) + 1
           at[i \in DOMAIN cs] ==
               IF i = 1 THEN 1 ELSE at[i - 1] + cs[i - 1].gap + Len(cs[i - 1].text.parts) + 1
<1>3. \A i \in 1 .. n : /\ cs[i].text \in {OneZero, OneOne, NoText}
                        /\ cs[i].gap \in Nat /\ past(i) \in Nat
    <2>1. \A i \in 1 .. n : cs[i] \in CmakeCalls
        BY <1>1
    <2>2. \A x \in {OneZero, OneOne, NoText} : Len(x.parts) \in Nat
        BY DEF OneZero, OneOne, NoText
    <2>3. \A c \in CmakeCalls : c.text \in {OneZero, OneOne, NoText} /\ c.gap \in Nat
        BY DEF CmakeCalls
    <2>4. \A c \in CmakeCalls : c.gap + Len(c.text.parts) + 1 \in Nat
        BY <2>2, <2>3
    <2>5. QED
        BY <2>1, <2>3, <2>4
<1>4. ASSUME n # 0
      PROVE  \E g : g = [i \in DOMAIN cs |->
                            IF i = 1 THEN 1
                            ELSE g[i - 1] + cs[i - 1].gap + Len(cs[i - 1].text.parts) + 1]
    <2> DEFINE h == [p \in (1 .. n - 1) \X Nat |-> p[2] + past(p[1])]
    <2>1. n - 1 \in Nat
        BY <1>2, <1>4
    <2>2. h \in [(1 .. n - 1) \X Nat -> Nat]
        <3>1. ASSUME NEW p \in (1 .. n - 1) \X Nat PROVE p[2] + past(p[1]) \in Nat
            <4>1. p[1] \in 1 .. n /\ p[2] \in Nat
                BY <2>1
            <4>2. past(p[1]) \in Nat
                BY <1>3, <4>1
            <4> HIDE DEF past
            <4>3. QED
                BY <4>1, <4>2
        <3>2. QED
            BY <3>1
    <2>3. Recursion(n - 1, Nat, 1, h)
        <3> HIDE DEF h
        <3>1. 1 \in Nat
            OBVIOUS
        <3>2. QED
            BY <2>1, <2>2, <3>1, RecursionExists
    <2>4. PICK f \in [0 .. n - 1 -> Nat] :
              f[0] = 1 /\ \A i \in 1 .. n - 1 : f[i] = h[<< i, f[i - 1] >>]
        BY <2>3 DEF Recursion
    <2>5. \A i \in 1 .. n - 1 : f[i - 1] \in Nat /\ f[i] = f[i - 1] + past(i)
        <3> HIDE DEF past
        <3>1. \A i \in 1 .. n - 1 : f[i - 1] \in Nat
            BY <2>1
        <3>2. \A i \in 1 .. n - 1 : h[<< i, f[i - 1] >>] = f[i - 1] + past(i)
            BY <3>1
        <3> HIDE DEF h
        <3>3. QED
            BY <2>4, <3>1, <3>2
    <2> DEFINE g == [i \in 1 .. n |-> f[i - 1]]
    <2>6. \A i \in 1 .. n : i # 1 => i - 1 \in 1 .. n - 1 /\ i - 1 \in 1 .. n
        BY <1>2
    <2>7. ASSUME NEW i \in 1 .. n
          PROVE  g[i] = IF i = 1 THEN 1
                        ELSE g[i - 1] + cs[i - 1].gap + Len(cs[i - 1].text.parts) + 1
        <3>1. CASE i = 1
            BY <2>4, <3>1
        <3>2. CASE i # 1
            <4>1. g[i] = f[i - 1] /\ g[i - 1] = f[(i - 1) - 1]
                BY <2>6, <3>2
            <4>2. f[i - 1] = f[(i - 1) - 1] + past(i - 1) /\ f[(i - 1) - 1] \in Nat
                BY <2>5, <2>6, <3>2
            <4>3. cs[i - 1] \in CmakeCalls
                BY <1>1, <2>6, <3>2
            <4>4. cs[i - 1].gap \in Nat /\ Len(cs[i - 1].text.parts) \in Nat
                BY <4>3 DEF CmakeCalls, OneZero, OneOne, NoText
            <4> HIDE DEF g
            <4>5. QED
                BY <3>2, <4>1, <4>2, <4>4
        <3>3. QED
            BY <3>1, <3>2
    <2>8. g = [i \in 1 .. n |-> g[i]]
        OBVIOUS
    <2> HIDE DEF g
    <2>9. [i \in 1 .. n |-> g[i]] =
              [i \in 1 .. n |-> IF i = 1 THEN 1
                               ELSE g[i - 1] + cs[i - 1].gap + Len(cs[i - 1].text.parts) + 1]
        BY <2>7
    <2>10. QED
        BY <1>2, <2>8, <2>9
<1>5. at = CHOOSE g : g = [i \in DOMAIN cs |->
                              IF i = 1 THEN 1
                              ELSE g[i - 1] + cs[i - 1].gap + Len(cs[i - 1].text.parts) + 1]
    OBVIOUS
<1>6. Placed(cs) = [i \in DOMAIN cs |->
                       Call(cs[i].fetch, PlainName(cs[i].letters), cs[i].text, at[i], at[i] + cs[i].gap)]
    BY DEF Placed
<1> HIDE DEF at
<1>7. \A i \in 1 .. n : at[i] \in Nat
    <2> DEFINE Bad == {i \in 1 .. n : at[i] \notin Nat}
    <2>1. SUFFICES ASSUME Bad # {} PROVE FALSE
        OBVIOUS
    <2>2. Bad \in SUBSET Nat
        BY <1>2
    <2>3. PICK q \in Bad : \A m \in Bad : q <= m
        BY <2>1, <2>2, LeastNumber
    <2>4. q \in 1 .. n /\ at[q] \notin Nat /\ n # 0
        BY <1>2, <2>3
    <2>5. at = [i \in 1 .. n |-> IF i = 1 THEN 1
                                 ELSE at[i - 1] + cs[i - 1].gap + Len(cs[i - 1].text.parts) + 1]
        BY <1>2, <1>4, <1>5, <2>4
    <2>6. q # 1 /\ q - 1 \in 1 .. n
        BY <1>2, <2>4, <2>5
    <2>7. q - 1 \notin Bad
        <3>1. q - 1 \in Bad => q <= q - 1
            BY <2>3
        <3> HIDE DEF Bad
        <3>2. QED
            BY <1>2, <2>4, <2>6, <3>1
    <2>8. at[q - 1] \in Nat
        BY <2>6, <2>7
    <2>9. at[q] = at[q - 1] + cs[q - 1].gap + Len(cs[q - 1].text.parts) + 1
        BY <2>4, <2>5, <2>6
    <2>10. cs[q - 1].gap \in Nat /\ Len(cs[q - 1].text.parts) \in Nat
        <3>1. cs[q - 1] \in CmakeCalls
            BY <1>1, <2>6
        <3>2. QED
            BY <3>1 DEF CmakeCalls, OneZero, OneOne, NoText
    <2>11. QED
        BY <2>4, <2>8, <2>9, <2>10
<1>8. DOMAIN Placed(cs) = 1 .. n
    BY <1>2, <1>6
<1>9. ASSUME NEW i \in 1 .. n
      PROVE  /\ Placed(cs)[i].at \in Nat /\ Placed(cs)[i].tagAt \in Nat
             /\ Placed(cs)[i].text \in {OneZero, OneOne, NoText}
    <2>1. Placed(cs)[i] = Call(cs[i].fetch, PlainName(cs[i].letters), cs[i].text, at[i], at[i] + cs[i].gap)
        BY <1>2, <1>6
    <2>2. at[i] \in Nat /\ cs[i].gap \in Nat /\ cs[i].text \in {OneZero, OneOne, NoText}
        BY <1>3, <1>7
    <2>3. QED
        BY <2>1, <2>2 DEF Call
<1>10. QED
    BY <1>2, <1>8, <1>9

\* A row of each name that is found, and no two.
LEMMA DeduplicatedRows ==
    ASSUME NEW found, NEW n \in Nat, DOMAIN found = 1 .. n, NEW rows \in Deduplicated(found)
    PROVE  /\ \A r \in rows : \E i \in 1 .. n : r = found[i]
           /\ \A i \in 1 .. n : \E r \in rows : r.package = found[i].package
           /\ \A r, s \in rows : r.package = s.package => r = s
<1> DEFINE all == {found[i] : i \in DOMAIN found}
           of(d) == {r \in rows : r.package = d.package}
<1>1. rows \subseteq all /\ \A d \in all : Cardinality(of(d)) = 1
    BY DEF Deduplicated
<1>2. IsFiniteSet(all)
    <2>1. IsFiniteSet(1 .. n)
        BY FS_Interval
    <2>2. [i \in 1 .. n |-> found[i]] \in Surjection(1 .. n, all)
        BY DEF Surjection
    <2> HIDE DEF all
    <2>3. QED
        BY <2>1, <2>2, FS_Surjection
<1>3. ASSUME NEW d \in all PROVE \E x : of(d) = {x}
    <2>1. of(d) \in SUBSET all
        BY <1>1
    <2>2. IsFiniteSet(of(d))
        BY <1>2, <2>1, FS_Subset
    <2> HIDE DEF of, all
    <2>3. QED
        BY <1>1, <2>2, FS_Singleton
<1>4. \A i \in 1 .. n : found[i] \in all
    OBVIOUS
<1>5. \A r \in rows : \E i \in 1 .. n : r = found[i]
    BY <1>1
<1>6. ASSUME NEW i \in 1 .. n PROVE \E r \in rows : r.package = found[i].package
    <2>1. PICK x : of(found[i]) = {x}
        BY <1>3, <1>4
    <2>2. x \in of(found[i])
        <3> HIDE DEF of
        <3>1. QED
            BY <2>1
    <2>3. QED
        BY <2>2
<1>7. ASSUME NEW r \in rows, NEW s \in rows, r.package = s.package PROVE r = s
    <2>1. PICK x : of(r) = {x}
        BY <1>1, <1>3
    <2>2. r \in of(r) /\ s \in of(r)
        BY <1>7
    <2> HIDE DEF of
    <2>3. QED
        BY <2>1, <2>2
<1>8. QED
    BY <1>5, <1>6, <1>7

\* What parseFile stores of a call whose own tag lies whole in its window.
LEMMA OwnTagIsFirst ==
    ASSUME NEW calls, NEW n \in Nat, DOMAIN calls = 1 .. n, NEW i \in 1 .. n,
           calls[i].at \in Nat, calls[i].tagAt \in Nat, calls[i].text \in {OneZero, OneOne},
           calls[i].fetch, calls[i].text # NoText, Len(calls) = n,
           calls[i].tagAt + Len(calls[i].text.parts) <= calls[i].at + Window
    PROVE  TagFound(calls, i) = calls[i].text
<1>1. Len(calls[i].text.parts) = 2 /\ Window \in Nat
    BY WindowAssumption DEF OneZero, OneOne
<1>2. calls[i].tagAt < calls[i].at + Window
    BY <1>1
<1>3. i \in TagsAfter(calls, i) /\ TagsAfter(calls, i) \in SUBSET (i .. n)
    BY <1>2 DEF TagsAfter
<1>4. Min(TagsAfter(calls, i)) = i
    <2>1. \A y \in TagsAfter(calls, i) : i <= y /\ y \in Nat
        BY <1>3
    <2>2. \E x \in TagsAfter(calls, i) : \A y \in TagsAfter(calls, i) : x <= y
        BY <1>3, <2>1
    <2>3. Min(TagsAfter(calls, i)) \in TagsAfter(calls, i)
          /\ \A y \in TagsAfter(calls, i) : Min(TagsAfter(calls, i)) <= y
        BY <2>2 DEF Min
    <2>4. QED
        BY <1>3, <2>1, <2>3
<1>5. ~ (calls[i].at + Window - calls[i].tagAt < Len(calls[i].text.parts))
    BY <1>1
<1>6. QED
    BY <1>3, <1>4, <1>5 DEF TagFound, Cut

(***************************************************************************)
(* Files of any number of calls, names and gaps, with a window of any      *)
(* size.                                                                   *)
(***************************************************************************)
THEOREM TagsOfOwnDeclarations == Spec => []TagOfOwnDeclaration
<1>1. ASSUME Inputs PROVE TagOfOwnDeclaration
    <2> DEFINE calls == input.calls
               found == Cmake(calls)
               whole(i) == calls[i].fetch /\ calls[i].text # NoText
                              /\ calls[i].tagAt + Len(calls[i].text.parts) <= calls[i].at + Window
    <2>1. SUFFICES ASSUME input.of = "cmake", NEW rows \in Deduplicated(found)
                   PROVE  /\ \A i \in DOMAIN calls :
                                /\ \E d \in rows : d.package = calls[i].name
                                /\ whole(i) /\ (\A k \in DOMAIN calls \ {i} : calls[k].name # calls[i].name) =>
                                      [package |-> calls[i].name, version |-> calls[i].text] \in rows
                          /\ \A d, e \in rows : d.package = e.package => d = e
        BY DEF TagOfOwnDeclaration
    <2>2. PICK c \in Lists(CmakeCalls, MaxCalls) : calls = Placed(c)
        BY <1>1, <2>1 DEF Inputs
    <2>3. PICK n \in Nat : /\ DOMAIN c = 1 .. n /\ DOMAIN calls = 1 .. n
                           /\ \A i \in 1 .. n : /\ calls[i].at \in Nat /\ calls[i].tagAt \in Nat
                                                /\ calls[i].text \in {OneZero, OneOne, NoText}
        BY <2>2, CallsHavePlaces
    <2>4. Len(calls) = n
        BY <2>3
    <2> HIDE DEF calls
    <2>5. DOMAIN found = 1 .. n /\ \A i \in 1 .. n : found[i].package = calls[i].name
        BY <2>3 DEF Cmake, Found, Normalize
    <2>6. \A i \in 1 .. n : calls[i].fetch =>
              found[i] = [package |-> calls[i].name, version |-> TagFound(calls, i)]
        BY <2>3 DEF Cmake, Found, Normalize
    <2> HIDE DEF found
    <2>7. /\ \A r \in rows : \E i \in 1 .. n : r = found[i]
          /\ \A i \in 1 .. n : \E r \in rows : r.package = found[i].package
          /\ \A r, s \in rows : r.package = s.package => r = s
        BY <2>5, DeduplicatedRows
    <2>8. ASSUME NEW i \in 1 .. n, whole(i),
                 \A k \in DOMAIN calls \ {i} : calls[k].name # calls[i].name
          PROVE  [package |-> calls[i].name, version |-> calls[i].text] \in rows
        <3>1. PICK r \in rows : r.package = calls[i].name
            BY <2>5, <2>7
        <3>2. PICK k \in 1 .. n : r = found[k]
            BY <2>7
        <3>3. k = i
            BY <2>3, <2>5, <2>8, <3>1, <3>2
        <3>4. TagFound(calls, i) = calls[i].text
            BY <2>3, <2>4, <2>8, OwnTagIsFirst
        <3>5. found[i] = [package |-> calls[i].name, version |-> calls[i].text]
            BY <2>6, <2>8, <3>4
        <3>6. QED
            BY <3>1, <3>2, <3>3, <3>5
    <2>9. QED
        BY <2>3, <2>5, <2>7, <2>8
<1>2. Init => Inputs
    BY DEF Init
<1>3. QED
    BY <1>1, <1>2, InputsStay, PTL DEF Spec

-----------------------------------------------------------------------------
(* Loops over the lines of a manifest.                                      *)

\* The positions up to m of a set of positions.
UpTo(I, m) == {x \in I : x <= m}

LEMMA UpToEnds ==
    ASSUME NEW n \in Nat, NEW I \in SUBSET (1 .. n)
    PROVE  UpTo(I, 0) = {} /\ UpTo(I, n) = I
<1>1. \A x \in I : x \in 1 .. n
    OBVIOUS
<1>2. \A x \in I : x <= n /\ ~ x <= 0
    BY <1>1
<1>3. UpTo(I, 0) = {} /\ \A x : x \in UpTo(I, n) <=> x \in I
    BY <1>2 DEF UpTo
<1>4. QED
    BY <1>3

LEMMA UpToGrows ==
    ASSUME NEW n \in Nat, NEW I \in SUBSET (1 .. n), NEW m \in 1 .. n
    PROVE  /\ m \notin UpTo(I, m - 1)
           /\ m \in I => UpTo(I, m) = UpTo(I, m - 1) \cup {m}
           /\ m \notin I => UpTo(I, m) = UpTo(I, m - 1)
<1>1. \A x \in I : x \in 1 .. n
    OBVIOUS
<1>2. \A x \in I : x <= m <=> x <= m - 1 \/ x = m
    BY <1>1
<1>3. ~ m <= m - 1
    OBVIOUS
<1>4. /\ m \notin UpTo(I, m - 1)
      /\ \A x : x \in UpTo(I, m) <=> x \in UpTo(I, m - 1) \/ (x = m /\ m \in I)
    <2> DEFINE here(x)   == x <= m
               before(x) == x <= m - 1
    <2>1. \A x \in I : here(x) <=> before(x) \/ x = m
        BY <1>2
    <2>2. ~ before(m)
        BY <1>3
    <2>3. UpTo(I, m) = {x \in I : here(x)} /\ UpTo(I, m - 1) = {x \in I : before(x)}
        BY DEF UpTo
    <2> HIDE DEF here, before
    <2>4. QED
        BY <2>1, <2>2, <2>3
<1>5. QED
    BY <1>4

LEMMA CountUpTo ==
    ASSUME NEW n \in Nat, NEW I \in SUBSET (1 .. n)
    PROVE  /\ \A m \in 0 .. n : IsFiniteSet(UpTo(I, m)) /\ Cardinality(UpTo(I, m)) \in Nat
           /\ Cardinality(UpTo(I, 0)) = 0
           /\ \A m \in 1 .. n : Cardinality(UpTo(I, m)) =
                  IF m \in I THEN Cardinality(UpTo(I, m - 1)) + 1 ELSE Cardinality(UpTo(I, m - 1))
           /\ \A m \in 1 .. n : m \notin I => UpTo(I, m) = UpTo(I, m - 1)
           /\ UpTo(I, n) = I
<1>1. IsFiniteSet(I)
    <2>1. IsFiniteSet(1 .. n) /\ I \subseteq 1 .. n
        BY FS_Interval
    <2>2. QED
        BY <2>1, FS_Subset
<1>2. \A m \in 0 .. n : IsFiniteSet(UpTo(I, m))
    BY <1>1, FS_Subset DEF UpTo
<1>3. \A m \in 0 .. n : Cardinality(UpTo(I, m)) \in Nat
    BY <1>2, FS_CardinalityType
<1>4. ASSUME NEW m \in 1 .. n
      PROVE  /\ Cardinality(UpTo(I, m)) =
                  IF m \in I THEN Cardinality(UpTo(I, m - 1)) + 1 ELSE Cardinality(UpTo(I, m - 1))
             /\ m \notin I => UpTo(I, m) = UpTo(I, m - 1)
    <2>1. IsFiniteSet(UpTo(I, m - 1))
        BY <1>2
    <2>2. /\ m \notin UpTo(I, m - 1)
          /\ m \in I => UpTo(I, m) = UpTo(I, m - 1) \cup {m}
          /\ m \notin I => UpTo(I, m) = UpTo(I, m - 1)
        BY UpToGrows
    <2>3. QED
        BY <2>1, <2>2, FS_AddElement
<1>5. QED
    BY <1>2, <1>3, <1>4, UpToEnds, FS_EmptySet

\* The loop of Kept: each position of I in its turn, and nothing else.
LEMMA KeptInOrder ==
    ASSUME NEW V, NEW s \in Seq(V), NEW I \in SUBSET (1 .. Len(s))
    PROVE  /\ Kept(s, I) \in Seq(V) /\ Len(Kept(s, I)) = Cardinality(I)
           /\ \A i \in I : Kept(s, I)[Cardinality(UpTo(I, i))] = s[i]
<1> DEFINE n == Len(s)
           kept[i \in 0 .. Len(s)] ==
               IF i = 0 THEN << >> ELSE IF i \in I THEN Append(kept[i - 1], s[i]) ELSE kept[i - 1]
           h == [p \in (1 .. n) \X Seq(V) |-> IF p[1] \in I THEN Append(p[2], s[p[1]]) ELSE p[2]]
           count(m) == Cardinality(UpTo(I, m))
<1>1. n \in Nat /\ \A i \in 1 .. n : s[i] \in V
    OBVIOUS
<1>2. \E g : g = [i \in 0 .. Len(s) |->
                 IF i = 0 THEN << >> ELSE IF i \in I THEN Append(g[i - 1], s[i]) ELSE g[i - 1]]
    <2>1. h \in [(1 .. n) \X Seq(V) -> Seq(V)]
        <3>1. ASSUME NEW p \in (1 .. n) \X Seq(V)
              PROVE  (IF p[1] \in I THEN Append(p[2], s[p[1]]) ELSE p[2]) \in Seq(V)
            <4>1. p[1] \in 1 .. n /\ p[2] \in Seq(V) /\ s[p[1]] \in V
                BY <1>1
            <4>2. QED
                BY <4>1
        <3>2. QED
            BY <3>1
    <2>2. << >> \in Seq(V)
        OBVIOUS
    <2>3. Recursion(n, Seq(V), << >>, h)
        <3> HIDE DEF h
        <3>1. QED
            BY <1>1, <2>1, <2>2, RecursionExists
    <2>4. PICK f \in [0 .. n -> Seq(V)] :
              f[0] = << >> /\ \A i \in 1 .. n : f[i] = h[<< i, f[i - 1] >>]
        BY <2>3 DEF Recursion
    <2>5. \A i \in 1 .. n : f[i] = IF i \in I THEN Append(f[i - 1], s[i]) ELSE f[i - 1]
        <3>1. \A i \in 1 .. n : f[i - 1] \in Seq(V)
            BY <1>1
        <3>2. QED
            BY <2>4, <3>1
    <2> HIDE DEF h
    <2>6. f = [i \in 0 .. n |-> f[i]]
        OBVIOUS
    <2>7. \A i \in 0 .. n : i = 0 \/ i \in 1 .. n
        BY <1>1
    <2>8. \A i \in 0 .. n : f[i] =
              IF i = 0 THEN << >> ELSE IF i \in I THEN Append(f[i - 1], s[i]) ELSE f[i - 1]
        BY <2>4, <2>5, <2>7
    <2>9. [i \in 0 .. n |-> f[i]] = [i \in 0 .. n |->
              IF i = 0 THEN << >> ELSE IF i \in I THEN Append(f[i - 1], s[i]) ELSE f[i - 1]]
        BY <2>8
    <2>10. QED
        BY <2>6, <2>9
<1>3. kept = CHOOSE g : g = [i \in 0 .. Len(s) |->
                 IF i = 0 THEN << >> ELSE IF i \in I THEN Append(g[i - 1], s[i]) ELSE g[i - 1]]
    OBVIOUS
<1>4. Kept(s, I) = kept[n]
    BY DEF Kept
<1> HIDE DEF kept
<1>5. kept = [i \in 0 .. n |->
                 IF i = 0 THEN << >> ELSE IF i \in I THEN Append(kept[i - 1], s[i]) ELSE kept[i - 1]]
    BY <1>2, <1>3
<1>6. kept[0] = << >>
    BY <1>1, <1>5
<1>7. ASSUME NEW i \in 1 .. n
      PROVE  kept[i] = IF i \in I THEN Append(kept[i - 1], s[i]) ELSE kept[i - 1]
    <2>1. i \in 0 .. n /\ i # 0
        BY <1>1
    <2>2. QED
        BY <1>5, <2>1
<1> DEFINE Right(m) == /\ kept[m] \in Seq(V) /\ Len(kept[m]) = count(m)
                       /\ \A i \in UpTo(I, m) : count(i) \in 1 .. count(m) /\ kept[m][count(i)] = s[i]
           Good == {m \in 0 .. n : Right(m)}
<1>8. /\ \A m \in 0 .. n : count(m) \in Nat
      /\ count(0) = 0
      /\ \A m \in 1 .. n : count(m) = IF m \in I THEN count(m - 1) + 1 ELSE count(m - 1)
      /\ \A m \in 1 .. n : m \notin I => UpTo(I, m) = UpTo(I, m - 1)
      /\ UpTo(I, n) = I
    BY <1>1, CountUpTo
<1> HIDE DEF count
<1>9. 0 \in Good
    <2>1. UpTo(I, 0) = {}
        BY <1>1, UpToEnds
    <2>2. Right(0)
        BY <1>6, <1>8, <2>1
    <2>3. QED
        BY <1>1, <2>2
<1>10. ASSUME NEW m \in 1 .. n, m - 1 \in Good PROVE m \in Good
    <2>1. Right(m - 1) /\ m - 1 \in 0 .. n /\ count(m - 1) \in Nat /\ m \in 0 .. n
        BY <1>8, <1>10
    <2> HIDE DEF Good
    <2>2. CASE m \in I
        <3>1. kept[m] = Append(kept[m - 1], s[m]) /\ s[m] \in V
            BY <1>1, <1>7, <2>2
        <3>2. count(m) = count(m - 1) + 1
            BY <1>8, <2>2
        <3>3. kept[m] \in Seq(V) /\ Len(kept[m]) = count(m)
            BY <2>1, <3>1, <3>2
        <3>4. ASSUME NEW i \in UpTo(I, m)
              PROVE  count(i) \in 1 .. count(m) /\ kept[m][count(i)] = s[i]
            <4>1. CASE i = m
                BY <2>1, <3>1, <3>2, <4>1
            <4>2. CASE i # m
                <5>1. i \in UpTo(I, m - 1)
                    BY <4>2 DEF UpTo
                <5>2. count(i) \in 1 .. count(m - 1) /\ kept[m - 1][count(i)] = s[i]
                    BY <2>1, <5>1
                <5>3. count(i) \in 1 .. Len(kept[m - 1])
                    BY <2>1, <5>2
                <5>4. kept[m][count(i)] = kept[m - 1][count(i)]
                    BY <2>1, <3>1, <5>3
                <5>5. QED
                    BY <2>1, <3>2, <5>2, <5>4
            <4>3. QED
                BY <4>1, <4>2
        <3>5. QED
            BY <2>1, <3>3, <3>4 DEF Good
    <2>3. CASE m \notin I
        <3>1. kept[m] = kept[m - 1] /\ count(m) = count(m - 1)
            BY <1>7, <1>8, <2>3
        <3>2. UpTo(I, m) = UpTo(I, m - 1)
            BY <1>8, <2>3
        <3>3. QED
            BY <2>1, <3>1, <3>2 DEF Good
    <2>4. QED
        BY <2>2, <2>3
<1>11. n \in Good
    <2> HIDE DEF Good
    <2>1. 0 .. n \subseteq Good
        BY <1>1, <1>9, <1>10, NumbersAreReached
    <2>2. QED
        BY <1>1, <2>1
<1>12. QED
    BY <1>4, <1>8, <1>11 DEF count

\* A header whose pattern the code matches.
IsHeader(lines, i) == lines[i].kind = "header" /\ ~ lines[i].opaque

\* Line i stands below the header of a dependency table, with no other between.
BelowTable(lines, i) ==
    \E h \in 1 .. i : /\ IsHeader(lines, h) /\ lines[h].isDep
                      /\ \A k \in h + 1 .. i : ~ IsHeader(lines, k)

\* The section a line stands in is that of the last header above it.
LEMMA SectionOfLine ==
    ASSUME NEW lines, NEW n \in Nat, Len(lines) = n,
           \A i \in 1 .. n : IsHeader(lines, i) => lines[i].isDep \in BOOLEAN
    PROVE  \A i \in 0 .. n : InDependencies(lines)[i] <=> BelowTable(lines, i)
<1> DEFINE within[i \in 0 .. Len(lines)] ==
               IF i = 0 THEN FALSE
               ELSE IF lines[i].kind = "header" /\ ~ lines[i].opaque THEN lines[i].isDep
                    ELSE within[i - 1]
           h == [p \in (1 .. n) \X BOOLEAN |->
                    IF IsHeader(lines, p[1]) THEN lines[p[1]].isDep ELSE p[2]]
<1>1. \E g : g = [i \in 0 .. Len(lines) |->
                     IF i = 0 THEN FALSE
                     ELSE IF lines[i].kind = "header" /\ ~ lines[i].opaque THEN lines[i].isDep
                          ELSE g[i - 1]]
    <2>1. h \in [(1 .. n) \X BOOLEAN -> BOOLEAN]
        <3>1. ASSUME NEW p \in (1 .. n) \X BOOLEAN
              PROVE  (IF IsHeader(lines, p[1]) THEN lines[p[1]].isDep ELSE p[2]) \in BOOLEAN
            <4>1. p[1] \in 1 .. n /\ p[2] \in BOOLEAN
                OBVIOUS
            <4>2. QED
                BY <4>1
        <3>2. QED
            BY <3>1
    <2>2. Recursion(n, BOOLEAN, FALSE, h)
        <3> HIDE DEF h
        <3>1. QED
            BY <2>1, RecursionExists
    <2>3. PICK f \in [0 .. n -> BOOLEAN] :
              f[0] = FALSE /\ \A i \in 1 .. n : f[i] = h[<< i, f[i - 1] >>]
        BY <2>2 DEF Recursion
    <2>4. \A i \in 1 .. n : f[i] = IF IsHeader(lines, i) THEN lines[i].isDep ELSE f[i - 1]
        <3>1. \A i \in 1 .. n : f[i - 1] \in BOOLEAN
            OBVIOUS
        <3>2. \A i \in 1 .. n : << i, f[i - 1] >> \in (1 .. n) \X BOOLEAN
            BY <3>1
        <3>3. QED
            BY <2>3, <3>2
    <2> HIDE DEF h
    <2>5. \A i \in 0 .. n : i = 0 \/ i \in 1 .. n
        OBVIOUS
    <2>6. \A i \in 0 .. n : f[i] =
              IF i = 0 THEN FALSE
              ELSE IF lines[i].kind = "header" /\ ~ lines[i].opaque THEN lines[i].isDep
                   ELSE f[i - 1]
        BY <2>3, <2>4, <2>5 DEF IsHeader
    <2>7. f = [i \in 0 .. n |-> f[i]]
        OBVIOUS
    <2>8. [i \in 0 .. n |-> f[i]] =
              [i \in 0 .. n |-> IF i = 0 THEN FALSE
                                ELSE IF lines[i].kind = "header" /\ ~ lines[i].opaque
                                     THEN lines[i].isDep ELSE f[i - 1]]
        BY <2>6
    <2>9. QED
        BY <2>7, <2>8
<1>2. within = CHOOSE g : g = [i \in 0 .. Len(lines) |->
                     IF i = 0 THEN FALSE
                     ELSE IF lines[i].kind = "header" /\ ~ lines[i].opaque THEN lines[i].isDep
                          ELSE g[i - 1]]
    OBVIOUS
<1>3. InDependencies(lines) = within
    BY DEF InDependencies
<1> HIDE DEF within
<1>4. within = [i \in 0 .. n |->
                   IF i = 0 THEN FALSE
                   ELSE IF lines[i].kind = "header" /\ ~ lines[i].opaque THEN lines[i].isDep
                        ELSE within[i - 1]]
    BY <1>1, <1>2
<1>5. within[0] = FALSE
    BY <1>4
<1>6. \A i \in 1 .. n : within[i] = IF IsHeader(lines, i) THEN lines[i].isDep ELSE within[i - 1]
    <2>1. \A i \in 1 .. n : i \in 0 .. n /\ i # 0
        OBVIOUS
    <2>2. QED
        BY <1>4, <2>1 DEF IsHeader
<1> DEFINE Good == {i \in 0 .. n : within[i] <=> BelowTable(lines, i)}
<1>7. 0 \in Good
    <2>1. ~ BelowTable(lines, 0)
        BY DEF BelowTable
    <2>2. QED
        BY <1>5, <2>1
<1>8. ASSUME NEW i \in 1 .. n, i - 1 \in Good PROVE i \in Good
    <2>1. within[i - 1] <=> BelowTable(lines, i - 1)
        BY <1>8
    <2>2. i \in 1 .. i /\ \A x \in i + 1 .. i : FALSE
        OBVIOUS
    <2>3. CASE IsHeader(lines, i)
        <3>1. within[i] = lines[i].isDep
            BY <1>6, <2>3
        <3>2. lines[i].isDep => BelowTable(lines, i)
            BY <2>2, <2>3 DEF BelowTable
        <3>3. ASSUME BelowTable(lines, i) PROVE lines[i].isDep
            <4>1. PICK g \in 1 .. i : /\ IsHeader(lines, g) /\ lines[g].isDep
                                      /\ \A k \in g + 1 .. i : ~ IsHeader(lines, k)
                BY <3>3 DEF BelowTable
            <4>2. i \in g + 1 .. i \/ g = i
                OBVIOUS
            <4>3. QED
                BY <2>3, <4>1, <4>2
        <3>4. QED
            BY <3>1, <3>2, <3>3
    <2>4. CASE ~ IsHeader(lines, i)
        <3>1. within[i] = within[i - 1]
            BY <1>6, <2>4
        <3>2. ASSUME NEW g \in 1 .. i - 1, \A k \in g + 1 .. i - 1 : ~ IsHeader(lines, k)
              PROVE  g \in 1 .. i /\ \A k \in g + 1 .. i : ~ IsHeader(lines, k)
            <4>1. \A k \in g + 1 .. i : k = i \/ k \in g + 1 .. i - 1
                OBVIOUS
            <4>2. QED
                BY <2>4, <3>2, <4>1
        <3>3. ASSUME NEW g \in 1 .. i, \A k \in g + 1 .. i : ~ IsHeader(lines, k), IsHeader(lines, g)
              PROVE  g \in 1 .. i - 1 /\ \A k \in g + 1 .. i - 1 : ~ IsHeader(lines, k)
            <4>1. g # i
                BY <2>4, <3>3
            <4>2. g \in 1 .. i - 1 /\ \A k \in g + 1 .. i - 1 : k \in g + 1 .. i
                BY <4>1
            <4>3. QED
                BY <3>3, <4>2
        <3>4. BelowTable(lines, i) <=> BelowTable(lines, i - 1)
            BY <3>2, <3>3 DEF BelowTable
        <3>5. QED
            BY <2>1, <3>1, <3>4
    <2>5. QED
        BY <2>3, <2>4
<1>9. 0 .. n \subseteq Good
    <2> HIDE DEF Good
    <2>1. QED
        BY <1>7, <1>8, NumbersAreReached
<1>10. QED
    BY <1>3, <1>9

LEMMA LinesOfToml ==
    ASSUME NEW lines \in Lists(TomlLines, MaxLines)
    PROVE  /\ lines \in Seq(TomlLines)
           /\ \A i \in 1 .. Len(lines) :
                 /\ lines[i].kind \in {"header", "entry"}
                 /\ lines[i].kind = "header" => lines[i].isDep \in BOOLEAN
<1>1. PICK k \in 0 .. MaxLines : lines \in [1 .. k -> TomlLines]
    BY DEF Lists
<1>2. k \in Nat
    BY BoundsAssumption
<1>3. lines \in Seq(TomlLines) /\ Len(lines) = k
    BY <1>1, <1>2
<1>4. \A x \in TomlLines : /\ x.kind \in {"header", "entry"}
                           /\ x.kind = "header" => x.isDep \in BOOLEAN
    BY DEF TomlLines, Header, TomlEntry
<1>5. QED
    BY <1>1, <1>3, <1>4

(***************************************************************************)
(* CargoAnalyzer finds the entries of the dependency tables, each at its   *)
(* place among them, in files of any number of lines.                      *)
(***************************************************************************)
THEOREM CargoReadsTables == Spec => []CargoFollowsToml
<1>1. ASSUME Inputs PROVE CargoFollowsToml
    <2> DEFINE lines == input.lines
               n == Len(lines)
               taken == {i \in DOMAIN lines :
                            /\ InDependencies(lines)[i] /\ lines[i].kind = "entry"
                            /\ lines[i].bounds # << >>}
               kept == Kept(lines, taken)
               count(i) == Cardinality(UpTo(taken, i))
    <2>1. SUFFICES ASSUME input.of = "toml",
                          \A i \in DOMAIN lines : lines[i].kind = "header" => ~ lines[i].opaque
                   PROVE  /\ Len(Cargo(lines)) = Cardinality(Declared(lines))
                          /\ \A i \in Declared(lines) :
                                Cargo(lines)[Cardinality({k \in Declared(lines) : k <= i})].package
                                    = lines[i].name
        BY DEF CargoFollowsToml
    <2>2. lines \in Lists(TomlLines, MaxLines)
        BY <1>1, <2>1 DEF Inputs
    <2> HIDE DEF lines
    <2>3. /\ lines \in Seq(TomlLines) /\ n \in Nat /\ DOMAIN lines = 1 .. n
          /\ \A i \in 1 .. n : /\ lines[i].kind \in {"header", "entry"}
                               /\ lines[i].kind = "header" => lines[i].isDep \in BOOLEAN
        BY <2>2, LinesOfToml
    <2>4. \A i \in 1 .. n : IsHeader(lines, i) <=> lines[i].kind = "header"
        BY <2>1, <2>3 DEF IsHeader
    <2>5. \A i \in 1 .. n : InDependencies(lines)[i] <=> BelowTable(lines, i)
        BY <2>3, <2>4, SectionOfLine
    <2>6. ASSUME NEW i \in 1 .. n, lines[i].kind = "entry"
          PROVE  BelowTable(lines, i) <=>
                     \E h \in 1 .. i - 1 : /\ lines[h].kind = "header" /\ lines[h].isDep
                                           /\ \A k \in h + 1 .. i : lines[k].kind = "entry"
        <3>1. \A k \in 1 .. i : k \in 1 .. n /\ (IsHeader(lines, k) <=> lines[k].kind # "entry")
            BY <2>3, <2>4
        <3>2. \A h \in 1 .. i : IsHeader(lines, h) => h \in 1 .. i - 1
            BY <2>4, <2>6
        <3>3. \A h \in 1 .. i : \A k \in h + 1 .. i : k \in 1 .. i
            BY <2>3
        <3>4. \A h \in 1 .. i - 1 : h \in 1 .. i
            OBVIOUS
        <3>5. QED
            BY <2>4, <3>1, <3>2, <3>3, <3>4 DEF BelowTable
    <2>7. taken = Declared(lines)
        <3>1. \A i \in 1 .. n : i \in taken <=> i \in Declared(lines)
            BY <2>3, <2>5, <2>6 DEF Declared
        <3>2. QED
            BY <2>3, <3>1 DEF Declared
    <2>8. taken \in SUBSET (1 .. n)
        BY <2>3
    <2>9. Cargo(lines) = [k \in DOMAIN kept |-> Found(kept[k], AsWritten(kept[k].bounds), "cargo")]
        BY DEF Cargo
    <2> HIDE DEF taken
    <2>10. /\ kept \in Seq(TomlLines) /\ Len(kept) = Cardinality(taken)
           /\ \A i \in taken : kept[count(i)] = lines[i]
        BY <2>3, <2>8, KeptInOrder
    <2>11. \A i \in taken : count(i) \in 1 .. Len(kept)
        <3> HIDE DEF kept
        <3>1. ASSUME NEW i \in taken PROVE count(i) \in 1 .. Cardinality(taken)
            <4>1. i \in 1 .. n /\ i \in 0 .. n /\ i - 1 \in 0 .. n
                BY <2>3, <2>8
            <4>2. IsFiniteSet(1 .. n) /\ UpTo(taken, i) \subseteq taken
                BY <2>3, FS_Interval DEF UpTo
            <4>3. IsFiniteSet(taken) /\ UpTo(taken, i) \subseteq taken
                BY <2>8, <4>2, FS_Subset
            <4>4. count(i) <= Cardinality(taken) /\ Cardinality(taken) \in Nat
                BY <4>3, FS_Subset, FS_CardinalityType
            <4>5. count(i) = count(i - 1) + 1 /\ count(i - 1) \in Nat
                BY <2>3, <2>8, <4>1, CountUpTo
            <4> HIDE DEF count
            <4>6. QED
                BY <4>4, <4>5
        <3>2. QED
            BY <2>10, <3>1
    <2> HIDE DEF kept
    <2>12. Len(Cargo(lines)) = Cardinality(taken)
        <3>1. DOMAIN kept = 1 .. Len(kept) /\ Len(kept) \in Nat
            BY <2>10
        <3>2. QED
            BY <2>9, <2>10, <3>1
    <2>13. ASSUME NEW i \in taken PROVE Cargo(lines)[count(i)].package = lines[i].name
        <3>1. count(i) \in DOMAIN kept /\ kept[count(i)] = lines[i]
            BY <2>10, <2>11
        <3> HIDE DEF count
        <3>2. Cargo(lines)[count(i)] = Found(lines[i], AsWritten(lines[i].bounds), "cargo")
            BY <2>9, <3>1
        <3>3. QED
            BY <3>2 DEF Found, Normalize
    <2>14. QED
        BY <2>7, <2>12, <2>13 DEF UpTo
<1>2. Init => Inputs
    BY DEF Init
<1>3. QED
    BY <1>1, <1>2, InputsStay, PTL DEF Spec

-----------------------------------------------------------------------------
(* Pinned entries, from the manifest to the CVEs.                          *)

\* A loop that keeps all from some position on.
LEMMA KeptSuffix ==
    ASSUME NEW V, NEW s \in Seq(V), NEW a \in 1 .. Len(s) + 1
    PROVE  Kept(s, a .. Len(s)) = [k \in 1 .. Len(s) - a + 1 |-> s[a + k - 1]]
<1> DEFINE n == Len(s)
           I == a .. n
           kept == Kept(s, I)
<1>1. n \in Nat /\ a \in Nat /\ a >= 1 /\ a <= n + 1 /\ I \in SUBSET (1 .. n)
    OBVIOUS
<1>2. /\ kept \in Seq(V) /\ Len(kept) = Cardinality(I)
      /\ \A i \in I : kept[Cardinality(UpTo(I, i))] = s[i]
    BY <1>1, KeptInOrder
<1>3. Cardinality(I) = n - a + 1
    <2> HIDE DEF n
    <2>1. n \in Int /\ a \in Int /\ (a > n => n - a + 1 = 0)
        BY <1>1
    <2>2. Cardinality(a .. n) = IF a > n THEN 0 ELSE n - a + 1
        BY <2>1, FS_Interval
    <2>3. QED
        BY <2>1, <2>2
<1>4. ASSUME NEW i \in I PROVE Cardinality(UpTo(I, i)) = i - a + 1
    <2>1. i \in a .. n
        OBVIOUS
    <2>2. UpTo(I, i) = a .. i
        <3>1. \A x \in a .. n : x <= i <=> x \in a .. i
            BY <1>1, <2>1
        <3>2. \A x \in a .. i : x \in a .. n
            BY <1>1, <2>1
        <3>3. QED
            BY <3>1, <3>2 DEF UpTo
    <2>3. i \in Int /\ a \in Int /\ a <= i
        BY <1>1
    <2>4. Cardinality(a .. i) = i - a + 1
        BY <2>3, FS_Interval
    <2>5. QED
        BY <2>2, <2>4
<1> HIDE DEF kept
<1>5. ASSUME NEW k \in 1 .. n - a + 1 PROVE kept[k] = s[a + k - 1]
    <2>1. a + k - 1 \in I /\ a + k - 1 - a + 1 = k
        BY <1>1
    <2>2. QED
        BY <1>2, <1>4, <2>1
<1>6. kept = [k \in 1 .. n - a + 1 |-> kept[k]]
    BY <1>1, <1>2, <1>3
<1>7. QED
    BY <1>5, <1>6 DEF kept

\* A text of one bound is that bound.
LEMMA OneBound ==
    ASSUME NEW v
    PROVE  AsWritten(<< v >>) = v
<1>1. << v >> # << >> /\ Head(<< v >>) = v /\ Tail(<< v >>) = << >> /\ DOMAIN << >> = {}
    OBVIOUS
<1>2. FoldLeft(Fused, v, << >>) = v
    <2>1. {} \in SUBSET {}
        OBVIOUS
    <2>2. QED
        BY <1>1, <2>1 DEF FoldLeft, MapThenFoldSet
<1>3. QED
    BY <1>1, <1>2 DEF AsWritten

\* The row of a pinned entry, as it is written; that of an entry of which no
\* version is understood.
PinnedRow(e, ecosystem) == [package |-> Normalize(e.name, ecosystem), version |-> e.bounds[1]]
JunkText == [parts |-> << Junk >>, pre |-> 0]
JunkRow(e, ecosystem) == [package |-> Normalize(e.name, ecosystem), version |-> JunkText]

RowOf(e, ecosystem) == IF Unread(ecosystem, e) THEN JunkRow(e, ecosystem) ELSE PinnedRow(e, ecosystem)

Rows(d, ecosystem) == [i \in 1 .. Len(d) |-> RowOf(d[i], ecosystem)]

\* What is known of the entries of an input.
LEMMA PinIs ==
    ASSUME NEW e \in Pins
    PROVE  /\ e = [name |-> e.name, bounds |-> << e.bounds[1] >>, plain |-> e.plain]
           /\ e.name \in Name /\ e.bounds[1] \in {OneZero, OneOne, JustOne} /\ e.plain \in BOOLEAN
           /\ e.bounds = << e.bounds[1] >> /\ e.bounds # << >>
<1>1. PICK v \in {OneZero, OneOne, JustOne} : e.bounds = << v >>
    BY DEF Pins
<1>2. << v >>[1] = v /\ << v >> # << >>
    OBVIOUS
<1>3. e.bounds[1] = v /\ e.bounds = << e.bounds[1] >> /\ e.bounds # << >>
    BY <1>1, <1>2
<1>4. e = [name |-> e.name, bounds |-> e.bounds, plain |-> e.plain] /\ e.name \in Name /\ e.plain \in BOOLEAN
    BY DEF Pins
<1>5. QED
    BY <1>3, <1>4

LEMMA PinsOf ==
    ASSUME NEW d \in Lists(Pins, 2)
    PROVE  /\ d \in Seq(Pins) /\ Len(d) \in 0 .. 2 /\ DOMAIN d = 1 .. Len(d)
           /\ \A i \in 1 .. Len(d) : d[i] \in Pins
<1>1. PICK k \in 0 .. 2 : d \in [1 .. k -> Pins]
    BY DEF Lists
<1>2. d \in Seq(Pins) /\ Len(d) = k
    BY <1>1
<1>3. QED
    BY <1>1, <1>2

\* What an analyzer that takes all of the text makes of it.
LEMMA FoundPin ==
    ASSUME NEW e \in Pins, NEW ecosystem
    PROVE  /\ Found(e, AsWritten(e.bounds), ecosystem) = PinnedRow(e, ecosystem)
           /\ Found(e, FirstBound(e.bounds), ecosystem) = PinnedRow(e, ecosystem)
<1>1. e.bounds = << e.bounds[1] >> /\ e.bounds # << >>
    BY PinIs
<1>2. AsWritten(e.bounds) = e.bounds[1]
    BY <1>1, OneBound
<1>3. QED
    BY <1>1, <1>2 DEF Found, FirstBound, PinnedRow

\* Npm and Cargo have one way to pin.
LEMMA ReadRow ==
    ASSUME NEW e \in Pins, NEW ecosystem, ecosystem \notin {"pypi", "nuget"} \/ e.plain
    PROVE  RowOf(e, ecosystem) = PinnedRow(e, ecosystem)
BY DEF RowOf, Unread

LEMMA FirstAndRest ==
    ASSUME NEW d \in Lists(Pins, 2), NEW rest, rest = SubSeq(d, 2, Len(d)),
           NEW first, first = [i \in 1 .. Len(d) - Len(rest) |-> d[i]]
    PROVE  first \o rest = d /\ first \in Seq(Pins) /\ rest \in Seq(Pins)
<1>1. d \in Seq(Pins) /\ Len(d) \in 0 .. 2
    BY PinsOf
<1>2. CASE Len(d) = 0
    BY <1>1, <1>2
<1>3. CASE Len(d) = 1
    BY <1>1, <1>3
<1>4. CASE Len(d) = 2
    BY <1>1, <1>4
<1>5. QED
    BY <1>1, <1>2, <1>3, <1>4

\* Their lengths and members.
LEMMA FirstAndRestAre ==
    ASSUME NEW d \in Lists(Pins, 2), NEW rest, rest = SubSeq(d, 2, Len(d)),
           NEW first, first = [i \in 1 .. Len(d) - Len(rest) |-> d[i]]
    PROVE  /\ Len(first) \in 0 .. 1 /\ Len(rest) \in 0 .. 1 /\ Len(d) = Len(first) + Len(rest)
           /\ Len(first) = 1 => first[1] = d[1]
           /\ Len(rest) = 1 => Len(first) = 1 /\ rest[1] = d[2]
<1>1. d \in Seq(Pins) /\ Len(d) \in 0 .. 2
    BY PinsOf
<1>2. \A f : \A k \in Nat : Len([i \in 1 .. k |-> f[i]]) = k
    OBVIOUS
<1>3. CASE Len(d) = 0
    <2>1. Len(rest) = 0
        BY <1>1, <1>3
    <2>2. first = [i \in 1 .. 0 |-> d[i]]
        BY <1>3, <2>1
    <2>3. Len(first) = 0
        BY <1>2, <2>2
    <2>4. QED
        BY <1>3, <2>1, <2>3
<1>4. CASE Len(d) = 1
    <2>1. Len(rest) = 0
        BY <1>1, <1>4
    <2>2. first = [i \in 1 .. 1 |-> d[i]]
        BY <1>4, <2>1
    <2>3. Len(first) = 1 /\ first[1] = d[1]
        BY <1>2, <2>2
    <2>4. QED
        BY <1>4, <2>1, <2>3
<1>5. CASE Len(d) = 2
    <2>1. Len(rest) = 1 /\ rest[1] = d[2]
        BY <1>1, <1>5
    <2>2. first = [i \in 1 .. 1 |-> d[i]]
        BY <1>5, <2>1
    <2>3. Len(first) = 1 /\ first[1] = d[1]
        BY <1>2, <2>2
    <2>4. QED
        BY <1>5, <2>1, <2>3
<1>6. Len(d) = 0 \/ Len(d) = 1 \/ Len(d) = 2
    BY <1>1
<1>7. QED
    BY <1>3, <1>4, <1>5, <1>6, Zenon

\* What each analyzer finds of the entries pinned in its manifests.
LEMMA NpmPins ==
    ASSUME NEW d \in Lists(Pins, 2), NEW rest, NEW first, first \o rest = d,
           first \in Seq(Pins), rest \in Seq(Pins)
    PROVE  Npm(<< first, << >>, rest, << >> >>) = Rows(d, "npm")
<1> DEFINE o == << first, << >>, rest, << >> >>
<1>1. o[1] \o o[2] \o o[3] \o o[4] = d
    OBVIOUS
<1>2. Npm(o) = [i \in DOMAIN d |-> Found(d[i], AsWritten(d[i].bounds), "npm")]
    BY <1>1 DEF Npm
<1>3. DOMAIN d = 1 .. Len(d)
    BY PinsOf
<1>4. \A i \in 1 .. Len(d) : Found(d[i], AsWritten(d[i].bounds), "npm") = RowOf(d[i], "npm")
    BY PinsOf, FoundPin, ReadRow
<1>5. QED
    BY <1>2, <1>3, <1>4 DEF Rows

LEMMA CargoPins ==
    ASSUME NEW d \in Lists(Pins, 2)
    PROVE  Cargo(<< Header(TRUE, FALSE) >>
               \o [i \in DOMAIN d |-> TomlEntry(d[i].name, d[i].bounds)]) = Rows(d, "cargo")
<1> DEFINE n == Len(d)
           line(i) == TomlEntry(d[i].name, d[i].bounds)
           lines == << Header(TRUE, FALSE) >> \o [i \in DOMAIN d |-> line(i)]
           V == {Header(TRUE, FALSE)} \cup {line(i) : i \in 1 .. n}
           chosen == {i \in DOMAIN lines : /\ InDependencies(lines)[i] /\ lines[i].kind = "entry"
                                          /\ lines[i].bounds # << >>}
           kept == Kept(lines, chosen)
<1>1. n \in Nat /\ DOMAIN d = 1 .. n
    BY PinsOf
<1>2. /\ lines \in Seq(V) /\ Len(lines) = n + 1 /\ DOMAIN lines = 1 .. n + 1
      /\ lines[1] = Header(TRUE, FALSE)
      /\ \A i \in 1 .. n : lines[i + 1] = line(i)
    <2> DEFINE entries == [i \in 1 .. n |-> line(i)]
               head == Header(TRUE, FALSE)
    <2>1. entries \in [1 .. n -> V] /\ head \in V
        OBVIOUS
    <2>2. lines = << head >> \o entries
        BY <1>1
    <2>3. \A i \in 1 .. n : entries[i] = line(i)
        OBVIOUS
    <2> HIDE DEF line, n, V, entries, head
    <2>4. entries \in Seq(V) /\ Len(entries) = n
        BY <1>1, <2>1
    <2> HIDE DEF lines
    <2>5. lines \in Seq(V) /\ Len(lines) = n + 1 /\ lines[1] = head
        BY <1>1, <2>1, <2>2, <2>4
    <2>6. \A i \in 1 .. n : lines[i + 1] = entries[i]
        BY <1>1, <2>1, <2>2, <2>4
    <2>7. QED
        BY <1>1, <2>3, <2>5, <2>6 DEF head
<1> HIDE DEF lines, V
<1>3. IsHeader(lines, 1) /\ lines[1].isDep = TRUE
    BY <1>2 DEF IsHeader, Header
<1>4. \A i \in 1 .. n : /\ lines[i + 1].kind = "entry" /\ ~ IsHeader(lines, i + 1)
                        /\ lines[i + 1].name = d[i].name /\ lines[i + 1].bounds = d[i].bounds
    <2>1. ASSUME NEW i \in 1 .. n
          PROVE  lines[i + 1] = [kind |-> "entry", name |-> d[i].name, bounds |-> d[i].bounds]
        BY <1>2 DEF TomlEntry
    <2>2. ASSUME NEW i \in 1 .. n
          PROVE  /\ lines[i + 1].kind = "entry" /\ lines[i + 1].kind # "header"
                 /\ lines[i + 1].name = d[i].name /\ lines[i + 1].bounds = d[i].bounds
        <3> HIDE DEF n, line
        <3> DEFINE entry == [kind |-> "entry", name |-> d[i].name, bounds |-> d[i].bounds]
        <3>1. /\ entry.kind = "entry" /\ entry.kind # "header"
              /\ entry.name = d[i].name /\ entry.bounds = d[i].bounds
            OBVIOUS
        <3>2. lines[i + 1] = entry
            BY <2>1
        <3> HIDE DEF entry
        <3>3. QED
            BY <3>1, <3>2
    <2>3. QED
        BY <2>2 DEF IsHeader
<1> HIDE DEF n
<1>5. \A i \in 1 .. n + 1 : i = 1 \/ (i - 1 \in 1 .. n /\ i = (i - 1) + 1)
    BY <1>1
<1>6. \A i \in 2 .. n + 1 : ~ IsHeader(lines, i) /\ lines[i].kind = "entry"
    BY <1>1, <1>4, <1>5
<1>7. \A i \in 1 .. n + 1 : InDependencies(lines)[i] <=> BelowTable(lines, i)
    <2>1. \A i \in 1 .. n + 1 : IsHeader(lines, i) => lines[i].isDep \in BOOLEAN
        BY <1>3, <1>4, <1>5
    <2>2. n + 1 \in Nat /\ \A i \in 1 .. n + 1 : i \in 0 .. n + 1
        BY <1>1
    <2>3. QED
        BY <1>2, <2>1, <2>2, SectionOfLine
<1>8. \A i \in 1 .. n + 1 : BelowTable(lines, i)
    <2>1. SUFFICES ASSUME NEW i \in 1 .. n + 1 PROVE BelowTable(lines, i)
        OBVIOUS
    <2>2. 1 \in 1 .. i /\ \A k \in 1 + 1 .. i : k \in 2 .. n + 1
        BY <1>1
    <2>3. QED
        BY <1>3, <1>6, <2>2 DEF BelowTable
<1>9. chosen = 2 .. n + 1
    <2>1. \A i \in 1 .. n : lines[i + 1].bounds # << >>
        BY <1>4, PinsOf, PinIs DEF n
    <2>2. \A i \in 1 .. n + 1 : i \in chosen <=> i \in 2 .. n + 1
        <3>1. lines[1].kind # "entry"
            BY <1>3 DEF IsHeader
        <3>2. \A i \in 2 .. n + 1 : lines[i].bounds # << >> /\ i \in 1 .. n + 1
            BY <1>1, <1>5, <2>1
        <3>3. \A i \in 1 .. n + 1 : i \in 2 .. n + 1 \/ i = 1
            BY <1>1
        <3>4. 1 \notin 2 .. n + 1
            BY <1>1
        <3>5. QED
            BY <1>2, <1>6, <1>7, <1>8, <3>1, <3>2, <3>3, <3>4
    <2> HIDE DEF chosen
    <2>3. \A i \in 2 .. n + 1 : i \in 1 .. n + 1
        BY <1>1
    <2>4. chosen \subseteq 1 .. n + 1
        BY <1>2 DEF chosen
    <2>5. QED
        BY <2>2, <2>3, <2>4
<1> HIDE DEF chosen
<1>10. kept = [k \in 1 .. n |-> lines[k + 1]]
    <2>1. 2 \in 1 .. Len(lines) + 1
        BY <1>1, <1>2
    <2>2. Kept(lines, 2 .. Len(lines)) = [k \in 1 .. Len(lines) - 2 + 1 |-> lines[2 + k - 1]]
        BY <1>2, <2>1, KeptSuffix
    <2>3. Len(lines) - 2 + 1 = n /\ \A k \in 1 .. n : 2 + k - 1 = k + 1
        BY <1>1, <1>2
    <2>4. QED
        BY <1>2, <1>9, <2>2, <2>3
<1>11. Cargo(lines) = [k \in DOMAIN kept |-> Found(kept[k], AsWritten(kept[k].bounds), "cargo")]
    BY DEF Cargo, chosen
<1>12. \A k \in 1 .. n : Found(lines[k + 1], AsWritten(lines[k + 1].bounds), "cargo") = RowOf(d[k], "cargo")
    <2>1. \A k \in 1 .. n : /\ Found(lines[k + 1], AsWritten(lines[k + 1].bounds), "cargo")
                                   = Found(d[k], AsWritten(d[k].bounds), "cargo")
        BY <1>4 DEF Found
    <2>2. \A k \in 1 .. n : Found(d[k], AsWritten(d[k].bounds), "cargo") = RowOf(d[k], "cargo")
        BY PinsOf, FoundPin, ReadRow DEF n
    <2>3. QED
        BY <2>1, <2>2
<1>13. Cargo(lines) = [k \in 1 .. n |-> RowOf(d[k], "cargo")]
    BY <1>10, <1>11, <1>12
<1>14. QED
    BY <1>13 DEF Rows, lines, n

\* Lines that all stand at the margin, and lines none of which does.
LEMMA MarginAll ==
    ASSUME NEW V, NEW lines \in Seq(V), \A i \in 1 .. Len(lines) : lines[i].margin
    PROVE  DepsFromLines(lines) = [i \in 1 .. Len(lines) |-> DepFromLine(lines[i])]
<1> DEFINE n == Len(lines)
<1>1. n \in Nat /\ DOMAIN lines = 1 .. n
    OBVIOUS
<1>2. {i \in DOMAIN lines : lines[i].margin} = 1 .. n
    BY <1>1
<1>3. Kept(lines, 1 .. n) = [k \in 1 .. n |-> lines[k]]
    <2>1. 1 \in 1 .. n + 1 /\ n - 1 + 1 = n /\ \A k \in 1 .. n : 1 + k - 1 = k
        BY <1>1
    <2>2. Kept(lines, 1 .. n) = [k \in 1 .. n - 1 + 1 |-> lines[1 + k - 1]]
        BY <2>1, KeptSuffix
    <2>3. QED
        BY <2>1, <2>2
<1>4. QED
    BY <1>2, <1>3 DEF DepsFromLines

LEMMA MarginNone ==
    ASSUME NEW V, NEW lines \in Seq(V), \A i \in 1 .. Len(lines) : ~ lines[i].margin
    PROVE  DepsFromLines(lines) = << >>
<1> DEFINE n == Len(lines)
<1>1. n \in Nat /\ DOMAIN lines = 1 .. n
    OBVIOUS
<1>2. {i \in DOMAIN lines : lines[i].margin} = n + 1 .. n
    BY <1>1
<1>3. Kept(lines, n + 1 .. n) = << >>
    <2>1. n + 1 \in 1 .. n + 1 /\ n - (n + 1) + 1 = 0 /\ 1 .. 0 = {}
        BY <1>1
    <2>2. Kept(lines, n + 1 .. n) = [k \in 1 .. n - (n + 1) + 1 |-> lines[(n + 1) + k - 1]]
        BY <2>1, KeptSuffix
    <2>3. QED
        BY <2>1, <2>2
<1> DEFINE none == << >>
<1>4. DepsFromLines(lines) = [i \in DOMAIN none |-> DepFromLine(none[i])]
    BY <1>2, <1>3 DEF DepsFromLines
<1>5. DOMAIN none = {} /\ \A f : [i \in {} |-> f[i]] = << >>
    OBVIOUS
<1>6. QED
    BY <1>4, <1>5

\* The lines of a Python file: of a list of one entry or none.
LEMMA RequirementsAre ==
    ASSUME NEW list \in Seq(Pins), Len(list) \in 0 .. 1, NEW plain, NEW margin, NEW extras
    PROVE  Requirements(list, plain, margin, extras) =
               IF Len(list) = 1 /\ list[1].plain = plain
               THEN << Requirement(list[1], margin, extras) >> ELSE << >>
<1> DEFINE I == {k \in DOMAIN list : list[k].plain = plain}
           made(i) == Requirement(list[i], margin, extras)
<1>1. DOMAIN list = 1 .. Len(list)
    OBVIOUS
<1>2. CASE Len(list) = 1 /\ list[1].plain = plain
    <2>1. I = 1 .. 1
        BY <1>1, <1>2
    <2> HIDE DEF I
    <2>2. [i \in I |-> made(i)] = << made(1) >>
        BY <2>1
    <2>3. QED
        BY <1>2, <2>2 DEF Requirements, I
<1>3. CASE ~ (Len(list) = 1 /\ list[1].plain = plain)
    <2>1. I = {}
        BY <1>1, <1>3
    <2> HIDE DEF I
    <2>2. [i \in I |-> made(i)] = << >>
        BY <2>1
    <2>3. QED
        BY <1>3, <2>2 DEF Requirements, I
<1>4. QED
    BY <1>2, <1>3

\* What is found in a file of one line or none.
LEMMA LinesOfPython ==
    ASSUME NEW e \in Pins, NEW extras \in BOOLEAN
    PROVE  /\ RequirementsTxt(<< Requirement(e, TRUE, extras) >>) = << PinnedRow(e, "pypi") >>
           /\ PyprojectToml(<< Requirement(e, FALSE, FALSE) >>) = << PinnedRow(e, "pypi") >>
           /\ SetupCfg(<< Requirement(e, FALSE, FALSE) >>) = << >>
<1>1. ASSUME NEW b \in BOOLEAN, NEW c \in BOOLEAN
      PROVE  LET r == Requirement(e, b, c)
             IN r.name = e.name /\ r.bounds = e.bounds /\ r.margin = b /\ r.extras = c
    BY DEF Requirement
<1>2. ASSUME NEW b \in BOOLEAN, NEW c \in BOOLEAN
      PROVE  DepFromLine(Requirement(e, b, c)) = PinnedRow(e, "pypi")
    <2> DEFINE r == Requirement(e, b, c)
    <2>1. r.name = e.name /\ r.bounds = e.bounds
        BY <1>1
    <2> HIDE DEF r
    <2>2. Found(r, FirstBound(r.bounds), "pypi") = Found(e, FirstBound(e.bounds), "pypi")
        BY <2>1 DEF Found
    <2>3. QED
        BY <2>2, FoundPin DEF DepFromLine, r
<1>3. \A r : /\ << r >> \in Seq({r}) /\ Len(<< r >>) = 1 /\ << r >>[1] = r
             /\ DOMAIN << r >> = 1 .. 1 /\ << r >> = [i \in 1 .. 1 |-> r]
    OBVIOUS
<1>4. ASSUME NEW r, r.margin PROVE DepsFromLines(<< r >>) = << DepFromLine(r) >>
    <2> DEFINE s == << r >>
    <2>1. s \in Seq({r}) /\ Len(s) = 1 /\ \A i \in 1 .. Len(s) : s[i] = r
        BY <1>3
    <2> HIDE DEF s
    <2>2. DepsFromLines(s) = [i \in 1 .. Len(s) |-> DepFromLine(s[i])]
        BY <1>4, <2>1, MarginAll
    <2>3. DepsFromLines(s) = [i \in 1 .. 1 |-> DepFromLine(r)]
        BY <2>1, <2>2
    <2>4. QED
        BY <1>3, <2>3 DEF s
<1>5. ASSUME NEW r, ~ r.margin PROVE SetupCfg(<< r >>) = << >>
    <2> DEFINE s == << r >>
    <2>1. s \in Seq({r}) /\ Len(s) = 1 /\ DOMAIN s = 1 .. 1 /\ s = [i \in 1 .. 1 |-> r] /\ s[1] = r
        BY <1>3
    <2> HIDE DEF s
    <2>2. {k \in DOMAIN s : \A m \in 1 .. k : ~ s[m].margin} = 1 .. 1
        BY <1>5, <2>1
    <2>3. InstallRequires(s) = s
        BY <2>1, <2>2 DEF InstallRequires
    <2>4. \A i \in 1 .. Len(s) : ~ s[i].margin
        BY <1>5, <2>1
    <2>5. QED
        BY <2>1, <2>3, <2>4, MarginNone DEF SetupCfg, s
<1>6. ListRead(<< Requirement(e, FALSE, FALSE) >>) = << Requirement(e, TRUE, FALSE) >>
    <2> DEFINE r == Requirement(e, FALSE, FALSE)
               s == << r >>
               I == {k \in DOMAIN s : \A m \in 1 .. k : ~ s[m].extras}
               asRead == Requirement(e, TRUE, FALSE)
    <2>1. DOMAIN s = 1 .. 1 /\ s[1] = r
        BY <1>3
    <2>2. ~ r.extras
        BY <1>1
    <2>3. Requirement(r, TRUE, FALSE) = asRead
        <3>1. r.name = e.name /\ r.bounds = e.bounds
            BY <1>1
        <3> HIDE DEF r
        <3>2. QED
            BY <3>1 DEF Requirement
    <2>4. ListRead(s) = [i \in I |-> Requirement(s[i], TRUE, FALSE)]
        BY DEF ListRead
    <2> HIDE DEF r, s
    <2>5. I = 1 .. 1
        BY <2>1, <2>2
    <2> HIDE DEF I, asRead
    <2>6. ListRead(s) = [i \in 1 .. 1 |-> asRead]
        <3>1. \A i \in 1 .. 1 : Requirement(s[i], TRUE, FALSE) = asRead
            <4>1. \A i \in 1 .. 1 : i = 1
                OBVIOUS
            <4>2. QED
                BY <2>1, <2>3, <4>1
        <3>2. QED
            BY <2>4, <2>5, <3>1
    <2>7. QED
        BY <1>3, <2>6 DEF s, r, asRead
<1>7. Requirement(e, TRUE, extras).margin /\ Requirement(e, TRUE, FALSE).margin
      /\ ~ Requirement(e, FALSE, FALSE).margin
    BY <1>1
<1>8. RequirementsTxt(<< Requirement(e, TRUE, extras) >>) = << PinnedRow(e, "pypi") >>
    BY <1>2, <1>4, <1>7 DEF RequirementsTxt
<1>9. PyprojectToml(<< Requirement(e, FALSE, FALSE) >>) = << PinnedRow(e, "pypi") >>
    BY <1>2, <1>4, <1>6, <1>7 DEF PyprojectToml
<1>10. SetupCfg(<< Requirement(e, FALSE, FALSE) >>) = << >>
    BY <1>5, <1>7
<1>11. QED
    BY <1>8, <1>9, <1>10

LEMMA NoLinesOfPython ==
    RequirementsTxt(<< >>) = << >> /\ PyprojectToml(<< >>) = << >> /\ SetupCfg(<< >>) = << >>
<1>1. DepsFromLines(<< >>) = << >>
    <2> DEFINE s == << >>
    <2>1. s \in Seq({}) /\ Len(s) = 0 /\ \A i \in 1 .. Len(s) : ~ s[i].margin
        OBVIOUS
    <2> HIDE DEF s
    <2>2. DepsFromLines(s) = << >>
        BY <2>1, MarginNone
    <2>3. QED
        BY <2>2 DEF s
<1>2. ListRead(<< >>) = << >> /\ InstallRequires(<< >>) = << >>
    <2> DEFINE s == << >>
    <2>1. DOMAIN s = {} /\ \A f : [i \in {} |-> f[i]] = << >>
        OBVIOUS
    <2> DEFINE I == {k \in DOMAIN s : \A m \in 1 .. k : ~ s[m].extras}
               K == {k \in DOMAIN s : \A m \in 1 .. k : ~ s[m].margin}
    <2>2. I = {} /\ K = {}
        BY <2>1
    <2> HIDE DEF I, K
    <2>3. [i \in I |-> Requirement(s[i], TRUE, FALSE)] = << >> /\ [i \in K |-> s[i]] = << >>
        BY <2>2
    <2>4. QED
        BY <2>3 DEF ListRead, InstallRequires, I, K
<1>3. QED
    BY <1>1, <1>2 DEF RequirementsTxt, PyprojectToml, SetupCfg

\* The rows of the plain entry of a list, if it has one.
PlainRows(list) ==
    IF Len(list) = 1 /\ list[1].plain THEN << PinnedRow(list[1], "pypi") >> ELSE << >>

LEMMA PypiPins ==
    ASSUME NEW first \in Seq(Pins), NEW rest \in Seq(Pins), Len(first) \in 0 .. 1, Len(rest) \in 0 .. 1
    PROVE  RequirementsTxt(Requirements(first, TRUE, TRUE, TRUE))
               \o SetupCfg(Requirements(first, FALSE, FALSE, FALSE))
               \o PyprojectToml(Requirements(rest, TRUE, FALSE, FALSE))
               \o SetupCfg(Requirements(rest, FALSE, FALSE, FALSE))
               = PlainRows(first) \o PlainRows(rest)
<1>1. ASSUME NEW list \in Seq(Pins), Len(list) \in 0 .. 1
      PROVE  /\ RequirementsTxt(Requirements(list, TRUE, TRUE, TRUE)) = PlainRows(list)
             /\ PyprojectToml(Requirements(list, TRUE, FALSE, FALSE)) = PlainRows(list)
             /\ SetupCfg(Requirements(list, FALSE, FALSE, FALSE)) = << >>
    <2>1. Len(list) = 1 => list[1] \in Pins /\ list[1].plain \in BOOLEAN
        <3>1. Len(list) = 1 => list[1] \in Pins
            OBVIOUS
        <3>2. QED
            BY <3>1, PinIs
    <2>2. /\ Len(list) = 1 => /\ RequirementsTxt(<< Requirement(list[1], TRUE, TRUE) >>) = << PinnedRow(list[1], "pypi") >>
                              /\ PyprojectToml(<< Requirement(list[1], FALSE, FALSE) >>) = << PinnedRow(list[1], "pypi") >>
                              /\ SetupCfg(<< Requirement(list[1], FALSE, FALSE) >>) = << >>
        BY <2>1, LinesOfPython
    <2>3. /\ Requirements(list, TRUE, TRUE, TRUE) =
                 IF Len(list) = 1 /\ list[1].plain = TRUE THEN << Requirement(list[1], TRUE, TRUE) >> ELSE << >>
          /\ Requirements(list, TRUE, FALSE, FALSE) =
                 IF Len(list) = 1 /\ list[1].plain = TRUE THEN << Requirement(list[1], FALSE, FALSE) >> ELSE << >>
          /\ Requirements(list, FALSE, FALSE, FALSE) =
                 IF Len(list) = 1 /\ list[1].plain = FALSE THEN << Requirement(list[1], FALSE, FALSE) >> ELSE << >>
        BY <1>1, RequirementsAre
    <2>4. CASE Len(list) = 1 /\ list[1].plain
        BY <2>1, <2>2, <2>3, <2>4, NoLinesOfPython DEF PlainRows
    <2>5. CASE ~ (Len(list) = 1 /\ list[1].plain)
        BY <2>1, <2>2, <2>3, <2>5, NoLinesOfPython DEF PlainRows
    <2>6. QED
        BY <2>4, <2>5
<1>2. \A S : \A s, t \in Seq(S) : s \o << >> \o t \o << >> = s \o t
    OBVIOUS
<1>3. ASSUME NEW list PROVE PlainRows(list) \in Seq({PinnedRow(list[1], "pypi")})
    <2>1. \A r : << r >> \in Seq({r}) /\ << >> \in Seq({r})
        OBVIOUS
    <2>2. QED
        BY <2>1 DEF PlainRows
<1>4. \A r, q : \A s \in Seq({r}), t \in Seq({q}) : s \in Seq({r, q}) /\ t \in Seq({r, q})
    OBVIOUS
<1>5. PlainRows(first) \o << >> \o PlainRows(rest) \o << >> = PlainRows(first) \o PlainRows(rest)
    BY <1>2, <1>3, <1>4
<1>6. QED
    BY <1>1, <1>5

LEMMA NugetPins ==
    ASSUME NEW d \in Lists(Pins, 2)
    PROVE  Nuget([i \in DOMAIN d |->
                     IF i = 1 THEN NugetEntry(d[i].name, ~ d[i].plain, d[i].bounds, << >>)
                     ELSE NugetEntry(d[i].name, ~ d[i].plain, << >>, d[i].bounds)]) = Rows(d, "nuget")
<1> DEFINE n == Len(d)
           entry(i) == IF i = 1 THEN NugetEntry(d[i].name, ~ d[i].plain, d[i].bounds, << >>)
                       ELSE NugetEntry(d[i].name, ~ d[i].plain, << >>, d[i].bounds)
           entries == [i \in DOMAIN d |-> entry(i)]
           bounds(e) == IF e.attribute = << >> THEN e.child ELSE e.attribute
<1>1. n \in Nat /\ DOMAIN d = 1 .. n
    BY PinsOf
<1>2. Nuget(entries) = [i \in 1 .. n |->
                           Found(entry(i), NugetVersion(bounds(entry(i)), entry(i).interval), "nuget")]
    <2>1. DOMAIN entries = 1 .. n /\ \A i \in 1 .. n : entries[i] = entry(i)
        BY <1>1
    <2> HIDE DEF entries, entry
    <2>2. QED
        BY <2>1 DEF Nuget
<1>3. ASSUME NEW i \in 1 .. n
      PROVE  Found(entry(i), NugetVersion(bounds(entry(i)), entry(i).interval), "nuget") = RowOf(d[i], "nuget")
    <2>1. d[i] \in Pins /\ d[i].bounds = << d[i].bounds[1] >> /\ d[i].bounds # << >>
        BY PinsOf, PinIs
    <2>2. /\ entry(i).name = d[i].name /\ bounds(entry(i)) = d[i].bounds
          /\ entry(i).interval = ~ d[i].plain
        <3>1. \A m, b, c : LET one == NugetEntry(m, c, b, << >>)
                               two == NugetEntry(m, c, << >>, b)
                           IN /\ one.name = m /\ two.name = m /\ one.interval = c /\ two.interval = c
                              /\ b # << >> => bounds(one) = b
                              /\ bounds(two) = b
            BY DEF NugetEntry
        <3> HIDE DEF bounds
        <3>2. QED
            BY <2>1, <3>1
    <2> HIDE DEF entry, bounds
    <2>3. CASE d[i].plain
        <3>1. NugetVersion(d[i].bounds, entry(i).interval) = d[i].bounds[1]
            BY <2>1, <2>2, <2>3 DEF NugetVersion, FirstBound
        <3>2. QED
            BY <2>2, <2>3, <3>1 DEF Found, RowOf, Unread, PinnedRow
    <2>4. CASE ~ d[i].plain
        <3>1. NugetVersion(d[i].bounds, entry(i).interval) = JunkText
            BY <2>2, <2>4 DEF NugetVersion, JunkText
        <3>2. QED
            BY <2>2, <2>4, <3>1 DEF Found, RowOf, Unread, JunkRow
    <2>5. QED
        BY <2>3, <2>4
<1>4. QED
    BY <1>2, <1>3 DEF Rows

\* The entries whose rows are left: that are found and not hidden.
Left(ecosystem, d) ==
    {i \in 1 .. Len(d) :
        /\ Hides(ecosystem, d[i])
        /\ \A k \in i + 1 .. Len(d) :
              Normalize(d[k].name, ecosystem) = Normalize(d[i].name, ecosystem) => ~ Hides(ecosystem, d[k])}

LEMMA AllRowsStored ==
    ASSUME NEW d \in Lists(Pins, 2), NEW ecosystem, ecosystem # "pypi"
    PROVE  Stored(Rows(d, ecosystem)) = {RowOf(d[i], ecosystem) : i \in Left(ecosystem, d)}
<1> DEFINE n == Len(d)
           rows == Rows(d, ecosystem)
<1>1. n \in Nat /\ Len(rows) = n /\ DOMAIN rows = 1 .. n /\ \A i \in 1 .. n : rows[i] = RowOf(d[i], ecosystem)
    BY PinsOf DEF Rows
<1>2. \A i : RowOf(d[i], ecosystem).package = Normalize(d[i].name, ecosystem)
    BY DEF RowOf, PinnedRow, JunkRow
<1>3. \A i : Hides(ecosystem, d[i])
    BY DEF Hides
<1>4. \A i \in 1 .. n : \A k \in i + 1 .. n : k \in 1 .. n
    BY <1>1
<1> HIDE DEF rows
<1>5. {k \in DOMAIN rows : \A m \in k + 1 .. Len(rows) : rows[m].package # rows[k].package} = Left(ecosystem, d)
    <2>1. \A k \in 1 .. n : k \in Left(ecosystem, d) <=>
              \A m \in k + 1 .. n : rows[m].package # rows[k].package
        <3>1. SUFFICES ASSUME NEW k \in 1 .. n
                       PROVE  k \in Left(ecosystem, d) <=>
                                  \A m \in k + 1 .. n : rows[m].package # rows[k].package
            OBVIOUS
        <3>2. \A m \in k + 1 .. n : rows[m].package = Normalize(d[m].name, ecosystem)
            BY <1>1, <1>2, <1>4
        <3>3. rows[k].package = Normalize(d[k].name, ecosystem)
            BY <1>1, <1>2
        <3>4. QED
            BY <1>3, <3>2, <3>3 DEF Left
    <2>2. Left(ecosystem, d) \subseteq 1 .. n
        BY DEF Left
    <2> HIDE DEF n
    <2>3. QED
        BY <1>1, <2>1, <2>2
<1>6. \A i \in Left(ecosystem, d) : rows[i] = RowOf(d[i], ecosystem)
    BY <1>1 DEF Left
<1>7. QED
    BY <1>5, <1>6 DEF Stored, rows

\* What is stored of two rows or fewer.
LEMMA FewStored ==
    ASSUME NEW r, NEW q
    PROVE  /\ Stored(<< >>) = {}
           /\ Stored(<< r >>) = {r}
           /\ Stored(<< r, q >>) = {q} \cup (IF q.package = r.package THEN {} ELSE {r})
<1> DEFINE last(s) == {k \in DOMAIN s : \A m \in k + 1 .. Len(s) : s[m].package # s[k].package}
<1>1. \A s : Stored(s) = {s[i] : i \in last(s)}
    BY DEF Stored
<1>2. last(<< >>) = {}
    OBVIOUS
<1>3. last(<< r >>) = {1} /\ << r >>[1] = r
    OBVIOUS
<1>4. /\ << r, q >>[1] = r /\ << r, q >>[2] = q
      /\ last(<< r, q >>) = IF q.package = r.package THEN {2} ELSE {1, 2}
    <2> DEFINE s == << r, q >>
    <2>1. s[1] = r /\ s[2] = q /\ DOMAIN s = {1, 2} /\ Len(s) = 2
        OBVIOUS
    <2>2. 1 + 1 .. 2 = {2} /\ 2 + 1 .. 2 = {}
        OBVIOUS
    <2> HIDE DEF s
    <2>3. 1 \in last(s) <=> q.package # r.package
        BY <2>1, <2>2
    <2>4. 2 \in last(s)
        BY <2>1, <2>2
    <2>5. last(s) \subseteq {1, 2}
        BY <2>1
    <2> HIDE DEF last
    <2>6. last(s) = IF q.package = r.package THEN {2} ELSE {1, 2}
        BY <2>3, <2>4, <2>5
    <2>7. QED
        BY <2>1, <2>6 DEF s
<1> HIDE DEF last
<1>5. QED
    BY <1>1, <1>2, <1>3, <1>4

LEMMA PlainRowsStored ==
    ASSUME NEW d, NEW first, NEW rest,
           Len(first) \in 0 .. 1 /\ Len(rest) \in 0 .. 1 /\ Len(d) = Len(first) + Len(rest),
           Len(first) = 1 => first[1] = d[1],
           Len(rest) = 1 => Len(first) = 1 /\ rest[1] = d[2]
    PROVE  Stored(PlainRows(first) \o PlainRows(rest)) = {RowOf(d[i], "pypi") : i \in Left("pypi", d)}
<1> DEFINE row(i) == RowOf(d[i], "pypi")
<1>1. Len(d) \in 0 .. 2
    <2>1. \A k \in 0 .. 1, m \in 0 .. 1 : k + m \in 0 .. 2
        OBVIOUS
    <2>2. QED
        BY <2>1
<1>2. \A i \in 1 .. Len(d) : /\ Hides("pypi", d[i]) <=> d[i].plain
                             /\ d[i].plain => row(i) = PinnedRow(d[i], "pypi")
                             /\ row(i).package = Normalize(d[i].name, "pypi")
    BY DEF Hides, RowOf, Unread, PinnedRow, JunkRow
<1>3. Left("pypi", d) \subseteq 1 .. Len(d)
    BY DEF Left
<1>4. \A r, q : /\ << r >> \o << q >> = << r, q >> /\ << >> \o << q >> = << q >>
                /\ << r >> \o << >> = << r >> /\ << >> \o << >> = << >>
    <2>1. ASSUME NEW r, NEW q PROVE << r >> \o << q >> = << r, q >>
        <3>1. << r >> \in Seq({r, q}) /\ << r, q >> = Append(<< r >>, q)
            OBVIOUS
        <3>2. \A S : \A s \in Seq(S) : \A x \in S : s \o << x >> = Append(s, x)
            OBVIOUS
        <3>3. QED
            BY <3>1, <3>2
    <2>2. \A S : \A t \in Seq(S) : t \o << >> = t /\ << >> \o t = t
        OBVIOUS
    <2>3. \A r : << r >> \in Seq({r}) /\ << >> \in Seq({r})
        OBVIOUS
    <2>4. QED
        BY <2>1, <2>2, <2>3
<1> HIDE DEF row
<1>5. CASE Len(d) = 0
    <2>1. PlainRows(first) \o PlainRows(rest) = << >>
        <3>1. Len(first) # 1 /\ Len(rest) # 1
            BY <1>5
        <3>2. QED
            BY <1>4, <3>1 DEF PlainRows
    <2>2. Left("pypi", d) = {}
        BY <1>3, <1>5
    <2>3. QED
        BY <2>1, <2>2, FewStored
<1>6. CASE Len(d) = 1
    <2>1. Len(first) = 1 /\ Len(rest) = 0
        BY <1>6
    <2>0. first[1] = d[1]
        BY <2>1
    <2>2. 1 \in Left("pypi", d) <=> d[1].plain
        <3>1. 1 \in 1 .. Len(d) /\ 1 + 1 .. Len(d) = {}
            BY <1>6
        <3>2. QED
            BY <1>2, <3>1 DEF Left
    <2>3. Left("pypi", d) \subseteq {1}
        <3>1. 1 .. 1 = {1}
            OBVIOUS
        <3>2. QED
            BY <1>3, <1>6, <3>1
    <2>4. Len(rest) # 1 /\ (d[1].plain => row(1) = PinnedRow(d[1], "pypi"))
        BY <1>2, <1>6, <2>1
    <2> DEFINE all == {row(i) : i \in Left("pypi", d)}
    <2>5. CASE d[1].plain
        <3>1. PlainRows(first) \o PlainRows(rest) = << row(1) >>
            BY <1>4, <2>1, <2>0, <2>4, <2>5 DEF PlainRows
        <3>2. Left("pypi", d) = {1}
            BY <2>2, <2>3, <2>5
        <3>3. all = {row(1)}
            BY <3>2
        <3>4. Stored(<< row(1) >>) = {row(1)}
            BY FewStored
        <3>5. QED
            BY <3>1, <3>3, <3>4 DEF row
    <2>6. CASE ~ d[1].plain
        <3>1. PlainRows(first) \o PlainRows(rest) = << >>
            BY <1>4, <2>1, <2>0, <2>4, <2>6 DEF PlainRows
        <3>2. Left("pypi", d) = {}
            BY <2>2, <2>3, <2>6
        <3>3. QED
            BY <3>1, <3>2, FewStored
    <2>7. QED
        BY <2>5, <2>6
<1>7. CASE Len(d) = 2
    <2>1. Len(first) = 1 /\ Len(rest) = 1
        BY <1>7
    <2>0. first[1] = d[1] /\ rest[1] = d[2]
        BY <2>1
    <2> DEFINE same == row(2).package = row(1).package
    <2>2. /\ 2 \in Left("pypi", d) <=> d[2].plain
          /\ 1 \in Left("pypi", d) <=> d[1].plain /\ (same => ~ d[2].plain)
        <3>1. /\ 1 \in 1 .. Len(d) /\ 2 \in 1 .. Len(d)
              /\ 1 + 1 .. Len(d) = {2} /\ 2 + 1 .. Len(d) = {}
            <4>1. 1 \in 1 .. 2 /\ 2 \in 1 .. 2 /\ 1 + 1 .. 2 = {2} /\ 2 + 1 .. 2 = {}
                OBVIOUS
            <4>2. QED
                BY <1>7, <4>1
        <3>2. same <=> Normalize(d[2].name, "pypi") = Normalize(d[1].name, "pypi")
            BY <1>2, <3>1
        <3> HIDE DEF same
        <3>3. QED
            BY <1>2, <3>1, <3>2 DEF Left
    <2>3. Left("pypi", d) \subseteq {1, 2}
        <3>1. 1 .. Len(d) = {1, 2}
            BY <1>7
        <3>2. QED
            BY <1>3, <3>1
    <2>4. /\ d[1].plain => row(1) = PinnedRow(d[1], "pypi")
          /\ d[2].plain => row(2) = PinnedRow(d[2], "pypi")
        BY <1>2, <1>7
    <2>5. PlainRows(first) = IF d[1].plain THEN << row(1) >> ELSE << >>
        BY <2>1, <2>0, <2>4 DEF PlainRows
    <2>6. PlainRows(rest) = IF d[2].plain THEN << row(2) >> ELSE << >>
        BY <2>1, <2>0, <2>4 DEF PlainRows
    <2> DEFINE all == {row(i) : i \in Left("pypi", d)}
    <2>7. CASE d[1].plain /\ d[2].plain
        <3>1. PlainRows(first) \o PlainRows(rest) = << row(1), row(2) >>
            BY <1>4, <2>5, <2>6, <2>7
        <3>2. Left("pypi", d) = IF same THEN {2} ELSE {1, 2}
            BY <2>2, <2>3, <2>7
        <3>3. all = {row(2)} \cup (IF same THEN {} ELSE {row(1)})
            BY <3>2
        <3>4. Stored(<< row(1), row(2) >>) = {row(2)} \cup (IF same THEN {} ELSE {row(1)})
            BY FewStored
        <3>5. QED
            BY <3>1, <3>3, <3>4 DEF row
    <2>8. CASE d[1].plain /\ ~ d[2].plain
        <3>1. PlainRows(first) \o PlainRows(rest) = << row(1) >>
            BY <1>4, <2>5, <2>6, <2>8
        <3>2. Left("pypi", d) = {1}
            BY <2>2, <2>3, <2>8
        <3>3. all = {row(1)}
            BY <3>2
        <3>4. Stored(<< row(1) >>) = {row(1)}
            BY FewStored
        <3>5. QED
            BY <3>1, <3>3, <3>4 DEF row
    <2>9. CASE ~ d[1].plain /\ d[2].plain
        <3>1. PlainRows(first) \o PlainRows(rest) = << row(2) >>
            BY <1>4, <2>5, <2>6, <2>9
        <3>2. Left("pypi", d) = {2}
            BY <2>2, <2>3, <2>9
        <3>3. all = {row(2)}
            BY <3>2
        <3>4. Stored(<< row(2) >>) = {row(2)}
            BY FewStored
        <3>5. QED
            BY <3>1, <3>3, <3>4 DEF row
    <2>10. CASE ~ d[1].plain /\ ~ d[2].plain
        <3>1. PlainRows(first) \o PlainRows(rest) = << >>
            BY <1>4, <2>5, <2>6, <2>10
        <3>2. Left("pypi", d) = {}
            BY <2>2, <2>3, <2>10
        <3>3. all = {}
            BY <3>2
        <3>4. QED
            BY <3>1, <3>3, FewStored DEF row
    <2>11. QED
        BY <2>7, <2>8, <2>9, <2>10
<1>8. QED
    BY <1>1, <1>5, <1>6, <1>7

LEMMA StoredPinsAre ==
    ASSUME NEW d \in Lists(Pins, 2), NEW ecosystem \in {"npm", "cargo", "pypi", "nuget"}
    PROVE  StoredPins(ecosystem, d) = {RowOf(d[i], ecosystem) : i \in Left(ecosystem, d)}
<1> DEFINE rest == SubSeq(d, 2, Len(d))
           first == [i \in 1 .. Len(d) - Len(rest) |-> d[i]]
<1>1. /\ first \o rest = d /\ first \in Seq(Pins) /\ rest \in Seq(Pins)
      /\ Len(first) \in 0 .. 1 /\ Len(rest) \in 0 .. 1
    BY FirstAndRest, FirstAndRestAre
<1>2. CASE ecosystem = "npm"
    <2>1. StoredPins(ecosystem, d) = Stored(Npm(<< first, << >>, rest, << >> >>))
        BY <1>2 DEF StoredPins
    <2>2. QED
        BY <1>1, <1>2, <2>1, NpmPins, AllRowsStored
<1>3. CASE ecosystem = "cargo"
    <2>1. StoredPins(ecosystem, d) = Stored(Cargo(<< Header(TRUE, FALSE) >>
                                       \o [i \in DOMAIN d |-> TomlEntry(d[i].name, d[i].bounds)]))
        BY <1>3 DEF StoredPins
    <2>2. StoredPins(ecosystem, d) = Stored(Rows(d, "cargo"))
        BY <2>1, CargoPins
    <2>3. Stored(Rows(d, "cargo")) = {RowOf(d[i], "cargo") : i \in Left("cargo", d)}
        BY AllRowsStored
    <2>4. QED
        BY <1>3, <2>2, <2>3
<1>4. CASE ecosystem = "pypi"
    <2>1. StoredPins(ecosystem, d) =
              Stored(RequirementsTxt(Requirements(first, TRUE, TRUE, TRUE))
                         \o SetupCfg(Requirements(first, FALSE, FALSE, FALSE))
                         \o PyprojectToml(Requirements(rest, TRUE, FALSE, FALSE))
                         \o SetupCfg(Requirements(rest, FALSE, FALSE, FALSE)))
        BY <1>4 DEF StoredPins
    <2>2. Stored(PlainRows(first) \o PlainRows(rest)) = {RowOf(d[i], "pypi") : i \in Left("pypi", d)}
        <3>1. /\ Len(first) \in 0 .. 1 /\ Len(rest) \in 0 .. 1 /\ Len(d) = Len(first) + Len(rest)
              /\ Len(first) = 1 => first[1] = d[1]
              /\ Len(rest) = 1 => Len(first) = 1 /\ rest[1] = d[2]
            BY FirstAndRestAre
        <3> HIDE DEF first, rest
        <3>2. QED
            BY <3>1, PlainRowsStored
    <2> HIDE DEF first, rest
    <2>3. QED
        BY <1>1, <1>4, <2>1, <2>2, PypiPins
<1>5. CASE ecosystem = "nuget"
    <2>1. StoredPins(ecosystem, d) = Stored(Nuget([i \in DOMAIN d |->
                           IF i = 1 THEN NugetEntry(d[i].name, ~ d[i].plain, d[i].bounds, << >>)
                           ELSE NugetEntry(d[i].name, ~ d[i].plain, << >>, d[i].bounds)]))
        BY <1>5 DEF StoredPins
    <2>2. QED
        BY <1>5, <2>1, NugetPins, AllRowsStored
<1>6. QED
    BY <1>2, <1>3, <1>4, <1>5

\* Two names that are stored alike are those of one package.
LEMMA NamesStoredAlike ==
    ASSUME NEW m \in Name, NEW k \in Name, NEW ecosystem \in {"npm", "cargo", "pypi", "nuget"}
    PROVE  Normalize(m, ecosystem) = Normalize(k, ecosystem) <=> SamePackage(ecosystem, m, k)
<1>1. \A x \in Name : /\ x = [letters |-> x.letters, upper |-> x.upper, dash |-> x.dash]
                      /\ x.upper \in BOOLEAN /\ x.dash \in BOOLEAN
    BY DEF Name
<1>2. QED
    BY <1>1 DEF Normalize, Lower, SamePackage

\* The join of one name, as it is stored, with a row of the CVE tables.
LEMMA PinJoins ==
    ASSUME NEW m \in Name, NEW p \in Products, p.ecosystem \in {"npm", "cargo", "pypi", "nuget"}
    PROVE  Joins([ecosystem |-> p.ecosystem, package |-> Normalize(m, p.ecosystem)], p, {}) <=>
               /\ m.letters = p.package.letters
               /\ IF p.ecosystem = "pypi" THEN ~ p.package.dash ELSE m.dash = p.package.dash
<1> DEFINE x == p.package
           y == Normalize(m, p.ecosystem)
           z == Normalize(y, p.ecosystem)
<1>1. x \in Name
    BY DEF Products
<1>2. ASSUME NEW w \in Name, NEW ecosystem \in {"npm", "cargo", "pypi", "nuget"}
      PROVE  /\ Normalize(w, ecosystem) \in Name
             /\ Normalize(w, ecosystem).letters = w.letters
             /\ ecosystem # "pypi" => Normalize(w, ecosystem).dash = w.dash
             /\ ecosystem = "pypi" => Normalize(w, ecosystem).dash = FALSE
    BY DEF Normalize, Lower, Name
<1>3. /\ y \in Name /\ y.letters = m.letters
      /\ p.ecosystem # "pypi" => y.dash = m.dash
    BY <1>2
<1> HIDE DEF y
<1>4. /\ z \in Name /\ z.letters = m.letters
      /\ p.ecosystem # "pypi" => z.dash = m.dash
      /\ p.ecosystem = "pypi" => z.dash = FALSE
    BY <1>2, <1>3
<1>5. Lower(x) = Lower(z) <=> x.letters = z.letters /\ x.dash = z.dash
    <2>1. Normalize(x, "nuget") = Lower(x) /\ Normalize(z, "nuget") = Lower(z)
        BY DEF Normalize
    <2> HIDE DEF x, z
    <2>2. Normalize(x, "nuget") = Normalize(z, "nuget") <=> SamePackage("nuget", x, z)
        BY <1>1, <1>4, NamesStoredAlike
    <2>3. "nuget" \notin {"npm", "cargo"} /\ "nuget" # "pypi"
        OBVIOUS
    <2>4. QED
        BY <2>1, <2>2, <2>3 DEF SamePackage
<1>6. Joins([ecosystem |-> p.ecosystem, package |-> y], p, {}) <=> Lower(x) = Lower(z)
    BY DEF Joins, NamesAgree
<1>7. x.dash \in BOOLEAN
    BY <1>1 DEF Name
<1>8. Lower(x) = Lower(z) <=> /\ m.letters = x.letters
                              /\ IF p.ecosystem = "pypi" THEN ~ x.dash ELSE m.dash = x.dash
    <2> HIDE DEF x, z
    <2>1. QED
        BY <1>4, <1>5, <1>7
<1>9. QED
    BY <1>6, <1>8 DEF y

\* A version pinned to one of the texts of Pins, and the CVE of one version.
LEMMA PinAffected ==
    ASSUME NEW v \in {OneZero, OneOne, JustOne}, NEW w \in {OneZero, OneOne}
    PROVE  Affects(v, [AnyVersion EXCEPT !.exact = w]) <=> SameNumber(v, w)
<1> DEFINE second(x) == IF x = OneOne THEN 1 ELSE 0
<1>1. Junk # 0 /\ Junk # 1 /\ Numeric(0) /\ Numeric(1) /\ 0 % Word = 0 /\ 1 % Word = 1
    BY WidthAssumption, PinsAssumption DEF Numeric
<1>2. ASSUME NEW x \in {OneZero, OneOne, JustOne}
      PROVE  /\ x.pre = 0 /\ x.parts # << >> /\ x # NoText
             /\ x.parts[1] = 1 /\ Len(x.parts) \in {1, 2} /\ DOMAIN x.parts = 1 .. Len(x.parts)
             /\ x.parts \in Seq({0, 1})
             /\ Len(x.parts) = 2 => x.parts[2] = second(x)
             /\ Len(x.parts) = 1 => second(x) = 0
    <2>1. /\ << 1, 0 >> \in Seq({0, 1}) /\ << 1, 1 >> \in Seq({0, 1}) /\ << 1 >> \in Seq({0, 1})
          /\ Len(<< 1, 0 >>) = 2 /\ Len(<< 1, 1 >>) = 2 /\ Len(<< 1 >>) = 1
          /\ << 1, 0 >>[1] = 1 /\ << 1, 1 >>[1] = 1 /\ << 1 >>[1] = 1
          /\ << 1, 0 >>[2] = 0 /\ << 1, 1 >>[2] = 1
        OBVIOUS
    <2>2. OneZero # OneOne /\ JustOne # OneOne
        BY <2>1 DEF OneZero, OneOne, JustOne
    <2>3. \A s \in Seq({0, 1}) : DOMAIN s = 1 .. Len(s) /\ (Len(s) # 0 => s # << >>)
        OBVIOUS
    <2>4. CASE x = OneZero
        BY <2>1, <2>2, <2>3, <2>4 DEF OneZero, NoText
    <2>5. CASE x = OneOne
        BY <2>1, <2>2, <2>3, <2>5 DEF OneOne, NoText
    <2>6. CASE x = JustOne
        BY <2>1, <2>2, <2>3, <2>6 DEF JustOne, NoText
    <2>7. QED
        BY <2>4, <2>5, <2>6
<1> HIDE DEF second
<1>3. ASSUME NEW x \in {OneZero, OneOne, JustOne}
      PROVE  /\ ParseVersion(x).pre = 0 /\ ~ Empty(ParseVersion(x))
             /\ Part(ParseVersion(x), 1) = 1 /\ Part(ParseVersion(x), 2) = second(x)
             /\ Len(ParseVersion(x).parts) \in {1, 2}
             /\ Len(ParseVersion(x).parts) = 1 => second(x) = 0
             /\ Digit(x, 1) = 1 /\ Digit(x, 2) = second(x)
    <2> DEFINE n == Len(x.parts)
    <2>1. \A i \in 1 .. n : x.parts[i] \in {0, 1} /\ Numeric(x.parts[i]) /\ x.parts[i] % Word = x.parts[i]
        BY <1>1, <1>2 DEF second
    <2>2. Parsed(x) = 1 .. n
        <3>1. \A i \in 1 .. n : \A k \in 1 .. i : k \in 1 .. n
            BY <1>2
        <3>2. QED
            BY <2>1, <3>1 DEF Parsed
    <2>3. ParseVersion(x) = [parts |-> [i \in 1 .. n |-> x.parts[i]], pre |-> 0]
        BY <1>2, <2>1, <2>2 DEF ParseVersion
    <2>4. ParseVersion(x).parts = x.parts /\ ParseVersion(x).pre = 0
        <3>1. x.parts \in Seq({0, 1})
            BY <1>2
        <3>2. x.parts = [i \in 1 .. n |-> x.parts[i]]
            BY <3>1
        <3>3. QED
            BY <2>3, <3>2
    <2>5. QED
        BY <1>2, <2>4 DEF Part, Digit, Empty
<1>4. ASSUME NEW x \in {OneZero, OneOne, JustOne}, NEW y \in {OneZero, OneOne, JustOne}
      PROVE  Less(ParseVersion(x), ParseVersion(y)) <=> second(x) < second(y)
    <2> DEFINE a == ParseVersion(x)
               b == ParseVersion(y)
    <2> DEFINE n == IF Len(a.parts) < Len(b.parts) THEN Len(b.parts) ELSE Len(a.parts)
    <2>1. /\ Part(a, 1) = 1 /\ Part(b, 1) = 1 /\ Part(a, 2) = second(x) /\ Part(b, 2) = second(y)
          /\ Len(a.parts) \in {1, 2} /\ Len(b.parts) \in {1, 2}
          /\ Len(a.parts) = 1 => second(x) = 0
          /\ Len(b.parts) = 1 => second(y) = 0
        BY <1>3
    <2>2. Places(a, b) = 1 .. n
        BY DEF Places
    <2> HIDE DEF a, b
    <2>3. n \in {1, 2} /\ (n = 1 => second(x) = 0 /\ second(y) = 0)
        BY <2>1
    <2>4. Less(a, b) <=> \E i \in 1 .. n : Part(a, i) < Part(b, i) /\ \A k \in 1 .. i - 1 : Part(a, k) = Part(b, k)
        BY <2>2 DEF Less
    <2> HIDE DEF n
    <2>5. CASE n = 1
        <3>1. \A i \in 1 .. n : i = 1
            BY <2>5
        <3>2. QED
            BY <2>1, <2>3, <2>4, <2>5, <3>1 DEF a, b
    <2>6. CASE n = 2
        <3>1. \A i \in 1 .. n : i = 1 \/ i = 2
            BY <2>6
        <3>2. 2 \in 1 .. n /\ \A k \in 1 .. 2 - 1 : k = 1
            BY <2>6
        <3>3. QED
            BY <2>1, <2>4, <3>1, <3>2 DEF a, b
    <2>7. QED
        BY <2>3, <2>5, <2>6
<1> DEFINE r == [AnyVersion EXCEPT !.exact = w]
<1>5. r.exact = w /\ w # NoText /\ v # NoText /\ AnyVersion.exact = NoText
    BY <1>2 DEF AnyVersion
<1>6. Affects(v, r) <=> CompareTexts(v, w) = 0
    <2> HIDE DEF r
    <2>1. QED
        BY <1>3, <1>5 DEF Affects, VersionInRange
<1>7. CompareTexts(v, w) = 0 <=> second(v) = second(w)
    <2>1. /\ ParseVersion(v).pre = 0 /\ ParseVersion(w).pre = 0
          /\ Less(ParseVersion(v), ParseVersion(w)) <=> second(v) < second(w)
          /\ Less(ParseVersion(w), ParseVersion(v)) <=> second(w) < second(v)
        BY <1>3, <1>4
    <2>2. second(v) \in {0, 1} /\ second(w) \in {0, 1}
        BY DEF second
    <2>3. QED
        BY <2>1, <2>2 DEF CompareTexts, Compare, PreLess
<1>8. SameNumber(v, w) <=> second(v) = second(w)
    <2>1. \A i \in 1 .. 2 : i = 1 \/ i = 2
        OBVIOUS
    <2>2. QED
        BY <1>3, <2>1 DEF SameNumber
<1>9. QED
    BY <1>6, <1>7, <1>8

\* A text that begins with junk is in no range of one version.
LEMMA JunkUnaffected ==
    ASSUME NEW w, w # NoText
    PROVE  ~ Affects(JunkText, [AnyVersion EXCEPT !.exact = w])
<1> DEFINE r == [AnyVersion EXCEPT !.exact = w]
<1>1. r.exact = w /\ AnyVersion.exact = NoText
    BY DEF AnyVersion
<1>2. Parsed(JunkText) = {}
    <2>1. JunkText.parts = << Junk >> /\ << Junk >>[1] = Junk /\ Len(<< Junk >>) = 1
        BY DEF JunkText
    <2>2. ~ Numeric(Junk)
        BY DEF Numeric
    <2>3. \A i \in 1 .. 1 : 1 \in 1 .. i
        OBVIOUS
    <2>4. QED
        BY <2>1, <2>2, <2>3 DEF Parsed
<1>3. Empty(ParseVersion(JunkText))
    <2>1. [i \in {} |-> JunkText.parts[i] % Word] = << >>
        OBVIOUS
    <2>2. ParseVersion(JunkText).parts = << >>
        BY <1>2, <2>1 DEF ParseVersion
    <2>3. QED
        BY <2>2 DEF Empty
<1>4. r # AnyVersion
    BY <1>1
<1> HIDE DEF r
<1>5. QED
    BY <1>3, <1>4 DEF Affects, VersionInRange, r

(***************************************************************************)
(* The CVE of one version affects just the projects whose manifests pin    *)
(* the package to it in a way its analyzer reads, and whose later entries  *)
(* do not say otherwise: for any names.                                    *)
(***************************************************************************)
THEOREM PinsMatch == Spec => []PinsAreMatched
<1>1. ASSUME Inputs PROVE PinsAreMatched
    <2> DEFINE d == input.entries
               p == input.product
               e == p.ecosystem
               n == Len(d)
               range == [AnyVersion EXCEPT !.exact = p.version]
               hit(r) == /\ Joins([ecosystem |-> e, package |-> r.package], p, {})
                         /\ Affects(r.version, range)
               last(i) == \A k \in i + 1 .. Len(d) :
                              SamePackage(e, d[i].name, d[k].name) => ~ Hides(e, d[k])
               spelt(x) == /\ x.letters = p.package.letters
                           /\ IF e = "pypi" THEN ~ p.package.dash ELSE x.dash = p.package.dash
    <2>1. SUFFICES ASSUME input.of = "pins"
                   PROVE  (\E r \in StoredPins(e, d) : hit(r)) <=>
                              \E i \in DOMAIN d : /\ ~ Unread(e, d[i]) /\ last(i)
                                                  /\ spelt(d[i].name) /\ SameNumber(d[i].bounds[1], p.version)
        BY DEF PinsAreMatched
    <2>2. d \in Lists(Pins, 2) /\ p \in Products
        BY <1>1, <2>1 DEF Inputs
    <2> HIDE DEF d, p
    <2>3. e \in {"npm", "cargo", "pypi", "nuget"} /\ p.version \in {OneZero, OneOne}
        BY <2>2, PinsAssumption DEF Products
    <2>4. /\ n \in Nat /\ DOMAIN d = 1 .. n
          /\ \A i \in 1 .. n : d[i].name \in Name /\ d[i].bounds[1] \in {OneZero, OneOne, JustOne}
                                  /\ d[i].plain \in BOOLEAN
        BY <2>2, PinsOf, PinIs
    <2>5. StoredPins(e, d) = {RowOf(d[i], e) : i \in Left(e, d)}
        BY <2>2, <2>3, StoredPinsAre
    <2> HIDE DEF e, n
    <2>6. ASSUME NEW i \in 1 .. n
          PROVE  hit(RowOf(d[i], e)) <=>
                     ~ Unread(e, d[i]) /\ spelt(d[i].name) /\ SameNumber(d[i].bounds[1], p.version)
        <3> DEFINE row == RowOf(d[i], e)
        <3>1. /\ row.package = Normalize(d[i].name, e)
              /\ row.version = IF Unread(e, d[i]) THEN JunkText ELSE d[i].bounds[1]
            BY DEF RowOf, PinnedRow, JunkRow
        <3> HIDE DEF row
        <3>2. Joins([ecosystem |-> e, package |-> row.package], p, {}) <=> spelt(d[i].name)
            BY <2>2, <2>3, <2>4, <3>1, PinJoins DEF e
        <3>3. CASE Unread(e, d[i])
            <4>1. p.version # NoText
                <5>1. OneZero.parts # << >> /\ OneOne.parts # << >> /\ NoText.parts = << >>
                    BY DEF OneZero, OneOne, NoText
                <5>2. QED
                    BY <2>3, <5>1
            <4>2. ~ Affects(row.version, range)
                BY <3>1, <3>3, <4>1, JunkUnaffected
            <4>3. QED
                BY <3>3, <4>2 DEF row
        <3>4. CASE ~ Unread(e, d[i])
            <4>1. Affects(row.version, range) <=> SameNumber(d[i].bounds[1], p.version)
                BY <2>3, <2>4, <3>1, <3>4, PinAffected
            <4>2. QED
                BY <3>2, <3>4, <4>1 DEF row
        <3>5. QED
            BY <3>3, <3>4
    <2>7. ASSUME NEW i \in 1 .. n
          PROVE  i \in Left(e, d) <=> Hides(e, d[i]) /\ last(i)
        <3>1. \A k \in i + 1 .. n : k \in 1 .. n
            BY <2>4
        <3>2. \A k \in i + 1 .. n : Normalize(d[k].name, e) = Normalize(d[i].name, e)
                                        <=> SamePackage(e, d[i].name, d[k].name)
            BY <2>3, <2>4, <3>1, NamesStoredAlike
        <3>3. QED
            BY <3>2 DEF Left, n
    <2>8. \A i \in 1 .. n : ~ Unread(e, d[i]) => Hides(e, d[i])
        BY <2>3 DEF Unread, Hides
    <2>9. Left(e, d) \subseteq 1 .. n
        BY DEF Left, n
    <2> HIDE DEF hit, last, spelt, range
    <2>10. QED
        BY <2>4, <2>5, <2>6, <2>7, <2>8, <2>9
<1>2. Init => Inputs
    BY DEF Init
<1>3. QED
    BY <1>1, <1>2, InputsStay, PTL DEF Spec

-----------------------------------------------------------------------------

Named(S, d)     == {r \in S : IsByName(r, d)}
Patterned(S, d) == {r \in S : IsByPattern(r, d)}

\* The table: ids that were given out, one row for a name (UNIQUE).
TableFits ==
    /\ nextId \in Nat
    /\ mappings \in [DOMAIN mappings -> Mapping]
    /\ \A id \in DOMAIN mappings : id \in Nat /\ id < nextId
    /\ \A i, k \in DOMAIN mappings :
          mappings[i].ecosystem = mappings[k].ecosystem /\ mappings[i].package = mappings[k].package
              => i = k

LookFits ==
    \/ look = Idle
    \/ look \in [phase : {"name", "pattern"}, dep : Dependency]
    \/ look \in [phase : {"join"}, dep : Dependency, cpe : Cpe \cup {NoCpe}]
    \/ look \in [phase : {"done"}, dep : Dependency, rows : SUBSET Product]

\* The rows in force now were met, and those that stayed are among them.
HistoryHolds == look # Idle => stayed \subseteq InForce(mappings) /\ InForce(mappings) \subseteq met

(***************************************************************************)
(* What the answer cpe of the two SELECTs says of d's mappings since the   *)
(* lookup began: it is of a row that was met, of the one by name if that   *)
(* stayed; without an answer none stayed.                                  *)
(***************************************************************************)
AnswerSays(cpe, d) ==
    IF cpe = NoCpe
    THEN Named(stayed, d) = {} /\ Patterned(stayed, d) = {}
    ELSE /\ \E r \in Named(met, d) \cup Patterned(met, d) : r.cpe = cpe
         /\ \A r \in Named(stayed, d) : r.cpe = cpe

JoinedRows(cpe, d) == {p \in Product : Joins(d, p, JoinedCpes(cpe))}

AnswersHold ==
    /\ look.phase = "pattern" => Named(stayed, look.dep) = {}
    /\ look.phase = "join" => AnswerSays(look.cpe, look.dep)
    /\ look.phase = "done" =>
          \E cpe \in Cpe \cup {NoCpe} :
              AnswerSays(cpe, look.dep) /\ look.rows = JoinedRows(cpe, look.dep)

CpeInv == TableFits /\ LookFits /\ HistoryHolds /\ AnswersHold

\* Two rows in force with one ecosystem and name are the same row.
LEMMA RowsByNameAgree ==
    ASSUME TableFits, NEW d, NEW r \in Named(InForce(mappings), d), NEW s \in Named(InForce(mappings), d)
    PROVE  r = s
BY DEF TableFits, Named, InForce, IsByName

(***************************************************************************)
(* An edit of the table: whatever was said of the rows that stayed and     *)
(* were met is still so of fewer that stay and more that were met.         *)
(***************************************************************************)
LEMMA EditsKeepAnswers ==
    ASSUME CpeInv, NEW table, Becomes(table)
    PROVE  LookFits' /\ HistoryHolds' /\ AnswersHold'
<1>1. /\ look' = look /\ stayed' = stayed \cap InForce(table) /\ mappings' = table
      /\ look # Idle => met' = met \cup InForce(table)
    BY DEF Becomes
<1>2. LookFits'
    BY <1>1 DEF CpeInv, LookFits
<1>3. HistoryHolds'
    BY <1>1 DEF HistoryHolds, InForce
<1>4. \A d : /\ Named(stayed', d) \subseteq Named(stayed, d)
             /\ Patterned(stayed', d) \subseteq Patterned(stayed, d)
    BY <1>1 DEF Named, Patterned
<1>5. look # Idle => \A d : /\ Named(met, d) \subseteq Named(met', d)
                            /\ Patterned(met, d) \subseteq Patterned(met', d)
    BY <1>1 DEF Named, Patterned
<1>6. ASSUME look # Idle, NEW cpe, NEW d, AnswerSays(cpe, d) PROVE AnswerSays(cpe, d)'
    <2>1. CASE cpe = NoCpe
        BY <1>4, <1>6, <2>1 DEF AnswerSays
    <2>2. CASE cpe # NoCpe
        BY <1>4, <1>5, <1>6, <2>2 DEF AnswerSays
    <2>3. QED
        BY <2>1, <2>2
<1>7. AnswersHold'
    <2>1. look.phase = "pattern" => Named(stayed', look.dep) = {}
        BY <1>4 DEF CpeInv, AnswersHold
    <2>2. look.phase \in {"join", "done"} => look # Idle
        BY DEF Idle
    <2>3. look.phase = "join" => AnswerSays(look.cpe, look.dep)'
        BY <1>1, <1>6, <2>2 DEF CpeInv, AnswersHold
    <2>4. ASSUME look.phase = "done"
          PROVE  \E cpe \in Cpe \cup {NoCpe} :
                     AnswerSays(cpe, look.dep)' /\ look'.rows = JoinedRows(cpe, look'.dep)
        <3>1. PICK cpe \in Cpe \cup {NoCpe} :
                  AnswerSays(cpe, look.dep) /\ look.rows = JoinedRows(cpe, look.dep)
            BY <2>4 DEF CpeInv, AnswersHold
        <3>2. AnswerSays(cpe, look.dep)'
            BY <1>1, <1>6, <2>2, <2>4, <3>1
        <3>3. QED
            BY <1>1, <3>1, <3>2
    <2>5. QED
        BY <1>1, <2>1, <2>3, <2>4 DEF AnswersHold
<1>8. QED
    BY <1>2, <1>3, <1>7

\* Each request leaves ids below the sequence and one row for a name.
LEMMA RequestsFit ==
    ASSUME TableFits,
           \/ \E r \in Mapping : Create(r)
           \/ \E id \in 1 .. MaxId : RemoveMapping(id) \/ \E r \in Mapping : Update(id, r)
    PROVE  TableFits' /\ \E table : Becomes(table)
<1>1. ASSUME NEW r \in Mapping, Create(r) PROVE TableFits' /\ \E table : Becomes(table)
    <2>1. nextId \in Nat /\ nextId' = nextId + 1 /\ nextId \notin DOMAIN mappings
        BY <1>1 DEF Create, TableFits
    <2>2. CASE Taken(mappings, r, nextId)
        <3>1. Becomes(mappings)
            BY <1>1, <2>2 DEF Create
        <3>2. mappings' = mappings
            BY <3>1 DEF Becomes
        <3>3. \A id \in DOMAIN mappings : id < nextId + 1
            BY <2>1 DEF TableFits
        <3>4. QED
            BY <2>1, <3>1, <3>2, <3>3 DEF TableFits
    <2>3. CASE ~ Taken(mappings, r, nextId)
        <3> DEFINE table == [id \in DOMAIN mappings \cup {nextId} |->
                                IF id = nextId THEN r ELSE mappings[id]]
        <3>1. Becomes(table)
            BY <1>1, <2>3 DEF Create
        <3>2. mappings' = table
            BY <3>1 DEF Becomes
        <3>3. /\ DOMAIN table = DOMAIN mappings \cup {nextId} /\ table[nextId] = r
              /\ \A id \in DOMAIN mappings : table[id] = mappings[id] /\ mappings[id] \in Mapping
            BY <2>1 DEF TableFits
        <3>4. table \in [DOMAIN table -> Mapping]
            BY DEF TableFits
        <3>5. \A k \in DOMAIN mappings :
                  ~ (mappings[k].ecosystem = r.ecosystem /\ mappings[k].package = r.package)
            BY <2>1, <2>3 DEF Taken
        <3> HIDE DEF table
        <3>6. \A i, k \in DOMAIN table :
                  table[i].ecosystem = table[k].ecosystem /\ table[i].package = table[k].package
                      => i = k
            BY <3>3, <3>5 DEF TableFits
        <3>7. \A id \in DOMAIN table : id \in Nat /\ id < nextId + 1
            BY <2>1, <3>3 DEF TableFits
        <3>8. QED
            BY <2>1, <3>1, <3>2, <3>4, <3>6, <3>7 DEF TableFits
    <2>4. QED
        BY <2>2, <2>3
<1>2. ASSUME NEW id \in 1 .. MaxId, RemoveMapping(id)
      PROVE  TableFits' /\ \E table : Becomes(table)
    <2> DEFINE table == [other \in DOMAIN mappings \ {id} |-> mappings[other]]
    <2>1. Becomes(table) /\ nextId' = nextId
        BY <1>2 DEF RemoveMapping
    <2>2. mappings' = table
        BY <2>1 DEF Becomes
    <2>3. QED
        BY <2>1, <2>2 DEF TableFits
<1>3. ASSUME NEW id \in 1 .. MaxId, NEW r \in Mapping, Update(id, r)
      PROVE  TableFits' /\ \E table : Becomes(table)
    <2> DEFINE table == [mappings EXCEPT ![id] = r]
    <2>1. Becomes(table) /\ nextId' = nextId /\ id \in DOMAIN mappings /\ ~ Taken(mappings, r, id)
        BY <1>3 DEF Update
    <2>2. mappings' = table
        BY <2>1 DEF Becomes
    <2>3. /\ DOMAIN table = DOMAIN mappings /\ table[id] = r
          /\ \A k \in DOMAIN mappings \ {id} : table[k] = mappings[k]
          /\ table \in [DOMAIN table -> Mapping]
        BY <2>1 DEF TableFits
    <2>4. \A k \in DOMAIN mappings \ {id} :
              ~ (mappings[k].ecosystem = r.ecosystem /\ mappings[k].package = r.package)
        BY <2>1 DEF Taken
    <2> HIDE DEF table
    <2>5. \A i, k \in DOMAIN table :
              table[i].ecosystem = table[k].ecosystem /\ table[i].package = table[k].package
                  => i = k
        BY <2>3, <2>4 DEF TableFits
    <2>6. QED
        BY <2>1, <2>2, <2>3, <2>5 DEF TableFits
<1>4. QED
    BY <1>1, <1>2, <1>3

LEMMA LookUpHolds ==
    ASSUME CpeInv, NEW d \in Dependency, LookUp(d)
    PROVE  CpeInv'
<1>1. /\ look' = [phase |-> "name", dep |-> d]
      /\ stayed' = InForce(mappings) /\ met' = InForce(mappings)
      /\ mappings' = mappings /\ nextId' = nextId
    BY DEF LookUp
<1>2. TableFits' /\ LookFits' /\ HistoryHolds' /\ AnswersHold'
    BY <1>1 DEF CpeInv, TableFits, LookFits, HistoryHolds, AnswersHold, InForce
<1>3. QED
    BY <1>2 DEF CpeInv

\* The rows whose CPE a SELECT may return.
LEMMA SelectedAreInForce ==
    ASSUME TableFits, NEW d
    PROVE  /\ ByName(mappings, d) = {r.cpe : r \in Named(InForce(mappings), d)}
           /\ ByPattern(mappings, d) = {r.cpe : r \in Patterned(InForce(mappings), d)}
           /\ NoCpe \notin ByName(mappings, d) /\ ByName(mappings, d) \subseteq Cpe
           /\ NoCpe \notin ByPattern(mappings, d) /\ ByPattern(mappings, d) \subseteq Cpe
<1>1. ByName(mappings, d) = {r.cpe : r \in Named(InForce(mappings), d)}
    BY DEF ByName, Named, InForce
<1>2. ByPattern(mappings, d) = {r.cpe : r \in Patterned(InForce(mappings), d)}
    BY DEF ByPattern, Patterned, InForce
<1>3. \A id \in DOMAIN mappings : mappings[id].cpe \in Cpe
    BY DEF TableFits, Mapping
<1>4. ByName(mappings, d) \subseteq Cpe /\ ByPattern(mappings, d) \subseteq Cpe
    BY <1>3 DEF ByName, ByPattern
<1>5. QED
    BY <1>1, <1>2, <1>4, CpeAssumption

LEMMA SelectByNameHolds ==
    ASSUME CpeInv, SelectByName
    PROVE  CpeInv'
<1> DEFINE d == look.dep
<1>1. /\ look.phase = "name" /\ look # Idle
      /\ UNCHANGED << mappings, nextId, stayed, met >>
    BY DEF SelectByName, Idle
<1>2. look \in [phase : {"name", "pattern"}, dep : Dependency]
    BY <1>1 DEF CpeInv, LookFits
<1>3. stayed \subseteq InForce(mappings) /\ InForce(mappings) \subseteq met
    BY <1>1 DEF CpeInv, HistoryHolds
<1>4. TableFits' /\ HistoryHolds'
    BY <1>1, <1>3 DEF CpeInv, TableFits, HistoryHolds, InForce
<1>5. /\ Named(stayed, d) \subseteq Named(InForce(mappings), d)
      /\ Named(InForce(mappings), d) \subseteq Named(met, d)
    BY <1>3 DEF Named
<1>6. CASE \E cpe \in ByName(mappings, d) : look' = Answered(cpe)
    <2>1. PICK cpe \in ByName(mappings, d) : look' = Answered(cpe)
        BY <1>6
    <2>2. cpe \in Cpe /\ cpe # NoCpe /\ \E r \in Named(InForce(mappings), d) : r.cpe = cpe
        BY SelectedAreInForce DEF CpeInv
    <2>3. \A r \in Named(stayed, d) : r.cpe = cpe
        BY <1>5, <2>2, RowsByNameAgree DEF CpeInv
    <2>4. AnswerSays(cpe, d)
        BY <1>5, <2>2, <2>3 DEF AnswerSays
    <2>5. stayed' = stayed /\ met' = met /\ look'.phase = "join" /\ look'.cpe = cpe /\ look'.dep = d
        BY <1>1, <2>1 DEF Answered
    <2>6. AnswersHold'
        BY <2>4, <2>5 DEF AnswersHold, AnswerSays
    <2>7. QED
        BY <1>2, <1>4, <2>1, <2>2, <2>6 DEF CpeInv, LookFits, Answered
<1>7. CASE ByName(mappings, d) = {} /\ look' = [look EXCEPT !.phase = "pattern"]
    <2>1. Named(stayed, d) = {}
        BY <1>5, <1>7, SelectedAreInForce DEF CpeInv
    <2>2. look'.phase = "pattern" /\ look'.dep = d /\ LookFits'
        BY <1>2, <1>7 DEF LookFits
    <2>3. QED
        BY <1>1, <1>4, <2>1, <2>2 DEF CpeInv, AnswersHold
<1>8. QED
    BY <1>6, <1>7 DEF SelectByName

LEMMA SelectByPatternHolds ==
    ASSUME CpeInv, SelectByPattern
    PROVE  CpeInv'
<1> DEFINE d == look.dep
<1>1. /\ look.phase = "pattern" /\ look # Idle
      /\ UNCHANGED << mappings, nextId, stayed, met >>
    BY DEF SelectByPattern, Idle
<1>2. look \in [phase : {"name", "pattern"}, dep : Dependency] /\ Named(stayed, d) = {}
    BY <1>1 DEF CpeInv, LookFits, AnswersHold
<1>3. stayed \subseteq InForce(mappings) /\ InForce(mappings) \subseteq met
    BY <1>1 DEF CpeInv, HistoryHolds
<1>4. TableFits' /\ HistoryHolds'
    BY <1>1, <1>3 DEF CpeInv, TableFits, HistoryHolds, InForce
<1>5. /\ Patterned(stayed, d) \subseteq Patterned(InForce(mappings), d)
      /\ Patterned(InForce(mappings), d) \subseteq Patterned(met, d)
    BY <1>3 DEF Patterned
<1>6. \E cpe \in Cpe \cup {NoCpe} : look' = Answered(cpe) /\ AnswerSays(cpe, d)
    <2>1. CASE \E cpe \in ByPattern(mappings, d) : look' = Answered(cpe)
        <3>1. PICK cpe \in ByPattern(mappings, d) : look' = Answered(cpe)
            BY <2>1
        <3>2. cpe \in Cpe /\ cpe # NoCpe /\ \E r \in Patterned(InForce(mappings), d) : r.cpe = cpe
            BY SelectedAreInForce DEF CpeInv
        <3>3. AnswerSays(cpe, d)
            BY <1>2, <1>5, <3>2 DEF AnswerSays
        <3>4. QED
            BY <3>1, <3>2, <3>3
    <2>2. CASE ByPattern(mappings, d) = {} /\ look' = Answered(NoCpe)
        <3>1. Patterned(stayed, d) = {}
            BY <1>5, <2>2, SelectedAreInForce DEF CpeInv
        <3>2. AnswerSays(NoCpe, d)
            BY <1>2, <3>1 DEF AnswerSays
        <3>3. QED
            BY <2>2, <3>2
    <2>3. QED
        BY <2>1, <2>2 DEF SelectByPattern
<1>7. PICK cpe \in Cpe \cup {NoCpe} : look' = Answered(cpe) /\ AnswerSays(cpe, d)
    BY <1>6
<1>8. stayed' = stayed /\ met' = met /\ look'.phase = "join" /\ look'.cpe = cpe /\ look'.dep = d
    BY <1>1, <1>7 DEF Answered
<1>9. AnswersHold'
    BY <1>7, <1>8 DEF AnswersHold, AnswerSays
<1>10. QED
    BY <1>2, <1>4, <1>7, <1>9 DEF CpeInv, LookFits, Answered

LEMMA JoinHolds ==
    ASSUME CpeInv, FindMatchingCves
    PROVE  CpeInv'
<1>1. /\ look.phase = "join" /\ look # Idle
      /\ look' = [phase |-> "done", dep |-> look.dep, rows |-> JoinedRows(look.cpe, look.dep)]
      /\ UNCHANGED << mappings, nextId, stayed, met >>
    BY DEF FindMatchingCves, Idle, JoinedRows
<1>2. /\ look \in [phase : {"join"}, dep : Dependency, cpe : Cpe \cup {NoCpe}]
      /\ AnswerSays(look.cpe, look.dep)
    BY <1>1 DEF CpeInv, LookFits, AnswersHold
<1>3. TableFits' /\ HistoryHolds'
    BY <1>1 DEF CpeInv, TableFits, HistoryHolds, InForce
<1>4. LookFits'
    <2>1. JoinedRows(look.cpe, look.dep) \in SUBSET Product
        BY DEF JoinedRows
    <2>2. QED
        BY <1>1, <1>2, <2>1 DEF LookFits
<1>5. AnswersHold'
    <2>1. /\ look'.phase = "done" /\ look'.dep = look.dep
          /\ look'.rows = JoinedRows(look.cpe, look.dep)
        BY <1>1
    <2>2. AnswerSays(look.cpe, look.dep) /\ stayed' = stayed /\ met' = met
        BY <1>1, <1>2
    <2>3. look.cpe \in Cpe \cup {NoCpe}
        BY <1>2
    <2>4. QED
        BY <2>1, <2>2, <2>3 DEF AnswersHold, AnswerSays
<1>6. QED
    BY <1>3, <1>4, <1>5 DEF CpeInv

LEMMA CpeStepHolds ==
    ASSUME CpeInv, [CpeNext]_cpeVars
    PROVE  CpeInv'
<1>1. ASSUME \/ \E r \in Mapping : Create(r)
             \/ \E id \in 1 .. MaxId : RemoveMapping(id) \/ \E r \in Mapping : Update(id, r)
      PROVE  CpeInv'
    BY <1>1, RequestsFit, EditsKeepAnswers DEF CpeInv
<1>2. ASSUME NextDependency PROVE CpeInv'
    <2>1. look' = Idle /\ UNCHANGED << mappings, nextId >>
        BY <1>2 DEF NextDependency
    <2>2. look'.phase = "idle"
        BY <2>1 DEF Idle
    <2>3. QED
        BY <2>1, <2>2 DEF CpeInv, TableFits, LookFits, HistoryHolds, AnswersHold
<1>3. ASSUME UNCHANGED cpeVars PROVE CpeInv'
    BY <1>3 DEF cpeVars, CpeInv, TableFits, LookFits, HistoryHolds, AnswersHold, AnswerSays, InForce
<1>4. QED
    BY <1>1, <1>2, <1>3, LookUpHolds, SelectByNameHolds, SelectByPatternHolds, JoinHolds DEF CpeNext

\* The rows of the join are those of the mapping that was answered.
LEMMA JoinedRowsAre ==
    ASSUME NEW d, NEW cpe
    PROVE  /\ cpe = NoCpe => JoinedRows(cpe, d) = ProductsOf({}, d)
           /\ \A r : r.cpe = cpe => JoinedRows(cpe, d) = ProductsOf({r}, d)
BY DEF JoinedRows, ProductsOf, Joins, JoinedCpes

LEMMA AnswersFindMappings == CpeInv => MappingFound
<1>1. SUFFICES ASSUME CpeInv, look.phase = "done" PROVE MappingFound
    BY DEF MappingFound
<1> DEFINE d == look.dep
<1>2. PICK cpe \in Cpe \cup {NoCpe} : AnswerSays(cpe, d) /\ look.rows = JoinedRows(cpe, d)
    BY <1>1 DEF CpeInv, AnswersHold
<1>3. cpe # NoCpe => \E r \in Named(met, d) \cup Patterned(met, d) : look.rows = ProductsOf({r}, d)
    BY <1>2, JoinedRowsAre DEF AnswerSays
<1>4. CASE Named(stayed, d) # {}
    <2>1. PICK r : r \in Named(stayed, d)
        BY <1>4
    <2>2. look # Idle
        BY <1>1 DEF Idle
    <2>3. Named(stayed, d) \subseteq Named(InForce(mappings), d)
        BY <1>1, <2>2 DEF CpeInv, HistoryHolds, Named
    <2>4. \A s \in Named(stayed, d) : s = r
        BY <1>1, <2>1, <2>3, RowsByNameAgree DEF CpeInv
    <2>5. Named(stayed, d) = {r}
        BY <2>1, <2>4
    <2>6. cpe # NoCpe /\ r.cpe = cpe
        BY <1>2, <2>1 DEF AnswerSays
    <2>7. look.rows = ProductsOf(Named(stayed, d), d)
        BY <1>2, <2>5, <2>6, JoinedRowsAre
    <2>8. Cardinality(Named(stayed, d)) = 1
        BY <2>5, FS_Singleton
    <2>9. QED
        BY <1>4, <2>7, <2>8 DEF MappingFound, Named
<1>5. CASE Named(stayed, d) = {} /\ Patterned(stayed, d) # {}
    <2>1. cpe # NoCpe
        BY <1>2, <1>5 DEF AnswerSays
    <2>2. QED
        BY <1>3, <1>5, <2>1 DEF MappingFound, Named, Patterned
<1>6. CASE Named(stayed, d) = {} /\ Patterned(stayed, d) = {}
    <2>1. cpe = NoCpe => look.rows = ProductsOf({}, d)
        BY <1>2, JoinedRowsAre
    <2>2. QED
        BY <1>3, <1>6, <2>1 DEF MappingFound, Named, Patterned
<1>7. QED
    BY <1>4, <1>5, <1>6

(***************************************************************************)
(* A lookup gives what one mapping says, the one by name first, whatever   *)
(* requests come between its statements: for any mappings, names, patterns *)
(* and any number of rows.                                                 *)
(***************************************************************************)
THEOREM LookupsFindMappings == Spec => []MappingFound
<1>1. Init => CpeInv
    BY DEF Init, CpeInit, CpeInv, TableFits, LookFits, HistoryHolds, AnswersHold, Idle
<1>2. CpeInv /\ [Next]_vars => CpeInv'
    BY CpeStepHolds DEF Next, vars
<1>3. QED
    BY <1>1, <1>2, AnswersFindMappings, PTL DEF Spec
=============================================================================
