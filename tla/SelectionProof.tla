--------------------------- MODULE SelectionProof ---------------------------
(***************************************************************************)
(* What Selection returns, for every list and every set: which elements,   *)
(* how many of each and in which order.  The induction is on the length of *)
(* the prefix, by its least counterexample.                                *)
(***************************************************************************)
EXTENDS Selection, Functions, Integers, WellFoundedInduction, TLAPS

\* A set of natural numbers that is not empty has a least element.
LEMMA LeastNumber ==
    ASSUME NEW T \in SUBSET Nat, T # {}
    PROVE  \E n \in T : \A m \in T : n <= m
<1> DEFINE R == OpToRel(<, Nat)
<1>1. IsWellFoundedOn(R, Nat)
  BY NatLessThanWellFounded
<1>2. \A x, y \in Nat : x < y => <<x, y>> \in R
  BY DEF OpToRel
<1> HIDE DEF R
<1>3. PICK n \in T : \A y \in T : ~(<<y, n>> \in R)
  BY <1>1, WFMin
<1>4. ASSUME NEW m \in T PROVE n <= m
  <2>1. ~(m < n)
    BY <1>2, <1>3
  <2> QED
    BY <2>1
<1> QED
  BY <1>4

\* A set that holds 0 and with a number below the bound the next one holds all up to
\* the bound.
LEMMA UpTo ==
    ASSUME NEW n \in Nat, NEW T, 0 \in T,
           \A i \in 0 .. n - 1 : i \in T => i + 1 \in T
    PROVE  0 .. n \subseteq T
<1> DEFINE Bad == {i \in 0 .. n : i \notin T}
<1> SUFFICES ASSUME Bad # {} PROVE FALSE
  OBVIOUS
<1>0. Bad \in SUBSET Nat
  OBVIOUS
<1> HIDE DEF Bad
<1>1. PICK i \in Bad : \A j \in Bad : i <= j
  BY <1>0, LeastNumber
<1>2. i # 0 /\ i - 1 \in 0 .. n - 1 /\ i - 1 \notin Bad
  BY <1>1 DEF Bad
<1>3. i - 1 \in T
  BY <1>2 DEF Bad
<1> QED
  BY <1>1, <1>2, <1>3 DEF Bad

\* One step of the selection.
Taking(s, T, left, i) ==
    IF i = 0 THEN << >>
    ELSE IF s[i] \in T THEN Append(left[i - 1], s[i]) ELSE left[i - 1]

\* The recursive function exists: on a prefix that is longer by one it goes on from
\* the shorter one.
LEMMA SelectedExists ==
    ASSUME NEW s, NEW T, NEW n \in Nat
    PROVE  \E left : left = [i \in 0 .. n |-> Taking(s, T, left, i)]
<1> DEFINE Good == {k \in 0 .. n : \E left : left = [i \in 0 .. k |-> Taking(s, T, left, i)]}
<1>1. 0 \in Good
  <2> DEFINE left == [i \in 0 .. 0 |-> << >>]
  <2>1. left = [i \in 0 .. 0 |-> Taking(s, T, left, i)]
    BY DEF Taking
  <2> QED
    BY <2>1
<1>2. ASSUME NEW k \in 0 .. n - 1, k \in Good
      PROVE  k + 1 \in Good
  <2>1. PICK f : f = [i \in 0 .. k |-> Taking(s, T, f, i)]
    BY <1>2
  <2> DEFINE g == [i \in 0 .. k + 1 |-> IF i <= k THEN f[i] ELSE Taking(s, T, f, k + 1)]
             h == [i \in 0 .. k + 1 |-> Taking(s, T, g, i)]
  <2>2. ASSUME NEW i \in 0 .. k + 1 PROVE g[i] = Taking(s, T, g, i)
    <3>1. CASE i = 0
      BY <2>1, <3>1 DEF Taking
    <3>2. CASE i \in 1 .. k
      <4>1. g[i - 1] = f[i - 1] /\ g[i] = f[i]
        BY <3>2
      <4>2. f[i] = Taking(s, T, f, i)
        BY <2>1, <3>2
      <4> QED
        BY <3>2, <4>1, <4>2 DEF Taking
    <3>3. CASE i = k + 1
      <4>1. g[i - 1] = f[i - 1] /\ g[i] = Taking(s, T, f, i)
        BY <3>3
      <4> QED
        BY <3>3, <4>1 DEF Taking
    <3> QED
      BY <3>1, <3>2, <3>3
  <2>3. g = h
    BY <2>2
  <2> HIDE DEF g
  <2>4. \E left : left = [i \in 0 .. k + 1 |-> Taking(s, T, left, i)]
    BY <2>3
  <2> QED
    BY <2>4
<1> HIDE DEF Good
<1>3. 0 .. n \subseteq Good
  BY <1>1, <1>2, UpTo
<1>4. n \in Good
  BY <1>3
<1> QED
  BY <1>4 DEF Good

\* So Selected takes one element after the other.
LEMMA SelectedTakes ==
    ASSUME NEW S, NEW s \in Seq(S), NEW T, NEW i \in 0 .. Len(s)
    PROVE  Selected(s, T)[i] = Taking(s, T, Selected(s, T), i)
<1> DEFINE left == CHOOSE f : f = [j \in 0 .. Len(s) |-> Taking(s, T, f, j)]
<1>1. left = [j \in 0 .. Len(s) |-> Taking(s, T, left, j)]
  BY SMTT(30), SelectedExists
<1>2. Selected(s, T) = left
  BY DEF Selected, Taking
<1> HIDE DEF left
<1> QED
  BY <1>1, <1>2

\* t is what is left of the first n elements of s: where picks the place in s of each
\* element of t, in order.
Picks(where, t, s, n) ==
    /\ where \in [1 .. Len(t) -> 1 .. n]
    /\ \A k \in 1 .. Len(t) : t[k] = s[where[k]]
    /\ \A j, k \in 1 .. Len(t) : j < k => where[j] < where[k]

\* Every place of the first n elements of s at which one of T is, is picked.
PicksAll(where, s, T, n) ==
    \A k \in 1 .. n : s[k] \in T => \E j \in DOMAIN where : where[j] = k

\* What is left of a prefix: those of its elements that are in T, in their order.
LEMMA SelectedPicks ==
    ASSUME NEW S, NEW s \in Seq(S), NEW T, NEW n \in 0 .. Len(s)
    PROVE  /\ Selected(s, T)[n] \in Seq(S)
           /\ {Selected(s, T)[n][k] : k \in 1 .. Len(Selected(s, T)[n])}
                = {s[k] : k \in 1 .. n} \cap T
           /\ \E where : Picks(where, Selected(s, T)[n], s, n) /\ PicksAll(where, s, T, n)
<1> DEFINE left(m) == Selected(s, T)[m]
           Kept(m) == /\ left(m) \in Seq(S)
                      /\ {left(m)[k] : k \in 1 .. Len(left(m))} = {s[k] : k \in 1 .. m} \cap T
                      /\ \E where : Picks(where, left(m), s, m) /\ PicksAll(where, s, T, m)
           Good == {m \in 0 .. Len(s) : Kept(m)}
<1>0. Len(s) \in Nat /\ 0 \in 0 .. Len(s)
  OBVIOUS
<1>1. 0 \in Good
  <2>1. left(0) = << >>
    BY <1>0, SelectedTakes DEF Taking
  <2> HIDE DEF left
  <2>2. Kept(0)
    <3>1. << >> \in Seq(S) /\ Len(<< >>) = 0
      OBVIOUS
    <3>2. 1 .. 0 = {}
      OBVIOUS
    <3>3. /\ Picks([k \in 1 .. 0 |-> 0], << >>, s, 0)
          /\ PicksAll([k \in 1 .. 0 |-> 0], s, T, 0)
      BY <3>1, <3>2 DEF Picks, PicksAll
    <3> QED
      BY <2>1, <3>1, <3>2, <3>3
  <2> QED
    BY <1>0, <2>2
<1>2. ASSUME NEW m \in 0 .. Len(s) - 1, m \in Good
      PROVE  m + 1 \in Good
  <2>1. m + 1 \in 0 .. Len(s) /\ m + 1 # 0 /\ m + 1 - 1 = m /\ s[m + 1] \in S
    OBVIOUS
  <2>2. left(m + 1) = IF s[m + 1] \in T THEN Append(left(m), s[m + 1]) ELSE left(m)
    BY <2>1, SelectedTakes DEF Taking
  <2>3. {s[k] : k \in 1 .. m + 1} = {s[k] : k \in 1 .. m} \cup {s[m + 1]}
    OBVIOUS
  <2>4. Kept(m)
    BY <1>2
  <2>5. PICK where : Picks(where, left(m), s, m) /\ PicksAll(where, s, T, m)
    BY <2>4
  <2>8. DOMAIN where = 1 .. Len(left(m))
    BY <2>5 DEF Picks
  <2> HIDE DEF left
  <2>6. CASE s[m + 1] \in T
    <3>1. left(m + 1) = Append(left(m), s[m + 1])
      BY <2>2, <2>6
    <3>2. left(m + 1) \in Seq(S) /\ Len(left(m)) \in Nat /\ Len(left(m + 1)) = Len(left(m)) + 1
      BY <3>1, <2>1, <2>4
    <3>3. /\ left(m + 1)[Len(left(m)) + 1] = s[m + 1]
          /\ \A k \in 1 .. Len(left(m)) : left(m + 1)[k] = left(m)[k]
      BY <3>1, <2>1, <2>4
    <3>4. 1 .. Len(left(m + 1)) = 1 .. Len(left(m)) \cup {Len(left(m)) + 1}
      BY <3>2
    <3>5. {left(m + 1)[k] : k \in 1 .. Len(left(m + 1))}
            = {left(m)[k] : k \in 1 .. Len(left(m))} \cup {s[m + 1]}
      BY <3>3, <3>4
    <3> DEFINE further == [k \in 1 .. Len(left(m + 1)) |->
                              IF k \in 1 .. Len(left(m)) THEN where[k] ELSE m + 1]
    <3>6. \A k \in 1 .. Len(left(m)) : further[k] = where[k] /\ where[k] \in 1 .. m
      BY <3>4, <2>5 DEF Picks
    <3>7. further[Len(left(m)) + 1] = m + 1
      BY <3>2, <3>4
    <3>8. further \in [1 .. Len(left(m + 1)) -> 1 .. m + 1]
      BY <2>5 DEF Picks
    <3> HIDE DEF further
    <3>9. \A k \in 1 .. Len(left(m + 1)) : left(m + 1)[k] = s[further[k]]
      BY <3>3, <3>4, <3>6, <3>7, <2>5 DEF Picks
    <3>10. ASSUME NEW j \in 1 .. Len(left(m + 1)), NEW k \in 1 .. Len(left(m + 1)), j < k
           PROVE  further[j] < further[k]
      <4>1. j \in 1 .. Len(left(m))
        BY <3>10, <3>2
      <4>2. CASE k \in 1 .. Len(left(m))
        BY <4>1, <4>2, <3>6, <3>10, <2>5 DEF Picks
      <4>3. CASE k = Len(left(m)) + 1
        BY <4>1, <4>3, <3>6, <3>7
      <4> QED
        BY <4>2, <4>3, <3>4
    <3>11. Picks(further, left(m + 1), s, m + 1)
      BY <3>8, <3>9, <3>10 DEF Picks
    <3>12. {s[k] : k \in 1 .. m + 1} \cap T = ({s[k] : k \in 1 .. m} \cap T) \cup {s[m + 1]}
      BY <2>3, <2>6
    <3>13. PicksAll(further, s, T, m + 1)
      <4>1. DOMAIN further = 1 .. Len(left(m + 1))
        BY <3>8
      <4>2. ASSUME NEW k \in 1 .. m, s[k] \in T PROVE \E j \in DOMAIN further : further[j] = k
        BY <2>5, <2>8, <3>4, <3>6, <4>1, <4>2 DEF PicksAll
      <4>3. \E j \in DOMAIN further : further[j] = m + 1
        BY <3>4, <3>7, <4>1
      <4> QED
        BY <4>2, <4>3 DEF PicksAll
    <3> QED
      BY <3>2, <3>5, <3>11, <3>12, <3>13, <2>1, <2>4
  <2>7. CASE s[m + 1] \notin T
    <3>1. left(m + 1) = left(m)
      BY <2>2, <2>7
    <3>2. Picks(where, left(m), s, m + 1) /\ PicksAll(where, s, T, m + 1)
      BY <2>5, <2>7 DEF Picks, PicksAll
    <3> QED
      BY <3>1, <3>2, <2>1, <2>3, <2>4, <2>7
  <2> QED
    BY <2>6, <2>7
<1> HIDE DEF Good
<1>3. 0 .. Len(s) \subseteq Good
  BY <1>0, <1>1, <1>2, UpTo
<1> QED
  BY <1>3 DEF Good

\* What is left of a list: those of its elements that are in T, in their order, and
\* none twice that was not there twice.
THEOREM SelectionKeeps ==
    ASSUME NEW S, NEW s \in Seq(S), NEW T
    PROVE  /\ Selection(s, T) \in Seq(S)
           /\ Range(Selection(s, T)) = Range(s) \cap T
           /\ \E where : Picks(where, Selection(s, T), s, Len(s)) /\ PicksAll(where, s, T, Len(s))
           /\ IsInjective(s) => IsInjective(Selection(s, T))
<1> DEFINE left == Selection(s, T)
<1>1. Len(s) \in Nat /\ Len(s) \in 0 .. Len(s) /\ DOMAIN s = 1 .. Len(s)
  OBVIOUS
<1>2. /\ left \in Seq(S)
      /\ {left[k] : k \in 1 .. Len(left)} = {s[k] : k \in 1 .. Len(s)} \cap T
      /\ \E where : Picks(where, left, s, Len(s)) /\ PicksAll(where, s, T, Len(s))
  BY <1>1, SelectedPicks DEF Selection
<1> HIDE DEF left
<1>3. Len(left) \in Nat /\ DOMAIN left = 1 .. Len(left)
  BY <1>2
<1>4. ASSUME IsInjective(s) PROVE IsInjective(left)
  <2>1. PICK where : Picks(where, left, s, Len(s))
    BY <1>2
  <2> SUFFICES ASSUME NEW i \in 1 .. Len(left), NEW j \in 1 .. Len(left), left[i] = left[j]
               PROVE  i = j
    BY <1>3 DEF IsInjective
  <2>2. where[i] \in DOMAIN s /\ where[j] \in DOMAIN s /\ s[where[i]] = s[where[j]]
    BY <2>1, <1>1 DEF Picks
  <2>3. where[i] = where[j] /\ where[i] \in Int
    BY <2>2, <1>1, <1>4 DEF IsInjective
  <2>4. ~(i < j) /\ ~(j < i)
    BY <2>1, <2>3 DEF Picks
  <2> QED
    BY <2>4, <1>3
<1> QED
  BY <1>1, <1>2, <1>3, <1>4 DEF Range, left

\* A list of which everything stays is left as it is.
LEMMA SelectionOfAll ==
    ASSUME NEW S, NEW s \in Seq(S), NEW T, Range(s) \subseteq T
    PROVE  Selection(s, T) = s
<1> DEFINE first(m) == [k \in 1 .. m |-> s[k]]
           left(m) == Selected(s, T)[m]
           Good == {m \in 0 .. Len(s) : left(m) = first(m)}
<1>0. Len(s) \in Nat /\ 0 \in 0 .. Len(s) /\ DOMAIN s = 1 .. Len(s) /\ s = first(Len(s))
  OBVIOUS
<1>1. 0 \in Good
  <2>1. left(0) = << >>
    BY <1>0, SelectedTakes DEF Taking
  <2>2. first(0) = << >>
    OBVIOUS
  <2> HIDE DEF left, first
  <2> QED
    BY <1>0, <2>1, <2>2
<1>2. ASSUME NEW m \in 0 .. Len(s) - 1, m \in Good
      PROVE  m + 1 \in Good
  <2>1. m + 1 \in 0 .. Len(s) /\ m + 1 # 0 /\ m + 1 - 1 = m /\ s[m + 1] \in T
    BY <1>0 DEF Range
  <2>2. left(m + 1) = Append(left(m), s[m + 1])
    <3>1. left(m + 1) = Taking(s, T, Selected(s, T), m + 1)
      BY <2>1, SelectedTakes
    <3> QED
      BY <2>1, <3>1 DEF Taking
  <2> HIDE DEF left
  <2>3. left(m) = first(m) /\ first(m) \in Seq(S) /\ Len(first(m)) = m
    BY <1>2
  <2>4. Append(first(m), s[m + 1]) = first(m + 1)
    <3>1. s[m + 1] \in S /\ first(m + 1) \in Seq(S) /\ Len(first(m + 1)) = m + 1
      OBVIOUS
    <3> QED
      BY <2>3, <3>1
  <2> QED
    BY <2>1, <2>2, <2>3, <2>4
<1> HIDE DEF Good, left, first
<1>3. 0 .. Len(s) \subseteq Good
  BY <1>0, <1>1, <1>2, UpTo
<1> QED
  BY <1>0, <1>3 DEF Good, left, Selection

\* The first n elements of s and of t are the same, and T and U keep the same of them.
StartAlike(s, t, T, U, n) ==
    /\ n <= Len(s) /\ n <= Len(t)
    /\ \A k \in 1 .. n : s[k] = t[k] /\ (s[k] \in T <=> s[k] \in U)

\* Two lists that start alike have the same left of their starts.
LEMMA SelectedAgrees ==
    ASSUME NEW S, NEW s \in Seq(S), NEW t \in Seq(S), NEW T, NEW U,
           NEW n \in Nat, StartAlike(s, t, T, U, n)
    PROVE  Selected(s, T)[n] = Selected(t, U)[n]
<1> DEFINE one(m) == Selected(s, T)[m]
           two(m) == Selected(t, U)[m]
           Good == {m \in 0 .. n : one(m) = two(m)}
<1>0. /\ n \in Nat /\ Len(t) \in Nat /\ Len(s) \in Nat
      /\ n <= Len(s) /\ n <= Len(t) /\ 0 \in 0 .. Len(s)
      /\ \A k \in 1 .. n : s[k] = t[k] /\ (s[k] \in T <=> s[k] \in U)
  BY DEF StartAlike
<1>1. 0 \in Good
  <2>1. one(0) = << >>
    BY <1>0, SelectedTakes DEF Taking
  <2>2. two(0) = << >>
    <3>1. 0 \in 0 .. Len(t)
      BY <1>0
    <3>2. Selected(t, U)[0] = Taking(t, U, Selected(t, U), 0)
      BY <3>1, SelectedTakes
    <3> QED
      BY <3>2 DEF Taking
  <2> HIDE DEF one, two
  <2> QED
    BY <1>0, <2>1, <2>2
<1>2. ASSUME NEW m \in 0 .. n - 1, m \in Good PROVE m + 1 \in Good
  <2>1. /\ m + 1 \in 0 .. Len(s) /\ m + 1 \in 0 .. Len(t) /\ m + 1 \in 1 .. n
        /\ m + 1 # 0 /\ m + 1 - 1 = m
    BY <1>0
  <2>2. one(m + 1) = IF s[m + 1] \in T THEN Append(one(m), s[m + 1]) ELSE one(m)
    BY <2>1, SelectedTakes DEF Taking
  <2>3. two(m + 1) = IF t[m + 1] \in U THEN Append(two(m), t[m + 1]) ELSE two(m)
    BY <2>1, SelectedTakes DEF Taking
  <2> HIDE DEF one, two
  <2> QED
    BY <1>0, <1>2, <2>1, <2>2, <2>3
<1> HIDE DEF Good
<1>3. 0 .. n \subseteq Good
  BY <1>0, <1>1, <1>2, UpTo
<1> QED
  BY <1>0, <1>3 DEF Good

\* What is left of a list that has one element more.
LEMMA SelectionOfAppended ==
    ASSUME NEW S, NEW s \in Seq(S), NEW x \in S, NEW T, NEW U,
           \A k \in 1 .. Len(s) : s[k] \in T <=> s[k] \in U
    PROVE  Selection(Append(s, x), T)
             = IF x \in T THEN Append(Selection(s, U), x) ELSE Selection(s, U)
<1>0. Append(s, x) \in Seq(S) /\ Len(s) \in Nat
  OBVIOUS
<1>1. PICK t : t \in Seq(S) /\ t = Append(s, x)
  BY <1>0
<1>2. PICK n \in Nat : n = Len(s)
  BY <1>0
<1>3. /\ Len(t) = n + 1 /\ t[n + 1] = x
      /\ \A k \in 1 .. n : t[k] = s[k] /\ (t[k] \in T <=> t[k] \in U)
  BY <1>1, <1>2
<1>4. /\ n \in 0 .. Len(t) /\ n <= Len(s) /\ n + 1 \in 0 .. Len(t)
      /\ n + 1 # 0 /\ n + 1 - 1 = n
  BY <1>2, <1>3
<1>5. Selected(t, T)[n] = Selected(s, U)[n]
  <2>1. StartAlike(t, s, T, U, n)
    BY <1>3, <1>4 DEF StartAlike
  <2>2. t \in Seq(S)
    BY <1>1
  <2> QED
    BY ONLY <2>1, <2>2, s \in Seq(S), n \in Nat, SelectedAgrees
<1>6. Selected(t, T)[n + 1] = IF x \in T THEN Append(Selected(t, T)[n], x) ELSE Selected(t, T)[n]
  <2>1. t \in Seq(S)
    BY <1>1
  <2>2. Selected(t, T)[n + 1] = Taking(t, T, Selected(t, T), n + 1)
    BY ONLY <1>4, <2>1, SelectedTakes
  <2> QED
    BY <1>3, <1>4, <2>2 DEF Taking
<1> QED
  BY <1>1, <1>2, <1>3, <1>5, <1>6 DEF Selection
=============================================================================
