---------------------------- MODULE PanelProofs ----------------------------
(***************************************************************************)
(* Theorems about the form a workflow has as an app, for every set of      *)
(* names and every number of edits, about the documents, with any value in *)
(* any field, and about the wires to the parts of an argument, whatever    *)
(* the value and the names in it are.                                      *)
(*                                                                         *)
(* The fields of the form are sorted.  Two things are shown of every       *)
(* strict order of a finite set: that the set can be put in order, and in  *)
(* one way only.  So a sequence that is known to be in order is what the   *)
(* sort makes of its elements.                                             *)
(*                                                                         *)
(* Of the documents it is shown that what each writer may put in a field,  *)
(* and the lack of it, is something its decoder takes.                     *)
(*                                                                         *)
(* Of the wires it is shown that a port is found again by its handle, and  *)
(* that what is put at a path is there and changes nothing apart from it.  *)
(* The operators they are made of ask themselves about shorter names: that *)
(* such a recursion has one answer is shown first.                         *)
(***************************************************************************)
EXTENDS AppForm, Documents, ArgumentWires, FiniteSetTheorems, WellFoundedInduction, TLAPS

-----------------------------------------------------------------------------
(* Numbers and finite sets. *)

\* Induction, for a set of numbers.
LEMMA EveryNumber ==
    ASSUME NEW G, 0 \in G, \A n \in Nat : n \in G => n + 1 \in G
    PROVE  \A n \in Nat : n \in G
<1> DEFINE T == Nat \ G
<1>1. SUFFICES ASSUME T # {} PROVE FALSE
  OBVIOUS
<1>2. IsWellFoundedOn(OpToRel(<, Nat), Nat)
  BY NatLessThanWellFounded
<1>3. PICK n \in T : \A m \in T : ~ (<<m, n>> \in OpToRel(<, Nat))
  <2>1. T \subseteq Nat
    OBVIOUS
  <2> HIDE DEF T
  <2> QED BY <1>1, <1>2, <2>1, WFMin
<1>4. \A m \in T : ~ (m < n)
  BY <1>3 DEF OpToRel
<1>5. n # 0 /\ n - 1 \in Nat
  OBVIOUS
<1>6. n - 1 \in G
  BY <1>4, <1>5
<1> QED BY <1>5, <1>6

LEMMA LeastOf ==
    ASSUME NEW S \in SUBSET Nat, S # {}
    PROVE  \E n \in S : \A m \in S : n <= m
<1>1. IsWellFoundedOn(OpToRel(<, Nat), Nat)
  BY NatLessThanWellFounded
<1>2. PICK n \in S : \A m \in S : ~ (<<m, n>> \in OpToRel(<, Nat))
  BY <1>1, WFMin
<1>3. \A m \in S : ~ (m < n)
  BY <1>2 DEF OpToRel
<1> QED BY <1>3

-----------------------------------------------------------------------------
(* Sequences in order. *)

StrictOrder(R, S) ==
    /\ \A a \in S : <<a, a>> \notin R
    /\ \A a, b \in S : a = b \/ <<a, b>> \in R \/ <<b, a>> \in R
    /\ \A a, b, c \in S : <<a, b>> \in R /\ <<b, c>> \in R => <<a, c>> \in R

Ascending(s, R) == \A i, j \in DOMAIN s : i < j => <<s[i], s[j]>> \in R

\* s has the elements of S, in the order R.
InOrder(s, R, S) ==
    /\ s \in Seq(S) /\ Ascending(s, R)
    /\ \A a \in S : \E i \in DOMAIN s : s[i] = a

LEMMA OrderOfFewer ==
    ASSUME NEW R, NEW S, StrictOrder(R, S), NEW T \in SUBSET S
    PROVE  StrictOrder(R, T)
BY DEF StrictOrder

\* One more element has one place.
LEMMA OneMoreInOrder ==
    ASSUME NEW R, NEW S, StrictOrder(R, S), NEW T \in SUBSET S, NEW x \in S \ T,
           NEW s, InOrder(s, R, T)
    PROVE  \E t : InOrder(t, R, T \cup {x})
<1>1. PICK n \in Nat : n = Len(s) /\ DOMAIN s = 1..n /\ \A i \in 1..n : s[i] \in T
  BY DEF InOrder
<1> DEFINE Behind == {i \in 1..n + 1 : i = n + 1 \/ <<s[i], x>> \notin R}
<1>2. PICK m \in Behind : \A i \in Behind : m <= i
  <2>1. Behind \in SUBSET Nat /\ n + 1 \in Behind
    OBVIOUS
  <2> HIDE DEF Behind
  <2> QED BY <2>1, LeastOf
<1>3. m \in 1..n + 1 /\ \A i \in 1..n : i < m => <<s[i], x>> \in R
  BY <1>2
<1>4. ASSUME NEW i \in 1..n, i >= m PROVE <<x, s[i]>> \in R
  <2>1. m \in 1..n /\ <<s[m], x>> \notin R
    BY <1>2, <1>4
  <2>2. s[m] \in T /\ s[i] \in T /\ s[m] # x
    BY <1>1, <2>1
  <2>3. <<x, s[m]>> \in R
    BY <2>1, <2>2 DEF StrictOrder
  <2>4. CASE i = m
    BY <2>3, <2>4
  <2>5. CASE m < i
    <3>1. <<s[m], s[i]>> \in R
      BY <1>1, <2>1, <2>5 DEF InOrder, Ascending
    <3> QED BY <2>2, <2>3, <3>1 DEF StrictOrder
  <2> QED BY <1>4, <2>1, <2>4, <2>5
<1>5. PICK t : t = [i \in 1..n + 1 |-> IF i < m THEN s[i] ELSE IF i = m THEN x ELSE s[i - 1]]
  OBVIOUS
<1>6. /\ DOMAIN t = 1..n + 1
      /\ \A i \in 1..n : i < m => t[i] = s[i]
      /\ t[m] = x
      /\ \A i \in 1..n : i >= m => t[i + 1] = s[i]
  BY <1>3, <1>5
<1>7. \A i \in 1..n + 1 : i = m \/ (i \in 1..n /\ i < m) \/ (i - 1 \in 1..n /\ i - 1 >= m /\ (i - 1) + 1 = i)
  BY <1>3
<1>8. t \in Seq(T \cup {x})
  <2>1. \A i \in 1..n + 1 : t[i] \in T \cup {x}
    BY <1>1, <1>6, <1>7
  <2>2. t \in [1..n + 1 -> T \cup {x}]
    BY <1>5, <2>1
  <2> QED BY <2>2
<1>9. \A i, j \in 1..n : i < j => <<s[i], s[j]>> \in R
  BY <1>1 DEF InOrder, Ascending
<1>10. ASSUME NEW i \in 1..n + 1, NEW j \in 1..n + 1, i < j PROVE <<t[i], t[j]>> \in R
  <2>1. CASE i \in 1..n /\ i < m /\ j \in 1..n /\ j < m
    BY <1>6, <1>9, <1>10, <2>1
  <2>2. CASE i \in 1..n /\ i < m /\ j = m
    BY <1>3, <1>6, <2>2
  <2>3. CASE i = m /\ j - 1 \in 1..n /\ j - 1 >= m
    BY <1>4, <1>6, <2>3
  <2>4. CASE i \in 1..n /\ i < m /\ j - 1 \in 1..n /\ j - 1 >= m
    <3>1. i < j - 1 /\ t[i] = s[i] /\ t[(j - 1) + 1] = s[j - 1]
      BY <1>6, <2>4
    <3> QED BY <1>9, <2>4, <3>1
  <2>5. CASE i - 1 \in 1..n /\ i - 1 >= m /\ j - 1 \in 1..n /\ j - 1 >= m
    <3>1. i - 1 < j - 1 /\ t[(i - 1) + 1] = s[i - 1] /\ t[(j - 1) + 1] = s[j - 1]
      BY <1>6, <1>10, <2>5
    <3> QED BY <1>9, <2>5, <3>1
  <2> QED BY <1>3, <1>7, <1>10, <2>1, <2>2, <2>3, <2>4, <2>5
<1>11. ASSUME NEW a \in T \cup {x} PROVE \E i \in 1..n + 1 : t[i] = a
  <2>1. CASE a = x
    BY <1>3, <1>6, <2>1
  <2>2. CASE a \in T
    <3>1. PICK i \in 1..n : s[i] = a
      BY <1>1, <2>2 DEF InOrder
    <3>2. i \in 1..n + 1 /\ i + 1 \in 1..n + 1
      OBVIOUS
    <3> QED BY <1>3, <1>6, <3>1, <3>2
  <2> QED BY <2>1, <2>2
<1>12. Ascending(t, R)
  BY <1>6, <1>10 DEF Ascending
<1> QED
  <2>1. \A a \in T \cup {x} : \E i \in DOMAIN t : t[i] = a
    BY <1>6, <1>11
  <2> QED BY <1>8, <1>12, <2>1 DEF InOrder

\* A finite set can be put in order.
LEMMA CanBeOrdered ==
    ASSUME NEW S, IsFiniteSet(S), NEW R, StrictOrder(R, S)
    PROVE  \E s : InOrder(s, R, S)
<1> DEFINE H == {n \in Nat : \A T \in SUBSET S : Cardinality(T) = n => \E s : InOrder(s, R, T)}
<1>1. \A T \in SUBSET S : IsFiniteSet(T) /\ Cardinality(T) \in Nat
  BY FS_Subset, FS_CardinalityType
<1>2. 0 \in H
  <2> SUFFICES ASSUME NEW T \in SUBSET S, Cardinality(T) = 0 PROVE \E s : InOrder(s, R, T)
    OBVIOUS
  <2>1. T = {}
    BY <1>1, FS_EmptySet
  <2>2. InOrder(<<>>, R, T)
    BY <2>1 DEF InOrder, Ascending
  <2> QED BY <2>2
<1>3. ASSUME NEW n \in Nat, n \in H PROVE n + 1 \in H
  <2> SUFFICES ASSUME NEW T \in SUBSET S, Cardinality(T) = n + 1 PROVE \E s : InOrder(s, R, T)
    OBVIOUS
  <2> HIDE DEF H
  <2>1. PICK x \in T : TRUE
    BY FS_EmptySet
  <2>2. PICK U : U = T \ {x}
    OBVIOUS
  <2>3. U \in SUBSET S /\ x \in S \ U /\ T = U \cup {x}
    BY <2>1, <2>2
  <2>4. Cardinality(U) = n
    <3>1. IsFiniteSet(T) /\ Cardinality(T \ {x}) = Cardinality(T) - 1
      BY <1>1, <2>1, FS_RemoveElement, Zenon
    <3> QED BY <2>2, <3>1
  <2>5. PICK s : InOrder(s, R, U)
    BY <1>3, <2>3, <2>4 DEF H
  <2> QED BY <2>3, <2>5, OneMoreInOrder
<1>4. \A n \in Nat : n \in H
  <2> HIDE DEF H
  <2> QED BY <1>2, <1>3, EveryNumber
<1> QED BY <1>1, <1>4

\* ... and in one way only.
LEMMA OneOrder ==
    ASSUME NEW R, NEW S, StrictOrder(R, S), NEW s, InOrder(s, R, S), NEW t, InOrder(t, R, S)
    PROVE  s = t
<1>1. PICK m \in Nat, n \in Nat : /\ m = Len(s) /\ DOMAIN s = 1..m /\ \A i \in 1..m : s[i] \in S
                                  /\ n = Len(t) /\ DOMAIN t = 1..n /\ \A i \in 1..n : t[i] \in S
  BY DEF InOrder
<1>2. /\ \A i, j \in 1..m : i < j => <<s[i], s[j]>> \in R
      /\ \A i, j \in 1..n : i < j => <<t[i], t[j]>> \in R
      /\ \A i \in 1..m : \E j \in 1..n : t[j] = s[i]
      /\ \A j \in 1..n : \E i \in 1..m : s[i] = t[j]
  BY <1>1 DEF InOrder, Ascending
<1>3. /\ \A a, b \in S : ~(<<a, b>> \in R /\ <<b, a>> \in R)
      /\ \A a \in S : <<a, a>> \notin R
  BY DEF StrictOrder
<1> DEFINE Unlike == {i \in Nat \ {0} : (i \in 1..m \/ i \in 1..n) /\ ~(i \in 1..m /\ i \in 1..n /\ s[i] = t[i])}
<1>4. SUFFICES ASSUME Unlike # {} PROVE FALSE
  <2>1. ASSUME Unlike = {} PROVE s = t
    <3>1. m = n
      BY <1>1, <2>1
    <3>2. \A i \in 1..m : s[i] = t[i]
      BY <1>1, <2>1
    <3>3. s \in [1..m -> S] /\ t \in [1..m -> S]
      BY <1>1, <3>1 DEF InOrder
    <3> QED BY <3>2, <3>3
  <2> QED BY <2>1
<1>5. PICK k \in Unlike : \A i \in Unlike : k <= i
  <2>1. Unlike \in SUBSET Nat
    OBVIOUS
  <2> HIDE DEF Unlike
  <2> QED BY <1>4, <2>1, LeastOf
<1>6. \A i \in Nat \ {0} : i < k /\ (i \in 1..m \/ i \in 1..n) => i \in 1..m /\ i \in 1..n /\ s[i] = t[i]
  BY <1>5
<1>7. ASSUME k \in 1..m PROVE k \in 1..n /\ <<t[k], s[k]>> \in R
  <2>1. PICK j \in 1..n : t[j] = s[k]
    BY <1>2, <1>7
  <2>2. ~(j < k)
    <3>1. SUFFICES ASSUME j < k PROVE FALSE
      OBVIOUS
    <3>2. j \in 1..m /\ j \in 1..n /\ s[j] = t[j]
      BY <1>6, <2>1, <3>1
    <3>3. <<s[j], s[k]>> \in R /\ s[j] = s[k] /\ s[k] \in S
      BY <1>1, <1>2, <1>7, <2>1, <3>1, <3>2
    <3> QED BY <1>3, <3>3
  <2>3. k \in 1..n
    BY <1>1, <1>7, <2>1, <2>2
  <2>4. j # k
    BY <1>5, <1>7, <2>1, <2>3
  <2> QED BY <1>2, <2>1, <2>2, <2>3, <2>4
<1>8. ASSUME k \in 1..n PROVE k \in 1..m /\ <<s[k], t[k]>> \in R
  <2>1. PICK j \in 1..m : s[j] = t[k]
    BY <1>2, <1>8
  <2>2. ~(j < k)
    <3>1. SUFFICES ASSUME j < k PROVE FALSE
      OBVIOUS
    <3>2. j \in 1..m /\ j \in 1..n /\ s[j] = t[j]
      BY <1>6, <2>1, <3>1
    <3>3. <<t[j], t[k]>> \in R /\ t[j] = t[k] /\ t[k] \in S
      BY <1>1, <1>2, <1>8, <2>1, <3>1, <3>2
    <3> QED BY <1>3, <3>3
  <2>3. k \in 1..m
    BY <1>1, <1>8, <2>1, <2>2
  <2>4. j # k
    BY <1>5, <1>8, <2>1, <2>3
  <2> QED BY <1>2, <2>1, <2>2, <2>3, <2>4
<1>9. k \in 1..m \/ k \in 1..n
  BY <1>5
<1> QED BY <1>1, <1>3, <1>7, <1>8, <1>9

\* What Among computes, as steps of a function.
LeftOf(s, set) ==
    LET left[n \in 0..Len(s)] ==
          IF n = 0 THEN <<>> ELSE IF s[n] \in set THEN Append(left[n - 1], s[n]) ELSE left[n - 1]
    IN  left

LEMMA LeftOfIs ==
    ASSUME NEW s, Len(s) \in Nat, NEW set
    PROVE  LET h == LeftOf(s, set)
           IN  /\ h[0] = <<>>
               /\ \A i \in Nat : i + 1 <= Len(s) =>
                    h[i + 1] = IF s[i + 1] \in set THEN Append(h[i], s[i + 1]) ELSE h[i]
<1> DEFINE More(g, i) == IF s[i] \in set THEN Append(g, s[i]) ELSE g
           Body(h, i) == IF i = 0 THEN <<>> ELSE More(h[i - 1], i)
           Is(h, m) == h = [i \in 0..m |-> Body(h, i)]
           H == {m \in Nat : \E h : Is(h, m)}
<1>1. \A h : Body(h, 0) = <<>>
  OBVIOUS
<1>2. \A h, k : \A i : i # 0 /\ h[i - 1] = k[i - 1] => Body(h, i) = Body(k, i)
  <2> HIDE DEF More
  <2> QED OBVIOUS
<1>3. \A h : \A i : i # 0 => Body(h, i) = More(h[i - 1], i)
  OBVIOUS
<1> HIDE DEF Body, More
<1>4. 0 \in H
  <2>1. PICK h : h = [i \in 0..0 |-> <<>>]
    OBVIOUS
  <2>2. Is(h, 0)
    BY <1>1, <2>1
  <2> QED BY <2>2
<1>5. ASSUME NEW m \in Nat, m \in H PROVE m + 1 \in H
  <2>1. PICK h : Is(h, m)
    BY <1>5
  <2>2. PICK k : k = [i \in 0..(m + 1) |-> Body(h, i)]
    OBVIOUS
  <2>3. \A i \in 0..m : k[i] = h[i]
    BY <2>1, <2>2
  <2>4. \A i \in 0..(m + 1) : Body(h, i) = Body(k, i)
    BY <1>1, <1>2, <2>3
  <2>5. Is(k, m + 1)
    BY <2>2, <2>4
  <2> HIDE DEF Is
  <2> QED BY <2>5
<1>6. \A m \in Nat : m \in H
  <2> HIDE DEF H
  <2> QED BY <1>4, <1>5, EveryNumber
<1>7. \E h : Is(h, Len(s))
  BY <1>6
<1>8. PICK h : Is(h, Len(s)) /\ h = CHOOSE g : Is(g, Len(s))
  BY <1>7
<1>9. h = LeftOf(s, set)
  BY <1>8, Zenon DEF LeftOf, Body, More
<1>10. \A i \in 0..Len(s) : h[i] = Body(h, i)
  BY <1>8
<1>11. h[0] = <<>>
  BY <1>1, <1>10
<1>12. ASSUME NEW i \in Nat, i + 1 <= Len(s) PROVE h[i + 1] = More(h[i], i + 1)
  <2>1. i + 1 \in 0..Len(s) /\ i + 1 # 0 /\ (i + 1) - 1 = i
    BY <1>12
  <2>2. h[i + 1] = More(h[(i + 1) - 1], i + 1)
    BY <1>3, <1>10, <2>1, Zenon
  <2> QED BY <2>1, <2>2
<1> QED BY <1>9, <1>11, <1>12 DEF More

\* The sequence g has the first n elements of s that are in the set, in their order.
FirstAmong(g, n, s, set, X, R) ==
    /\ g \in Seq(X \cap set)
    /\ \A j \in DOMAIN g : \E i \in 1..n : g[j] = s[i]
    /\ \A i \in 1..n : s[i] \in set => \E j \in DOMAIN g : g[j] = s[i]
    /\ Ascending(s, R) => Ascending(g, R)

LEMMA OneMoreAmong ==
    ASSUME NEW X, NEW s \in Seq(X), NEW set, NEW R, NEW n \in Nat, n + 1 <= Len(s), s[n + 1] \in set,
           NEW g, FirstAmong(g, n, s, set, X, R)
    PROVE  FirstAmong(Append(g, s[n + 1]), n + 1, s, set, X, R)
<1>1. PICK x \in X \cap set : x = s[n + 1]
  OBVIOUS
<1>2. PICK m \in Nat : m = Len(g) /\ DOMAIN g = 1..m /\ g \in Seq(X \cap set)
  BY DEF FirstAmong
<1>3. PICK h : h = Append(g, x)
  OBVIOUS
<1>4. /\ h \in Seq(X \cap set) /\ DOMAIN h = 1..m + 1
      /\ \A j \in 1..m : h[j] = g[j]
      /\ h[m + 1] = x
  BY <1>2, <1>3
<1>5. \A j \in DOMAIN h : \E i \in 1..n + 1 : h[j] = s[i]
  <2> SUFFICES ASSUME NEW j \in 1..m + 1 PROVE \E i \in 1..n + 1 : h[j] = s[i]
    BY <1>4
  <2>1. CASE j = m + 1
    BY <1>1, <1>4, <2>1
  <2>2. CASE j \in 1..m
    <3>1. PICK i \in 1..n : g[j] = s[i]
      BY <1>2, <2>2 DEF FirstAmong
    <3> QED BY <1>4, <2>2, <3>1
  <2> QED BY <2>1, <2>2
<1>6. ASSUME NEW i \in 1..n + 1, s[i] \in set PROVE \E j \in DOMAIN h : h[j] = s[i]
  <2>1. CASE i = n + 1
    BY <1>1, <1>4, <2>1
  <2>2. CASE i \in 1..n
    <3>1. PICK j \in 1..m : g[j] = s[i]
      BY <1>2, <1>6, <2>2 DEF FirstAmong
    <3>2. j \in 1..m + 1 /\ h[j] = s[i]
      BY <1>4, <3>1
    <3> QED BY <1>4, <3>2
  <2> QED BY <2>1, <2>2
<1>7. ASSUME Ascending(s, R), NEW i \in 1..m + 1, NEW j \in 1..m + 1, i < j PROVE <<h[i], h[j]>> \in R
  <2>1. CASE j \in 1..m
    <3>1. i \in 1..m /\ h[i] = g[i] /\ h[j] = g[j]
      BY <1>4, <1>7, <2>1
    <3> QED BY <1>2, <1>7, <2>1, <3>1 DEF FirstAmong, Ascending
  <2>2. CASE j = m + 1
    <3>1. i \in 1..m /\ h[i] = g[i] /\ h[j] = s[n + 1]
      BY <1>1, <1>4, <1>7, <2>2
    <3>2. PICK k \in 1..n : g[i] = s[k]
      BY <1>2, <3>1 DEF FirstAmong
    <3>3. k \in DOMAIN s /\ n + 1 \in DOMAIN s /\ k < n + 1
      OBVIOUS
    <3> QED BY <1>7, <3>1, <3>2, <3>3 DEF Ascending
  <2> QED BY <2>1, <2>2
<1>8. Ascending(s, R) => Ascending(h, R)
  BY <1>4, <1>7 DEF Ascending
<1> QED BY <1>1, <1>3, <1>4, <1>5, <1>6, <1>8 DEF FirstAmong

LEMMA AmongIs ==
    ASSUME NEW X, NEW s \in Seq(X), NEW set, NEW R
    PROVE  FirstAmong(Among(s, set), Len(s), s, set, X, R)
<1> DEFINE h == LeftOf(s, set)
           H == {n \in Nat : n <= Len(s) => FirstAmong(h[n], n, s, set, X, R)}
<1>1. /\ h[0] = <<>>
      /\ \A i \in Nat : i + 1 <= Len(s) =>
           h[i + 1] = IF s[i + 1] \in set THEN Append(h[i], s[i + 1]) ELSE h[i]
  BY LeftOfIs
<1> HIDE DEF h
<1>2. 0 \in H
  <2>1. <<>> \in Seq(X \cap set) /\ DOMAIN <<>> = {}
    OBVIOUS
  <2>2. FirstAmong(<<>>, 0, s, set, X, R)
    BY <2>1 DEF FirstAmong, Ascending
  <2> QED BY <1>1, <2>2
<1>3. ASSUME NEW n \in Nat, n \in H PROVE n + 1 \in H
  <2> SUFFICES ASSUME n + 1 <= Len(s) PROVE FirstAmong(h[n + 1], n + 1, s, set, X, R)
    OBVIOUS
  <2>1. FirstAmong(h[n], n, s, set, X, R)
    BY <1>3
  <2>2. CASE s[n + 1] \in set
    BY <1>1, <2>1, <2>2, OneMoreAmong
  <2>3. CASE s[n + 1] \notin set
    <3>1. h[n + 1] = h[n]
      BY <1>1, <2>3
    <3>2. \A i \in 1..n + 1 : s[i] \in set => i \in 1..n
      BY <2>3
    <3>3. \A j \in DOMAIN h[n] : \E i \in 1..n + 1 : h[n][j] = s[i]
      BY <2>1 DEF FirstAmong
    <3> QED BY <2>1, <3>1, <3>2, <3>3 DEF FirstAmong
  <2> QED BY <2>2, <2>3
<1>4. \A n \in Nat : n \in H
  <2> HIDE DEF H
  <2> QED BY <1>2, <1>3, EveryNumber
<1>5. FirstAmong(h[Len(s)], Len(s), s, set, X, R)
  BY <1>4
<1>6. Among(s, set) = h[Len(s)]
  BY Zenon DEF Among, LeftOf, h
<1> QED BY <1>5, <1>6

LEMMA AmongInOrder ==
    ASSUME NEW S, NEW s, NEW R, InOrder(s, R, S), NEW set
    PROVE  InOrder(Among(s, set), R, S \cap set)
<1>1. s \in Seq(S) /\ DOMAIN s = 1..Len(s)
  BY DEF InOrder
<1>2. FirstAmong(Among(s, set), Len(s), s, set, S, R)
  BY <1>1, AmongIs
<1>3. ASSUME NEW a \in S \cap set PROVE \E j \in DOMAIN Among(s, set) : Among(s, set)[j] = a
  <2>1. PICK i \in 1..Len(s) : s[i] = a
    BY <1>1 DEF InOrder
  <2> QED BY <1>2, <2>1 DEF FirstAmong
<1> QED BY <1>2, <1>3 DEF InOrder, FirstAmong

-----------------------------------------------------------------------------
(* One element moved by one place. *)

LEMMA RemoveAtIs ==
    ASSUME NEW X, NEW s \in Seq(X), NEW i \in 1..Len(s)
    PROVE  /\ RemoveAt(s, i) \in Seq(X) /\ Len(RemoveAt(s, i)) = Len(s) - 1
           /\ \A j \in 1..Len(s) - 1 : RemoveAt(s, i)[j] = IF j < i THEN s[j] ELSE s[j + 1]
<1>1. PICK before : before = SubSeq(s, 1, i - 1)
  OBVIOUS
<1>2. PICK after : after = SubSeq(s, i + 1, Len(s))
  OBVIOUS
<1>3. before \in Seq(X) /\ Len(before) = i - 1 /\ \A j \in 1..i - 1 : before[j] = s[j]
  BY <1>1
<1>4. after \in Seq(X) /\ Len(after) = Len(s) - i /\ \A j \in 1..Len(s) - i : after[j] = s[i + j]
  BY <1>2
<1>5. PICK r : r = before \o after
  OBVIOUS
<1>6. r \in Seq(X) /\ Len(r) = Len(s) - 1
  BY <1>3, <1>4, <1>5
<1>7. ASSUME NEW j \in 1..Len(s) - 1 PROVE r[j] = IF j < i THEN s[j] ELSE s[j + 1]
  <2>1. CASE j < i
    BY <1>3, <1>4, <1>5, <2>1
  <2>2. CASE ~(j < i)
    <3>1. j - (i - 1) \in 1..Len(s) - i /\ i + (j - (i - 1)) = j + 1
      BY <2>2
    <3>2. r[j] = after[j - (i - 1)]
      BY <1>3, <1>4, <1>5, <2>2, <3>1
    <3> QED BY <1>4, <2>2, <3>1, <3>2
  <2> QED BY <2>1, <2>2
<1>8. RemoveAt(s, i) = r
  BY <1>1, <1>2, <1>5 DEF RemoveAt
<1> QED BY <1>6, <1>7, <1>8

LEMMA InsertAtIs ==
    ASSUME NEW X, NEW s \in Seq(X), NEW i \in 1..Len(s) + 1, NEW x \in X
    PROVE  /\ InsertAt(s, i, x) \in Seq(X) /\ Len(InsertAt(s, i, x)) = Len(s) + 1
           /\ \A j \in 1..Len(s) + 1 :
                InsertAt(s, i, x)[j] = IF j < i THEN s[j] ELSE IF j = i THEN x ELSE s[j - 1]
<1>1. PICK before : before = SubSeq(s, 1, i - 1)
  OBVIOUS
<1>2. PICK after : after = SubSeq(s, i, Len(s))
  OBVIOUS
<1>3. before \in Seq(X) /\ Len(before) = i - 1 /\ \A j \in 1..i - 1 : before[j] = s[j]
  BY <1>1
<1>4. after \in Seq(X) /\ Len(after) = Len(s) + 1 - i /\ \A j \in 1..Len(s) + 1 - i : after[j] = s[i + j - 1]
  BY <1>2
<1>5. PICK r : r = Append(before, x)
  OBVIOUS
<1>6. r \in Seq(X) /\ Len(r) = i /\ r[i] = x /\ \A j \in 1..i - 1 : r[j] = s[j]
  BY <1>3, <1>5
<1>7. PICK q : q = r \o after
  OBVIOUS
<1>8. q \in Seq(X) /\ Len(q) = Len(s) + 1
  <2>1. q \in Seq(X) /\ Len(q) = Len(r) + Len(after)
    <3>1. r \in Seq(X) /\ after \in Seq(X)
      BY <1>4, <1>6
    <3> QED BY <1>7, <3>1
  <2>2. Len(s) \in Nat /\ i \in Int
    OBVIOUS
  <2> QED BY <1>4, <1>6, <2>1, <2>2
<1>9. ASSUME NEW j \in 1..Len(s) + 1
      PROVE  q[j] = IF j < i THEN s[j] ELSE IF j = i THEN x ELSE s[j - 1]
  <2>1. CASE j <= i
    BY <1>4, <1>6, <1>7, <2>1
  <2>2. CASE ~(j <= i)
    <3>1. j - i \in 1..Len(s) + 1 - i /\ i + (j - i) - 1 = j - 1
      BY <2>2
    <3>2. q[j] = after[j - i]
      BY <1>4, <1>6, <1>7, <2>2, <3>1
    <3> QED BY <1>4, <2>2, <3>1, <3>2
  <2> QED BY <2>1, <2>2
<1>10. InsertAt(s, i, x) = q
  <2>1. r = before \o <<x>>
    BY <1>3, <1>5
  <2> QED BY <1>1, <1>2, <1>7, <2>1 DEF InsertAt
<1> QED BY <1>8, <1>9, <1>10

\* A field that is taken out and put in one place on changes places with the other.
LEMMA MovedIs ==
    ASSUME NEW X, NEW s \in Seq(X), NEW i \in 1..Len(s), NEW k \in 1..Len(s), k = i + 1 \/ k = i - 1
    PROVE  InsertAt(RemoveAt(s, i), k, s[i]) = [s EXCEPT ![i] = s[k], ![k] = s[i]]
<1>1. PICK r \in Seq(X) : r = RemoveAt(s, i) /\ Len(r) = Len(s) - 1
                         /\ \A j \in 1..Len(s) - 1 : r[j] = IF j < i THEN s[j] ELSE s[j + 1]
  BY RemoveAtIs
<1>2. PICK q \in Seq(X) : /\ q = InsertAt(r, k, s[i]) /\ Len(q) = Len(s)
                         /\ \A j \in 1..Len(s) : q[j] = IF j < k THEN r[j] ELSE IF j = k THEN s[i] ELSE r[j - 1]
  <2>1. k \in 1..Len(r) + 1 /\ s[i] \in X /\ Len(r) + 1 = Len(s)
    BY <1>1
  <2>2. PICK x \in X : x = s[i]
    BY <2>1
  <2>3. /\ InsertAt(r, k, x) \in Seq(X)
        /\ Len(InsertAt(r, k, x)) = Len(r) + 1
        /\ \A j \in 1..Len(r) + 1 :
             InsertAt(r, k, x)[j] = IF j < k THEN r[j] ELSE IF j = k THEN x ELSE r[j - 1]
    <3>1. r \in Seq(X) /\ x \in X /\ k \in 1..Len(r) + 1
      BY <1>1, <2>1, <2>2
    <3>2. InsertAt(r, k, x) \in Seq(X)
      BY <3>1, InsertAtIs
    <3>3. Len(InsertAt(r, k, x)) = Len(r) + 1
      BY <3>1, InsertAtIs
    <3>4. ASSUME NEW j \in 1..Len(r) + 1
          PROVE  InsertAt(r, k, x)[j] = IF j < k THEN r[j] ELSE IF j = k THEN x ELSE r[j - 1]
      BY <3>1, InsertAtIs
    <3> QED BY <3>2, <3>3, <3>4
  <2>4. PICK q : q = InsertAt(r, k, x)
    OBVIOUS
  <2>5. q \in Seq(X) /\ Len(q) = Len(s)
    BY <2>1, <2>3, <2>4
  <2>6. \A j \in 1..Len(s) : q[j] = IF j < k THEN r[j] ELSE IF j = k THEN s[i] ELSE r[j - 1]
    BY <2>1, <2>2, <2>3, <2>4
  <2> QED BY <2>2, <2>4, <2>5, <2>6
<1>3. ASSUME NEW j \in 1..Len(s) PROVE q[j] = IF j = i THEN s[k] ELSE IF j = k THEN s[i] ELSE s[j]
  <2>1. CASE j < k
    <3>1. j \in 1..Len(s) - 1 /\ q[j] = r[j]
      BY <1>2, <2>1
    <3> QED BY <1>1, <2>1, <3>1
  <2>2. CASE j = k
    BY <1>2, <2>2
  <2>3. CASE j > k
    <3>1. j - 1 \in 1..Len(s) - 1 /\ q[j] = r[j - 1]
      BY <1>2, <2>3
    <3> QED BY <1>1, <2>3, <3>1
  <2> QED BY <2>1, <2>2, <2>3
<1>4. PICK t : t = [s EXCEPT ![i] = s[k], ![k] = s[i]]
  OBVIOUS
<1>5. t \in [1..Len(s) -> X] /\ \A j \in 1..Len(s) : t[j] = IF j = i THEN s[k] ELSE IF j = k THEN s[i] ELSE s[j]
  <2>1. s \in [1..Len(s) -> X] /\ i # k
    OBVIOUS
  <2> QED BY <1>4, <2>1
<1>6. q \in [1..Len(s) -> X]
  BY <1>2
<1>7. q = t
  BY <1>3, <1>5, <1>6
<1> QED BY <1>1, <1>2, <1>4, <1>7

-----------------------------------------------------------------------------
(* The form. *)

FormInv ==
    /\ inputs \in Seq(Names)
    /\ app \in [Names -> [hidden : BOOLEAN, locked : BOOLEAN, order : Int \cup {Unset}]]

Order == {pair \in Names \X Names : Before(pair[1], pair[2])}

\* Every input has a place of its own, and so the sort key orders the inputs strictly.
LEMMA InputsHaveOrder ==
    ASSUME FormInv
    PROVE  Range(inputs) \subseteq Names /\ StrictOrder(Order, Range(inputs)) /\ IsFiniteSet(Range(inputs))
<1>1. DOMAIN inputs = 1..Len(inputs) /\ Len(inputs) \in Nat /\ Range(inputs) \subseteq Names
  BY DEF FormInv, Range
<1>2. ASSUME NEW a \in Range(inputs)
      PROVE  Position(a) \in 1..Len(inputs) /\ inputs[Position(a)] = a /\ SortKey(a) \in Int
  <2>1. Position(a) \in 1..Len(inputs) /\ inputs[Position(a)] = a
    BY <1>1 DEF Position, Range
  <2>2. app[a].order \in Int \cup {Unset}
    BY <1>1 DEF FormInv
  <2> QED BY <2>1, <2>2 DEF SortKey
<1>3. \A a, b \in Range(inputs) : <<a, b>> \in Order <=> Before(a, b)
  BY <1>1 DEF Order
<1>4. StrictOrder(Order, Range(inputs))
  <2>1. \A a \in Range(inputs) : ~Before(a, a)
    BY <1>2 DEF Before
  <2>2. \A a, b \in Range(inputs) : a = b \/ Before(a, b) \/ Before(b, a)
    BY <1>2 DEF Before
  <2>3. \A a, b, c \in Range(inputs) : Before(a, b) /\ Before(b, c) => Before(a, c)
    BY <1>2 DEF Before
  <2> QED BY <1>3, <2>1, <2>2, <2>3 DEF StrictOrder
<1>5. IsFiniteSet(Range(inputs))
  <2>1. inputs \in Surjection(1..Len(inputs), Range(inputs))
    BY <1>1 DEF Surjection, Range, FormInv
  <2>2. IsFiniteSet(1..Len(inputs))
    BY <1>1, FS_Interval
  <2> QED BY <2>1, <2>2, FS_Surjection
<1> QED BY <1>1, <1>4, <1>5

\* The sort returns the visible fields in their order.
LEMMA FieldsInOrder ==
    ASSUME FormInv
    PROVE  StrictOrder(Order, Visible) /\ InOrder(appFields, Order, Visible)
<1>1. Visible \subseteq Range(inputs)
  BY DEF Visible
<1>2. StrictOrder(Order, Visible) /\ IsFiniteSet(Visible) /\ Visible \subseteq Names
  BY <1>1, InputsHaveOrder, OrderOfFewer, FS_Subset
<1>3. PICK n \in Nat : n = Cardinality(Visible) /\ IsFiniteSet(1..n) /\ Cardinality(1..n) = n
  BY <1>2, FS_CardinalityType, FS_Interval
<1>4. \A a, b \in Visible : <<a, b>> \in Order <=> Before(a, b)
  BY <1>2 DEF Order
<1>5. PICK s : InOrder(s, Order, Visible)
  BY <1>2, CanBeOrdered
<1>6. s \in [1..n -> Visible] /\ \A i, j \in DOMAIN s : i < j => Before(s[i], s[j])
  <2>1. DOMAIN s = 1..Len(s) /\ Len(s) \in Nat /\ s \in [1..Len(s) -> Visible]
    BY <1>5 DEF InOrder
  <2>2. \A i, j \in 1..Len(s) : i < j => <<s[i], s[j]>> \in Order /\ s[i] # s[j]
    BY <1>2, <1>5, <2>1 DEF InOrder, Ascending, StrictOrder
  <2>3. IsInjective(s)
    <3>1. \A i, j \in 1..Len(s) : i = j \/ i < j \/ j < i
      BY <2>1
    <3> QED BY <2>1, <2>2, <3>1 DEF IsInjective
  <2>4. \A a \in Visible : \E i \in 1..Len(s) : s[i] = a
    BY <1>5, <2>1 DEF InOrder
  <2>5. s \in Bijection(1..Len(s), Visible)
    BY <2>1, <2>3, <2>4 DEF Bijection, Injection, Surjection
  <2>6. IsFiniteSet(1..Len(s)) /\ Cardinality(1..Len(s)) = Len(s)
    <3>1. PICK k \in Nat : k = Len(s)
      BY <2>1
    <3>2. IsFiniteSet(1..k) /\ Cardinality(1..k) = k
      BY FS_Interval
    <3> QED BY <3>1, <3>2
  <2>7. Len(s) = n
    BY <1>3, <2>5, <2>6, FS_Bijection DEF ExistsBijection
  <2> QED BY <1>4, <2>1, <2>2, <2>7
<1>7. PICK fields : /\ fields = appFields /\ fields \in [1..n -> Visible]
                    /\ \A i, j \in DOMAIN fields : i < j => Before(fields[i], fields[j])
  BY <1>3, <1>6 DEF appFields
<1>8. DOMAIN fields = 1..n /\ fields \in Seq(Visible) /\ Ascending(fields, Order)
  BY <1>4, <1>7 DEF Ascending
<1>9. IsInjective(fields)
  <2>1. \A i, j \in 1..n : i < j => fields[i] # fields[j]
    BY <1>2, <1>7, <1>8 DEF Ascending, StrictOrder
  <2> QED BY <1>8, <2>1 DEF IsInjective
<1>10. fields \in Surjection(1..n, Visible)
  <2>1. fields \in Injection(1..n, Visible)
    BY <1>7, <1>9 DEF Injection
  <2> QED BY <1>2, <1>3, <2>1, FS_Injection
<1>11. \A a \in Visible : \E i \in DOMAIN fields : fields[i] = a
  BY <1>8, <1>10 DEF Surjection
<1> QED BY <1>2, <1>7, <1>8, <1>11 DEF InOrder

LEMMA FieldsInOrderNext ==
    FormInv' => StrictOrder(Order, Visible)' /\ InOrder(appFields, Order, Visible)'
<1>1. FormInv => StrictOrder(Order, Visible) /\ InOrder(appFields, Order, Visible)
  BY FieldsInOrder
<1> QED BY <1>1, PTL

LEMMA FormBegins == FormInit => FormInv
<1> SUFFICES ASSUME FormInit PROVE FormInv
  OBVIOUS
<1>1. inputs \in Seq(Names)
  <2>1. inputs \in [1..2 -> Names]
    BY DEF FormInit, FirstInputs
  <2>2. \A n \in Nat : [1..n -> Names] \subseteq Seq(Names)
    OBVIOUS
  <2> QED BY <2>1, <2>2
<1>2. Unarranged \in [hidden : BOOLEAN, locked : BOOLEAN, order : Int \cup {Unset}]
  BY DEF Unarranged
<1> QED BY <1>1, <1>2 DEF FormInit, FormInv

\* What a toggle of a field leaves alone.
LEMMA ToggleKeeps ==
    ASSUME FormInv, NEW name \in Names, ToggleHidden(name) \/ ToggleLocked(name)
    PROVE  /\ FormInv' /\ inputs' = inputs
           /\ \A other \in Names : app'[other].order = app[other].order
           /\ ToggleLocked(name) => \A other \in Names : app'[other].hidden = app[other].hidden
<1> DEFINE Field == [hidden : BOOLEAN, locked : BOOLEAN, order : Int \cup {Unset}]
<1>1. inputs' = inputs /\ app \in [Names -> Field] /\ inputs \in Seq(Names)
  BY DEF FormInv, ToggleHidden, ToggleLocked, patchField
<1>2. CASE ToggleHidden(name)
  <2>1. app' = [app EXCEPT ![name] = [@ EXCEPT !.hidden = ~app[name].hidden]]
    BY <1>2 DEF ToggleHidden, patchField
  <2>2. [app[name] EXCEPT !.hidden = ~app[name].hidden] \in Field
    BY <1>1
  <2>3. app' \in [Names -> Field]
    BY <1>1, <2>1, <2>2
  <2>4. \A other \in Names : app'[other].order = app[other].order
    BY <1>1, <2>1
  <2>5. ToggleLocked(name) => \A other \in Names : app'[other].hidden = app[other].hidden
    <3>1. SUFFICES ASSUME ToggleLocked(name) PROVE FALSE
      OBVIOUS
    <3>2. app'[name].hidden = ~app[name].hidden
      BY <1>1, <2>1
    <3>3. app' = [app EXCEPT ![name] = [@ EXCEPT !.locked = ~app[name].locked]]
      BY <3>1 DEF ToggleLocked, patchField
    <3>4. app'[name].hidden = app[name].hidden
      BY <1>1, <3>3
    <3>5. app[name].hidden \in BOOLEAN
      BY <1>1
    <3> QED BY <3>2, <3>4, <3>5
  <2> QED BY <1>1, <2>3, <2>4, <2>5 DEF FormInv
<1>3. CASE ToggleLocked(name)
  <2>1. app' = [app EXCEPT ![name] = [@ EXCEPT !.locked = ~app[name].locked]]
    BY <1>3 DEF ToggleLocked, patchField
  <2>2. [app[name] EXCEPT !.locked = ~app[name].locked] \in Field
    BY <1>1
  <2>3. app' \in [Names -> Field]
    BY <1>1, <2>1, <2>2
  <2>4. \A other \in Names : app'[other].order = app[other].order /\ app'[other].hidden = app[other].hidden
    BY <1>1, <2>1
  <2> QED BY <1>1, <2>3, <2>4 DEF FormInv
<1> QED BY <1>2, <1>3

\* The form after a move: two neighbours have changed places, and the orders say so.
Swapped(i, next) ==
    /\ i \in 1..Len(appFields) - 1
    /\ next = [appFields EXCEPT ![i] = appFields[i + 1], ![i + 1] = appFields[i]]

LEMMA MoveSwaps ==
    ASSUME FormInv, NEW name \in Names, NEW direction \in {-1, 1}, moveField(name, direction)
    PROVE  FormInv' /\ inputs' = inputs /\ Visible' = Visible
           /\ \E i \in Nat : \E next : Swapped(i, next) /\ appFields' = next
<1> DEFINE Field == [hidden : BOOLEAN, locked : BOOLEAN, order : Int \cup {Unset}]
<1>1. StrictOrder(Order, Visible) /\ InOrder(appFields, Order, Visible) /\ Visible \subseteq Names
  BY FieldsInOrder, InputsHaveOrder DEF Visible
<1>2. PICK f : f = appFields
  OBVIOUS
<1>2a. PICK n \in Nat : n = Len(f) /\ DOMAIN f = 1..n /\ f \in Seq(Visible) /\ f \in [1..n -> Visible]
  BY <1>1, <1>2 DEF InOrder
<1>3. /\ \A a \in Visible : \E i \in 1..n : f[i] = a
      /\ \A i, j \in 1..n : f[i] = f[j] => i = j
  <2>1. \A i, j \in 1..n : i < j => f[i] # f[j]
    BY <1>1, <1>2, <1>2a DEF InOrder, Ascending, StrictOrder
  <2> QED BY <1>1, <1>2, <1>2a, <2>1 DEF InOrder
<1>4. PICK i : i = CHOOSE j \in DOMAIN appFields : appFields[j] = name
  OBVIOUS
<1>5. i \in 1..n /\ f[i] = name /\ i + direction \in 1..n
  <2>1. name \in Visible /\ i + direction \in DOMAIN appFields
    BY <1>4 DEF moveField
  <2> QED BY <1>2, <1>2a, <1>3, <1>4, <2>1
<1>6. PICK k \in 1..n : k = i + direction /\ (k = i + 1 \/ k = i - 1)
  BY <1>5
<1>7. PICK next : next = InsertAt(RemoveAt(appFields, i), k, name)
  OBVIOUS
<1>8. next = [f EXCEPT ![i] = f[k], ![k] = f[i]]
  <2>1. f \in Seq(Visible) /\ i \in 1..Len(f) /\ k \in 1..Len(f)
    BY <1>2a, <1>5, <1>6
  <2>2. InsertAt(RemoveAt(f, i), k, f[i]) = [f EXCEPT ![i] = f[k], ![k] = f[i]]
    BY <1>6, <2>1, MovedIs
  <2> QED BY <1>2, <1>5, <1>7, <2>2
<1>9. /\ DOMAIN next = 1..n /\ next \in [1..n -> Visible]
      /\ \A j \in 1..n : next[j] = IF j = i THEN f[k] ELSE IF j = k THEN f[i] ELSE f[j]
  <2>1. f[i] \in Visible /\ f[k] \in Visible
    BY <1>2a, <1>5, <1>6
  <2>2. next \in [1..n -> Visible]
    BY <1>2a, <1>8, <2>1
  <2>3. ASSUME NEW j \in 1..n
        PROVE  next[j] = IF j = i THEN f[k] ELSE IF j = k THEN f[i] ELSE f[j]
    BY <1>2a, <1>5, <1>6, <1>8
  <2> QED BY <2>2, <2>3
<1>10. /\ \A a \in Visible : \E j \in 1..n : next[j] = a
       /\ \A j, m \in 1..n : next[j] = next[m] => j = m
  <2>1. ASSUME NEW j \in 1..n, NEW m \in 1..n, next[j] = next[m] PROVE j = m
    <3> DEFINE Other(l) == IF l = i THEN k ELSE IF l = k THEN i ELSE l
    <3>1. /\ Other(j) \in 1..n /\ next[j] = f[Other(j)]
          /\ Other(m) \in 1..n /\ next[m] = f[Other(m)]
      BY <1>5, <1>6, <1>9
    <3>2. Other(j) = Other(m)
      <4> HIDE DEF Other
      <4> QED BY <1>3, <2>1, <3>1
    <3> QED BY <1>6, <3>2
  <2>2. ASSUME NEW a \in Visible PROVE \E j \in 1..n : next[j] = a
    <3>1. PICK j \in 1..n : f[j] = a
      BY <1>3
    <3>2. next[IF j = i THEN k ELSE IF j = k THEN i ELSE j] = a
      BY <1>5, <1>6, <1>9, <3>1
    <3> QED BY <1>5, <1>6, <3>1, <3>2
  <2> QED BY <2>1, <2>2
<1>11. /\ inputs' = inputs
       /\ app' = [other \in Names |->
                    IF other \in Visible
                    THEN [app[other] EXCEPT !.order = (CHOOSE j \in DOMAIN next : next[j] = other) - 1]
                    ELSE app[other]]
  BY <1>4, <1>6, <1>7 DEF moveField
<1>12. PICK place : place = [other \in Visible |-> CHOOSE j \in DOMAIN next : next[j] = other]
  OBVIOUS
<1>13. \A other \in Visible : place[other] \in 1..n /\ next[place[other]] = other
  BY <1>9, <1>10, <1>12
<1>14. app \in [Names -> Field]
  BY DEF FormInv
<1>15. \A other \in Names :
          /\ app'[other] \in Field /\ app'[other].hidden = app[other].hidden
          /\ other \in Visible => app'[other].order = place[other] - 1
  <2> SUFFICES ASSUME NEW other \in Names
               PROVE  /\ app'[other] \in Field /\ app'[other].hidden = app[other].hidden
                      /\ other \in Visible => app'[other].order = place[other] - 1
    OBVIOUS
  <2>1. app[other] \in Field
    BY <1>14
  <2>2. CASE other \in Visible
    <3>1. place[other] - 1 \in Int
      BY <1>13, <2>2
    <3>2. app'[other] = [app[other] EXCEPT !.order = place[other] - 1]
      BY <1>11, <1>12, <2>2
    <3> QED BY <2>1, <3>1, <3>2
  <2>3. CASE other \notin Visible
    BY <1>11, <2>1, <2>3
  <2> QED BY <2>2, <2>3
<1>16. FormInv'
  <2>1. app' \in [Names -> Field]
    BY <1>11, <1>15
  <2> QED BY <1>11, <2>1 DEF FormInv
<1>17. Visible' = Visible
  <2>1. Range(inputs) \subseteq Names
    BY InputsHaveOrder
  <2> QED BY <1>11, <1>15, <2>1 DEF Visible
<1>18. InOrder(next, Order', Visible')
  <2>1. \A j \in 1..n : SortKey(next[j])' = j - 1
    <3> SUFFICES ASSUME NEW j \in 1..n PROVE SortKey(next[j])' = j - 1
      OBVIOUS
    <3>1. next[j] \in Visible /\ next[j] \in Names
      BY <1>1, <1>9
    <3>2. place[next[j]] = j
      BY <1>10, <1>13, <3>1
    <3>3. app'[next[j]].order = j - 1 /\ j - 1 # Unset
      BY <1>15, <3>1, <3>2, FormAssumption
    <3> QED BY <3>3 DEF SortKey
  <2>2. ASSUME NEW j \in 1..n, NEW m \in 1..n, j < m PROVE <<next[j], next[m]>> \in Order'
    <3>1. next[j] \in Names /\ next[m] \in Names
      BY <1>1, <1>9
    <3>2. SortKey(next[j])' < SortKey(next[m])'
      BY <2>1, <2>2
    <3>3. Before(next[j], next[m])'
      BY <3>2 DEF Before
    <3> QED BY <3>1, <3>3 DEF Order
  <2>3. Ascending(next, Order')
    BY <1>9, <2>2 DEF Ascending
  <2>4. next \in Seq(Visible)
    BY <1>9
  <2> QED BY <1>9, <1>10, <1>17, <2>3, <2>4 DEF InOrder
<1>19. appFields' = next
  <2>1. StrictOrder(Order', Visible') /\ InOrder(appFields', Order', Visible')
    BY <1>16, FieldsInOrderNext DEF StrictOrder, InOrder, Ascending
  <2> QED BY <1>18, <2>1, OneOrder
<1>20. \E j \in Nat : Swapped(j, next)
  <2>1. CASE k = i + 1
    <3>1. i \in Nat /\ i \in 1..n - 1
      BY <1>5, <2>1
    <3>2. Swapped(i, next)
      BY <1>2, <1>2a, <1>8, <2>1, <3>1 DEF Swapped
    <3> QED BY <3>1, <3>2
  <2>2. CASE k = i - 1
    <3>1. k \in Nat /\ k \in 1..n - 1 /\ i = k + 1
      BY <1>5, <2>2
    <3>2. next = [f EXCEPT ![k] = f[i], ![i] = f[k]]
      <4>1. PICK t : t = [f EXCEPT ![k] = f[i], ![i] = f[k]]
        OBVIOUS
      <4>2. t \in [1..n -> Visible] /\ \A j \in 1..n : t[j] = IF j = i THEN f[k] ELSE IF j = k THEN f[i] ELSE f[j]
        BY <1>2a, <1>5, <3>1, <4>1
      <4>3. t = next
        BY <1>9, <4>2
      <4> QED BY <4>1, <4>3
    <3>3. Swapped(k, next)
      BY <1>2, <1>2a, <3>1, <3>2 DEF Swapped
    <3> QED BY <3>1, <3>3
  <2> QED BY <1>6, <2>1, <2>2
<1> QED BY <1>11, <1>16, <1>17, <1>19, <1>20

LEMMA EditKeeps ==
    ASSUME FormInv, EditInputs
    PROVE  FormInv' /\ app' = app
<1>1. app' = app /\ inputs \in Seq(Names)
  BY DEF EditInputs, FormInv
<1>2. \A name \in Names : Among(inputs, Names \ {name}) \in Seq(Names)
  <2> SUFFICES ASSUME NEW name \in Names PROVE Among(inputs, Names \ {name}) \in Seq(Names)
    OBVIOUS
  <2>1. Among(inputs, Names \ {name}) \in Seq(Names \cap (Names \ {name}))
    BY <1>1, AmongIs DEF FirstAmong
  <2> QED BY <2>1
<1>3. Range(inputs) \subseteq Names
  BY InputsHaveOrder
<1>4. inputs' \in Seq(Names)
  <2>1. CASE \E name \in Names \ Range(inputs) : inputs' = Append(inputs, name)
    BY <1>1, <2>1
  <2>2. CASE \E name \in Range(inputs) : inputs' = Among(inputs, Names \ {name})
    BY <1>2, <1>3, <2>2
  <2>3. CASE \E name \in Range(inputs), other \in Names \ Range(inputs) :
               inputs' = Append(Among(inputs, Names \ {name}), other)
    BY <1>2, <1>3, <2>3
  <2> QED BY <2>1, <2>2, <2>3 DEF EditInputs
<1> QED BY <1>1, <1>4 DEF FormInv

LEMMA FormStep == FormInv /\ [FormNext]_formVars => FormInv'
<1> SUFFICES ASSUME FormInv, [FormNext]_formVars PROVE FormInv'
  OBVIOUS
<1>1. CASE UNCHANGED formVars
  BY <1>1 DEF FormInv, formVars
<1>2. CASE EditInputs
  BY <1>2, EditKeeps
<1>3. CASE \E name \in Names : ToggleHidden(name) \/ ToggleLocked(name)
  BY <1>3, ToggleKeeps
<1>4. CASE \E name \in Names : moveField(name, -1) \/ moveField(name, 1)
  BY <1>4, MoveSwaps
<1> QED BY <1>1, <1>2, <1>3, <1>4 DEF FormNext

\* A step that changes no order leaves the fields that are seen before and
\* after it as they were.
LEMMA SameOrder ==
    ASSUME FormInv, FormInv', inputs' = inputs, \A name \in Names : app'[name].order = app[name].order
    PROVE  Among(appFields', Visible) = Among(appFields, Visible')
<1>1. \A name \in Names : Position(name)' = Position(name)
  BY DEF Position
<1>2. \A name \in Names : SortKey(name)' = SortKey(name)
  BY <1>1 DEF SortKey
<1>3. \A a, b \in Names : Before(a, b)' = Before(a, b)
  BY <1>1, <1>2 DEF Before
<1>4. Order' = Order
  BY <1>3 DEF Order
<1>5. InOrder(appFields, Order, Visible) /\ StrictOrder(Order, Visible)
  BY FieldsInOrder
<1>6. InOrder(appFields', Order, Visible')
  BY <1>4, FieldsInOrderNext
<1>7. PICK here : here = Visible \cap Visible'
  OBVIOUS
<1>8. InOrder(Among(appFields, Visible'), Order, here)
  BY <1>5, <1>7, AmongInOrder
<1>9. InOrder(Among(appFields', Visible), Order, here)
  <2>1. here = Visible' \cap Visible
    BY <1>7
  <2> QED BY <1>6, <2>1, AmongInOrder
<1>10. StrictOrder(Order, here)
  BY <1>5, <1>7, OrderOfFewer
<1> QED BY <1>8, <1>9, <1>10, OneOrder

\* A sequence in order, of which nothing is left out.
LEMMA AllAmong ==
    ASSUME NEW S, NEW s, NEW R, StrictOrder(R, S), InOrder(s, R, S)
    PROVE  Among(s, S) = s
<1>1. InOrder(Among(s, S), R, S)
  <2>1. S \cap S = S
    OBVIOUS
  <2> QED BY <2>1, AmongInOrder
<1> QED BY <1>1, OneOrder

\* What one step does to the fields that are seen before and after it.
LEMMA FieldsMove ==
    ASSUME FormInv, [FormNext]_formVars, inputs' = inputs
    PROVE  \/ Among(appFields', Visible) = Among(appFields, Visible')
           \/ \E i \in 1..Len(Among(appFields, Visible')) - 1 :
                Among(appFields', Visible) =
                  [Among(appFields, Visible') EXCEPT ![i] = Among(appFields, Visible')[i + 1],
                                                     ![i + 1] = Among(appFields, Visible')[i]]
<1>1. FormInv'
  BY FormStep
<1>2. CASE UNCHANGED formVars
  BY <1>1, <1>2, SameOrder DEF formVars
<1>3. CASE EditInputs
  BY <1>1, <1>3, EditKeeps, SameOrder
<1>4. CASE \E name \in Names : ToggleHidden(name) \/ ToggleLocked(name)
  BY <1>1, <1>4, ToggleKeeps, SameOrder
<1>5. CASE \E name \in Names : moveField(name, -1) \/ moveField(name, 1)
  <2>1. Visible' = Visible /\ \E i \in Nat : \E next : Swapped(i, next) /\ appFields' = next
    BY <1>5, MoveSwaps
  <2>2. PICK i \in Nat : \E next : Swapped(i, next) /\ appFields' = next
    BY <2>1
  <2>3. i \in 1..Len(appFields) - 1
        /\ appFields' = [appFields EXCEPT ![i] = appFields[i + 1], ![i + 1] = appFields[i]]
    BY <2>2 DEF Swapped
  <2>4. Among(appFields, Visible') = appFields
    BY <2>1, FieldsInOrder, AllAmong
  <2>5. Among(appFields', Visible) = appFields'
    BY <1>1, <2>1, FieldsInOrderNext, AllAmong
  <2> QED BY <2>3, <2>4, <2>5
<1> QED BY <1>2, <1>3, <1>4, <1>5 DEF FormNext

\* Every name keeps a record of its own, whose order is a number or unset, and
\* the inputs are a sequence of names (app-mode.ts:15, graph.ts:962).
THEOREM FormsAreKnown == FormSpec => []FormInv
BY FormBegins, FormStep, PTL DEF FormSpec

\* Hiding, showing and locking a field leaves the others in their order, and
\* moving one exchanges it with its neighbour: for any number of inputs and of
\* edits, whatever orders are left over from fields that were hidden, renamed
\* or removed (AppView.tsx:404).
THEOREM FieldsAlwaysMoveByOne == FormSpec => FieldsMoveByOne
<1>1. FormInv /\ [FormNext]_formVars =>
        [inputs' = inputs =>
           LET before == Among(appFields, Visible')
               after == Among(appFields', Visible)
           IN  \/ after = before
               \/ \E i \in 1..Len(before) - 1 :
                    after = [before EXCEPT ![i] = before[i + 1], ![i + 1] = before[i]]]_formVars
  BY FieldsMove
<1> QED BY <1>1, FormsAreKnown, PTL DEF FormSpec, FieldsMoveByOne

-----------------------------------------------------------------------------
(* The documents: each table of a writer beside the one of its decoder. *)

\* What can be in a field that a document may not have.
ValuesOf(writer, field) == IF field \in DOMAIN writer THEN writer[field] ELSE {"absent"}

\* A value for which the Studio does not read the document: one left out that a
\* contract does not ask for, or one not of the type the Studio has for it.
Refused(kind, field, value) ==
    \/ value = "absent" /\ <<kind, field>> \in Refusals
    \/ /\ kind \in DOMAIN Declared /\ field \in DOMAIN Declared[kind]
       /\ ~Takes(Declared[kind][field], value)

\* The writer has something for every field, and the decoder takes all of it,
\* but for the refusals.
Reads(kind, decoder, writer) ==
    /\ \A field \in DOMAIN writer : writer[field] # {}
    /\ \A field \in DOMAIN decoder : \A value \in ValuesOf(writer, field) :
        \/ Takes(decoder[field], value)
        \/ field \in DOMAIN writer /\ Refused(kind, field, value)

\* The decoder knows all that the writer may write, but for the losses.
Keeps(kind, decoder, writer) == \A field \in DOMAIN writer \ DOMAIN decoder : <<kind, field>> \in Losses

LEMMA DecoderHas ==
    /\ \A kind \in DOMAIN Kept : Decoder[kind] = Kept[kind]
    /\ \A kind \in DOMAIN Answers : Decoder[kind] = Answers[kind]
    /\ \A kind \in DOMAIN Catalog : Decoder[kind] = Catalog[kind]
<1>1. DOMAIN Kept \cap DOMAIN Answers = {}
  BY DEF Kept, Answers
<1>2. (DOMAIN Kept \cup DOMAIN Answers) \cap DOMAIN Catalog = {}
  BY DEF Kept, Answers, Catalog
<1>3. PICK both : both = Kept ++ Answers
  OBVIOUS
<1>4. Decoder = both ++ Catalog
  BY <1>3 DEF Decoder
<1>5. /\ DOMAIN both = DOMAIN Kept \cup DOMAIN Answers
      /\ \A kind \in DOMAIN Kept : both[kind] = Kept[kind]
      /\ \A kind \in DOMAIN Answers \ DOMAIN Kept : both[kind] = Answers[kind]
  BY <1>3 DEF ++
<1>6. \A kind \in DOMAIN both : Decoder[kind] = both[kind]
  BY <1>4 DEF ++
<1>7. \A kind \in DOMAIN Catalog \ DOMAIN both : Decoder[kind] = Catalog[kind]
  BY <1>4 DEF ++
<1> QED BY <1>1, <1>2, <1>5, <1>6, <1>7

LEMMA WriterHas ==
    /\ DOMAIN Writer = UNION {DOMAIN GraphContract, DOMAIN ProgramContract, DOMAIN SidecarContract,
                              DOMAIN PresetContract, DOMAIN HostDocuments, DOMAIN CatalogContract}
    /\ \A kind \in DOMAIN GraphContract : Writer[kind] = GraphContract[kind]
    /\ \A kind \in DOMAIN ProgramContract : Writer[kind] = ProgramContract[kind]
    /\ \A kind \in DOMAIN SidecarContract : Writer[kind] = SidecarContract[kind]
    /\ \A kind \in DOMAIN PresetContract : Writer[kind] = PresetContract[kind]
    /\ \A kind \in DOMAIN HostDocuments : Writer[kind] = HostDocuments[kind]
    /\ \A kind \in DOMAIN CatalogContract : Writer[kind] = CatalogContract[kind]
<1>1. /\ DOMAIN GraphContract = {"graph", "input", "reference", "node", "execution", "graphExecution"}
      /\ DOMAIN ProgramContract =
           {"program", "programInputs", "programInput", "programReference", "programExecution",
            "module", "moduleNode", "moduleExecution", "step", "map"}
      /\ DOMAIN PresetContract = {"preset", "presetEntry", "presetPosition"}
      /\ DOMAIN CatalogContract =
           {"entry", "field", "schema", "provider", "traits", "requirements", "presentation"}
  BY DEF GraphContract, ProgramContract, PresetContract, CatalogContract
<1>2. DOMAIN SidecarContract =
        {"sidecar", "viewport", "position", "group", "note", "selection", "promotion", "consumerPosition",
         "app", "appField", "board"}
  BY DEF SidecarContract
<1>3. /\ DOMAIN ProgramContract \cap DOMAIN GraphContract = {}
      /\ DOMAIN SidecarContract \cap (DOMAIN GraphContract \cup DOMAIN ProgramContract) = {}
      /\ DOMAIN PresetContract \cap (DOMAIN GraphContract \cup DOMAIN ProgramContract \cup DOMAIN SidecarContract) = {}
  BY <1>1, <1>2
<1>4. DOMAIN HostDocuments \cap (DOMAIN GraphContract \cup DOMAIN ProgramContract \cup DOMAIN SidecarContract
                                \cup DOMAIN PresetContract \cup DOMAIN CatalogContract) = {}
  <2>1. DOMAIN HostDocuments \cap (DOMAIN GraphContract \cup DOMAIN ProgramContract) = {}
    BY <1>1 DEF HostDocuments
  <2>2. DOMAIN HostDocuments \cap (DOMAIN SidecarContract \cup DOMAIN PresetContract) = {}
    BY <1>1, <1>2 DEF HostDocuments
  <2>3. DOMAIN HostDocuments \cap DOMAIN CatalogContract = {}
    BY <1>1 DEF HostDocuments
  <2> QED BY <2>1, <2>2, <2>3
<1>5. DOMAIN CatalogContract \cap (DOMAIN GraphContract \cup DOMAIN ProgramContract \cup DOMAIN SidecarContract
                                  \cup DOMAIN PresetContract) = {}
  BY <1>1, <1>2
<1>6. PICK some : some = GraphContract ++ ProgramContract ++ SidecarContract
  OBVIOUS
<1>7. PICK more : more = some ++ PresetContract ++ HostDocuments
  OBVIOUS
<1>8. /\ DOMAIN some = DOMAIN GraphContract \cup DOMAIN ProgramContract \cup DOMAIN SidecarContract
      /\ \A kind \in DOMAIN GraphContract : some[kind] = GraphContract[kind]
      /\ \A kind \in DOMAIN ProgramContract : some[kind] = ProgramContract[kind]
      /\ \A kind \in DOMAIN SidecarContract : some[kind] = SidecarContract[kind]
  BY <1>3, <1>6 DEF ++
<1>9. DOMAIN some \cap DOMAIN PresetContract = {} /\ DOMAIN some \cap DOMAIN HostDocuments = {}
  BY <1>3, <1>4, <1>8
<1>10. /\ DOMAIN more = DOMAIN some \cup DOMAIN PresetContract \cup DOMAIN HostDocuments
       /\ \A kind \in DOMAIN some : more[kind] = some[kind]
       /\ \A kind \in DOMAIN PresetContract : more[kind] = PresetContract[kind]
       /\ \A kind \in DOMAIN HostDocuments : more[kind] = HostDocuments[kind]
  BY <1>4, <1>7, <1>9 DEF ++
<1>11. DOMAIN more \cap DOMAIN CatalogContract = {}
  BY <1>4, <1>5, <1>8, <1>10
<1>12. Writer = more ++ CatalogContract
  BY <1>6, <1>7 DEF Writer
<1>13. /\ DOMAIN Writer = DOMAIN more \cup DOMAIN CatalogContract
       /\ \A kind \in DOMAIN more : Writer[kind] = more[kind]
       /\ \A kind \in DOMAIN CatalogContract : Writer[kind] = CatalogContract[kind]
  BY <1>11, <1>12 DEF ++
<1> QED BY <1>8, <1>10, <1>13

\* The graph, as the contract has it.
LEMMA GraphRead ==
    \A kind \in DOMAIN GraphContract :
        Reads(kind, Kept[kind], GraphContract[kind]) /\ Keeps(kind, Kept[kind], GraphContract[kind])
<1> USE DEF Reads, Keeps, ValuesOf, Takes, Includes, Refused, Refusals, Losses, Req, Opt, Nullable, Json, Texts
<1>1. /\ Reads("graph", decodeWorkflowGraph, GraphContract.graph)
      /\ Keeps("graph", decodeWorkflowGraph, GraphContract.graph)
  BY DEF GraphContract, decodeWorkflowGraph
<1>2. /\ Reads("input", decodeGraphInput, GraphContract.input)
      /\ Keeps("input", decodeGraphInput, GraphContract.input)
  BY DEF GraphContract, decodeGraphInput
<1>3. /\ Reads("reference", decodeGraphReference, GraphContract.reference)
      /\ Keeps("reference", decodeGraphReference, GraphContract.reference)
  BY DEF GraphContract, decodeGraphReference
<1>4. /\ Reads("node", decodeWorkflowNode, GraphContract.node)
      /\ Keeps("node", decodeWorkflowNode, GraphContract.node)
  BY DEF GraphContract, decodeWorkflowNode
<1>5. /\ Reads("execution", NodeExecution, GraphContract.execution)
      /\ Keeps("execution", NodeExecution, GraphContract.execution)
  BY DEF GraphContract, NodeExecution
<1>e. /\ Reads("graphExecution", PlanExecution, GraphContract.graphExecution)
      /\ Keeps("graphExecution", PlanExecution, GraphContract.graphExecution)
  BY DEF GraphContract, PlanExecution
<1> HIDE DEF Reads, Keeps, Req
<1>6. DOMAIN GraphContract = {"graph", "input", "reference", "node", "execution", "graphExecution"}
  BY DEF GraphContract
<1>7. /\ Kept["graph"] = decodeWorkflowGraph
      /\ Kept["input"] = decodeGraphInput
      /\ Kept["reference"] = decodeGraphReference
      /\ Kept["node"] = decodeWorkflowNode
      /\ Kept["execution"] = NodeExecution
      /\ Kept["graphExecution"] = PlanExecution
  BY DEF Kept
<1> QED BY <1>1, <1>2, <1>3, <1>4, <1>5, <1>e, <1>6, <1>7

\* A field that a contract leaves open is taken, or refused for its type, when
\* the decoder has the type that the Studio has for it.
LEMMA OpenIsRead ==
    ASSUME NEW kind \in DOMAIN Declared, NEW decoder, NEW writer,
           DOMAIN decoder = DOMAIN Declared[kind], DOMAIN decoder \subseteq DOMAIN writer,
           \A field \in DOMAIN decoder : decoder[field] = Declared[kind][field],
           \A field \in DOMAIN writer : writer[field] # {}
    PROVE  Reads(kind, decoder, writer)
BY DEF Reads, Refused

LEMMA OpenAreRead ==
    /\ Reads("programInput", decodeGraphInput, ProgramContract.programInput)
    /\ Keeps("programInput", decodeGraphInput, ProgramContract.programInput)
    /\ Reads("moduleExecution", NodeExecution, ProgramContract.moduleExecution)
    /\ Keeps("moduleExecution", NodeExecution, ProgramContract.moduleExecution)
<1>1. /\ \A field \in DOMAIN ProgramContract.programInput : ProgramContract.programInput[field] # {}
      /\ \A field \in DOMAIN ProgramContract.moduleExecution : ProgramContract.moduleExecution[field] # {}
  BY DEF ProgramContract, Json
<1>2. /\ DOMAIN ProgramContract.programInput = DOMAIN decodeGraphInput \cup {"other"}
      /\ DOMAIN ProgramContract.moduleExecution = DOMAIN NodeExecution \cup {"other"}
  BY DEF ProgramContract, decodeGraphInput, NodeExecution
<1>3. /\ {"programInput", "moduleExecution"} \subseteq DOMAIN Declared
      /\ Declared["programInput"] = GraphInputDefinition /\ Declared["moduleExecution"] = NodeExecution
  BY DEF Declared, NodeExecution
<1>4. GraphInputDefinition = decodeGraphInput
  BY DEF GraphInputDefinition, decodeGraphInput
<1>5. <<"programInput", "other">> \in Losses /\ <<"moduleExecution", "other">> \in Losses
  BY DEF Losses
<1>6. Reads("programInput", decodeGraphInput, ProgramContract.programInput)
  BY <1>1, <1>2, <1>3, <1>4, OpenIsRead
<1>7. Reads("moduleExecution", NodeExecution, ProgramContract.moduleExecution)
  BY <1>1, <1>2, <1>3, OpenIsRead
<1> QED BY <1>2, <1>5, <1>6, <1>7 DEF Keeps

\* The program.
LEMMA ProgramRead ==
    \A kind \in DOMAIN ProgramContract :
        Reads(kind, Kept[kind], ProgramContract[kind]) /\ Keeps(kind, Kept[kind], ProgramContract[kind])
<1> USE DEF Reads, Keeps, ValuesOf, Takes, Includes, Refused, Refusals, Losses, Req, Opt, Nullable, Json, Texts
<1>1. /\ Reads("program", decodeWorkflowProgram, ProgramContract.program)
      /\ Keeps("program", decodeWorkflowProgram, ProgramContract.program)
  BY DEF ProgramContract, decodeWorkflowProgram
<1>2. /\ Reads("module", decodeWorkflowModule, ProgramContract.module)
      /\ Keeps("module", decodeWorkflowModule, ProgramContract.module)
  BY DEF ProgramContract, decodeWorkflowModule
<1>3. /\ Reads("step", decodeProgramStep, ProgramContract.step)
      /\ Keeps("step", decodeProgramStep, ProgramContract.step)
  BY DEF ProgramContract, decodeProgramStep
<1>4. Reads("map", ProgramMap, ProgramContract.map) /\ Keeps("map", ProgramMap, ProgramContract.map)
  BY DEF ProgramContract, ProgramMap
<1>5. /\ Reads("programInputs", ProgramInputs, ProgramContract.programInputs)
      /\ Keeps("programInputs", ProgramInputs, ProgramContract.programInputs)
  BY DEF ProgramContract, ProgramInputs, Declared
<1>6. /\ Reads("programInput", decodeGraphInput, ProgramContract.programInput)
      /\ Keeps("programInput", decodeGraphInput, ProgramContract.programInput)
  BY OpenAreRead
<1>7. /\ Reads("programReference", decodeGraphReference, ProgramContract.programReference)
      /\ Keeps("programReference", decodeGraphReference, ProgramContract.programReference)
  BY DEF ProgramContract, decodeGraphReference
<1>8. /\ Reads("programExecution", PlanExecution, ProgramContract.programExecution)
      /\ Keeps("programExecution", PlanExecution, ProgramContract.programExecution)
  BY DEF ProgramContract, PlanExecution
<1>9. /\ Reads("moduleNode", decodeWorkflowNode, ProgramContract.moduleNode)
      /\ Keeps("moduleNode", decodeWorkflowNode, ProgramContract.moduleNode)
  BY DEF ProgramContract, decodeWorkflowNode
<1>10. /\ Reads("moduleExecution", NodeExecution, ProgramContract.moduleExecution)
       /\ Keeps("moduleExecution", NodeExecution, ProgramContract.moduleExecution)
  BY OpenAreRead
<1> HIDE DEF Reads, Keeps, Req
<1>11. DOMAIN ProgramContract =
         {"program", "programInputs", "programInput", "programReference", "programExecution",
          "module", "moduleNode", "moduleExecution", "step", "map"}
  BY DEF ProgramContract
<1>12. /\ Kept["program"] = decodeWorkflowProgram
       /\ Kept["programInputs"] = ProgramInputs
       /\ Kept["programInput"] = decodeGraphInput
       /\ Kept["programReference"] = decodeGraphReference
       /\ Kept["programExecution"] = PlanExecution
       /\ Kept["module"] = decodeWorkflowModule
       /\ Kept["moduleNode"] = decodeWorkflowNode
       /\ Kept["moduleExecution"] = NodeExecution
       /\ Kept["step"] = decodeProgramStep
       /\ Kept["map"] = ProgramMap
  BY DEF Kept
<1> QED BY <1>1, <1>2, <1>3, <1>4, <1>5, <1>6, <1>7, <1>8, <1>9, <1>10, <1>11, <1>12

LEMMA Filled ==
    /\ \A field \in DOMAIN SidecarContract.sidecar : SidecarContract.sidecar[field] # {}
    /\ \A field \in DOMAIN SidecarContract.board : SidecarContract.board[field] # {}
    /\ \A field \in DOMAIN CatalogContract.entry : CatalogContract.entry[field] # {}
    /\ \A field \in DOMAIN CatalogContract.field : CatalogContract.field[field] # {}
<1>1. \A type : Req(type) # {} /\ Opt(type) # {}
  BY DEF Req, Opt
<1>2. \A field \in DOMAIN SidecarContract.sidecar : SidecarContract.sidecar[field] # {}
  BY <1>1 DEF SidecarContract, ++
<1>3. \A field \in DOMAIN SidecarContract.board : SidecarContract.board[field] # {}
  BY <1>1 DEF SidecarContract, ++
<1>4. \A field \in DOMAIN CatalogContract.entry : CatalogContract.entry[field] # {}
  BY <1>1 DEF CatalogContract, ++
<1>5. \A field \in DOMAIN CatalogContract.field : CatalogContract.field[field] # {}
  BY <1>1 DEF CatalogContract, Json
<1> QED BY <1>2, <1>3, <1>4, <1>5

\* The sidecar of the editor.
LEMMA SidecarRead ==
    \A kind \in DOMAIN SidecarContract :
        Reads(kind, Kept[kind], SidecarContract[kind]) /\ Keeps(kind, Kept[kind], SidecarContract[kind])
<1> USE DEF Reads, Keeps, ValuesOf, Takes, Includes, Refused, Refusals, Losses, Req, Opt, Nullable, Json, Texts
<1>1. /\ Reads("sidecar", decodeEditorSidecar, SidecarContract.sidecar)
      /\ Keeps("sidecar", decodeEditorSidecar, SidecarContract.sidecar)
  <2>1. \A field \in DOMAIN SidecarContract.sidecar : SidecarContract.sidecar[field] # {}
    BY Filled
  <2>2. \A field \in DOMAIN decodeEditorSidecar : \A value \in ValuesOf(SidecarContract.sidecar, field) :
          Takes(decodeEditorSidecar[field], value)
    BY DEF ++, SidecarContract, decodeEditorSidecar
  <2>3. Keeps("sidecar", decodeEditorSidecar, SidecarContract.sidecar)
    BY DEF ++, SidecarContract, decodeEditorSidecar
  <2> QED BY <2>1, <2>2, <2>3
<1>2. /\ Reads("position", decodeNodeState, SidecarContract.position)
      /\ Keeps("position", decodeNodeState, SidecarContract.position)
  BY DEF ++, SidecarContract, decodeNodeState
<1>3. /\ Reads("group", decodeGroupState, SidecarContract.group)
      /\ Keeps("group", decodeGroupState, SidecarContract.group)
  BY DEF ++, SidecarContract, Sized, decodeGroupState, decodeNodeState
<1>4. /\ Reads("note", decodeNoteState, SidecarContract.note)
      /\ Keeps("note", decodeNoteState, SidecarContract.note)
  BY DEF ++, SidecarContract, Sized, decodeNodeState, decodeNoteState
<1>5. /\ Reads("selection", decodeSelection, SidecarContract.selection)
      /\ Keeps("selection", decodeSelection, SidecarContract.selection)
  BY DEF ++, SidecarContract, decodeSelection
<1>6. /\ Reads("promotion", decodePromotion, SidecarContract.promotion)
      /\ Keeps("promotion", decodePromotion, SidecarContract.promotion)
  BY DEF ++, SidecarContract, decodePromotion
<1>7. /\ Reads("app", decodeAppConfig, SidecarContract.app)
      /\ Keeps("app", decodeAppConfig, SidecarContract.app)
  BY DEF ++, SidecarContract, decodeAppConfig
<1>8. /\ Reads("appField", decodeAppField, SidecarContract.appField)
      /\ Keeps("appField", decodeAppField, SidecarContract.appField)
  BY DEF ++, SidecarContract, decodeAppField
<1>9. /\ Reads("board", decodeBoardItem, SidecarContract.board)
      /\ Keeps("board", decodeBoardItem, SidecarContract.board)
  <2>1. \A field \in DOMAIN SidecarContract.board : SidecarContract.board[field] # {}
    BY Filled
  <2>2. \A field \in DOMAIN decodeBoardItem : \A value \in ValuesOf(SidecarContract.board, field) :
          Takes(decodeBoardItem[field], value)
    BY DEF ++, SidecarContract, decodeBoardItem
  <2>3. Keeps("board", decodeBoardItem, SidecarContract.board)
    BY DEF ++, SidecarContract, decodeBoardItem
  <2> QED BY <2>1, <2>2, <2>3
<1>v. /\ Reads("viewport", Viewport, SidecarContract.viewport)
      /\ Keeps("viewport", Viewport, SidecarContract.viewport)
  BY DEF ++, SidecarContract, Viewport
<1>c. /\ Reads("consumerPosition", PresetPosition, SidecarContract.consumerPosition)
      /\ Keeps("consumerPosition", PresetPosition, SidecarContract.consumerPosition)
  BY DEF ++, SidecarContract, PresetPosition
<1> HIDE DEF Reads, Keeps, Req
<1>10. DOMAIN SidecarContract = {"sidecar", "viewport", "position", "group", "note",
                                  "selection", "promotion", "consumerPosition", "app", "appField",
                                  "board"}
  BY DEF SidecarContract
<1>11. /\ Kept["sidecar"] = decodeEditorSidecar
      /\ Kept["viewport"] = Viewport
      /\ Kept["consumerPosition"] = PresetPosition
      /\ Kept["position"] = decodeNodeState
      /\ Kept["group"] = decodeGroupState
      /\ Kept["note"] = decodeNoteState
      /\ Kept["selection"] = decodeSelection
      /\ Kept["promotion"] = decodePromotion
      /\ Kept["app"] = decodeAppConfig
      /\ Kept["appField"] = decodeAppField
      /\ Kept["board"] = decodeBoardItem
  BY DEF Kept
<1> QED BY <1>1, <1>2, <1>3, <1>4, <1>5, <1>6, <1>7, <1>8, <1>9, <1>v, <1>c, <1>10, <1>11

\* A preset.
LEMMA PresetRead ==
    \A kind \in DOMAIN PresetContract :
        Reads(kind, Kept[kind], PresetContract[kind]) /\ Keeps(kind, Kept[kind], PresetContract[kind])
<1> USE DEF Reads, Keeps, ValuesOf, Takes, Includes, Refused, Refusals, Losses, Req, Opt, Nullable, Json, Texts
<1>1. /\ Reads("preset", decodePreset, PresetContract.preset)
      /\ Keeps("preset", decodePreset, PresetContract.preset)
  BY DEF ++, PresetContract, SidecarContract, decodePreset
<1>2. /\ Reads("presetPosition", PresetPosition, PresetContract.presetPosition)
      /\ Keeps("presetPosition", PresetPosition, PresetContract.presetPosition)
  BY DEF ++, PresetContract, PresetPosition, SidecarContract
<1>e. /\ Reads("presetEntry", PresetEntry, PresetContract.presetEntry)
      /\ Keeps("presetEntry", PresetEntry, PresetContract.presetEntry)
  BY DEF PresetContract, PresetEntry
<1> HIDE DEF Reads, Keeps, Req
<1>3. DOMAIN PresetContract = {"preset", "presetEntry", "presetPosition"}
  BY DEF PresetContract
<1>4. /\ Kept["preset"] = decodePreset
      /\ Kept["presetEntry"] = PresetEntry
      /\ Kept["presetPosition"] = PresetPosition
  BY DEF Kept
<1> QED BY <1>1, <1>2, <1>e, <1>3, <1>4

\* What the host answers and writes.
LEMMA HostRead ==
    \A kind \in DOMAIN HostDocuments :
        /\ Reads(kind, Decoder[kind], HostDocuments[kind])
        /\ kind \in DOMAIN Kept => Keeps(kind, Decoder[kind], HostDocuments[kind])
<1> USE DEF Reads, Keeps, ValuesOf, Takes, Includes, Refused, Refusals, Losses, Req, Opt, Nullable, Json, Texts
<1>1. /\ Reads("project", decodeStudioProject, load_project)
      /\ Keeps("project", decodeStudioProject, load_project)
  BY DEF ++, decodeStudioDocument, decodeStudioProject, load_project
<1>2. Reads("package", decodeStudioProjectPackage, export_project)
  BY DEF ++, decodeStudioDocument, decodeStudioProjectPackage, export_project
<1>3. Reads("command", decodeCommandDocument, document)
  BY DEF decodeCommandDocument, document
<1>4. Reads("summary", decodeProjectSummary, list_projects)
  BY DEF decodeProjectSummary, list_projects
<1>5. Reads("run", decodeStudioRun, run_public)
  BY DEF decodeStudioRun, run_public
<1>6. Reads("artifact", decodeRunArtifact, collect_run_artifacts)
  BY DEF collect_run_artifacts, decodeRunArtifact
<1>7. Reads("detail", decodeRunNodeDetail, collect_node_details)
  BY DEF collect_node_details, decodeRunNodeDetail
<1>8. Reads("history", decodeRunHistory, lifecycle_record)
  BY DEF decodeRunHistory, lifecycle_record
<1>9. Reads("pull", decodeModelPull, ModelPull)
  BY DEF ModelPull, decodeModelPull
<1>10. Reads("commandStatus", decodeDesktopCommandStatus, CommandStatus)
  BY DEF CommandStatus, decodeDesktopCommandStatus
<1>11. Reads("status", decodeDesktopStatus, DesktopStatus)
  BY DEF DesktopStatus, decodeDesktopStatus
<1>12. Reads("projects", decodeProjects, list_all)
  BY DEF decodeProjects, list_all
<1>13. Reads("catalog", decodeCatalogCommand, catalog_document)
  BY DEF catalog_document, decodeCatalogCommand, decodeCommandDocument, document
<1>14. Reads("catalogResult", [nodes |-> Req("array")], catalog_result)
  BY DEF catalog_result
<1>15. Reads("templateResult", [templates |-> Req("array")], template_result)
  BY DEF template_result
<1>16. Reads("event", decodeRunEvent, RunEvents)
  BY DEF ++, RunEvents, decodeRunEvent
<1>17. Reads("opened", decodeJsonObject, open_runtime_downloads)
  BY DEF decodeJsonObject, open_runtime_downloads
<1>18. Reads("verified", decodeJsonObject, verify_local)
  BY DEF decodeJsonObject, verify_local
<1>19. Reads("bytes", decodeBytes, artifact_bytes)
  BY DEF artifact_bytes, decodeBytes
<1>20. Reads("copied", [asset |-> Req("object")], import_run_artifact)
  BY DEF import_run_artifact
<1>21. Reads("imported", decodeStudioDocument, import_project)
  BY DEF decodeStudioDocument, import_project
<1>22. Reads("saved", decodeSavedProject, save_project)
  BY DEF decodeSavedProject, save_project
<1>23. Reads("comparison", decodeComparison, comparison)
  BY DEF comparison, decodeComparison
<1>24. Reads("comparisons", decodeComparisons, compare_preflight)
  BY DEF compare_preflight, decodeComparisons
<1>25. Reads("compiled", decodeCompiledProgram, compile_program)
  BY DEF compile_program, decodeCompiledProgram
<1>26. Reads("runs", decodeRuns, list_runs)
  BY DEF decodeRuns, list_runs
<1>27. Reads("asset", decodeImportedAsset, imported_asset)
  BY DEF decodeImportedAsset, imported_asset
<1>28. Reads("assets", decodeImportedAssets, import_assets)
  BY DEF decodeImportedAssets, import_assets
<1>29. Reads("templates", decodeTemplates, templates)
  BY DEF decodeTemplates, templates
<1>30. Reads("loaded", decodeLoadedTemplate, load_template)
  BY DEF decodeLoadedTemplate, load_template
<1>31. Reads("published", decodePublishedTemplate, publish_template)
  BY DEF decodePublishedTemplate, publish_template
<1>32. Reads("template", decodeTemplateEntry, TemplatePackage)
  BY DEF TemplatePackage, decodeTemplateEntry
<1> HIDE DEF Reads, Keeps, Req
<1>33. DOMAIN HostDocuments = {"project", "package", "command", "summary", "run",
                                "artifact", "detail", "history", "pull",
                                "commandStatus", "status", "projects", "catalog",
                                "catalogResult", "templateResult", "event",
                                "opened", "verified", "bytes", "copied", "imported",
                                "saved", "comparison", "comparisons", "compiled",
                                "runs", "asset", "assets", "templates", "loaded",
                                "published", "template"}
  BY DEF HostDocuments
<1>34. /\ HostDocuments["project"] = load_project
       /\ HostDocuments["package"] = export_project
       /\ HostDocuments["command"] = document
       /\ HostDocuments["summary"] = list_projects
       /\ HostDocuments["run"] = run_public
       /\ HostDocuments["artifact"] = collect_run_artifacts
       /\ HostDocuments["detail"] = collect_node_details
       /\ HostDocuments["history"] = lifecycle_record
       /\ HostDocuments["pull"] = ModelPull
       /\ HostDocuments["commandStatus"] = CommandStatus
       /\ HostDocuments["status"] = DesktopStatus
       /\ HostDocuments["projects"] = list_all
       /\ HostDocuments["catalog"] = catalog_document
       /\ HostDocuments["catalogResult"] = catalog_result
       /\ HostDocuments["templateResult"] = template_result
       /\ HostDocuments["event"] = RunEvents
       /\ HostDocuments["opened"] = open_runtime_downloads
       /\ HostDocuments["verified"] = verify_local
       /\ HostDocuments["bytes"] = artifact_bytes
       /\ HostDocuments["copied"] = import_run_artifact
       /\ HostDocuments["imported"] = import_project
       /\ HostDocuments["saved"] = save_project
       /\ HostDocuments["comparison"] = comparison
       /\ HostDocuments["comparisons"] = compare_preflight
       /\ HostDocuments["compiled"] = compile_program
       /\ HostDocuments["runs"] = list_runs
       /\ HostDocuments["asset"] = imported_asset
       /\ HostDocuments["assets"] = import_assets
       /\ HostDocuments["templates"] = templates
       /\ HostDocuments["loaded"] = load_template
       /\ HostDocuments["published"] = publish_template
       /\ HostDocuments["template"] = TemplatePackage
  BY DEF HostDocuments
<1>35. /\ Decoder["project"] = decodeStudioProject
       /\ Decoder["package"] = decodeStudioProjectPackage
       /\ Decoder["command"] = decodeCommandDocument
       /\ Decoder["summary"] = decodeProjectSummary
       /\ Decoder["run"] = decodeStudioRun
       /\ Decoder["artifact"] = decodeRunArtifact
       /\ Decoder["detail"] = decodeRunNodeDetail
       /\ Decoder["history"] = decodeRunHistory
       /\ Decoder["pull"] = decodeModelPull
       /\ Decoder["commandStatus"] = decodeDesktopCommandStatus
       /\ Decoder["status"] = decodeDesktopStatus
       /\ Decoder["projects"] = decodeProjects
       /\ Decoder["catalog"] = decodeCatalogCommand
       /\ Decoder["catalogResult"] = [nodes |-> Req("array")]
       /\ Decoder["templateResult"] = [templates |-> Req("array")]
       /\ Decoder["event"] = decodeRunEvent
       /\ Decoder["opened"] = decodeJsonObject
       /\ Decoder["verified"] = decodeJsonObject
       /\ Decoder["bytes"] = decodeBytes
       /\ Decoder["copied"] = [asset |-> Req("object")]
       /\ Decoder["imported"] = decodeStudioDocument
       /\ Decoder["saved"] = decodeSavedProject
       /\ Decoder["comparison"] = decodeComparison
       /\ Decoder["comparisons"] = decodeComparisons
       /\ Decoder["compiled"] = decodeCompiledProgram
       /\ Decoder["runs"] = decodeRuns
       /\ Decoder["asset"] = decodeImportedAsset
       /\ Decoder["assets"] = decodeImportedAssets
       /\ Decoder["templates"] = decodeTemplates
       /\ Decoder["loaded"] = decodeLoadedTemplate
       /\ Decoder["published"] = decodePublishedTemplate
       /\ Decoder["template"] = decodeTemplateEntry
  BY DecoderHas DEF Kept, Answers
<1>36. \A kind \in DOMAIN HostDocuments : kind \in DOMAIN Kept => kind = "project"
  BY <1>33 DEF Kept
<1> QED BY <1>1, <1>2, <1>3, <1>4, <1>5, <1>6, <1>7, <1>8, <1>9, <1>10, <1>11, <1>12, <1>13, <1>14,
          <1>15, <1>16, <1>17, <1>18, <1>19, <1>20, <1>21, <1>22, <1>23, <1>24, <1>25, <1>26, <1>27,
          <1>28, <1>29, <1>30, <1>31, <1>32, <1>33, <1>34, <1>35, <1>36

\* The nodes that are declared.
LEMMA CatalogRead ==
    \A kind \in DOMAIN CatalogContract :
        Reads(kind, Catalog[kind], CatalogContract[kind])
<1> USE DEF Reads, Keeps, ValuesOf, Takes, Includes, Refused, Refusals, Losses, Req, Opt, Nullable, Json, Texts
<1>1. Reads("entry", decodeCatalogEntry, CatalogContract.entry)
  <2>1. \A field \in DOMAIN CatalogContract.entry : CatalogContract.entry[field] # {}
    BY Filled
  <2>2. \A field \in DOMAIN decodeCatalogEntry : \A value \in ValuesOf(CatalogContract.entry, field) :
          Takes(decodeCatalogEntry[field], value)
    BY DEF ++, CatalogContract, decodeCatalogEntry
  <2> QED BY <2>1, <2>2
<1>2. Reads("field", decodeCatalogField, CatalogContract.field)
  <2>1. \A field \in DOMAIN CatalogContract.field : CatalogContract.field[field] # {}
    BY Filled
  <2>2. \A field \in DOMAIN decodeCatalogField : \A value \in ValuesOf(CatalogContract.field, field) :
          Takes(decodeCatalogField[field], value)
    BY SMTT(30) DEF ++, CatalogContract, decodeCatalogField
  <2> QED BY <2>1, <2>2
<1>3. Reads("schema", decodeCatalogValueSchema, CatalogContract.schema)
  <2>1. DOMAIN decodeCatalogValueSchema =
          {"type", "title", "description", "default", "multiline", "values", "required", "properties",
           "items", "additional_properties", "minimum", "maximum", "step"}
    BY DEF ++, decodeCatalogValueSchema
  <2>2. CatalogContract.schema =
          [type |-> Req("schemaType"), properties |-> Opt("object"), items |-> Opt("object"),
           required |-> Opt("strings"), default |-> Json \cup {"absent"}]
    BY DEF CatalogContract
  <2>3. /\ \A value \in Req("schemaType") : Takes(decodeCatalogValueSchema["type"], value)
        /\ \A value \in Opt("object") : Takes(decodeCatalogValueSchema["properties"], value)
        /\ \A value \in Opt("object") : Takes(decodeCatalogValueSchema["items"], value)
        /\ \A value \in Opt("strings") : Takes(decodeCatalogValueSchema["required"], value)
        /\ \A value \in Json \cup {"absent"} : Takes(decodeCatalogValueSchema["default"], value)
    BY DEF ++, decodeCatalogValueSchema
  <2>4. ASSUME NEW field \in DOMAIN decodeCatalogValueSchema \ DOMAIN CatalogContract.schema
        PROVE  Takes(decodeCatalogValueSchema[field], "absent")
    BY <2>1, <2>2 DEF ++, decodeCatalogValueSchema
  <2> QED BY <2>2, <2>3, <2>4
<1>4. Reads("provider", decodeCatalogProvider, CatalogContract.provider)
  BY DEF ++, CatalogContract, decodeCatalogProvider
<1>5. Reads("traits", decodeCatalogTraits, CatalogContract.traits)
  BY DEF ++, CatalogContract, decodeCatalogTraits
<1>6. Reads("requirements", decodeCatalogRequirements, CatalogContract.requirements)
  BY DEF ++, CatalogContract, decodeCatalogRequirements
<1>7. Reads("presentation", decodeCatalogPresentation, CatalogContract.presentation)
  BY DEF ++, CatalogContract, decodeCatalogPresentation
<1> HIDE DEF Reads, Keeps, Req
<1>8. DOMAIN CatalogContract = {"entry", "field", "schema", "provider", "traits",
                                  "requirements", "presentation"}
  BY DEF CatalogContract
<1>9. /\ Catalog["entry"] = decodeCatalogEntry
      /\ Catalog["field"] = decodeCatalogField
      /\ Catalog["schema"] = decodeCatalogValueSchema
      /\ Catalog["provider"] = decodeCatalogProvider
      /\ Catalog["traits"] = decodeCatalogTraits
      /\ Catalog["requirements"] = decodeCatalogRequirements
      /\ Catalog["presentation"] = decodeCatalogPresentation
  BY DEF Catalog
<1> QED BY <1>1, <1>2, <1>3, <1>4, <1>5, <1>6, <1>7, <1>8, <1>9

LEMMA AllAreRead ==
    \A kind \in DOMAIN Writer :
        /\ Reads(kind, Decoder[kind], Writer[kind])
        /\ kind \in DOMAIN Kept => Keeps(kind, Decoder[kind], Writer[kind])
<1>1. /\ DOMAIN GraphContract \subseteq DOMAIN Kept /\ DOMAIN ProgramContract \subseteq DOMAIN Kept
      /\ DOMAIN SidecarContract \subseteq DOMAIN Kept /\ DOMAIN PresetContract \subseteq DOMAIN Kept
  <2>1. DOMAIN GraphContract \subseteq DOMAIN Kept
    BY DEF GraphContract, Kept
  <2>2. DOMAIN ProgramContract \subseteq DOMAIN Kept
    BY DEF ProgramContract, Kept
  <2>3. DOMAIN SidecarContract \subseteq DOMAIN Kept
    BY DEF SidecarContract, Kept
  <2>4. DOMAIN PresetContract \subseteq DOMAIN Kept
    BY DEF PresetContract, Kept
  <2> QED BY <2>1, <2>2, <2>3, <2>4
<1>2. DOMAIN CatalogContract \subseteq DOMAIN Catalog /\ DOMAIN CatalogContract \cap DOMAIN Kept = {}
  <2>1. DOMAIN CatalogContract \subseteq DOMAIN Catalog
    BY DEF CatalogContract, Catalog
  <2>2. DOMAIN CatalogContract \cap DOMAIN Kept = {}
    BY DEF CatalogContract, Kept
  <2> QED BY <2>1, <2>2
<1>3. ASSUME NEW kind \in DOMAIN Writer
      PROVE  /\ Reads(kind, Decoder[kind], Writer[kind])
             /\ kind \in DOMAIN Kept => Keeps(kind, Decoder[kind], Writer[kind])
  <2>1. CASE kind \in DOMAIN GraphContract
    BY <1>1, <2>1, DecoderHas, WriterHas, GraphRead
  <2>2. CASE kind \in DOMAIN ProgramContract
    BY <1>1, <2>2, DecoderHas, WriterHas, ProgramRead
  <2>3. CASE kind \in DOMAIN SidecarContract
    BY <1>1, <2>3, DecoderHas, WriterHas, SidecarRead
  <2>4. CASE kind \in DOMAIN PresetContract
    BY <1>1, <2>4, DecoderHas, WriterHas, PresetRead
  <2>5. CASE kind \in DOMAIN HostDocuments
    BY <2>5, WriterHas, HostRead
  <2>6. CASE kind \in DOMAIN CatalogContract
    BY <1>2, <2>6, DecoderHas, WriterHas, CatalogRead
  <2> QED BY <2>1, <2>2, <2>3, <2>4, <2>5, <2>6, WriterHas
<1> QED BY <1>3

\* What the window sends with a command and reads of its answer is what the
\* host needs and answers, but for the probe.
Agree(c, call) ==
    /\ call.reads = value_command[c].answers
    /\ value_command[c].needs \subseteq call.sends \/ c \in Misnamed

LEMMA CallsHave ==
    /\ DOMAIN value_command \subseteq
         UNION {DOMAIN SetupCalls, DOMAIN ProjectCalls, DOMAIN RunCalls, DOMAIN AssetCalls}
    /\ \A c \in DOMAIN SetupCalls : NativeRuntime[c] = SetupCalls[c]
    /\ \A c \in DOMAIN ProjectCalls : NativeRuntime[c] = ProjectCalls[c]
    /\ \A c \in DOMAIN RunCalls : NativeRuntime[c] = RunCalls[c]
    /\ \A c \in DOMAIN AssetCalls : NativeRuntime[c] = AssetCalls[c]
<1>1. DOMAIN SetupCalls =
        {"studio_status", "studio_configure", "studio_discover_tools", "studio_open_runtime_downloads",
         "studio_plugins", "studio_setup_plugin", "studio_verify_local", "studio_catalog",
         "studio_executors", "studio_models", "studio_executor_probe"}
  BY DEF SetupCalls
<1>2. DOMAIN ProjectCalls =
        {"studio_projects", "studio_load_project", "studio_save_project", "studio_export_project",
         "studio_import_project", "studio_check", "studio_compare_preflight", "studio_compile_program"}
  BY DEF ProjectCalls
<1>3. DOMAIN RunCalls =
        {"studio_start_run", "studio_list_runs", "studio_inspect_run", "studio_cancel_run",
         "studio_fetch_run", "studio_retry_run", "studio_resume_run", "studio_artifact"}
  BY DEF RunCalls
<1>4. DOMAIN AssetCalls =
        {"studio_import_assets", "studio_import_run_artifact", "studio_input_asset", "studio_templates",
         "studio_load_template", "studio_publish_template", "studio_inspect_comfy",
         "studio_import_comfy", "studio_model_preflight", "studio_model_pull",
         "studio_inspect_model_pull"}
  BY DEF AssetCalls
<1>5. DOMAIN value_command \subseteq
        UNION {DOMAIN SetupCalls, DOMAIN ProjectCalls, DOMAIN RunCalls, DOMAIN AssetCalls}
  BY <1>1, <1>2, <1>3, <1>4 DEF value_command, ++
<1>6. /\ DOMAIN SetupCalls \cap DOMAIN ProjectCalls = {}
      /\ DOMAIN SetupCalls \cap DOMAIN RunCalls = {} /\ DOMAIN ProjectCalls \cap DOMAIN RunCalls = {}
  BY <1>1, <1>2, <1>3
<1>7. /\ DOMAIN SetupCalls \cap DOMAIN AssetCalls = {} /\ DOMAIN ProjectCalls \cap DOMAIN AssetCalls = {}
      /\ DOMAIN RunCalls \cap DOMAIN AssetCalls = {}
  BY <1>1, <1>2, <1>3, <1>4
<1> QED BY <1>5, <1>6, <1>7 DEF NativeRuntime, ++

LEMMA SetupAgrees == \A c \in DOMAIN SetupCalls : Agree(c, SetupCalls[c])
BY DEF Agree, SetupCalls, value_command, Call, Command, Misnamed, ++

LEMMA ProjectAgrees == \A c \in DOMAIN ProjectCalls : Agree(c, ProjectCalls[c])
BY DEF Agree, ProjectCalls, value_command, Call, Command, Misnamed, ++

LEMMA RunAgrees == \A c \in DOMAIN RunCalls : Agree(c, RunCalls[c])
BY SMTT(30) DEF Agree, RunCalls, value_command, Call, Command, Misnamed, ++

LEMMA AssetAgrees == \A c \in DOMAIN AssetCalls : Agree(c, AssetCalls[c])
BY DEF Agree, AssetCalls, value_command, Call, Command, Misnamed, ++

LEMMA CommandsAgree == \A c \in DOMAIN value_command : Agree(c, NativeRuntime[c])
BY CallsHave, SetupAgrees, ProjectAgrees, RunAgrees, AssetAgrees

\* Every document that the tables allow, with any value in any field: more than
\* DocumentsOf, whose documents differ from a complete one in a field.
MayBe(writer) ==
    {d \in [DOMAIN writer -> UNION {writer[field] : field \in DOMAIN writer}] :
        \A field \in DOMAIN writer : d[field] \in writer[field]}

AnyDocument ==
    /\ shape \in DOMAIN Writer
    /\ command \in Askers(shape)
    /\ written \in MayBe(Writer[shape])
    /\ stage = IF command = "none" THEN "written" ELSE "asked"
    /\ held = <<>>

DocumentInv ==
    /\ shape \in DOMAIN Writer /\ command \in Askers(shape) /\ written \in MayBe(Writer[shape])
    /\ stage = "asked" => command # "none"
    /\ stage = "read" => held = Found(DOMAIN Decoder[shape], written)
    /\ DocumentsSurvive

LEMMA ValueIs ==
    ASSUME NEW types, NEW reader, types # {}
    PROVE  Value(types, reader) \in types
<1> DEFINE values == types \ {"absent", "null"}
<1>1. CASE \E type \in values : Takes(reader, type)
  <2>1. Value(types, reader) = CHOOSE type \in values : Takes(reader, type)
    BY <1>1 DEF Value
  <2> QED BY <1>1, <2>1
<1>2. CASE ~\E type \in values : Takes(reader, type)
  <2>1. Value(types, reader) = CHOOSE type \in types : values # {} => type \in values
    BY <1>2 DEF Value
  <2>2. \E type \in types : values # {} => type \in values
    OBVIOUS
  <2> QED BY <2>1, <2>2
<1> QED BY <1>1, <1>2

LEMMA DocumentsMayBe ==
    ASSUME NEW kind \in DOMAIN Writer, \A field \in DOMAIN Writer[kind] : Writer[kind][field] # {}
    PROVE  DocumentsOf(kind) \subseteq MayBe(Writer[kind])
<1> DEFINE writer == Writer[kind]
<1>1. \A field \in DOMAIN writer : Complete(kind)[field] \in writer[field]
  BY ValueIs DEF Complete
<1>2. DOMAIN Complete(kind) = DOMAIN writer /\ Complete(kind) = [field \in DOMAIN writer |-> Complete(kind)[field]]
  BY DEF Complete
<1>3. Complete(kind) \in [DOMAIN writer -> UNION {writer[field] : field \in DOMAIN writer}]
  BY <1>1, <1>2
<1>4. ASSUME NEW field \in DOMAIN writer, NEW type \in writer[field]
      PROVE  [Complete(kind) EXCEPT ![field] = type] \in MayBe(writer)
  BY <1>1, <1>3, <1>4 DEF MayBe
<1>5. Least(kind) \in MayBe(writer)
  <2>1. \A field \in DOMAIN writer : Least(kind)[field] \in writer[field]
    BY <1>1 DEF Least
  <2>2. Least(kind) \in [DOMAIN writer -> UNION {writer[field] : field \in DOMAIN writer}]
    BY <2>1 DEF Least
  <2> QED BY <2>1, <2>2 DEF MayBe
<1> QED BY <1>4, <1>5 DEF DocumentsOf

\* Who asks for a document, asks for it with a command that answers with one.
LEMMA AskerAnswers ==
    ASSUME NEW kind, NEW c \in Askers(kind), c # "none"
    PROVE  c \in DOMAIN value_command /\ value_command[c].answers = kind
BY DEF Askers

LEMMA DocumentBegins == AnyDocument => DocumentInv
<1> SUFFICES ASSUME AnyDocument PROVE DocumentInv
  OBVIOUS
<1>1. stage \in {"written", "asked"}
  BY DEF AnyDocument
<1>2. DocumentsSurvive
  BY <1>1 DEF DocumentsSurvive
<1> QED BY <1>1, <1>2 DEF AnyDocument, DocumentInv

LEMMA InvokeKeeps == DocumentInv /\ Invoke => DocumentInv'
<1> SUFFICES ASSUME DocumentInv, Invoke PROVE DocumentInv'
  OBVIOUS
<1>1. command \in Askers(shape) /\ command # "none" /\ command \in DOMAIN value_command
  BY AskerAnswers DEF DocumentInv, Invoke
<1>2. Accepted(command) \/ command \in Misnamed
  BY <1>1, CommandsAgree DEF Agree, Accepted
<1>3. stage' = IF Accepted(command) THEN "written" ELSE "refused"
  BY DEF Invoke
<1>4. DocumentsSurvive'
  BY <1>2, <1>3 DEF Invoke, DocumentsSurvive
<1> QED BY <1>3, <1>4 DEF DocumentInv, Invoke

LEMMA ReadKeeps == DocumentInv /\ Read => DocumentInv'
<1> SUFFICES ASSUME DocumentInv, Read PROVE DocumentInv'
  OBVIOUS
<1>1. /\ shape \in DOMAIN Writer /\ command \in Askers(shape) /\ DOMAIN written = DOMAIN Writer[shape]
      /\ \A field \in DOMAIN written : written[field] \in Writer[shape][field]
  BY DEF DocumentInv, MayBe
<1>2. (IF command = "none" THEN shape ELSE NativeRuntime[command].reads) = shape
  BY <1>1, AskerAnswers, CommandsAgree DEF Agree
<1>3. PICK found : found = Found(DOMAIN Decoder[shape], written)
  OBVIOUS
<1>4. PICK taken \in BOOLEAN : taken = \A field \in DOMAIN Decoder[shape] : Takes(Decoder[shape][field], found[field])
  OBVIOUS
<1>5. stage' = (IF taken THEN "read" ELSE "refused") /\ held' = (IF taken THEN found ELSE <<>>)
  BY <1>2, <1>3, <1>4 DEF Read
<1>6. UNCHANGED <<command, shape, written>> /\ LeftOut' = LeftOut
  BY DEF Read, LeftOut, Has
<1>7. ~taken => \E field \in DOMAIN Writer[shape] : Foreign(field)
  <2> SUFFICES ASSUME ~taken PROVE \E field \in DOMAIN Writer[shape] : Foreign(field)
    OBVIOUS
  <2>1. PICK field \in DOMAIN Decoder[shape] : ~Takes(Decoder[shape][field], found[field])
    BY <1>4
  <2>2. found[field] = (IF field \in DOMAIN written THEN written[field] ELSE "absent") /\ found[field] = Has(field)
    BY <1>3 DEF Found, Has
  <2>3. found[field] \in ValuesOf(Writer[shape], field)
    BY <1>1, <2>2 DEF ValuesOf
  <2>4. field \in DOMAIN Writer[shape] /\ Refused(shape, field, found[field])
    BY <1>1, <2>1, <2>3, AllAreRead DEF Reads
  <2> QED BY <2>2, <2>4 DEF LeftOut, Refused, Foreign
<1>8. DocumentsSurvive'
  BY <1>5, <1>6, <1>7 DEF DocumentsSurvive, Foreign, Has, LeftOut
<1> QED BY <1>3, <1>5, <1>6, <1>8 DEF DocumentInv

LEMMA StoreKeeps == DocumentInv /\ Store => DocumentInv'
<1> SUFFICES ASSUME DocumentInv, Store PROVE DocumentInv'
  OBVIOUS
<1>1. shape \in DOMAIN Writer /\ shape \in DOMAIN Kept /\ DOMAIN written = DOMAIN Writer[shape]
  BY DEF DocumentInv, MayBe, Store
<1>2. held = Found(DOMAIN Decoder[shape], written)
  BY DEF DocumentInv, Store
<1>3. /\ stage' = "stored" /\ UNCHANGED <<command, shape, written>> /\ LeftOut' = LeftOut
      /\ held' = [field \in {field \in DOMAIN held : held[field] /= "absent"} |-> held[field]]
  BY DEF Store, LeftOut, Has
<1>4. ASSUME NEW field \in DOMAIN written \ LeftOut, <<shape, field>> \notin Losses
      PROVE  field \in DOMAIN held' /\ held'[field] = written[field]
  <2>1. field \in DOMAIN Decoder[shape]
    BY <1>1, <1>4, AllAreRead DEF Keeps
  <2>2. held[field] = written[field] /\ field \in DOMAIN held
    BY <1>2, <2>1 DEF Found
  <2>3. written[field] # "absent"
    BY <1>1 DEF LeftOut, Has
  <2> QED BY <1>3, <2>2, <2>3
<1>5. DocumentsSurvive'
  BY <1>3, <1>4 DEF DocumentsSurvive
<1> QED BY <1>3, <1>5 DEF DocumentInv

LEMMA DocumentStep == DocumentInv /\ [DocumentsNext]_documentVars => DocumentInv'
<1> SUFFICES ASSUME DocumentInv, [DocumentsNext]_documentVars PROVE DocumentInv'
  OBVIOUS
<1>1. CASE UNCHANGED documentVars
  BY <1>1 DEF documentVars, DocumentInv, DocumentsSurvive, LeftOut, Foreign, Has
<1> QED BY <1>1, InvokeKeeps, ReadKeeps, StoreKeeps DEF DocumentsNext

\* Whatever the host answers and whatever stands in a file that the contracts
\* allow, in any combination of fields, is taken and is not lost, but for the
\* refusals and losses that are listed (decode.ts, runtime.ts:328).
THEOREM AnyDocumentSurvives == AnyDocument /\ [][DocumentsNext]_documentVars => []DocumentsSurvive
<1>1. DocumentInv => DocumentsSurvive
  BY DEF DocumentInv
<1> QED BY <1>1, DocumentBegins, DocumentStep, PTL

\* The documents that the run goes through are among them.
THEOREM DocumentsAlwaysSurvive == DocumentsSpec => []DocumentsSurvive
<1>1. DocumentsInit => AnyDocument
  <2> SUFFICES ASSUME DocumentsInit PROVE AnyDocument
    OBVIOUS
  <2>1. shape \in DOMAIN Writer /\ written \in DocumentsOf(shape)
    BY DEF DocumentsInit
  <2>2. \A field \in DOMAIN Writer[shape] : Writer[shape][field] # {}
    BY <2>1, AllAreRead DEF Reads
  <2>3. written \in MayBe(Writer[shape])
    BY <2>1, <2>2, DocumentsMayBe
  <2> QED BY <2>1, <2>3 DEF DocumentsInit, AnyDocument
<1> QED BY <1>1, AnyDocumentSurvives, PTL DEF DocumentsSpec

-----------------------------------------------------------------------------
(* Recursion. *)

\* What step makes of a function at d depends on what ranks lower than d.
LooksBelow(step, D, V, rank) ==
    /\ V # {} /\ rank \in [D -> Nat] /\ step \in [D -> [[D -> V] -> V]]
    /\ \A d \in D : \A f, g \in [D -> V] :
         (\A e \in D : rank[e] < rank[d] => f[e] = g[e]) => step[d][f] = step[d][g]

\* Two functions agree on d if they agree on what ranks lower.
AgreeFromBelow(f, g, D, rank) ==
    /\ rank \in [D -> Nat]
    /\ \A d \in D : (\A e \in D : rank[e] < rank[d] => f[e] = g[e]) => f[d] = g[d]

\* A function that asks itself only about what ranks lower is there.
LEMMA RecursionEnds ==
    ASSUME NEW D, NEW V, NEW rank, NEW step, LooksBelow(step, D, V, rank)
    PROVE  \E f \in [D -> V] : \A d \in D : f[d] = step[d][f]
<1>0. rank \in [D -> Nat] /\ step \in [D -> [[D -> V] -> V]]
  BY DEF LooksBelow
<1> USE <1>0
<1> DEFINE Upto(n) == {f \in [D -> V] : \A d \in D : rank[d] < n => f[d] = step[d][f]}
           H == {n \in Nat : \E f : f \in Upto(n)}
           Same == {n \in Nat : \A f, g \in Upto(n) : \A d \in D : rank[d] < n => f[d] = g[d]}
<1>1. 0 \in H
  <2>1. PICK v \in V : TRUE
    BY DEF LooksBelow
  <2>2. PICK f : f = [d \in D |-> v]
    OBVIOUS
  <2>3. f \in Upto(0)
    BY <2>2
  <2> HIDE DEF Upto
  <2> QED BY <2>3
<1>2. ASSUME NEW n \in Nat, n \in H PROVE n + 1 \in H
  <2>1. PICK f \in [D -> V] : \A d \in D : rank[d] < n => f[d] = step[d][f]
    BY <1>2
  <2>2. PICK g : g = [d \in D |-> step[d][f]]
    OBVIOUS
  <2>3. g \in [D -> V] /\ \A d \in D : g[d] = step[d][f]
    BY <2>2
  <2>4. \A d \in D : rank[d] < n => g[d] = f[d]
    BY <2>1, <2>3
  <2>5. ASSUME NEW d \in D, rank[d] < n + 1 PROVE g[d] = step[d][g]
    <3>1. \A e \in D : rank[e] < rank[d] => f[e] = g[e]
      BY <2>4, <2>5
    <3>2. step[d][f] = step[d][g]
      BY <2>3, <3>1 DEF LooksBelow
    <3> QED BY <2>3, <3>2
  <2>6. g \in Upto(n + 1)
    BY <2>3, <2>5
  <2> HIDE DEF Upto
  <2> QED BY <2>6
<1>3. 0 \in Same
  <2>1. \A d \in D : ~(rank[d] < 0)
    OBVIOUS
  <2> QED BY <2>1
<1>4. ASSUME NEW n \in Nat, n \in Same PROVE n + 1 \in Same
  <2> HIDE DEF Upto
  <2>1. SUFFICES ASSUME NEW f \in Upto(n + 1), NEW g \in Upto(n + 1), NEW d \in D, rank[d] < n + 1
                 PROVE  f[d] = g[d]
    OBVIOUS
  <2> USE DEF Upto
  <2>2. f \in Upto(n) /\ g \in Upto(n)
    BY <2>1
  <2>3. \A e \in D : rank[e] < n => f[e] = g[e]
    BY <1>4, <2>1, <2>2
  <2>4. \A e \in D : rank[e] < rank[d] => f[e] = g[e]
    BY <2>1, <2>3
  <2>5. step[d][f] = step[d][g]
    BY <2>1, <2>4 DEF LooksBelow
  <2> QED BY <2>1, <2>5
<1> HIDE DEF H, Same
<1>5. \A n \in Nat : n \in H /\ n \in Same
  <2>1. \A n \in Nat : n \in H
    BY <1>1, <1>2, EveryNumber
  <2>2. \A n \in Nat : n \in Same
    BY <1>3, <1>4, EveryNumber
  <2> QED BY <2>1, <2>2
<1> DEFINE At(d) == CHOOSE f : f \in Upto(rank[d] + 1)
<1>6. \A d \in D : At(d) \in [D -> V] /\ At(d) \in Upto(rank[d] + 1)
  <2> TAKE d \in D
  <2>1. rank[d] + 1 \in H
    BY <1>5
  <2>2. At(d) \in Upto(rank[d] + 1)
    <3> HIDE DEF Upto
    <3> QED BY <2>1 DEF H
  <2> QED BY <2>2
<1> HIDE DEF At
<1>7. PICK F : F = [d \in D |-> At(d)[d]]
  OBVIOUS
<1>8. F \in [D -> V] /\ \A d \in D : F[d] = At(d)[d]
  BY <1>6, <1>7
<1>9. ASSUME NEW d \in D, NEW e \in D, rank[e] <= rank[d] PROVE F[e] = At(d)[e]
  <2>1. At(d) \in Upto(rank[e] + 1) /\ At(e) \in Upto(rank[e] + 1)
    BY <1>6, <1>9
  <2>2. rank[e] + 1 \in Same
    BY <1>5
  <2>3. At(d)[e] = At(e)[e]
    <3> HIDE DEF Upto
    <3>1. rank[e] < rank[e] + 1
      OBVIOUS
    <3> QED BY <2>1, <2>2, <3>1 DEF Same
  <2> QED BY <1>8, <2>3
<1>10. ASSUME NEW d \in D PROVE F[d] = step[d][F]
  <2>1. At(d)[d] = step[d][At(d)]
    BY <1>6
  <2>2. \A e \in D : rank[e] < rank[d] => F[e] = At(d)[e]
    BY <1>9
  <2>3. step[d][F] = step[d][At(d)]
    BY <1>6, <1>8, <2>2 DEF LooksBelow
  <2> QED BY <1>8, <2>1, <2>3
<1> QED BY <1>8, <1>10

\* There is one such function only.
LEMMA RecursionIsUnique ==
    ASSUME NEW D, NEW rank, NEW f, NEW g, AgreeFromBelow(f, g, D, rank)
    PROVE  \A d \in D : f[d] = g[d]
<1>0. rank \in [D -> Nat]
  BY DEF AgreeFromBelow
<1> USE <1>0
<1> DEFINE H == {n \in Nat : \A d \in D : rank[d] < n => f[d] = g[d]}
<1>1. 0 \in H
  OBVIOUS
<1>2. ASSUME NEW n \in Nat, n \in H PROVE n + 1 \in H
  <2>1. ASSUME NEW d \in D, rank[d] < n + 1 PROVE f[d] = g[d]
    <3>1. \A e \in D : rank[e] < rank[d] => f[e] = g[e]
      BY <1>2, <2>1
    <3> QED BY <3>1 DEF AgreeFromBelow
  <2> QED BY <2>1
<1>3. \A n \in Nat : n \in H
  <2> HIDE DEF H
  <2> QED BY <1>1, <1>2, EveryNumber
<1>4. \A d \in D : rank[d] + 1 \in H /\ rank[d] < rank[d] + 1
  BY <1>3
<1> QED BY <1>4

-----------------------------------------------------------------------------
(* Handles. *)

\* What is left of a sequence is shorter.
LEMMA Shorter ==
    ASSUME NEW X, NEW s \in Seq(X), NEW n \in Nat, n > 0, n <= Len(s)
    PROVE  /\ s[1] \in X /\ Len(s) \in Nat /\ Len(s) > 0
           /\ Tail(s) \in Seq(X) /\ Len(Tail(s)) = Len(s) - 1
           /\ SubSeq(s, n + 1, Len(s)) \in Seq(X) /\ Len(SubSeq(s, n + 1, Len(s))) = Len(s) - n
<1>1. Len(s) \in Nat /\ Len(s) > 0 /\ s # <<>>
  OBVIOUS
<1>2. s[1] \in X /\ Tail(s) \in Seq(X) /\ Len(Tail(s)) = Len(s) - 1
  BY <1>1
<1>3. SubSeq(s, n + 1, Len(s)) \in Seq(X) /\ Len(SubSeq(s, n + 1, Len(s))) = Len(s) - n
  BY <1>1
<1> QED BY <1>1, <1>2, <1>3

\* What replaceAll makes of s, by what s begins with.
IsReplaced(s, from, to) ==
    /\ replaceAll(s, from, to) \in Keys
    /\ Len(s) < Len(from) => replaceAll(s, from, to) = s
    /\ Len(s) >= Len(from) /\ SubSeq(s, 1, Len(from)) = from =>
         replaceAll(s, from, to) = to \o replaceAll(SubSeq(s, Len(from) + 1, Len(s)), from, to)
    /\ Len(s) >= Len(from) /\ SubSeq(s, 1, Len(from)) # from =>
         replaceAll(s, from, to) = <<s[1]>> \o replaceAll(Tail(s), from, to)

LEMMA ReplaceAllIs ==
    ASSUME NEW from \in Keys, Len(from) > 0, NEW to \in Keys, NEW s \in Keys
    PROVE  IsReplaced(s, from, to)
<1> DEFINE Body(a, t) == IF Len(t) < Len(from) THEN t
                         ELSE IF SubSeq(t, 1, Len(from)) = from
                              THEN to \o a[SubSeq(t, Len(from) + 1, Len(t))]
                              ELSE <<t[1]>> \o a[Tail(t)]
           Is(a) == a = [t \in Keys |-> Body(a, t)]
<1>1. PICK n \in Nat : n = Len(from) /\ n > 0
  BY DEF Keys
<1>2. PICK K : K = Keys
  OBVIOUS
<1>3. ASSUME NEW t \in K, n <= Len(t)
      PROVE  /\ <<t[1]>> \in K /\ Tail(t) \in K /\ Len(Tail(t)) < Len(t)
             /\ SubSeq(t, n + 1, Len(t)) \in K /\ Len(SubSeq(t, n + 1, Len(t))) < Len(t)
  <2>1. t \in Seq(Characters)
    BY <1>2 DEF Keys
  <2>2. /\ t[1] \in Characters /\ Len(t) \in Nat /\ Len(t) > 0
        /\ Tail(t) \in Seq(Characters) /\ Len(Tail(t)) = Len(t) - 1
        /\ SubSeq(t, n + 1, Len(t)) \in Seq(Characters) /\ Len(SubSeq(t, n + 1, Len(t))) = Len(t) - n
    BY <1>1, <1>3, <2>1, Shorter
  <2> QED BY <1>1, <1>2, <2>2 DEF Keys
<1>4. \A one, other \in K : one \o other \in K
  BY <1>2 DEF Keys
<1>5. \A t \in K : Len(t) \in Nat
  BY <1>2 DEF Keys
<1>6. from \in K /\ to \in K /\ s \in K
  BY <1>2
<1>7. ASSUME NEW t \in K, NEW a \in [K -> K] PROVE Body(a, t) \in K
  <2>1. CASE Len(t) < n
    BY <1>1, <2>1
  <2>2. CASE ~(Len(t) < n)
    <3>1. n <= Len(t)
      BY <1>5, <2>2
    <3>2. a[SubSeq(t, n + 1, Len(t))] \in K /\ a[Tail(t)] \in K /\ <<t[1]>> \in K
      BY <1>3, <3>1
    <3> QED BY <1>1, <1>4, <1>6, <3>2
  <2> QED BY <2>1, <2>2
<1>8. ASSUME NEW t \in K, NEW a, NEW b, \A u \in K : Len(u) < Len(t) => a[u] = b[u]
      PROVE  Body(a, t) = Body(b, t)
  <2>1. CASE Len(t) < n
    BY <1>1, <2>1
  <2>2. CASE ~(Len(t) < n)
    <3>1. n <= Len(t)
      BY <1>5, <2>2
    <3>2. a[SubSeq(t, n + 1, Len(t))] = b[SubSeq(t, n + 1, Len(t))] /\ a[Tail(t)] = b[Tail(t)]
      BY <1>3, <1>8, <3>1
    <3> QED BY <1>1, <3>2
  <2> QED BY <2>1, <2>2
<1>9. /\ \A a, t : Len(t) < Len(from) => Body(a, t) = t
      /\ \A a, t : ~(Len(t) < Len(from)) /\ SubSeq(t, 1, Len(from)) = from =>
           Body(a, t) = to \o a[SubSeq(t, Len(from) + 1, Len(t))]
      /\ \A a, t : ~(Len(t) < Len(from)) /\ SubSeq(t, 1, Len(from)) # from =>
           Body(a, t) = <<t[1]>> \o a[Tail(t)]
  OBVIOUS
<1> HIDE DEF Body
<1>10. \E a \in [K -> K] : \A t \in K : a[t] = Body(a, t)
  <2>1. PICK step : step = [t \in K |-> [a \in [K -> K] |-> Body(a, t)]]
    OBVIOUS
  <2>2. PICK rank : rank = [t \in K |-> Len(t)]
    OBVIOUS
  <2>3. step \in [K -> [[K -> K] -> K]] /\ \A t \in K : \A a \in [K -> K] : step[t][a] = Body(a, t)
    <3>1. ASSUME NEW t \in K
          PROVE  step[t] \in [[K -> K] -> K] /\ \A a \in [K -> K] : step[t][a] = Body(a, t)
      BY <1>7, <2>1
    <3> QED BY <2>1, <3>1
  <2>4. rank \in [K -> Nat] /\ \A t \in K : rank[t] = Len(t)
    BY <1>5, <2>2
  <2>5. ASSUME NEW t \in K, NEW a \in [K -> K], NEW b \in [K -> K],
               \A u \in K : rank[u] < rank[t] => a[u] = b[u]
        PROVE  step[t][a] = step[t][b]
    <3>1. \A u \in K : Len(u) < Len(t) => a[u] = b[u]
      BY <2>4, <2>5
    <3>2. Body(a, t) = Body(b, t)
      BY <1>8, <3>1
    <3> QED BY <2>3, <3>2
  <2>6. LooksBelow(step, K, K, rank)
    BY <1>6, <2>3, <2>4, <2>5 DEF LooksBelow
  <2>7. PICK a \in [K -> K] : \A t \in K : a[t] = step[t][a]
    BY <2>6, RecursionEnds
  <2>8. \A t \in K : a[t] = Body(a, t)
    BY <2>3, <2>7
  <2> QED BY <2>8
<1>11. PICK some \in [K -> K] : Is(some)
  BY <1>2, <1>10
<1>12. PICK all : all = CHOOSE a : Is(a)
  OBVIOUS
<1>13. Is(all)
  BY <1>11, <1>12
<1>14. \A t \in K : replaceAll(t, from, to) = all[t]
  BY <1>12, Zenon DEF replaceAll, Body
<1>15. \A t \in K : all[t] = Body(all, t) /\ some[t] = Body(some, t)
  BY <1>2, <1>11, <1>13
<1> HIDE DEF Is
<1>16. \A t \in K : all[t] = some[t]
  <2>1. PICK rank : rank = [t \in K |-> Len(t)]
    OBVIOUS
  <2>2. rank \in [K -> Nat] /\ \A t \in K : rank[t] = Len(t)
    BY <1>5, <2>1
  <2>3. ASSUME NEW t \in K, \A u \in K : rank[u] < rank[t] => all[u] = some[u] PROVE all[t] = some[t]
    <3>1. \A u \in K : Len(u) < Len(t) => all[u] = some[u]
      BY <2>2, <2>3
    <3>2. Body(all, t) = Body(some, t)
      BY <1>8, <3>1
    <3> QED BY <1>15, <3>2
  <2>4. AgreeFromBelow(all, some, K, rank)
    BY <2>2, <2>3 DEF AgreeFromBelow
  <2> QED BY <2>4, RecursionIsUnique
<1>17. \A t \in K : replaceAll(t, from, to) \in K /\ replaceAll(t, from, to) = Body(all, t)
  BY <1>11, <1>14, <1>15, <1>16
<1>18. ASSUME Len(s) < n PROVE replaceAll(s, from, to) = s
  BY <1>1, <1>6, <1>9, <1>17, <1>18
<1>19. ASSUME ~(Len(s) < n)
       PROVE  /\ SubSeq(s, 1, n) = from =>
                   replaceAll(s, from, to) = to \o replaceAll(SubSeq(s, n + 1, Len(s)), from, to)
              /\ SubSeq(s, 1, n) # from =>
                   replaceAll(s, from, to) = <<s[1]>> \o replaceAll(Tail(s), from, to)
  <2>1. n <= Len(s)
    BY <1>5, <1>6, <1>19
  <2>2. /\ replaceAll(Tail(s), from, to) = all[Tail(s)]
        /\ replaceAll(SubSeq(s, n + 1, Len(s)), from, to) = all[SubSeq(s, n + 1, Len(s))]
    BY <1>3, <1>6, <1>14, <2>1
  <2>3. /\ SubSeq(s, 1, n) = from => Body(all, s) = to \o all[SubSeq(s, n + 1, Len(s))]
        /\ SubSeq(s, 1, n) # from => Body(all, s) = <<s[1]>> \o all[Tail(s)]
    BY <1>1, <1>9, <1>19
  <2> QED BY <1>6, <1>17, <2>2, <2>3
<1>20. Len(s) >= n <=> ~(Len(s) < n)
  BY <1>5, <1>6
<1>21. replaceAll(s, from, to) \in Keys
  BY <1>2, <1>6, <1>17
<1> QED BY <1>1, <1>18, <1>19, <1>20, <1>21 DEF IsReplaced

\* An element and a sequence behind it.
Begins(s, x, t) ==
    /\ Len(s) = Len(t) + 1 /\ s[1] = x /\ Tail(s) = t
    /\ SubSeq(s, 1, 1) = <<x>> /\ SubSeq(s, 2, Len(s)) = t
    /\ \A i \in 1..Len(t) : s[i + 1] = t[i]

LEMMA SameSequence ==
    ASSUME NEW X, NEW q \in Seq(X), NEW r \in Seq(X), Len(q) = Len(r), \A i \in 1..Len(r) : q[i] = r[i]
    PROVE  q = r
OBVIOUS

LEMMA OneMore ==
    ASSUME NEW X, NEW t \in Seq(X), NEW x \in X
    PROVE  <<x>> \o t \in Seq(X) /\ Begins(<<x>> \o t, x, t)
<1>1. PICK s : s = <<x>> \o t
  OBVIOUS
<1>2. Len(t) \in Nat /\ t = [i \in 1..Len(t) |-> t[i]]
  OBVIOUS
<1>3. s \in Seq(X) /\ Len(s) = Len(t) + 1 /\ s[1] = x
  BY <1>1
<1>4. \A i \in 1..Len(t) : s[i + 1] = t[i]
  BY <1>1
<1>5. /\ Len(Tail(s)) = Len(t) /\ Tail(s) \in Seq(X)
      /\ \A i \in 1..Len(t) : Tail(s)[i] = t[i]
  BY <1>3, <1>4
<1>6. /\ Len(SubSeq(s, 2, Len(s))) = Len(t) /\ SubSeq(s, 2, Len(s)) \in Seq(X)
      /\ \A i \in 1..Len(t) : SubSeq(s, 2, Len(s))[i] = t[i]
  BY <1>2, <1>3, <1>4
<1>7. SubSeq(s, 1, 1) = <<x>>
  <2>1. SubSeq(s, 1, 1) \in Seq(X) /\ Len(SubSeq(s, 1, 1)) = 1 /\ SubSeq(s, 1, 1)[1] = x
    BY <1>2, <1>3
  <2>2. <<x>> \in Seq(X) /\ Len(<<x>>) = 1 /\ <<x>>[1] = x
    OBVIOUS
  <2>3. \A i \in 1..1 : i = 1
    OBVIOUS
  <2> QED BY <2>1, <2>2, <2>3, SameSequence
<1>8. Tail(s) = t
  BY <1>5, SameSequence
<1>9. SubSeq(s, 2, Len(s)) = t
  BY <1>6, SameSequence
<1> QED BY <1>1, <1>3, <1>4, <1>7, <1>8, <1>9 DEF Begins

LEMMA Pair ==
    ASSUME NEW X
    PROVE  \A d, e \in X, s \in Seq(X) : Len(s) >= 2 => (SubSeq(s, 1, 2) = <<d, e>> <=> s[1] = d /\ s[2] = e)
<1> SUFFICES ASSUME NEW d \in X, NEW e \in X, NEW s \in Seq(X), Len(s) >= 2
             PROVE  SubSeq(s, 1, 2) = <<d, e>> <=> s[1] = d /\ s[2] = e
  OBVIOUS
<1>1. Len(s) \in Nat
  OBVIOUS
<1>2. PICK q : q = SubSeq(s, 1, 2)
  OBVIOUS
<1>3. q \in Seq(X) /\ Len(q) = 2 /\ q[1] = s[1] /\ q[2] = s[2]
  BY <1>1, <1>2
<1>4. PICK r : r = <<d, e>>
  OBVIOUS
<1>5. r \in Seq(X) /\ Len(r) = 2 /\ r[1] = d /\ r[2] = e
  BY <1>4
<1>6. \A i \in 1..2 : i = 1 \/ i = 2
  OBVIOUS
<1>7. s[1] = d /\ s[2] = e => q = r
  BY <1>3, <1>5, <1>6, SameSequence
<1>8. q = r => s[1] = d /\ s[2] = e
  BY <1>3, <1>5
<1> QED BY <1>2, <1>4, <1>7, <1>8

\* The same of a character and a key.
LEMMA OneMoreOfKey ==
    ASSUME NEW t \in Keys, NEW x \in Characters
    PROVE  <<x>> \o t \in Keys /\ Begins(<<x>> \o t, x, t) /\ Len(t) \in Nat
<1>1. PICK X : X = Characters /\ Keys = Seq(X)
  BY DEF Keys
<1>2. t \in Seq(X) /\ x \in X
  BY <1>1
<1>3. <<x>> \o t \in Seq(X) /\ Begins(<<x>> \o t, x, t)
  BY <1>2, OneMore
<1>4. Len(t) \in Nat
  BY <1>2
<1> QED BY <1>1, <1>3, <1>4

LEMMA ShortSequences ==
    ASSUME NEW X, NEW c \in X, NEW d \in X
    PROVE  /\ <<>> \in Seq(X) /\ Len(<<>>) = 0
           /\ <<c>> \in Seq(X) /\ Len(<<c>>) = 1
           /\ <<c, d>> \in Seq(X) /\ Len(<<c, d>>) = 2
OBVIOUS

LEMMA ShortKeys ==
    ASSUME NEW c \in Characters, NEW d \in Characters
    PROVE  /\ <<>> \in Keys /\ Len(<<>>) = 0
           /\ <<c>> \in Keys /\ Len(<<c>>) = 1
           /\ <<c, d>> \in Keys /\ Len(<<c, d>>) = 2
<1>1. PICK X : X = Characters /\ Keys = Seq(X)
  BY DEF Keys
<1>2. c \in X /\ d \in X
  BY <1>1
<1> QED BY <1>1, <1>2, ShortSequences, Zenon

\* One character is replaced.
ReplacesOne(c, to, x, t) ==
    /\ replaceAll(t, <<c>>, to) \in Keys
    /\ replaceAll(<<>>, <<c>>, to) = <<>>
    /\ replaceAll(<<c>> \o t, <<c>>, to) = to \o replaceAll(t, <<c>>, to)
    /\ x # c => replaceAll(<<x>> \o t, <<c>>, to) = <<x>> \o replaceAll(t, <<c>>, to)

LEMMA ReplaceOne ==
    ASSUME NEW c \in Characters, NEW to \in Keys, NEW x \in Characters, NEW t \in Keys
    PROVE  ReplacesOne(c, to, x, t)
<1>1. PICK from : from = <<c>>
  OBVIOUS
<1>2. from \in Keys /\ Len(from) = 1 /\ <<>> \in Keys /\ Len(<<>>) = 0
  BY <1>1, ShortKeys
<1>3. Len(from) > 0
  BY <1>2
<1>4. IsReplaced(<<>>, from, to) /\ IsReplaced(t, from, to)
  BY <1>2, <1>3, ReplaceAllIs
<1>5. replaceAll(<<>>, from, to) = <<>>
  <2>1. Len(<<>>) < Len(from)
    BY <1>2
  <2> QED BY <1>4, <2>1 DEF IsReplaced
<1>6. ASSUME NEW y \in Characters
      PROVE  /\ <<y>> = from => replaceAll(<<y>> \o t, from, to) = to \o replaceAll(t, from, to)
             /\ <<y>> # from => replaceAll(<<y>> \o t, from, to) = <<y>> \o replaceAll(t, from, to)
  <2>1. PICK s : s = <<y>> \o t
    OBVIOUS
  <2>2. s \in Keys /\ Begins(s, y, t) /\ Len(t) \in Nat
    BY <2>1, OneMoreOfKey
  <2>3. IsReplaced(s, from, to)
    BY <1>2, <1>3, <2>2, ReplaceAllIs
  <2>4. /\ Len(s) >= Len(from) /\ SubSeq(s, 1, Len(from)) = <<y>> /\ SubSeq(s, Len(from) + 1, Len(s)) = t
        /\ s[1] = y /\ Tail(s) = t
    <3>1. /\ Len(s) = Len(t) + 1 /\ SubSeq(s, 1, 1) = <<y>> /\ SubSeq(s, 2, Len(s)) = t
          /\ s[1] = y /\ Tail(s) = t
      BY <2>2 DEF Begins
    <3>2. Len(s) >= Len(from) /\ Len(from) + 1 = 2
      BY <1>2, <2>2, <3>1
    <3> QED BY <1>2, <3>1, <3>2, Zenon
  <2> QED BY <2>1, <2>3, <2>4, Zenon DEF IsReplaced
<1>7. x # c => <<x>> # <<c>>
  OBVIOUS
<1>8. replaceAll(t, from, to) \in Keys
  BY <1>4 DEF IsReplaced
<1> QED BY <1>1, <1>5, <1>6, <1>7, <1>8, Zenon DEF ReplacesOne

\* Two characters that follow each other are replaced.
ReplacesTwo(d, e, to, x, t) ==
    /\ replaceAll(t, <<d, e>>, to) \in Keys
    /\ replaceAll(<<>>, <<d, e>>, to) = <<>>
    /\ ~(x = d /\ Len(t) > 0 /\ t[1] = e) =>
         replaceAll(<<x>> \o t, <<d, e>>, to) = <<x>> \o replaceAll(t, <<d, e>>, to)
    /\ replaceAll(<<d>> \o (<<e>> \o t), <<d, e>>, to) = to \o replaceAll(t, <<d, e>>, to)

LEMMA ReplaceTwo ==
    ASSUME NEW d \in Characters, NEW e \in Characters, NEW to \in Keys, NEW x \in Characters, NEW t \in Keys
    PROVE  ReplacesTwo(d, e, to, x, t)
<1>1. PICK from : from = <<d, e>>
  OBVIOUS
<1>2. from \in Keys /\ Len(from) = 2 /\ Len(from) > 0 /\ <<>> \in Keys /\ Len(<<>>) = 0
  <2>1. from \in Keys /\ Len(from) = 2 /\ <<>> \in Keys /\ Len(<<>>) = 0
    BY <1>1, ShortKeys, Zenon
  <2> QED BY <2>1
<1>3. Len(t) \in Nat
  BY OneMoreOfKey
<1>4. IsReplaced(<<>>, from, to) /\ IsReplaced(t, from, to)
  BY <1>2, ReplaceAllIs
<1>5. replaceAll(<<>>, from, to) = <<>>
  <2>1. Len(<<>>) < Len(from)
    BY <1>2
  <2> QED BY <1>4, <2>1 DEF IsReplaced
<1>6. \A s \in Keys : Len(s) >= 2 => (SubSeq(s, 1, 2) = from <=> s[1] = d /\ s[2] = e)
  <2>1. PICK X : X = Characters /\ Keys = Seq(X)
    BY DEF Keys
  <2>2. d \in X /\ e \in X
    BY <2>1
  <2>3. \A a, b \in X, s \in Seq(X) : Len(s) >= 2 => (SubSeq(s, 1, 2) = <<a, b>> <=> s[1] = a /\ s[2] = b)
    BY Pair
  <2>4. \A s \in Seq(X) : Len(s) >= 2 => (SubSeq(s, 1, 2) = <<d, e>> <=> s[1] = d /\ s[2] = e)
    BY <2>2, <2>3
  <2> QED BY <1>1, <2>1, <2>4, Zenon
<1>7. ASSUME ~(x = d /\ Len(t) > 0 /\ t[1] = e)
      PROVE  replaceAll(<<x>> \o t, from, to) = <<x>> \o replaceAll(t, from, to)
  <2>1. PICK s : s = <<x>> \o t
    OBVIOUS
  <2>2. s \in Keys /\ Begins(s, x, t)
    BY <2>1, OneMoreOfKey
  <2>3. IsReplaced(s, from, to)
    BY <1>2, <2>2, ReplaceAllIs
  <2>4. Len(s) = Len(t) + 1 /\ s[1] = x /\ Tail(s) = t
    BY <2>2 DEF Begins
  <2>5. CASE Len(t) = 0
    <3>1. Len(s) < Len(from)
      BY <1>2, <2>4, <2>5
    <3>2. t = <<>>
      BY <2>5 DEF Keys
    <3>3. replaceAll(s, from, to) = s /\ s = <<x>> \o replaceAll(t, from, to)
      BY <1>5, <2>1, <2>3, <3>1, <3>2 DEF IsReplaced
    <3> QED BY <2>1, <3>3
  <2>6. CASE Len(t) > 0
    <3>1. Len(s) >= 2 /\ 1 \in 1..Len(t) /\ 1 + 1 = 2
      BY <1>3, <2>4, <2>6
    <3>2. s[2] = t[1]
      BY <2>2, <3>1 DEF Begins
    <3>3. SubSeq(s, 1, 2) # from
      BY <1>6, <1>7, <2>2, <2>4, <2>6, <3>1, <3>2
    <3>4. replaceAll(s, from, to) = <<s[1]>> \o replaceAll(Tail(s), from, to)
      BY <1>2, <2>3, <3>1, <3>3, Zenon DEF IsReplaced
    <3> QED BY <2>1, <2>4, <3>4
  <2>7. Len(t) = 0 \/ Len(t) > 0
    BY <1>3
  <2> QED BY <2>5, <2>6, <2>7, Zenon
<1>8. replaceAll(<<d>> \o (<<e>> \o t), from, to) = to \o replaceAll(t, from, to)
  <2>1. PICK u : u = <<e>> \o t
    OBVIOUS
  <2>2. u \in Keys /\ Begins(u, e, t)
    BY <2>1, OneMoreOfKey
  <2>3. PICK s : s = <<d>> \o u
    OBVIOUS
  <2>4. s \in Keys /\ Begins(s, d, u)
    BY <2>2, <2>3, OneMoreOfKey
  <2>5. Len(u) = Len(t) + 1 /\ Len(s) = Len(t) + 2
    BY <1>3, <2>2, <2>4 DEF Begins
  <2>6. s[1] = d /\ s[2] = e
    <3>1. 1 \in 1..Len(u) /\ 1 + 1 = 2
      BY <1>3, <2>5
    <3> QED BY <2>2, <2>4, <3>1 DEF Begins
  <2>7. Len(s) >= 2
    BY <1>3, <2>5
  <2>8. SubSeq(s, 1, 2) = from
    BY <1>6, <2>4, <2>6, <2>7
  <2>9. SubSeq(s, 3, Len(s)) = t
    <3>1. PICK X : X = Characters /\ Keys = Seq(X)
      BY DEF Keys
    <3>2. s \in Seq(X) /\ u \in Seq(X) /\ t \in Seq(X)
      BY <2>2, <2>4, <3>1
    <3>3. \A i \in 1..Len(t) : s[i + 2] = t[i]
      <4> TAKE i \in 1..Len(t)
      <4>1. i + 1 \in 1..Len(u) /\ (i + 1) + 1 = i + 2
        BY <1>3, <2>5
      <4>2. s[(i + 1) + 1] = u[i + 1] /\ u[i + 1] = t[i]
        BY <2>2, <2>4, <4>1 DEF Begins
      <4> QED BY <4>1, <4>2
    <3>4. /\ SubSeq(s, 3, Len(s)) \in Seq(X) /\ Len(SubSeq(s, 3, Len(s))) = Len(t)
          /\ \A i \in 1..Len(t) : SubSeq(s, 3, Len(s))[i] = s[i + 2]
      BY <1>3, <2>5, <3>2
    <3> QED BY <3>2, <3>3, <3>4, SameSequence
  <2>10. IsReplaced(s, from, to)
    BY <1>2, <2>4, ReplaceAllIs
  <2>11. Len(s) >= Len(from) /\ SubSeq(s, 1, Len(from)) = from /\ SubSeq(s, Len(from) + 1, Len(s)) = t
    BY <1>2, <2>7, <2>8, <2>9
  <2>12. replaceAll(s, from, to) = to \o replaceAll(t, from, to)
    BY <2>10, <2>11, Zenon DEF IsReplaced
  <2> QED BY <2>1, <2>3, <2>12
<1>9. replaceAll(t, from, to) \in Keys
  BY <1>4 DEF IsReplaced
<1> QED BY <1>1, <1>5, <1>7, <1>8, <1>9, Zenon DEF ReplacesTwo

LEMMA EverySequence ==
    ASSUME NEW X, NEW G, <<>> \in G, \A t \in Seq(X), x \in X : t \in G => <<x>> \o t \in G
    PROVE  \A s \in Seq(X) : s \in G
<1> DEFINE H == {n \in Nat : \A s \in Seq(X) : Len(s) = n => s \in G}
<1>1. 0 \in H
  <2>1. \A s \in Seq(X) : Len(s) = 0 => s = <<>>
    OBVIOUS
  <2> QED BY <2>1
<1>2. ASSUME NEW n \in Nat, n \in H PROVE n + 1 \in H
  <2>1. ASSUME NEW s \in Seq(X), Len(s) = n + 1 PROVE s \in G
    <3>1. /\ s[1] \in X /\ Tail(s) \in Seq(X) /\ Len(Tail(s)) = n
          /\ \A i \in 1..n : Tail(s)[i] = s[i + 1]
      BY <2>1
    <3>2. PICK t : t = Tail(s)
      OBVIOUS
    <3>3. PICK r : r = <<s[1]>> \o t
      OBVIOUS
    <3>4. r \in Seq(X) /\ Begins(r, s[1], t)
      BY <3>1, <3>2, <3>3, OneMore
    <3>5. /\ Len(r) = Len(s) /\ r[1] = s[1] /\ \A i \in 1..n : r[i + 1] = s[i + 1]
      BY <2>1, <3>1, <3>2, <3>4 DEF Begins
    <3>6. \A i \in 1..Len(s) : r[i] = s[i]
      <4> TAKE i \in 1..Len(s)
      <4>1. i = 1 \/ (i - 1 \in 1..n /\ (i - 1) + 1 = i)
        BY <2>1
      <4> QED BY <3>5, <4>1
    <3>7. r = s
      BY <3>4, <3>5, <3>6, SameSequence
    <3>8. t \in G
      BY <1>2, <3>1, <3>2
    <3> QED BY <3>1, <3>2, <3>3, <3>7, <3>8
  <2> QED BY <2>1
<1>3. \A n \in Nat : n \in H
  <2> HIDE DEF H
  <2> QED BY <1>1, <1>2, EveryNumber
<1>4. \A s \in Seq(X) : Len(s) \in Nat
  OBVIOUS
<1> QED BY <1>3, <1>4

LEMMA TwoMore ==
    ASSUME NEW X
    PROVE  \A t \in Seq(X), d, e \in X : <<d, e>> \o t = <<d>> \o (<<e>> \o t)
<1> SUFFICES ASSUME NEW t \in Seq(X), NEW d \in X, NEW e \in X PROVE <<d, e>> \o t = <<d>> \o (<<e>> \o t)
  OBVIOUS
<1>1. PICK q : q = <<d, e>> \o t
  OBVIOUS
<1>2. PICK u : u = <<e>> \o t
  OBVIOUS
<1>3. PICK r : r = <<d>> \o u
  OBVIOUS
<1>4. u \in Seq(X) /\ Begins(u, e, t)
  BY <1>2, OneMore
<1>5. r \in Seq(X) /\ Begins(r, d, u)
  BY <1>3, <1>4, OneMore
<1>6. Len(t) \in Nat /\ Len(u) = Len(t) + 1 /\ Len(r) = Len(t) + 2 /\ r[1] = d /\ u[1] = e
  BY <1>4, <1>5 DEF Begins
<1>7. /\ q \in Seq(X) /\ Len(q) = Len(t) + 2 /\ q[1] = d /\ q[2] = e
      /\ \A i \in 1..Len(t) : q[i + 2] = t[i]
  BY <1>1
<1>8. ASSUME NEW i \in 1..Len(r) PROVE q[i] = r[i]
  <2>1. CASE i = 1
    BY <1>6, <1>7, <2>1
  <2>2. CASE i = 2
    <3>1. 1 \in 1..Len(u) /\ 1 + 1 = 2
      BY <1>6
    <3>2. r[2] = u[1]
      BY <1>5, <3>1 DEF Begins
    <3> QED BY <1>6, <1>7, <2>2, <3>2
  <2>3. CASE i > 2
    <3>1. PICK j \in 1..Len(t) : j + 2 = i /\ j + 1 \in 1..Len(u) /\ (j + 1) + 1 = i
      <4>1. i - 2 \in 1..Len(t) /\ (i - 2) + 2 = i /\ (i - 2) + 1 \in 1..Len(u) /\ ((i - 2) + 1) + 1 = i
        BY <1>6, <2>3
      <4> QED BY <4>1
    <3>2. r[(j + 1) + 1] = u[j + 1] /\ u[j + 1] = t[j]
      BY <1>4, <1>5, <3>1 DEF Begins
    <3>3. q[j + 2] = t[j]
      BY <1>7
    <3> QED BY <3>1, <3>2, <3>3
  <2> QED BY <1>6, <2>1, <2>2, <2>3
<1>9. q = r
  BY <1>5, <1>6, <1>7, <1>8, SameSequence
<1> QED BY <1>1, <1>2, <1>3, <1>9

LEMMA TwoMoreOfKey ==
    \A t \in Keys, d, e \in Characters : <<d, e>> \o t = <<d>> \o (<<e>> \o t)
<1>1. PICK X : X = Characters /\ Keys = Seq(X)
  BY DEF Keys
<1>2. \A t \in Seq(X), d, e \in X : <<d, e>> \o t = <<d>> \o (<<e>> \o t)
  BY TwoMore
<1> QED BY <1>1, <1>2, ZenonT(40)

LEMMA EveryKey ==
    ASSUME NEW G, <<>> \in G, \A t \in Keys, x \in Characters : t \in G => <<x>> \o t \in G
    PROVE  \A s \in Keys : s \in G
<1>1. PICK X : X = Characters /\ Keys = Seq(X)
  BY DEF Keys
<1>2. \A t \in Seq(X), x \in X : t \in G => <<x>> \o t \in G
  BY <1>1, Zenon
<1>3. \A s \in Seq(X) : s \in G
  BY <1>2, EverySequence
<1> QED BY <1>1, <1>3

\* The two rounds of escaping, and of what undoes them.
Tildes(s) == replaceAll(s, <<"~">>, <<"~", "0">>)
Slashes(s) == replaceAll(s, <<"/">>, <<"~", "1">>)
NoSlashes(s) == replaceAll(s, <<"~", "1">>, <<"/">>)
NoTildes(s) == replaceAll(s, <<"~", "0">>, <<"~">>)

Rounds(x, t) ==
    /\ Tildes(t) \in Keys /\ Slashes(t) \in Keys
    /\ Tildes(<<>>) = <<>> /\ Slashes(<<>>) = <<>> /\ NoSlashes(<<>>) = <<>> /\ NoTildes(<<>>) = <<>>
    /\ Tildes(<<"~">> \o t) = <<"~">> \o (<<"0">> \o Tildes(t))
    /\ x # "~" => Tildes(<<x>> \o t) = <<x>> \o Tildes(t)
    /\ Slashes(<<"/">> \o t) = <<"~">> \o (<<"1">> \o Slashes(t))
    /\ x # "/" => Slashes(<<x>> \o t) = <<x>> \o Slashes(t)
    /\ NoSlashes(<<"~">> \o (<<"1">> \o t)) = <<"/">> \o NoSlashes(t)
    /\ x # "~" \/ (Len(t) > 0 /\ t[1] = "0") => NoSlashes(<<x>> \o t) = <<x>> \o NoSlashes(t)
    /\ NoTildes(<<"~">> \o (<<"0">> \o t)) = <<"~">> \o NoTildes(t)
    /\ x # "~" => NoTildes(<<x>> \o t) = <<x>> \o NoTildes(t)

LEMMA RoundsAre ==
    ASSUME NEW x \in Characters, NEW t \in Keys
    PROVE  Rounds(x, t)
<1>a. {"~", "/", "0", "1"} \subseteq Characters
  BY WiresAssumption
<1>b. PICK tilde, slash, zero, one : tilde = "~" /\ slash = "/" /\ zero = "0" /\ one = "1"
  OBVIOUS
<1>1. tilde = "~" /\ slash = "/" /\ zero = "0" /\ one = "1"
  BY <1>b
<1>c. tilde \in Characters /\ slash \in Characters /\ zero \in Characters /\ one \in Characters
  BY <1>a, <1>b
<1>2. tilde # slash /\ tilde # zero /\ tilde # one /\ slash # zero /\ slash # one /\ zero # one
  BY <1>1
<1>3. /\ <<tilde>> \in Keys /\ <<slash>> \in Keys
      /\ <<tilde, zero>> \in Keys /\ <<tilde, one>> \in Keys
  BY <1>c, ShortKeys, Zenon
<1>4. /\ \A u \in Keys : Tildes(u) = replaceAll(u, <<tilde>>, <<tilde, zero>>)
      /\ \A u \in Keys : Slashes(u) = replaceAll(u, <<slash>>, <<tilde, one>>)
      /\ \A u \in Keys : NoSlashes(u) = replaceAll(u, <<tilde, one>>, <<slash>>)
      /\ \A u \in Keys : NoTildes(u) = replaceAll(u, <<tilde, zero>>, <<tilde>>)
  BY <1>1, Zenon DEF Tildes, Slashes, NoSlashes, NoTildes
<1>5. ASSUME NEW u \in Keys, NEW y \in Characters
      PROVE  <<y>> \o u \in Keys
  BY OneMoreOfKey
<1>6. /\ ReplacesOne(tilde, <<tilde, zero>>, x, t) /\ ReplacesOne(slash, <<tilde, one>>, x, t)
      /\ ReplacesTwo(tilde, one, <<slash>>, x, t) /\ ReplacesTwo(tilde, zero, <<tilde>>, x, t)
  BY <1>c, <1>3, ReplaceOne, ReplaceTwo
<1>7. <<>> \in Keys /\ <<x>> \o t \in Keys
  BY <1>5 DEF Keys
<1>8. Tildes(t) \in Keys /\ Slashes(t) \in Keys
  BY <1>4, <1>6, Zenon DEF ReplacesOne
<1>9. Tildes(<<>>) = <<>> /\ Slashes(<<>>) = <<>> /\ NoSlashes(<<>>) = <<>> /\ NoTildes(<<>>) = <<>>
  BY <1>4, <1>6, <1>7, Zenon DEF ReplacesOne, ReplacesTwo
<1>10. \A u \in Keys : <<tilde, zero>> \o u = <<tilde>> \o (<<zero>> \o u) /\ <<tilde, one>> \o u = <<tilde>> \o (<<one>> \o u)
  BY <1>c, TwoMoreOfKey, Zenon
<1>11. Tildes(<<tilde>> \o t) = <<tilde>> \o (<<zero>> \o Tildes(t))
  BY <1>c, <1>4, <1>5, <1>6, <1>8, <1>10, Zenon DEF ReplacesOne
<1>12. Slashes(<<slash>> \o t) = <<tilde>> \o (<<one>> \o Slashes(t))
  BY <1>c, <1>4, <1>5, <1>6, <1>8, <1>10, Zenon DEF ReplacesOne
<1>13. /\ x # tilde => Tildes(<<x>> \o t) = <<x>> \o Tildes(t)
       /\ x # slash => Slashes(<<x>> \o t) = <<x>> \o Slashes(t)
  BY <1>4, <1>6, <1>7, Zenon DEF ReplacesOne
<1>14. /\ <<tilde>> \o (<<one>> \o t) \in Keys /\ <<tilde>> \o (<<zero>> \o t) \in Keys
  BY <1>c, <1>5
<1>15. /\ NoSlashes(<<tilde>> \o (<<one>> \o t)) = <<slash>> \o NoSlashes(t)
       /\ NoTildes(<<tilde>> \o (<<zero>> \o t)) = <<tilde>> \o NoTildes(t)
  BY <1>4, <1>6, <1>14, Zenon DEF ReplacesTwo
<1>16. x # tilde \/ (Len(t) > 0 /\ t[1] = zero) => NoSlashes(<<x>> \o t) = <<x>> \o NoSlashes(t)
  BY <1>2, <1>4, <1>6, <1>7, Zenon DEF ReplacesTwo
<1>17. x # tilde => NoTildes(<<x>> \o t) = <<x>> \o NoTildes(t)
  BY <1>4, <1>6, <1>7, Zenon DEF ReplacesTwo
<1> QED BY <1>1, <1>8, <1>9, <1>11, <1>12, <1>13, <1>15, <1>16, <1>17, Zenon DEF Rounds

Clean(s) == \A i \in 1..Len(s) : s[i] # "/"

\* What is escaped has no slash in it, and is what it was when the rounds are
\* undone, the last one first.
LEMMA EscapedComesBack ==
    \A s \in Keys : /\ escapePointerSegment(s) \in Keys /\ unescapePointerSegment(escapePointerSegment(s)) = s
                   /\ Clean(escapePointerSegment(s))
<1> DEFINE Esc(s) == Slashes(Tildes(s))
           G == {s \in Keys : NoSlashes(Esc(s)) = Tildes(s) /\ NoTildes(Tildes(s)) = s /\ Clean(Esc(s))}
<1>1. {"~", "0", "1", "/"} \subseteq Characters /\ "~" \in Characters /\ "0" \in Characters /\ "1" \in Characters
  BY WiresAssumption
<1>2. "~" # "/" /\ "0" # "/" /\ "1" # "/" /\ "0" # "~" /\ "1" # "~"
  OBVIOUS
<1>3. <<>> \in Keys /\ \A t \in Keys, x \in Characters : <<x>> \o t \in Keys
  BY OneMoreOfKey DEF Keys
<1>4. \A t \in Keys : Tildes(t) \in Keys /\ Slashes(t) \in Keys /\ Len(t) \in Nat
  BY <1>1, RoundsAre, OneMoreOfKey DEF Rounds
<1>5. ASSUME NEW t \in Keys, NEW x \in Characters, x # "/", Clean(t) PROVE Clean(<<x>> \o t)
  <2>1. PICK s : s = <<x>> \o t
    OBVIOUS
  <2>2. Begins(s, x, t) /\ Len(t) \in Nat
    BY <2>1, OneMoreOfKey
  <2>3. ASSUME NEW i \in 1..Len(s) PROVE s[i] # "/"
    <3>1. i = 1 \/ (i - 1 \in 1..Len(t) /\ (i - 1) + 1 = i)
      BY <2>2 DEF Begins
    <3>2. s[1] = x /\ \A j \in 1..Len(t) : s[j + 1] = t[j]
      BY <2>2 DEF Begins
    <3> QED BY <1>5, <3>1, <3>2 DEF Clean
  <2> QED BY <2>1, <2>3 DEF Clean
<1>6. <<>> \in G
  <2>1. Esc(<<>>) = <<>> /\ Tildes(<<>>) = <<>> /\ NoSlashes(<<>>) = <<>> /\ NoTildes(<<>>) = <<>>
    BY <1>1, <1>3, RoundsAre DEF Rounds
  <2>2. Clean(<<>>)
    BY DEF Clean
  <2> QED BY <1>3, <2>1, <2>2
<1>7. ASSUME NEW t \in Keys, t \in G, NEW x \in Characters PROVE <<x>> \o t \in G
  <2>1. PICK T \in Keys : T = Tildes(t)
    BY <1>4
  <2>2. PICK E \in Keys : E = Slashes(T)
    BY <1>4, <2>1
  <2>3. NoSlashes(E) = T /\ NoTildes(T) = t /\ Clean(E)
    BY <1>7, <2>1, <2>2
  <2>4. CASE x = "~"
    <3>1. PICK U \in Keys : U = <<"0">> \o T
      BY <1>1, <1>3
    <3>2. PICK F \in Keys : F = <<"0">> \o E
      BY <1>1, <1>3
    <3>3. Tildes(<<x>> \o t) = <<x>> \o U
      BY <2>1, <2>4, <3>1, RoundsAre, Zenon DEF Rounds
    <3>4. Slashes(U) = F
      BY <1>1, <1>2, <2>2, <3>1, <3>2, RoundsAre, Zenon DEF Rounds
    <3>5. Slashes(<<x>> \o U) = <<x>> \o F
      BY <1>2, <2>4, <3>4, RoundsAre, Zenon DEF Rounds
    <3>6. NoSlashes(F) = U
      BY <1>1, <1>2, <2>3, <3>1, <3>2, RoundsAre, Zenon DEF Rounds
    <3>7. Len(F) > 0 /\ F[1] = "0"
      BY <1>1, <1>4, <3>2, OneMoreOfKey DEF Begins
    <3>8. NoSlashes(<<x>> \o F) = <<x>> \o U
      BY <3>6, <3>7, RoundsAre, Zenon DEF Rounds
    <3>9. NoTildes(<<x>> \o U) = <<x>> \o t
      BY <2>3, <2>4, <3>1, RoundsAre, Zenon DEF Rounds
    <3>10. Clean(<<x>> \o F)
      BY <1>1, <1>2, <1>5, <2>3, <2>4, <3>2
    <3> QED BY <1>3, <3>3, <3>5, <3>8, <3>9, <3>10
  <2>5. CASE x = "/"
    <3>1. Tildes(<<x>> \o t) = <<x>> \o T
      BY <1>2, <2>1, <2>5, RoundsAre, Zenon DEF Rounds
    <3>2. Slashes(<<x>> \o T) = <<"~">> \o (<<"1">> \o E)
      BY <2>2, <2>5, RoundsAre, Zenon DEF Rounds
    <3>3. NoSlashes(<<"~">> \o (<<"1">> \o E)) = <<x>> \o T
      BY <2>3, <2>5, RoundsAre, Zenon DEF Rounds
    <3>4. NoTildes(<<x>> \o T) = <<x>> \o t
      BY <1>2, <2>3, <2>5, RoundsAre, Zenon DEF Rounds
    <3>5. Clean(<<"~">> \o (<<"1">> \o E))
      BY <1>1, <1>2, <1>3, <1>5, <2>3
    <3> QED BY <1>3, <3>1, <3>2, <3>3, <3>4, <3>5
  <2>6. CASE x # "~" /\ x # "/"
    <3>1. Tildes(<<x>> \o t) = <<x>> \o T
      BY <2>1, <2>6, RoundsAre, Zenon DEF Rounds
    <3>2. Slashes(<<x>> \o T) = <<x>> \o E
      BY <2>2, <2>6, RoundsAre, Zenon DEF Rounds
    <3>3. NoSlashes(<<x>> \o E) = <<x>> \o T
      BY <2>3, <2>6, RoundsAre, Zenon DEF Rounds
    <3>4. NoTildes(<<x>> \o T) = <<x>> \o t
      BY <2>3, <2>6, RoundsAre, Zenon DEF Rounds
    <3>5. Clean(<<x>> \o E)
      BY <1>5, <2>3, <2>6
    <3> QED BY <1>3, <3>1, <3>2, <3>3, <3>4, <3>5
  <2> QED BY <2>4, <2>5, <2>6
<1>8. \A s \in Keys : s \in G
  <2> HIDE DEF G
  <2> QED BY <1>6, <1>7, EveryKey
<1>9. ASSUME NEW s \in Keys
      PROVE  escapePointerSegment(s) = Esc(s) /\ unescapePointerSegment(Esc(s)) = NoTildes(NoSlashes(Esc(s)))
  BY Zenon DEF escapePointerSegment, unescapePointerSegment, Tildes, Slashes, NoSlashes, NoTildes
<1>10. \A s \in Keys : Esc(s) \in Keys
  BY <1>4
<1> HIDE DEF Esc
<1>11. \A s \in Keys : unescapePointerSegment(escapePointerSegment(s)) = s
  BY <1>8, <1>9
<1> QED BY <1>8, <1>9, <1>10, <1>11

\* What Split makes of a key with one more character in front.
Splits(x, t) ==
    /\ Split(t) \in Seq(Keys) /\ Len(Split(t)) > 0
    /\ Split(<<>>) = << <<>> >>
    /\ Split(<<"/">> \o t) = << <<>> >> \o Split(t)
    /\ x # "/" => Split(<<x>> \o t) = << <<x>> \o Split(t)[1] >> \o Tail(Split(t))

LEMMA SplitIs ==
    ASSUME NEW x \in Characters, NEW t \in Keys
    PROVE  Splits(x, t)
<1> DEFINE Body(a, s) == IF s = <<>> THEN << <<>> >>
                         ELSE IF s[1] = "/" THEN << <<>> >> \o a[Tail(s)]
                              ELSE << <<s[1]>> \o a[Tail(s)][1] >> \o Tail(a[Tail(s)])
           Is(a) == a = [s \in Keys |-> Body(a, s)]
           V == {q \in Seq(Keys) : Len(q) > 0}
<1>1. PICK K : K = Keys
  OBVIOUS
<1>2. \A s \in K : Len(s) \in Nat
  BY <1>1 DEF Keys
<1>3. <<>> \in K
  BY <1>1 DEF Keys
<1>4. ASSUME NEW s \in K, s # <<>> PROVE <<s[1]>> \in K /\ Tail(s) \in K /\ Len(Tail(s)) < Len(s)
  <2>1. s \in Seq(Characters)
    BY <1>1 DEF Keys
  <2>2. s[1] \in Characters /\ Tail(s) \in Seq(Characters) /\ Len(Tail(s)) < Len(s)
    BY <1>4, <2>1
  <2> QED BY <1>1, <2>2 DEF Keys
<1>5. \A q, r \in K : q \o r \in K
  BY <1>1 DEF Keys
<1>6. ASSUME NEW u \in V, NEW k \in K
      PROVE  << k >> \o u \in V /\ u[1] \in K /\ << k >> \o Tail(u) \in V
  <2>1. u \in Seq(K) /\ Len(u) > 0
    BY <1>1
  <2>2. u[1] \in K /\ Tail(u) \in Seq(K)
    BY <2>1
  <2>3. << k >> \o u \in Seq(K) /\ Len(<< k >> \o u) > 0
    BY <2>1
  <2>4. << k >> \o Tail(u) \in Seq(K) /\ Len(<< k >> \o Tail(u)) > 0
    BY <2>2
  <2> QED BY <1>1, <2>2, <2>3, <2>4
<1>7. << <<>> >> \in V
  <2>1. \A k \in K : << k >> \in Seq(K) /\ Len(<< k >>) > 0
    OBVIOUS
  <2> QED BY <1>1, <1>3, <2>1
<1> HIDE DEF V
<1>8. /\ \A a : Body(a, <<>>) = << <<>> >>
      /\ \A a, s : s # <<>> /\ s[1] = "/" => Body(a, s) = << <<>> >> \o a[Tail(s)]
      /\ \A a, s : s # <<>> /\ s[1] # "/" => Body(a, s) = << <<s[1]>> \o a[Tail(s)][1] >> \o Tail(a[Tail(s)])
  OBVIOUS
<1> HIDE DEF Body
<1>9. ASSUME NEW s \in K, NEW a \in [K -> V] PROVE Body(a, s) \in V
  <2>1. CASE s = <<>>
    BY <1>7, <1>8, <2>1
  <2>2. CASE s # <<>>
    <3>1. a[Tail(s)] \in V
      BY <1>4, <2>2
    <3>2. << <<>> >> \o a[Tail(s)] \in V
      BY <1>3, <1>6, <3>1
    <3>3. a[Tail(s)][1] \in K
      BY <1>3, <1>6, <3>1
    <3>4. <<s[1]>> \o a[Tail(s)][1] \in K
      BY <1>4, <1>5, <2>2, <3>3
    <3>5. << <<s[1]>> \o a[Tail(s)][1] >> \o Tail(a[Tail(s)]) \in V
      BY <1>6, <3>1, <3>4
    <3> QED BY <1>8, <2>2, <3>2, <3>5
  <2> QED BY <2>1, <2>2
<1>10. ASSUME NEW s \in K, NEW a, NEW b, \A u \in K : Len(u) < Len(s) => a[u] = b[u]
       PROVE  Body(a, s) = Body(b, s)
  <2>1. CASE s = <<>>
    BY <1>8, <2>1
  <2>2. CASE s # <<>>
    <3>1. a[Tail(s)] = b[Tail(s)]
      BY <1>4, <1>10, <2>2
    <3> QED BY <1>8, <2>2, <3>1
  <2> QED BY <2>1, <2>2
<1>11. PICK rank : rank = [s \in K |-> Len(s)]
  OBVIOUS
<1>12. rank \in [K -> Nat] /\ \A s \in K : rank[s] = Len(s)
  BY <1>2, <1>11
<1>13. \E a \in [K -> V] : \A s \in K : a[s] = Body(a, s)
  <2>1. PICK step : step = [s \in K |-> [a \in [K -> V] |-> Body(a, s)]]
    OBVIOUS
  <2>2. step \in [K -> [[K -> V] -> V]] /\ \A s \in K : \A a \in [K -> V] : step[s][a] = Body(a, s)
    <3>1. ASSUME NEW s \in K
          PROVE  step[s] \in [[K -> V] -> V] /\ \A a \in [K -> V] : step[s][a] = Body(a, s)
      BY <1>9, <2>1
    <3> QED BY <2>1, <3>1
  <2>3. ASSUME NEW s \in K, NEW a \in [K -> V], NEW b \in [K -> V],
               \A u \in K : rank[u] < rank[s] => a[u] = b[u]
        PROVE  step[s][a] = step[s][b]
    <3>1. \A u \in K : Len(u) < Len(s) => a[u] = b[u]
      BY <1>12, <2>3
    <3>2. Body(a, s) = Body(b, s)
      BY <1>10, <3>1
    <3> QED BY <2>2, <3>2
  <2>4. LooksBelow(step, K, V, rank)
    BY <1>7, <1>12, <2>2, <2>3 DEF LooksBelow
  <2>5. PICK a \in [K -> V] : \A s \in K : a[s] = step[s][a]
    BY <2>4, RecursionEnds
  <2>6. \A s \in K : a[s] = Body(a, s)
    BY <2>2, <2>5
  <2> QED BY <2>6
<1>14. PICK some \in [K -> V] : Is(some)
  BY <1>1, <1>13
<1>15. PICK cut : cut = CHOOSE a : Is(a)
  OBVIOUS
<1>16. Is(cut)
  BY <1>14, <1>15
<1>17. \A s \in K : Split(s) = cut[s]
  BY <1>15, Zenon DEF Split, Body
<1>18. \A s \in K : cut[s] = Body(cut, s) /\ some[s] = Body(some, s)
  BY <1>1, <1>14, <1>16
<1> HIDE DEF Is
<1>19. \A s \in K : cut[s] = some[s]
  <2>1. ASSUME NEW s \in K, \A u \in K : rank[u] < rank[s] => cut[u] = some[u] PROVE cut[s] = some[s]
    <3>1. \A u \in K : Len(u) < Len(s) => cut[u] = some[u]
      BY <1>12, <2>1
    <3>2. Body(cut, s) = Body(some, s)
      BY <1>10, <3>1
    <3> QED BY <1>18, <3>2
  <2>2. AgreeFromBelow(cut, some, K, rank)
    BY <1>12, <2>1 DEF AgreeFromBelow
  <2> QED BY <2>2, RecursionIsUnique
<1>20. \A s \in K : Split(s) \in V /\ Split(s) = Body(cut, s)
  BY <1>14, <1>17, <1>18, <1>19
<1>21. Split(<<>>) = << <<>> >>
  BY <1>3, <1>8, <1>20
<1>22. t \in K /\ "/" \in Characters
  BY <1>1, WiresAssumption
<1>23. ASSUME NEW y \in Characters
       PROVE  /\ <<y>> \o t \in K /\ <<y>> \o t # <<>> /\ (<<y>> \o t)[1] = y /\ Tail(<<y>> \o t) = t
  <2>1. PICK s : s = <<y>> \o t
    OBVIOUS
  <2>2. s \in Keys /\ Begins(s, y, t) /\ Len(t) \in Nat
    BY <2>1, OneMoreOfKey
  <2>3. Len(s) > 0 /\ s[1] = y /\ Tail(s) = t
    BY <2>2 DEF Begins
  <2>4. s # <<>>
    BY <2>3
  <2> QED BY <1>1, <2>1, <2>2, <2>3, <2>4
<1>24. cut[t] = Split(t)
  BY <1>17, <1>22
<1>25. Split(<<"/">> \o t) = << <<>> >> \o Split(t)
  <2>1. PICK s : s = <<"/">> \o t
    OBVIOUS
  <2>2. s \in K /\ s # <<>> /\ s[1] = "/" /\ Tail(s) = t
    BY <1>22, <1>23, <2>1
  <2> QED BY <1>8, <1>20, <1>24, <2>1, <2>2, ZenonT(40)
<1>26. x # "/" => Split(<<x>> \o t) = << <<x>> \o Split(t)[1] >> \o Tail(Split(t))
  <2>1. PICK s : s = <<x>> \o t
    OBVIOUS
  <2>2. s \in K /\ s # <<>> /\ s[1] = x /\ Tail(s) = t
    BY <1>23, <2>1
  <2> QED BY <1>8, <1>20, <1>24, <2>1, <2>2, ZenonT(40)
<1>27. Split(t) \in Seq(Keys) /\ Len(Split(t)) > 0
  BY <1>20, <1>22 DEF V
<1> QED BY <1>21, <1>25, <1>26, <1>27 DEF Splits

\* How what is put in front of a sequence goes with what is put behind it.
LEMMA InFront ==
    ASSUME NEW X
    PROVE  \A t \in Seq(X), u \in Seq(X), x \in X : (<<x>> \o t) \o u = <<x>> \o (t \o u)
<1> SUFFICES ASSUME NEW t \in Seq(X), NEW u \in Seq(X), NEW x \in X
             PROVE  (<<x>> \o t) \o u = <<x>> \o (t \o u)
  OBVIOUS
<1>1. PICK a : a = <<x>> \o t
  OBVIOUS
<1>2. PICK b : b = t \o u
  OBVIOUS
<1>3. PICK q : q = a \o u
  OBVIOUS
<1>4. PICK r : r = <<x>> \o b
  OBVIOUS
<1>5. a \in Seq(X) /\ Begins(a, x, t) /\ b \in Seq(X)
  BY <1>1, <1>2, OneMore
<1>6. r \in Seq(X) /\ Begins(r, x, b)
  BY <1>4, <1>5, OneMore
<1>7. Len(t) \in Nat /\ Len(u) \in Nat /\ Len(b) = Len(t) + Len(u) /\ Len(a) = Len(t) + 1 /\ Len(r) = Len(b) + 1
  BY <1>2, <1>5, <1>6 DEF Begins
<1>8. q \in Seq(X) /\ Len(q) = Len(r)
  BY <1>3, <1>5, <1>7
<1>9. ASSUME NEW i \in 1..Len(r) PROVE q[i] = r[i]
  <2>1. q[i] = IF i <= Len(a) THEN a[i] ELSE u[i - Len(a)]
    BY <1>3, <1>5, <1>7
  <2>2. CASE i = 1
    <3>1. a[1] = x /\ r[1] = x /\ 1 <= Len(a)
      BY <1>5, <1>6, <1>7 DEF Begins
    <3> QED BY <2>1, <2>2, <3>1
  <2>3. CASE i # 1
    <3>1. PICK j \in 1..Len(b) : j + 1 = i
      <4>1. i - 1 \in 1..Len(b) /\ (i - 1) + 1 = i
        BY <1>7, <2>3
      <4> QED BY <4>1
    <3>2. r[j + 1] = b[j]
      BY <1>6 DEF Begins
    <3>3. b[j] = IF j <= Len(t) THEN t[j] ELSE u[j - Len(t)]
      BY <1>2, <1>7
    <3>4. CASE j <= Len(t)
      <4>1. a[j + 1] = t[j]
        BY <1>5, <1>7, <3>4 DEF Begins
      <4> QED BY <1>7, <2>1, <3>1, <3>2, <3>3, <3>4, <4>1
    <3>5. CASE j > Len(t)
      BY <1>7, <2>1, <3>1, <3>2, <3>3, <3>5
    <3> QED BY <1>7, <3>4, <3>5
  <2> QED BY <2>2, <2>3
<1>10. q = r
  BY <1>6, <1>8, <1>9, SameSequence
<1> QED BY <1>1, <1>2, <1>3, <1>4, <1>10

LEMMA Joined ==
    ASSUME NEW X, NEW s \in Seq(X), NEW z \in Seq(X)
    PROVE  /\ s \o z \in Seq(X) /\ Len(s) \in Nat /\ Len(s \o z) = Len(s) + Len(z)
           /\ \A i \in 1..Len(s) + Len(z) : (s \o z)[i] = IF i <= Len(s) THEN s[i] ELSE z[i - Len(s)]
OBVIOUS

LEMMA Behind ==
    ASSUME NEW X, NEW t \in Seq(X), NEW x \in X, NEW y \in X
    PROVE  /\ Append(t, y) = t \o <<y>>
           /\ <<x>> \o Append(t, y) = Append(<<x>> \o t, y)
           /\ Len(t) > 0 => Append(t, y)[1] = t[1] /\ Tail(Append(t, y)) = Append(Tail(t), y)
<1>1. ASSUME NEW s \in Seq(X) PROVE Append(s, y) = s \o <<y>>
  <2>1. PICK q : q = Append(s, y)
    OBVIOUS
  <2>2. PICK z : z = <<y>>
    OBVIOUS
  <2>3. z \in Seq(X) /\ Len(z) = 1 /\ z[1] = y
    BY <2>2
  <2>4. PICK r : r = s \o z
    OBVIOUS
  <2>5. q \in Seq(X) /\ Len(q) = Len(s) + 1 /\ \A i \in 1..Len(s) + 1 : q[i] = IF i <= Len(s) THEN s[i] ELSE y
    BY <2>1
  <2>6. r \in Seq(X) /\ Len(r) = Len(s) + 1 /\ \A i \in 1..Len(s) + 1 : r[i] = IF i <= Len(s) THEN s[i] ELSE y
    <3>1. /\ r \in Seq(X) /\ Len(s) \in Nat /\ Len(r) = Len(s) + Len(z)
          /\ \A i \in 1..Len(s) + Len(z) : r[i] = IF i <= Len(s) THEN s[i] ELSE z[i - Len(s)]
      <4>1. z \in Seq(X)
        BY <2>3
      <4> QED BY <2>4, <4>1, Joined
    <3>2. r \in Seq(X) /\ Len(r) = Len(s) + 1
      BY <2>3, <3>1
    <3>3. ASSUME NEW i \in 1..Len(s) + 1 PROVE r[i] = IF i <= Len(s) THEN s[i] ELSE y
      <4>1. r[i] = IF i <= Len(s) THEN s[i] ELSE z[i - Len(s)]
        BY <2>3, <3>1
      <4>2. i <= Len(s) \/ i - Len(s) = 1
        BY <3>1
      <4> QED BY <2>3, <4>1, <4>2
    <3> QED BY <3>1, <3>2, <3>3
  <2>7. Len(q) = Len(r) /\ \A i \in 1..Len(r) : q[i] = r[i]
    BY <2>5, <2>6
  <2>8. q = r
    BY <2>5, <2>6, <2>7, SameSequence
  <2> QED BY <2>1, <2>2, <2>4, <2>8
<1>2. <<y>> \in Seq(X)
  OBVIOUS
<1>3. <<x>> \o t \in Seq(X)
  OBVIOUS
<1>4. <<x>> \o (t \o <<y>>) = (<<x>> \o t) \o <<y>>
  <2>1. \A a \in Seq(X), b \in Seq(X), c \in X : (<<c>> \o a) \o b = <<c>> \o (a \o b)
    BY InFront
  <2> QED BY <1>2, <2>1
<1>5. <<x>> \o Append(t, y) = Append(<<x>> \o t, y)
  BY <1>1, <1>3, <1>4
<1>6. ASSUME Len(t) > 0 PROVE Append(t, y)[1] = t[1] /\ Tail(Append(t, y)) = Append(Tail(t), y)
  <2>1. PICK a : a = Append(t, y)
    OBVIOUS
  <2>2. PICK b : b = Tail(t)
    OBVIOUS
  <2>3. /\ a \in Seq(X) /\ Len(a) = Len(t) + 1 /\ Len(t) \in Nat
        /\ \A i \in 1..Len(a) : a[i] = IF i <= Len(t) THEN t[i] ELSE y
    BY <2>1
  <2>4. /\ b \in Seq(X) /\ Len(b) = Len(t) - 1 /\ \A i \in 1..Len(b) : b[i] = t[i + 1]
    BY <1>6, <2>2
  <2>5. PICK q : q = Tail(a)
    OBVIOUS
  <2>6. PICK r : r = Append(b, y)
    OBVIOUS
  <2>7. q \in Seq(X) /\ Len(q) = Len(t) /\ \A i \in 1..Len(q) : q[i] = a[i + 1]
    BY <2>3, <2>5
  <2>8. r \in Seq(X) /\ Len(r) = Len(t) /\ \A i \in 1..Len(r) : r[i] = IF i <= Len(b) THEN b[i] ELSE y
    BY <1>6, <2>3, <2>4, <2>6
  <2>9. ASSUME NEW i \in 1..Len(r) PROVE q[i] = r[i]
    <3>1. i + 1 \in 1..Len(a) /\ q[i] = a[i + 1] /\ Len(b) + 1 = Len(t) /\ Len(b) \in Nat
      BY <2>3, <2>4, <2>7, <2>8
    <3>2. CASE i <= Len(b)
      <4>1. i \in 1..Len(b) /\ i + 1 <= Len(t)
        BY <3>1, <3>2
      <4>2. r[i] = b[i] /\ b[i] = t[i + 1]
        BY <2>4, <2>8, <3>2, <4>1
      <4> QED BY <2>3, <3>1, <4>1, <4>2
    <3>3. CASE i > Len(b)
      BY <2>3, <2>4, <2>8, <3>1, <3>3
    <3> QED BY <2>4, <3>2, <3>3
  <2>10. q = r
    BY <2>7, <2>8, <2>9, SameSequence
  <2>11. a[1] = t[1]
    BY <1>6, <2>3
  <2> QED BY <2>1, <2>2, <2>5, <2>6, <2>10, <2>11
<1> QED BY <1>1, <1>5, <1>6

LEMMA SplitWhole ==
    \A s \in Keys : Clean(s) => Split(s) = <<s>>
<1> DEFINE G == {s \in Keys : Clean(s) => Split(s) = <<s>>}
<1>1. <<>> \in G
  <2>1. <<>> \in Keys /\ "/" \in Characters
    BY WiresAssumption DEF Keys
  <2>2. Split(<<>>) = << <<>> >>
    BY <2>1, SplitIs DEF Splits
  <2> QED BY <2>1, <2>2
<1>2. ASSUME NEW t \in Keys, NEW x \in Characters, t \in G PROVE <<x>> \o t \in G
  <2>1. PICK s : s = <<x>> \o t
    OBVIOUS
  <2>2. s \in Keys /\ Begins(s, x, t) /\ Len(t) \in Nat
    BY <2>1, OneMoreOfKey
  <2>3. ASSUME Clean(s) PROVE Split(s) = <<s>>
    <3>1. x # "/"
      <4>1. 1 \in 1..Len(s) /\ s[1] = x
        BY <2>2 DEF Begins
      <4> QED BY <2>3, <4>1 DEF Clean
    <3>2. Clean(t)
      <4> SUFFICES ASSUME NEW i \in 1..Len(t) PROVE t[i] # "/"
        BY DEF Clean
      <4>1. s[i + 1] = t[i] /\ i + 1 \in 1..Len(s)
        BY <2>2 DEF Begins
      <4> QED BY <2>3, <4>1 DEF Clean
    <3>3. Split(t) = <<t>>
      BY <1>2, <3>2
    <3>4. Split(s) = << <<x>> \o Split(t)[1] >> \o Tail(Split(t))
      BY <2>1, <3>1, SplitIs DEF Splits
    <3>5. <<t>>[1] = t /\ Tail(<<t>>) = <<>> /\ << s >> \o <<>> = << s >>
      OBVIOUS
    <3> QED BY <2>1, <3>3, <3>4, <3>5
  <2> QED BY <2>1, <2>2, <2>3
<1>3. \A s \in Keys : s \in G
  <2> HIDE DEF G
  <2> QED BY <1>1, <1>2, EveryKey
<1> QED BY <1>3

LEMMA SplitLast ==
    ASSUME NEW r \in Keys, Clean(r)
    PROVE  \A s \in Keys : Split(s \o (<<"/">> \o r)) = Append(Split(s), r)
<1>1. PICK w : w = <<"/">> \o r
  OBVIOUS
<1>2. "/" \in Characters
  BY WiresAssumption
<1>3. w \in Keys
  BY <1>1, <1>2, OneMoreOfKey
<1>4. PICK K : K = Keys
  OBVIOUS
<1>5. \A t \in K : Split(t) \in Seq(K) /\ Len(Split(t)) > 0
  BY <1>2, <1>4, SplitIs DEF Splits
<1>6. \A s, u \in K : s \o u \in K
  BY <1>4 DEF Keys
<1>7. <<>> \in K
  BY <1>4 DEF Keys
<1>8. \A x \in Characters, t \in K, u \in K : (<<x>> \o t) \o u = <<x>> \o (t \o u)
  BY <1>4, InFront DEF Keys
<1>9. \A k \in K, q \in Seq(K) : /\ <<k>> \o Append(q, r) = Append(<<k>> \o q, r)
                                /\ Len(q) > 0 => Append(q, r)[1] = q[1] /\ Tail(Append(q, r)) = Append(Tail(q), r)
  BY <1>4, Behind
<1> DEFINE G == {s \in Keys : Split(s \o w) = Append(Split(s), r)}
<1>10. <<>> \in G
  <2>1. <<>> \o w = w
    BY <1>3 DEF Keys
  <2>2. Split(<<>>) = << <<>> >> /\ Split(w) = << <<>> >> \o Split(r)
    BY <1>1, <1>2, SplitIs DEF Splits
  <2>3. Split(r) = <<r>>
    BY SplitWhole
  <2>4. << <<>> >> \o <<r>> = Append(<< <<>> >>, r)
    OBVIOUS
  <2> QED BY <1>4, <1>7, <2>1, <2>2, <2>3, <2>4
<1>11. ASSUME NEW t \in Keys, NEW x \in Characters, t \in G PROVE <<x>> \o t \in G
  <2>1. PICK s : s = <<x>> \o t
    OBVIOUS
  <2>2. s \in Keys
    BY <2>1, OneMoreOfKey
  <2>3. PICK S \in Seq(K) : S = Split(t) /\ Len(S) > 0
    BY <1>4, <1>5
  <2>4. Split(t \o w) = Append(S, r) /\ t \o w \in Keys
    BY <1>3, <1>4, <1>6, <1>11, <2>3
  <2>5. s \o w = <<x>> \o (t \o w)
    BY <1>3, <1>4, <1>8, <2>1
  <2>6. CASE x = "/"
    <3>1. Split(s \o w) = << <<>> >> \o Append(S, r)
      BY <1>2, <2>4, <2>5, <2>6, SplitIs DEF Splits
    <3>2. Split(s) = << <<>> >> \o S
      BY <1>2, <2>1, <2>3, <2>6, SplitIs DEF Splits
    <3>3. << <<>> >> \o Append(S, r) = Append(<< <<>> >> \o S, r)
      BY <1>7, <1>9, <2>3
    <3> QED BY <2>1, <2>2, <3>1, <3>2, <3>3
  <2>7. CASE x # "/"
    <3>1. Split(s \o w) = << <<x>> \o Append(S, r)[1] >> \o Tail(Append(S, r))
      BY <2>4, <2>5, <2>7, SplitIs DEF Splits
    <3>2. Split(s) = << <<x>> \o S[1] >> \o Tail(S)
      BY <2>1, <2>3, <2>7, SplitIs DEF Splits
    <3>3. Append(S, r)[1] = S[1] /\ Tail(Append(S, r)) = Append(Tail(S), r)
      BY <1>7, <1>9, <2>3
    <3>4. PICK k \in K : k = <<x>> \o S[1]
      <4>1. S[1] \in Keys
        BY <1>4, <2>3
      <4> QED BY <1>4, <4>1, OneMoreOfKey
    <3>5. Tail(S) \in Seq(K)
      BY <2>3
    <3>6. <<k>> \o Append(Tail(S), r) = Append(<<k>> \o Tail(S), r)
      BY <1>9, <3>4, <3>5
    <3> QED BY <2>1, <2>2, <3>1, <3>2, <3>3, <3>4, <3>6
  <2> QED BY <2>6, <2>7
<1>12. \A s \in Keys : s \in G
  <2> HIDE DEF G
  <2> QED BY <1>10, <1>11, EveryKey
<1> QED BY <1>1, <1>12

\* FlattenSeq, one sequence after the other.
Flattens(h, seqs, V) ==
    /\ h \in [1..Len(seqs) -> V]
    /\ h[1] = seqs[1] /\ FlattenSeq(seqs) = h[Len(seqs)]
    /\ \A i \in 1..Len(seqs) : i # 1 => h[i] = h[i - 1] \o seqs[i]

LEMMA FlattenIs ==
    ASSUME NEW X, NEW V, V = Seq(X), NEW seqs \in Seq(V), Len(seqs) > 0
    PROVE  \E h : Flattens(h, seqs, V)
<1> DEFINE Body(a, i) == IF i = 1 THEN seqs[i] ELSE a[i - 1] \o seqs[i]
           Is(a) == a = [i \in 1..Len(seqs) |-> Body(a, i)]
<1>1. PICK D : D = 1..Len(seqs)
  OBVIOUS
<1>3. /\ D \subseteq Nat /\ 1 \in D /\ Len(seqs) \in D
      /\ \A i \in D : seqs[i] \in V
      /\ \A i \in D : i # 1 => i - 1 \in D /\ i - 1 < i
  BY <1>1
<1>4. \A q, r \in V : q \o r \in V
  OBVIOUS
<1>5. /\ \A a : Body(a, 1) = seqs[1]
      /\ \A a, i : i # 1 => Body(a, i) = a[i - 1] \o seqs[i]
  OBVIOUS
<1> HIDE DEF Body
<1>6. ASSUME NEW i \in D, NEW a \in [D -> V] PROVE Body(a, i) \in V
  <2>1. CASE i = 1
    BY <1>3, <1>5, <2>1
  <2>2. CASE i # 1
    <3>1. a[i - 1] \in V /\ seqs[i] \in V
      BY <1>3, <2>2
    <3>2. a[i - 1] \o seqs[i] \in V
      BY <1>4, <3>1
    <3> QED BY <1>5, <2>2, <3>2
  <2> QED BY <2>1, <2>2
<1>7. ASSUME NEW i \in D, NEW a, NEW b, \A j \in D : j < i => a[j] = b[j] PROVE Body(a, i) = Body(b, i)
  <2>1. CASE i = 1
    BY <1>5, <2>1
  <2>2. CASE i # 1
    <3>1. a[i - 1] = b[i - 1]
      BY <1>3, <1>7, <2>2
    <3> QED BY <1>5, <2>2, <3>1
  <2> QED BY <2>1, <2>2
<1>8. PICK rank : rank = [i \in D |-> i]
  OBVIOUS
<1>9. rank \in [D -> Nat] /\ \A i \in D : rank[i] = i
  BY <1>3, <1>8
<1>10. \E a \in [D -> V] : \A i \in D : a[i] = Body(a, i)
  <2>1. PICK step : step = [i \in D |-> [a \in [D -> V] |-> Body(a, i)]]
    OBVIOUS
  <2>2. step \in [D -> [[D -> V] -> V]] /\ \A i \in D : \A a \in [D -> V] : step[i][a] = Body(a, i)
    <3>1. ASSUME NEW i \in D
          PROVE  step[i] \in [[D -> V] -> V] /\ \A a \in [D -> V] : step[i][a] = Body(a, i)
      BY <1>6, <2>1
    <3> QED BY <2>1, <3>1
  <2>3. ASSUME NEW i \in D, NEW a \in [D -> V], NEW b \in [D -> V],
               \A j \in D : rank[j] < rank[i] => a[j] = b[j]
        PROVE  step[i][a] = step[i][b]
    <3>1. \A j \in D : j < i => a[j] = b[j]
      BY <1>9, <2>3
    <3>2. Body(a, i) = Body(b, i)
      BY <1>7, <3>1
    <3> QED BY <2>2, <3>2
  <2>4. V # {}
    BY <1>3
  <2>5. LooksBelow(step, D, V, rank)
    BY <1>9, <2>2, <2>3, <2>4 DEF LooksBelow
  <2>6. PICK a \in [D -> V] : \A i \in D : a[i] = step[i][a]
    BY <2>5, RecursionEnds
  <2>7. \A i \in D : a[i] = Body(a, i)
    BY <2>2, <2>6
  <2> QED BY <2>7
<1>11. PICK some \in [D -> V] : Is(some)
  BY <1>1, <1>10
<1>12. PICK flatten : flatten = CHOOSE a : Is(a)
  OBVIOUS
<1>13. Is(flatten)
  BY <1>11, <1>12
<1>14. FlattenSeq(seqs) = flatten[Len(seqs)]
  <2>1. Len(seqs) # 0
    OBVIOUS
  <2> QED BY <1>12, <2>1, Zenon DEF FlattenSeq, Body
<1>15. \A i \in D : flatten[i] = Body(flatten, i) /\ some[i] = Body(some, i)
  BY <1>1, <1>11, <1>13
<1> HIDE DEF Is
<1>16. \A i \in D : flatten[i] = some[i]
  <2>1. ASSUME NEW i \in D, \A j \in D : rank[j] < rank[i] => flatten[j] = some[j] PROVE flatten[i] = some[i]
    <3>1. \A j \in D : j < i => flatten[j] = some[j]
      BY <1>9, <2>1
    <3>2. Body(flatten, i) = Body(some, i)
      BY <1>7, <3>1
    <3> QED BY <1>15, <3>2
  <2>2. AgreeFromBelow(flatten, some, D, rank)
    BY <1>9, <2>1 DEF AgreeFromBelow
  <2> QED BY <2>2, RecursionIsUnique
<1>17. some[1] = seqs[1]
  BY <1>3, <1>5, <1>15
<1>18. \A i \in D : i # 1 => some[i] = some[i - 1] \o seqs[i]
  BY <1>5, <1>15
<1>19. FlattenSeq(seqs) = some[Len(seqs)]
  BY <1>3, <1>14, <1>16
<1>20. some \in [1..Len(seqs) -> V]
  BY <1>1, <1>11
<1> QED BY <1>1, <1>17, <1>18, <1>19, <1>20 DEF Flattens

\* A port is found at its handle again.
LEMMA AtHandleIs ==
    \A path \in Seq(Keys) : AtHandle(path) = path
<1> SUFFICES ASSUME NEW path \in Seq(Keys), path # <<>> PROVE argumentPathFromHandle(argumentPathHandle(path)) = path
  BY DEF AtHandle
<1>1. PICK K : K = Keys
  OBVIOUS
<1>2. PICK n \in Nat : n = Len(path) /\ n > 0 /\ DOMAIN path = 1..n /\ path = [i \in 1..n |-> path[i]]
                      /\ \A i \in 1..n : path[i] \in Keys
  OBVIOUS
<1>3. PICK e : e = [i \in 1..n |-> escapePointerSegment(path[i])]
  OBVIOUS
<1>4. \A i \in 1..n : /\ e[i] = escapePointerSegment(path[i]) /\ e[i] \in Keys /\ Clean(e[i])
                     /\ unescapePointerSegment(e[i]) = path[i]
  BY <1>2, <1>3, EscapedComesBack
<1>5. "/" \in Characters
  BY WiresAssumption
<1>6. PICK seqs : seqs = [i \in 1..n |-> <<"/">> \o e[i]]
  OBVIOUS
<1>7. argumentPathHandle(path) = FlattenSeq(seqs)
  <2>1. [i \in 1..n |-> <<"/">> \o escapePointerSegment(path[i])] = seqs
    BY <1>3, <1>6
  <2> QED BY <1>2, <2>1 DEF argumentPathHandle
<1>8. seqs \in Seq(K) /\ Len(seqs) = n /\ \A i \in 1..n : seqs[i] = <<"/">> \o e[i]
  <2>1. \A i \in 1..n : <<"/">> \o e[i] \in K
    BY <1>1, <1>4, <1>5, OneMoreOfKey
  <2>2. seqs \in Seq(K) /\ Len(seqs) = n
    BY <1>2, <1>6, <2>1
  <2> QED BY <1>6, <2>2
<1>9. PICK h : /\ h \in [1..n -> K] /\ h[1] = seqs[1] /\ FlattenSeq(seqs) = h[n]
               /\ \A i \in 1..n : i # 1 => h[i] = h[i - 1] \o seqs[i]
  <2>1. Len(seqs) > 0 /\ K = Seq(Characters)
    BY <1>1, <1>2, <1>8 DEF Keys
  <2>2. PICK g : Flattens(g, seqs, K)
    BY <1>8, <2>1, FlattenIs
  <2> QED BY <1>8, <2>2 DEF Flattens
<1> DEFINE H == {i \in Nat : i + 1 <= n =>
                   \E g \in K : h[i + 1] = <<"/">> \o g /\ Split(g) = [j \in 1..i + 1 |-> e[j]]}
<1>10. 0 \in H
  <2>0. 1 \in 1..n /\ 0 + 1 = 1
    BY <1>2
  <2>1. PICK g \in K : g = e[1]
    BY <1>1, <1>4, <2>0
  <2>2. h[0 + 1] = <<"/">> \o g
    BY <1>8, <1>9, <2>0, <2>1
  <2>3. Split(g) = <<g>>
    <3>1. g \in Keys /\ Clean(g)
      BY <1>4, <2>0, <2>1
    <3> QED BY <3>1, SplitWhole
  <2>4. <<g>> = [j \in 1..0 + 1 |-> e[j]]
    <3>1. \A j \in 1..0 + 1 : j = 1
      OBVIOUS
    <3>2. [j \in 1..0 + 1 |-> e[j]] = [j \in 1..1 |-> g]
      BY <2>1, <3>1
    <3> QED BY <3>2
  <2> QED BY <2>2, <2>3, <2>4
<1>11. ASSUME NEW i \in Nat, i \in H PROVE i + 1 \in H
  <2>1. SUFFICES ASSUME (i + 1) + 1 <= n
                 PROVE  \E g \in K : /\ h[(i + 1) + 1] = <<"/">> \o g
                                     /\ Split(g) = [j \in 1..(i + 1) + 1 |-> e[j]]
    OBVIOUS
  <2>2. PICK g \in K : h[i + 1] = <<"/">> \o g /\ Split(g) = [j \in 1..i + 1 |-> e[j]]
    <3>1. i + 1 <= n
      BY <1>2, <2>1
    <3> QED BY <1>11, <3>1
  <2>3. PICK m \in 1..n : m = (i + 1) + 1 /\ m # 1 /\ m - 1 = i + 1
    BY <1>2, <2>1
  <2>4. PICK w \in K : w = <<"/">> \o e[m]
    BY <1>1, <1>4, <1>5, <2>3, OneMoreOfKey
  <2>5. h[m] = (<<"/">> \o g) \o w
    <3>1. h[m] = h[m - 1] \o seqs[m] /\ seqs[m] = w
      BY <1>8, <1>9, <2>3, <2>4
    <3> QED BY <2>2, <2>3, <3>1
  <2>6. (<<"/">> \o g) \o w = <<"/">> \o (g \o w)
    <3>1. g \in Seq(Characters) /\ w \in Seq(Characters)
      BY <1>1, <2>2, <2>4 DEF Keys
    <3>2. \A t \in Seq(Characters), u \in Seq(Characters), x \in Characters : (<<x>> \o t) \o u = <<x>> \o (t \o u)
      BY InFront
    <3> QED BY <1>5, <3>1, <3>2
  <2>7. g \o w \in K
    BY <1>1, <2>2, <2>4 DEF Keys
  <2>8. Split(g \o w) = Append(Split(g), e[m])
    BY <1>1, <1>4, <2>2, <2>3, <2>4, SplitLast
  <2>9. Append(Split(g), e[m]) = [j \in 1..m |-> e[j]]
    <3>1. PICK q : q = Split(g)
      OBVIOUS
    <3>2. q = [j \in 1..i + 1 |-> e[j]]
      BY <2>2, <3>1
    <3>3. e \in [1..n -> K]
      BY <1>1, <1>3, <1>4
    <3>4. q \in Seq(K) /\ Len(q) = i + 1
      BY <2>3, <3>2, <3>3
    <3> QED BY <2>3, <3>1, <3>2, <3>3, <3>4
  <2> QED BY <2>3, <2>5, <2>6, <2>7, <2>8, <2>9
<1>12. \A i \in Nat : i \in H
  <2> HIDE DEF H
  <2> QED BY <1>10, <1>11, EveryNumber
<1>13. PICK g \in K : h[n] = <<"/">> \o g /\ Split(g) = [j \in 1..n |-> e[j]]
  <2>1. n - 1 \in Nat /\ (n - 1) + 1 = n
    BY <1>2
  <2>2. n - 1 \in H
    BY <1>12, <2>1
  <2>3. \E g \in K : h[(n - 1) + 1] = <<"/">> \o g /\ Split(g) = [j \in 1..(n - 1) + 1 |-> e[j]]
    BY <2>1, <2>2
  <2> QED BY <2>1, <2>3
<1>14. Tail(h[n]) = g
  BY <1>1, <1>5, <1>13, OneMoreOfKey DEF Begins
<1>15. argumentPathFromHandle(h[n]) = [i \in 1..n |-> unescapePointerSegment(e[i])]
  <2>1. PICK segments : segments = Split(Tail(h[n]))
    OBVIOUS
  <2>2. segments = [j \in 1..n |-> e[j]]
    BY <1>13, <1>14, <2>1
  <2>3. DOMAIN segments = 1..n /\ \A i \in 1..n : segments[i] = e[i]
    BY <2>2
  <2>4. argumentPathFromHandle(h[n]) = [i \in DOMAIN segments |-> unescapePointerSegment(segments[i])]
    BY <2>1 DEF argumentPathFromHandle
  <2> QED BY <2>3, <2>4
<1>16. [i \in 1..n |-> unescapePointerSegment(e[i])] = path
  BY <1>2, <1>4
<1> QED BY <1>7, <1>9, <1>15, <1>16

-----------------------------------------------------------------------------
(* Values and places. *)

LEMMA PartOfSet ==
    ASSUME NEW value, NEW key, NEW part, NEW other
    PROVE  /\ Part(SetPart(value, key, part), key) = part
           /\ other # key => Part(SetPart(value, key, part), other) = Part(value, other)
           /\ Part(Missing, key) = Missing
<1>1. PICK parts : parts = [k \in DOMAIN value.parts \cup {key} |-> IF k = key THEN part ELSE value.parts[k]]
  OBVIOUS
<1>2. SetPart(value, key, part).parts = parts
  BY <1>1 DEF SetPart
<1>3. parts[key] = part /\ key \in DOMAIN parts
  BY <1>1
<1>4. other # key => (other \in DOMAIN parts <=> other \in DOMAIN value.parts)
  BY <1>1
<1>5. other # key /\ other \in DOMAIN parts => parts[other] = value.parts[other]
  BY <1>1
<1>6. DOMAIN Missing.parts = {}
  BY DEF Missing, NoParts
<1> QED BY <1>2, <1>3, <1>4, <1>5, <1>6 DEF Part

\* valueAtPath, one segment after the other.
Descends(at, value, path) ==
    at[0] = value /\ \A i \in Nat : i + 1 <= Len(path) => at[i + 1] = Part(at[i], path[i + 1])

LEMMA ValueDescends ==
    ASSUME NEW value, NEW path, Len(path) \in Nat
    PROVE  \E at : Descends(at, value, path) /\ valueAtPath(value, path) = at[Len(path)]
<1> DEFINE Body(h, i) == IF i = 0 THEN value ELSE Part(h[i - 1], path[i])
           Is(h, m) == h = [i \in 0..m |-> Body(h, i)]
           H == {m \in Nat : \E h : Is(h, m)}
<1>1. \A h : Body(h, 0) = value
  OBVIOUS
<1>2. \A h, k : \A i : i # 0 /\ h[i - 1] = k[i - 1] => Body(h, i) = Body(k, i)
  OBVIOUS
<1>3. \A h : \A i : i # 0 => Body(h, i) = Part(h[i - 1], path[i])
  OBVIOUS
<1> HIDE DEF Body
<1>4. 0 \in H
  <2>1. PICK h : h = [i \in 0..0 |-> value]
    OBVIOUS
  <2>2. Is(h, 0)
    BY <1>1, <2>1
  <2> QED BY <2>2
<1>5. ASSUME NEW m \in Nat, m \in H PROVE m + 1 \in H
  <2>1. PICK h : Is(h, m)
    BY <1>5
  <2>2. PICK k : k = [i \in 0..(m + 1) |-> Body(h, i)]
    OBVIOUS
  <2>3. \A i \in 0..m : k[i] = h[i]
    BY <2>1, <2>2
  <2>4. \A i \in 0..(m + 1) : Body(h, i) = Body(k, i)
    BY <1>1, <1>2, <2>3
  <2>5. Is(k, m + 1)
    BY <2>2, <2>4
  <2> HIDE DEF Is
  <2> QED BY <2>5
<1>6. \A m \in Nat : m \in H
  <2> HIDE DEF H
  <2> QED BY <1>4, <1>5, EveryNumber
<1>7. \E h : Is(h, Len(path))
  BY <1>6
<1>8. PICK at : Is(at, Len(path)) /\ at = CHOOSE h : Is(h, Len(path))
  BY <1>7
<1>9. valueAtPath(value, path) = at[Len(path)]
  BY <1>8, Zenon DEF valueAtPath, Body
<1>10. \A i \in 0..Len(path) : at[i] = Body(at, i)
  BY <1>8
<1>11. at[0] = value
  BY <1>1, <1>10
<1>12. ASSUME NEW i \in Nat, i + 1 <= Len(path) PROVE at[i + 1] = Part(at[i], path[i + 1])
  <2>1. i + 1 \in 0..Len(path) /\ i + 1 # 0 /\ (i + 1) - 1 = i
    BY <1>12
  <2>2. at[i + 1] = Part(at[(i + 1) - 1], path[i + 1])
    BY <1>3, <1>10, <2>1, Zenon
  <2> QED BY <2>1, <2>2
<1> QED BY <1>9, <1>11, <1>12 DEF Descends

\* The value that a path reaches after its first n segments.
At(value, path, n) == valueAtPath(value, SubSeq(path, 1, n))

LEMMA AtIs ==
    ASSUME NEW X, NEW path \in Seq(X), NEW value
    PROVE  /\ At(value, path, 0) = value
           /\ At(value, path, Len(path)) = valueAtPath(value, path)
           /\ \A n \in Nat : n + 1 <= Len(path) => At(value, path, n + 1) = Part(At(value, path, n), path[n + 1])
<1>1. Len(path) \in Nat /\ SubSeq(path, 1, Len(path)) = path
  OBVIOUS
<1>2. PICK at : Descends(at, value, path) /\ valueAtPath(value, path) = at[Len(path)]
  BY <1>1, ValueDescends
<1>3. ASSUME NEW n \in Nat, n <= Len(path) PROVE At(value, path, n) = at[n]
  <2>1. PICK p : p = SubSeq(path, 1, n)
    OBVIOUS
  <2>2. Len(p) = n /\ \A i \in 1..n : p[i] = path[i]
    BY <1>1, <1>3, <2>1
  <2>3. PICK to : Descends(to, value, p) /\ valueAtPath(value, p) = to[n]
    BY <2>2, ValueDescends
  <2> DEFINE H == {i \in Nat : i <= n => to[i] = at[i]}
  <2>4. 0 \in H
    BY <1>2, <2>3 DEF Descends
  <2>5. ASSUME NEW i \in Nat, i \in H PROVE i + 1 \in H
    <3>1. SUFFICES ASSUME i + 1 <= n PROVE to[i + 1] = at[i + 1]
      OBVIOUS
    <3>2. to[i] = at[i] /\ i + 1 <= Len(path) /\ i + 1 <= Len(p) /\ p[i + 1] = path[i + 1]
      BY <1>1, <1>3, <2>2, <2>5, <3>1
    <3> QED BY <1>2, <2>3, <3>2 DEF Descends
  <2>6. \A i \in Nat : i \in H
    <3> HIDE DEF H
    <3> QED BY <2>4, <2>5, EveryNumber
  <2>7. to[n] = at[n]
    BY <2>6
  <2> QED BY <2>1, <2>3, <2>7 DEF At
<1>4. At(value, path, 0) = value
  BY <1>1, <1>2, <1>3 DEF Descends
<1>5. At(value, path, Len(path)) = valueAtPath(value, path)
  BY <1>1 DEF At
<1>6. ASSUME NEW n \in Nat, n + 1 <= Len(path) PROVE At(value, path, n + 1) = Part(At(value, path, n), path[n + 1])
  <2>1. n <= Len(path)
    BY <1>1, <1>6
  <2> QED BY <1>2, <1>3, <1>6, <2>1 DEF Descends
<1> QED BY <1>4, <1>5, <1>6

\* What becomes of the parts on the way to a place that is set.
LEMMA SetIs ==
    ASSUME NEW X, NEW path \in Seq(X), NEW value, NEW put
    PROVE  \E new : /\ new[0] = put /\ setValueAtPath(value, path, put) = new[Len(path)]
                    /\ \A i \in Nat : i + 1 <= Len(path) =>
                         new[i + 1] = SetPart(At(value, path, Len(path) - (i + 1)), path[Len(path) - i], new[i])
<1>0. Len(path) \in Nat
  OBVIOUS
<1> DEFINE More(g, i) == SetPart(At(value, path, Len(path) - i), path[Len(path) - i + 1], g)
           Body(h, i) == IF i = 0 THEN put ELSE More(h[i - 1], i)
           Is(h, m) == h = [i \in 0..m |-> Body(h, i)]
           H == {m \in Nat : \E h : Is(h, m)}
<1>1. \A h : Body(h, 0) = put
  OBVIOUS
<1>2. \A h, k : \A i : i # 0 /\ h[i - 1] = k[i - 1] => Body(h, i) = Body(k, i)
  <2> HIDE DEF More
  <2> QED OBVIOUS
<1>3. \A h : \A i : i # 0 => Body(h, i) = More(h[i - 1], i)
  OBVIOUS
<1> HIDE DEF Body, More
<1>4. 0 \in H
  <2>1. PICK h : h = [i \in 0..0 |-> put]
    OBVIOUS
  <2>2. Is(h, 0)
    BY <1>1, <2>1
  <2> QED BY <2>2
<1>5. ASSUME NEW m \in Nat, m \in H PROVE m + 1 \in H
  <2>1. PICK h : Is(h, m)
    BY <1>5
  <2>2. PICK k : k = [i \in 0..(m + 1) |-> Body(h, i)]
    OBVIOUS
  <2>3. \A i \in 0..m : k[i] = h[i]
    BY <2>1, <2>2
  <2>4. \A i \in 0..(m + 1) : Body(h, i) = Body(k, i)
    BY <1>1, <1>2, <2>3
  <2>5. Is(k, m + 1)
    BY <2>2, <2>4
  <2> HIDE DEF Is
  <2> QED BY <2>5
<1>6. \A m \in Nat : m \in H
  <2> HIDE DEF H
  <2> QED BY <1>4, <1>5, EveryNumber
<1>7. \E h : Is(h, Len(path))
  BY <1>0, <1>6
<1>8. PICK new : Is(new, Len(path)) /\ new = CHOOSE h : Is(h, Len(path))
  BY <1>7
<1>9. setValueAtPath(value, path, put) = new[Len(path)]
  BY <1>8, Zenon DEF setValueAtPath, Body, More, At
<1>10. \A i \in 0..Len(path) : new[i] = Body(new, i)
  BY <1>8
<1>11. new[0] = put
  BY <1>1, <1>10
<1>12. ASSUME NEW i \in Nat, i + 1 <= Len(path)
       PROVE  new[i + 1] = SetPart(At(value, path, Len(path) - (i + 1)), path[Len(path) - i], new[i])
  <2>1. i + 1 \in 0..Len(path) /\ i + 1 # 0 /\ (i + 1) - 1 = i /\ Len(path) - (i + 1) + 1 = Len(path) - i
    BY <1>0, <1>12
  <2>2. new[i + 1] = More(new[(i + 1) - 1], i + 1)
    BY <1>3, <1>10, <2>1, Zenon
  <2> QED BY <2>1, <2>2 DEF More
<1> QED BY <1>0, <1>9, <1>11, <1>12

IsSequence(path) == \E X : path \in Seq(X)

LEMMA PlacesAreSequences ==
    ASSUME NEW value
    PROVE  \A place \in Places(value) : IsSequence(place)
<1> DEFINE More(g) == UNION {{Append(path, key) : key \in DOMAIN valueAtPath(value, path).parts} : path \in g}
           Body(h, i) == IF i = 0 THEN {<<>>} ELSE More(h[i - 1])
           Is(h, m) == h = [i \in 0..m |-> Body(h, i)]
           H == {m \in Nat : \E h : Is(h, m)}
<1>1. \A h : Body(h, 0) = {<<>>}
  OBVIOUS
<1>2. \A h, k : \A i : i # 0 /\ h[i - 1] = k[i - 1] => Body(h, i) = Body(k, i)
  <2> HIDE DEF More
  <2> QED OBVIOUS
<1>3. \A h : \A i : i # 0 => Body(h, i) = More(h[i - 1])
  OBVIOUS
<1> HIDE DEF Body, More
<1>4. 0 \in H
  <2>1. PICK h : h = [i \in 0..0 |-> {<<>>}]
    OBVIOUS
  <2>2. Is(h, 0)
    BY <1>1, <2>1
  <2> QED BY <2>2
<1>5. ASSUME NEW m \in Nat, m \in H PROVE m + 1 \in H
  <2>1. PICK h : Is(h, m)
    BY <1>5
  <2>2. PICK k : k = [i \in 0..(m + 1) |-> Body(h, i)]
    OBVIOUS
  <2>3. \A i \in 0..m : k[i] = h[i]
    BY <2>1, <2>2
  <2>4. \A i \in 0..(m + 1) : Body(h, i) = Body(k, i)
    <3>1. TAKE i \in 0..(m + 1)
    <3>2. CASE i = 0
      BY <1>1, <3>2
    <3>3. CASE i # 0
      <4>1. i - 1 \in 0..m
        BY <3>1, <3>3
      <4> QED BY <1>2, <2>3, <3>3, <4>1
    <3> QED BY <3>2, <3>3
  <2>5. Is(k, m + 1)
    BY <2>2, <2>4
  <2> HIDE DEF Is
  <2> QED BY <2>5
<1>6. \A m \in Nat : m \in H
  <2> HIDE DEF H
  <2> QED BY <1>4, <1>5, EveryNumber
<1>7. \E h : Is(h, MaxDepth)
  BY <1>6, WiresAssumption
<1>8. PICK at : Is(at, MaxDepth) /\ at = CHOOSE h : Is(h, MaxDepth)
  BY <1>7
<1>9. Places(value) = UNION {at[n] : n \in 0..MaxDepth}
  BY <1>8, Zenon DEF Places, Body, More
<1>10. \A i \in 0..MaxDepth : at[i] = Body(at, i)
  BY <1>8
<1> DEFINE S == {n \in Nat : n <= MaxDepth => \A place \in at[n] : IsSequence(place)}
<1>11. 0 \in S
  <2>1. IsSequence(<<>>)
    <3>1. <<>> \in Seq({})
      OBVIOUS
    <3> QED BY <3>1 DEF IsSequence
  <2> QED BY <1>1, <1>10, <2>1
<1>12. ASSUME NEW n \in Nat, n \in S PROVE n + 1 \in S
  <2>1. SUFFICES ASSUME n + 1 <= MaxDepth, NEW place \in at[n + 1] PROVE IsSequence(place)
    OBVIOUS
  <2>2. n + 1 \in 0..MaxDepth /\ n + 1 # 0 /\ (n + 1) - 1 = n /\ n <= MaxDepth
    BY <2>1, WiresAssumption
  <2>3. at[n + 1] = More(at[(n + 1) - 1])
    BY <1>3, <1>10, <2>2, Zenon
  <2>4. PICK path \in at[n] : \E key : place = Append(path, key)
    BY <2>1, <2>2, <2>3 DEF More
  <2>5. PICK key : place = Append(path, key)
    BY <2>4
  <2>6. PICK X : path \in Seq(X)
    BY <1>12, <2>2, <2>4 DEF IsSequence
  <2>7. place \in Seq(X \cup {key})
    <3>1. path \in Seq(X \cup {key})
      BY <2>6
    <3> QED BY <2>5, <3>1
  <2> QED BY <2>7 DEF IsSequence
<1>13. \A n \in Nat : n \in S
  <2> HIDE DEF S
  <2> QED BY <1>11, <1>12, EveryNumber
<1> QED BY <1>9, <1>13

\* A place that is set has what was put there, and what is apart from it stays.
LEMMA SetKeepsToItsPlace ==
    ASSUME NEW X, NEW path \in Seq(X), NEW value, NEW put, NEW after, after = setValueAtPath(value, path, put)
    PROVE  /\ valueAtPath(after, path) = put
           /\ \A place : IsSequence(place) /\ Apart(place, path) =>
                valueAtPath(after, place) = valueAtPath(value, place)
<1>0. PICK L \in Nat : L = Len(path)
  OBVIOUS
<1>1. PICK new : /\ new[0] = put /\ after = new[L]
                 /\ \A i \in Nat : i + 1 <= L => new[i + 1] = SetPart(At(value, path, L - (i + 1)), path[L - i], new[i])
  BY <1>0, SetIs
<1>2. ASSUME NEW n \in Nat, n + 1 <= L
      PROVE  new[L - n] = SetPart(At(value, path, n), path[n + 1], new[L - (n + 1)])
  <2>1. PICK i : i = L - (n + 1)
    OBVIOUS
  <2>2. i \in Nat /\ i + 1 <= L /\ i + 1 = L - n /\ L - (i + 1) = n /\ L - i = n + 1
    BY <1>0, <1>2, <2>1
  <2> QED BY <1>1, <2>1, <2>2
<1>3. /\ At(after, path, 0) = after /\ At(after, path, L) = valueAtPath(after, path)
      /\ \A n \in Nat : n + 1 <= L => At(after, path, n + 1) = Part(At(after, path, n), path[n + 1])
  BY <1>0, AtIs, ZenonT(40)
<1> DEFINE H == {n \in Nat : n <= L => At(after, path, n) = new[L - n]}
<1>4. 0 \in H
  BY <1>0, <1>1, <1>3
<1>5. ASSUME NEW n \in Nat, n \in H PROVE n + 1 \in H
  <2>1. SUFFICES ASSUME n + 1 <= L PROVE At(after, path, n + 1) = new[L - (n + 1)]
    OBVIOUS
  <2>2. At(after, path, n) = new[L - n]
    BY <1>0, <1>5, <2>1
  <2>3. At(after, path, n + 1) = Part(new[L - n], path[n + 1])
    BY <1>3, <2>1, <2>2
  <2> QED BY <1>2, <2>1, <2>3, PartOfSet
<1>6. \A n \in Nat : n \in H
  <2> HIDE DEF H
  <2> QED BY <1>4, <1>5, EveryNumber
<1>7. valueAtPath(after, path) = put
  <2>1. L \in H /\ L - L = 0 /\ L <= L
    BY <1>0, <1>6
  <2> QED BY <1>1, <1>3, <2>1
<1>8. ASSUME NEW place, IsSequence(place), Apart(place, path) PROVE valueAtPath(after, place) = valueAtPath(value, place)
  <2>1. PICK Y : place \in Seq(Y)
    BY <1>8 DEF IsSequence
  <2>2. PICK M \in Nat : M = Len(place)
    BY <2>1
  <2>3. PICK m \in Nat : /\ m + 1 <= L /\ m + 1 <= M /\ place[m + 1] # path[m + 1]
                        /\ \A i \in 1..m : place[i] = path[i]
    <3> DEFINE D == {i \in Nat : i + 1 <= L /\ i + 1 <= M /\ place[i + 1] # path[i + 1]}
    <3>1. D # {}
      <4>1. SUFFICES ASSUME \A i \in Nat : i + 1 <= L /\ i + 1 <= M => place[i + 1] = path[i + 1] PROVE FALSE
        OBVIOUS
      <4>2. ASSUME NEW j \in 1..L, j <= M PROVE place[j] = path[j]
        <5>1. j - 1 \in Nat /\ (j - 1) + 1 = j
          OBVIOUS
        <5> QED BY <4>1, <4>2, <5>1
      <4>3. CASE M <= L
        <5>1. SubSeq(place, 1, M) = SubSeq(path, 1, M)
          BY <1>0, <2>1, <2>2, <4>2, <4>3
        <5> QED BY <1>0, <1>8, <2>2, <4>3, <5>1 DEF Apart, IsPrefix
      <4>4. CASE L <= M
        <5>1. SubSeq(place, 1, L) = SubSeq(path, 1, L)
          BY <1>0, <2>1, <2>2, <4>2, <4>4
        <5> QED BY <1>0, <1>8, <2>2, <4>4, <5>1 DEF Apart, IsPrefix
      <4> QED BY <1>0, <2>2, <4>3, <4>4
    <3>2. PICK m \in D : \A i \in D : m <= i
      <4>1. D \in SUBSET Nat
        OBVIOUS
      <4> HIDE DEF D
      <4> QED BY <3>1, <4>1, LeastOf
    <3>3. ASSUME NEW i \in 1..m PROVE place[i] = path[i]
      <4>1. i - 1 \in Nat /\ (i - 1) + 1 = i /\ i - 1 < m /\ i <= L /\ i <= M
        BY <3>2
      <4>2. i - 1 \notin D
        BY <3>2, <4>1
      <4> QED BY <4>1, <4>2
    <3> QED BY <3>2, <3>3
  <2>4. /\ At(after, place, 0) = after /\ At(after, place, M) = valueAtPath(after, place)
        /\ \A n \in Nat : n + 1 <= M => At(after, place, n + 1) = Part(At(after, place, n), place[n + 1])
    BY <2>1, <2>2, AtIs, ZenonT(40)
  <2>12. /\ At(value, place, 0) = value /\ At(value, place, M) = valueAtPath(value, place)
         /\ \A n \in Nat : n + 1 <= M => At(value, place, n + 1) = Part(At(value, place, n), place[n + 1])
    BY <2>1, <2>2, AtIs, ZenonT(40)
  <2>5. At(after, place, m) = At(after, path, m) /\ At(value, place, m) = At(value, path, m)
    <3>1. SubSeq(place, 1, m) = SubSeq(path, 1, m)
      BY <1>0, <2>1, <2>2, <2>3
    <3> QED BY <3>1 DEF At
  <2>6. At(after, place, m + 1) = At(value, place, m + 1)
    <3>1. At(after, path, m) = new[L - m]
      BY <1>0, <1>6, <2>3
    <3>2. new[L - m] = SetPart(At(value, path, m), path[m + 1], new[L - (m + 1)])
      BY <1>2, <2>3
    <3>3. Part(new[L - m], place[m + 1]) = Part(At(value, path, m), place[m + 1])
      BY <2>3, <3>2, PartOfSet
    <3> QED BY <2>3, <2>4, <2>12, <2>5, <3>1, <3>3
  <2> DEFINE S == {i \in Nat : (m + 1) + i <= M => At(after, place, (m + 1) + i) = At(value, place, (m + 1) + i)}
  <2>7. 0 \in S
    BY <2>3, <2>6
  <2>8. ASSUME NEW i \in Nat, i \in S PROVE i + 1 \in S
    <3>1. PICK n \in Nat : n = (m + 1) + i /\ n + 1 = (m + 1) + (i + 1)
      BY <2>3
    <3>2. ASSUME n + 1 <= M PROVE At(after, place, n + 1) = At(value, place, n + 1)
      BY <2>2, <2>4, <2>12, <2>8, <3>1, <3>2
    <3> QED BY <3>1, <3>2
  <2>9. \A i \in Nat : i \in S
    <3> HIDE DEF S
    <3> QED BY <2>7, <2>8, EveryNumber
  <2>10. M - (m + 1) \in S /\ (m + 1) + (M - (m + 1)) = M
    <3>1. M - (m + 1) \in Nat /\ (m + 1) + (M - (m + 1)) = M
      BY <2>2, <2>3
    <3> QED BY <2>9, <3>1
  <2>11. At(after, place, M) = At(value, place, M)
    BY <2>2, <2>10
  <2> QED BY <2>4, <2>12, <2>11
<1> QED BY <1>7, <1>8

\* Behind what is missing there is nothing.
LEMMA NothingBehind ==
    ASSUME NEW X, NEW path \in Seq(X), NEW value, ~Settable(value, path)
    PROVE  valueAtPath(value, path) = Missing
<1>1. PICK L \in Nat : L = Len(path)
  OBVIOUS
<1>2. PICK m \in 1..L : At(value, path, m) = Missing
  BY <1>1 DEF Settable, At
<1>3. /\ At(value, path, L) = valueAtPath(value, path)
      /\ \A n \in Nat : n + 1 <= L => At(value, path, n + 1) = Part(At(value, path, n), path[n + 1])
  BY <1>1, AtIs
<1> DEFINE H == {i \in Nat : m + i <= L => At(value, path, m + i) = Missing}
<1>4. 0 \in H
  BY <1>2
<1>5. ASSUME NEW i \in Nat, i \in H PROVE i + 1 \in H
  <2>1. PICK n \in Nat : n = m + i /\ n + 1 = m + (i + 1)
    BY <1>2
  <2>2. ASSUME n + 1 <= L PROVE At(value, path, n + 1) = Missing
    <3>1. At(value, path, n) = Missing
      BY <1>1, <1>5, <2>1, <2>2
    <3> QED BY <1>3, <2>2, <3>1, PartOfSet
  <2> QED BY <2>1, <2>2
<1>6. \A i \in Nat : i \in H
  <2> HIDE DEF H
  <2> QED BY <1>4, <1>5, EveryNumber
<1>7. L - m \in H /\ m + (L - m) = L
  <2>1. L - m \in Nat /\ m + (L - m) = L
    BY <1>1, <1>2
  <2> QED BY <1>6, <2>1
<1> QED BY <1>1, <1>3, <1>7

KeepsToItsPlace ==
    \/ /\ valueAtPath(argument', aim'.path) = aim'.put
       /\ \A place \in Places(argument) :
            Apart(place, aim'.path) => valueAtPath(argument', place) = valueAtPath(argument, place)
    \/ argument' = argument /\ valueAtPath(argument, aim'.path) = Missing

LEMMA WireKeeps ==
    ASSUME NEW path \in Seq(Keys), NEW put, Wire(path, put)
    PROVE  KeepsToItsPlace
<1>1. AtHandle(path) = path
  BY AtHandleIs
<1>2. aim'.path = path /\ aim'.put = put
  BY DEF Wire
<1>3. CASE Settable(argument, path)
  <2>1. argument' = setValueAtPath(argument, path, put)
    BY <1>1, <1>3 DEF Wire
  <2>2. /\ valueAtPath(argument', path) = put
        /\ \A place : IsSequence(place) /\ Apart(place, path) =>
             valueAtPath(argument', place) = valueAtPath(argument, place)
    BY <2>1, SetKeepsToItsPlace
  <2>3. \A place \in Places(argument) : IsSequence(place)
    BY PlacesAreSequences
  <2> QED BY <1>2, <2>2, <2>3 DEF KeepsToItsPlace
<1>4. CASE ~Settable(argument, path)
  <2>1. argument' = argument
    BY <1>1, <1>4 DEF Wire
  <2>2. valueAtPath(argument, path) = Missing
    BY <1>4, NothingBehind
  <2> QED BY <1>2, <2>1, <2>2 DEF KeepsToItsPlace
<1> QED BY <1>3, <1>4

\* WiresKeepToTheirPlace for every value, every path and whatever is put there: a
\* port is found at its handle again (graph.ts:561-578), so that the wire's part
\* is set where the port stands, and no part that is apart from it is touched
\* (graph.ts:596-612); where there is no such place, the value stays as it was.
THEOREM WiresAlwaysKeepToTheirPlace == WiresSpec => WiresKeepToTheirPlace
<1>1. ASSUME WiresNext PROVE KeepsToItsPlace
  <2>1. CASE aim'.path \in Seq(Keys) /\ Wire(aim'.path, aim'.put)
    BY <2>1, WireKeeps
  <2>2. CASE EditArgument
    <3>1. aim'.path = <<>> /\ aim'.put = argument'
      BY <2>2 DEF EditArgument
    <3>2. <<>> \in Seq({}) /\ Len(<<>>) = 0
      OBVIOUS
    <3>3. valueAtPath(argument', <<>>) = argument'
      BY <3>2, AtIs
    <3>4. ASSUME NEW place, IsSequence(place) PROVE ~Apart(place, <<>>)
      <4>1. PICK X : place \in Seq(X)
        BY <3>4 DEF IsSequence
      <4>2. Len(place) \in Nat /\ SubSeq(place, 1, 0) = <<>> /\ SubSeq(<<>>, 1, 0) = <<>>
        BY <4>1
      <4> QED BY <3>2, <4>2 DEF Apart, IsPrefix
    <3>5. \A place \in Places(argument) : IsSequence(place)
      BY PlacesAreSequences
    <3> QED BY <3>1, <3>3, <3>4, <3>5 DEF KeepsToItsPlace
  <2> QED BY <1>1, <2>1, <2>2 DEF WiresNext
<1>2. [WiresNext]_wireVars => [KeepsToItsPlace]_wireVars
  BY <1>1
<1>3. [KeepsToItsPlace]_wireVars =>
      [LET path == aim'.path IN
        \/ /\ valueAtPath(argument', path) = aim'.put
           /\ \A place \in Places(argument) :
                Apart(place, path) => valueAtPath(argument', place) = valueAtPath(argument, place)
        \/ argument' = argument /\ valueAtPath(argument, path) = Missing]_wireVars
  BY DEF KeepsToItsPlace
<1> QED BY <1>2, <1>3, PTL DEF WiresSpec, WiresKeepToTheirPlace
=============================================================================
