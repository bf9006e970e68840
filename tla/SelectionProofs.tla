--------------------------- MODULE SelectionProofs --------------------------
(* Proofs about Selection, for any users, sources, presets and payloads. *)
EXTENDS Selection, FiniteSetTheorems, TLAPS

-----------------------------------------------------------------------------
(* Lists in an order. *)

\* R orders the members of S, whichever way two of them are compared.
Orders(R, S) ==
    /\ \A i \in S : <<i, i>> \notin R
    /\ \A i, j, k \in S : <<i, j>> \in R /\ <<j, k>> \in R => <<i, k>> \in R
    /\ \A i, j \in S : i = j \/ <<i, j>> \in R \/ <<j, i>> \in R

\* InOrder lists every member of the set once, the lower ones first: a member's place
\* is the number of those before it, which no two members share.
LEMMA InOrderProperties ==
    ASSUME NEW S, IsFiniteSet(S), NEW R, Orders(R, S)
    PROVE  /\ Cardinality(S) \in Nat
           /\ InOrder(S, R) \in [1 .. Cardinality(S) -> S]
           /\ \A i \in S : \E n \in 1 .. Cardinality(S) : InOrder(S, R)[n] = i
           /\ \A m, n \in 1 .. Cardinality(S) :
                 <<InOrder(S, R)[m], InOrder(S, R)[n]>> \in R <=> m < n
<1> DEFINE c == Cardinality(S)
           Under(i) == {j \in S : <<j, i>> \in R}
           pos == [i \in S |-> Cardinality(Under(i))]
           e == InOrder(S, R)
<1>1. c \in Nat
    BY FS_CardinalityType
<1>2. ASSUME NEW i \in S
      PROVE  IsFiniteSet(Under(i)) /\ Cardinality(Under(i)) \in 0 .. c - 1
  <2>1. Under(i) \in SUBSET S /\ Under(i) # S
      BY DEF Orders
  <2>2. IsFiniteSet(Under(i)) /\ Cardinality(Under(i)) <= c /\ c # Cardinality(Under(i))
      BY <2>1, FS_Subset
  <2>3. Cardinality(Under(i)) \in Nat
      BY <2>2, FS_CardinalityType
  <2> HIDE DEF Under, c
  <2> QED
      BY <1>1, <2>2, <2>3
<1>3. ASSUME NEW i \in S, NEW j \in S, <<i, j>> \in R
      PROVE  Cardinality(Under(i)) < Cardinality(Under(j))
  <2>1. Under(i) \in SUBSET Under(j) /\ Under(i) # Under(j)
      BY <1>3 DEF Orders
  <2>2. Cardinality(Under(i)) <= Cardinality(Under(j)) /\ Cardinality(Under(j)) # Cardinality(Under(i))
      BY <1>2, <2>1, FS_Subset
  <2> HIDE DEF Under, c
  <2> QED
      BY <1>1, <1>2, <2>2
<1>4. pos \in [S -> 0 .. c - 1]
    BY <1>2
<1>5. ASSUME NEW i \in S, NEW j \in S, pos[i] = pos[j] PROVE i = j
  <2>1. pos[i] \in 0 .. c - 1
      BY <1>4
  <2>2. <<i, j>> \in R => pos[i] < pos[j]
      BY <1>3
  <2>3. <<j, i>> \in R => pos[j] < pos[i]
      BY <1>3
  <2>4. i = j \/ <<i, j>> \in R \/ <<j, i>> \in R
      BY DEF Orders
  <2> HIDE DEF pos, c
  <2> QED
      BY <1>1, <1>5, <2>1, <2>2, <2>3, <2>4
<1>6. \A p \in 0 .. c - 1 : \E i \in S : pos[i] = p
  <2>1. pos \in Injection(S, 0 .. c - 1)
      BY <1>4, <1>5 DEF Injection, IsInjective
  <2> HIDE DEF pos, c
  <2>2. IsFiniteSet(0 .. c - 1) /\ Cardinality(0 .. c - 1) = c
      BY <1>1, FS_Interval
  <2>3. pos \in Surjection(S, 0 .. c - 1)
      BY <2>1, <2>2, FS_Injection DEF c
  <2> QED
      BY <2>3 DEF Surjection
<1>7. ASSUME NEW n \in 1 .. c PROVE e[n] \in S /\ pos[e[n]] = n - 1
  <2>1. e[n] = CHOOSE i \in S : Cardinality(Under(i)) = n - 1
      BY DEF InOrder
  <2>2. n - 1 \in 0 .. c - 1
      BY <1>1
  <2>3. \E i \in S : Cardinality(Under(i)) = n - 1
      BY <1>6, <2>2
  <2> QED
      BY <2>1, <2>3
<1>8. e \in [1 .. c -> S]
    BY <1>7 DEF InOrder
<1>9. ASSUME NEW i \in S PROVE \E n \in 1 .. c : e[n] = i
  <2>1. pos[i] \in 0 .. c - 1
      BY <1>4
  <2> HIDE DEF pos, c, e
  <2>2. pos[i] + 1 \in 1 .. c /\ (pos[i] + 1) - 1 = pos[i]
      BY <1>1, <2>1
  <2>3. e[pos[i] + 1] \in S /\ pos[e[pos[i] + 1]] = pos[i]
      BY <1>7, <2>2
  <2> QED
      BY <1>5, <2>2, <2>3
<1>10. ASSUME NEW m \in 1 .. c, NEW n \in 1 .. c PROVE <<e[m], e[n]>> \in R <=> m < n
  <2>1. e[m] \in S /\ pos[e[m]] = m - 1 /\ e[n] \in S /\ pos[e[n]] = n - 1
      BY <1>7
  <2>2. <<e[m], e[n]>> \in R => pos[e[m]] < pos[e[n]]
      BY <1>3, <2>1
  <2>3. <<e[n], e[m]>> \in R => pos[e[n]] < pos[e[m]]
      BY <1>3, <2>1
  <2>4. e[m] = e[n] \/ <<e[m], e[n]>> \in R \/ <<e[n], e[m]>> \in R
      BY <2>1 DEF Orders
  <2>5. e[m] = e[n] => <<e[m], e[n]>> \notin R /\ m - 1 = n - 1
      BY <2>1 DEF Orders
  <2>6. m \in Int /\ n \in Int
      BY <1>1
  <2> HIDE DEF pos, c, e
  <2> QED
      BY <2>1, <2>2, <2>3, <2>4, <2>5, <2>6
<1> QED
    BY <1>1, <1>8, <1>9, <1>10

\* A function over 1 .. n is a list.
LEMMA IsList ==
    ASSUME NEW S, NEW n \in Nat, NEW f \in [1 .. n -> S]
    PROVE  f \in Seq(S) /\ Len(f) = n /\ DOMAIN f = 1 .. n
    OBVIOUS

\* What is kept of a list is a list of the elements at the places, in their order.
LEMMA PartOfAList ==
    ASSUME NEW S, NEW list \in Seq(S), NEW I \in SUBSET DOMAIN list
    PROVE  /\ AtPlaces(list, I) \in Seq(S)
           /\ ToSet(AtPlaces(list, I)) = {list[i] : i \in I}
           /\ \E e \in [DOMAIN AtPlaces(list, I) -> I] :
                 /\ \A m \in DOMAIN AtPlaces(list, I) : AtPlaces(list, I)[m] = list[e[m]]
                 /\ \A i \in I : \E m \in DOMAIN AtPlaces(list, I) : e[m] = i
                 /\ \A m, o \in DOMAIN AtPlaces(list, I) : e[m] < e[o] <=> m < o
<1> DEFINE R == {p \in I \X I : p[1] < p[2]}
           c == Cardinality(I)
           e == InOrder(I, R)
           part == AtPlaces(list, I)
<1>1. Len(list) \in Nat /\ DOMAIN list = 1 .. Len(list) /\ I \in SUBSET Int
    OBVIOUS
<1>2. \A i, j \in I : <<i, j>> \in R <=> i < j
    OBVIOUS
<1>3. Orders(R, I)
    BY <1>1, <1>2 DEF Orders
<1>4. IsFiniteSet(1 .. Len(list))
    BY <1>1, FS_Interval
<1>5. IsFiniteSet(I)
    BY <1>1, <1>4, FS_Subset
<1> HIDE DEF R
<1>6. /\ c \in Nat
      /\ e \in [1 .. c -> I]
      /\ \A i \in I : \E m \in 1 .. c : e[m] = i
      /\ \A m, o \in 1 .. c : <<e[m], e[o]>> \in R <=> m < o
    BY <1>3, <1>5, InOrderProperties
<1>7. part = [m \in 1 .. c |-> list[e[m]]]
    BY <1>6 DEF AtPlaces, R
<1> HIDE DEF c, e, part
<1>8. \A m, o \in 1 .. c : e[m] < e[o] <=> m < o
    BY <1>2, <1>6
<1>9. \A m \in 1 .. c : list[e[m]] \in S
    BY <1>1, <1>6
<1>10. part \in [1 .. c -> S]
    BY <1>7, <1>9
<1>11. part \in Seq(S) /\ DOMAIN part = 1 .. c
    BY <1>6, <1>10, IsList
<1>12. ToSet(part) = {list[i] : i \in I}
  <2>1. ToSet(part) = {part[m] : m \in 1 .. c}
      BY <1>11 DEF ToSet
  <2> QED
      BY <1>6, <1>7, <2>1
<1>13. \E d \in [DOMAIN part -> I] :
          /\ \A m \in DOMAIN part : part[m] = list[d[m]]
          /\ \A i \in I : \E m \in DOMAIN part : d[m] = i
          /\ \A m, o \in DOMAIN part : d[m] < d[o] <=> m < o
  <2>1. e \in [DOMAIN part -> I]
      BY <1>6, <1>11
  <2>2. \A m \in DOMAIN part : part[m] = list[e[m]]
      BY <1>7, <1>11
  <2> QED
      BY <1>6, <1>8, <1>11, <2>1, <2>2
<1> QED
    BY <1>11, <1>12, <1>13 DEF part

\* A part that is not empty has a first and a last place.
LEMMA FirstAndLast ==
    ASSUME NEW S, NEW list \in Seq(S), NEW I \in SUBSET DOMAIN list, I # {}
    PROVE  /\ \E i \in I : \A j \in I : i <= j
           /\ \E i \in I : \A j \in I : j <= i
<1> DEFINE part == AtPlaces(list, I)
<1>1. part \in Seq(S)
    BY PartOfAList
<1>2. PICK e \in [DOMAIN part -> I] :
         /\ \A i \in I : \E m \in DOMAIN part : e[m] = i
         /\ \A m, o \in DOMAIN part : e[m] < e[o] <=> m < o
    BY PartOfAList
<1> HIDE DEF part
<1>3. I \in SUBSET Int
    OBVIOUS
<1>4. Len(part) \in Nat /\ DOMAIN part = 1 .. Len(part)
    BY <1>1
<1>5. 1 \in DOMAIN part /\ Len(part) \in DOMAIN part
    BY <1>2, <1>4
<1>6. \A m \in DOMAIN part : ~ e[m] < e[1] /\ ~ e[Len(part)] < e[m]
    BY <1>2, <1>4, <1>5
<1>7. \A m \in DOMAIN part : e[m] \in Int /\ e[m] \in I
    BY <1>2, <1>3
<1>8. \A j \in I : e[1] <= j /\ j <= e[Len(part)]
    BY <1>2, <1>3, <1>5, <1>6, <1>7
<1> QED
    BY <1>5, <1>7, <1>8

\* Distinct keeps the first of equal elements: each once, in their order.
LEMMA DistinctProperties ==
    ASSUME NEW S, NEW q \in Seq(S)
    PROVE  /\ Distinct(q) \in Seq(S)
           /\ ToSet(Distinct(q)) = ToSet(q)
           /\ \E e \in [DOMAIN Distinct(q) -> DOMAIN q] :
                 /\ \A m \in DOMAIN Distinct(q) :
                       /\ Distinct(q)[m] = q[e[m]]
                       /\ \A j \in DOMAIN q : q[j] = q[e[m]] => e[m] <= j
                 /\ \A m, o \in DOMAIN Distinct(q) : e[m] < e[o] <=> m < o
<1> DEFINE I == {i \in DOMAIN q : \A j \in 1 .. i - 1 : q[j] # q[i]}
           part == Distinct(q)
<1>1. I \in SUBSET DOMAIN q /\ part = AtPlaces(q, I)
    BY DEF Distinct
<1>2. Len(q) \in Nat /\ DOMAIN q = 1 .. Len(q)
    OBVIOUS
<1>3. \A i \in I : \A j \in DOMAIN q : q[j] = q[i] => i <= j
    BY <1>2
<1>4. ASSUME NEW i \in DOMAIN q PROVE \E j \in I : q[j] = q[i]
  <2> DEFINE J == {j \in DOMAIN q : q[j] = q[i]}
  <2>1. J \in SUBSET DOMAIN q /\ J # {}
      OBVIOUS
  <2>2. PICK f \in J : \A j \in J : f <= j
      BY <2>1, FirstAndLast
  <2>3. f \in 1 .. Len(q)
      BY <1>2
  <2>4. \A j \in 1 .. f - 1 : j \in DOMAIN q /\ q[j] # q[f]
    <3> TAKE j \in 1 .. f - 1
    <3>1. j \in 1 .. Len(q) /\ ~ f <= j
        BY <1>2, <2>3
    <3> QED
        BY <1>2, <2>2, <3>1
  <2>5. f \in I
      BY <2>4
  <2> QED
      BY <2>5
<1> HIDE DEF I, part
<1>5. part \in Seq(S) /\ ToSet(part) = {q[i] : i \in I}
    BY <1>1, PartOfAList
<1>6. PICK e \in [DOMAIN AtPlaces(q, I) -> I] :
         /\ \A m \in DOMAIN AtPlaces(q, I) : AtPlaces(q, I)[m] = q[e[m]]
         /\ \A i \in I : \E m \in DOMAIN AtPlaces(q, I) : e[m] = i
         /\ \A m, o \in DOMAIN AtPlaces(q, I) : e[m] < e[o] <=> m < o
    BY <1>1, PartOfAList
<1>7. ToSet(part) = ToSet(q)
    BY <1>1, <1>4, <1>5 DEF ToSet
<1>8. e \in [DOMAIN part -> DOMAIN q]
    BY <1>1, <1>6
<1>9. \A m \in DOMAIN part : part[m] = q[e[m]] /\ \A j \in DOMAIN q : q[j] = q[e[m]] => e[m] <= j
    BY <1>1, <1>3, <1>6
<1>10. \A m, o \in DOMAIN part : e[m] < e[o] <=> m < o
    BY <1>1, <1>6
<1> QED
    BY <1>5, <1>7, <1>8, <1>9, <1>10 DEF part

\* Tuples of two and of four numbers are compared from the left.
LEMMA LowerOfTwo ==
    ASSUME NEW a \in Int \X Int, NEW b \in Int \X Int
    PROVE  Lower(a, b) <=> a[1] < b[1] \/ (a[1] = b[1] /\ a[2] < b[2])
<1>1. DOMAIN a = {1, 2} /\ a[1] \in Int /\ a[2] \in Int
    OBVIOUS
<1>2. (1 .. 1 - 1) = {} /\ (1 .. 2 - 1) = {1}
    OBVIOUS
<1> QED
    BY <1>1, <1>2 DEF Lower

LEMMA LowerOfFour ==
    ASSUME NEW a \in Int \X Int \X Int \X Int, NEW b \in Int \X Int \X Int \X Int
    PROVE  Lower(a, b) <=>
              \/ a[1] < b[1]
              \/ a[1] = b[1] /\ a[2] < b[2]
              \/ a[1] = b[1] /\ a[2] = b[2] /\ a[3] < b[3]
              \/ a[1] = b[1] /\ a[2] = b[2] /\ a[3] = b[3] /\ a[4] < b[4]
<1>1. DOMAIN a = {1, 2, 3, 4}
    OBVIOUS
<1>2. (1 .. 1 - 1) = {} /\ (1 .. 2 - 1) = {1} /\ (1 .. 3 - 1) = {1, 2} /\ (1 .. 4 - 1) = {1, 2, 3}
    OBVIOUS
<1> QED
    BY <1>1, <1>2 DEF Lower

-----------------------------------------------------------------------------
(* Keys and sources. *)

Ids == {s.id : s \in Sources}
Keys == Ids \X SourceTypes
Entries == [id : Ids, type : SourceTypes, owner : Callers, shared : BOOLEAN, order : Int]

LEMMA EntryKeys ==
    ASSUME NEW s \in Entries
    PROVE  /\ Key(s) \in Keys
           /\ Matches(s, Key(s))
           /\ \A k \in Keys : Matches(s, k) => k = Key(s)
<1>1. s.id \in Ids /\ s.type \in SourceTypes
    BY DEF Entries
<1>2. \A t \in SourceTypes : t # AnyType
    BY SelectionAssumption
<1>3. \A k \in Keys : k = <<k[1], k[2]>> /\ k[2] # AnyType
    BY <1>2 DEF Keys
<1> QED
    BY <1>1, <1>3 DEF Key, Keys, Matches

LEMMA KeysOfAList ==
    ASSUME NEW list \in Seq(Entries)
    PROVE  /\ KeysOf(list) \in Seq(Keys)
           /\ ToSet(KeysOf(list)) = {Key(s) : s \in ToSet(list)}
<1>1. Len(list) \in Nat /\ DOMAIN list = 1 .. Len(list) /\ \A i \in DOMAIN list : list[i] \in Entries
    OBVIOUS
<1>2. KeysOf(list) \in [1 .. Len(list) -> Keys]
    BY <1>1, EntryKeys DEF KeysOf
<1>3. KeysOf(list) \in Seq(Keys)
    BY <1>1, <1>2, IsList
<1>4. ToSet(KeysOf(list)) = {Key(s) : s \in ToSet(list)}
    BY DEF KeysOf, ToSet
<1> QED
    BY <1>3, <1>4

\* For each raw key that stands for the key l, one before it stands for k.
NamedBefore(raw, list, k, l) ==
    \A j \in DOMAIN raw, h \in DOMAIN list :
        Matches(list[h], raw[j]) /\ Key(list[h]) = l
           => \E i \in DOMAIN raw, g \in DOMAIN list :
                 i < j /\ Matches(list[g], raw[i]) /\ Key(list[g]) = k

\* expand_sync_keys: each key of a source that a raw key stands for, once, in the order
\* in which the raw keys name them.
LEMMA ExpandProperties ==
    ASSUME NEW A, NEW raw \in Seq(A), NEW list \in Seq(Entries)
    PROVE  /\ ExpandSyncKeys(raw, list) \in Seq(Keys)
           /\ ToSet(ExpandSyncKeys(raw, list)) =
                 {Key(s) : s \in {t \in ToSet(list) : \E k \in ToSet(raw) : Matches(t, k)}}
           /\ \A m, n \in DOMAIN ExpandSyncKeys(raw, list) :
                 ExpandSyncKeys(raw, list)[m] = ExpandSyncKeys(raw, list)[n] => m = n
           /\ \A m, n \in DOMAIN ExpandSyncKeys(raw, list) :
                 NamedBefore(raw, list, ExpandSyncKeys(raw, list)[m], ExpandSyncKeys(raw, list)[n])
                    => m < n
<1> DEFINE hits == {h \in (DOMAIN raw) \X (DOMAIN list) : Matches(list[h[2]], raw[h[1]])}
           R == {p \in hits \X hits : Lower(p[1], p[2])}
           e == InOrder(hits, R)
           c == Cardinality(hits)
           q == [n \in DOMAIN e |-> Key(list[e[n][2]])]
           x == ExpandSyncKeys(raw, list)
<1>1. /\ Len(raw) \in Nat /\ DOMAIN raw = 1 .. Len(raw)
      /\ Len(list) \in Nat /\ DOMAIN list = 1 .. Len(list)
      /\ \A i \in DOMAIN list : list[i] \in Entries
    OBVIOUS
<1>2. hits \in SUBSET (Int \X Int)
    BY <1>1
<1>3. IsFiniteSet(hits)
  <2>1. IsFiniteSet(1 .. Len(raw)) /\ IsFiniteSet(1 .. Len(list))
      BY <1>1, FS_Interval
  <2>2. IsFiniteSet((DOMAIN raw) \X (DOMAIN list))
      BY <1>1, <2>1, FS_Product
  <2>3. hits \in SUBSET ((DOMAIN raw) \X (DOMAIN list))
      OBVIOUS
  <2> QED
      BY <2>2, <2>3, FS_Subset
<1>4. \A a, b \in hits :
         <<a, b>> \in R <=> a[1] < b[1] \/ (a[1] = b[1] /\ a[2] < b[2])
  <2>1. \A a, b \in hits : <<a, b>> \in R <=> Lower(a, b)
      OBVIOUS
  <2> HIDE DEF hits, R
  <2> QED
      BY <1>2, <2>1, LowerOfTwo
<1>5. \A a \in hits : a[1] \in Int /\ a[2] \in Int /\ a = <<a[1], a[2]>>
    BY <1>2
<1>6. x = Distinct(q)
    BY DEF ExpandSyncKeys
<1>7. \A h \in hits : /\ h[1] \in DOMAIN raw /\ h[2] \in DOMAIN list
                      /\ Matches(list[h[2]], raw[h[1]])
    OBVIOUS
<1>8. \A i \in DOMAIN raw, g \in DOMAIN list : Matches(list[g], raw[i]) => <<i, g>> \in hits
    OBVIOUS
<1> HIDE DEF hits, R
<1>9. Orders(R, hits)
  <2>1. \A a \in hits : <<a, a>> \notin R
      BY <1>4, <1>5
  <2>2. \A a, b, f \in hits : <<a, b>> \in R /\ <<b, f>> \in R => <<a, f>> \in R
      BY <1>4, <1>5
  <2>3. ASSUME NEW a \in hits, NEW b \in hits
        PROVE  a = b \/ <<a, b>> \in R \/ <<b, a>> \in R
    <3>1. \/ a[1] < b[1] \/ (a[1] = b[1] /\ a[2] < b[2])
          \/ b[1] < a[1] \/ (b[1] = a[1] /\ b[2] < a[2])
          \/ a[1] = b[1] /\ a[2] = b[2]
        BY <1>5
    <3>2. a[1] = b[1] /\ a[2] = b[2] => a = b
        BY <1>5
    <3> QED
        BY <1>4, <3>1, <3>2
  <2> QED
      BY <2>1, <2>2, <2>3 DEF Orders
<1>10. /\ c \in Nat
       /\ e \in [1 .. c -> hits]
       /\ \A h \in hits : \E n \in 1 .. c : e[n] = h
       /\ \A m, n \in 1 .. c : <<e[m], e[n]>> \in R <=> m < n
    BY <1>3, <1>9, InOrderProperties
<1> HIDE DEF e, c
<1>11. q \in Seq(Keys) /\ DOMAIN q = 1 .. c
  <2>1. \A n \in 1 .. c : Key(list[e[n][2]]) \in Keys
      BY <1>1, <1>7, <1>10, EntryKeys
  <2>2. q \in [1 .. c -> Keys]
      BY <1>10, <2>1
  <2> QED
      BY <1>10, <2>2, IsList
<1>12. \A n \in DOMAIN q : q[n] = Key(list[e[n][2]]) /\ e[n] \in hits
    BY <1>10, <1>11
<1> HIDE DEF q, x
<1>13. x \in Seq(Keys) /\ ToSet(x) = ToSet(q)
    BY <1>6, <1>11, DistinctProperties
<1>14. PICK d \in [DOMAIN Distinct(q) -> DOMAIN q] :
          /\ \A m \in DOMAIN Distinct(q) :
                /\ Distinct(q)[m] = q[d[m]]
                /\ \A j \in DOMAIN q : q[j] = q[d[m]] => d[m] <= j
          /\ \A m, o \in DOMAIN Distinct(q) : d[m] < d[o] <=> m < o
    BY <1>11, DistinctProperties
<1>15. \A m \in DOMAIN x : d[m] \in 1 .. c /\ x[m] = q[d[m]] /\ m \in Int
    BY <1>6, <1>11, <1>13, <1>14
<1>16. ToSet(x) = {Key(s) : s \in {t \in ToSet(list) : \E k \in ToSet(raw) : Matches(t, k)}}
  <2>1. ASSUME NEW n \in DOMAIN q
        PROVE  q[n] \in {Key(s) : s \in {t \in ToSet(list) : \E k \in ToSet(raw) : Matches(t, k)}}
    <3>1. list[e[n][2]] \in ToSet(list) /\ raw[e[n][1]] \in ToSet(raw)
        BY <1>7, <1>12 DEF ToSet
    <3> QED
        BY <1>7, <1>12, <3>1
  <2>2. ASSUME NEW s \in ToSet(list), NEW k \in ToSet(raw), Matches(s, k)
        PROVE  Key(s) \in ToSet(q)
    <3>1. PICK g \in DOMAIN list : s = list[g]
        BY DEF ToSet
    <3>2. PICK i \in DOMAIN raw : k = raw[i]
        BY DEF ToSet
    <3>3. <<i, g>> \in hits
        BY <1>8, <2>2, <3>1, <3>2
    <3>4. PICK n \in 1 .. c : e[n] = <<i, g>>
        BY <1>10, <3>3
    <3>5. q[n] = Key(s)
      <4>1. e[n][2] = g
          BY <3>4
      <4> QED
          BY <1>11, <1>12, <3>1, <4>1
    <3> QED
        BY <1>11, <3>5 DEF ToSet
  <2> QED
      BY <1>13, <2>1, <2>2 DEF ToSet
<1>17. ASSUME NEW m \in DOMAIN x, NEW n \in DOMAIN x, x[m] = x[n] PROVE m = n
  <2>1. d[m] <= d[n] /\ d[n] <= d[m]
      BY <1>6, <1>11, <1>14, <1>15, <1>17
  <2>2. ~ m < n /\ ~ n < m
      BY <1>6, <1>14, <1>15, <2>1
  <2> QED
      BY <1>15, <2>2
<1>18. ASSUME NEW m \in DOMAIN x, NEW n \in DOMAIN x, NamedBefore(raw, list, x[m], x[n])
       PROVE  m < n
  <2> DEFINE h == e[d[n]]
  <2>1. h \in hits /\ Key(list[h[2]]) = x[n]
      BY <1>11, <1>12, <1>15
  <2>2. PICK i \in DOMAIN raw, g \in DOMAIN list :
            i < h[1] /\ Matches(list[g], raw[i]) /\ Key(list[g]) = x[m]
      BY <1>7, <1>18, <2>1 DEF NamedBefore
  <2>3. <<i, g>> \in hits
      BY <1>8, <2>2
  <2>4. PICK p \in 1 .. c : e[p] = <<i, g>>
      BY <1>10, <2>3
  <2>5. <<e[p], h>> \in R
      BY <1>4, <2>1, <2>2, <2>3, <2>4
  <2>6. p < d[n]
      BY <1>10, <1>15, <2>5
  <2>7. q[p] = x[m]
      BY <1>11, <1>12, <2>2, <2>4
  <2>8. d[m] <= p
      BY <1>6, <1>11, <1>14, <1>15, <2>7
  <2>9. d[m] < d[n]
      BY <1>15, <2>6, <2>8
  <2> QED
      BY <1>6, <1>14, <2>9
<1> QED
    BY <1>13, <1>16, <1>17, <1>18 DEF x

LEMMA LowerIsAnOrder ==
    ASSUME NEW a \in Int \X Int \X Int \X Int, NEW b \in Int \X Int \X Int \X Int,
           NEW c \in Int \X Int \X Int \X Int
    PROVE  /\ ~ Lower(a, a)
           /\ Lower(a, b) /\ Lower(b, c) => Lower(a, c)
           /\ a = b \/ Lower(a, b) \/ Lower(b, a)
<1>1. PICK a1 \in Int, a2 \in Int, a3 \in Int, a4 \in Int : a = <<a1, a2, a3, a4>>
    OBVIOUS
<1>2. PICK b1 \in Int, b2 \in Int, b3 \in Int, b4 \in Int : b = <<b1, b2, b3, b4>>
    OBVIOUS
<1>3. PICK c1 \in Int, c2 \in Int, c3 \in Int, c4 \in Int : c = <<c1, c2, c3, c4>>
    OBVIOUS
<1> DEFINE Less(x1, x2, x3, x4, y1, y2, y3, y4) ==
               \/ x1 < y1
               \/ x1 = y1 /\ x2 < y2
               \/ x1 = y1 /\ x2 = y2 /\ x3 < y3
               \/ x1 = y1 /\ x2 = y2 /\ x3 = y3 /\ x4 < y4
<1>4. Lower(a, a) <=> Less(a1, a2, a3, a4, a1, a2, a3, a4)
    BY <1>1, LowerOfFour
<1>5. Lower(a, b) <=> Less(a1, a2, a3, a4, b1, b2, b3, b4)
    BY <1>1, <1>2, LowerOfFour
<1>6. Lower(b, a) <=> Less(b1, b2, b3, b4, a1, a2, a3, a4)
    BY <1>1, <1>2, LowerOfFour
<1>7. Lower(b, c) <=> Less(b1, b2, b3, b4, c1, c2, c3, c4)
    BY <1>2, <1>3, LowerOfFour
<1>8. Lower(a, c) <=> Less(a1, a2, a3, a4, c1, c2, c3, c4)
    BY <1>1, <1>3, LowerOfFour
<1>9. ~ Less(a1, a2, a3, a4, a1, a2, a3, a4)
    OBVIOUS
<1>10. Less(a1, a2, a3, a4, b1, b2, b3, b4) /\ Less(b1, b2, b3, b4, c1, c2, c3, c4)
          => Less(a1, a2, a3, a4, c1, c2, c3, c4)
    OBVIOUS
<1>11. \/ a1 = b1 /\ a2 = b2 /\ a3 = b3 /\ a4 = b4
       \/ Less(a1, a2, a3, a4, b1, b2, b3, b4)
       \/ Less(b1, b2, b3, b4, a1, a2, a3, a4)
    OBVIOUS
<1> HIDE DEF Less
<1> QED
    BY <1>1, <1>2, <1>4, <1>5, <1>6, <1>7, <1>8, <1>9, <1>10, <1>11

\* The sort key of a source: its place in the manual order, or else the order of its
\* entry; the place in the list makes it the only one.
LEMMA RankProperties ==
    ASSUME NEW list \in Seq(Entries), NEW manual \in Seq(Keys), NEW i \in DOMAIN list
    PROVE  /\ Rank(list, manual, i) \in Int \X Int \X Int \X Int
           /\ Rank(list, manual, i)[4] = i
           /\ IF Key(list[i]) \in ToSet(manual)
              THEN /\ Rank(list, manual, i)[1] = 0
                   /\ Rank(list, manual, i)[2] \in DOMAIN manual
                   /\ manual[Rank(list, manual, i)[2]] = Key(list[i])
              ELSE /\ Rank(list, manual, i)[1] = 1
                   /\ Rank(list, manual, i)[2] = list[i].order
<1> DEFINE same == {j \in DOMAIN list : Key(list[j]) = Key(list[i])}
           last == CHOOSE j \in same : \A o \in same : o <= j
           at == {m \in DOMAIN manual : manual[m] = Key(list[i])}
           place == CHOOSE m \in at : TRUE
           r == Rank(list, manual, i)
<1>1. i \in Int /\ list[i].order \in Int
  <2>1. i \in Int /\ list[i] \in Entries
      OBVIOUS
  <2> QED
      BY <2>1 DEF Entries
<1>2. last \in Int
  <2>1. same \in SUBSET DOMAIN list /\ same # {}
      OBVIOUS
  <2>2. \E j \in same : \A o \in same : o <= j
      BY <2>1, FirstAndLast
  <2>3. last \in same
      BY <2>2
  <2> QED
      BY <2>1, <2>3
<1>3. at # {} <=> Key(list[i]) \in ToSet(manual)
    BY DEF ToSet
<1>4. at # {} => place \in DOMAIN manual /\ place \in Int /\ manual[place] = Key(list[i])
    OBVIOUS
<1>5. r = IF at # {} THEN <<0, place, last, i>> ELSE <<1, list[i].order, last, i>>
    BY DEF Rank
<1> HIDE DEF same, last, at, place, r
<1> QED
    BY <1>1, <1>2, <1>3, <1>4, <1>5 DEF r

\* apply_source_order: the same sources, once each, by their sort keys.
LEMMA SourceOrderProperties ==
    ASSUME NEW A, NEW st, st.order \in Seq(A), NEW list \in Seq(Entries)
    PROVE  /\ ApplySourceOrder(list, st) \in Seq(Entries)
           /\ ToSet(ApplySourceOrder(list, st)) = ToSet(list)
           /\ DOMAIN ApplySourceOrder(list, st) = DOMAIN list
           /\ \E e \in [DOMAIN list -> DOMAIN list] :
                 /\ \A n \in DOMAIN list : ApplySourceOrder(list, st)[n] = list[e[n]]
                 /\ \A i \in DOMAIN list : \E n \in DOMAIN list : e[n] = i
                 /\ \A m, n \in DOMAIN list :
                       Lower(Rank(list, ExpandSyncKeys(st.order, list), e[m]),
                             Rank(list, ExpandSyncKeys(st.order, list), e[n])) <=> m < n
<1> DEFINE manual == ExpandSyncKeys(st.order, list)
           rank == [i \in DOMAIN list |-> Rank(list, manual, i)]
           R == {p \in (DOMAIN list) \X (DOMAIN list) : Lower(rank[p[1]], rank[p[2]])}
           e == InOrder(DOMAIN list, R)
           x == ApplySourceOrder(list, st)
<1>1. Len(list) \in Nat /\ DOMAIN list = 1 .. Len(list)
    OBVIOUS
<1>2. manual \in Seq(Keys)
    BY ExpandProperties
<1>3. x = [n \in DOMAIN e |-> list[e[n]]]
    BY DEF ApplySourceOrder
<1> HIDE DEF manual, x
<1>4. \A i \in DOMAIN list : /\ rank[i] \in Int \X Int \X Int \X Int
                             /\ rank[i][4] = i
    BY <1>2, RankProperties
<1>5. \A i, j \in DOMAIN list : <<i, j>> \in R <=> Lower(rank[i], rank[j])
    OBVIOUS
<1> HIDE DEF R, rank
<1>6. Orders(R, DOMAIN list)
  <2>1. \A i \in DOMAIN list : <<i, i>> \notin R
      BY <1>4, <1>5, LowerIsAnOrder
  <2>2. ASSUME NEW i \in DOMAIN list, NEW j \in DOMAIN list, NEW k \in DOMAIN list,
               <<i, j>> \in R, <<j, k>> \in R
        PROVE  <<i, k>> \in R
      BY <1>4, <1>5, <2>2, LowerIsAnOrder
  <2>3. ASSUME NEW i \in DOMAIN list, NEW j \in DOMAIN list
        PROVE  i = j \/ <<i, j>> \in R \/ <<j, i>> \in R
    <3>1. rank[i] = rank[j] \/ Lower(rank[i], rank[j]) \/ Lower(rank[j], rank[i])
        BY <1>4, LowerIsAnOrder
    <3>2. rank[i] = rank[j] => i = j
        BY <1>4
    <3> QED
        BY <1>5, <3>1, <3>2
  <2> QED
      BY <2>1, <2>2, <2>3 DEF Orders
<1>7. IsFiniteSet(DOMAIN list) /\ Cardinality(DOMAIN list) = Len(list)
  <2>1. \A n \in Nat : IsFiniteSet(1 .. n) /\ Cardinality(1 .. n) = n
      BY FS_Interval
  <2> QED
      BY <1>1, <2>1
<1>8. /\ e \in [1 .. Cardinality(DOMAIN list) -> DOMAIN list]
      /\ \A i \in DOMAIN list : \E n \in 1 .. Cardinality(DOMAIN list) : e[n] = i
      /\ \A m, n \in 1 .. Cardinality(DOMAIN list) : <<e[m], e[n]>> \in R <=> m < n
  <2> DEFINE D == DOMAIN list
  <2>1. Orders(R, D) /\ IsFiniteSet(D)
      BY <1>6, <1>7
  <2> HIDE DEF D
  <2>2. /\ InOrder(D, R) \in [1 .. Cardinality(D) -> D]
        /\ \A i \in D : \E n \in 1 .. Cardinality(D) : InOrder(D, R)[n] = i
        /\ \A m, n \in 1 .. Cardinality(D) :
              <<InOrder(D, R)[m], InOrder(D, R)[n]>> \in R <=> m < n
      BY <2>1, InOrderProperties
  <2> QED
      BY <2>2 DEF D
<1> HIDE DEF e
<1>9. /\ e \in [DOMAIN list -> DOMAIN list]
      /\ \A i \in DOMAIN list : \E n \in DOMAIN list : e[n] = i
      /\ \A m, n \in DOMAIN list : <<e[m], e[n]>> \in R <=> m < n
    BY <1>1, <1>7, <1>8
<1>10. DOMAIN x = DOMAIN list /\ \A n \in DOMAIN list : x[n] = list[e[n]]
    BY <1>3, <1>9
<1>11. x \in Seq(Entries)
  <2>1. x \in [1 .. Len(list) -> Entries]
      BY <1>1, <1>3, <1>9
  <2> QED
      BY <1>1, <2>1, IsList
<1>12. ToSet(x) = ToSet(list)
  <2>1. \A n \in DOMAIN x : x[n] \in ToSet(list)
      BY <1>9, <1>10 DEF ToSet
  <2>2. \A i \in DOMAIN list : list[i] \in ToSet(x)
    <3> TAKE i \in DOMAIN list
    <3>1. PICK n \in DOMAIN list : e[n] = i
        BY <1>9
    <3> QED
        BY <1>10, <3>1 DEF ToSet
  <2> QED
      BY <2>1, <2>2 DEF ToSet
<1>13. \A m, n \in DOMAIN list :
          Lower(Rank(list, manual, e[m]), Rank(list, manual, e[n])) <=> m < n
    BY <1>5, <1>9 DEF rank
<1>14. \E d \in [DOMAIN list -> DOMAIN list] :
          /\ \A n \in DOMAIN list : x[n] = list[d[n]]
          /\ \A i \in DOMAIN list : \E n \in DOMAIN list : d[n] = i
          /\ \A m, n \in DOMAIN list :
                Lower(Rank(list, manual, d[m]), Rank(list, manual, d[n])) <=> m < n
    BY <1>9, <1>10, <1>13
<1> QED
    BY <1>10, <1>11, <1>12, <1>14 DEF x, manual

\* apply_source_order loses no source and doubles none, however many of them share a key
\* and whatever the manual order says: it is a permutation of the list.
THEOREM OrderingIsAPermutation ==
    ASSUME NEW A, NEW st, st.order \in Seq(A), NEW list \in Seq(Entries)
    PROVE  \E e \in Bijection(DOMAIN list, DOMAIN list) :
              ApplySourceOrder(list, st) = [n \in DOMAIN list |-> list[e[n]]]
<1> DEFINE manual == ExpandSyncKeys(st.order, list)
           x == ApplySourceOrder(list, st)
<1>1. PICK e \in [DOMAIN list -> DOMAIN list] :
         /\ \A n \in DOMAIN list : x[n] = list[e[n]]
         /\ \A i \in DOMAIN list : \E n \in DOMAIN list : e[n] = i
         /\ \A m, n \in DOMAIN list :
               Lower(Rank(list, manual, e[m]), Rank(list, manual, e[n])) <=> m < n
    BY SourceOrderProperties
<1>2. DOMAIN x = DOMAIN list /\ x \in Seq(Entries) /\ manual \in Seq(Keys)
  <2>1. DOMAIN x = DOMAIN list
      BY SourceOrderProperties
  <2>2. x \in Seq(Entries)
      BY SourceOrderProperties
  <2>3. manual \in Seq(Keys)
      BY ExpandProperties
  <2> QED
      BY <2>1, <2>2, <2>3
<1> HIDE DEF x, manual
<1>3. ASSUME NEW m \in DOMAIN list, NEW n \in DOMAIN list, e[m] = e[n] PROVE m = n
  <2>1. Rank(list, manual, e[m]) \in Int \X Int \X Int \X Int
      BY <1>2, RankProperties
  <2>2. ~ Lower(Rank(list, manual, e[m]), Rank(list, manual, e[n]))
      BY <1>3, <2>1, LowerIsAnOrder
  <2>3. ~ m < n /\ ~ n < m
      BY <1>1, <1>3, <2>2
  <2>4. m \in Int /\ n \in Int
      OBVIOUS
  <2> QED
      BY <2>3, <2>4
<1>4. e \in Bijection(DOMAIN list, DOMAIN list)
    BY <1>1, <1>3 DEF Bijection, Injection, Surjection, IsInjective
<1>5. x = [n \in DOMAIN list |-> list[e[n]]]
    BY <1>1, <1>2
<1> QED
    BY <1>4, <1>5 DEF x

-----------------------------------------------------------------------------
(* What the lists of sources and keys are. *)

Posted == {p.ids : p \in Payloads} \cup {p.order : p \in Payloads}
AnyKeys == UNION {ToSet(keys) : keys \in Posted \ {NoRow}}
Lists == Seq(AnyKeys)

\* The settings are lists where they are set, and set for the global scope; a job has
\* a caller and its fields.
Fields == {"preset", "ids", "order"}
RowsOK == \A c \in Scopes : DOMAIN rows[c] = Fields
ListsOK == \A c \in Scopes, k \in {"ids", "order"} :
              rows[c][k] \in Lists \/ (c # Global /\ rows[c][k] = NoRow)
JobFields == {"user", "mode", "keys", "step", "chosen", "work", "asAdmin", "only"}
JobOK == job # NoJob => /\ DOMAIN job = JobFields
                        /\ job.user \in Callers
                        /\ job.mode \in {"sync", "rebuild"}
                        /\ job.step \in {"accepted", "started", "loaded"}

TypeOK ==
    /\ sources \in Seq(Entries)
    /\ role \in [Users -> Roles]
    /\ gone \in SUBSET Users
    /\ RowsOK
    /\ ListsOK
    /\ JobOK

\* A job of a saved selection holds keys of it, and neither of the two values that stand
\* for all sources.
KeysAreKept ==
    job # NoJob /\ job.only # Everything =>
        /\ job.keys \in Seq(Keys)
        /\ job.keys # <<>>
        /\ ToSet(job.keys) \subseteq job.only

IInv == TypeOK /\ KeysAreKept /\ NobodysPrivateSource /\ SelectionIsKept

\* What read_settings returns are lists.
LEMMA SettingsAreLists ==
    ASSUME TypeOK, NEW u \in Callers
    PROVE  ReadSettings(u).ids \in Lists /\ ReadSettings(u).order \in Lists
<1>1. Global \in Scopes /\ (u \in Users => u \in Scopes)
    BY DEF Scopes
<1>2. ASSUME NEW k \in {"ids", "order"}
      PROVE  ReadSettings(u)[k] = IF u \in Users /\ rows[u][k] # NoRow
                                  THEN rows[u][k] ELSE rows[Global][k]
    BY DEF ReadSettings, Defaults
<1>3. ListsOK
    BY DEF TypeOK
<1>4. ASSUME NEW k \in {"ids", "order"} PROVE ReadSettings(u)[k] \in Lists
    BY <1>1, <1>2, <1>3 DEF ListsOK
<1> QED
    BY <1>4

\* load_sources for a caller: those of the files he may see.
LEMMA SeenSources ==
    ASSUME sources \in Seq(Entries), NEW u, NEW r
    PROVE  /\ SourcesForUser(u, r) \in Seq(Entries)
           /\ ToSet(SourcesForUser(u, r)) = {s \in ToSet(sources) : MaySee(u, r, s)}
<1> DEFINE I == {i \in DOMAIN sources : MaySee(u, r, sources[i])}
<1>1. SourcesForUser(u, r) = AtPlaces(sources, I)
    BY DEF SourcesForUser, Where
<1>2. I \in SUBSET DOMAIN sources
    OBVIOUS
<1>3. {sources[i] : i \in I} = {s \in ToSet(sources) : MaySee(u, r, s)}
    BY DEF ToSet
<1> HIDE DEF I
<1> QED
    BY <1>1, <1>2, <1>3, PartOfAList

\* The job's filter keeps sources of the list, and with keys to filter by only those
\* that one of them stands for.
LEMMA FilteredList ==
    ASSUME NEW list \in Seq(Entries), NEW keys
    PROVE  /\ Filtered(list, keys) \in Seq(Entries)
           /\ ToSet(Filtered(list, keys)) \subseteq ToSet(list)
           /\ keys \notin {Everything, <<>>} =>
                 \A s \in ToSet(Filtered(list, keys)) : \E k \in ToSet(keys) : Matches(s, k)
<1>1. CASE keys \in {Everything, <<>>}
    BY <1>1 DEF Filtered
<1>2. CASE keys \notin {Everything, <<>>}
  <2> DEFINE I == {i \in DOMAIN list : \E k \in ToSet(keys) : Matches(list[i], k)}
  <2>1. Filtered(list, keys) = AtPlaces(list, I)
      BY <1>2 DEF Filtered, FilterBySyncKeys, Where
  <2>2. I \in SUBSET DOMAIN list
      OBVIOUS
  <2>3. /\ {list[i] : i \in I} \subseteq ToSet(list)
        /\ \A s \in {list[i] : i \in I} : \E k \in ToSet(keys) : Matches(s, k)
      BY DEF ToSet
  <2> HIDE DEF I
  <2>4. Filtered(list, keys) \in Seq(Entries) /\ ToSet(Filtered(list, keys)) = {list[i] : i \in I}
      BY <2>1, <2>2, PartOfAList
  <2> QED
      BY <2>3, <2>4
<1> QED
    BY <1>1, <1>2

\* The job's sources: of those the caller may see, all that the filter keeps.
LEMMA ChosenSources ==
    ASSUME TypeOK, NEW u \in Callers, NEW r, NEW keys
    PROVE  LET st == ReadSettings(u)
               kept == Filtered(OrderedSources(u, r, st), keys)
               chosen == ApplySourceOrder(kept, st)
           IN  /\ kept \in Seq(Entries)
               /\ chosen \in Seq(Entries)
               /\ \A s \in ToSet(chosen) :
                     /\ s \in Entries
                     /\ MaySee(u, r, s)
                     /\ keys \notin {Everything, <<>>} => \E k \in ToSet(keys) : Matches(s, k)
<1> DEFINE st == ReadSettings(u)
           seen == SourcesForUser(u, r)
           all == ApplySourceOrder(seen, st)
           kept == Filtered(all, keys)
           chosen == ApplySourceOrder(kept, st)
<1>1. st.order \in Lists
    BY SettingsAreLists
<1>2. seen \in Seq(Entries) /\ \A s \in ToSet(seen) : MaySee(u, r, s)
    BY SeenSources DEF TypeOK
<1> HIDE DEF st, seen
<1>3. all \in Seq(Entries) /\ ToSet(all) = ToSet(seen)
    BY <1>1, <1>2, SourceOrderProperties DEF Lists
<1> HIDE DEF all
<1>4. /\ kept \in Seq(Entries) /\ ToSet(kept) \subseteq ToSet(all)
      /\ keys \notin {Everything, <<>>} => \A s \in ToSet(kept) : \E k \in ToSet(keys) : Matches(s, k)
    BY <1>3, FilteredList
<1> HIDE DEF kept
<1>5. chosen \in Seq(Entries) /\ ToSet(chosen) = ToSet(kept)
    BY <1>1, <1>4, SourceOrderProperties DEF Lists
<1> HIDE DEF chosen
<1>6. \A s \in ToSet(chosen) : s \in Entries
    BY <1>5 DEF ToSet
<1>7. /\ kept \in Seq(Entries) /\ chosen \in Seq(Entries)
      /\ \A s \in ToSet(chosen) :
            /\ s \in Entries
            /\ MaySee(u, r, s)
            /\ keys \notin {Everything, <<>>} => \E k \in ToSet(keys) : Matches(s, k)
    BY <1>2, <1>3, <1>4, <1>5, <1>6
<1> QED
    BY <1>7 DEF OrderedSources, st, seen, all, kept, chosen

\* The sources of one type, and what is left of them without the paired ones.
LEMMA SomeOfAType ==
    ASSUME NEW list \in Seq(Entries), NEW t
    PROVE  /\ OfType(list, t) \in Seq(Entries)
           /\ \E e \in [DOMAIN OfType(list, t) -> DOMAIN list] :
                 /\ \A m \in DOMAIN OfType(list, t) :
                       OfType(list, t)[m] = list[e[m]] /\ list[e[m]].type = t
                 /\ \A m, o \in DOMAIN OfType(list, t) : e[m] < e[o] <=> m < o
<1> DEFINE I == {i \in DOMAIN list : list[i].type = t}
           part == AtPlaces(list, I)
<1>1. OfType(list, t) = part
    BY DEF OfType, Where
<1>2. I \in SUBSET DOMAIN list /\ \A i \in I : list[i].type = t
    OBVIOUS
<1> HIDE DEF I
<1>3. part \in Seq(Entries)
    BY <1>2, PartOfAList
<1>4. PICK e \in [DOMAIN part -> I] :
         /\ \A m \in DOMAIN part : part[m] = list[e[m]]
         /\ \A m, o \in DOMAIN part : e[m] < e[o] <=> m < o
    BY <1>2, PartOfAList
<1> HIDE DEF part
<1>5. e \in [DOMAIN part -> DOMAIN list] /\ \A m \in DOMAIN part : list[e[m]].type = t
    BY <1>2, <1>4
<1> QED
    BY <1>1, <1>3, <1>4, <1>5

Unpaired(list, used) ==
    AtPlaces(OfType(list, "local"),
             {i \in DOMAIN OfType(list, "local") : OfType(list, "local")[i].id \notin used})

LEMMA UnpairedLocal ==
    ASSUME NEW list \in Seq(Entries), NEW used
    PROVE  /\ Unpaired(list, used) \in Seq(Entries)
           /\ \E e \in [DOMAIN Unpaired(list, used) -> DOMAIN list] :
                 /\ \A m \in DOMAIN Unpaired(list, used) :
                       Unpaired(list, used)[m] = list[e[m]] /\ list[e[m]].type = "local"
                 /\ \A m, o \in DOMAIN Unpaired(list, used) : e[m] < e[o] <=> m < o
<1> DEFINE all == OfType(list, "local")
           I == {i \in DOMAIN all : all[i].id \notin used}
           part == AtPlaces(all, I)
<1>1. Unpaired(list, used) = part
    BY DEF Unpaired
<1>2. PICK d \in [DOMAIN all -> DOMAIN list] :
         /\ \A m \in DOMAIN all : all[m] = list[d[m]] /\ list[d[m]].type = "local"
         /\ \A m, o \in DOMAIN all : d[m] < d[o] <=> m < o
    BY SomeOfAType
<1>3. all \in Seq(Entries)
    BY SomeOfAType
<1>4. I \in SUBSET DOMAIN all
    OBVIOUS
<1> HIDE DEF I, all
<1>5. part \in Seq(Entries)
    BY <1>3, <1>4, PartOfAList
<1>6. PICK e \in [DOMAIN part -> I] :
         /\ \A m \in DOMAIN part : part[m] = all[e[m]]
         /\ \A m, o \in DOMAIN part : e[m] < e[o] <=> m < o
    BY <1>3, <1>4, PartOfAList
<1> HIDE DEF part
<1> DEFINE f == [m \in DOMAIN part |-> d[e[m]]]
<1>7. f \in [DOMAIN part -> DOMAIN list]
    BY <1>2, <1>4, <1>6
<1>8. \A m \in DOMAIN part : part[m] = list[f[m]] /\ list[f[m]].type = "local"
    BY <1>2, <1>4, <1>6
<1>9. \A m, o \in DOMAIN part : f[m] < f[o] <=> m < o
    BY <1>2, <1>4, <1>6
<1> HIDE DEF f
<1> QED
    BY <1>1, <1>5, <1>7, <1>8, <1>9

\* build_sync_plan takes the types one after the other, and the sources of each in
\* the order of the list.
LEMMA PlanProperties ==
    ASSUME NEW list \in Seq(Entries)
    PROVE  \E p \in [DOMAIN Plan(list) -> DOMAIN list] :
              /\ \A m \in DOMAIN Plan(list) : Plan(list)[m] = list[p[m]]
              /\ \A m, n \in DOMAIN Plan(list) :
                    list[p[m]].type = list[p[n]].type => (p[m] < p[n] <=> m < n)
<1> DEFINE a == OfType(list, "github")
           b == Unpaired(list, PairedIds(list))
           c == OfType(list, "web")
           x == Plan(list)
<1>1. x = (a \o b) \o c
    BY DEF Plan, Where, Unpaired
<1>2. a \in Seq(Entries) /\ c \in Seq(Entries) /\ b \in Seq(Entries)
    BY SomeOfAType, UnpairedLocal
<1>3. PICK d \in [DOMAIN a -> DOMAIN list] :
         /\ \A m \in DOMAIN a : a[m] = list[d[m]] /\ list[d[m]].type = "github"
         /\ \A m, o \in DOMAIN a : d[m] < d[o] <=> m < o
    BY SomeOfAType
<1>4. PICK e \in [DOMAIN b -> DOMAIN list] :
         /\ \A m \in DOMAIN b : b[m] = list[e[m]] /\ list[e[m]].type = "local"
         /\ \A m, o \in DOMAIN b : e[m] < e[o] <=> m < o
    BY UnpairedLocal
<1>5. PICK f \in [DOMAIN c -> DOMAIN list] :
         /\ \A m \in DOMAIN c : c[m] = list[f[m]] /\ list[f[m]].type = "web"
         /\ \A m, o \in DOMAIN c : f[m] < f[o] <=> m < o
    BY SomeOfAType
<1> HIDE DEF a, b, c, x
<1> DEFINE k == Len(a)
           l == Len(a) + Len(b)
           end == Len(a) + Len(b) + Len(c)
           p == [m \in 1 .. end |-> IF m <= k THEN d[m] ELSE IF m <= l THEN e[m - k] ELSE f[m - l]]
<1>6. /\ Len(a) \in Nat /\ Len(b) \in Nat /\ Len(c) \in Nat
      /\ DOMAIN a = 1 .. Len(a) /\ DOMAIN b = 1 .. Len(b) /\ DOMAIN c = 1 .. Len(c)
    BY <1>2
<1>7. \A m \in 1 .. end : \/ m \in DOMAIN a
                          \/ ~ m <= k /\ m <= l /\ m - k \in DOMAIN b
                          \/ ~ m <= k /\ ~ m <= l /\ m - l \in DOMAIN c
    BY <1>6
<1>8. DOMAIN x = 1 .. end
    BY <1>1, <1>2, <1>6
<1>9. \A m \in 1 .. end : x[m] = IF m <= k THEN a[m] ELSE IF m <= l THEN b[m - k] ELSE c[m - l]
    BY <1>1, <1>2, <1>6
<1>10. \A i \in 1 .. end :
          /\ i <= k => i \in DOMAIN a /\ p[i] = d[i] /\ x[i] = a[i]
          /\ ~ i <= k /\ i <= l => i - k \in DOMAIN b /\ p[i] = e[i - k] /\ x[i] = b[i - k]
          /\ ~ i <= k /\ ~ i <= l => i - l \in DOMAIN c /\ p[i] = f[i - l] /\ x[i] = c[i - l]
    BY <1>6, <1>7, <1>9
<1>11. DOMAIN p = 1 .. end /\ p = [m \in 1 .. end |-> p[m]]
    OBVIOUS
<1> HIDE DEF p, k, l
<1>12. \A i \in 1 .. end :
          /\ p[i] \in DOMAIN list
          /\ x[i] = list[p[i]]
          /\ list[p[i]].type = IF i <= k THEN "github" ELSE IF i <= l THEN "local" ELSE "web"
    BY <1>3, <1>4, <1>5, <1>10
<1>13. p \in [1 .. end -> DOMAIN list]
    BY <1>11, <1>12
<1>14. ASSUME NEW m \in 1 .. end, NEW n \in 1 .. end, list[p[m]].type = list[p[n]].type
       PROVE  p[m] < p[n] <=> m < n
  <2>1. m \in Int /\ n \in Int /\ k \in Int /\ l \in Int
      BY <1>6 DEF k, l, end
  <2>2. CASE m <= k /\ n <= k
      BY <1>3, <1>10, <2>2
  <2>3. CASE ~ m <= k /\ m <= l /\ ~ n <= k /\ n <= l
    <3>1. m - k < n - k <=> m < n
        BY <2>1
    <3> QED
        BY <1>4, <1>10, <2>3, <3>1
  <2>4. CASE ~ m <= k /\ ~ m <= l /\ ~ n <= k /\ ~ n <= l
    <3>1. m - l < n - l <=> m < n
        BY <2>1
    <3> QED
        BY <1>5, <1>10, <2>4, <3>1
  <2> QED
      BY <1>12, <1>14, <2>2, <2>3, <2>4
<1> HIDE DEF end
<1> QED
    BY <1>8, <1>12, <1>13, <1>14 DEF x

-----------------------------------------------------------------------------
(* A saved selection is its user's own. *)

\* Only SaveSettings writes the rows.
LEMMA OnlySavesWriteRows ==
    ASSUME [Next]_vars
    PROVE  \/ rows' = rows
           \/ \E c \in Callers, r \in Roles, p \in Payloads : SaveSettings(c, r, p)
<1>1. CASE UNCHANGED vars
    BY <1>1 DEF vars
<1>2. CASE EditSources
    BY <1>2 DEF EditSources
<1>3. CASE \E u \in Users : (\E r \in Roles : SetRole(u, r)) \/ Forget(u)
    BY <1>3 DEF SetRole, Forget
<1>4. CASE \E u \in Callers, r \in Roles, q \in Requests, mode \in {"sync", "rebuild"} :
              Accept(u, r, q, mode)
    BY <1>4 DEF Accept
<1>5. CASE AutoSync \/ StartJob \/ LoadSources \/ EndJob
    BY <1>5 DEF AutoSync, StartJob, LoadSources, EndJob
<1>6. \/ UNCHANGED vars
      \/ EditSources
      \/ \E u \in Users : (\E r \in Roles : SetRole(u, r)) \/ Forget(u)
      \/ \E u \in Callers, r \in Roles, q \in Requests, mode \in {"sync", "rebuild"} :
              Accept(u, r, q, mode)
      \/ AutoSync \/ StartJob \/ LoadSources \/ EndJob
      \/ \E c \in Callers, r \in Roles, p \in Payloads : SaveSettings(c, r, p)
    BY DEF Next
<1> QED
    BY <1>1, <1>2, <1>3, <1>4, <1>5, <1>6

\* A save leaves every scope its three settings, and nobody's save but the global
\* scope's own writes the global order.
LEMMA SaveKeepsShape ==
    ASSUME RowsOK, NEW c \in Callers, NEW r \in Roles, NEW p \in Payloads,
           SaveSettings(c, r, p)
    PROVE  RowsOK' /\ rows'[Global].order = rows[Global].order
<1>1. Global # c
    BY SelectionAssumption
<1>2. Global \in Scopes
    BY DEF Scopes
<1> DEFINE Checked(keys) == IF keys = NoRow THEN NoRow ELSE Where(keys, Known)
           new == [preset |-> PresetToStore(p.preset), ids |-> Checked(p.ids),
                   order |-> Checked(p.order)]
           Over(old, fields) == [k \in DOMAIN old |->
                                    IF k \in fields /\ new[k] # NoRow THEN new[k] ELSE old[k]]
<1>3. rows' = [d \in Scopes |->
                  CASE d = c -> Over(rows[d], {"preset", "ids", "order"})
                    [] d = Global /\ r = "admin" -> Over(rows[d], {"preset", "ids"})
                    [] OTHER -> rows[d]]
    BY DEF SaveSettings
<1> HIDE DEF new
<1>4. ASSUME NEW d \in Scopes PROVE DOMAIN rows'[d] = Fields
  <2>1. DOMAIN rows[d] = Fields
      BY DEF RowsOK
  <2>2. CASE d = c
      BY <1>3, <2>1, <2>2
  <2>3. CASE d # c /\ d = Global /\ r = "admin"
      BY <1>3, <2>1, <2>3
  <2>4. CASE d # c /\ ~ (d = Global /\ r = "admin")
      BY <1>3, <2>1, <2>4
  <2> QED
      BY <2>2, <2>3, <2>4
<1>5. rows'[Global].order = rows[Global].order
  <2>1. CASE r = "admin"
    <3>1. rows'[Global] = Over(rows[Global], {"preset", "ids"})
        BY <1>1, <1>2, <1>3, <2>1
    <3>2. "order" \in DOMAIN rows[Global]
        BY <1>2 DEF RowsOK, Fields
    <3> QED
        BY <3>1, <3>2
  <2>2. CASE r # "admin"
      BY <1>1, <1>2, <1>3, <2>2
  <2> QED
      BY <2>1, <2>2
<1> QED
    BY <1>4, <1>5 DEF RowsOK

LEMMA RowsInvariant == Spec => []RowsOK
<1>1. Init => RowsOK
    BY DEF Init, RowsOK, NoRows, Defaults, Fields, Scopes
<1>2. RowsOK /\ [Next]_vars => RowsOK'
    BY OnlySavesWriteRows, SaveKeepsShape DEF RowsOK
<1> QED
    BY <1>1, <1>2, PTL DEF Spec

\* A user with a preset and ids of his own selects the same whoever else saves
\* settings: knowledge.py writes an admin's preset and ids to the global rows, and
\* read_settings puts the user's rows before them.
THEOREM MySelectionIsMine == Spec => OthersLeaveMySelection
<1>1. ASSUME RowsOK, [Next]_vars, NEW u \in Users,
             rows' # rows, rows'[u] = rows[u], rows[u].preset # NoRow, rows[u].ids # NoRow
      PROVE  ReadSettings(u)' = ReadSettings(u)
  <2>1. rows'[Global].order = rows[Global].order
      BY <1>1, OnlySavesWriteRows, SaveKeepsShape
  <2>2. DOMAIN Defaults = {"preset", "ids", "order"}
      BY DEF Defaults
  <2>3. ASSUME NEW k \in DOMAIN Defaults
        PROVE  (IF u \in Users /\ rows'[u][k] # NoRow THEN rows'[u][k] ELSE rows'[Global][k])
             = (IF u \in Users /\ rows[u][k] # NoRow THEN rows[u][k] ELSE rows[Global][k])
      BY <1>1, <2>1, <2>2, <2>3
  <2> QED
      BY <2>3 DEF ReadSettings
<1>2. RowsOK /\ [Next]_vars =>
        \A u \in Users :
           rows' # rows /\ rows'[u] = rows[u] /\ rows[u].preset # NoRow /\ rows[u].ids # NoRow
              => LET now == ReadSettings(u)
                     later == ReadSettings(u)'
                 IN  \A r \in Roles : SelectedKeys(u, r, later) = SelectedKeys(u, r, now)
    BY <1>1
<1>3. RowsOK /\ [Next]_vars =>
        [\A u \in Users :
           rows' # rows /\ rows'[u] = rows[u] /\ rows[u].preset # NoRow /\ rows[u].ids # NoRow
              => LET now == ReadSettings(u)
                     later == ReadSettings(u)'
                 IN  \A r \in Roles : SelectedKeys(u, r, later) = SelectedKeys(u, r, now)]_vars
    BY <1>2
<1> QED
    BY <1>3, RowsInvariant, PTL DEF Spec, OthersLeaveMySelection

-----------------------------------------------------------------------------
(* The type invariant. *)

LEMMA PostedLists ==
    ASSUME NEW p \in Payloads, NEW keys \in {p.ids, p.order}, keys # NoRow
    PROVE  keys \in Lists
<1>1. keys \in Seq(ToSet(keys))
    BY SelectionAssumption
<1>2. ToSet(keys) \subseteq AnyKeys
    BY DEF AnyKeys, Posted
<1> HIDE DEF AnyKeys
<1>3. Len(keys) \in Nat /\ keys \in [1 .. Len(keys) -> ToSet(keys)]
    BY <1>1
<1>4. keys \in [1 .. Len(keys) -> AnyKeys]
    BY <1>2, <1>3
<1> QED
    BY <1>3, <1>4, IsList DEF Lists

\* known_sync_keys keeps a list a list.
LEMMA CheckedIsAList ==
    ASSUME NEW keys \in Lists
    PROVE  Where(keys, Known) \in Lists
<1> DEFINE I == {i \in DOMAIN keys : Known(keys[i])}
<1>1. Where(keys, Known) = AtPlaces(keys, I)
    BY DEF Where
<1>2. I \in SUBSET DOMAIN keys
    OBVIOUS
<1> HIDE DEF I
<1> QED
    BY <1>1, <1>2, PartOfAList DEF Lists

LEMMA SaveKeepsLists ==
    ASSUME TypeOK, NEW c \in Callers, NEW r \in Roles, NEW p \in Payloads,
           SaveSettings(c, r, p)
    PROVE  ListsOK'
<1>1. Global # c
    BY SelectionAssumption
<1> DEFINE Checked(keys) == IF keys = NoRow THEN NoRow ELSE Where(keys, Known)
           new == [preset |-> PresetToStore(p.preset), ids |-> Checked(p.ids),
                   order |-> Checked(p.order)]
           Over(old, fields) == [k \in DOMAIN old |->
                                    IF k \in fields /\ new[k] # NoRow THEN new[k] ELSE old[k]]
<1>2. rows' = [d \in Scopes |->
                  CASE d = c -> Over(rows[d], {"preset", "ids", "order"})
                    [] d = Global /\ r = "admin" -> Over(rows[d], {"preset", "ids"})
                    [] OTHER -> rows[d]]
    BY DEF SaveSettings
<1>3. ASSUME NEW k \in {"ids", "order"} PROVE new[k] \in Lists \/ new[k] = NoRow
  <2>1. p.ids # NoRow => p.ids \in Lists
      BY PostedLists
  <2>2. p.order # NoRow => p.order \in Lists
      BY PostedLists
  <2>3. Checked(p.ids) \in Lists \/ Checked(p.ids) = NoRow
      BY <2>1, CheckedIsAList
  <2>4. Checked(p.order) \in Lists \/ Checked(p.order) = NoRow
      BY <2>2, CheckedIsAList
  <2> HIDE DEF Checked
  <2> QED
      BY <2>3, <2>4
<1> HIDE DEF new
<1>4. ASSUME NEW d \in Scopes, NEW k \in {"ids", "order"}
      PROVE  rows'[d][k] \in Lists \/ (d # Global /\ rows'[d][k] = NoRow)
  <2>1. DOMAIN rows[d] = Fields /\ k \in Fields
      BY DEF TypeOK, RowsOK, Fields
  <2>2. rows[d][k] \in Lists \/ (d # Global /\ rows[d][k] = NoRow)
      BY DEF TypeOK, ListsOK
  <2>3. \/ rows'[d][k] = rows[d][k]
        \/ rows'[d][k] = new[k] /\ new[k] # NoRow
    <3>1. CASE d = c
        BY <1>2, <2>1, <3>1
    <3>2. CASE d # c /\ d = Global /\ r = "admin"
        BY <1>2, <2>1, <3>2
    <3>3. CASE d # c /\ ~ (d = Global /\ r = "admin")
        BY <1>2, <3>3
    <3> QED
        BY <3>1, <3>2, <3>3
  <2> QED
      BY <1>3, <2>2, <2>3
<1> QED
    BY <1>4 DEF ListsOK

LEMMA EditKeepsEntries ==
    ASSUME sources \in Seq(Entries), EditSources
    PROVE  sources' \in Seq(Entries)
<1>1. CASE \E i \in DOMAIN sources : sources' = AtPlaces(sources, (DOMAIN sources) \ {i})
  <2>1. PICK i \in DOMAIN sources : sources' = AtPlaces(sources, (DOMAIN sources) \ {i})
      BY <1>1
  <2> DEFINE I == (DOMAIN sources) \ {i}
  <2>2. I \in SUBSET DOMAIN sources
      OBVIOUS
  <2>3. sources' = AtPlaces(sources, I)
      BY <2>1
  <2> HIDE DEF I
  <2> QED
      BY <2>2, <2>3, PartOfAList
<1>2. CASE \E i \in DOMAIN sources : sources' = [sources EXCEPT ![i].shared = ~@]
  <2>1. PICK i \in DOMAIN sources : sources' = [sources EXCEPT ![i].shared = ~@]
      BY <1>2
  <2>2. sources[i] \in Entries
      OBVIOUS
  <2>3. [sources[i] EXCEPT !.shared = ~@] \in Entries
      BY <2>2 DEF Entries
  <2>4. sources' = [sources EXCEPT ![i] = [sources[i] EXCEPT !.shared = ~@]]
      BY <2>1
  <2> HIDE DEF Entries
  <2> QED
      BY <2>3, <2>4
<1>3. CASE \E s \in Sources : sources' = Append(sources, s)
  <2>1. PICK s \in Sources : sources' = Append(sources, s)
      BY <1>3
  <2>2. s \in [id : {s.id}, type : SourceTypes, owner : Callers, shared : BOOLEAN, order : Int]
      BY SelectionAssumption
  <2>3. s \in Entries
      BY <2>2 DEF Entries, Ids
  <2> QED
      BY <2>1, <2>3
<1> QED
    BY <1>1, <1>2, <1>3 DEF EditSources
\* What the steps of the job write.
LEMMA StartEffect ==
    ASSUME TypeOK, StartJob
    PROVE  /\ job # NoJob
           /\ DOMAIN job' = JobFields
           /\ job'.user = job.user /\ job'.mode = job.mode /\ job'.only = job.only
           /\ job'.step = "started"
           /\ job.keys # Everything => job'.keys = job.keys
<1>1. job # NoJob /\ DOMAIN job = JobFields
    BY DEF StartJob, TypeOK, JobOK
<1>2. job' = [job EXCEPT !.step = "started",
                         !.keys = IF @ = Everything
                                  THEN ResolveSyncSourceIds(job.user, NoRole) ELSE @]
    BY DEF StartJob
<1> QED
    BY <1>1, <1>2 DEF JobFields

\* The job's sources as the step that loads them finds them, r being the role it uses.
JobSettings == ReadSettings(job.user)
JobKept(r) == Filtered(OrderedSources(job.user, r, JobSettings), job.keys)
JobChosen(r) == ApplySourceOrder(JobKept(r), JobSettings)

LEMMA LoadEffect ==
    ASSUME TypeOK, LoadSources
    PROVE  /\ job # NoJob /\ job.step = "started"
           /\ DOMAIN job' = JobFields
           /\ job'.user = job.user /\ job'.mode = job.mode /\ job'.only = job.only
           /\ job'.keys = job.keys /\ job'.step = "loaded"
           /\ \E r \in Roles \cup {NoRole} :
                 /\ job'.chosen = JobChosen(r)
                 /\ job'.work = IF job.mode = "sync" THEN Plan(JobChosen(r)) ELSE JobChosen(r)
                 /\ job'.asAdmin <=> r = "admin"
<1>1. job # NoJob /\ job.step = "started" /\ DOMAIN job = JobFields
    BY DEF LoadSources, TypeOK, JobOK
<1> DEFINE r == IF job.mode = "rebuild" /\ job.user \in Users THEN role[job.user] ELSE NoRole
           chosen == JobChosen(r)
           work == IF job.mode = "sync" THEN Plan(chosen) ELSE chosen
<1>2. job' = [job EXCEPT !.step = "loaded", !.chosen = chosen, !.work = work,
                         !.asAdmin = (r = "admin")]
    BY DEF LoadSources, JobChosen, JobKept, JobSettings
<1>3. r \in Roles \cup {NoRole}
    BY DEF TypeOK
<1> HIDE DEF chosen, work, r
<1>4. /\ job'.chosen = chosen /\ job'.work = work /\ job'.asAdmin = (r = "admin")
      /\ DOMAIN job' = JobFields
      /\ job'.user = job.user /\ job'.mode = job.mode /\ job'.only = job.only
      /\ job'.keys = job.keys /\ job'.step = "loaded"
    BY <1>1, <1>2 DEF JobFields
<1> QED
    BY <1>1, <1>3, <1>4 DEF chosen, work

LEMMA TypeStep ==
    ASSUME TypeOK, [Next]_vars
    PROVE  TypeOK'
<1>1. RowsOK'
    BY OnlySavesWriteRows, SaveKeepsShape DEF TypeOK, RowsOK
<1>2. ListsOK'
  <2>1. CASE rows' = rows
      BY <2>1 DEF TypeOK, ListsOK
  <2>2. CASE \E c \in Callers, r \in Roles, p \in Payloads : SaveSettings(c, r, p)
      BY <2>2, SaveKeepsLists
  <2> QED
      BY <2>1, <2>2, OnlySavesWriteRows
<1>3. CASE UNCHANGED vars
    BY <1>1, <1>2, <1>3 DEF vars, TypeOK, JobOK
<1>4. CASE EditSources
  <2>1. sources' \in Seq(Entries)
      BY <1>4, EditKeepsEntries DEF TypeOK
  <2>2. UNCHANGED <<role, gone, job>>
      BY <1>4 DEF EditSources
  <2> QED
      BY <1>1, <1>2, <2>1, <2>2 DEF TypeOK, JobOK
<1>5. CASE \E u \in Users, r \in Roles : SetRole(u, r)
    BY <1>1, <1>2, <1>5 DEF SetRole, TypeOK, JobOK
<1>6. CASE \E u \in Users : Forget(u)
    BY <1>1, <1>2, <1>6 DEF Forget, TypeOK, JobOK
<1>7. CASE \E u \in Callers, r \in Roles, p \in Payloads : SaveSettings(u, r, p)
  <2>1. UNCHANGED <<sources, role, gone, job>>
      BY <1>7 DEF SaveSettings
  <2> QED
      BY <1>1, <1>2, <2>1 DEF TypeOK, JobOK
<1>8. CASE \E u \in Callers, r \in Roles, q \in Requests, mode \in {"sync", "rebuild"} :
              Accept(u, r, q, mode)
  <2>1. PICK u \in Callers, r \in Roles, q \in Requests, mode \in {"sync", "rebuild"} :
              Accept(u, r, q, mode)
      BY <1>8
  <2>2. DOMAIN job' = JobFields /\ job'.user = u /\ job'.mode = mode /\ job'.step = "accepted"
      BY <2>1 DEF Accept, JobFields
  <2>3. UNCHANGED <<sources, role, gone>>
      BY <2>1 DEF Accept
  <2> QED
      BY <1>1, <1>2, <2>2, <2>3 DEF TypeOK, JobOK
<1>9. CASE AutoSync
  <2>1. DOMAIN job' = JobFields /\ job'.user = NoUser /\ job'.mode = "sync" /\ job'.step = "accepted"
      BY <1>9 DEF AutoSync, JobFields
  <2>2. UNCHANGED <<sources, role, gone>>
      BY <1>9 DEF AutoSync
  <2> QED
      BY <1>1, <1>2, <2>1, <2>2 DEF TypeOK, JobOK, Callers
<1>10. CASE StartJob
  <2>1. UNCHANGED <<sources, role, gone>>
      BY <1>10 DEF StartJob
  <2> QED
      BY <1>1, <1>2, <1>10, <2>1, StartEffect DEF TypeOK, JobOK
<1>11. CASE LoadSources
  <2>1. UNCHANGED <<sources, role, gone>>
      BY <1>11 DEF LoadSources
  <2> QED
      BY <1>1, <1>2, <1>11, <2>1, LoadEffect DEF TypeOK, JobOK
<1>12. CASE EndJob
    BY <1>1, <1>2, <1>12 DEF EndJob, TypeOK, JobOK
<1> QED
    BY <1>3, <1>4, <1>5, <1>6, <1>7, <1>8, <1>9, <1>10, <1>11, <1>12 DEF Next

LEMMA InitIsTyped == Init => TypeOK
<1> SUFFICES ASSUME Init PROVE TypeOK
    OBVIOUS
<1>1. sources \in Seq(Entries)
  <2>1. Catalogue \in Seq(Sources)
      BY SelectionAssumption
  <2>2. Sources \subseteq Entries
    <3> SUFFICES ASSUME NEW s \in Sources PROVE s \in Entries
        OBVIOUS
    <3>1. s \in [id : {s.id}, type : SourceTypes, owner : Callers, shared : BOOLEAN, order : Int]
        BY SelectionAssumption
    <3> QED
        BY <3>1 DEF Entries, Ids
  <2> HIDE DEF Entries
  <2>3. Len(Catalogue) \in Nat /\ Catalogue \in [1 .. Len(Catalogue) -> Entries]
      BY <2>1, <2>2
  <2> QED
      BY <2>3, IsList DEF Init
<1>2. role \in [Users -> Roles] /\ gone \in SUBSET Users
    BY DEF Init, Roles
<1>3. RowsOK
    BY DEF Init, RowsOK, NoRows, Defaults, Fields, Scopes
<1>4. ListsOK
  <2>1. <<>> \in Lists
      BY DEF Lists
  <2> QED
      BY <2>1 DEF Init, ListsOK, NoRows, Defaults, Scopes
<1>5. JobOK
    BY DEF Init, JobOK
<1> QED
    BY <1>1, <1>2, <1>3, <1>4, <1>5 DEF TypeOK

\* The lists of sources, settings and keys are what the code takes them for, through
\* every edit of the files and every save.
THEOREM TypeCorrect == Spec => []TypeOK
<1>1. Init => TypeOK
    BY InitIsTyped
<1> QED
    BY <1>1, TypeStep, PTL DEF Spec
-----------------------------------------------------------------------------
(* No private source of another user, and no source outside a saved selection. *)

LEMMA WhoWritesTheJob ==
    ASSUME [Next]_vars
    PROVE  \/ job' = job
           \/ \E u \in Callers, r \in Roles, q \in Requests, mode \in {"sync", "rebuild"} :
                 Accept(u, r, q, mode)
           \/ AutoSync
           \/ StartJob
           \/ LoadSources
           \/ EndJob
<1>1. CASE UNCHANGED vars
    BY <1>1 DEF vars
<1>2. CASE EditSources
    BY <1>2 DEF EditSources
<1>3. CASE \E u \in Users : (\E r \in Roles : SetRole(u, r)) \/ Forget(u)
    BY <1>3 DEF SetRole, Forget
<1>4. CASE \E u \in Callers, r \in Roles, p \in Payloads : SaveSettings(u, r, p)
    BY <1>4 DEF SaveSettings
<1> QED
    BY <1>1, <1>2, <1>3, <1>4 DEF Next

\* resolve_sync_source_ids of a custom selection of some of the sources in sight: a list
\* of keys, not empty and all of them selected.
LEMMA ResolvedSelection ==
    ASSUME TypeOK, NEW u \in Callers, NEW r \in Roles,
           ReadSettings(u).preset = "custom",
           ToSet(ExpandSyncKeys(ReadSettings(u).ids, SourcesForUser(u, r))) # {},
           ~ (ToSet(KeysOf(SourcesForUser(u, r)))
                 \subseteq ToSet(ExpandSyncKeys(ReadSettings(u).ids, SourcesForUser(u, r))))
    PROVE  /\ ResolveSyncSourceIds(u, r) \in Seq(Keys)
           /\ ResolveSyncSourceIds(u, r) # <<>>
           /\ ToSet(ResolveSyncSourceIds(u, r))
                 \subseteq ToSet(ExpandSyncKeys(ReadSettings(u).ids, SourcesForUser(u, r)))
<1> DEFINE st == ReadSettings(u)
           seen == SourcesForUser(u, r)
           all == OrderedSources(u, r, st)
           ks == KeysOf(all)
           picked == ToSet(ExpandSyncKeys(st.ids, seen))
           I == {i \in DOMAIN ks : ks[i] \in picked}
           x == ResolveSyncSourceIds(u, r)
<1>1. st.ids \in Lists /\ st.order \in Lists
    BY SettingsAreLists
<1>2. seen \in Seq(Entries)
    BY SeenSources DEF TypeOK
<1>3. picked \subseteq {Key(s) : s \in ToSet(seen)}
    BY <1>1, <1>2, ExpandProperties DEF Lists
<1>4. all \in Seq(Entries) /\ ToSet(all) = ToSet(seen)
    BY <1>1, <1>2, SourceOrderProperties DEF Lists, OrderedSources
<1>5. ks \in Seq(Keys) /\ ToSet(ks) = {Key(s) : s \in ToSet(seen)}
    BY <1>4, KeysOfAList
<1>6. ToSet(KeysOf(seen)) = ToSet(ks)
    BY <1>2, <1>5, KeysOfAList
<1>7. SelectedKeys(u, r, st) = ExpandSyncKeys(st.ids, seen)
  <2>1. r # NoRole
      BY SelectionAssumption
  <2>2. st.preset = "custom"
      OBVIOUS
  <2> HIDE DEF st
  <2> QED
      BY <2>1, <2>2 DEF SelectedKeys
<1>8. x = AtPlaces(ks, I)
  <2>1. st.preset # "all"
      OBVIOUS
  <2>2. ~ (picked = {} \/ ToSet(ks) \subseteq picked)
      BY <1>6
  <2>3. x = Where(ks, LAMBDA k : k \in picked)
      BY <1>7, <2>1, <2>2 DEF ResolveSyncSourceIds
  <2> QED
      BY <2>3 DEF Where
<1> HIDE DEF ks, x, st, all, seen
<1>9. I \in SUBSET DOMAIN ks /\ {ks[i] : i \in I} = ToSet(ks) \cap picked
    BY DEF ToSet
<1> HIDE DEF I
<1>10. x \in Seq(Keys) /\ ToSet(x) = ToSet(ks) \cap picked
    BY <1>5, <1>8, <1>9, PartOfAList
<1>11. ToSet(x) # {} /\ ToSet(x) \subseteq picked
  <2>1. picked # {}
      BY DEF st, seen
  <2> QED
      BY <1>3, <1>5, <1>10, <2>1
<1>12. x # <<>>
  <2>1. ToSet(<<>>) = {}
      BY DEF ToSet
  <2> QED
      BY <1>11, <2>1
<1> QED
    BY <1>10, <1>11, <1>12 DEF x, st, seen

LEMMA AcceptKeepsKeys ==
    ASSUME TypeOK, NEW u \in Callers, NEW r \in Roles, NEW q \in Requests,
           NEW mode \in {"sync", "rebuild"}, Accept(u, r, q, mode)
    PROVE  KeysAreKept'
<1> DEFINE st == ReadSettings(u)
           saved == q.saved /\ q.ids = <<>> /\ q.preset \notin DOMAIN PresetIds
           seen == SourcesForUser(u, r)
           picked == ToSet(ExpandSyncKeys(st.ids, seen))
           bounded == /\ saved /\ st.preset = "custom" /\ picked # {}
                      /\ ~ (ToSet(KeysOf(seen)) \subseteq picked)
<1>1. job'.only = IF bounded THEN picked ELSE Everything
    BY DEF Accept
<1>2. job'.keys = Asked(u, r, q)
    BY DEF Accept
<1>3. CASE ~ bounded
    BY <1>1, <1>3 DEF KeysAreKept
<1>4. CASE bounded
  <2>1. Asked(u, r, q) = ResolveSyncSourceIds(u, r)
      BY <1>4 DEF Asked
  <2>2. /\ ResolveSyncSourceIds(u, r) \in Seq(Keys)
        /\ ResolveSyncSourceIds(u, r) # <<>>
        /\ ToSet(ResolveSyncSourceIds(u, r)) \subseteq picked
      BY <1>4, ResolvedSelection
  <2> HIDE DEF picked
  <2> QED
      BY <1>1, <1>2, <1>4, <2>1, <2>2 DEF KeysAreKept
<1> QED
    BY <1>3, <1>4

LEMMA KeysStep ==
    ASSUME TypeOK, KeysAreKept, [Next]_vars
    PROVE  KeysAreKept'
<1>1. CASE job' = job
    BY <1>1 DEF KeysAreKept
<1>2. CASE \E u \in Callers, r \in Roles, q \in Requests, mode \in {"sync", "rebuild"} :
              Accept(u, r, q, mode)
    BY <1>2, AcceptKeepsKeys
<1>3. CASE AutoSync
    BY <1>3 DEF AutoSync, KeysAreKept
<1>4. CASE StartJob
  <2>1. Everything \notin Seq(Keys)
      BY SelectionAssumption DEF Keys, Ids
  <2> QED
      BY <1>4, <2>1, StartEffect DEF KeysAreKept
<1>5. CASE LoadSources
    BY <1>5, LoadEffect DEF KeysAreKept
<1>6. CASE EndJob
    BY <1>6 DEF EndJob, KeysAreKept
<1> QED
    BY <1>1, <1>2, <1>3, <1>4, <1>5, <1>6, WhoWritesTheJob

\* Only LoadSources makes a job a loaded one.
LEMMA WhoLoads ==
    ASSUME TypeOK, [Next]_vars, Loaded'
    PROVE  LoadSources \/ (Loaded /\ job' = job)
<1>1. CASE job' = job
    BY <1>1 DEF Loaded
<1>2. CASE \E u \in Callers, r \in Roles, q \in Requests, mode \in {"sync", "rebuild"} :
              Accept(u, r, q, mode)
    BY <1>2 DEF Accept, Loaded
<1>3. CASE AutoSync
    BY <1>3 DEF AutoSync, Loaded
<1>4. CASE StartJob
    BY <1>4, StartEffect DEF Loaded
<1>5. CASE EndJob
    BY <1>5 DEF EndJob, Loaded
<1> QED
    BY <1>1, <1>2, <1>3, <1>4, <1>5, WhoWritesTheJob

LEMMA ChosenByTheJob ==
    ASSUME TypeOK, job # NoJob, NEW r
    PROVE  /\ JobKept(r) \in Seq(Entries)
           /\ JobChosen(r) \in Seq(Entries)
           /\ \A s \in ToSet(JobChosen(r)) :
                 /\ s \in Entries
                 /\ MaySee(job.user, r, s)
                 /\ job.keys \notin {Everything, <<>>} =>
                       \E k \in ToSet(job.keys) : Matches(s, k)
<1>1. job.user \in Callers
    BY DEF TypeOK, JobOK
<1> QED
    BY <1>1, ChosenSources DEF JobKept, JobChosen, JobSettings

\* A job reads no library that is neither its user's own nor shared, unless it is the
\* rebuild of an admin: whichever keys the request named, load_sources and the visible
\* sources of the caller decide, with the role the job itself looks up.
LEMMA PrivateStep ==
    ASSUME TypeOK, NobodysPrivateSource, [Next]_vars
    PROVE  NobodysPrivateSource'
<1> SUFFICES ASSUME Loaded', NEW s \in ToSet(job'.chosen) \cup ToSet(job'.work)
             PROVE  s.shared \/ (job'.user \in Users /\ s.owner = job'.user) \/ job'.asAdmin
    BY DEF NobodysPrivateSource
<1>1. CASE Loaded /\ job' = job
    BY <1>1 DEF NobodysPrivateSource
<1>2. CASE LoadSources
  <2>1. /\ job # NoJob /\ job'.user = job.user
        /\ \E r \in Roles \cup {NoRole} :
              /\ job'.chosen = JobChosen(r)
              /\ job'.work = IF job.mode = "sync" THEN Plan(JobChosen(r)) ELSE JobChosen(r)
              /\ job'.asAdmin <=> r = "admin"
      BY <1>2, LoadEffect
  <2>2. PICK r \in Roles \cup {NoRole} :
              /\ job'.chosen = JobChosen(r)
              /\ job'.work = IF job.mode = "sync" THEN Plan(JobChosen(r)) ELSE JobChosen(r)
              /\ job'.asAdmin <=> r = "admin"
      BY <2>1
  <2>3. JobChosen(r) \in Seq(Entries)
      BY <2>1, ChosenByTheJob
  <2>4. s \in ToSet(JobChosen(r))
    <3>1. CASE job.mode # "sync" \/ s \in ToSet(job'.chosen)
        BY <2>2, <3>1
    <3>2. CASE job.mode = "sync" /\ s \in ToSet(job'.work)
      <4> DEFINE list == JobChosen(r)
      <4>1. \E p \in [DOMAIN Plan(list) -> DOMAIN list] :
               \A m \in DOMAIN Plan(list) : Plan(list)[m] = list[p[m]]
          BY <2>3, PlanProperties
      <4>2. s \in ToSet(Plan(list))
          BY <2>2, <3>2
      <4> HIDE DEF list
      <4>3. s \in ToSet(list)
          BY <4>1, <4>2 DEF ToSet
      <4> QED
          BY <4>3 DEF list
    <3> QED
        BY <3>1, <3>2
  <2>5. MaySee(job.user, r, s)
      BY <2>1, <2>4, ChosenByTheJob
  <2>6. job.user \in Callers
      BY <2>1 DEF TypeOK, JobOK
  <2> QED
      BY <2>1, <2>2, <2>5, <2>6 DEF MaySee, Callers
<1> QED
    BY <1>1, <1>2, WhoLoads

\* What a job of a saved selection works on lies in the selection.
LEMMA SelectionStep ==
    ASSUME TypeOK, KeysAreKept, SelectionIsKept, [Next]_vars
    PROVE  SelectionIsKept'
<1> SUFFICES ASSUME Loaded', job'.only # Everything
             PROVE  ToSet(KeysOf(job'.chosen)) \subseteq job'.only
    BY DEF SelectionIsKept
<1>1. CASE Loaded /\ job' = job
    BY <1>1 DEF SelectionIsKept
<1>2. CASE LoadSources
  <2>1. /\ job # NoJob /\ job'.only = job.only
        /\ \E r \in Roles \cup {NoRole} : job'.chosen = JobChosen(r)
      BY <1>2, LoadEffect
  <2>2. PICK r \in Roles \cup {NoRole} : job'.chosen = JobChosen(r)
      BY <2>1
  <2>3. /\ job.keys \in Seq(Keys) /\ job.keys # <<>> /\ job.keys # Everything
        /\ ToSet(job.keys) \subseteq job.only
    <3>1. Everything \notin Seq(Keys)
        BY SelectionAssumption DEF Keys, Ids
    <3> QED
        BY <2>1, <3>1 DEF KeysAreKept
  <2>4. /\ JobChosen(r) \in Seq(Entries)
        /\ \A s \in ToSet(JobChosen(r)) : s \in Entries /\ \E k \in ToSet(job.keys) : Matches(s, k)
      BY <2>1, <2>3, ChosenByTheJob
  <2>5. \A k \in ToSet(job.keys) : k \in Keys
      BY <2>3 DEF ToSet
  <2>6. \A s \in ToSet(JobChosen(r)) : Key(s) \in ToSet(job.keys)
      BY <2>4, <2>5, EntryKeys
  <2>7. ToSet(KeysOf(JobChosen(r))) \subseteq ToSet(job.keys)
      BY <2>4, <2>6, KeysOfAList
  <2> QED
      BY <2>1, <2>2, <2>3, <2>7
<1> QED
    BY <1>1, <1>2, WhoLoads

LEMMA SelectionInvariant == Spec => []IInv
<1>1. Init => TypeOK
    BY InitIsTyped
<1>2. Init => KeysAreKept /\ NobodysPrivateSource /\ SelectionIsKept
    BY DEF Init, KeysAreKept, NobodysPrivateSource, SelectionIsKept, Loaded
<1>3. IInv /\ [Next]_vars => IInv'
    BY TypeStep, KeysStep, PrivateStep, SelectionStep DEF IInv
<1> QED
    BY <1>1, <1>2, <1>3, PTL DEF Spec, IInv

\* A job reads no library that is neither its user's own nor shared, for any users,
\* libraries and requests.
THEOREM OnlyWhatTheUserMaySee == Spec => []NobodysPrivateSource
<1>1. IInv => NobodysPrivateSource
    BY DEF IInv
<1> QED
    BY <1>1, SelectionInvariant, PTL

\* A saved selection of some of the sources bounds the job that a request leaves.
THEOREM TheSelectionBoundsTheJob == Spec => []SelectionIsKept
<1>1. IInv => SelectionIsKept
    BY DEF IInv
<1> QED
    BY <1>1, SelectionInvariant, PTL
-----------------------------------------------------------------------------
(* The order in which a job works. *)

PlacesIn(order, s) == {i \in DOMAIN order : Matches(s, order[i])}
GoesBefore(order, s, t) ==
    \/ /\ PlacesIn(order, s) # {}
       /\ \A j \in PlacesIn(order, t) : \E i \in PlacesIn(order, s) : i < j
    \/ PlacesIn(order, s) = {} /\ PlacesIn(order, t) = {} /\ s.order < t.order

\* apply_source_order puts the sources of an earlier entry first, those without an entry
\* last and by their own order.
LEMMA SourceOrderIsKept ==
    ASSUME NEW A, NEW st, st.order \in Seq(A), NEW list \in Seq(Entries),
           NEW m \in DOMAIN ApplySourceOrder(list, st),
           NEW n \in DOMAIN ApplySourceOrder(list, st),
           GoesBefore(st.order, ApplySourceOrder(list, st)[m], ApplySourceOrder(list, st)[n])
    PROVE  m < n
<1> DEFINE raw == st.order
           x == ApplySourceOrder(list, st)
           manual == ExpandSyncKeys(raw, list)
<1>1. PICK e \in [DOMAIN list -> DOMAIN list] :
         /\ \A o \in DOMAIN list : x[o] = list[e[o]]
         /\ \A o, q \in DOMAIN list :
               Lower(Rank(list, manual, e[o]), Rank(list, manual, e[q])) <=> o < q
    BY SourceOrderProperties
<1>2. m \in DOMAIN list /\ n \in DOMAIN list
    BY SourceOrderProperties
<1> DEFINE i == e[m]
           j == e[n]
           s == list[i]
           t == list[j]
           a == Rank(list, manual, i)
           b == Rank(list, manual, j)
<1>3. i \in DOMAIN list /\ j \in DOMAIN list /\ GoesBefore(raw, s, t)
    BY <1>1, <1>2
<1>4. Lower(a, b) => m < n
    BY <1>1, <1>2
<1>5. s \in Entries /\ t \in Entries /\ s \in ToSet(list) /\ t \in ToSet(list)
    BY <1>3 DEF ToSet
<1>6. manual \in Seq(Keys)
    BY ExpandProperties
<1>7. ToSet(manual) = {Key(l) : l \in {k \in ToSet(list) : \E r \in ToSet(raw) : Matches(k, r)}}
    BY ExpandProperties
<1>8. \A o, q \in DOMAIN manual : NamedBefore(raw, list, manual[o], manual[q]) => o < q
    BY ExpandProperties
<1>9. \A k, l \in Entries : \A r : Key(k) = Key(l) /\ Matches(k, r) => Matches(l, r)
    BY DEF Key, Matches
<1> HIDE DEF raw, manual, x
<1>10. \A l \in ToSet(list) : Key(l) \in ToSet(manual) <=> PlacesIn(raw, l) # {}
  <2> SUFFICES ASSUME NEW l \in ToSet(list)
               PROVE  Key(l) \in ToSet(manual) <=> PlacesIn(raw, l) # {}
      OBVIOUS
  <2>1. PlacesIn(raw, l) # {} <=> \E r \in ToSet(raw) : Matches(l, r)
      BY DEF PlacesIn, ToSet
  <2>2. ToSet(list) \subseteq Entries
      BY DEF ToSet
  <2>3. ASSUME Key(l) \in ToSet(manual) PROVE \E r \in ToSet(raw) : Matches(l, r)
    <3>1. PICK k \in ToSet(list) : Key(l) = Key(k) /\ \E r \in ToSet(raw) : Matches(k, r)
        BY <1>7, <2>3
    <3> QED
        BY <1>9, <2>2, <3>1
  <2> QED
      BY <1>7, <2>1, <2>3
<1>11. ASSUME NEW k \in DOMAIN list
       PROVE  /\ Rank(list, manual, k) \in Int \X Int \X Int \X Int
              /\ IF Key(list[k]) \in ToSet(manual)
                 THEN /\ Rank(list, manual, k)[1] = 0
                      /\ Rank(list, manual, k)[2] \in DOMAIN manual
                      /\ manual[Rank(list, manual, k)[2]] = Key(list[k])
                 ELSE /\ Rank(list, manual, k)[1] = 1
                      /\ Rank(list, manual, k)[2] = list[k].order
    BY <1>6, RankProperties
<1>12. /\ a \in Int \X Int \X Int \X Int /\ b \in Int \X Int \X Int \X Int
       /\ IF Key(s) \in ToSet(manual)
          THEN a[1] = 0 /\ a[2] \in DOMAIN manual /\ manual[a[2]] = Key(s)
          ELSE a[1] = 1 /\ a[2] = s.order
       /\ IF Key(t) \in ToSet(manual)
          THEN b[1] = 0 /\ b[2] \in DOMAIN manual /\ manual[b[2]] = Key(t)
          ELSE b[1] = 1 /\ b[2] = t.order
    BY <1>3, <1>11
<1>13. a[1] < b[1] \/ (a[1] = b[1] /\ a[2] < b[2]) => Lower(a, b)
    BY <1>12, LowerOfFour
<1> HIDE DEF a, b, s, t
<1>14. CASE PlacesIn(raw, s) # {} /\ \A d \in PlacesIn(raw, t) : \E c \in PlacesIn(raw, s) : c < d
  <2>1. a[1] = 0 /\ a[2] \in DOMAIN manual /\ manual[a[2]] = Key(s)
      BY <1>5, <1>10, <1>12, <1>14
  <2>2. CASE Key(t) \notin ToSet(manual)
      BY <1>4, <1>12, <1>13, <2>1, <2>2
  <2>3. CASE Key(t) \in ToSet(manual)
    <3>1. b[1] = 0 /\ b[2] \in DOMAIN manual /\ manual[b[2]] = Key(t)
        BY <1>12, <2>3
    <3>2. ASSUME NEW d \in DOMAIN raw, NEW h \in DOMAIN list,
                 Matches(list[h], raw[d]), Key(list[h]) = manual[b[2]]
          PROVE  \E c \in DOMAIN raw, g \in DOMAIN list :
                    c < d /\ Matches(list[g], raw[c]) /\ Key(list[g]) = manual[a[2]]
      <4>1. list[h] \in Entries
          OBVIOUS
      <4>2. Matches(t, raw[d])
          BY <1>5, <1>9, <3>1, <3>2, <4>1
      <4>3. PICK c \in PlacesIn(raw, s) : c < d
          BY <1>14, <4>2 DEF PlacesIn
      <4>4. c \in DOMAIN raw /\ Matches(list[i], raw[c]) /\ Key(list[i]) = manual[a[2]]
          BY <2>1, <4>3 DEF PlacesIn, s
      <4> QED
          BY <1>3, <4>3, <4>4
    <3>3. a[2] < b[2]
        BY <1>8, <2>1, <3>1, <3>2 DEF NamedBefore
    <3> QED
        BY <1>4, <1>13, <2>1, <3>1, <3>3
  <2> QED
      BY <2>2, <2>3
<1>15. CASE PlacesIn(raw, s) = {} /\ PlacesIn(raw, t) = {} /\ s.order < t.order
  <2>1. a[1] = 1 /\ a[2] = s.order /\ b[1] = 1 /\ b[2] = t.order
      BY <1>5, <1>10, <1>12, <1>15
  <2> QED
      BY <1>4, <1>13, <1>15, <2>1
<1> QED
    BY <1>3, <1>14, <1>15 DEF GoesBefore

\* A job takes the sources of a type in the manual order and then in the order of their
\* entries, a rebuild all its sources: apply_source_order orders them, and the plan of a
\* sync keeps their order within each type.
THEOREM JobsKeepTheOrder == Spec => OrderIsKept
<1> DEFINE Goal ==
      Loads =>
          LET st == ReadSettings(job.user)
              Places(s) == {i \in DOMAIN st.order : Matches(s, st.order[i])}
              Before(s, t) ==
                  \/ Places(s) # {} /\ \A j \in Places(t) : \E i \in Places(s) : i < j
                  \/ Places(s) = {} /\ Places(t) = {} /\ s.order < t.order
          IN  \A m, n \in DOMAIN job'.work :
                  LET s == job'.work[m]
                      t == job'.work[n]
                  IN  Before(s, t) /\ (s.type = t.type \/ job.mode = "rebuild") => m < n
<1>1. ASSUME TypeOK, [Next]_vars, Loads PROVE LoadSources
  <2>1. job # NoJob /\ job.step = "started" /\ job'.step = "loaded"
      BY <1>1 DEF Loads
  <2>2. ~ \E u \in Callers, r \in Roles, q \in Requests, mode \in {"sync", "rebuild"} :
              Accept(u, r, q, mode)
      BY <2>1 DEF Accept
  <2>3. ~ AutoSync /\ ~ EndJob
      BY <2>1 DEF AutoSync, EndJob
  <2>4. ~ StartJob
      BY <1>1, <2>1, StartEffect
  <2> QED
      BY <1>1, <2>1, <2>2, <2>3, <2>4, WhoWritesTheJob
<1>2. ASSUME TypeOK, LoadSources,
             NEW m \in DOMAIN job'.work, NEW n \in DOMAIN job'.work,
             GoesBefore(JobSettings.order, job'.work[m], job'.work[n]),
             job'.work[m].type = job'.work[n].type \/ job.mode = "rebuild"
      PROVE  m < n
  <2>1. job # NoJob /\ \E r \in Roles \cup {NoRole} :
            job'.work = IF job.mode = "sync" THEN Plan(JobChosen(r)) ELSE JobChosen(r)
      BY <1>2, LoadEffect
  <2>2. PICK r \in Roles \cup {NoRole} :
            job'.work = IF job.mode = "sync" THEN Plan(JobChosen(r)) ELSE JobChosen(r)
      BY <2>1
  <2> DEFINE chosen == JobChosen(r)
  <2>3. job.user \in Callers /\ JobSettings.order \in Seq(AnyKeys)
      BY <1>2, <2>1, SettingsAreLists DEF TypeOK, JobOK, JobSettings, Lists
  <2>4. JobKept(r) \in Seq(Entries) /\ chosen \in Seq(Entries)
      BY <1>2, <2>1, ChosenByTheJob
  <2>5. \A k, l \in DOMAIN chosen :
           GoesBefore(JobSettings.order, chosen[k], chosen[l]) => k < l
      BY <2>3, <2>4, SourceOrderIsKept DEF JobChosen
  <2> HIDE DEF chosen
  <2>6. CASE job.mode # "sync"
      BY <1>2, <2>2, <2>5, <2>6 DEF chosen
  <2>7. CASE job.mode = "sync"
    <3>1. job'.work = Plan(chosen)
        BY <2>2, <2>7 DEF chosen
    <3>2. PICK p \in [DOMAIN Plan(chosen) -> DOMAIN chosen] :
              /\ \A k \in DOMAIN Plan(chosen) : Plan(chosen)[k] = chosen[p[k]]
              /\ \A k, l \in DOMAIN Plan(chosen) :
                    chosen[p[k]].type = chosen[p[l]].type => (p[k] < p[l] <=> k < l)
        BY <2>4, PlanProperties
    <3>3. p[m] < p[n]
        BY <1>2, <2>5, <3>1, <3>2
    <3>4. chosen[p[m]].type = chosen[p[n]].type
        BY <1>2, <2>7, <3>1, <3>2
    <3> QED
        BY <3>1, <3>2, <3>3, <3>4
  <2> QED
      BY <2>6, <2>7
<1>3. TypeOK /\ [Next]_vars => Goal
    BY <1>1, <1>2 DEF GoesBefore, PlacesIn, JobSettings
<1>4. TypeOK /\ [Next]_vars => [Goal]_vars
    BY <1>3
<1> QED
    BY <1>4, TypeCorrect, PTL DEF Spec, OrderIsKept

=============================================================================
