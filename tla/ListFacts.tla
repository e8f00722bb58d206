------------------------------ MODULE ListFacts ------------------------------
(***************************************************************************)
(* Facts about the lists of the kernel (include/linux/list.h), modelled as *)
(* sequences: what list_add_tail, the removal of the first element and the *)
(* removal of the first n elements do to the elements of a list in which   *)
(* no element occurs twice.                                                *)
(***************************************************************************)
EXTENDS Integers, Sequences, Functions, FiniteSetTheorems, WellFoundedInduction, TLAPS

\* list_add_tail: the new element is added to the elements of the list.
LEMMA AppendElements ==
    ASSUME NEW S, NEW l \in Seq(S), NEW x \in S
    PROVE  /\ Append(l, x) \in Seq(S)
           /\ Range(Append(l, x)) = Range(l) \cup {x}
           /\ Append(l, x) # <<>>
<1>1. Append(l, x) \in Seq(S)
  OBVIOUS
<1>2. /\ Len(Append(l, x)) = Len(l) + 1
      /\ \A i \in 1..Len(l) : Append(l, x)[i] = l[i]
      /\ Append(l, x)[Len(l) + 1] = x
      /\ DOMAIN Append(l, x) = 1..(Len(l) + 1)
      /\ DOMAIN l = 1..Len(l)
      /\ Len(l) \in Nat
  OBVIOUS
<1>3. Range(Append(l, x)) \subseteq Range(l) \cup {x}
  BY <1>2 DEF Range
<1>4. Range(l) \cup {x} \subseteq Range(Append(l, x))
  BY <1>2 DEF Range
<1>5. Append(l, x) # <<>>
  BY <1>2
<1> QED
  BY <1>1, <1>3, <1>4, <1>5

\* A task that is not in the list can be added without a repetition.
LEMMA AppendInjective ==
    ASSUME NEW S, NEW l \in Seq(S), NEW x \in S,
           IsInjective(l), x \notin Range(l)
    PROVE  IsInjective(Append(l, x))
<1>1. /\ \A i \in 1..Len(l) : Append(l, x)[i] = l[i]
      /\ Append(l, x)[Len(l) + 1] = x
      /\ DOMAIN Append(l, x) = 1..(Len(l) + 1)
      /\ DOMAIN l = 1..Len(l)
      /\ Len(l) \in Nat
  OBVIOUS
<1> QED
  BY <1>1 DEF Range, IsInjective

\* list_del of the first element.
LEMMA TailElements ==
    ASSUME NEW S, NEW l \in Seq(S), l # <<>>
    PROVE  /\ Tail(l) \in Seq(S)
           /\ Head(l) \in Range(l)
           /\ Head(l) \in S
           /\ Range(l) = Range(Tail(l)) \cup {Head(l)}
           /\ IsInjective(l) => /\ IsInjective(Tail(l))
                                    /\ Head(l) \notin Range(Tail(l))
<1>1. /\ Tail(l) \in Seq(S)
      /\ Head(l) = l[1]
      /\ Len(l) \in Nat /\ Len(l) >= 1
      /\ Len(Tail(l)) = Len(l) - 1
      /\ \A i \in 1..(Len(l) - 1) : Tail(l)[i] = l[i + 1]
      /\ DOMAIN l = 1..Len(l)
      /\ DOMAIN Tail(l) = 1..(Len(l) - 1)
      /\ \A i \in 1..Len(l) : l[i] \in S
  OBVIOUS
<1>2. Range(l) \subseteq Range(Tail(l)) \cup {Head(l)}
  <2> SUFFICES ASSUME NEW i \in 1..Len(l)
               PROVE  l[i] \in Range(Tail(l)) \cup {Head(l)}
    BY <1>1 DEF Range
  <2>1. CASE i = 1
    BY <2>1, <1>1
  <2>2. CASE i # 1
    <3>1. i - 1 \in 1..(Len(l) - 1) /\ Tail(l)[i - 1] = l[i]
      BY <2>2, <1>1
    <3> QED
      BY <3>1, <1>1 DEF Range
  <2> QED
    BY <2>1, <2>2
<1>3. Range(Tail(l)) \cup {Head(l)} \subseteq Range(l)
  BY <1>1 DEF Range
<1>4. ASSUME IsInjective(l)
      PROVE  IsInjective(Tail(l)) /\ Head(l) \notin Range(Tail(l))
  <2>1. \A i \in 1..(Len(l) - 1) : i + 1 \in 1..Len(l) /\ i + 1 # 1
    BY <1>1
  <2>2. IsInjective(Tail(l))
    BY <1>1, <1>4, <2>1 DEF IsInjective
  <2>3. Head(l) \notin Range(Tail(l))
    BY <1>1, <1>4, <2>1 DEF IsInjective, Range
  <2> QED
    BY <2>2, <2>3
<1> QED
  BY <1>1, <1>2, <1>3, <1>4

\* a is the first n elements of l, b the rest.
SplitsInto(l, n, a, b) ==
    /\ Len(a) = n /\ \A i \in 1..n : a[i] = l[i]
    /\ a # <<>>
    /\ Range(l) = Range(a) \cup Range(b)
    /\ IsInjective(l) => /\ IsInjective(a)
                         /\ IsInjective(b)
                         /\ Range(a) \cap Range(b) = {}

\* A list is cut after its first n elements.
LEMMA SplitElements ==
    ASSUME NEW S, NEW l \in Seq(S), NEW n \in 1..Len(l)
    PROVE  /\ SubSeq(l, 1, n) \in Seq(S)
           /\ SubSeq(l, n + 1, Len(l)) \in Seq(S)
           /\ SplitsInto(l, n, SubSeq(l, 1, n), SubSeq(l, n + 1, Len(l)))
<1>a. /\ SubSeq(l, 1, n) \in Seq(S) /\ Len(SubSeq(l, 1, n)) = n
      /\ \A i \in 1..n : SubSeq(l, 1, n)[i] = l[i]
  OBVIOUS
<1>b. /\ SubSeq(l, n + 1, Len(l)) \in Seq(S)
      /\ Len(SubSeq(l, n + 1, Len(l))) = Len(l) - n
      /\ \A i \in 1..(Len(l) - n) : SubSeq(l, n + 1, Len(l))[i] = l[i + n]
  OBVIOUS
<1> DEFINE a == SubSeq(l, 1, n)
           b == SubSeq(l, n + 1, Len(l))
<1>0. /\ a \in Seq(S) /\ Len(a) = n /\ \A i \in 1..n : a[i] = l[i]
      /\ b \in Seq(S) /\ Len(b) = Len(l) - n
      /\ \A i \in 1..(Len(l) - n) : b[i] = l[i + n]
  BY <1>a, <1>b
<1> HIDE DEF a, b
<1>1. /\ Len(l) \in Nat /\ DOMAIN l = 1..Len(l) /\ n \in Nat /\ n <= Len(l)
      /\ DOMAIN a = 1..n /\ DOMAIN b = 1..(Len(l) - n)
  BY <1>0
<1>2. \A i \in 1..n : i \in 1..Len(l) /\ a[i] = l[i]
  BY <1>0, <1>1
<1>3. \A i \in 1..(Len(l) - n) : i + n \in 1..Len(l) /\ b[i] = l[i + n]
  BY <1>0, <1>1
<1>4. Range(l) \subseteq Range(a) \cup Range(b)
  <2> SUFFICES ASSUME NEW i \in 1..Len(l)
               PROVE  l[i] \in Range(a) \cup Range(b)
    BY <1>1 DEF Range
  <2>1. CASE i <= n
    <3>1. i \in 1..n /\ a[i] = l[i]
      BY <2>1, <1>1, <1>2
    <3> QED
      BY <3>1, <1>1 DEF Range
  <2>2. CASE ~(i <= n)
    <3>1. i - n \in 1..(Len(l) - n) /\ (i - n) + n = i
      BY <2>2, <1>1
    <3>2. b[i - n] = l[i]
      BY <3>1, <1>3
    <3> QED
      BY <3>1, <3>2, <1>1 DEF Range
  <2> QED
    BY <2>1, <2>2
<1>5. Range(a) \cup Range(b) \subseteq Range(l)
  <2>1. Range(a) \subseteq Range(l)
    BY <1>1, <1>2 DEF Range
  <2>2. ASSUME NEW i \in 1..(Len(l) - n)
        PROVE  b[i] \in Range(l)
    <3>1. i + n \in DOMAIN l /\ b[i] = l[i + n]
      BY <1>1, <1>3
    <3> QED
      BY <3>1, Zenon DEF Range
  <2>3. Range(b) \subseteq Range(l)
    BY <2>2, <1>1 DEF Range
  <2> QED
    BY <2>1, <2>3
<1>6. ASSUME IsInjective(l)
      PROVE  /\ IsInjective(a)
             /\ IsInjective(b)
             /\ Range(a) \cap Range(b) = {}
  <2>1. IsInjective(a)
    BY <1>1, <1>2, <1>6 DEF IsInjective
  <2>2. ASSUME NEW i \in 1..(Len(l) - n), NEW j \in 1..(Len(l) - n), b[i] = b[j]
        PROVE  i = j
    <3>1. /\ i + n \in DOMAIN l /\ j + n \in DOMAIN l
          /\ l[i + n] = l[j + n]
      BY <2>2, <1>1, <1>3
    <3>2. i + n = j + n
      BY <3>1, <1>6, Zenon DEF IsInjective
    <3> QED
      BY <3>2, <1>1
  <2>3. ASSUME NEW i \in 1..n, NEW j \in 1..(Len(l) - n)
        PROVE  a[i] # b[j]
    <3>1. i \in 1..Len(l) /\ j + n \in 1..Len(l) /\ i # j + n
      BY <1>1
    <3>2. a[i] = l[i] /\ b[j] = l[j + n]
      BY <1>2, <1>3
    <3> QED
      BY <3>1, <3>2, <1>1, <1>6 DEF IsInjective
  <2>4. Range(a) \cap Range(b) = {}
    BY <2>3, <1>1 DEF Range
  <2>5. IsInjective(b)
    BY <2>2, <1>1, Zenon DEF IsInjective
  <2> QED
    BY <2>1, <2>4, <2>5
<1>7. a # <<>>
  BY <1>0, <1>1
<1>8. Range(l) = Range(a) \cup Range(b)
  BY <1>4, <1>5
<1> QED
  BY <1>0, <1>6, <1>7, <1>8, Zenon DEF a, b, SplitsInto

\* A list without repetition has as many elements as its length.
LEMMA InjectiveCardinality ==
    ASSUME NEW S, NEW l \in Seq(S), IsInjective(l)
    PROVE  IsFiniteSet(Range(l)) /\ Cardinality(Range(l)) = Len(l)
<1>1. Len(l) \in Nat /\ l \in [1..Len(l) -> Range(l)] /\ DOMAIN l = 1..Len(l)
  BY DEF Range
<1>2. l \in Bijection(1..Len(l), Range(l))
  BY <1>1, Zenon DEF Bijection, Injection, Surjection, IsInjective, Range
<1>3. ExistsBijection(1..Len(l), Range(l))
  BY <1>2, Zenon DEF ExistsBijection
<1>4. IsFiniteSet(1..Len(l))
  BY <1>1, FS_Interval
<1> QED
  BY <1>1, <1>3, <1>4, FS_Bijection, FS_CountingElements

\* Lists are equal if their elements are.
LEMMA ListsEqual ==
    ASSUME NEW S, NEW a \in Seq(S), NEW b \in Seq(S), Len(a) = Len(b),
           \A i \in 1..Len(a) : a[i] = b[i]
    PROVE  a = b
OBVIOUS

\* The elements of two lists joined.
LEMMA JoinedElements ==
    ASSUME NEW S, NEW a \in Seq(S), NEW b \in Seq(S)
    PROVE  /\ a \o b \in Seq(S) /\ Len(a \o b) = Len(a) + Len(b)
           /\ \A i \in 1..Len(a) : (a \o b)[i] = a[i]
           /\ \A i \in 1..Len(b) : (a \o b)[Len(a) + i] = b[i]
<1>1. Len(a) \in Nat /\ Len(b) \in Nat
  OBVIOUS
<1>2. /\ a \o b \in Seq(S) /\ Len(a \o b) = Len(a) + Len(b)
      /\ \A i \in 1..Len(a) : (a \o b)[i] = a[i]
  OBVIOUS
<1>3. ASSUME NEW i \in 1..Len(b)
      PROVE  (a \o b)[Len(a) + i] = b[i]
  <2>1. Len(a) + i \in 1..(Len(a) + Len(b)) /\ ~(Len(a) + i <= Len(a))
    BY <1>1
  <2>2. (Len(a) + i) - Len(a) = i
    BY <1>1
  <2> QED
    BY <2>1, <2>2
<1> QED
  BY <1>2, <1>3

\* list_del of the element at k: what was before it stays where it is, what was
\* behind it moves up.
LEMMA DeletedElements ==
    ASSUME NEW S, NEW l \in Seq(S), NEW k \in 1..Len(l)
    PROVE  LET c == SubSeq(l, 1, k - 1) \o SubSeq(l, k + 1, Len(l))
           IN  /\ c \in Seq(S) /\ Len(c) = Len(l) - 1
               /\ \A i \in 1..(k - 1) : c[i] = l[i]
               /\ \A i \in k..(Len(l) - 1) : c[i] = l[i + 1]
<1>1. Len(l) \in Nat /\ k \in Nat /\ k >= 1 /\ k <= Len(l)
  OBVIOUS
<1> DEFINE a == SubSeq(l, 1, k - 1)
           b == SubSeq(l, k + 1, Len(l))
           c == a \o b
<1>2. a \in Seq(S) /\ Len(a) = k - 1 /\ \A i \in 1..(k - 1) : a[i] = l[i]
  BY <1>1
<1>3. /\ b \in Seq(S) /\ Len(b) = Len(l) - k
      /\ \A i \in 1..(Len(l) - k) : b[i] = l[i + k]
  BY <1>1
<1> HIDE DEF a, b
<1>4. a \in Seq(S) /\ b \in Seq(S)
  BY <1>2, <1>3
<1>5. /\ c \in Seq(S) /\ Len(c) = Len(a) + Len(b)
      /\ \A i \in 1..Len(a) : c[i] = a[i]
      /\ \A i \in 1..Len(b) : c[Len(a) + i] = b[i]
  BY ONLY <1>4, JoinedElements
<1> HIDE DEF c
<1>6. Len(c) = Len(l) - 1
  BY <1>1, <1>2, <1>3, <1>5
<1>7. ASSUME NEW i \in k..(Len(l) - 1)
      PROVE  c[i] = l[i + 1]
  <2>1. /\ i - (k - 1) \in 1..(Len(l) - k) /\ (k - 1) + (i - (k - 1)) = i
        /\ (i - (k - 1)) + k = i + 1
    BY <1>1
  <2>2. c[i] = b[i - (k - 1)] /\ b[i - (k - 1)] = l[i + 1]
    BY <2>1, <1>2, <1>3, <1>5
  <2> QED
    BY <2>2
<1>8. \A i \in 1..(k - 1) : c[i] = l[i]
  BY <1>2, <1>5
<1> QED
  BY <1>5, <1>6, <1>7, <1>8 DEF a, b, c

\* list_del from a list without repetitions: exactly this entry is gone.
LEMMA DeletedInjective ==
    ASSUME NEW S, NEW l \in Seq(S), IsInjective(l), NEW i \in 1..Len(l)
    PROVE  LET c == SubSeq(l, 1, i - 1) \o SubSeq(l, i + 1, Len(l))
           IN  /\ c \in Seq(S) /\ Len(c) = Len(l) - 1
               /\ l[i] \in S
               /\ Range(c) = Range(l) \ {l[i]}
               /\ IsInjective(c)
<1> DEFINE n == Len(l)
           c == SubSeq(l, 1, i - 1) \o SubSeq(l, i + 1, Len(l))
<1>1. n \in Nat /\ DOMAIN l = 1..n /\ i \in 1..n
  OBVIOUS
<1>2. /\ c \in Seq(S) /\ Len(c) = n - 1
      /\ \A j \in 1..(i - 1) : c[j] = l[j]
      /\ \A j \in i..(n - 1) : c[j] = l[j + 1]
  BY ONLY <1>1, l \in Seq(S), DeletedElements DEF n
<1> HIDE DEF c
<1>3. DOMAIN c = 1..(n - 1)
  BY <1>2
<1>4. \A j \in 1..(n - 1) : \/ j \in 1..(i - 1) /\ c[j] = l[j]
                            \/ j \in i..(n - 1) /\ c[j] = l[j + 1]
  BY <1>1, <1>2
<1>5. \A j, k \in 1..n : l[j] = l[k] => j = k
  BY <1>1 DEF IsInjective
<1>6. \A j \in 1..(n - 1) : c[j] \in Range(l) /\ c[j] # l[i]
  BY <1>1, <1>4, <1>5 DEF Range
<1>7. \A j \in 1..n : j # i => \E k \in 1..(n - 1) : c[k] = l[j]
  <2> SUFFICES ASSUME NEW j \in 1..n, j # i
               PROVE  \E k \in 1..(n - 1) : c[k] = l[j]
    OBVIOUS
  <2>1. CASE j < i
    <3>1. j \in 1..(i - 1) /\ j \in 1..(n - 1)
      BY <1>1, <2>1
    <3> QED
      BY <1>2, <3>1
  <2>2. CASE j > i
    <3>1. j - 1 \in i..(n - 1) /\ j - 1 \in 1..(n - 1) /\ (j - 1) + 1 = j
      BY <1>1, <2>2
    <3>2. c[j - 1] = l[j]
      BY <1>2, <3>1
    <3> QED
      BY <3>1, <3>2
  <2> QED
    BY <1>1, <2>1, <2>2
<1>8. Range(c) = Range(l) \ {l[i]}
  <2>1. Range(c) \subseteq Range(l) \ {l[i]}
    BY <1>3, <1>6 DEF Range
  <2>2. \A x \in Range(l) : x # l[i] => x \in Range(c)
    BY <1>1, <1>3, <1>7 DEF Range
  <2> QED
    BY <2>1, <2>2
<1>9. IsInjective(c)
  <2> SUFFICES ASSUME NEW j \in 1..(n - 1), NEW k \in 1..(n - 1), c[j] = c[k]
               PROVE  j = k
    BY <1>3 DEF IsInjective
  <2>1. CASE j \in 1..(i - 1) /\ k \in 1..(i - 1)
    BY <1>1, <1>2, <1>5, <2>1
  <2>2. CASE j \in i..(n - 1) /\ k \in i..(n - 1)
    <3>1. l[j + 1] = l[k + 1] /\ j + 1 \in 1..n /\ k + 1 \in 1..n
      BY <1>1, <1>2, <2>2
    <3> QED
      BY <1>5, <3>1
  <2>3. CASE j \in 1..(i - 1) /\ k \in i..(n - 1)
    <3>1. l[j] = l[k + 1] /\ j \in 1..n /\ k + 1 \in 1..n /\ j # k + 1
      BY <1>1, <1>2, <2>3
    <3> QED
      BY <1>5, <3>1
  <2>4. CASE j \in i..(n - 1) /\ k \in 1..(i - 1)
    <3>1. l[j + 1] = l[k] /\ j + 1 \in 1..n /\ k \in 1..n /\ k # j + 1
      BY <1>1, <1>2, <2>4
    <3> QED
      BY <1>5, <3>1
  <2> QED
    BY <1>4, <2>1, <2>2, <2>3, <2>4
<1>10. c \in Seq(S) /\ Len(c) = Len(l) - 1 /\ l[i] \in S
  BY <1>1, <1>2
<1> QED
  BY <1>8, <1>9, <1>10, Zenon DEF c

\* list_add: the new element comes first.
LEMMA PrependElements ==
    ASSUME NEW S, NEW l \in Seq(S), NEW x \in S
    PROVE  /\ <<x>> \o l \in Seq(S)
           /\ Range(<<x>> \o l) = Range(l) \cup {x}
           /\ IsInjective(l) /\ x \notin Range(l) => IsInjective(<<x>> \o l)
<1> DEFINE m == <<x>> \o l
<1>1. <<x>> \in Seq(S) /\ Len(<<x>>) = 1 /\ <<x>>[1] = x
  OBVIOUS
<1>2. /\ m \in Seq(S) /\ Len(m) = 1 + Len(l) /\ m[1] = x
      /\ \A i \in 1..Len(l) : m[1 + i] = l[i]
  BY <1>1, JoinedElements
<1> HIDE DEF m
<1>3. Len(l) \in Nat /\ DOMAIN l = 1..Len(l) /\ DOMAIN m = 1..(1 + Len(l))
  BY <1>2
<1>4. /\ 1 \in DOMAIN m
      /\ \A i \in DOMAIN l : 1 + i \in DOMAIN m /\ m[1 + i] = l[i]
  BY <1>2, <1>3
<1>5. \A j \in DOMAIN m : j = 1 \/ \E i \in DOMAIN l : j = 1 + i
  <2> SUFFICES ASSUME NEW j \in DOMAIN m, j # 1
               PROVE  \E i \in DOMAIN l : j = 1 + i
    OBVIOUS
  <2>1. j - 1 \in DOMAIN l /\ j = 1 + (j - 1)
    BY <1>3
  <2> QED
    BY <2>1
<1>6. Range(m) = Range(l) \cup {x}
  <2>1. Range(l) \cup {x} \subseteq Range(m)
    BY <1>2, <1>4 DEF Range
  <2>2. \A j \in DOMAIN m : m[j] \in Range(l) \cup {x}
    BY <1>2, <1>4, <1>5 DEF Range
  <2>3. Range(m) \subseteq Range(l) \cup {x}
    BY <2>2 DEF Range
  <2> QED
    BY <2>1, <2>3
<1>7. ASSUME IsInjective(l), x \notin Range(l)
      PROVE  IsInjective(m)
  <2> SUFFICES ASSUME NEW j \in DOMAIN m, NEW k \in DOMAIN m, m[j] = m[k]
               PROVE  j = k
    BY DEF IsInjective
  <2>1. CASE j = 1 /\ k = 1
    BY <2>1
  <2>2. ASSUME NEW i \in DOMAIN l
        PROVE  m[1 + i] # m[1]
    BY <1>2, <1>4, <1>7 DEF Range
  <2>3. ASSUME NEW i \in DOMAIN l, NEW h \in DOMAIN l, j = 1 + i, k = 1 + h
        PROVE  j = k
    <3>1. l[i] = l[h]
      BY <1>4, <2>3
    <3>2. i = h
      BY <3>1, <1>7, Zenon DEF IsInjective
    <3> QED
      BY <2>3, <3>2
  <2> QED
    BY <1>5, <2>1, <2>2, <2>3
<1> QED
  BY <1>2, <1>6, <1>7 DEF m

\* A set of numbers has a least one.
LEMMA LeastNumber ==
    ASSUME NEW T, T \subseteq Nat, T # {}
    PROVE  \E x \in T : \A y \in T : x <= y
<1> DEFINE R == OpToRel(<, Nat)
<1>1. IsWellFoundedOn(R, Nat)
  BY NatLessThanWellFounded, Zenon
<1>2. \A x, y \in Nat : x < y => <<x, y>> \in R
  BY DEF OpToRel
<1> HIDE DEF R
<1>3. PICK x \in T : \A y \in T : ~ (<<y, x>> \in R)
  BY <1>1, WFMin
<1>4. ASSUME NEW y \in T PROVE x <= y
  <2>1. ~(y < x)
    BY <1>2, <1>3
  <2> QED
    BY <2>1
<1> QED
  BY <1>4
=============================================================================
