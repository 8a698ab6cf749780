---------------------------- MODULE NumberProofs ----------------------------
(* Lemmas that several proofs use: what appending, concatenating and taking *)
(* the first element do to the number of occurrences in a sequence, and     *)
(* what holds of quotients and rests, as slots of a circular index are.     *)
EXTENDS Counts, Integers, FiniteSetTheorems, TLAPS

(* A sequence has finitely many places.                                     *)
LEMMA PlacesFinite ==
  ASSUME NEW S, NEW q \in Seq(S), NEW T
  PROVE  IsFiniteSet(Positions(q, T)) /\ Occurrences(q, T) \in Nat
<1>1. Len(q) \in Nat
  OBVIOUS
<1>2. IsFiniteSet(1 .. Len(q))
  BY <1>1, FS_Interval
<1>3. Positions(q, T) \in SUBSET (1 .. Len(q))
  BY DEF Positions
<1> QED  BY <1>2, <1>3, FS_Subset, FS_CardinalityType DEF Occurrences

(* Nothing occurs in the empty sequence.                                    *)
LEMMA OccEmpty ==
  ASSUME NEW T PROVE Occurrences(<<>>, T) = 0
BY FS_EmptySet DEF Occurrences, Positions

(* An element at the end occurs once more, and nothing else does.           *)
LEMMA OccAppend ==
  ASSUME NEW S, NEW q \in Seq(S), NEW x \in S, NEW T
  PROVE  /\ x \in T => Occurrences(Append(q, x), T) = Occurrences(q, T) + 1
         /\ x \notin T => Occurrences(Append(q, x), T) = Occurrences(q, T)
<1> DEFINE n == Len(q) + 1
<1>1. /\ Len(Append(q, x)) = n
      /\ n \in Nat
      /\ \A i \in 1 .. Len(q) : Append(q, x)[i] = q[i]
      /\ Append(q, x)[n] = x
  OBVIOUS
<1>2. n \notin Positions(q, T)
  BY <1>1 DEF Positions
<1>3. /\ x \in T => Positions(Append(q, x), T) = Positions(q, T) \cup {n}
      /\ x \notin T => Positions(Append(q, x), T) = Positions(q, T)
  BY <1>1 DEF Positions
<1>4. IsFiniteSet(Positions(q, T))
  BY PlacesFinite
<1>5. Cardinality(Positions(q, T) \cup {n}) = Cardinality(Positions(q, T)) + 1
  BY <1>2, <1>4, FS_AddElement
<1> QED  BY <1>3, <1>5 DEF Occurrences

(* Sequences whose elements correspond have as many occurrences.            *)
LEMMA OccSame ==
  ASSUME NEW p, NEW q, NEW S, NEW T, Len(p) = Len(q),
         \A i \in 1 .. Len(p) : p[i] \in S <=> q[i] \in T
  PROVE  Occurrences(p, S) = Occurrences(q, T)
BY DEF Occurrences, Positions

(* Occurrences in a concatenation add up.                                   *)
LEMMA OccConcat ==
  ASSUME NEW S, NEW p \in Seq(S), NEW q \in Seq(S), NEW T
  PROVE  Occurrences(p \o q, T) = Occurrences(p, T) + Occurrences(q, T)
<1> DEFINE n == Len(p)
           shifted == {i \in n + 1 .. n + Len(q) : q[i - n] \in T}
           f == [i \in Positions(q, T) |-> i + n]
<1>1. /\ n \in Nat /\ Len(q) \in Nat
      /\ Len(p \o q) = n + Len(q)
      /\ \A i \in 1 .. n : (p \o q)[i] = p[i]
      /\ \A i \in n + 1 .. n + Len(q) : (p \o q)[i] = q[i - n]
  OBVIOUS
<1>2. Positions(p \o q, T) = Positions(p, T) \cup shifted
  BY <1>1 DEF Positions
<1>3. Positions(p, T) \cap shifted = {}
  BY <1>1 DEF Positions
<1>4. f \in Bijection(Positions(q, T), shifted)
  <2>1. f \in [Positions(q, T) -> shifted]
    BY <1>1 DEF Positions
  <2>2. \A i, j \in Positions(q, T) : f[i] = f[j] => i = j
    BY <1>1 DEF Positions
  <2>3. ASSUME NEW k \in shifted PROVE \E i \in Positions(q, T) : f[i] = k
    <3>1. k - n \in Positions(q, T)
      BY <1>1 DEF Positions
    <3> QED  BY <1>1, <3>1
  <2> QED  BY <2>1, <2>2, <2>3 DEF Bijection, Injection, Surjection, IsInjective
<1>5. IsFiniteSet(shifted) /\ Cardinality(shifted) = Occurrences(q, T)
  BY <1>4, PlacesFinite, FS_Bijection DEF Occurrences, ExistsBijection
<1>6. IsFiniteSet(Positions(p, T)) /\ Occurrences(p, T) \in Nat
  BY PlacesFinite
<1>7. Cardinality(Positions(p, T) \cup shifted) = Cardinality(Positions(p, T)) + Cardinality(shifted) - Cardinality(Positions(p, T) \cap shifted)
  BY <1>5, <1>6, FS_Union
<1>8. Cardinality(Positions(p, T) \cap shifted) = 0
  BY <1>3, FS_EmptySet
<1>9. Occurrences(q, T) \in Nat
  BY PlacesFinite
<1> HIDE DEF shifted
<1> QED  BY <1>2, <1>5, <1>6, <1>7, <1>8, <1>9 DEF Occurrences

(* Taking the first element off takes one occurrence, its own, away.        *)
LEMMA OccHead ==
  ASSUME NEW S, NEW q \in Seq(S), q # <<>>, NEW T
  PROVE  /\ Head(q) \in T => Occurrences(q, T) = Occurrences(Tail(q), T) + 1
         /\ Head(q) \notin T => Occurrences(q, T) = Occurrences(Tail(q), T)
<1>1. q = <<Head(q)>> \o Tail(q) /\ Head(q) \in S /\ Tail(q) \in Seq(S)
  OBVIOUS
<1>2. <<Head(q)>> \in Seq(S)
  BY <1>1
<1>3. /\ Head(q) \in T => Occurrences(<<Head(q)>>, T) = 1
      /\ Head(q) \notin T => Occurrences(<<Head(q)>>, T) = 0
  <2>1. /\ Head(q) \in T => Positions(<<Head(q)>>, T) = {1}
        /\ Head(q) \notin T => Positions(<<Head(q)>>, T) = {}
    BY DEF Positions
  <2> QED  BY <2>1, FS_Singleton, FS_EmptySet DEF Occurrences
<1>4. Occurrences(<<Head(q)>> \o Tail(q), T) = Occurrences(<<Head(q)>>, T) + Occurrences(Tail(q), T)
  BY <1>1, <1>2, OccConcat
<1>5. Occurrences(Tail(q), T) \in Nat
  BY <1>1, PlacesFinite
<1>6. Occurrences(q, T) = Occurrences(<<Head(q)>>, T) + Occurrences(Tail(q), T)
  BY <1>1, <1>4
<1> QED  BY <1>3, <1>5, <1>6

-----------------------------------------------------------------------------
(* Division and rests.                                                      *)
LEMMA Divides ==
  ASSUME NEW a \in Int, NEW m \in Nat \ {0}
  PROVE  /\ a \div m \in Int /\ a % m \in 0..(m - 1)
         /\ a = m * (a \div m) + (a % m)
<1>1. a \div m \in Int /\ a % m \in 0..(m - 1)
  OBVIOUS
<1>2. a % m = a - m * (a \div m)
  BY SMTT(30)
<1> DEFINE q == a \div m
           r == a % m
<1>3. q \in Int /\ r \in 0..(m - 1) /\ r = a - m * q
  BY <1>1, <1>2
<1> HIDE DEF q, r
<1>4. a = m * q + r
  BY <1>3
<1> QED BY <1>3, <1>4 DEF q, r

LEMMA Division ==
  ASSUME NEW a \in Int, NEW m \in Nat \ {0}, NEW q \in Int, NEW r \in 0..(m - 1), a = m * q + r
  PROVE  a % m = r /\ a \div m = q
<1> DEFINE p == a \div m
           s == a % m
<1>1. /\ p \in Int /\ s \in 0..(m - 1) /\ a = m * p + s
  BY Divides
<1> HIDE DEF p, s
<1>2. m * (q - p) = s - r
  BY <1>1
<1>3. q - p < 1
  <2> SUFFICES ASSUME q - p >= 1 PROVE FALSE
    BY <1>1
  <2>1. m * (q - p) >= m
    BY <1>1
  <2> QED BY <2>1, <1>1, <1>2
<1>4. q - p > -1
  <2> SUFFICES ASSUME p - q >= 1 PROVE FALSE
    BY <1>1
  <2>1. m * (p - q) >= m
    BY <1>1
  <2>2. m * (p - q) = r - s
    BY <1>1
  <2> QED BY <2>1, <2>2, <1>1
<1>5. p = q
  BY <1>1, <1>3, <1>4
<1>6. s = r
  BY <1>1, <1>2, <1>5
<1> QED BY <1>5, <1>6 DEF p, s

(* Only the rest of a summand counts.                                       *)
LEMMA AddMultiple ==
  ASSUME NEW a \in Int, NEW m \in Nat \ {0}, NEW k \in Int
  PROVE  (a + m * k) % m = a % m
<1> DEFINE q == a \div m
<1>1. /\ q \in Int /\ a % m \in 0..(m - 1) /\ a = m * q + (a % m)
  BY Divides
<1> HIDE DEF q
<1>2. a + m * k = m * (q + k) + (a % m)
  BY <1>1
<1>3. q + k \in Int /\ a + m * k \in Int
  BY <1>1
<1> QED BY <1>1, <1>2, <1>3, Division

LEMMA SameRest ==
  ASSUME NEW a \in Int, NEW b \in Int, NEW m \in Nat \ {0}, a % m = b % m
  PROVE  \E k \in Int : a = b + m * k
<1> DEFINE p == a \div m
           q == b \div m
<1>1. /\ p \in Int /\ a = m * p + (a % m) /\ a % m \in Int
      /\ q \in Int /\ b = m * q + (b % m)
  BY Divides
<1> HIDE DEF p, q
<1>2. a = b + m * (p - q)
  BY <1>1
<1>3. p - q \in Int
  BY <1>1
<1> WITNESS p - q \in Int
<1> QED BY <1>2

LEMMA RestOfSum ==
  ASSUME NEW a \in Int, NEW b \in Int, NEW m \in Nat \ {0}
  PROVE  ((a % m) + b) % m = (a + b) % m
<1> DEFINE q == a \div m
           r == a % m
<1>1. /\ q \in Int /\ r \in Int /\ a = m * q + r
  BY Divides
<1> HIDE DEF q, r
<1>2. a + b = (r + b) + m * q
  BY <1>1
<1>3. r + b \in Int
  BY <1>1
<1>4. ((r + b) + m * q) % m = (r + b) % m
  BY <1>1, <1>3, AddMultiple
<1>5. (a + b) % m = (r + b) % m
  BY <1>2, <1>4
<1> QED BY <1>5 DEF r

LEMMA SmallRest ==
  ASSUME NEW m \in Nat \ {0}, NEW a \in 0..(m - 1)
  PROVE  a % m = a /\ a \div m = 0
BY Division, a = m * 0 + a

LEMMA RestOfRest ==
  ASSUME NEW a \in Int, NEW m \in Nat \ {0}, NEW c \in Nat \ {0}, m % c = 0
  PROVE  (a % m) % c = a % c
<1> DEFINE q == a \div m
           r == a % m
           j == m \div c
<1>1. /\ q \in Int /\ r \in Int /\ a = m * q + r
      /\ j \in Int /\ m = c * j + (m % c)
  BY Divides
<1> HIDE DEF q, r, j
<1>2. m = c * j
  BY <1>1
<1>3. m * q = c * (j * q)
  BY <1>1, <1>2
<1>4. j * q \in Int
  BY <1>1
<1>5. a = r + c * (j * q)
  BY <1>1, <1>3, <1>4
<1>6. (r + c * (j * q)) % c = r % c
  BY <1>1, <1>4, AddMultiple
<1>7. a % c = r % c
  BY <1>5, <1>6
<1> QED BY <1>7 DEF r

Divisible(w, k) == w % k = 0

LEMMA IntDifference ==
  ASSUME NEW a \in Int, NEW b \in Int, NEW d \in Int
  PROVE  a - (b - d) \in Int /\ a + b \in Int
OBVIOUS

LEMMA Orders ==
  ASSUME NEW x \in Int, NEW y \in Int, NEW z \in Int
  PROVE  /\ x <= x
         /\ x < y /\ y <= z => x < z
         /\ x <= y /\ y < z => x < z
OBVIOUS

LEMMA NatIsInt == \A x \in Nat : x \in Int
OBVIOUS

LEMMA PartOfRange ==
  ASSUME NEW f \in Int, NEW r \in Int, NEW b \in Int, f < r, r <= b
  PROVE  /\ \A k \in Int : k \in f..(b - 1) <=> k \in r..(b - 1) \/ k \in f..(r - 1)
         /\ \A k \in r..(b - 1) : k \in f..(b - 1) /\ k \notin f..(r - 1)
         /\ \A k \in f..(r - 1) : k \in Int /\ k < b /\ k \notin r..(b - 1)
         /\ r = b => r..(b - 1) = {}
         /\ \A h \in Int : b - f < h => b - r < h
         /\ r # b => r < b
OBVIOUS

LEMMA SlotStep ==
  ASSUME NEW x \in Int, NEW m \in Nat \ {0}
  PROVE  ((x % m) + 1) % m = (x + 1) % m /\ ((x % m) - 1) % m = (x - 1) % m
<1> DEFINE one == 1
           less == 0 - 1
<1>0. one \in Int /\ less \in Int
  OBVIOUS
<1> HIDE DEF one, less
<1>1. ((x % m) + one) % m = (x + one) % m
  BY <1>0, RestOfSum
<1>2. ((x % m) + less) % m = (x + less) % m
  BY <1>0, RestOfSum
<1>3. x % m \in Int
  BY Divides
<1>4. (x % m) + less = (x % m) - 1 /\ x + less = x - 1
  BY <1>3 DEF less
<1> QED BY <1>1, <1>2, <1>4 DEF one

LEMMA SlotsDiffer ==
  ASSUME NEW m \in Nat \ {0}, NEW o \in Int, NEW a \in Int,
         NEW x \in (a - m)..(a - 1), NEW y \in (a - m)..(a - 1), (x + o) % m = (y + o) % m
  PROVE  x = y
<1>0. x + o \in Int /\ y + o \in Int
  OBVIOUS
<1>1. PICK k \in Int : x + o = (y + o) + m * k
  BY <1>0, SameRest
<1>2. x - y = m * k /\ x - y < m /\ y - x < m
  BY <1>1
<1>3. CASE k = 0
  BY <1>2, <1>3
<1>4. CASE k > 0
  <2>1. m * k >= m
    BY <1>4
  <2> QED BY <1>2, <2>1
<1>5. CASE k < 0
  <2>1. m * k <= 0 - m
    BY <1>5
  <2> QED BY <1>2, <2>1
<1> QED BY <1>3, <1>4, <1>5

LEMMA SlotReached ==
  ASSUME NEW m \in Nat \ {0}, NEW o \in Int, NEW a \in Int, NEW x \in Int
  PROVE  \E y \in (a - m)..(a - 1) : (y + o) % m = (x + o) % m
<1> DEFINE r == (x - (a - m)) % m
           q == (x - (a - m)) \div m
           y == (a - m) + r
<1>1. q \in Int /\ r \in 0..(m - 1) /\ x - (a - m) = m * q + r
  BY Divides
<1> HIDE DEF r, q
<1>2. y \in (a - m)..(a - 1)
  BY <1>1
<1>3. m * q \in Int
  BY <1>1
<1>4. x + o = (y + o) + m * q
  BY <1>1, <1>3
<1>5. y + o \in Int
  BY <1>1
<1> HIDE DEF y
<1>6. ((y + o) + m * q) % m = (y + o) % m
  BY <1>1, <1>5, AddMultiple
<1> QED BY <1>2, <1>4, <1>6

(* A divisor's slots follow from those of the multiple.                     *)
Congruent(x, y, w) == x % w = y % w

LEMMA SameSlotBelow ==
  ASSUME NEW w \in Nat \ {0}, NEW k \in Nat \ {0}, Divisible(w, k),
         NEW x \in Int, NEW y \in Int, NEW u \in Int, NEW v \in Int,
         Congruent(x, y, w), x - y = u - v
  PROVE  Congruent(u, v, k)
<1>1. x % w = y % w
  BY DEF Congruent
<1>2. PICK i \in Int : x = y + w * i
  BY <1>1, SameRest
<1> DEFINE t == w \div k
<1>3. t \in Int /\ w = k * t + (w % k)
  BY Divides
<1> HIDE DEF t
<1>4. w = k * t
  BY <1>3 DEF Divisible
<1>5. w * i = k * (t * i) /\ t * i \in Int
  BY <1>2, <1>3, <1>4
<1> DEFINE j == t * i
<1>6. u = v + k * j /\ j \in Int
  BY <1>2, <1>5
<1> HIDE DEF j
<1>7. u % k = v % k
  BY <1>6, AddMultiple
<1> QED BY <1>7 DEF Congruent

LEMMA SlotsBelow ==
  ASSUME NEW w \in Nat \ {0}, NEW k \in Nat \ {0}, Divisible(w, k),
         NEW m \in Int, NEW n \in Int, NEW r \in Int, NEW p \in Int,
         Congruent(m + r, n + r, w)
  PROVE  Congruent(m + p, n + p, k)
<1> DEFINE x == m + r
           y == n + r
           u == m + p
           v == n + p
<1>1. x \in Int /\ y \in Int /\ u \in Int /\ v \in Int /\ x - y = u - v /\ Congruent(x, y, w)
  OBVIOUS
<1> HIDE DEF x, y, u, v
<1>2. Congruent(u, v, k)
  BY <1>1, SameSlotBelow
<1> QED BY <1>2 DEF u, v

LEMMA NewSlots ==
  ASSUME NEW m \in Nat \ {0}, NEW a \in Int, NEW n \in Int
  PROVE  /\ n \in (a - m)..(a - 1) => /\ (n + (m - a)) % (2 * m) = n + (m - a)
                                      /\ n + (m - a) \in 0..(m - 1)
         /\ n \in (a - 2 * m)..(a - m - 1) => /\ (n + (m - a)) % (2 * m) = n + (m - a) + 2 * m
                                              /\ n + (m - a) + 2 * m \in m..(2 * m - 1)
<1> DEFINE x == n + (m - a)
           y == n + (m - a) + 2 * m
           w == 2 * m
<1>1. x \in Int /\ y \in Int /\ w \in Nat \ {0}
  OBVIOUS
<1>2. ASSUME n \in (a - m)..(a - 1) PROVE x % w = x /\ x \in 0..(m - 1)
  <2>1. x \in 0..(m - 1) /\ x \in 0..(w - 1)
    BY <1>2
  <2> HIDE DEF x, w
  <2> QED BY <1>1, <2>1, SmallRest
<1>3. ASSUME n \in (a - 2 * m)..(a - m - 1) PROVE x % w = y /\ y \in m..(w - 1)
  <2>1. y \in m..(w - 1) /\ y \in 0..(w - 1) /\ x = w * (0 - 1) + y /\ 0 - 1 \in Int
    BY <1>3
  <2> DEFINE k == 0 - 1
  <2>2. x = w * k + y /\ k \in Int
    BY <2>1
  <2> HIDE DEF x, w, y, k
  <2> QED BY <1>1, <2>1, <2>2, Division
<1> QED BY <1>2, <1>3

LEMMA DivisorOfDouble ==
  ASSUME NEW m \in Nat \ {0}, NEW k \in Nat \ {0}, m % k = 0
  PROVE  (2 * m) % k = 0 /\ (2 * m) % (2 * m) = 0
<1> DEFINE t == m \div k
           w == 2 * m
<1>1. t \in Int /\ m = k * t + (m % k)
  BY Divides
<1> HIDE DEF t
<1>2. m = k * t
  BY <1>1
<1>3. w = k * (2 * t) + 0 /\ 2 * t \in Int /\ w \in Nat \ {0} /\ 0 \in 0..(k - 1)
  BY <1>1, <1>2
<1> DEFINE u == 2 * t
           zero == 0
           one == 1
<1>4. /\ w = w * one + zero /\ w \in Int /\ one \in Int /\ zero \in 0..(w - 1)
      /\ zero \in 0..(k - 1) /\ w = k * u + zero /\ u \in Int /\ w \in Nat \ {0}
  BY <1>3
<1> HIDE DEF w, u, zero, one
<1>6. w % w = zero
  BY <1>4, Division
<1>7. w % k = zero
  BY <1>4, Division
<1>5. w % w = zero /\ w % k = zero
  BY <1>6, <1>7
<1> QED BY <1>5 DEF w, zero
=============================================================================
