----------------------- MODULE ImplicitProducerProofs -----------------------
(* Proofs about the sub-queue of a thread without a token: every block is   *)
(* in one place and every consumer finds the entry of its block, for any    *)
(* number of consumers, blocks, elements and indices, sizes of a block and  *)
(* of the first index, wrap of the indices and failing allocations.         *)
EXTENDS ImplicitProducer, NumberProofs, SequenceTheorems

-----------------------------------------------------------------------------
(* The base index of block number n.                                        *)
RangeOfBases == IndexMod \div BlockSize
BaseOf(n) == Wrap(startIndex + BlockSize * n)

LEMMA Sizes ==
  /\ BlockSize \in Nat \ {0} /\ BlockSize > 1
  /\ IndexMod \in Nat \ {0} /\ IndexMod % BlockSize = 0
  /\ RangeOfBases \in Nat \ {0} /\ IndexMod = BlockSize * RangeOfBases
  /\ IndexMod \div 2 \in Nat /\ IndexMod = 2 * (IndexMod \div 2)
  /\ BlockSize <= IndexMod \div 2
  /\ \E s \in Nat : IndexMod \div 2 = BlockSize * s
<1> DEFINE B == BlockSize
           j == IndexMod \div (2 * B)
<1>1. /\ B \in Nat \ {0} /\ B > 1 /\ IndexMod \in Nat \ {0}
      /\ IndexMod % (2 * B) = 0 /\ 2 * B \in Nat \ {0}
  BY ProducerConstants
<1>2. j \in Int /\ IndexMod = (2 * B) * j + (IndexMod % (2 * B))
  <2> DEFINE m == 2 * B
  <2>1. m \in Nat \ {0} /\ IndexMod \in Int
    BY <1>1
  <2> HIDE DEF m
  <2>2. IndexMod \div m \in Int /\ IndexMod = m * (IndexMod \div m) + (IndexMod % m)
    BY <2>1, Divides
  <2> QED BY <2>2 DEF m
<1> HIDE DEF B, j
<1>3. j \in Int /\ IndexMod = (2 * B) * j
  BY <1>1, <1>2
<1>4. IndexMod = B * (2 * j) /\ IndexMod = 2 * (B * j) /\ B * j \in Int
  BY <1>1, <1>3
<1>5. j > 0
  <2> SUFFICES ASSUME j <= 0 PROVE FALSE
    BY <1>3
  <2>1. B * (0 - j) >= 0
    BY <1>1, <1>3
  <2>2. B * (0 - j) = 0 - (B * j)
    BY <1>1, <1>3
  <2> QED BY <2>1, <2>2, <1>1, <1>4
<1>6. B <= B * j /\ B * j \in Nat
  BY <1>1, <1>3, <1>5
<1>7. IndexMod % B = 0 /\ IndexMod \div B = 2 * j
  <2>1. 2 * j \in Int /\ 0 \in 0..(B - 1) /\ IndexMod = B * (2 * j) + 0
    BY <1>1, <1>3, <1>4
  <2> QED BY <1>1, <2>1, Division
<1>8. IndexMod \div 2 = B * j
  <2>1. 0 \in 0..(2 - 1) /\ IndexMod = 2 * (B * j) + 0
    BY <1>1, <1>4, <1>6
  <2> QED BY <1>1, <1>6, <2>1, Division
<1>9. 2 * j \in Nat \ {0} /\ j \in Nat
  BY <1>3, <1>5
<1>10. \E s \in Nat : B * j = B * s
  BY <1>9
<1> QED BY <1>1, <1>4, <1>6, <1>7, <1>8, <1>9, <1>10 DEF B, RangeOfBases

LEMMA Start ==
  ASSUME load \in Loads
  PROVE  /\ startIndex \in 0..(IndexMod - 1)
         /\ \E s \in Int : startIndex = BlockSize * s
<1>1. startIndex \in 0..(IndexMod - 1) /\ startIndex % BlockSize = 0
  BY ProducerConstants DEF startIndex
<1>2. startIndex \in Int /\ BlockSize \in Nat \ {0}
  BY <1>1, Sizes
<1> DEFINE s == startIndex \div BlockSize
<1>3. s \in Int /\ startIndex = BlockSize * s + (startIndex % BlockSize)
  BY <1>2, Divides
<1> HIDE DEF s
<1>4. startIndex = BlockSize * s
  BY <1>1, <1>2, <1>3
<1> QED BY <1>1, <1>3, <1>4

LEMMA WrapIs ==
  ASSUME NEW x \in Int
  PROVE  /\ Wrap(x) \in 0..(IndexMod - 1) /\ Wrap(x) \in Int
         /\ x \in 0..(IndexMod - 1) => Wrap(x) = x
         /\ \A k \in Int : Wrap(x + IndexMod * k) = Wrap(x)
<1>1. IndexMod \in Nat \ {0}
  BY Sizes
<1>2. Wrap(x) \in 0..(IndexMod - 1)
  BY <1>1, Divides DEF Wrap
<1>3. x \in 0..(IndexMod - 1) => Wrap(x) = x
  BY <1>1, SmallRest DEF Wrap
<1>4. \A k \in Int : Wrap(x + IndexMod * k) = Wrap(x)
  BY <1>1, AddMultiple DEF Wrap
<1> QED BY <1>2, <1>3, <1>4

(* The item of an index, and the index of an item.                          *)
LEMMA ItemIs ==
  ASSUME load \in Loads, NEW x \in Int
  PROVE  Item(Wrap(startIndex + x)) = Wrap(x)
<1>1. startIndex \in Int /\ IndexMod \in Nat \ {0}
  BY Start, Sizes
<1>2. (((startIndex + x) % IndexMod) + (0 - startIndex)) % IndexMod
        = ((startIndex + x) + (0 - startIndex)) % IndexMod
  <2>1. startIndex + x \in Int /\ 0 - startIndex \in Int
    BY <1>1
  <2> QED BY <1>1, <2>1, RestOfSum
<1>3. (startIndex + x) % IndexMod \in Int
  BY <1>1, Divides
<1>4. /\ ((startIndex + x) % IndexMod) + (0 - startIndex) = ((startIndex + x) % IndexMod) - startIndex
      /\ (startIndex + x) + (0 - startIndex) = x
  BY <1>1, <1>3
<1> QED BY <1>2, <1>4 DEF Item, Wrap

LEMMA IndexOfItem ==
  ASSUME load \in Loads, NEW i \in 0..(IndexMod - 1)
  PROVE  /\ Item(i) \in 0..(IndexMod - 1) /\ Item(i) \in Nat
         /\ i = Wrap(startIndex + Item(i))
         /\ \E k \in Int : startIndex + Item(i) = i + IndexMod * k
<1>1. startIndex \in Int /\ IndexMod \in Nat \ {0} /\ i \in Int /\ i - startIndex \in Int
  BY Start, Sizes
<1>2. Item(i) \in 0..(IndexMod - 1)
  BY <1>1, WrapIs DEF Item
<1>3. (i - startIndex) % IndexMod = Item(i)
  BY DEF Item, Wrap
<1> DEFINE q == (i - startIndex) \div IndexMod
<1>4. q \in Int /\ i - startIndex = IndexMod * q + Item(i)
  BY <1>1, <1>3, Divides
<1> HIDE DEF q
<1>5. startIndex + Item(i) = i + IndexMod * (0 - q) /\ 0 - q \in Int
  BY <1>1, <1>2, <1>4
<1>6. Wrap(startIndex + Item(i)) = Wrap(i)
  BY <1>1, <1>5, WrapIs
<1>7. Wrap(i) = i
  BY <1>1, WrapIs
<1> QED BY <1>2, <1>5, <1>6, <1>7

(* The block of an index: the rest of the index by the size of a block is   *)
(* that of the item, for the indices start at a block.                      *)
LEMMA OffsetIs ==
  ASSUME load \in Loads, NEW i \in Int, NEW k \in Int, NEW x \in Int,
         startIndex + x = i + IndexMod * k
  PROVE  /\ BlockOffset(i) = x % BlockSize
         /\ Wrap(BlockBase(i)) = BaseOf(x \div BlockSize)
<1> DEFINE B == BlockSize
           r == x % B
           n == x \div B
<1>1. /\ B \in Nat \ {0} /\ startIndex \in Int /\ IndexMod \in Int /\ RangeOfBases \in Int
      /\ IndexMod = B * RangeOfBases
  BY Sizes, Start
<1>2. /\ n \in Int /\ r \in Int /\ x = B * n + r
  BY <1>1, Divides
<1>3. PICK s \in Int : startIndex = B * s
  BY Start
<1> HIDE DEF B, n, r
<1>4. i % B = x % B
  <2> DEFINE t == s - (RangeOfBases * k)
  <2>1. RangeOfBases * k \in Int
    BY <1>1
  <2>2. t \in Int
    BY <1>3, <2>1
  <2>3. i = (B * s + x) - ((B * RangeOfBases) * k)
    BY <1>1, <1>3
  <2>4. i = x + B * t
    BY <1>1, <1>3, <2>1, <2>3
  <2> HIDE DEF t
  <2>5. (x + B * t) % B = x % B
    BY <1>1, <2>2, AddMultiple
  <2> QED BY <2>4, <2>5
<1>5. BlockOffset(i) = r
  BY <1>4 DEF BlockOffset, B, r
<1>6. BlockBase(i) = (startIndex + B * n) + IndexMod * (0 - k)
  BY <1>1, <1>2, <1>5 DEF BlockBase
<1>7. startIndex + B * n \in Int /\ 0 - k \in Int
  BY <1>1, <1>2
<1>8. Wrap(BlockBase(i)) = Wrap(startIndex + B * n)
  BY <1>6, <1>7, WrapIs
<1> QED BY <1>5, <1>8 DEF BaseOf, B, n, r

LEMMA BlockOfIndex ==
  ASSUME load \in Loads, NEW i \in 0..(IndexMod - 1)
  PROVE  /\ BlockOffset(i) = Item(i) % BlockSize
         /\ BlockBase(i) = BaseOf(Item(i) \div BlockSize)
         /\ BlockBase(i) \in 0..(IndexMod - 1)
<1>1. /\ Item(i) \in Nat /\ IndexMod \in Nat \ {0} /\ i \in Nat /\ BlockSize \in Nat \ {0}
  BY IndexOfItem, Sizes
<1>2. PICK k \in Int : startIndex + Item(i) = i + IndexMod * k
  BY IndexOfItem
<1>3. BlockOffset(i) = Item(i) % BlockSize /\ Wrap(BlockBase(i)) = BaseOf(Item(i) \div BlockSize)
  <2>1. i \in Int /\ Item(i) \in Int
    BY <1>1
  <2> HIDE <1>1
  <2> QED BY <1>2, <2>1, OffsetIs
<1>4. i % BlockSize \in 0..i
  <2> DEFINE q == i \div BlockSize
             r == i % BlockSize
  <2>1. q \in Int /\ r \in 0..(BlockSize - 1) /\ i = BlockSize * q + r
    BY <1>1, Divides
  <2> HIDE DEF q, r
  <2>2. q >= 0
    <3> SUFFICES ASSUME q < 0 PROVE FALSE
      BY <2>1
    <3>1. BlockSize * (q + 1) <= 0
      BY <1>1, <2>1
    <3>2. BlockSize * (q + 1) = BlockSize * q + BlockSize
      BY <1>1, <2>1
    <3> QED BY <1>1, <2>1, <3>1, <3>2
  <2>3. BlockSize * q >= 0
    BY <1>1, <2>1, <2>2
  <2>4. r \in 0..i
    BY <1>1, <2>1, <2>3
  <2> QED BY <2>4 DEF r
<1>5. BlockBase(i) \in 0..(IndexMod - 1)
  BY <1>1, <1>4 DEF BlockBase, BlockOffset
<1>6. Wrap(BlockBase(i)) = BlockBase(i)
  BY <1>5, WrapIs
<1> QED BY <1>3, <1>5, <1>6

LEMMA BaseIs ==
  ASSUME load \in Loads, NEW n \in Int
  PROVE  /\ BaseOf(n) \in 0..(IndexMod - 1) /\ BaseOf(n) \in Nat
         /\ BaseOf(n) # InvalidBlockBase
<1> DEFINE x == startIndex + BlockSize * n
<1>1. /\ BlockSize \in Nat \ {0} /\ startIndex \in Int /\ IndexMod \in Nat \ {0} /\ BlockSize > 1
      /\ IndexMod % BlockSize = 0
  BY Sizes, Start
<1>2. PICK s \in Int : startIndex = BlockSize * s
  BY Start
<1>3. x \in Int /\ x = 0 + BlockSize * (s + n) /\ s + n \in Int
  BY <1>1, <1>2
<1> HIDE DEF x
<1>4. x % BlockSize = 0
  <2>1. (0 + BlockSize * (s + n)) % BlockSize = 0 % BlockSize
    BY <1>1, <1>3, AddMultiple
  <2>2. 0 % BlockSize = 0
    BY <1>1, SmallRest
  <2> QED BY <1>3, <2>1, <2>2
<1>5. (x % IndexMod) % BlockSize = 0
  <2>1. (x % IndexMod) % BlockSize = x % BlockSize
    <3>1. x \in Int /\ BlockSize \in Nat \ {0} /\ IndexMod \in Nat \ {0}
      BY <1>1, <1>3
    <3>2. IndexMod % BlockSize = 0
      BY <1>1
    <3> QED BY <3>1, <3>2, RestOfRest, ZenonT(30)
  <2> QED BY <1>4, <2>1
<1>6. 1 % BlockSize = 1
  BY <1>1, SmallRest
<1>7. Wrap(x) \in 0..(IndexMod - 1)
  BY <1>3, WrapIs
<1>8. Wrap(x) # 1
  BY <1>5, <1>6 DEF Wrap
<1> QED BY <1>1, <1>7, <1>8 DEF BaseOf, x, InvalidBlockBase

(* Two blocks have the same base if they are a whole range apart.           *)
LEMMA BasesDiffer ==
  ASSUME load \in Loads, NEW n \in Int, NEW m \in Int, BaseOf(n) = BaseOf(m)
  PROVE  /\ \E k \in Int : n = m + RangeOfBases * k
         /\ n - m < RangeOfBases /\ m - n < RangeOfBases => n = m
<1> DEFINE B == BlockSize
           Q == RangeOfBases
<1>1. /\ B \in Nat \ {0} /\ startIndex \in Int /\ IndexMod \in Nat \ {0}
      /\ Q \in Nat \ {0} /\ IndexMod = B * Q
  BY Sizes, Start
<1>2. (startIndex + B * n) \in Int /\ (startIndex + B * m) \in Int
  BY <1>1
<1>3. PICK k \in Int : startIndex + B * n = (startIndex + B * m) + IndexMod * k
  BY <1>1, <1>2, SameRest DEF BaseOf, Wrap
<1> HIDE DEF B, Q
<1>4. B * n = B * m + (B * Q) * k
  BY <1>1, <1>3
<1>5. B * (n - (m + Q * k)) = 0
  BY <1>1, <1>4
<1> DEFINE z == n - (m + Q * k)
<1>6. Q * k \in Int
  BY <1>1
<1>7. z \in Int
  BY <1>6
<1>8. B * z = 0
  BY <1>5
<1> HIDE DEF z
<1>9. z = 0
  BY <1>1, <1>7, <1>8
<1>10. n = m + Q * k
  BY <1>6, <1>9 DEF z
<1>11. ASSUME n - m < Q, m - n < Q PROVE n = m
  <2>1. Q * k < Q /\ Q * k > 0 - Q
    BY <1>1, <1>6, <1>10, <1>11
  <2>2. k < 1
    <3> SUFFICES ASSUME k >= 1 PROVE FALSE
      OBVIOUS
    <3>1. Q * k >= Q
      BY <1>1
    <3> QED BY <1>1, <1>6, <2>1, <3>1
  <2>3. k > -1
    <3> SUFFICES ASSUME 0 - k >= 1 PROVE FALSE
      OBVIOUS
    <3>1. Q * (0 - k) >= Q
      BY <1>1
    <3>2. Q * (0 - k) = 0 - (Q * k)
      BY <1>1
    <3> QED BY <1>1, <1>6, <2>1, <3>1, <3>2
  <2>4. k = 0
    BY <2>2, <2>3
  <2>5. Q * k = 0
    BY <1>1, <2>4
  <2> QED BY <1>10, <2>5
<1> QED BY <1>10, <1>11 DEF Q

(* get_block_index_index_for_index: from the entry of block m to block n.   *)
LEMMA SignedIs ==
  ASSUME load \in Loads, NEW n \in Int, NEW m \in Int
  PROVE  \E j \in Int : SignedBlocks(BaseOf(n) - BaseOf(m)) = (n - m) + RangeOfBases * j
<1> DEFINE B == BlockSize
           Q == RangeOfBases
           M == IndexMod
           x == n - m
           y == x % Q
           p == x \div Q
<1>1. /\ B \in Nat \ {0} /\ startIndex \in Int /\ M \in Nat \ {0} /\ Q \in Nat \ {0} /\ M = B * Q
      /\ x \in Int
  BY Sizes, Start
<1>2. y \in 0..(Q - 1) /\ p \in Int /\ x = Q * p + y
  BY <1>1, Divides
<1> DEFINE u == startIndex + B * n
           v == startIndex + B * m
<1>3. u \in Int /\ v \in Int /\ u - v = B * x /\ B * x \in Int
  BY <1>1
<1> DEFINE k == u \div M
           l == v \div M
           a == u % M
           b == v % M
<1>4. /\ k \in Int /\ a \in Int /\ u = M * k + a
      /\ l \in Int /\ b \in Int /\ v = M * l + b
  <2> HIDE DEF u, v, M
  <2>1. u \in Int /\ v \in Int /\ M \in Nat \ {0}
    BY <1>1, <1>3
  <2>2. u \div M \in Int /\ u % M \in Int /\ u = M * (u \div M) + (u % M)
    BY <2>1, Divides
  <2>3. v \div M \in Int /\ v % M \in Int /\ v = M * (v \div M) + (v % M)
    BY <2>1, Divides
  <2> QED BY <2>2, <2>3
<1>5. BaseOf(n) = a /\ BaseOf(m) = b
  BY DEF BaseOf, Wrap
<1> HIDE DEF B, Q, M, x, y, p, u, v, k, l, a, b
<1>6. a - b = B * x + M * (l - k)
  BY <1>1, <1>3, <1>4
<1>7. B * y \in 0..(M - 1)
  <2>1. B * y >= 0
    BY <1>1, <1>2
  <2>2. B * (Q - y) >= B
    <3>1. Q - y >= 1
      BY <1>1, <1>2
    <3> QED BY <3>1, <1>1, <1>2
  <2>3. B * (Q - y) = B * Q - B * y
    BY <1>1, <1>2
  <2> QED BY <1>1, <1>2, <2>1, <2>2, <2>3
<1>8. a - b = M * (p + (l - k)) + B * y
  BY <1>1, <1>2, <1>4, <1>6
<1>9. Wrap(a - b) = B * y
  <2>1. a - b \in Int /\ p + (l - k) \in Int
    BY <1>2, <1>4
  <2>2. (a - b) % M = B * y
    BY <1>1, <1>7, <1>8, <2>1, Division
  <2> QED BY <2>2 DEF Wrap, M
<1>10. ASSUME NEW z \in Int PROVE (B * z) \div B = z
  <2>1. B * z \in Int /\ 0 \in 0..(B - 1) /\ B * z = B * z + 0
    BY <1>1
  <2> QED BY <1>1, <2>1, Division
<1>11. B * y - M = B * (y - Q) /\ y - Q \in Int /\ y \in Int
  BY <1>1, <1>2
<1>12. SignedBlocks(a - b) = y \/ SignedBlocks(a - b) = y - Q
  <2>1. CASE Wrap(a - b) >= IndexMod \div 2
    <3>1. SignedBlocks(a - b) = (B * y - M) \div B
      BY <1>9, <2>1 DEF SignedBlocks, B, M
    <3>2. (B * (y - Q)) \div B = y - Q
      BY <1>10, <1>11
    <3> QED BY <3>1, <3>2, <1>11
  <2>2. CASE ~(Wrap(a - b) >= IndexMod \div 2)
    <3>1. SignedBlocks(a - b) = (B * y) \div B
      BY <1>9, <2>2 DEF SignedBlocks, B
    <3> QED BY <1>10, <1>11, <3>1
  <2> QED BY <2>1, <2>2
<1>13. y = x + Q * (0 - p) /\ y - Q = x + Q * ((0 - p) - 1)
  BY <1>1, <1>2
<1>14. 0 - p \in Int /\ (0 - p) - 1 \in Int
  BY <1>2
<1>15. \E j \in Int : SignedBlocks(a - b) = x + Q * j
  BY <1>12, <1>13, <1>14
<1> QED BY <1>5, <1>15 DEF x, Q

LEMMA SlotFound ==
  ASSUME load \in Loads, NEW n \in Int, NEW m \in Int, NEW o \in Int,
         NEW C \in Nat \ {0}, Divisible(RangeOfBases, C)
  PROVE  (((m + o) % C) + SignedBlocks(BaseOf(n) - BaseOf(m))) % C = (n + o) % C
<1> DEFINE Q == RangeOfBases
           s == SignedBlocks(BaseOf(n) - BaseOf(m))
           t == Q \div C
<1>1. PICK j \in Int : s = (n - m) + Q * j
  BY SignedIs
<1>2. Q \in Nat \ {0}
  BY Sizes
<1>4. Q % C = 0 /\ Q \in Int
  BY <1>2 DEF Divisible
<1>3. t \in Int /\ Q = C * t + (Q % C)
  <2> HIDE DEF Q
  <2>1. Q \div C \in Int /\ Q = C * (Q \div C) + (Q % C)
    BY <1>4, Divides
  <2> QED BY <2>1
<1> HIDE DEF Q, s, t
<1>5. Q = C * t
  BY <1>2, <1>3, <1>4
<1>6. Q * j = C * (t * j) /\ t * j \in Int /\ Q * j \in Int
  BY <1>2, <1>3, <1>5
<1>7. s \in Int /\ m + o \in Int /\ n + o \in Int
  BY <1>1, <1>6
<1>8. (((m + o) % C) + s) % C = ((m + o) + s) % C
  BY <1>7, RestOfSum
<1>9. (m + o) + s = (n + o) + C * (t * j)
  BY <1>1, <1>6, <1>7
<1>10. ((n + o) + C * (t * j)) % C = (n + o) % C
  BY <1>6, <1>7, AddMultiple
<1> QED BY <1>8, <1>9, <1>10 DEF s

(* How many blocks the elements up to the tail have.                        *)
Filled == (Item(tailIndex) + BlockSize - 1) \div BlockSize

LEMMA FirstNewIs ==
  ASSUME load \in Loads, tailIndex \in 0..(IndexMod - 1)
  PROVE  /\ FirstNewBase = BaseOf(Filled) /\ Filled \in Nat
         /\ Item(tailIndex) <= BlockSize * Filled
         /\ BlockSize * Filled < Item(tailIndex) + BlockSize
<1> DEFINE T == Item(tailIndex)
           x == T + BlockSize - 1
           r == x % BlockSize
<1>1. T \in Nat /\ BlockSize \in Nat \ {0} /\ IndexMod \in Nat \ {0} /\ startIndex \in Int
  BY IndexOfItem, Sizes, Start
<1>2. PICK k \in Int : startIndex + T = tailIndex + IndexMod * k
  BY IndexOfItem
<1>3. IndexMod * k \in Int
  BY <1>1
<1>4. startIndex + x = (tailIndex + BlockSize - 1) + IndexMod * k
  BY <1>1, <1>2, <1>3
<1>5. tailIndex + BlockSize - 1 \in Int /\ x \in Int
  BY <1>1
<1>6. FirstNewBase = BaseOf(Filled)
  <2>1. Wrap(BlockBase(tailIndex + BlockSize - 1)) = BaseOf(x \div BlockSize)
    BY <1>4, <1>5, OffsetIs
  <2> QED BY <2>1 DEF FirstNewBase, Filled
<1>7. Filled \in Int /\ r \in 0..(BlockSize - 1) /\ x = BlockSize * Filled + r
  BY <1>1, <1>5, Divides DEF Filled
<1> HIDE DEF r
<1>8. BlockSize * Filled \in Int
  BY <1>1, <1>7
<1>9. T <= BlockSize * Filled /\ BlockSize * Filled < T + BlockSize
  BY <1>1, <1>7, <1>8
<1>10. Filled >= 0
  <2> SUFFICES ASSUME Filled <= -1 PROVE FALSE
    BY <1>7
  <2>1. BlockSize * (0 - Filled) >= BlockSize
    BY <1>1, <1>7
  <2>2. BlockSize * (0 - Filled) = 0 - BlockSize * Filled
    BY <1>1, <1>7
  <2> QED BY <1>1, <1>8, <1>9, <2>1, <2>2
<1> QED BY <1>6, <1>7, <1>9, <1>10

-----------------------------------------------------------------------------
(* The claim of a consumer: the first element of it, what is behind it, the *)
(* block of the first, and how far the claim goes in this block.            *)
First(c) == Item(dq[c].index)
Beyond(c) == Item(dq[c].end)
Number(c) == First(c) \div BlockSize
Stop(c) == Least(Beyond(c), BlockSize * (Number(c) + 1))

LEMMA SegmentIs ==
  ASSUME load \in Loads, NEW c \in Consumers,
         dq[c].index \in 0..(IndexMod - 1), dq[c].end \in 0..(IndexMod - 1),
         First(c) < Beyond(c), Beyond(c) - First(c) < IndexMod \div 2
  PROVE  /\ SegmentEnd(c) \in 0..(IndexMod - 1)
         /\ Item(SegmentEnd(c)) = Stop(c)
         /\ SegmentSize(c) = Stop(c) - First(c)
         /\ SegmentEnd(c) = dq[c].end <=> Stop(c) = Beyond(c)
         /\ First(c) < Stop(c) /\ Stop(c) <= Beyond(c)
         /\ Number(c) \in Nat /\ BlockSize * Number(c) <= First(c)
         /\ Stop(c) <= BlockSize * Number(c) + BlockSize
         /\ Stop(c) # Beyond(c) => Stop(c) = BlockSize * Number(c) + BlockSize
<1> DEFINE B == BlockSize
           M == IndexMod
           S == startIndex
           i == dq[c].index
           e == dq[c].end
           f == First(c)
           b == Beyond(c)
           n == Number(c)
           z == SegmentEnd(c)
<1>1. /\ B \in Nat \ {0} /\ M \in Nat \ {0} /\ S \in Int /\ M \div 2 \in Nat /\ M = 2 * (M \div 2)
      /\ B <= M \div 2
  BY Sizes, Start
<1>2. /\ f \in 0..(M - 1) /\ b \in 0..(M - 1) /\ i \in 0..(M - 1) /\ e \in 0..(M - 1)
      /\ i = Wrap(S + f) /\ e = Wrap(S + b)
  BY IndexOfItem DEF First, Beyond
<1>3. PICK k \in Int : S + f = i + M * k
  BY IndexOfItem DEF First
<1>4. PICK l \in Int : S + b = e + M * l
  BY IndexOfItem DEF Beyond
<1>5. f \in Int /\ b \in Int /\ i \in Int /\ e \in Int /\ M * k \in Int /\ M * l \in Int
  BY <1>1, <1>2
<1>6. f < b /\ b - f < M \div 2
  OBVIOUS
<1>7. /\ n \in Int /\ B * n \in Int /\ B * n <= f /\ f < B * n + B
  <2> DEFINE r == f % B
  <2>1. n \in Int /\ r \in 0..(B - 1) /\ f = B * n + r
    BY <1>1, <1>5, Divides DEF Number
  <2> HIDE DEF r, n, f, B
  <2>2. B * n \in Int
    BY <1>1, <2>1
  <2> QED BY <1>1, <2>1, <2>2
<1>8. BlockBase(i) = BaseOf(n) /\ BlockBase(i) \in 0..(M - 1)
  BY <1>2, BlockOfIndex DEF Number, First
<1>9. BaseOf(n) = Wrap(S + B * n)
  BY DEF BaseOf
<1> DEFINE stop == Wrap(BlockBase(i) + B)
           y == b - (B * n + B)
<1>10. Stop(c) = IF b < B * n + B THEN b ELSE B * n + B
  BY <1>1, <1>7 DEF Stop, Least
<1>11. z = IF CircularLessThan(e, stop) THEN e ELSE stop
  BY DEF SegmentEnd
<1>12. \E j \in Int : S + (B * n + B) = stop + M * j
  <2>1. PICK j1 \in Int : S + B * n = BaseOf(n) + M * j1
    <3> DEFINE x == S + B * n
               q == x \div M
    <3>1. x \in Int
      BY <1>1, <1>7
    <3>2. q \in Int /\ x = M * q + (x % M)
      BY <1>1, <3>1, Divides
    <3>3. x % M = BaseOf(n)
      BY DEF BaseOf, Wrap
    <3> HIDE DEF x, q
    <3>4. M * q \in Int /\ BaseOf(n) \in Int
      BY <1>1, <1>8, <3>2
    <3>5. x = BaseOf(n) + M * q
      BY <3>2, <3>3, <3>4
    <3> QED BY <3>2, <3>5 DEF x
  <2> DEFINE w == BaseOf(n) + B
             q == w \div M
  <2>2. w \in Int
    BY <1>1, <1>8
  <2>3. q \in Int /\ w = M * q + (w % M)
    BY <1>1, <2>2, Divides
  <2>4. w % M = stop
    BY <1>8 DEF Wrap
  <2>5. M * q \in Int /\ M * j1 \in Int /\ stop \in Int /\ M * (j1 + q) = M * j1 + M * q
    <3> HIDE DEF q, w
    <3>1. q \in Int
      BY <2>3
    <3>2. stop \in Int
      BY <1>1, <1>8, WrapIs
    <3> QED BY <1>1, <3>1, <3>2
  <2>6. S + (B * n + B) = stop + M * (j1 + q)
    <3> HIDE DEF q, stop, B, n, S
    <3> QED BY <1>1, <1>7, <1>8, <2>1, <2>2, <2>3, <2>4, <2>5
  <2>7. j1 + q \in Int
    BY <2>3
  <2> QED BY <2>6, <2>7
<1>13. PICK j \in Int : S + (B * n + B) = stop + M * j
  BY <1>12
<1>14. stop \in 0..(M - 1) /\ M * j \in Int
  BY <1>1, <1>8, WrapIs
<1>15. y \in Int /\ y > 0 - M \div 2 /\ y < M \div 2
  BY <1>1, <1>5, <1>6, <1>7
<1>16. e - stop = y + M * (j - l)
  <2> HIDE DEF y, stop, S, B, n, b, e, M
  <2>1. M * (j - l) = M * j - M * l
    BY <1>1
  <2> QED BY <1>1, <1>4, <1>5, <1>7, <1>13, <1>14, <2>1 DEF y
<1>17. Wrap(e - stop) = Wrap(y)
  BY <1>15, <1>16, WrapIs
<1>18. CircularLessThan(e, stop) <=> y < 0
  <2>1. CASE y >= 0
    <3>1. Wrap(y) = y
      BY <1>1, <1>15, <2>1, WrapIs
    <3> QED BY <1>1, <1>15, <1>17, <2>1, <3>1 DEF CircularLessThan
  <2>2. CASE y < 0
    <3>1. y + M * 1 = y + M /\ y + M \in 0..(M - 1)
      BY <1>1, <1>15, <2>2
    <3>2. Wrap(y + M * 1) = Wrap(y)
      BY <1>15, WrapIs
    <3>3. Wrap(y + M) = y + M
      BY <3>1, WrapIs
    <3>4. Wrap(y) = y + M
      BY <3>1, <3>2, <3>3
    <3> QED BY <1>1, <1>15, <1>17, <2>2, <3>4 DEF CircularLessThan
  <2> QED BY <1>15, <2>1, <2>2
<1> DEFINE before == CircularLessThan(e, stop)
<1> HIDE DEF before, y, stop
<1>26. b = y + (B * n + B)
  <2>1. y = b - (B * n + B)
    BY DEF y
  <2> HIDE DEF b, n, B
  <2> QED BY <1>1, <1>5, <1>7, <2>1
<1>27. z = IF before THEN e ELSE stop
  BY <1>11 DEF before
<1>28. before <=> y < 0
  BY <1>18 DEF before
<1>19. n \in Nat
  <2> SUFFICES ASSUME n <= -1 PROVE FALSE
    BY <1>7
  <2> HIDE DEF n, B, f
  <2>1. B * (0 - n) >= B /\ B * (0 - n) = 0 - B * n
    BY <1>1, <1>7
  <2> QED BY <1>1, <1>2, <1>7, <2>1
<1> DEFINE t == Stop(c)
<1>20. /\ t \in Int /\ f < t /\ t <= b /\ t <= B * n + B
       /\ t # b => t = B * n + B
  BY <1>1, <1>5, <1>6, <1>7, <1>10
<1>21. z \in 0..(M - 1) /\ (\E g \in Int : S + t = z + M * g) /\ (z = e <=> t = b)
  <2>1. CASE y < 0
    <3>1. t = b /\ z = e
      <4> HIDE DEF t, z, b, n, e, B, M
      <4>1. z = e
        BY <1>27, <1>28, <2>1
      <4>2. b < B * n + B
        BY <1>7, <1>26, <1>1, <1>15, <2>1
      <4>3. t = IF b < B * n + B THEN b ELSE B * n + B
        BY <1>10 DEF t
      <4> QED BY <4>1, <4>2, <4>3
    <3> QED BY <1>2, <1>4, <3>1
  <2>2. CASE y >= 0
    <3>1. t = B * n + B /\ z = stop
      <4> HIDE DEF t, z, b, n, e, B, M
      <4>1. z = stop
        BY <1>27, <1>28, <1>15, <2>2
      <4>2. ~(b < B * n + B)
        BY <1>7, <1>26, <1>1, <1>15, <2>2
      <4>3. t = IF b < B * n + B THEN b ELSE B * n + B
        BY <1>10 DEF t
      <4> QED BY <4>1, <4>2, <4>3
    <3>4. z = stop /\ t = b - y
      <4> HIDE DEF t, z, b, n, e, B, M
      <4> QED BY <1>5, <1>7, <1>1, <1>15, <1>26, <3>1
    <3>2. z = e => t = b
      <4> SUFFICES ASSUME stop = e PROVE y = 0
        <5> HIDE DEF t, z, b, n, e, B, M
        <5> QED BY <1>5, <1>15, <3>4
      <4>1. Wrap(y) = y
        BY <1>1, <1>15, <2>2, WrapIs
      <4>2. e - stop = 0
        BY <1>5
      <4>3. Wrap(0) = 0
        BY <1>1, WrapIs
      <4> QED BY <1>17, <4>1, <4>2, <4>3
    <3>3. t = b => z = e
      <4> SUFFICES ASSUME y = 0 PROVE stop = e
        <5> HIDE DEF t, z, b, n, e, B, M
        <5> QED BY <1>5, <1>15, <3>4
      <4>1. S + (B * n + B) = S + b
        <5> HIDE DEF t, z, b, n, e, B, M, S
        <5> QED BY <1>5, <1>7, <1>1, <1>26
      <4>2. stop + M * j = e + M * l
        BY <1>4, <1>13, <4>1
      <4>3. Wrap(stop + M * j) = stop /\ Wrap(e + M * l) = e
        <5>1. stop \in Int
          BY <1>14
        <5>2. Wrap(stop + M * j) = Wrap(stop) /\ Wrap(e + M * l) = Wrap(e)
          BY <1>5, <5>1, WrapIs
        <5> QED BY <1>2, <1>5, <1>14, <5>1, <5>2, WrapIs
      <4> QED BY <4>2, <4>3
    <3> QED BY <1>13, <1>14, <3>1, <3>2, <3>3
  <2> QED BY <1>15, <2>1, <2>2
<1>22. PICK g \in Int : S + t = z + M * g
  BY <1>21
<1>23. M * g \in Int /\ z \in Int
  BY <1>1, <1>21
<1> HIDE DEF t, z, f, b, n, e, i, stop, y, S, M, B
<1>24. Item(z) = t
  <2>1. t \in 0..(M - 1)
    BY <1>1, <1>2, <1>5, <1>20
  <2>2. z = Wrap(S + t)
    <3>1. Wrap(z + M * g) = Wrap(z)
      BY <1>23, WrapIs DEF M
    <3>2. Wrap(z) = z
      BY <1>21, <1>23, WrapIs DEF M
    <3> QED BY <1>22, <3>1, <3>2
  <2>3. Item(Wrap(S + t)) = Wrap(t)
    BY <1>20, ItemIs DEF S
  <2>4. Wrap(t) = t
    BY <1>20, <2>1, WrapIs DEF M
  <2> QED BY <2>2, <2>3, <2>4
<1>25. Wrap(z - i) = t - f
  <2>1. z - i = (t - f) + M * (k - g)
    <3>1. M * (k - g) = M * k - M * g
      BY <1>1
    <3> QED BY <1>1, <1>3, <1>5, <1>20, <1>22, <1>23, <3>1
  <2>2. t - f \in 0..(M - 1) /\ t - f \in Int
    BY <1>1, <1>2, <1>5, <1>20
  <2>3. k - g \in Int
    OBVIOUS
  <2>4. Wrap((t - f) + M * (k - g)) = Wrap(t - f)
    BY <2>2, <2>3, WrapIs DEF M
  <2> QED BY <2>1, <2>2, <2>4, WrapIs DEF M
<1> QED BY <1>7, <1>19, <1>20, <1>21, <1>24, <1>25 DEF t, z, f, b, n, e, i, M, B, SegmentSize

-----------------------------------------------------------------------------
(* Where consumers and the producer are.                                    *)
Claiming == {"idle", "load overcommit", "load optimistic", "claim", "reload tail", "give back",
             "take"}
Holding == {"load index", "load index tail", "load tail base", "load block", "move out",
            "set empty"}
Leaving == {"clear entry", "free block"}

DqLocals(U) == [tail : Int, overcommit : Int, count : Int, mine : Int, surplus : Int,
              index : Int, end : Int, header : U, slot : U, block : U]

ClaimTypes ==
  /\ isExplicit = FALSE /\ load \in Loads
  /\ tailIndex \in 0..(IndexMod - 1) /\ headIndex \in 0..(IndexMod - 1)
  /\ dequeueOptimisticCount \in Int /\ dequeueOvercommit \in Int
  /\ dqAt \in [Consumers -> Claiming \union Holding \union Leaving]
  /\ \E U : dq \in [Consumers -> DqLocals(U)]

(* What a consumer has taken and not yet counted as dequeued.               *)
Pending(c) ==
  IF dqAt[c] \in Holding THEN First(c)..(Beyond(c) - 1)
  ELSE IF dqAt[c] \in Leaving THEN Stop(c)..(Beyond(c) - 1) ELSE {}
Done(k) == k < Item(headIndex) /\ \A c \in Consumers : k \notin Pending(c)

HalfRange == IndexMod \div 2
Counted(c) ==
  /\ dqAt[c] \in {"load overcommit", "load optimistic"} => dq[c].count > 0
  /\ dqAt[c] \in {"claim", "reload tail", "take"} => dq[c].count \in 1..(HalfRange - 1)
  /\ dqAt[c] = "give back" => dq[c].count \in 0..(HalfRange - 1)
Ranged(c) ==
  dqAt[c] \in Holding \union Leaving =>
    /\ dq[c].index \in 0..(IndexMod - 1) /\ dq[c].end \in 0..(IndexMod - 1)
    /\ First(c) < Beyond(c) /\ Beyond(c) <= Item(headIndex)
    /\ Beyond(c) - First(c) < HalfRange

ClaimInv ==
  /\ ClaimTypes
  /\ Item(headIndex) <= Item(tailIndex) /\ Item(tailIndex) <= load.items
  /\ enqAt # "idle" => enq.count > 0 /\ Item(tailIndex) + enq.count <= load.items
  /\ \A c \in Consumers : Counted(c) /\ Ranged(c)
  /\ \A c, e \in Consumers : c # e => \A k \in Pending(c) : k \notin Pending(e)

LEMMA LocalsGrow ==
  ASSUME NEW U, NEW V, NEW x \in DqLocals(U) PROVE x \in DqLocals(U \union V) /\ x \in DqLocals(V \union U)
BY DEF DqLocals

LEMMA DqGoes ==
  ASSUME NEW U, NEW V, NEW c \in Consumers, NEW at \in Claiming \union Holding \union Leaving,
         NEW local \in DqLocals(V),
         dqAt \in [Consumers -> Claiming \union Holding \union Leaving],
         dq \in [Consumers -> DqLocals(U)], DqGoto(c, at, local)
  PROVE  /\ dqAt' \in [Consumers -> Claiming \union Holding \union Leaving]
         /\ \E W : dq' \in [Consumers -> DqLocals(W)]
         /\ dqAt'[c] = at /\ dq'[c] = local
         /\ \A e \in Consumers : e # c => dqAt'[e] = dqAt[e] /\ dq'[e] = dq[e]
<1>1. dqAt' \in [Consumers -> Claiming \union Holding \union Leaving]
  BY DEF DqGoto
<1>2. dq' \in [Consumers -> DqLocals(U \union V)]
  <2>1. local \in DqLocals(U \union V)
    BY LocalsGrow
  <2>2. \A e \in Consumers : dq[e] \in DqLocals(U \union V)
    BY LocalsGrow
  <2>3. dq' = [dq EXCEPT ![c] = local]
    BY DEF DqGoto
  <2> QED BY <2>1, <2>2, <2>3
<1>3. dqAt'[c] = at /\ dq'[c] = local
  BY DEF DqGoto
<1>4. \A e \in Consumers : e # c => dqAt'[e] = dqAt[e] /\ dq'[e] = dq[e]
  BY DEF DqGoto
<1>5. \E W : dq' \in [Consumers -> DqLocals(W)]
  BY <1>2
<1> QED BY <1>1, <1>3, <1>4, <1>5

LEMMA NoDequeueIs ==
  /\ NoDequeue \in DqLocals({0, NoBlock})
  /\ NoDequeue.count = 0 /\ NoDequeue.index = 0 /\ NoDequeue.end = 0
BY DEF NoDequeue, DqLocals

(* A step of one consumer, whose claim becomes `mine`.                      *)
LEMMA ClaimSteps ==
  ASSUME ClaimInv, NEW c \in Consumers, UNCHANGED <<tailIndex, isExplicit, load, enqAt, enq>>,
         ClaimTypes', Item(headIndex) <= Item(headIndex'), Item(headIndex') <= Item(tailIndex),
         \A e \in Consumers : e # c => dqAt'[e] = dqAt[e] /\ dq'[e] = dq[e],
         Counted(c)', Ranged(c)',
         \A k \in Pending(c)' : k \in Pending(c) \/ k >= Item(headIndex)
  PROVE  ClaimInv'
<1>1. \A i : Item(i)' = Item(i')
  BY DEF Item, startIndex
<1>2. /\ Item(headIndex)' <= Item(tailIndex)' /\ Item(tailIndex)' <= load'.items
      /\ (enqAt # "idle" => enq.count > 0 /\ Item(tailIndex) + enq.count <= load.items)'
  BY DEF ClaimInv, Item, startIndex
<1>3. \A e \in Consumers : e # c => First(e)' = First(e) /\ Beyond(e)' = Beyond(e) /\ Stop(e)' = Stop(e)
  BY DEF First, Beyond, Stop, Number, Item, startIndex
<1>4. \A e \in Consumers : e # c => Pending(e)' = Pending(e)
  BY <1>3 DEF Pending
<1>5. \A e \in Consumers : e # c => Counted(e)'
  BY DEF ClaimInv, Counted
<1>6. ASSUME NEW e \in Consumers, e # c PROVE Ranged(e)'
  <2>1. Item(headIndex)' = Item(headIndex')
    BY DEF Item, startIndex
  <2>2. Ranged(e) /\ dqAt'[e] = dqAt[e] /\ dq'[e] = dq[e] /\ First(e)' = First(e) /\ Beyond(e)' = Beyond(e)
    BY <1>3, <1>6 DEF ClaimInv
  <2>3. Item(headIndex) \in Int /\ Item(headIndex') \in Int
    BY IndexOfItem DEF ClaimInv, ClaimTypes, Item, startIndex
  <2>4. SUFFICES ASSUME dqAt[e] \in Holding \union Leaving
        PROVE  /\ dq[e].index \in 0..(IndexMod - 1) /\ dq[e].end \in 0..(IndexMod - 1)
               /\ First(e) < Beyond(e) /\ Beyond(e) <= Item(headIndex')
               /\ Beyond(e) - First(e) < HalfRange
    BY <2>1, <2>2 DEF Ranged
  <2>5. Beyond(e) \in Int
    BY <2>2, <2>4, IndexOfItem DEF Ranged, Beyond, ClaimInv, ClaimTypes
  <2> QED BY <2>2, <2>3, <2>4, <2>5 DEF Ranged
<1>7. ASSUME NEW e \in Consumers, e # c, NEW k \in Pending(c)', k \in Pending(e)' PROVE FALSE
  <2>1. k \in Pending(e)
    BY <1>4, <1>7
  <2>2. k \in Pending(c) \/ k >= Item(headIndex)
    OBVIOUS
  <2>3. k \notin Pending(c)
    BY <2>1, <1>7 DEF ClaimInv
  <2>4. k < Item(headIndex)
    <3>1. Ranged(e) /\ dqAt[e] \in Holding \union Leaving
      BY <2>1 DEF ClaimInv, Pending
    <3>2. Beyond(e) \in Int /\ Item(headIndex) \in Int /\ Beyond(e) <= Item(headIndex)
      BY <3>1, IndexOfItem DEF Ranged, Beyond, ClaimInv, ClaimTypes
    <3>3. k \in Int /\ k <= Beyond(e) - 1
      <4>1. k \in First(e)..(Beyond(e) - 1) \/ k \in Stop(e)..(Beyond(e) - 1)
        BY <2>1 DEF Pending
      <4> QED BY <4>1
    <3> QED BY <3>2, <3>3
  <2>5. Item(headIndex) \in Int /\ k \in Int
    <3>1. Item(headIndex) \in Int
      BY IndexOfItem DEF ClaimInv, ClaimTypes
    <3>2. k \in First(e)..(Beyond(e) - 1) \/ k \in Stop(e)..(Beyond(e) - 1)
      BY <2>1 DEF Pending
    <3> QED BY <3>1, <3>2
  <2> QED BY <2>2, <2>3, <2>4, <2>5
<1>8. \A e \in Consumers : Counted(e)' /\ Ranged(e)'
  BY <1>5, <1>6
<1>9. \A e, g \in Consumers : e # g => \A k \in Pending(e)' : k \notin Pending(g)'
  <2> SUFFICES ASSUME NEW e \in Consumers, NEW g \in Consumers, e # g,
                      NEW k \in Pending(e)', k \in Pending(g)'
               PROVE FALSE
    OBVIOUS
  <2>1. CASE e = c
    BY <2>1, <1>7
  <2>2. CASE g = c
    BY <2>2, <1>7
  <2>3. CASE e # c /\ g # c
    BY <2>3, <1>4 DEF ClaimInv
  <2> QED BY <2>1, <2>2, <2>3
<1> QED BY <1>2, <1>8, <1>9 DEF ClaimInv

CountedAs(at, local) ==
  /\ at \in {"load overcommit", "load optimistic"} => local.count > 0
  /\ at \in {"claim", "reload tail", "take"} => local.count \in 1..(HalfRange - 1)
  /\ at = "give back" => local.count \in 0..(HalfRange - 1)

LEMMA LocalsSet ==
  ASSUME NEW U, NEW x \in DqLocals(U), NEW y, NEW m \in Int
  PROVE  /\ y = [x EXCEPT !.tail = m] => y \in DqLocals(U) /\ y.count = x.count
         /\ y = [x EXCEPT !.surplus = m] => y \in DqLocals(U) /\ y.count = x.count
         /\ y = [x EXCEPT !.count = m] => y \in DqLocals(U) /\ y.count = m
<1>1. y = [x EXCEPT !.tail = m] => y \in DqLocals(U) /\ y.count = x.count
  BY DEF DqLocals
<1>2. y = [x EXCEPT !.surplus = m] => y \in DqLocals(U) /\ y.count = x.count
  BY DEF DqLocals
<1>3. y = [x EXCEPT !.count = m] => y \in DqLocals(U) /\ y.count = m
  BY DEF DqLocals
<1> QED BY <1>1, <1>2, <1>3

(* A step of a consumer that has no elements yet.                           *)
LEMMA StaysClaiming ==
  ASSUME ClaimInv, NEW c \in Consumers, NEW at \in Claiming, NEW V, NEW local \in DqLocals(V),
         DqGoto(c, at, local), CountedAs(at, local),
         UNCHANGED <<tailIndex, headIndex, isExplicit, load, enqAt, enq>>,
         dequeueOptimisticCount' \in Int, dequeueOvercommit' \in Int
  PROVE  ClaimInv'
<1>1. PICK U : dq \in [Consumers -> DqLocals(U)]
  BY DEF ClaimInv, ClaimTypes
<1>2. dqAt \in [Consumers -> Claiming \union Holding \union Leaving]
  BY DEF ClaimInv, ClaimTypes
<1>3. at \in Claiming \union Holding \union Leaving
  OBVIOUS
<1>4. /\ dqAt' \in [Consumers -> Claiming \union Holding \union Leaving]
      /\ \E W : dq' \in [Consumers -> DqLocals(W)]
      /\ dqAt'[c] = at /\ dq'[c] = local
      /\ \A e \in Consumers : e # c => dqAt'[e] = dqAt[e] /\ dq'[e] = dq[e]
  BY <1>1, <1>2, <1>3, DqGoes
<1>5. ClaimTypes'
  BY <1>4 DEF ClaimTypes, ClaimInv
<1>6. dqAt'[c] \notin Holding /\ dqAt'[c] \notin Leaving
  BY <1>4 DEF Claiming, Holding, Leaving
<1>7. Counted(c)' /\ Ranged(c)' /\ Pending(c)' = {}
  BY <1>4, <1>6 DEF Counted, CountedAs, Ranged, Pending, HalfRange
<1>8. Item(headIndex) <= Item(headIndex') /\ Item(headIndex') <= Item(tailIndex)
  <2>1. Item(headIndex) \in Int
    BY IndexOfItem DEF ClaimInv, ClaimTypes
  <2> QED BY <2>1 DEF ClaimInv
<1> QED BY <1>4, <1>5, <1>7, <1>8, ClaimSteps

(* The signed comparison with zero.                                         *)
LEMMA PositiveIs ==
  ASSUME NEW x \in Int
  PROVE  CircularLessThan(0, Wrap(x)) => Wrap(x) \in 1..(HalfRange - 1)
<1> DEFINE y == Wrap(x)
<1>1. /\ y \in 0..(IndexMod - 1) /\ IndexMod \in Nat \ {0} /\ HalfRange \in Nat
      /\ IndexMod = 2 * HalfRange
  BY WrapIs, Sizes DEF HalfRange
<1> HIDE DEF y
<1>2. SUFFICES ASSUME Wrap(0 - y) > HalfRange PROVE y \in 1..(HalfRange - 1)
  BY DEF CircularLessThan, HalfRange, y
<1>3. CASE y = 0
  <2>1. Wrap(0) = 0
    BY <1>1, WrapIs
  <2> QED BY <1>1, <1>2, <1>3, <2>1
<1>4. CASE y # 0
  <2>1. (0 - y) + IndexMod * 1 = IndexMod - y /\ IndexMod - y \in 0..(IndexMod - 1) /\ 0 - y \in Int
        /\ IndexMod - y \in Int
    BY <1>1, <1>4
  <2>2. Wrap((0 - y) + IndexMod * 1) = Wrap(0 - y)
    BY <2>1, WrapIs
  <2>3. Wrap(IndexMod - y) = IndexMod - y
    BY <2>1, WrapIs
  <2>4. IndexMod - y > HalfRange
    BY <1>2, <2>1, <2>2, <2>3
  <2> QED BY <1>1, <1>4, <2>4
<1> QED BY <1>3, <1>4

LEMMA LoadsGood ==
  ASSUME load \in Loads, NEW max \in load.bulk PROVE max \in Nat \ {0}
BY ProducerConstants

LEMMA LoadTailClaims ==
  ASSUME ClaimInv, NEW c \in Consumers, LoadTail(c), UNCHANGED <<isExplicit, load, enqAt, enq>>
  PROVE  ClaimInv'
<1>1. PICK max \in load.bulk :
        DqGoto(c, "load overcommit", [NoDequeue EXCEPT !.tail = tailIndex, !.count = max])
  BY DEF LoadTail
<1>2. max \in Nat \ {0} /\ tailIndex \in Int
  BY LoadsGood DEF ClaimInv, ClaimTypes
<1> DEFINE local == [NoDequeue EXCEPT !.tail = tailIndex, !.count = max]
<1>3. local \in DqLocals({0, NoBlock}) /\ local.count = max
  <2>1. max \in Int
    BY <1>2
  <2> DEFINE x == [NoDequeue EXCEPT !.tail = tailIndex]
  <2>2. local = [x EXCEPT !.count = max]
    OBVIOUS
  <2>3. x = [NoDequeue EXCEPT !.tail = tailIndex]
    OBVIOUS
  <2> HIDE DEF x, local
  <2>4. x \in DqLocals({0, NoBlock})
    BY <1>2, <2>3, NoDequeueIs, LocalsSet
  <2> QED BY <2>1, <2>2, <2>4, LocalsSet
<1> HIDE DEF local
<1>4. CountedAs("load overcommit", local)
  BY <1>2, <1>3 DEF CountedAs
<1>5. DqGoto(c, "load overcommit", local) /\ "load overcommit" \in Claiming
  BY <1>1 DEF local, Claiming
<1>6. /\ UNCHANGED <<tailIndex, headIndex, dequeueOptimisticCount, dequeueOvercommit>>
      /\ dequeueOptimisticCount \in Int /\ dequeueOvercommit \in Int
  BY DEF LoadTail, counterVars, ClaimInv, ClaimTypes
<1> QED BY <1>3, <1>4, <1>5, <1>6, StaysClaiming

LEMMA LoadOvercommitClaims ==
  ASSUME ClaimInv, NEW c \in Consumers, LoadOvercommit(c), UNCHANGED <<isExplicit, load, enqAt, enq>>
  PROVE  ClaimInv'
<1>1. PICK U : dq \in [Consumers -> DqLocals(U)]
  BY DEF ClaimInv, ClaimTypes
<1>2. Counted(c) /\ dequeueOvercommit \in Int
  BY DEF ClaimInv, ClaimTypes
<1> DEFINE local == [dq[c] EXCEPT !.overcommit = dequeueOvercommit]
<1>3. local \in DqLocals(U) /\ local.count = dq[c].count
  BY <1>1, <1>2 DEF DqLocals
<1> HIDE DEF local
<1>4. CountedAs("load optimistic", local)
  BY <1>2, <1>3 DEF CountedAs, Counted, LoadOvercommit
<1>5. DqGoto(c, "load optimistic", local) /\ "load optimistic" \in Claiming
  BY DEF local, Claiming, LoadOvercommit
<1>6. /\ UNCHANGED <<tailIndex, headIndex, dequeueOptimisticCount, dequeueOvercommit>>
      /\ dequeueOptimisticCount \in Int /\ dequeueOvercommit \in Int
  BY DEF LoadOvercommit, counterVars, ClaimInv, ClaimTypes
<1> QED BY <1>3, <1>4, <1>5, <1>6, StaysClaiming

LEMMA LoadOptimisticClaims ==
  ASSUME ClaimInv, NEW c \in Consumers, LoadOptimistic(c), UNCHANGED <<isExplicit, load, enqAt, enq>>
  PROVE  ClaimInv'
<1>1. PICK U : dq \in [Consumers -> DqLocals(U)]
  BY DEF ClaimInv, ClaimTypes
<1>2. Counted(c) /\ dequeueOptimisticCount \in Int /\ dqAt[c] = "load optimistic"
  BY DEF ClaimInv, ClaimTypes, LoadOptimistic
<1> DEFINE desired == Wrap(dq[c].tail - (dequeueOptimisticCount - dq[c].overcommit))
           n == Least(desired, dq[c].count)
           local == [dq[c] EXCEPT !.count = n, !.tail = 0]
<1>3. dq[c].tail \in Int /\ dq[c].overcommit \in Int /\ dq[c].count \in Int /\ dq[c].count > 0
  BY <1>1, <1>2 DEF DqLocals, Counted
<1>4. CircularLessThan(0, desired) => desired \in 1..(HalfRange - 1)
  <2>1. dq[c].tail - (dequeueOptimisticCount - dq[c].overcommit) \in Int
    BY <1>2, <1>3, IntDifference
  <2> QED BY <2>1, PositiveIs
<1>6. /\ UNCHANGED <<tailIndex, headIndex, dequeueOptimisticCount, dequeueOvercommit>>
      /\ dequeueOptimisticCount \in Int /\ dequeueOvercommit \in Int
  BY DEF LoadOptimistic, counterVars, ClaimInv, ClaimTypes
<1>5. HalfRange \in Int
  BY Sizes DEF HalfRange
<1>7. CASE CircularLessThan(0, desired)
  <2>1. n \in 1..(HalfRange - 1)
    BY <1>3, <1>4, <1>5, <1>7 DEF Least
  <2>2. DqGoto(c, "claim", local) /\ "claim" \in Claiming
    BY <1>7 DEF LoadOptimistic, Claiming
  <2> HIDE DEF desired, n
  <2>5. n \in Int /\ dq[c] \in DqLocals(U)
    BY <1>1, <1>5, <2>1
  <2>3. local \in DqLocals(U) /\ local.count = n
    <3> DEFINE x == [dq[c] EXCEPT !.count = n]
               z == 0
    <3>1. z \in Int
      OBVIOUS
    <3>2. local = [x EXCEPT !.tail = z] /\ x = [dq[c] EXCEPT !.count = n]
      OBVIOUS
    <3> HIDE DEF x, z, local
    <3>3. x \in DqLocals(U) /\ x.count = n
      BY <2>5, <3>2, LocalsSet
    <3>4. local \in DqLocals(U) /\ local.count = x.count
      <4>1. local = [x EXCEPT !.tail = z]
        BY <3>2
      <4>2. x \in DqLocals(U)
        BY <3>3
      <4> QED BY <3>1, <4>1, <4>2, LocalsSet
    <3> QED BY <3>3, <3>4
  <2> HIDE DEF local
  <2>4. CountedAs("claim", local)
    BY <2>1, <2>3 DEF CountedAs
  <2> QED BY <1>6, <2>2, <2>3, <2>4, StaysClaiming
<1>8. CASE ~CircularLessThan(0, desired)
  <2>1. DqGoto(c, "idle", NoDequeue) /\ "idle" \in Claiming
    BY <1>8 DEF LoadOptimistic, Claiming
  <2>2. CountedAs("idle", NoDequeue)
    BY DEF CountedAs
  <2> QED BY <1>6, <2>1, <2>2, NoDequeueIs, StaysClaiming
<1> QED BY <1>7, <1>8

LEMMA ClaimCountClaims ==
  ASSUME ClaimInv, NEW c \in Consumers, ClaimCount(c), UNCHANGED <<isExplicit, load, enqAt, enq>>
  PROVE  ClaimInv'
<1>1. PICK U : dq \in [Consumers -> DqLocals(U)]
  BY DEF ClaimInv, ClaimTypes
<1>2. Counted(c) /\ dequeueOptimisticCount \in Int /\ dequeueOvercommit \in Int /\ dqAt[c] = "claim"
  BY DEF ClaimInv, ClaimTypes, ClaimCount
<1> DEFINE local == [dq[c] EXCEPT !.mine = dequeueOptimisticCount]
<1>3. local \in DqLocals(U) /\ local.count = dq[c].count
  BY <1>1, <1>2 DEF DqLocals
<1> HIDE DEF local
<1>4. CountedAs("reload tail", local)
  BY <1>2, <1>3 DEF CountedAs, Counted
<1>5. DqGoto(c, "reload tail", local) /\ "reload tail" \in Claiming
  BY DEF local, Claiming, ClaimCount
<1>6. dq[c].count \in Int
  BY <1>1 DEF DqLocals
<1>7. dequeueOptimisticCount' \in Int
  <2>1. dequeueOptimisticCount + dq[c].count \in Int
    BY <1>2, <1>6, IntDifference
  <2> QED BY <2>1, WrapIs DEF ClaimCount
<1>8. UNCHANGED <<tailIndex, headIndex, dequeueOvercommit>>
  BY DEF ClaimCount
<1> QED BY <1>2, <1>3, <1>4, <1>5, <1>7, <1>8, StaysClaiming

LEMMA ReloadTailClaims ==
  ASSUME ClaimInv, NEW c \in Consumers, ReloadTail(c), UNCHANGED <<isExplicit, load, enqAt, enq>>
  PROVE  ClaimInv'
<1>1. PICK U : dq \in [Consumers -> DqLocals(U)]
  BY DEF ClaimInv, ClaimTypes
<1>2. Counted(c) /\ tailIndex \in Int /\ dqAt[c] = "reload tail"
  <2>1. Counted(c) /\ dqAt[c] = "reload tail"
    BY DEF ClaimInv, ReloadTail
  <2>2. tailIndex \in 0..(IndexMod - 1) /\ IndexMod \in Nat
    BY Sizes DEF ClaimInv, ClaimTypes
  <2>3. tailIndex \in Int
    BY <2>2
  <2> QED BY <2>1, <2>3
<1> DEFINE n == dq[c].count
           available == Wrap(tailIndex - (dq[c].mine - dq[c].overcommit))
           actual == IF CircularLessThan(0, available) THEN Least(n, available) ELSE 0
           local == [NoDequeue EXCEPT !.count = actual, !.surplus = n - actual]
           at == IF actual < n THEN "give back" ELSE "take"
<1>3. /\ dq[c].mine \in Int /\ dq[c].overcommit \in Int
      /\ n \in 1..(HalfRange - 1) /\ HalfRange \in Int
  <2>1. dq[c].mine \in Int /\ dq[c].overcommit \in Int
    BY <1>1 DEF DqLocals
  <2>2. n \in 1..(HalfRange - 1)
    BY <1>2 DEF Counted
  <2>3. HalfRange \in Int
    BY Sizes DEF HalfRange
  <2> QED BY <2>1, <2>2, <2>3
<1>4. CircularLessThan(0, available) => available \in 1..(HalfRange - 1)
  <2>1. tailIndex - (dq[c].mine - dq[c].overcommit) \in Int
    BY <1>2, <1>3, IntDifference
  <2> QED BY <2>1, PositiveIs
<1>5. DqGoto(c, at, local)
  BY DEF ReloadTail
<1>6. /\ UNCHANGED <<tailIndex, headIndex, dequeueOptimisticCount, dequeueOvercommit>>
      /\ dequeueOptimisticCount \in Int /\ dequeueOvercommit \in Int
  BY DEF ReloadTail, counterVars, ClaimInv, ClaimTypes
<1> HIDE DEF available
<1>7. actual \in 0..n
  BY <1>3, <1>4 DEF Least
<1> HIDE DEF n, actual
<1>8. local \in DqLocals({0, NoBlock}) /\ local.count = actual
  <2>1. actual \in Int /\ n - actual \in Int
    BY <1>3, <1>7
  <2> DEFINE x == [NoDequeue EXCEPT !.count = actual]
             m == n - actual
  <2>2. local = [x EXCEPT !.surplus = m] /\ x = [NoDequeue EXCEPT !.count = actual]
    OBVIOUS
  <2> HIDE DEF x, m, local
  <2>3. x \in DqLocals({0, NoBlock}) /\ x.count = actual
    BY <2>1, <2>2, NoDequeueIs, LocalsSet
  <2>4. local \in DqLocals({0, NoBlock}) /\ local.count = x.count
    BY <2>1, <2>2, <2>3, LocalsSet DEF m
  <2> QED BY <2>3, <2>4
<1> HIDE DEF local
<1>9. at \in Claiming /\ CountedAs(at, local)
  BY <1>3, <1>7, <1>8 DEF CountedAs, Claiming
<1> QED BY <1>5, <1>6, <1>8, <1>9, StaysClaiming

LEMMA GiveBackClaims ==
  ASSUME ClaimInv, NEW c \in Consumers, GiveBack(c), UNCHANGED <<isExplicit, load, enqAt, enq>>
  PROVE  ClaimInv'
<1>1. PICK U : dq \in [Consumers -> DqLocals(U)]
  BY DEF ClaimInv, ClaimTypes
<1>2. Counted(c) /\ dequeueOptimisticCount \in Int /\ dequeueOvercommit \in Int /\ dqAt[c] = "give back"
  BY DEF ClaimInv, ClaimTypes, GiveBack
<1>3. dq[c].count \in 0..(HalfRange - 1) /\ dq[c].surplus \in Int /\ HalfRange \in Int
  <2>1. dq[c].surplus \in Int
    BY <1>1 DEF DqLocals
  <2>2. dq[c].count \in 0..(HalfRange - 1)
    BY <1>2 DEF Counted
  <2>3. HalfRange \in Int
    BY Sizes DEF HalfRange
  <2> QED BY <2>1, <2>2, <2>3
<1>4. dequeueOvercommit' \in Int
  <2>1. dequeueOvercommit + dq[c].surplus \in Int
    BY <1>2, <1>3, IntDifference
  <2> QED BY <2>1, WrapIs DEF GiveBack
<1>5. UNCHANGED <<tailIndex, headIndex, dequeueOptimisticCount>>
  BY DEF GiveBack
<1>6. CASE dq[c].count > 0
  <2> DEFINE local == [dq[c] EXCEPT !.surplus = 0]
  <2>1. local \in DqLocals(U) /\ local.count = dq[c].count
    BY <1>1 DEF DqLocals
  <2>2. DqGoto(c, "take", local) /\ "take" \in Claiming
    BY <1>6 DEF GiveBack, Claiming
  <2> HIDE DEF local
  <2>3. CountedAs("take", local)
    BY <1>3, <1>6, <2>1 DEF CountedAs
  <2> QED BY <1>2, <1>4, <1>5, <2>1, <2>2, <2>3, StaysClaiming
<1>7. CASE ~(dq[c].count > 0)
  <2>1. DqGoto(c, "idle", NoDequeue) /\ "idle" \in Claiming
    BY <1>7 DEF GiveBack, Claiming
  <2>2. CountedAs("idle", NoDequeue)
    BY DEF CountedAs
  <2> QED BY <1>2, <1>4, <1>5, <2>1, <2>2, NoDequeueIs, StaysClaiming
<1> QED BY <1>6, <1>7

LEMMA TakeIndexClaims ==
  ASSUME ClaimInv, ClaimsCovered, NEW c \in Consumers, TakeIndex(c),
         UNCHANGED <<isExplicit, load, enqAt, enq>>
  PROVE  /\ ClaimInv'
         /\ \A k \in Int : Done(k)' <=> Done(k)
         /\ \A k : k \in Pending(c)' <=> k \in Item(headIndex)..(Item(headIndex') - 1)
<1> DEFINE M == IndexMod
           S == startIndex
           H == Item(headIndex)
           T == Item(tailIndex)
           n == dq[c].count
<1>1. PICK U : dq \in [Consumers -> DqLocals(U)]
  BY DEF ClaimInv, ClaimTypes
<1>2. /\ M \in Nat \ {0} /\ S \in Int /\ HalfRange \in Int /\ HalfRange < M
  BY Sizes, Start DEF ClaimInv, ClaimTypes, HalfRange
<1>3. headIndex \in 0..(M - 1) /\ tailIndex \in 0..(M - 1) /\ load \in Loads
  BY DEF ClaimInv, ClaimTypes
<1>4. /\ H \in 0..(M - 1) /\ T \in 0..(M - 1) /\ H <= T
  BY <1>3, IndexOfItem DEF ClaimInv
<1>5. PICK k \in Int : S + H = headIndex + M * k
  BY <1>3, IndexOfItem
<1>6. PICK l \in Int : S + T = tailIndex + M * l
  BY <1>3, IndexOfItem
<1>7. dqAt[c] = "take" /\ n \in 1..(HalfRange - 1)
  BY DEF TakeIndex, ClaimInv, Counted
<1>8. H \in Int /\ T \in Int /\ headIndex \in Int /\ tailIndex \in Int /\ n \in Int
  BY <1>2, <1>3, <1>4, <1>7
<1>9. Wrap(tailIndex - headIndex) = T - H
  <2> HIDE DEF H, T, S, n
  <2>1. M * k \in Int /\ M * l \in Int /\ M * (k - l) = M * k - M * l
    BY <1>2
  <2>2. tailIndex - headIndex = (T - H) + M * (k - l)
    BY <1>2, <1>5, <1>6, <1>8, <2>1
  <2>3. T - H \in Int /\ k - l \in Int /\ T - H \in 0..(M - 1)
    BY <1>2, <1>4, <1>8
  <2>4. Wrap((T - H) + M * (k - l)) = Wrap(T - H)
    BY <2>3, WrapIs
  <2> QED BY <2>2, <2>3, <2>4, WrapIs
<1>10. n <= T - H
  BY <1>7, <1>9 DEF ClaimsCovered
<1>11. headIndex' = Wrap(headIndex + n)
  BY DEF TakeIndex
<1>12. headIndex' \in 0..(M - 1) /\ Item(headIndex') = H + n
  <2> HIDE DEF H, T, n
  <2>1. headIndex + n \in Int /\ H + n \in Int
    BY <1>8
  <2>2. headIndex' \in 0..(M - 1)
    BY <1>11, <2>1, WrapIs
  <2>3. M * k \in Int
    BY <1>2
  <2>4. headIndex + n = (S + (H + n)) + M * (0 - k)
    <3>1. M * (0 - k) = 0 - M * k
      BY <1>2
    <3> QED BY <1>2, <1>5, <1>8, <2>3, <3>1
  <2>5. S + (H + n) \in Int /\ 0 - k \in Int
    BY <1>2, <2>1
  <2>6. headIndex' = Wrap(S + (H + n))
    BY <1>11, <2>4, <2>5, WrapIs
  <2>7. Item(headIndex') = Wrap(H + n)
    BY <1>3, <2>1, <2>6, ItemIs
  <2>8. H + n \in 0..(M - 1)
    BY <1>2, <1>4, <1>7, <1>8, <1>10
  <2> QED BY <2>1, <2>2, <2>7, <2>8, WrapIs
<1> DEFINE local == [NoDequeue EXCEPT !.index = headIndex, !.end = headIndex']
<1>13. local \in DqLocals({0, NoBlock}) /\ local.index = headIndex /\ local.end = headIndex'
  <2>1. headIndex' \in Int
    BY <1>2, <1>12
  <2> DEFINE x == [NoDequeue EXCEPT !.index = headIndex]
  <2>2. x \in DqLocals({0, NoBlock}) /\ x.index = headIndex
    BY <1>8, NoDequeueIs DEF DqLocals
  <2>3. local = [x EXCEPT !.end = headIndex']
    OBVIOUS
  <2> HIDE DEF x, local
  <2> QED BY <2>1, <2>2, <2>3 DEF DqLocals
<1>14. DqGoto(c, "load index", local)
  BY DEF TakeIndex
<1> HIDE DEF local
<1>15. dqAt \in [Consumers -> Claiming \union Holding \union Leaving]
  BY DEF ClaimInv, ClaimTypes
<1>16. "load index" \in Claiming \union Holding \union Leaving /\ "load index" \in Holding
  BY DEF Holding
<1>17. /\ dqAt' \in [Consumers -> Claiming \union Holding \union Leaving]
       /\ \E W : dq' \in [Consumers -> DqLocals(W)]
       /\ dqAt'[c] = "load index" /\ dq'[c] = local
       /\ \A e \in Consumers : e # c => dqAt'[e] = dqAt[e] /\ dq'[e] = dq[e]
  BY <1>1, <1>13, <1>14, <1>15, <1>16, DqGoes
<1>18. UNCHANGED <<tailIndex, dequeueOptimisticCount, dequeueOvercommit>>
  BY DEF TakeIndex
<1>19. ClaimTypes'
  BY <1>12, <1>17, <1>18 DEF ClaimTypes, ClaimInv
<1>20. First(c)' = H /\ Beyond(c)' = H + n /\ Item(headIndex)' = H + n
  BY <1>12, <1>13, <1>17 DEF First, Beyond, Item, startIndex
<1>21. Counted(c)'
  BY <1>17 DEF Counted
<1>22. Ranged(c)'
  <2>1. dq'[c].index = headIndex /\ dq'[c].end = headIndex'
    BY <1>13, <1>17
  <2>2. HalfRange' = HalfRange
    BY DEF HalfRange
  <2> HIDE DEF H, n
  <2>3. H < H + n /\ H + n <= H + n /\ (H + n) - H < HalfRange
    BY <1>2, <1>7, <1>8
  <2> QED BY <1>3, <1>12, <1>20, <2>1, <2>2, <2>3 DEF Ranged
<1>23. Pending(c)' = H..(H + n - 1)
  <2> HIDE DEF H, n
  <2>1. dqAt'[c] \in Holding
    BY <1>16, <1>17
  <2>2. Pending(c)' = First(c)'..(Beyond(c)' - 1)
    BY <2>1 DEF Pending
  <2> QED BY <1>8, <1>20, <2>2
<1>24. Pending(c) = {}
  BY <1>7 DEF Pending, Holding, Leaving
<1>25. Item(headIndex) <= Item(headIndex') /\ Item(headIndex') <= Item(tailIndex)
  BY <1>2, <1>4, <1>7, <1>8, <1>10, <1>12
<1>26. ClaimInv'
  <2>1. \A i \in Pending(c)' : i \in Pending(c) \/ i >= Item(headIndex)
    BY <1>23
  <2> QED BY <1>17, <1>18, <1>19, <1>21, <1>22, <1>25, <2>1, ClaimSteps
<1>27. \A k0 : k0 \in Pending(c)' <=> k0 \in H..(Item(headIndex') - 1)
  <2> HIDE DEF H, n
  <2> QED BY <1>8, <1>12, <1>23
<1>28. ASSUME NEW i \in Int PROVE Done(i)' <=> Done(i)
  <2>1. \A e \in Consumers : e # c => (i \in Pending(e)' <=> i \in Pending(e))
    BY <1>17 DEF Pending, First, Beyond, Stop, Number, Item, startIndex
  <2>2. Done(i)' <=> i < H + n /\ \A e \in Consumers : i \notin Pending(e)'
    BY <1>20 DEF Done
  <2>3. Done(i) <=> i < H /\ \A e \in Consumers : i \notin Pending(e)
    BY DEF Done
  <2>4. i \in Pending(c)' <=> i >= H /\ i < H + n
    BY <1>8, <1>23
  <2>5. i < H => i < H + n
    BY <1>2, <1>7, <1>8
  <2> HIDE DEF H, n
  <2>6. H \in Int /\ n \in Int
    BY <1>8
  <2>7. ASSUME Done(i)' PROVE Done(i)
    BY <2>1, <2>2, <2>3, <2>4, <2>6, <2>7, <1>24
  <2>8. ASSUME Done(i) PROVE Done(i)'
    BY <2>1, <2>2, <2>3, <2>4, <2>5, <2>6, <2>8, <1>24
  <2> QED BY <2>7, <2>8
<1> QED BY <1>26, <1>27, <1>28

(* A consumer goes on with its claim.                                       *)
LEMMA HoldsOn ==
  ASSUME ClaimInv, NEW c \in Consumers, NEW at \in Holding \union Leaving, NEW V,
         NEW local \in DqLocals(V), DqGoto(c, at, local),
         dqAt[c] \in Holding \union Leaving,
         local.index = dq[c].index, local.end = dq[c].end,
         at \in Holding <=> dqAt[c] \in Holding,
         UNCHANGED <<counterVars, isExplicit, load, enqAt, enq>>
  PROVE  /\ ClaimInv'
         /\ dqAt'[c] = at /\ dq'[c] = local
         /\ \A e \in Consumers : e # c => dqAt'[e] = dqAt[e] /\ dq'[e] = dq[e]
         /\ \A e \in Consumers : /\ Pending(e)' = Pending(e) /\ First(e)' = First(e)
                                 /\ Beyond(e)' = Beyond(e) /\ Number(e)' = Number(e)
         /\ \A k : Done(k)' <=> Done(k)
<1>1. PICK U : dq \in [Consumers -> DqLocals(U)]
  BY DEF ClaimInv, ClaimTypes
<1>2. dqAt \in [Consumers -> Claiming \union Holding \union Leaving]
  BY DEF ClaimInv, ClaimTypes
<1>3. /\ dqAt' \in [Consumers -> Claiming \union Holding \union Leaving]
      /\ \E W : dq' \in [Consumers -> DqLocals(W)]
      /\ dqAt'[c] = at /\ dq'[c] = local
      /\ \A e \in Consumers : e # c => dqAt'[e] = dqAt[e] /\ dq'[e] = dq[e]
  BY <1>1, <1>2, DqGoes
<1>4. ClaimTypes'
  BY <1>3 DEF ClaimTypes, ClaimInv, counterVars
<1>5. \A e \in Consumers : /\ dq'[e].index = dq[e].index /\ dq'[e].end = dq[e].end
                           /\ (dqAt'[e] \in Holding <=> dqAt[e] \in Holding)
                           /\ (dqAt'[e] \in Leaving <=> dqAt[e] \in Leaving)
  <2>1. Holding \intersect Leaving = {}
    BY DEF Holding, Leaving
  <2> QED BY <1>3, <2>1
<1>6. \A i : Item(i)' = Item(i)
  BY DEF Item, startIndex
<1>7. ASSUME NEW e \in Consumers
      PROVE  /\ First(e)' = First(e) /\ Beyond(e)' = Beyond(e)
             /\ Number(e)' = Number(e) /\ Stop(e)' = Stop(e)
  BY <1>5, <1>7 DEF First, Beyond, Stop, Number, Item, startIndex
<1>8. \A e \in Consumers : Pending(e)' = Pending(e)
  BY <1>5, <1>7 DEF Pending
<1>9. Item(headIndex)' = Item(headIndex) /\ headIndex' = headIndex /\ tailIndex' = tailIndex
  BY DEF Item, startIndex, counterVars
<1>10. Counted(c)'
  BY <1>3 DEF Counted, Holding, Leaving
<1>11. Ranged(c)'
  <2>1. Ranged(c)
    BY DEF ClaimInv
  <2> QED BY <1>5, <1>7, <1>9, <2>1 DEF Ranged, HalfRange
<1>12. Item(headIndex) <= Item(headIndex') /\ Item(headIndex') <= Item(tailIndex)
  <2>1. Item(headIndex) \in Int
    BY IndexOfItem DEF ClaimInv, ClaimTypes
  <2> QED BY <1>9, <2>1 DEF ClaimInv
<1>13. ClaimInv'
  BY <1>3, <1>4, <1>8, <1>9, <1>10, <1>11, <1>12, ClaimSteps
<1>14. \A k : Done(k)' <=> Done(k)
  BY <1>8, <1>9 DEF Done
<1> QED BY <1>3, <1>7, <1>8, <1>13, <1>14

LEMMA IndexIsInt ==
  /\ \A i \in 0..(IndexMod - 1) : i \in Int
  /\ HalfRange \in Int
<1>1. IndexMod \in Int /\ IndexMod \div 2 \in Nat
  BY Sizes
<1>2. \A i \in 0..(IndexMod - 1) : i \in Int
  BY <1>1
<1>3. HalfRange \in Int
  BY <1>1 DEF HalfRange
<1> QED BY <1>2, <1>3

LEMMA PartOfClaim ==
  ASSUME NEW c \in Consumers, First(c) \in Int, Stop(c) \in Int, Beyond(c) \in Int,
         First(c) < Stop(c), Stop(c) <= Beyond(c)
  PROVE  /\ \A k \in Int : k \in First(c)..(Beyond(c) - 1) <=>
                              k \in Stop(c)..(Beyond(c) - 1) \/ k \in First(c)..(Stop(c) - 1)
         /\ \A k \in Stop(c)..(Beyond(c) - 1) : k \in First(c)..(Beyond(c) - 1) /\ k \notin First(c)..(Stop(c) - 1)
         /\ \A k \in First(c)..(Stop(c) - 1) : k \in Int /\ k < Beyond(c) /\ k \notin Stop(c)..(Beyond(c) - 1)
         /\ Stop(c) = Beyond(c) => Stop(c)..(Beyond(c) - 1) = {}
         /\ \A h \in Int : Beyond(c) - First(c) < h => Beyond(c) - Stop(c) < h
         /\ Stop(c) # Beyond(c) => Stop(c) < Beyond(c)
<1> DEFINE f == First(c)
           r == Stop(c)
           b == Beyond(c)
<1>1. f \in Int /\ r \in Int /\ b \in Int /\ f < r /\ r <= b
  OBVIOUS
<1> HIDE DEF f, r, b
<1>2. /\ \A k \in Int : k \in f..(b - 1) <=> k \in r..(b - 1) \/ k \in f..(r - 1)
      /\ \A k \in r..(b - 1) : k \in f..(b - 1) /\ k \notin f..(r - 1)
      /\ \A k \in f..(r - 1) : k \in Int /\ k < b /\ k \notin r..(b - 1)
      /\ r = b => r..(b - 1) = {}
      /\ \A h \in Int : b - f < h => b - r < h
      /\ r # b => r < b
  BY <1>1, PartOfRange
<1> QED BY <1>2 DEF f, r, b

(* A consumer has counted what it took from a block: it leaves the block,   *)
(* goes on to the next one, or is done.                                     *)
LEMMA Advances ==
  ASSUME ClaimInv, NEW c \in Consumers, dqAt[c] \in {"set empty", "free block"},
         DqGoto(c, "clear entry", dq[c]) \/ ImplicitNextSegment(c),
         UNCHANGED <<counterVars, isExplicit, load, enqAt, enq>>
  PROVE  /\ ClaimInv'
         /\ \A e \in Consumers : e # c => Pending(e)' = Pending(e)
         /\ Pending(c)' = Stop(c)..(Beyond(c) - 1)
         /\ First(c) \in Int /\ Stop(c) \in Int /\ Beyond(c) \in Int
         /\ First(c) < Stop(c) /\ Stop(c) <= Beyond(c) /\ Beyond(c) <= Item(headIndex)
         /\ Item(headIndex) \in Int
         /\ \/ dqAt'[c] = "clear entry" /\ dq'[c] = dq[c] /\ DqGoto(c, "clear entry", dq[c])
            \/ dqAt'[c] = "idle" /\ dq'[c] = NoDequeue /\ Stop(c) = Beyond(c)
            \/ /\ dqAt'[c] = "load block" /\ Stop(c) # Beyond(c)
               /\ dq'[c].header = dq[c].header /\ First(c)' = Stop(c) /\ Beyond(c)' = Beyond(c)
               /\ dq'[c].slot = (dq[c].slot + 1) % Cardinality(DOMAIN idxHeaders[dq[c].header].index)
         /\ \A e \in Consumers : e # c => dqAt'[e] = dqAt[e] /\ dq'[e] = dq[e]
<1> DEFINE slots == Cardinality(DOMAIN idxHeaders[dq[c].header].index)
           next == [dq[c] EXCEPT !.index = SegmentEnd(c), !.slot = (@ + 1) % slots, !.block = NoBlock]
<1>1. PICK U : dq \in [Consumers -> DqLocals(U)]
  BY DEF ClaimInv, ClaimTypes
<1>2. dqAt \in [Consumers -> Claiming \union Holding \union Leaving]
  BY DEF ClaimInv, ClaimTypes
<1>3. Ranged(c) /\ dqAt[c] \in Holding \union Leaving /\ load \in Loads
  BY DEF ClaimInv, ClaimTypes, Holding, Leaving
<1>4. /\ SegmentEnd(c) \in 0..(IndexMod - 1)
      /\ Item(SegmentEnd(c)) = Stop(c)
      /\ SegmentEnd(c) = dq[c].end <=> Stop(c) = Beyond(c)
      /\ First(c) < Stop(c) /\ Stop(c) <= Beyond(c)
  BY <1>3, SegmentIs DEF Ranged, HalfRange
<1>5. /\ First(c) \in Int /\ Beyond(c) \in Int /\ Stop(c) \in Int /\ Item(headIndex) \in Int
      /\ SegmentEnd(c) \in Int
  <2>1. dq[c].index \in 0..(IndexMod - 1) /\ dq[c].end \in 0..(IndexMod - 1)
        /\ headIndex \in 0..(IndexMod - 1) /\ IndexMod \in Nat
    BY <1>3, Sizes DEF Ranged, ClaimInv, ClaimTypes
  <2>2. First(c) \in Nat /\ Beyond(c) \in Nat /\ Item(headIndex) \in Nat
    BY <1>3, <2>1, IndexOfItem DEF First, Beyond
  <2>3. Item(SegmentEnd(c)) \in Nat
    BY <1>3, <1>4, IndexOfItem
  <2>4. SegmentEnd(c) \in Int
    BY <1>4, IndexIsInt
  <2>5. Stop(c) \in Nat
    BY <1>4, <2>3
  <2> QED BY <2>2, <2>4, <2>5, NatIsInt
<1>6. \A k \in Stop(c)..(Beyond(c) - 1) : k \in Pending(c)
  <2>1. Pending(c) = First(c)..(Beyond(c) - 1) \/ Pending(c) = Stop(c)..(Beyond(c) - 1)
    BY DEF Pending, Holding, Leaving
  <2> QED BY <1>4, <1>5, <2>1, PartOfClaim
<1>7. \A i : Item(i)' = Item(i)
  BY DEF Item, startIndex
<1> DEFINE at == IF DqGoto(c, "clear entry", dq[c]) THEN "clear entry"
                 ELSE IF SegmentEnd(c) = dq[c].end THEN "idle" ELSE "load block"
           local == IF DqGoto(c, "clear entry", dq[c]) THEN dq[c]
                    ELSE IF SegmentEnd(c) = dq[c].end THEN NoDequeue ELSE next
<1>8. DqGoto(c, at, local)
  BY DEF ImplicitNextSegment, NextSegment
<1>9. \E V : next \in DqLocals(V) /\ next.index = SegmentEnd(c) /\ next.end = dq[c].end
  <2> DEFINE s == (dq[c].slot + 1) % slots
             x == [dq[c] EXCEPT !.index = SegmentEnd(c)]
             V == U \union {s, NoBlock}
             y == [x EXCEPT !.slot = s]
  <2>1. x \in DqLocals(U) /\ x.index = SegmentEnd(c) /\ x.end = dq[c].end /\ x.slot = dq[c].slot
    BY <1>1, <1>5 DEF DqLocals
  <2>2. next = [y EXCEPT !.block = NoBlock]
    OBVIOUS
  <2>3. y = [x EXCEPT !.slot = s]
    OBVIOUS
  <2>4. s \in V /\ NoBlock \in V
    OBVIOUS
  <2>5. x \in DqLocals(V)
    BY <2>1, LocalsGrow
  <2> HIDE DEF s, x, V, y, next
  <2>6. y \in DqLocals(V) /\ y.index = x.index /\ y.end = x.end
    BY <2>3, <2>4, <2>5 DEF DqLocals
  <2>7. next \in DqLocals(V) /\ next.index = y.index /\ next.end = y.end
    BY <2>2, <2>4, <2>6 DEF DqLocals
  <2> QED BY <2>1, <2>6, <2>7
<1>10. PICK V : next \in DqLocals(V) /\ next.index = SegmentEnd(c) /\ next.end = dq[c].end
  BY <1>9
<1> HIDE DEF next
<1>11. \E W : local \in DqLocals(W)
  BY <1>1, <1>10, NoDequeueIs
<1>12. at \in Claiming \union Holding \union Leaving
  BY DEF Claiming, Holding, Leaving
<1>13. \/ at = "clear entry" /\ local = dq[c]
       \/ at = "idle" /\ local = NoDequeue /\ Stop(c) = Beyond(c)
       \/ at = "load block" /\ local = next /\ Stop(c) # Beyond(c)
  BY <1>4
<1> HIDE DEF at, local
<1>14. /\ dqAt' \in [Consumers -> Claiming \union Holding \union Leaving]
       /\ \E W : dq' \in [Consumers -> DqLocals(W)]
       /\ dqAt'[c] = at /\ dq'[c] = local
       /\ \A e \in Consumers : e # c => dqAt'[e] = dqAt[e] /\ dq'[e] = dq[e]
  BY <1>1, <1>2, <1>8, <1>11, <1>12, DqGoes
<1>15. ClaimTypes'
  BY <1>14 DEF ClaimTypes, ClaimInv, counterVars
<1>16. ASSUME NEW e \in Consumers, e # c PROVE Pending(e)' = Pending(e)
  BY <1>14, <1>16 DEF Pending, First, Beyond, Stop, Number, Item, startIndex
<1>17. Pending(c)' = Stop(c)..(Beyond(c) - 1) /\ Counted(c)' /\ Ranged(c)'
  <2>0. Item(headIndex)' = Item(headIndex) /\ HalfRange' = HalfRange
    BY <1>7 DEF HalfRange, counterVars, Item, startIndex
  <2>1. CASE at = "clear entry" /\ local = dq[c]
    <3>1. Stop(c)' = Stop(c) /\ Beyond(c)' = Beyond(c) /\ First(c)' = First(c)
      BY <1>14, <2>1 DEF Beyond, First, Stop, Number, Item, startIndex
    <3>2. dqAt'[c] \in Leaving /\ dqAt'[c] \notin Holding
      BY <1>14, <2>1 DEF Holding, Leaving
    <3>3. Pending(c)' = Stop(c)..(Beyond(c) - 1)
      BY <3>1, <3>2 DEF Pending
    <3>4. Counted(c)'
      BY <1>14, <2>1 DEF Counted
    <3>5. Ranged(c)'
      BY <1>3, <1>14, <2>0, <2>1, <3>1 DEF Ranged
    <3> QED BY <3>3, <3>4, <3>5
  <2>2. CASE at = "idle" /\ Stop(c) = Beyond(c)
    <3>1. dqAt'[c] \notin Leaving /\ dqAt'[c] \notin Holding
      BY <1>14, <2>2 DEF Holding, Leaving
    <3>2. Pending(c)' = {} /\ Counted(c)' /\ Ranged(c)'
      BY <1>14, <2>2, <3>1 DEF Pending, Counted, Ranged
    <3>3. Stop(c)..(Beyond(c) - 1) = {}
      BY <1>4, <1>5, <2>2, PartOfClaim
    <3> QED BY <3>2, <3>3
  <2>3. CASE at = "load block" /\ local = next /\ Stop(c) # Beyond(c)
    <3>1. First(c)' = Stop(c) /\ Beyond(c)' = Beyond(c)
      BY <1>4, <1>7, <1>10, <1>14, <2>3 DEF First, Beyond, Item, startIndex
    <3>2. dqAt'[c] \in Holding
      BY <1>14, <2>3 DEF Holding
    <3>3. Pending(c)' = Stop(c)..(Beyond(c) - 1)
      BY <3>1, <3>2 DEF Pending
    <3>4. Counted(c)'
      BY <1>14, <2>3 DEF Counted
    <3>5. Stop(c) < Beyond(c) /\ Beyond(c) - Stop(c) < HalfRange
      <4>1. HalfRange \in Int
        BY IndexIsInt
      <4>2. Beyond(c) - First(c) < HalfRange
        BY <1>3 DEF Ranged
      <4> QED BY <1>4, <1>5, <2>3, <4>1, <4>2, PartOfClaim
    <3>6. dq'[c].index \in 0..(IndexMod - 1) /\ dq'[c].end \in 0..(IndexMod - 1)
      BY <1>3, <1>4, <1>10, <1>14, <2>3 DEF Ranged
    <3>7. Beyond(c) <= Item(headIndex)
      BY <1>3 DEF Ranged
    <3>8. Ranged(c)'
      BY <2>0, <3>1, <3>5, <3>6, <3>7 DEF Ranged
    <3> QED BY <3>3, <3>4, <3>8
  <2> QED BY <1>13, <2>1, <2>2, <2>3
<1>18. Item(headIndex) <= Item(headIndex') /\ Item(headIndex') <= Item(tailIndex)
  <2>1. headIndex' = headIndex
    BY DEF counterVars
  <2>2. Item(headIndex) <= Item(headIndex)
    BY <1>5, Orders
  <2> QED BY <2>1, <2>2 DEF ClaimInv
<1>19. \A k \in Pending(c)' : k \in Pending(c)
  BY <1>6, <1>17
<1>20. ClaimInv'
  BY <1>14, <1>15, <1>17, <1>18, <1>19, ClaimSteps DEF counterVars
<1>21. Beyond(c) <= Item(headIndex)
  BY <1>3 DEF Ranged
<1>22. \/ dqAt'[c] = "clear entry" /\ dq'[c] = dq[c] /\ DqGoto(c, "clear entry", dq[c])
       \/ dqAt'[c] = "idle" /\ dq'[c] = NoDequeue /\ Stop(c) = Beyond(c)
       \/ dqAt'[c] = "load block" /\ dq'[c] = next /\ Stop(c) # Beyond(c)
  BY <1>8, <1>13, <1>14
<1>23. ASSUME dq'[c] = next
       PROVE  First(c)' = Stop(c) /\ Beyond(c)' = Beyond(c)
  BY <1>4, <1>7, <1>10, <1>23 DEF First, Beyond, Item, startIndex
<1>24. next.header = dq[c].header /\ next.slot = (dq[c].slot + 1) % slots
  <2> DEFINE x == [dq[c] EXCEPT !.index = SegmentEnd(c)]
             y == [x EXCEPT !.slot = (dq[c].slot + 1) % slots]
  <2>1. next = [y EXCEPT !.block = NoBlock]
    BY DEF next
  <2>2. x.header = dq[c].header /\ x.slot = dq[c].slot /\ x \in DqLocals(U)
    BY <1>1, <1>5 DEF DqLocals
  <2> HIDE DEF x
  <2>3. y.header = x.header /\ y.slot = (dq[c].slot + 1) % slots
        /\ DOMAIN y = DOMAIN x
    BY <2>2 DEF DqLocals
  <2>4. DOMAIN x = {"tail", "overcommit", "count", "mine", "surplus", "index", "end", "header", "slot", "block"}
    BY <2>2 DEF DqLocals
  <2> HIDE DEF y
  <2> QED BY <2>1, <2>2, <2>3, <2>4
<1> HIDE DEF slots
<1>25. \/ dqAt'[c] = "clear entry" /\ dq'[c] = dq[c] /\ DqGoto(c, "clear entry", dq[c])
       \/ dqAt'[c] = "idle" /\ dq'[c] = NoDequeue /\ Stop(c) = Beyond(c)
       \/ /\ dqAt'[c] = "load block" /\ Stop(c) # Beyond(c)
          /\ dq'[c].header = dq[c].header /\ First(c)' = Stop(c) /\ Beyond(c)' = Beyond(c)
          /\ dq'[c].slot = (dq[c].slot + 1) % slots
  BY <1>22, <1>23, <1>24
<1> QED BY <1>4, <1>5, <1>14, <1>16, <1>17, <1>20, <1>21, <1>25 DEF slots

(* What is done by counting a segment.                                      *)
LEMMA SegmentCounted ==
  ASSUME ClaimInv, NEW c \in Consumers, dqAt[c] = "set empty",
         DqGoto(c, "clear entry", dq[c]) \/ ImplicitNextSegment(c),
         UNCHANGED <<counterVars, isExplicit, load, enqAt, enq>>
  PROVE  \A k \in Int : Done(k)' <=> Done(k) \/ k \in First(c)..(Stop(c) - 1)
<1>1. /\ \A e \in Consumers : e # c => Pending(e)' = Pending(e)
      /\ Pending(c)' = Stop(c)..(Beyond(c) - 1)
      /\ First(c) \in Int /\ Stop(c) \in Int /\ Beyond(c) \in Int
      /\ First(c) < Stop(c) /\ Stop(c) <= Beyond(c) /\ Beyond(c) <= Item(headIndex)
      /\ Item(headIndex) \in Int
  BY Advances
<1>2. Pending(c) = First(c)..(Beyond(c) - 1)
  BY DEF Pending, Holding
<1> SUFFICES ASSUME NEW k \in Int PROVE Done(k)' <=> Done(k) \/ k \in First(c)..(Stop(c) - 1)
  OBVIOUS
<1>3. Item(headIndex)' = Item(headIndex)
  BY DEF counterVars, Item, startIndex
<1>4. Done(k)' <=> k < Item(headIndex) /\ \A e \in Consumers : k \notin Pending(e)'
  BY <1>3 DEF Done
<1>5. Done(k) <=> k < Item(headIndex) /\ \A e \in Consumers : k \notin Pending(e)
  BY DEF Done
<1>6. k \in Pending(c) <=> k \in Pending(c)' \/ k \in First(c)..(Stop(c) - 1)
  BY <1>1, <1>2, PartOfClaim
<1>7. ASSUME k \in First(c)..(Stop(c) - 1) PROVE Done(k)'
  <2>1. k < Item(headIndex)
    <3>1. k < Beyond(c)
      BY <1>1, <1>7, PartOfClaim
    <3> QED BY <1>1, <1>7, <3>1, Orders
  <2>2. k \notin Pending(c)'
    BY <1>1, <1>7, PartOfClaim
  <2>3. \A e \in Consumers : e # c => k \notin Pending(e)'
    BY <1>1, <1>6, <1>7 DEF ClaimInv
  <2> QED BY <1>4, <2>1, <2>2, <2>3
<1>8. ASSUME Done(k) PROVE Done(k)'
  <2>1. \A e \in Consumers : k \notin Pending(e)'
    BY <1>1, <1>5, <1>6, <1>8
  <2> QED BY <1>4, <1>5, <1>8, <2>1
<1>9. ASSUME Done(k)', k \notin First(c)..(Stop(c) - 1) PROVE Done(k)
  <2>1. \A e \in Consumers : k \notin Pending(e)
    BY <1>1, <1>4, <1>6, <1>9
  <2> QED BY <1>4, <1>5, <1>9, <2>1
<1> QED BY <1>7, <1>8, <1>9

(* A consumer that has given a block back changes nothing of that.          *)
LEMMA BlockLeft ==
  ASSUME ClaimInv, NEW c \in Consumers, dqAt[c] = "free block", ImplicitNextSegment(c),
         UNCHANGED <<counterVars, isExplicit, load, enqAt, enq>>
  PROVE  /\ \A e \in Consumers : Pending(e)' = Pending(e)
         /\ \A k : Done(k)' <=> Done(k)
<1>1. Pending(c) = Stop(c)..(Beyond(c) - 1)
  BY DEF Pending, Holding, Leaving
<1>2. \A e \in Consumers : Pending(e)' = Pending(e)
  BY <1>1, Advances
<1>3. Item(headIndex)' = Item(headIndex)
  BY DEF counterVars, Item, startIndex
<1> QED BY <1>2, <1>3 DEF Done

-----------------------------------------------------------------------------
(* Slots of a circular index.                                               *)
(* Two numbers of a window of the size of the index have different slots,   *)
(* and every number has the slot of one in the window.                      *)
-----------------------------------------------------------------------------
(* The index.                                                               *)
HeaderSet == [tail : Int, index : UNION {[0..(k - 1) -> Nat] : k \in Nat \ {0}}]
EntrySet == [key : Int, value : Blocks \union {NoBlock, Uninitialized}]
EnqueueCall ==
  [count : Nat, base : Int, got : Seq(Blocks), slot : Int, undo : Nat,
   block : Blocks \union {NoBlock}]
Inserting == {"store tail", "requisition", "store value", "rewind", "null value"}
Undoing == {"undo", "undo rewind"}
EnqueuePlaces ==
  {"idle", "check head", "insert", "fill", "publish", "free"} \union Inserting \union Undoing

IndexTypes ==
  /\ idxHeaders \in Seq(HeaderSet) /\ idxHeaders # <<>>
  /\ idxEntries \in Seq(EntrySet)
CallTypes == enqAt \in EnqueuePlaces /\ enq \in EnqueueCall

Current == Len(idxHeaders)
IndexSize(h) == Cardinality(DOMAIN idxHeaders[h].index)
SlotAt(d, h, n) == (n + d[h]) % IndexSize(h)
EntryOf(d, n) == EntryAt(Current, SlotAt(d, Current, n))
KeyOf(d, n) == idxEntries[EntryOf(d, n)].key
ValueOf(d, n) == idxEntries[EntryOf(d, n)].value

(* Block n has slot n + d[h] of the index h, in whichever index it is.      *)
Shape(d) ==
  /\ d \in [Nat -> Int]
  /\ \A h \in 1..Current : RangeOfBases % IndexSize(h) = 0 /\ IndexSize(Current) % IndexSize(h) = 0
  /\ \A h \in 1..Current : \A s \in 0..(IndexSize(h) - 1) : EntryAt(h, s) \in 1..Len(idxEntries)
  /\ \A e \in 1..Len(idxEntries) : \E n \in Int : e = EntryOf(d, n)
  /\ \A h \in 1..Current : \A s \in 0..(IndexSize(h) - 1) : \A n \in Int :
       EntryAt(h, s) = EntryOf(d, n) => s = SlotAt(d, h, n)

(* A key that is not invalid is that of a block which has this slot.        *)
Keys(d) ==
  /\ \A h \in 1..Current : \A s \in 0..(IndexSize(h) - 1) :
       idxEntries[EntryAt(h, s)].key # InvalidBlockBase =>
         \E n \in Int : idxEntries[EntryAt(h, s)].key = BaseOf(n) /\ s = SlotAt(d, h, n)
  /\ \A h \in 1..Current : h # Current =>
       /\ idxHeaders[h].tail \in 0..(IndexSize(h) - 1)
       /\ idxEntries[EntryAt(h, idxHeaders[h].tail)].key # InvalidBlockBase

(* The keys written last are those of the blocks before a, from block f on. *)
Window(a) == (a - IndexSize(Current))..(a - 1)
KeysUpTo(d, a, f) ==
  \A n \in Window(a) : KeyOf(d, n) = IF n >= f THEN BaseOf(n) ELSE InvalidBlockBase

(* The blocks in the index, by number.                                      *)
HoldsBlocks(d, a, f, holds) ==
  /\ \A n \in DOMAIN holds : /\ n \in Window(a) /\ n >= f
                             /\ ValueOf(d, n) = holds[n] /\ holds[n] \in Blocks
  /\ \A n \in Window(a) : ValueOf(d, n) \in Blocks => n \in DOMAIN holds

Indexes(d, a, f, holds) ==
  IndexTypes /\ Shape(d) /\ Keys(d) /\ KeysUpTo(d, a, f) /\ HoldsBlocks(d, a, f, holds)

LEMMA CapacityIs ==
  ASSUME IndexTypes, NEW h \in 1..Current
  PROVE  /\ IndexSize(h) \in Nat \ {0} /\ idxHeaders[h].tail \in Int
         /\ DOMAIN idxHeaders[h].index = 0..(IndexSize(h) - 1)
         /\ \A s \in 0..(IndexSize(h) - 1) : EntryAt(h, s) \in Nat
<1>1. idxHeaders[h] \in HeaderSet
  BY ElementOfSeq DEF IndexTypes, Current
<1>2. PICK k \in Nat \ {0} : idxHeaders[h].index \in [0..(k - 1) -> Nat]
  BY <1>1 DEF HeaderSet
<1>3. DOMAIN idxHeaders[h].index = 0..(k - 1)
  BY <1>2
<1>4. Cardinality(0..(k - 1)) = k
  <2>1. 0 \in Int /\ k - 1 \in Int /\ (0 > k - 1 <=> k < 1) /\ (k - 1) - 0 + 1 = k
    BY <1>2
  <2> QED BY <1>2, <2>1, FS_Interval
<1>5. IndexSize(h) = k
  BY <1>3, <1>4 DEF IndexSize
<1>6. \A s \in 0..(k - 1) : EntryAt(h, s) \in Nat
  BY <1>2 DEF EntryAt
<1> QED BY <1>1, <1>2, <1>3, <1>5, <1>6 DEF HeaderSet

LEMMA CurrentIs ==
  ASSUME IndexTypes
  PROVE  Current \in Nat /\ Current \in 1..Current /\ Current >= 1
<1>1. Len(idxHeaders) \in Nat /\ Len(idxHeaders) # 0
  BY EmptySeq DEF IndexTypes
<1> QED BY <1>1 DEF Current

LEMMA SlotIs ==
  ASSUME IndexTypes, NEW d \in [Nat -> Int], NEW h \in 1..Current, NEW n \in Int
  PROVE  SlotAt(d, h, n) \in 0..(IndexSize(h) - 1) /\ SlotAt(d, h, n) \in Int
<1>1. IndexSize(h) \in Nat \ {0}
  BY CapacityIs
<1>2. h \in Nat
  BY CurrentIs
<1>3. n + d[h] \in Int
  BY <1>2
<1>4. SlotAt(d, h, n) \in 0..(IndexSize(h) - 1)
  BY <1>1, <1>3, Divides DEF SlotAt
<1> QED BY <1>1, <1>4

(* The slots before and behind.                                             *)
LEMMA SlotsFollow ==
  ASSUME IndexTypes, NEW d \in [Nat -> Int], NEW h \in 1..Current, NEW n \in Int
  PROVE  /\ (SlotAt(d, h, n) + 1) % IndexSize(h) = SlotAt(d, h, n + 1)
         /\ (SlotAt(d, h, n) - 1) % IndexSize(h) = SlotAt(d, h, n - 1)
<1>1. IndexSize(h) \in Nat \ {0}
  BY CapacityIs
<1>2. h \in Nat
  BY CurrentIs
<1>3. d[h] \in Int
  BY <1>2
<1> DEFINE x == n + d[h]
<1>4. x \in Int /\ x + 1 = (n + 1) + d[h] /\ x - 1 = (n - 1) + d[h]
  BY <1>3
<1> HIDE DEF x
<1>5. ((x % IndexSize(h)) + 1) % IndexSize(h) = (x + 1) % IndexSize(h)
      /\ ((x % IndexSize(h)) - 1) % IndexSize(h) = (x - 1) % IndexSize(h)
  BY <1>1, <1>4, SlotStep
<1> QED BY <1>4, <1>5 DEF SlotAt, x

(* Entries of the window are different ones, and there are no others.       *)
LEMMA EntriesDiffer ==
  ASSUME IndexTypes, NEW d, Shape(d), NEW a \in Int, NEW n \in Window(a), NEW m \in Window(a),
         EntryOf(d, n) = EntryOf(d, m)
  PROVE  n = m
<1> DEFINE C == IndexSize(Current)
           o == d[Current]
<1>1. C \in Nat \ {0} /\ Current \in 1..Current /\ Current \in Nat
  BY CurrentIs, CapacityIs
<1>2. d \in [Nat -> Int] /\ o \in Int
  BY <1>1 DEF Shape
<1>3. n \in (a - C)..(a - 1) /\ m \in (a - C)..(a - 1) /\ n \in Int /\ m \in Int
  BY <1>1 DEF Window
<1>4. SlotAt(d, Current, n) = SlotAt(d, Current, m)
  BY <1>1, <1>2, <1>3, SlotIs DEF EntryOf, Shape
<1>5. (n + o) % C = (m + o) % C
  BY <1>4 DEF SlotAt
<1> HIDE DEF C, o
<1> QED BY <1>1, <1>2, <1>3, <1>5, SlotsDiffer

LEMMA EntryInWindow ==
  ASSUME IndexTypes, NEW d, Shape(d), NEW a \in Int, NEW n \in Int
  PROVE  /\ EntryOf(d, n) \in 1..Len(idxEntries)
         /\ \E m \in Window(a) : EntryOf(d, n) = EntryOf(d, m)
<1> DEFINE C == IndexSize(Current)
           o == d[Current]
<1>1. C \in Nat \ {0} /\ Current \in 1..Current /\ Current \in Nat
  BY CurrentIs, CapacityIs
<1>2. d \in [Nat -> Int] /\ o \in Int
  BY <1>1 DEF Shape
<1>3. SlotAt(d, Current, n) \in 0..(C - 1)
  BY <1>1, <1>2, SlotIs
<1>4. EntryOf(d, n) \in 1..Len(idxEntries)
  BY <1>1, <1>3 DEF EntryOf, Shape
<1>5. \E m \in (a - C)..(a - 1) : (m + o) % C = (n + o) % C
  <2> HIDE DEF C, o
  <2> QED BY <1>1, <1>2, SlotReached
<1>6. PICK m \in (a - C)..(a - 1) : (m + o) % C = (n + o) % C
  BY <1>5
<1>7. m \in Window(a) /\ EntryOf(d, n) = EntryOf(d, m)
  BY <1>6 DEF Window, EntryOf, SlotAt
<1> QED BY <1>4, <1>7

-----------------------------------------------------------------------------
(* Steps that leave the slots of all indices as they are.                   *)
SameIndexes ==
  /\ Current' = Current /\ load' = load
  /\ \A h \in 1..Current : /\ idxHeaders'[h].index = idxHeaders[h].index
                           /\ h # Current => idxHeaders'[h].tail = idxHeaders[h].tail
SameKeys ==
  /\ Len(idxEntries') = Len(idxEntries)
  /\ \A e \in 1..Len(idxEntries) : idxEntries'[e].key = idxEntries[e].key

LEMMA ViewStays ==
  ASSUME IndexTypes, SameIndexes
  PROVE  /\ \A h \in 1..Current : IndexSize(h)' = IndexSize(h) /\ \A s : EntryAt(h, s)' = EntryAt(h, s)
         /\ \A d, n : \A h \in 1..Current : SlotAt(d, h, n)' = SlotAt(d, h, n)
         /\ \A d, n : EntryOf(d, n)' = EntryOf(d, n)
         /\ \A a : Window(a)' = Window(a)
         /\ \A n : BaseOf(n)' = BaseOf(n)
<1>1. \A h \in 1..Current : IndexSize(h)' = IndexSize(h) /\ \A s : EntryAt(h, s)' = EntryAt(h, s)
  BY DEF SameIndexes, IndexSize, EntryAt
<1>2. \A d, n : \A h \in 1..Current : SlotAt(d, h, n)' = SlotAt(d, h, n)
  BY <1>1 DEF SlotAt
<1>3. Current \in 1..Current /\ Current' = Current
  BY CurrentIs DEF SameIndexes
<1>4. \A d, n : EntryOf(d, n)' = EntryOf(d, n)
  <2> TAKE d, n
  <2>1. SlotAt(d, Current, n)' = SlotAt(d, Current, n)
    <3>1. SlotAt(d, Current, n)' = (n + d[Current]) % IndexSize(Current)'
      BY <1>3 DEF SlotAt
    <3>2. IndexSize(Current)' = IndexSize(Current)
      BY <1>3 DEF SameIndexes, IndexSize
    <3> QED BY <3>1, <3>2 DEF SlotAt
  <2>2. EntryOf(d, n)' = idxHeaders'[Current'].index[SlotAt(d, Current, n)']
    BY DEF EntryOf, EntryAt
  <2>3. idxHeaders'[Current'].index = idxHeaders[Current].index
    BY <1>3 DEF SameIndexes
  <2> QED BY <2>1, <2>2, <2>3 DEF EntryOf, EntryAt
<1>5. \A a : Window(a)' = Window(a)
  <2>1. IndexSize(Current)' = IndexSize(Current)
    BY <1>3 DEF SameIndexes, IndexSize
  <2> QED BY <2>1 DEF Window
<1>6. \A n : BaseOf(n)' = BaseOf(n)
  BY DEF SameIndexes, BaseOf, startIndex, Wrap
<1> QED BY <1>1, <1>2, <1>4, <1>5, <1>6

LEMMA KeysStay ==
  ASSUME IndexTypes, NEW d, Shape(d), SameIndexes, SameKeys, NEW a \in Int, NEW f
  PROVE  /\ Shape(d)'
         /\ Keys(d) => Keys(d)'
         /\ KeysUpTo(d, a, f) => KeysUpTo(d, a, f)'
<1>0. Current' = Current /\ Current \in 1..Current
  BY CurrentIs DEF SameIndexes
<1>1. /\ \A h \in 1..Current : IndexSize(h)' = IndexSize(h) /\ \A s : EntryAt(h, s)' = EntryAt(h, s)
      /\ \A h \in 1..Current, n \in Int : SlotAt(d, h, n)' = SlotAt(d, h, n)
      /\ \A n \in Int : EntryOf(d, n)' = EntryOf(d, n)
      /\ Window(a)' = Window(a)
      /\ \A n \in Int : BaseOf(n)' = BaseOf(n)
  BY ViewStays
<1>2. IndexSize(Current)' = IndexSize(Current)
  BY <1>0 DEF SameIndexes, IndexSize
<1>3. RangeOfBases' = RangeOfBases /\ Len(idxEntries') = Len(idxEntries)
  BY DEF RangeOfBases, SameKeys
<1>4. Shape(d)'
  <2>1. d \in [Nat -> Int]
    BY DEF Shape
  <2>2. \A h \in 1..Current' : RangeOfBases' % IndexSize(h)' = 0 /\ IndexSize(Current)' % IndexSize(h)' = 0
    BY <1>0, <1>1, <1>2, <1>3 DEF Shape
  <2>3. \A h \in 1..Current' : \A s \in 0..(IndexSize(h)' - 1) : EntryAt(h, s)' \in 1..Len(idxEntries')
    BY <1>0, <1>1, <1>3 DEF Shape
  <2>4. \A e \in 1..Len(idxEntries') : \E n \in Int : e = EntryOf(d, n)'
    BY <1>1, <1>3 DEF Shape
  <2>5. \A h \in 1..Current' : \A s \in 0..(IndexSize(h)' - 1) : \A n \in Int :
          EntryAt(h, s)' = EntryOf(d, n)' => s = SlotAt(d, h, n)'
    BY <1>0, <1>1 DEF Shape
  <2> QED BY <2>1, <2>2, <2>3, <2>4, <2>5 DEF Shape
<1>5. ASSUME NEW h \in 1..Current, NEW s \in 0..(IndexSize(h) - 1)
      PROVE  idxEntries'[EntryAt(h, s)].key = idxEntries[EntryAt(h, s)].key
  BY <1>5 DEF Shape, SameKeys
<1>6. ASSUME Keys(d) PROVE Keys(d)'
  <2>1. ASSUME NEW h \in 1..Current, NEW s \in 0..(IndexSize(h) - 1),
               idxEntries'[EntryAt(h, s)'].key # InvalidBlockBase
        PROVE  \E n \in Int : /\ idxEntries'[EntryAt(h, s)'].key = BaseOf(n)'
                              /\ s = SlotAt(d, h, n)'
    <3>1. EntryAt(h, s)' = EntryAt(h, s)
      BY <1>1
    <3>2. idxEntries'[EntryAt(h, s)].key = idxEntries[EntryAt(h, s)].key
      BY <1>5
    <3>3. PICK n \in Int : idxEntries[EntryAt(h, s)].key = BaseOf(n) /\ s = SlotAt(d, h, n)
      BY <1>6, <2>1, <3>1, <3>2 DEF Keys
    <3> QED BY <1>1, <3>1, <3>2, <3>3
  <2>2. ASSUME NEW h \in 1..Current, h # Current
        PROVE  /\ idxHeaders'[h].tail \in 0..(IndexSize(h)' - 1)
               /\ idxEntries'[EntryAt(h, idxHeaders[h].tail)'].key # InvalidBlockBase
               /\ idxHeaders'[h].tail = idxHeaders[h].tail
    <3>1. idxHeaders[h].tail \in 0..(IndexSize(h) - 1)
          /\ idxEntries[EntryAt(h, idxHeaders[h].tail)].key # InvalidBlockBase
      BY <1>6, <2>2 DEF Keys
    <3>2. idxHeaders'[h].tail = idxHeaders[h].tail
      BY <2>2 DEF SameIndexes
    <3>3. EntryAt(h, idxHeaders[h].tail)' = EntryAt(h, idxHeaders[h].tail)
      <4>1. EntryAt(h, idxHeaders[h].tail)' = idxHeaders'[h].index[idxHeaders'[h].tail]
        BY DEF EntryAt
      <4> QED BY <3>2, <4>1 DEF EntryAt, SameIndexes
    <3> QED BY <1>1, <1>5, <3>1, <3>2, <3>3
  <2>3. InvalidBlockBase' = InvalidBlockBase
    BY DEF InvalidBlockBase
  <2>4. \A h \in 1..Current' : \A s \in 0..(IndexSize(h)' - 1) :
          idxEntries'[EntryAt(h, s)'].key # InvalidBlockBase =>
            \E n \in Int : idxEntries'[EntryAt(h, s)'].key = BaseOf(n)' /\ s = SlotAt(d, h, n)'
    BY <1>0, <1>1, <2>1
  <2>5. \A h \in 1..Current' : h # Current' =>
          /\ idxHeaders'[h].tail \in 0..(IndexSize(h)' - 1)
          /\ idxEntries'[EntryAt(h, idxHeaders[h].tail)'].key # InvalidBlockBase
    BY <1>0, <2>2
  <2> QED BY <2>3, <2>4, <2>5 DEF Keys
<1>7. ASSUME KeysUpTo(d, a, f) PROVE KeysUpTo(d, a, f)'
  <2>1. ASSUME NEW n \in Window(a) PROVE KeyOf(d, n)' = KeyOf(d, n) /\ n \in Int
    <3>1. n \in Int
      <4>1. IndexSize(Current) \in Int
        BY <1>0, CapacityIs
      <4> QED BY <4>1 DEF Window
    <3>2. EntryOf(d, n) \in 1..Len(idxEntries)
      BY <3>1, EntryInWindow
    <3>3. EntryOf(d, n)' = EntryOf(d, n)
      BY <1>1, <3>1
    <3> QED BY <3>1, <3>2, <3>3 DEF KeyOf, SameKeys
  <2>2. \A n \in Window(a)' : KeyOf(d, n)' = IF n >= f THEN BaseOf(n)' ELSE InvalidBlockBase
    BY <1>1, <1>7, <2>1 DEF KeysUpTo
  <2> QED BY <2>2 DEF KeysUpTo, InvalidBlockBase
<1> QED BY <1>4, <1>6, <1>7

-----------------------------------------------------------------------------
(* Writing to the index: a block is put in it, or taken out.                *)
IsWith(more, holds, n, b) ==
  /\ DOMAIN more = DOMAIN holds \union {n} /\ more[n] = b
  /\ \A m \in DOMAIN holds : m # n => more[m] = holds[m]
IsWithout(less, holds, n) ==
  DOMAIN less = DOMAIN holds \ {n} /\ \A m \in DOMAIN less : less[m] = holds[m]

LEMMA WithIs ==
  ASSUME NEW holds, NEW n, NEW b
  PROVE  (\E more : IsWith(more, holds, n, b)) /\ \E less : IsWithout(less, holds, n)
<1>1. IsWith([m \in DOMAIN holds \union {n} |-> IF m = n THEN b ELSE holds[m]], holds, n, b)
  BY DEF IsWith
<1>2. IsWithout([m \in DOMAIN holds \ {n} |-> holds[m]], holds, n)
  BY DEF IsWithout
<1> QED BY <1>1, <1>2

(* One field of an entry, or the tail of the current index, is written.     *)
PutKey(e, k) == idxEntries' = [idxEntries EXCEPT ![e].key = k]
PutValue(e, v) == idxEntries' = [idxEntries EXCEPT ![e].value = v]
PutTail(t) == idxHeaders' = [idxHeaders EXCEPT ![Current].tail = t]

(* One field of one entry.                                                  *)
LEMMA ValueWritten ==
  ASSUME IndexTypes, NEW e \in 1..Len(idxEntries), NEW v \in Blocks \union {NoBlock},
         idxEntries' = [idxEntries EXCEPT ![e].value = v]
  PROVE  /\ idxEntries' \in Seq(EntrySet) /\ Len(idxEntries') = Len(idxEntries) /\ SameKeys
         /\ idxEntries'[e].value = v
         /\ \A g \in 1..Len(idxEntries) : g # e => idxEntries'[g] = idxEntries[g]
<1> DEFINE x == [idxEntries[e] EXCEPT !.value = v]
<1>1. idxEntries \in Seq(EntrySet) /\ idxEntries[e] \in EntrySet
  BY ElementOfSeq DEF IndexTypes
<1>2. x \in EntrySet /\ x.value = v /\ x.key = idxEntries[e].key
  BY <1>1 DEF EntrySet
<1>3. idxEntries' = [idxEntries EXCEPT ![e] = x]
  OBVIOUS
<1> HIDE DEF x
<1>4. /\ idxEntries' \in Seq(EntrySet) /\ Len(idxEntries') = Len(idxEntries) /\ idxEntries'[e] = x
      /\ \A g \in 1..Len(idxEntries) : g # e => idxEntries'[g] = idxEntries[g]
  BY <1>1, <1>2, <1>3, ExceptSeq
<1>5. SameKeys
  BY <1>2, <1>4 DEF SameKeys
<1> QED BY <1>2, <1>4, <1>5

LEMMA KeyWritten ==
  ASSUME IndexTypes, NEW e \in 1..Len(idxEntries), NEW v \in Int,
         idxEntries' = [idxEntries EXCEPT ![e].key = v]
  PROVE  /\ idxEntries' \in Seq(EntrySet) /\ Len(idxEntries') = Len(idxEntries)
         /\ idxEntries'[e].key = v /\ idxEntries'[e].value = idxEntries[e].value
         /\ \A g \in 1..Len(idxEntries) : g # e => idxEntries'[g] = idxEntries[g]
<1> DEFINE x == [idxEntries[e] EXCEPT !.key = v]
<1>1. idxEntries \in Seq(EntrySet) /\ idxEntries[e] \in EntrySet
  BY ElementOfSeq DEF IndexTypes
<1>2. x \in EntrySet /\ x.key = v /\ x.value = idxEntries[e].value
  BY <1>1 DEF EntrySet
<1>3. idxEntries' = [idxEntries EXCEPT ![e] = x]
  OBVIOUS
<1> HIDE DEF x
<1>4. /\ idxEntries' \in Seq(EntrySet) /\ Len(idxEntries') = Len(idxEntries) /\ idxEntries'[e] = x
      /\ \A g \in 1..Len(idxEntries) : g # e => idxEntries'[g] = idxEntries[g]
  BY <1>1, <1>2, <1>3, ExceptSeq
<1> QED BY <1>2, <1>4

(* store_tail and rewind: the tail of the current index.                    *)
LEMMA TailWritten ==
  ASSUME IndexTypes, NEW t \in Int, PutTail(t),
         UNCHANGED <<idxEntries, load>>
  PROVE  IndexTypes' /\ SameIndexes /\ SameKeys /\ Header'.tail = t
<1> USE DEF PutTail
<1> DEFINE x == [idxHeaders[Current] EXCEPT !.tail = t]
<1>0. Current \in 1..Len(idxHeaders)
  BY CurrentIs DEF Current
<1>1. idxHeaders \in Seq(HeaderSet) /\ idxHeaders[Current] \in HeaderSet
  BY <1>0, ElementOfSeq DEF IndexTypes
<1>2. x \in HeaderSet /\ x.tail = t /\ x.index = idxHeaders[Current].index
  BY <1>1 DEF HeaderSet
<1>3. idxHeaders' = [idxHeaders EXCEPT ![Current] = x]
  OBVIOUS
<1> HIDE DEF x
<1>4. /\ idxHeaders' \in Seq(HeaderSet) /\ Len(idxHeaders') = Len(idxHeaders)
      /\ idxHeaders'[Current] = x
      /\ \A g \in 1..Len(idxHeaders) : g # Current => idxHeaders'[g] = idxHeaders[g]
  BY <1>0, <1>1, <1>2, <1>3, ExceptSeq
<1>5. Current' = Current
  BY <1>4 DEF Current
<1>6. IndexTypes'
  <2>1. idxHeaders' # <<>>
    BY <1>0, <1>4, EmptySeq DEF IndexTypes
  <2> QED BY <1>4, <2>1 DEF IndexTypes
<1>7. SameIndexes
  BY <1>2, <1>4, <1>5 DEF SameIndexes, Current
<1>8. Header'.tail = t
  BY <1>2, <1>4 DEF Header, Current
<1> QED BY <1>6, <1>7, <1>8 DEF SameKeys

LEMMA WindowIsInt ==
  ASSUME IndexTypes, NEW a \in Int
  PROVE  \A n \in Window(a) : n \in Int /\ n < a /\ n >= a - IndexSize(Current)
<1>1. IndexSize(Current) \in Int
  BY CurrentIs, CapacityIs
<1> QED BY <1>1 DEF Window

(* Nothing in the index but a tail has changed.                             *)
LEMMA IndexStays ==
  ASSUME NEW d, NEW a \in Int, NEW f, NEW holds, Indexes(d, a, f, holds), IndexTypes', SameIndexes,
         UNCHANGED idxEntries
  PROVE  Indexes(d, a, f, holds)' /\ \A n \in Int : ValueOf(d, n)' = ValueOf(d, n)
<1>1. IndexTypes /\ Shape(d) /\ Keys(d) /\ KeysUpTo(d, a, f) /\ HoldsBlocks(d, a, f, holds)
  BY DEF Indexes
<1>2. Shape(d)' /\ Keys(d)' /\ KeysUpTo(d, a, f)'
  BY <1>1, KeysStay DEF SameKeys
<1>3. /\ \A n \in Int : EntryOf(d, n)' = EntryOf(d, n)
      /\ Window(a)' = Window(a)
  BY <1>1, ViewStays
<1>4. \A n \in Int : ValueOf(d, n)' = ValueOf(d, n)
  BY <1>3 DEF ValueOf
<1>5. HoldsBlocks(d, a, f, holds)'
  BY <1>1, <1>3, <1>4, WindowIsInt DEF HoldsBlocks
<1> QED BY <1>2, <1>4, <1>5 DEF Indexes

(* A value is written: of a block, or that there is none.                   *)
LEMMA ValueSet ==
  ASSUME NEW d, NEW a \in Int, NEW f, NEW holds, Indexes(d, a, f, holds),
         NEW n \in Window(a), NEW v \in Blocks \union {NoBlock}, v \in Blocks => n >= f,
         PutValue(EntryOf(d, n), v), NEW more,
         UNCHANGED <<idxHeaders, load>>
  PROVE  /\ v \in Blocks /\ IsWith(more, holds, n, v) => Indexes(d, a, f, more)'
         /\ v = NoBlock /\ IsWithout(more, holds, n) => Indexes(d, a, f, more)'
         /\ IndexTypes' /\ SameIndexes /\ SameKeys /\ EntryOf(d, n) \in 1..Len(idxEntries)
         /\ \A e \in 1..Len(idxEntries) : e # EntryOf(d, n) => idxEntries'[e] = idxEntries[e]
         /\ idxEntries'[EntryOf(d, n)].value = v
<1>1. IndexTypes /\ Shape(d) /\ Keys(d) /\ KeysUpTo(d, a, f) /\ HoldsBlocks(d, a, f, holds)
  BY DEF Indexes
<1>2. n \in Int
  BY <1>1, WindowIsInt
<1>3. EntryOf(d, n) \in 1..Len(idxEntries)
  BY <1>1, <1>2, EntryInWindow
<1> DEFINE e == EntryOf(d, n)
<1>4. /\ idxEntries' \in Seq(EntrySet) /\ SameKeys /\ idxEntries'[e].value = v
      /\ \A g \in 1..Len(idxEntries) : g # e => idxEntries'[g] = idxEntries[g]
  BY <1>1, <1>3, ValueWritten DEF PutValue
<1>5. SameIndexes
  BY DEF SameIndexes, Current
<1>6. IndexTypes'
  BY <1>1, <1>4 DEF IndexTypes
<1>7. Shape(d)' /\ Keys(d)' /\ KeysUpTo(d, a, f)'
  BY <1>1, <1>4, <1>5, KeysStay
<1>8. (\A m \in Int : EntryOf(d, m)' = EntryOf(d, m)) /\ Window(a)' = Window(a)
  BY <1>1, <1>5, ViewStays
<1>9. ASSUME NEW m \in Window(a)
      PROVE  ValueOf(d, m)' = IF m = n THEN v ELSE ValueOf(d, m)
  <2>1. m \in Int
    BY <1>1, WindowIsInt
  <2>2. EntryOf(d, m)' = EntryOf(d, m) /\ EntryOf(d, m) \in 1..Len(idxEntries)
    BY <1>1, <1>8, <2>1, EntryInWindow
  <2>3. CASE m = n
    BY <1>4, <2>2, <2>3 DEF ValueOf
  <2>4. CASE m # n
    <3>1. EntryOf(d, m) # EntryOf(d, n)
      BY <1>1, <2>4, EntriesDiffer
    <3> QED BY <1>4, <2>2, <2>4, <3>1 DEF ValueOf
  <2> QED BY <2>3, <2>4
<1>10. NoBlock \notin Blocks
  BY ProducerConstants
<1> HIDE DEF e
<1>11. ASSUME v \in Blocks, IsWith(more, holds, n, v) PROVE HoldsBlocks(d, a, f, more)'
  <2>1. /\ DOMAIN more = DOMAIN holds \union {n} /\ more[n] = v
        /\ \A m \in DOMAIN holds : m # n => more[m] = holds[m]
    BY <1>11 DEF IsWith
  <2>2. \A m \in DOMAIN more : /\ m \in Window(a) /\ m >= f
                                /\ ValueOf(d, m)' = more[m] /\ more[m] \in Blocks
    BY <1>1, <1>9, <1>11, <2>1 DEF HoldsBlocks
  <2>3. \A m \in Window(a) : ValueOf(d, m)' \in Blocks => m \in DOMAIN more
    BY <1>1, <1>9, <2>1 DEF HoldsBlocks
  <2> QED BY <1>8, <2>2, <2>3 DEF HoldsBlocks
<1>12. ASSUME v = NoBlock, IsWithout(more, holds, n) PROVE HoldsBlocks(d, a, f, more)'
  <2>1. /\ DOMAIN more = DOMAIN holds \ {n}
        /\ \A m \in DOMAIN more : more[m] = holds[m]
    BY <1>12 DEF IsWithout
  <2>2. \A m \in DOMAIN more : /\ m \in Window(a) /\ m >= f
                                /\ ValueOf(d, m)' = more[m] /\ more[m] \in Blocks
    BY <1>1, <1>9, <2>1 DEF HoldsBlocks
  <2>3. \A m \in Window(a) : ValueOf(d, m)' \in Blocks => m \in DOMAIN more
    BY <1>1, <1>9, <1>10, <1>12, <2>1 DEF HoldsBlocks
  <2> QED BY <1>8, <2>2, <2>3 DEF HoldsBlocks
<1>13. v \in Blocks /\ IsWith(more, holds, n, v) => Indexes(d, a, f, more)'
  BY <1>6, <1>7, <1>11 DEF Indexes
<1>14. v = NoBlock /\ IsWithout(more, holds, n) => Indexes(d, a, f, more)'
  BY <1>6, <1>7, <1>12 DEF Indexes
<1> QED BY <1>3, <1>4, <1>5, <1>6, <1>13, <1>14 DEF e

(* The entry of a block was that of the one a full circle before.           *)
LEMMA EntryAround ==
  ASSUME IndexTypes, NEW d, Shape(d), NEW n \in Int
  PROVE  EntryOf(d, n - IndexSize(Current)) = EntryOf(d, n)
<1> DEFINE C == IndexSize(Current)
           o == d[Current]
           x == n + o
<1>1. C \in Nat \ {0} /\ Current \in 1..Current /\ Current \in Nat
  BY CurrentIs, CapacityIs
<1>2. d \in [Nat -> Int] /\ o \in Int /\ x \in Int
  BY <1>1 DEF Shape
<1>3. (n - C) + o = x + C * (0 - 1) /\ 0 - 1 \in Int
  <2> HIDE DEF C, o
  <2> QED BY <1>1, <1>2
<1>4. ((n - C) + o) % C = (n + o) % C
  <2> DEFINE k == 0 - 1
  <2>1. k \in Int
    OBVIOUS
  <2>2. (n - C) + o = x + C * k
    BY <1>3
  <2>3. (x + C * k) % C = x % C
    <3> HIDE DEF C, x, k
    <3> QED BY <1>1, <1>2, <2>1, AddMultiple
  <2> QED BY <2>2, <2>3
<1> QED BY <1>4 DEF EntryOf, SlotAt

(* insert_block_index_entry: the key of the next block.                     *)
LEMMA KeySet ==
  ASSUME NEW d, NEW a \in Int, NEW f \in Int, NEW holds, Indexes(d, a, f, holds), load \in Loads,
         NEW n \in Int, n >= f, n \in Window(a) \/ (n = a /\ a - IndexSize(Current) \notin DOMAIN holds),
         NEW A \in Int, n = a => A = a + 1, n # a => A = a,
         PutKey(EntryOf(d, n), BaseOf(n)),
         UNCHANGED <<idxHeaders, load>>
  PROVE  /\ Indexes(d, A, f, holds)'
         /\ SameIndexes /\ Len(idxEntries') = Len(idxEntries) /\ EntryOf(d, n) \in 1..Len(idxEntries)
         /\ \A e \in 1..Len(idxEntries) :
              /\ idxEntries'[e].value = idxEntries[e].value
              /\ idxEntries[e].key # InvalidBlockBase => idxEntries'[e].key # InvalidBlockBase
              /\ e # EntryOf(d, n) => idxEntries'[e] = idxEntries[e]
<1> DEFINE C == IndexSize(Current)
           e0 == EntryOf(d, n)
           L == Len(idxEntries)
<1>1. IndexTypes /\ Shape(d) /\ Keys(d) /\ KeysUpTo(d, a, f) /\ HoldsBlocks(d, a, f, holds)
  BY DEF Indexes
<1>2. e0 \in 1..L
  BY <1>1, EntryInWindow
<1>3. BaseOf(n) \in Int /\ BaseOf(n) # InvalidBlockBase
  BY BaseIs
<1>4. /\ idxEntries' \in Seq(EntrySet) /\ Len(idxEntries') = L
      /\ idxEntries'[e0].key = BaseOf(n) /\ idxEntries'[e0].value = idxEntries[e0].value
      /\ \A g \in 1..L : g # e0 => idxEntries'[g] = idxEntries[g]
  BY <1>1, <1>2, <1>3, KeyWritten DEF PutKey
<1>5. SameIndexes
  BY DEF SameIndexes, Current
<1>6. IndexTypes'
  BY <1>1, <1>4 DEF IndexTypes
<1>7. /\ \A h \in 1..Current : IndexSize(h)' = IndexSize(h) /\ \A s : EntryAt(h, s)' = EntryAt(h, s)
      /\ \A h \in 1..Current, m \in Int : SlotAt(d, h, m)' = SlotAt(d, h, m)
      /\ \A m \in Int : EntryOf(d, m)' = EntryOf(d, m)
      /\ \A w \in Int : Window(w)' = Window(w)
      /\ \A m \in Int : BaseOf(m)' = BaseOf(m)
  BY <1>1, <1>5, ViewStays
<1>8. Current' = Current /\ Current \in 1..Current /\ C \in Nat \ {0} /\ IndexSize(Current)' = C
  BY <1>1, CurrentIs, CapacityIs DEF Current, IndexSize
<1>9. RangeOfBases' = RangeOfBases
  BY DEF RangeOfBases
<1>10. Shape(d)'
  <2>1. d \in [Nat -> Int]
    BY <1>1 DEF Shape
  <2>2. \A h \in 1..Current' : RangeOfBases' % IndexSize(h)' = 0 /\ IndexSize(Current)' % IndexSize(h)' = 0
    BY <1>1, <1>7, <1>8, <1>9 DEF Shape
  <2>3. \A h \in 1..Current' : \A s \in 0..(IndexSize(h)' - 1) : EntryAt(h, s)' \in 1..Len(idxEntries')
    BY <1>1, <1>4, <1>7, <1>8 DEF Shape
  <2>4. \A e \in 1..Len(idxEntries') : \E m \in Int : e = EntryOf(d, m)'
    BY <1>1, <1>4, <1>7 DEF Shape
  <2>5. \A h \in 1..Current' : \A s \in 0..(IndexSize(h)' - 1) : \A m \in Int :
          EntryAt(h, s)' = EntryOf(d, m)' => s = SlotAt(d, h, m)'
    BY <1>1, <1>7, <1>8 DEF Shape
  <2> QED BY <2>1, <2>2, <2>3, <2>4, <2>5 DEF Shape
<1>11. \A e \in 1..L :
         /\ idxEntries'[e].value = idxEntries[e].value
         /\ idxEntries[e].key # InvalidBlockBase => idxEntries'[e].key # InvalidBlockBase
         /\ e # EntryOf(d, n) => idxEntries'[e] = idxEntries[e]
  BY <1>3, <1>4
<1>12. Keys(d)'
  <2>1. ASSUME NEW h \in 1..Current, NEW s \in 0..(IndexSize(h) - 1),
               idxEntries'[EntryAt(h, s)].key # InvalidBlockBase
        PROVE  \E m \in Int : idxEntries'[EntryAt(h, s)].key = BaseOf(m) /\ s = SlotAt(d, h, m)
    <3>1. EntryAt(h, s) \in 1..L
      BY <1>1 DEF Shape
    <3>2. CASE EntryAt(h, s) = e0
      <4>1. s = SlotAt(d, h, n)
        BY <1>1, <3>2 DEF Shape
      <4> QED BY <1>4, <3>2, <4>1
    <3>3. CASE EntryAt(h, s) # e0
      BY <1>1, <1>4, <2>1, <3>1, <3>3 DEF Keys
    <3> QED BY <3>2, <3>3
  <2>2. \A h \in 1..Current' : \A s \in 0..(IndexSize(h)' - 1) :
          idxEntries'[EntryAt(h, s)'].key # InvalidBlockBase =>
            \E m \in Int : idxEntries'[EntryAt(h, s)'].key = BaseOf(m)' /\ s = SlotAt(d, h, m)'
    <3> SUFFICES ASSUME NEW h \in 1..Current, NEW s \in 0..(IndexSize(h) - 1),
                        idxEntries'[EntryAt(h, s)].key # InvalidBlockBase
                 PROVE  \E m \in Int : /\ idxEntries'[EntryAt(h, s)].key = BaseOf(m)'
                                       /\ s = SlotAt(d, h, m)'
      BY <1>7, <1>8
    <3>1. PICK m \in Int : idxEntries'[EntryAt(h, s)].key = BaseOf(m) /\ s = SlotAt(d, h, m)
      BY <2>1
    <3> QED BY <1>7, <3>1
  <2>3. \A h \in 1..Current' : h # Current' =>
          /\ idxHeaders'[h].tail \in 0..(IndexSize(h)' - 1)
          /\ idxEntries'[EntryAt(h, idxHeaders[h].tail)'].key # InvalidBlockBase
    <3> SUFFICES ASSUME NEW h \in 1..Current, h # Current
                 PROVE  /\ idxHeaders[h].tail \in 0..(IndexSize(h) - 1)
                        /\ idxEntries'[EntryAt(h, idxHeaders[h].tail)'].key # InvalidBlockBase
      BY <1>7, <1>8
    <3>1. idxHeaders[h].tail \in 0..(IndexSize(h) - 1)
          /\ idxEntries[EntryAt(h, idxHeaders[h].tail)].key # InvalidBlockBase
      BY <1>1 DEF Keys
    <3>2. EntryAt(h, idxHeaders[h].tail) \in 1..L
      BY <1>1, <3>1 DEF Shape
    <3>3. EntryAt(h, idxHeaders[h].tail)' = EntryAt(h, idxHeaders[h].tail)
      BY DEF EntryAt
    <3> QED BY <1>11, <3>1, <3>2, <3>3
  <2> QED BY <2>2, <2>3 DEF Keys, InvalidBlockBase
<1>13. A \in Int /\ Window(A)' = Window(A) /\ Window(A) = (A - C)..(A - 1) /\ Window(a) = (a - C)..(a - 1)
  BY <1>7 DEF Window
<1>14. ASSUME NEW m \in Window(A)
       PROVE  /\ m \in Int /\ EntryOf(d, m) \in 1..L
              /\ m # n => m \in Window(a) /\ EntryOf(d, m) # e0
  <2>1. m \in Int
    BY <1>1, <1>13, WindowIsInt
  <2>2. EntryOf(d, m) \in 1..L
    BY <1>1, <2>1, EntryInWindow
  <2>3. n \in Window(A)
    <3>1. CASE n = a
      <4> HIDE DEF C
      <4> QED BY <1>8, <1>13, <3>1
    <3>2. CASE n # a
      BY <3>2
    <3> QED BY <3>1, <3>2
  <2>4. ASSUME m # n PROVE EntryOf(d, m) # e0
    BY <1>1, <1>13, <2>3, <2>4, EntriesDiffer
  <2>5. ASSUME m # n PROVE m \in Window(a)
    <3>1. CASE n = a
      <4> HIDE DEF C
      <4> QED BY <1>8, <1>13, <2>1, <2>5, <3>1
    <3>2. CASE n # a
      BY <3>2
    <3> QED BY <3>1, <3>2
  <2> QED BY <2>1, <2>2, <2>4, <2>5
<1>15. KeysUpTo(d, A, f)'
  <2>1. ASSUME NEW m \in Window(A)
        PROVE  KeyOf(d, m)' = IF m >= f THEN BaseOf(m) ELSE InvalidBlockBase
    <3>1. KeyOf(d, m)' = idxEntries'[EntryOf(d, m)].key
      BY <1>7, <1>14 DEF KeyOf
    <3>2. CASE m = n
      BY <1>4, <3>1, <3>2
    <3>3. CASE m # n
      BY <1>1, <1>4, <1>14, <3>1, <3>3 DEF KeysUpTo, KeyOf
    <3> QED BY <3>2, <3>3
  <2>2. \A m \in Window(A)' : KeyOf(d, m)' = IF m >= f THEN BaseOf(m)' ELSE InvalidBlockBase'
    BY <1>7, <1>13, <1>14, <2>1 DEF InvalidBlockBase
  <2> QED BY <2>2 DEF KeysUpTo
<1>16. \A m \in Int : ValueOf(d, m)' = ValueOf(d, m)
  <2> TAKE m \in Int
  <2>1. EntryOf(d, m) \in 1..L /\ EntryOf(d, m)' = EntryOf(d, m)
    BY <1>1, <1>7, EntryInWindow
  <2> QED BY <1>11, <2>1 DEF ValueOf
<1>17. HoldsBlocks(d, A, f, holds)'
  <2>1. ASSUME NEW m \in DOMAIN holds
        PROVE  m \in Window(A) /\ m >= f /\ ValueOf(d, m) = holds[m] /\ holds[m] \in Blocks
    <3>1. m \in Window(a) /\ m >= f /\ ValueOf(d, m) = holds[m] /\ holds[m] \in Blocks
      BY <1>1 DEF HoldsBlocks
    <3>2. CASE n = a
      <4>1. n \notin Window(a) /\ m # a - C
        <5>1. m # a - C
          <6>1. n \notin Window(a)
            <7> HIDE DEF C
            <7> QED BY <1>13, <3>2
          <6> QED BY <6>1
        <5>2. n \notin Window(a)
          <6> HIDE DEF C
          <6> QED BY <1>13, <3>2
        <5> QED BY <5>1, <5>2
      <4> HIDE DEF C
      <4> QED BY <1>8, <1>13, <3>1, <3>2, <4>1
    <3>3. CASE n # a
      BY <3>1, <3>3
    <3> QED BY <3>2, <3>3
  <2>2. ASSUME NEW m \in Window(A), ValueOf(d, m) \in Blocks PROVE m \in DOMAIN holds
    <3>1. CASE m \in Window(a)
      BY <1>1, <2>2, <3>1 DEF HoldsBlocks
    <3>2. CASE m \notin Window(a)
      <4>1. m = n /\ n = a /\ a - C \notin DOMAIN holds
        <5>1. m = n
          BY <1>14, <3>2
        <5> QED BY <3>2, <5>1
      <4>2. ValueOf(d, a - C) = ValueOf(d, a)
        BY <1>1, EntryAround DEF ValueOf
      <4>3. a - C \in Window(a)
        <5> HIDE DEF C
        <5> QED BY <1>8, <1>13
      <4> QED BY <1>1, <2>2, <4>1, <4>2, <4>3 DEF HoldsBlocks
    <3> QED BY <3>1, <3>2
  <2>3. \A m \in Window(A) : ValueOf(d, m)' = ValueOf(d, m)
    BY <1>14, <1>16
  <2>4. /\ \A m \in DOMAIN holds : m \in Window(A)' /\ m >= f /\ ValueOf(d, m)' = holds[m] /\ holds[m] \in Blocks
        /\ \A m \in Window(A)' : ValueOf(d, m)' \in Blocks => m \in DOMAIN holds
    <3> QED BY <1>13, <2>1, <2>2, <2>3
  <2> QED BY <2>4 DEF HoldsBlocks
<1>18. Indexes(d, A, f, holds)'
  BY <1>6, <1>10, <1>12, <1>15, <1>17 DEF Indexes
<1> QED BY <1>2, <1>4, <1>5, <1>11, <1>18

(* new_block_index: the new header, with the old entries first.             *)
GrownIndex(a) ==
  LET C == IndexSize(Current)
  IN  /\ idxHeaders' = Append(idxHeaders,
           [tail |-> C - 1,
            index |-> [slot \in 0..(2 * C - 1) |->
                         IF slot < C THEN Header.index[(Header.tail + 1 + slot) % C]
                         ELSE Len(idxEntries) + 1 + slot - C]])
      /\ idxEntries' = idxEntries \o
           [e \in 1..C |-> [key |-> InvalidBlockBase, value |-> Uninitialized]]
Shifted(d, a) == [d EXCEPT ![Current + 1] = IndexSize(Current) - a]

LEMMA GrowthIs ==
  ASSUME IndexTypes, NEW d, Shape(d), NEW a \in Int, GrownIndex(a),
         Header.tail = SlotAt(d, Current, a - 1)
  PROVE  LET C == IndexSize(Current)
             L == Len(idxEntries)
         IN  /\ IndexTypes' /\ Current' = Current + 1 /\ Len(idxEntries') = L + C
             /\ \A h \in 1..Current : idxHeaders'[h] = idxHeaders[h]
             /\ IndexSize(Current)' = 2 * C /\ idxHeaders'[Current + 1].tail = C - 1
             /\ \A e \in 1..L : idxEntries'[e] = idxEntries[e]
             /\ \A e \in (L + 1)..(L + C) : /\ idxEntries'[e].key = InvalidBlockBase
                                            /\ idxEntries'[e].value = Uninitialized
             /\ \A s \in 0..(C - 1) : EntryAt(Current, s)' = EntryOf(d, a - C + s)
             /\ \A s \in C..(2 * C - 1) : EntryAt(Current, s)' = L + 1 + s - C
<1> DEFINE H == Current
           C == IndexSize(H)
           L == Len(idxEntries)
           index == [slot \in 0..(2 * C - 1) |->
                         IF slot < C THEN Header.index[(Header.tail + 1 + slot) % C]
                         ELSE L + 1 + slot - C]
           header == [tail |-> C - 1, index |-> index]
           fresh == [key |-> InvalidBlockBase, value |-> Uninitialized]
           entries == [e \in 1..C |-> fresh]
<1>1. C \in Nat \ {0} /\ H \in 1..H /\ H \in Nat /\ H = Len(idxHeaders) /\ L \in Nat
  BY CurrentIs, CapacityIs, LenProperties DEF IndexTypes, Current
<1>2. Header.tail \in Int /\ \A s \in 0..(C - 1) : Header.index[s] \in Nat
  BY <1>1, CapacityIs DEF Header, EntryAt
<1>3. ASSUME NEW s \in 0..(C - 1)
      PROVE  Header.index[(Header.tail + 1 + s) % C] = EntryOf(d, a - C + s)
  <2> DEFINE o == d[H]
             x == (a - 1) + o
             g == 1 + s
  <2>1. o \in Int /\ x \in Int /\ g \in Int /\ a + s \in Int /\ d \in [Nat -> Int]
    BY <1>1 DEF Shape
  <2>2. Header.tail = x % C
    BY DEF SlotAt
  <2>3. ((x % C) + g) % C = (x + g) % C
    <3> HIDE DEF C, x, g
    <3> QED BY <1>1, <2>1, RestOfSum
  <2>4. Header.tail + 1 + s = (x % C) + g /\ x + g = (a + s) + o
    BY <1>2, <2>1, <2>2
  <2>5. (Header.tail + 1 + s) % C = SlotAt(d, H, a + s)
    BY <2>3, <2>4 DEF SlotAt
  <2>6. Header.index[SlotAt(d, H, a + s)] = EntryOf(d, a + s)
    BY <1>1 DEF Header, EntryOf, EntryAt
  <2>7. EntryOf(d, (a + s) - C) = EntryOf(d, a + s)
    BY <2>1, EntryAround
  <2>8. (a + s) - C = a - C + s
    <3> HIDE DEF C
    <3> QED BY <1>1
  <2> QED BY <2>5, <2>6, <2>7, <2>8
<1>4. ASSUME NEW s \in 0..(C - 1) PROVE EntryOf(d, a - C + s) \in 1..L
  <2>1. a - C + s \in Int
    <3> HIDE DEF C
    <3> QED BY <1>1
  <2> QED BY <2>1, EntryInWindow
<1>5. index \in [0..(2 * C - 1) -> Nat]
  <2> SUFFICES ASSUME NEW s \in 0..(2 * C - 1)
               PROVE  (IF s < C THEN Header.index[(Header.tail + 1 + s) % C] ELSE L + 1 + s - C) \in Nat
    OBVIOUS
  <2>1. CASE s < C
    <3>1. s \in 0..(C - 1)
      <4> HIDE DEF C
      <4> QED BY <1>1, <2>1
    <3>2. EntryOf(d, a - C + s) \in Nat
      BY <1>4, <3>1
    <3> QED BY <1>3, <2>1, <3>1, <3>2
  <2>2. CASE ~(s < C)
    <3> HIDE DEF C, L
    <3> QED BY <1>1, <2>2
  <2> QED BY <2>1, <2>2
<1>6. \A s \in 0..(C - 1) : index[s] = EntryOf(d, a - C + s)
  <2> TAKE s \in 0..(C - 1)
  <2>1. s \in 0..(2 * C - 1) /\ s < C
    <3> HIDE DEF C
    <3> QED BY <1>1
  <2> QED BY <1>3, <2>1
<1>7. \A s \in C..(2 * C - 1) : index[s] = L + 1 + s - C
  <2> TAKE s \in C..(2 * C - 1)
  <2>1. s \in 0..(2 * C - 1) /\ ~(s < C)
    <3> HIDE DEF C
    <3> QED BY <1>1
  <2> QED BY <2>1
<1>8. header \in HeaderSet /\ header.tail = C - 1 /\ header.index = index
  <2>1. 2 * C \in Nat \ {0} /\ C - 1 \in Int
    <3> HIDE DEF C
    <3> QED BY <1>1
  <2> HIDE DEF index
  <2> DEFINE w == 2 * C
  <2>2. w \in Nat \ {0} /\ index \in [0..(w - 1) -> Nat]
    BY <1>5, <2>1
  <2> HIDE DEF w
  <2>3. index \in UNION {[0..(k - 1) -> Nat] : k \in Nat \ {0}}
    BY <2>2
  <2> HIDE DEF C
  <2> QED BY <2>1, <2>3 DEF HeaderSet
<1>9. idxHeaders' = Append(idxHeaders, header) /\ idxEntries' = idxEntries \o entries
  BY DEF GrownIndex
<1> HIDE DEF index, header
<1>10. /\ idxHeaders' \in Seq(HeaderSet) /\ Len(idxHeaders') = H + 1
       /\ idxHeaders'[H + 1] = header
       /\ \A h \in 1..H : idxHeaders'[h] = idxHeaders[h]
  BY <1>1, <1>8, <1>9, AppendProperties DEF IndexTypes
<1>11. entries \in Seq(EntrySet) /\ Len(entries) = C /\ \A e \in 1..C : entries[e] = fresh
  <2>1. fresh \in EntrySet
    <3>1. InvalidBlockBase \in Int
      BY DEF InvalidBlockBase
    <3> QED BY <3>1 DEF EntrySet
  <2> HIDE DEF fresh, C
  <2>2. entries \in [1..C -> EntrySet]
    BY <2>1
  <2> QED BY <1>1, <2>2
<1>12. /\ idxEntries' \in Seq(EntrySet) /\ Len(idxEntries') = L + C
       /\ \A e \in 1..L : idxEntries'[e] = idxEntries[e]
       /\ \A e \in (L + 1)..(L + C) : idxEntries'[e] = fresh
  <2>1. idxEntries \in Seq(EntrySet)
    BY DEF IndexTypes
  <2> HIDE DEF entries, fresh
  <2>2. /\ idxEntries \o entries \in Seq(EntrySet)
        /\ Len(idxEntries \o entries) = Len(idxEntries) + Len(entries)
        /\ \A i \in 1 .. Len(idxEntries) + Len(entries) :
             (idxEntries \o entries)[i] =
               IF i <= Len(idxEntries) THEN idxEntries[i] ELSE entries[i - Len(idxEntries)]
    BY <1>11, <2>1, ConcatProperties
  <2>3. idxEntries' \in Seq(EntrySet) /\ Len(idxEntries') = L + C
    BY <1>9, <1>11, <2>2
  <2>4. \A i \in 1..(L + C) : idxEntries'[i] = IF i <= L THEN idxEntries[i] ELSE entries[i - L]
    BY <1>9, <1>11, <2>2
  <2>5. \A e \in 1..L : idxEntries'[e] = idxEntries[e]
    <3> HIDE DEF L, C
    <3> QED BY <1>1, <2>4
  <2>6. \A e \in (L + 1)..(L + C) : idxEntries'[e] = fresh
    <3> HIDE DEF L, C
    <3> TAKE e \in (L + 1)..(L + C)
    <3>1. e \in 1..(L + C) /\ ~(e <= L) /\ e - L \in 1..C
      BY <1>1
    <3> QED BY <1>11, <2>4, <3>1
  <2> QED BY <2>3, <2>5, <2>6
<1>13. Current' = H + 1
  BY <1>10 DEF Current
<1>14. IndexTypes'
  <2>1. idxHeaders' # <<>>
    BY <1>1, <1>10, EmptySeq
  <2> QED BY <1>10, <1>12, <2>1 DEF IndexTypes
<1>15. IndexSize(Current)' = 2 * C
  <2>1. DOMAIN index = 0..(2 * C - 1)
    BY <1>5
  <2>2. Cardinality(0..(2 * C - 1)) = 2 * C
    <3> DEFINE w == 2 * C
               zero == 0
    <3>1. zero \in Int /\ w - 1 \in Int /\ ~(zero > w - 1) /\ (w - 1) - zero + 1 = w
      <4> HIDE DEF C
      <4> QED BY <1>1
    <3> HIDE DEF w, zero
    <3>2. Cardinality(zero..(w - 1)) = w
      BY <3>1, FS_Interval
    <3> QED BY <3>2 DEF w, zero
  <2>3. IndexSize(Current)' = Cardinality(DOMAIN idxHeaders'[H + 1].index)
    BY <1>13 DEF IndexSize
  <2> QED BY <1>8, <1>10, <2>1, <2>2, <2>3
<1>16. ASSUME NEW s PROVE EntryAt(Current, s)' = index[s]
  BY <1>8, <1>10, <1>13 DEF EntryAt
<1>17. \A s \in 0..(C - 1) : EntryAt(Current, s)' = EntryOf(d, a - C + s)
  BY <1>6, <1>16
<1>18. \A s \in C..(2 * C - 1) : EntryAt(Current, s)' = L + 1 + s - C
  BY <1>7, <1>16
<1>19. idxHeaders'[H + 1].tail = C - 1
  BY <1>8, <1>10
<1>20. \A e \in (L + 1)..(L + C) : idxEntries'[e].key = InvalidBlockBase /\ idxEntries'[e].value = Uninitialized
  BY <1>12
<1>21. (\A h \in 1..H : idxHeaders'[h] = idxHeaders[h]) /\ Len(idxEntries') = L + C
       /\ \A e \in 1..L : idxEntries'[e] = idxEntries[e]
  BY <1>10, <1>12
<1> HIDE DEF index, header, fresh, entries
<1> QED BY <1>13, <1>14, <1>15, <1>17, <1>18, <1>19, <1>20, <1>21

(* The new index holds what the old one held.                               *)
LEMMA IndexGrows ==
  ASSUME NEW d, NEW a \in Int, NEW f \in Int, NEW holds, Indexes(d, a, f, holds), load \in Loads,
         GrownIndex(a), load' = load, Header.tail = SlotAt(d, Current, a - 1),
         NEW C, C = IndexSize(Current), NEW D, D = Shifted(d, a), f <= a - C, RangeOfBases % (2 * C) = 0,
         NEW F, F = a - C
  PROVE  /\ Indexes(D, a, F, holds)' /\ Current' = Current + 1
         /\ \A h \in 1..Current : IndexSize(h)' = IndexSize(h) /\ D[h] = d[h]
         /\ \A h \in 1..Current : \A s : EntryAt(h, s)' = EntryAt(h, s)
         /\ \A n \in Window(a) : EntryOf(D, n)' = EntryOf(d, n)
         /\ \A e \in 1..Len(idxEntries) : idxEntries'[e] = idxEntries[e]
         /\ 1..Len(idxEntries) \subseteq 1..Len(idxEntries)'
         /\ \A e \in (1..Len(idxEntries))' \ (1..Len(idxEntries)) :
              idxEntries'[e].key = InvalidBlockBase
         /\ Header'.tail = SlotAt(D, Current, a - 1)'
         /\ IndexSize(Current)' = 2 * C
<1> DEFINE o == d[Current]
           new(n) == (n + (C - a)) % (2 * C)
<1>0. PICK H, L : H = Current /\ L = Len(idxEntries)
  OBVIOUS
<1>1. IndexTypes /\ Shape(d) /\ Keys(d) /\ KeysUpTo(d, a, f) /\ HoldsBlocks(d, a, f, holds)
  BY DEF Indexes
<1>2. C \in Nat \ {0} /\ H \in 1..H /\ H \in Nat /\ L \in Nat /\ C \in Int
  BY <1>0, <1>1, CurrentIs, CapacityIs, LenProperties DEF IndexTypes
<1>3. /\ IndexTypes' /\ Current' = H + 1 /\ Len(idxEntries') = L + C
      /\ \A h \in 1..H : idxHeaders'[h] = idxHeaders[h]
      /\ IndexSize(Current)' = 2 * C /\ idxHeaders'[H + 1].tail = C - 1
      /\ \A e \in 1..L : idxEntries'[e] = idxEntries[e]
      /\ \A e \in (L + 1)..(L + C) : /\ idxEntries'[e].key = InvalidBlockBase
                                     /\ idxEntries'[e].value = Uninitialized
      /\ \A s \in 0..(C - 1) : EntryAt(Current, s)' = EntryOf(d, a - C + s)
      /\ \A s \in C..(2 * C - 1) : EntryAt(Current, s)' = L + 1 + s - C
  BY <1>0, <1>1, GrowthIs
<1>4. d \in [Nat -> Int] /\ D \in [Nat -> Int] /\ o \in Int /\ D[H + 1] = C - a
      /\ \A h \in 1..H : D[h] = d[h]
  <2>1. d \in [Nat -> Int]
    BY <1>1 DEF Shape
  <2>2. C - a \in Int /\ H + 1 \in Nat /\ \A h \in 1..H : h # H + 1 /\ h \in Nat
    BY <1>2
  <2> QED BY <1>0, <1>2, <2>1, <2>2 DEF Shifted
<1>5. \A h \in 1..H : IndexSize(h)' = IndexSize(h) /\ \A s : EntryAt(h, s)' = EntryAt(h, s)
  BY <1>3 DEF IndexSize, EntryAt
<1>6. \A n : BaseOf(n)' = BaseOf(n)
  BY DEF BaseOf, startIndex, Wrap
<1>7. \A n : SlotAt(D, Current, n)' = new(n)
  <2> TAKE n
  <2>1. SlotAt(D, Current, n)' = (n + D[Current']) % IndexSize(Current)'
    BY DEF SlotAt
  <2> QED BY <1>3, <1>4, <2>1
<1>8. \A h \in 1..H : \A n : SlotAt(D, h, n)' = SlotAt(d, h, n)
  BY <1>4, <1>5 DEF SlotAt
<1>9. ASSUME NEW n \in Int
      PROVE  /\ new(n) \in 0..(2 * C - 1)
             /\ n \in (a - C)..(a - 1) => new(n) = n + (C - a) /\ n + (C - a) \in 0..(C - 1)
             /\ n \in (a - 2 * C)..(a - C - 1) =>
                  new(n) = n + (C - a) + 2 * C /\ n + (C - a) + 2 * C \in C..(2 * C - 1)
  <2>1. n + (C - a) \in Int /\ 2 * C \in Nat \ {0}
    BY <1>2
  <2>2. new(n) \in 0..(2 * C - 1)
    BY <2>1, Divides
  <2> QED BY <1>2, <2>2, NewSlots
<1>10. \A n : EntryOf(D, n)' = EntryAt(Current, new(n))'
  <2> TAKE n
  <2>1. SlotAt(D, Current, n)' = new(n)
    BY <1>7
  <2> QED BY <2>1 DEF EntryOf, EntryAt
<1>11. Window(a) = (a - C)..(a - 1)
  BY DEF Window
<1>12. ASSUME NEW n \in Window(a) PROVE EntryOf(D, n)' = EntryOf(d, n) /\ n \in Int
  <2>1. n \in Int /\ a - C + (n + (C - a)) = n
    BY <1>2, <1>11
  <2>2. new(n) = n + (C - a) /\ n + (C - a) \in 0..(C - 1)
    BY <1>9, <1>11, <2>1
  <2> DEFINE t == n + (C - a)
  <2>3. EntryAt(Current, t)' = EntryOf(d, a - C + t)
    BY <1>3, <2>2
  <2>4. EntryOf(D, n)' = EntryAt(Current, t)'
    BY <1>10, <2>2
  <2> QED BY <2>1, <2>3, <2>4
<1>13. ASSUME NEW n \in (a - 2 * C)..(a - C - 1)
       PROVE  EntryOf(D, n)' = L + 1 + n + 2 * C - a /\ EntryOf(D, n)' \in (L + 1)..(L + C)
  <2> DEFINE t == n + (C - a) + 2 * C
  <2>1. n \in Int /\ L + 1 + t - C = L + 1 + n + 2 * C - a
    BY <1>2
  <2>2. new(n) = t /\ t \in C..(2 * C - 1)
    BY <1>9, <2>1
  <2>3. EntryAt(Current, t)' = L + 1 + t - C
    BY <1>3, <2>2
  <2>4. EntryOf(D, n)' = EntryAt(Current, t)'
    BY <1>10, <2>2
  <2>5. L + 1 + t - C \in (L + 1)..(L + C)
    BY <1>2, <2>2
  <2> QED BY <2>1, <2>3, <2>4, <2>5
(* The entries of the new index, by slot.                                   *)
<1>14. ASSUME NEW s \in 0..(2 * C - 1)
       PROVE  \/ /\ s \in 0..(C - 1) /\ a - C + s \in Window(a)
                 /\ EntryAt(Current, s)' = EntryOf(d, a - C + s)
                 /\ EntryAt(Current, s)' \in 1..L /\ new(a - C + s) = s
              \/ /\ s \in C..(2 * C - 1) /\ EntryAt(Current, s)' = L + 1 + s - C
                 /\ EntryAt(Current, s)' \in (L + 1)..(L + C)
  <2>1. s \in 0..(C - 1) \/ s \in C..(2 * C - 1)
    BY <1>2
  <2>2. CASE s \in 0..(C - 1)
    <3> DEFINE n == a - C + s
    <3>1. n \in (a - C)..(a - 1) /\ n \in Int /\ n + (C - a) = s
      BY <1>2, <2>2
    <3>2. new(n) = s
      BY <1>9, <3>1
    <3>3. EntryOf(d, n) \in 1..L
      BY <1>0, <1>1, <3>1, EntryInWindow
    <3> QED BY <1>3, <1>11, <2>2, <3>1, <3>2, <3>3
  <2>3. CASE s \in C..(2 * C - 1)
    <3>1. EntryAt(Current, s)' = L + 1 + s - C
      BY <1>3, <2>3
    <3>2. L + 1 + s - C \in (L + 1)..(L + C)
      BY <1>2, <2>3
    <3> QED BY <2>3, <3>1, <3>2
  <2> QED BY <2>1, <2>2, <2>3
<1>15. \A e \in 1..L : e \notin (L + 1)..(L + C) /\ e \in 1..(L + C)
  BY <1>2
<1>16. \A e \in (L + 1)..(L + C) : e \in 1..(L + C)
  BY <1>2
<1> HIDE DEF o, new
<1>17. Shape(D)'
  <2>1. \A h \in 1..(H + 1) : RangeOfBases' % IndexSize(h)' = 0 /\ IndexSize(Current)' % IndexSize(h)' = 0
    <3>1. ASSUME NEW h \in 1..H
          PROVE  RangeOfBases % IndexSize(h) = 0 /\ (2 * C) % IndexSize(h) = 0
      <4>1. RangeOfBases % IndexSize(h) = 0 /\ C % IndexSize(h) = 0
        BY <1>0, <1>1 DEF Shape
      <4>2. IndexSize(h) \in Nat \ {0}
        BY <1>0, <1>1, CapacityIs
      <4> QED BY <1>2, <4>1, <4>2, DivisorOfDouble
    <3>2. RangeOfBases % (2 * C) = 0 /\ (2 * C) % (2 * C) = 0
      <4>1. C % C = 0
        <5>1. (C * 1) + 0 = C /\ 0 \in 0..(C - 1)
          BY <1>2
        <5> DEFINE one == 1
                   zero == 0
        <5>2. C = C * one + zero /\ one \in Int /\ zero \in 0..(C - 1)
          BY <1>2, <5>1
        <5> HIDE DEF one, zero
        <5>3. C % C = zero
          BY <1>2, <5>2, Division
        <5> QED BY <5>3 DEF zero
      <4>2. (2 * C) % (2 * C) = 0
        BY <1>2, <4>1, DivisorOfDouble
      <4> QED BY <4>2
    <3>3. \A h \in 1..(H + 1) : h \in 1..H \/ h = H + 1
      BY <1>2
    <3>4. RangeOfBases' = RangeOfBases
      BY DEF RangeOfBases
    <3>5. ASSUME NEW h, h = H + 1 PROVE IndexSize(h)' = 2 * C
      <4>1. h = Current'
        BY <1>3, <3>5
      <4>2. IndexSize(h)' = Cardinality(DOMAIN idxHeaders'[h].index)
        BY DEF IndexSize
      <4>3. IndexSize(Current)' = Cardinality(DOMAIN idxHeaders'[Current'].index)
        BY DEF IndexSize
      <4> QED BY <1>3, <4>1, <4>2, <4>3
    <3> SUFFICES ASSUME NEW h \in 1..(H + 1)
                 PROVE  RangeOfBases' % IndexSize(h)' = 0 /\ IndexSize(Current)' % IndexSize(h)' = 0
      OBVIOUS
    <3>6. CASE h \in 1..H
      BY <1>3, <1>5, <3>1, <3>4, <3>6
    <3>7. CASE h = H + 1
      BY <1>3, <3>2, <3>4, <3>5, <3>7
    <3> QED BY <3>3, <3>6, <3>7
  <2>2. ASSUME NEW h \in 1..(H + 1), NEW s \in 0..(IndexSize(h)' - 1)
        PROVE  \/ h \in 1..H /\ s \in 0..(IndexSize(h) - 1) /\ EntryAt(h, s)' = EntryAt(h, s)
                  /\ EntryAt(h, s) \in 1..L
               \/ h = H + 1 /\ s \in 0..(2 * C - 1) /\ EntryAt(h, s)' = EntryAt(Current, s)'
    <3>1. h \in 1..H \/ h = H + 1
      BY <1>2
    <3>2. CASE h \in 1..H
      BY <1>0, <1>1, <1>5, <2>2, <3>2 DEF Shape
    <3>3. CASE h = H + 1
      <4>1. IndexSize(h)' = IndexSize(Current)'
        BY <1>3, <3>3 DEF IndexSize
      <4>2. EntryAt(h, s)' = EntryAt(Current, s)'
        BY <1>3, <3>3 DEF EntryAt
      <4> QED BY <1>3, <2>2, <3>3, <4>1, <4>2
    <3> QED BY <3>1, <3>2, <3>3
  <2>3. \A h \in 1..(H + 1) : \A s \in 0..(IndexSize(h)' - 1) : EntryAt(h, s)' \in 1..(L + C)
    BY <1>14, <1>15, <1>16, <2>2
  <2>4. \A e \in 1..(L + C) : \E n \in Int : e = EntryOf(D, n)'
    <3> SUFFICES ASSUME NEW e \in 1..(L + C) PROVE \E n \in Int : e = EntryOf(D, n)'
      OBVIOUS
    <3>1. CASE e \in 1..L
      <4>1. PICK n \in Int : e = EntryOf(d, n)
        BY <1>0, <1>1, <3>1 DEF Shape
      <4>2. PICK m \in Window(a) : EntryOf(d, n) = EntryOf(d, m)
        BY <1>1, EntryInWindow
      <4> QED BY <1>12, <4>1, <4>2
    <3>2. CASE e \notin 1..L
      <4> DEFINE n == e - L - 1 - 2 * C + a
      <4>1. n \in (a - 2 * C)..(a - C - 1) /\ n \in Int /\ L + 1 + n + 2 * C - a = e
        BY <1>2, <3>2
      <4> HIDE DEF n
      <4> QED BY <1>13, <4>1
    <3> QED BY <3>1, <3>2
  <2>5. ASSUME NEW h \in 1..(H + 1), NEW s \in 0..(IndexSize(h)' - 1), NEW n \in Int,
               EntryAt(h, s)' = EntryOf(D, n)'
        PROVE  s = SlotAt(D, h, n)'
    <3>0. PICK t : t = new(n)
      OBVIOUS
    <3>1. t \in 0..(2 * C - 1) /\ EntryOf(D, n)' = EntryAt(Current, t)'
      BY <1>9, <1>10, <3>0
    <3>2. CASE h = H + 1
      <4>1. s \in 0..(2 * C - 1) /\ EntryAt(Current, s)' = EntryAt(Current, t)'
        <5>1. h \notin 1..H
          BY <1>2, <3>2
        <5> QED BY <2>2, <2>5, <3>1, <5>1
      <4>2. s = t
        <5>1. CASE s \in 0..(C - 1) /\ t \in 0..(C - 1)
          <6>1. EntryOf(d, a - C + s) = EntryOf(d, a - C + t) /\ a - C + s \in Window(a)
                /\ a - C + t \in Window(a)
            <7>1. ~(s \in C..(2 * C - 1)) /\ ~(t \in C..(2 * C - 1))
              BY <1>2, <5>1
            <7> QED BY <1>14, <3>1, <4>1, <7>1
          <6>2. a - C + s = a - C + t
            BY <1>1, <6>1, EntriesDiffer
          <6> QED BY <1>2, <5>1, <6>2
        <5>2. CASE s \in C..(2 * C - 1) /\ t \in C..(2 * C - 1)
          <6>1. ~(s \in 0..(C - 1)) /\ ~(t \in 0..(C - 1))
            BY <1>2, <5>2
          <6>2. L + 1 + s - C = L + 1 + t - C
            BY <1>14, <3>1, <4>1, <6>1
          <6> QED BY <1>2, <5>2, <6>2
        <5>3. CASE ~(s \in 0..(C - 1) /\ t \in 0..(C - 1)) /\ ~(s \in C..(2 * C - 1) /\ t \in C..(2 * C - 1))
          <6>1. \/ EntryAt(Current, s)' \in 1..L /\ EntryAt(Current, t)' \in (L + 1)..(L + C)
                \/ EntryAt(Current, t)' \in 1..L /\ EntryAt(Current, s)' \in (L + 1)..(L + C)
            BY <1>14, <3>1, <4>1, <5>3
          <6> QED BY <1>15, <4>1, <6>1
        <5> QED BY <5>1, <5>2, <5>3
      <4>3. SlotAt(D, h, n)' = SlotAt(D, Current, n)'
        BY <1>3, <3>2 DEF SlotAt, IndexSize
      <4> QED BY <1>7, <4>2, <4>3, <3>0
    <3>3. CASE h \in 1..H
      <4>1. h # H + 1
        BY <1>2, <3>3
      <4>2. s \in 0..(IndexSize(h) - 1) /\ EntryAt(h, s) \in 1..L /\ EntryAt(h, s) = EntryAt(Current, t)'
        BY <2>2, <2>5, <3>1, <4>1
      <4> DEFINE m == a - C + t
      <4>3. m \in Window(a) /\ EntryAt(h, s) = EntryOf(d, m) /\ new(m) = t
        BY <1>14, <1>15, <3>1, <4>2
      <4>4. m \in Int
        BY <1>1, <4>3, WindowIsInt
      <4>5. s = SlotAt(d, h, m)
        BY <1>0, <1>1, <3>3, <4>2, <4>3, <4>4 DEF Shape
      <4>6. (m + (C - a)) % (2 * C) = (n + (C - a)) % (2 * C)
        BY <3>0, <4>3 DEF new
      <4>7. IndexSize(h) \in Nat \ {0} /\ d[h] \in Int /\ (2 * C) % IndexSize(h) = 0 /\ 2 * C \in Nat \ {0}
            /\ C - a \in Int
        <5>1. IndexSize(h) \in Nat \ {0} /\ C % IndexSize(h) = 0
          BY <1>0, <1>1, <3>3, CapacityIs DEF Shape
        <5>2. h \in Nat
          BY <1>2, <3>3
        <5>3. (2 * C) % IndexSize(h) = 0
          BY <1>2, <5>1, DivisorOfDouble
        <5> QED BY <1>2, <1>4, <5>1, <5>2, <5>3
      <4> HIDE DEF m
      <4>8. (m + d[h]) % IndexSize(h) = (n + d[h]) % IndexSize(h)
        <5>1. PICK w, r, k, p : w = 2 * C /\ r = C - a /\ k = IndexSize(h) /\ p = d[h]
          OBVIOUS
        <5>2. w \in Nat \ {0} /\ k \in Nat \ {0} /\ w % k = 0 /\ r \in Int /\ p \in Int
          BY <4>7, <5>1
        <5>3. (m + r) % w = (n + r) % w
          BY <4>6, <5>1
        <5>4. Divisible(w, k) /\ Congruent(m + r, n + r, w)
          BY <5>2, <5>3 DEF Divisible, Congruent
        <5>6. Congruent(m + p, n + p, k)
          BY <4>4, <5>2, <5>4, SlotsBelow
        <5> QED BY <5>1, <5>6 DEF Congruent
      <4> QED BY <1>8, <3>3, <4>5, <4>8 DEF SlotAt
    <3>4. h \in 1..H \/ h = H + 1
      BY <1>2
    <3> QED BY <3>2, <3>3, <3>4
  <2> QED BY <1>3, <1>4, <2>1, <2>3, <2>4, <2>5 DEF Shape
<1>18. \A e \in 1..(L + C) : e \notin 1..L => e \in (L + 1)..(L + C)
  BY <1>2
<1>19. ASSUME NEW n \in Window(a)
      PROVE  KeyOf(D, n)' = KeyOf(d, n) /\ ValueOf(D, n)' = ValueOf(d, n)
  <2>1. EntryOf(D, n)' = EntryOf(d, n) /\ EntryOf(d, n) \in 1..L
    BY <1>0, <1>1, <1>12, EntryInWindow
  <2> QED BY <1>3, <2>1 DEF KeyOf, ValueOf
<1>20. ASSUME NEW n \in (a - 2 * C)..(a - C - 1)
       PROVE  KeyOf(D, n)' = InvalidBlockBase /\ ValueOf(D, n)' = Uninitialized
  BY <1>3, <1>13 DEF KeyOf, ValueOf
<1>21. Window(a)' = (a - 2 * C)..(a - 1)
  BY <1>3 DEF Window
<1>22. ASSUME NEW n \in (a - 2 * C)..(a - 1)
       PROVE  \/ n \in Window(a) /\ n >= a - C
              \/ n \in (a - 2 * C)..(a - C - 1) /\ ~(n >= a - C)
  BY <1>0, <1>2, <1>11
<1>23. \A n \in Window(a) : n >= f /\ n \in (a - 2 * C)..(a - 1) /\ KeyOf(d, n) = BaseOf(n)
  <2> TAKE n \in Window(a)
  <2>1. n >= f /\ n \in (a - 2 * C)..(a - 1)
    BY <1>0, <1>2, <1>11
  <2> QED BY <1>1, <2>1 DEF KeysUpTo
<1>24. KeysUpTo(D, a, a - C)'
  <2>1. \A n \in Window(a)' : KeyOf(D, n)' = IF n >= a - C THEN BaseOf(n)' ELSE InvalidBlockBase'
    BY <1>6, <1>19, <1>20, <1>21, <1>22, <1>23 DEF InvalidBlockBase
  <2> QED BY <2>1 DEF KeysUpTo
<1>25. HoldsBlocks(D, a, a - C, holds)'
  <2>1. Uninitialized \notin Blocks
    BY ImplicitConstants
  <2>2. ASSUME NEW n \in DOMAIN holds
        PROVE  n \in Window(a)' /\ n >= a - C /\ ValueOf(D, n)' = holds[n] /\ holds[n] \in Blocks
    <3>1. n \in Window(a) /\ ValueOf(d, n) = holds[n] /\ holds[n] \in Blocks
      BY <1>1 DEF HoldsBlocks
    <3>2. n >= a - C
      BY <1>0, <1>2, <1>11, <3>1
    <3> QED BY <1>19, <1>21, <1>23, <3>1, <3>2
  <2>3. ASSUME NEW n \in (a - 2 * C)..(a - 1), ValueOf(D, n)' \in Blocks PROVE n \in DOMAIN holds
    BY <1>1, <1>19, <1>20, <1>22, <2>1, <2>3 DEF HoldsBlocks
  <2> QED BY <1>21, <2>2, <2>3 DEF HoldsBlocks
<1>26. ASSUME NEW h \in 1..(H + 1)
       PROVE  \/ h \in 1..H /\ IndexSize(h)' = IndexSize(h)
              \/ /\ h = H + 1 /\ h = Current' /\ IndexSize(h)' = 2 * C
                 /\ \A s : EntryAt(h, s)' = EntryAt(Current, s)'
                 /\ \A n : SlotAt(D, h, n)' = new(n)
  <2>1. h \in 1..H \/ h = H + 1
    BY <1>2
  <2>2. CASE h \in 1..H
    BY <1>5, <2>2
  <2>3. CASE h = H + 1
    <3>1. IndexSize(h)' = IndexSize(Current)' /\ \A s : EntryAt(h, s)' = EntryAt(Current, s)'
      BY <1>3, <2>3 DEF IndexSize, EntryAt
    <3>2. \A n : SlotAt(D, h, n)' = SlotAt(D, Current, n)'
      BY <1>3, <2>3, <3>1 DEF SlotAt
    <3> QED BY <1>3, <1>7, <2>3, <3>1, <3>2
  <2> QED BY <2>1, <2>2, <2>3
<1>27. Keys(D)'
  <2>1. ASSUME NEW h \in 1..(H + 1), NEW s \in 0..(IndexSize(h)' - 1),
               idxEntries'[EntryAt(h, s)'].key # InvalidBlockBase
        PROVE  \E n \in Int : idxEntries'[EntryAt(h, s)'].key = BaseOf(n)' /\ s = SlotAt(D, h, n)'
    <3>1. CASE h \in 1..H /\ IndexSize(h)' = IndexSize(h)
      <4>1. EntryAt(h, s)' = EntryAt(h, s) /\ EntryAt(h, s) \in 1..L /\ s \in 0..(IndexSize(h) - 1)
        BY <1>0, <1>1, <1>5, <3>1 DEF Shape
      <4>2. idxEntries[EntryAt(h, s)].key # InvalidBlockBase
        BY <1>3, <2>1, <4>1
      <4>3. PICK n \in Int : idxEntries[EntryAt(h, s)].key = BaseOf(n) /\ s = SlotAt(d, h, n)
        BY <1>0, <1>1, <3>1, <4>1, <4>2 DEF Keys
      <4> QED BY <1>3, <1>6, <1>8, <3>1, <4>1, <4>3
    <3>2. CASE /\ IndexSize(h)' = 2 * C /\ \A r : EntryAt(h, r)' = EntryAt(Current, r)'
               /\ \A n : SlotAt(D, h, n)' = new(n)
      <4>1. s \in 0..(2 * C - 1)
        BY <3>2
      <4> DEFINE n == a - C + s
      <4>2. /\ n \in Window(a) /\ EntryAt(Current, s)' = EntryOf(d, n)
            /\ EntryAt(Current, s)' \in 1..L /\ new(n) = s
        <5>1. ~(EntryAt(Current, s)' \in (L + 1)..(L + C))
          BY <1>3, <2>1, <3>2
        <5> QED BY <1>14, <4>1, <5>1
      <4> HIDE DEF n
      <4>3. n \in Int
        BY <1>1, <4>2, WindowIsInt
      <4>4. idxEntries'[EntryAt(h, s)'].key = BaseOf(n)'
        BY <1>3, <1>6, <1>23, <3>2, <4>2 DEF KeyOf
      <4> QED BY <3>2, <4>2, <4>3, <4>4
    <3> QED BY <1>26, <3>1, <3>2
  <2>2. ASSUME NEW h \in 1..(H + 1), h # H + 1
        PROVE  /\ idxHeaders'[h].tail \in 0..(IndexSize(h)' - 1)
               /\ idxEntries'[EntryAt(h, idxHeaders[h].tail)'].key # InvalidBlockBase
    <3>1. h \in 1..H /\ idxHeaders'[h] = idxHeaders[h] /\ IndexSize(h)' = IndexSize(h)
      BY <1>3, <1>5, <1>26, <2>2
    <3>2. EntryAt(h, idxHeaders[h].tail)' = EntryAt(h, idxHeaders[h].tail)
      BY <3>1 DEF EntryAt
    <3>3. /\ idxHeaders[h].tail \in 0..(IndexSize(h) - 1)
          /\ idxEntries[EntryAt(h, idxHeaders[h].tail)].key # InvalidBlockBase
      <4>1. CASE h # H
        BY <1>0, <1>1, <3>1, <4>1 DEF Keys
      <4>2. CASE h = H
        <5>1. a - 1 \in Window(a) /\ a - 1 \in Int
          BY <1>0, <1>2, <1>11
        <5>2. SlotAt(d, Current, a - 1) \in 0..(IndexSize(Current) - 1)
          BY <1>0, <1>1, <1>2, <1>4, <5>1, SlotIs
        <5>3. KeyOf(d, a - 1) = BaseOf(a - 1) /\ BaseOf(a - 1) # InvalidBlockBase
          BY <1>23, <5>1, BaseIs
        <5>4. idxHeaders[h].tail = SlotAt(d, Current, a - 1)
          BY <1>0, <4>2 DEF Header, Current
        <5> QED BY <1>0, <4>2, <5>2, <5>3, <5>4 DEF KeyOf, EntryOf
      <4> QED BY <4>1, <4>2
    <3>4. EntryAt(h, idxHeaders[h].tail) \in 1..L
      BY <1>0, <1>1, <3>1, <3>3 DEF Shape
    <3> QED BY <1>3, <3>1, <3>2, <3>3, <3>4
  <2> QED BY <1>3, <2>1, <2>2 DEF Keys, InvalidBlockBase
<1>28. Indexes(D, a, F, holds)'
  <2>1. KeysUpTo(D, a, F)'
    BY <1>24 DEF KeysUpTo
  <2>2. HoldsBlocks(D, a, F, holds)'
    BY <1>25 DEF HoldsBlocks
  <2> QED BY <1>3, <1>17, <1>27, <2>1, <2>2 DEF Indexes
<1>29. Header'.tail = SlotAt(D, Current, a - 1)'
  <2>1. a - 1 \in (a - C)..(a - 1) /\ a - 1 \in Int /\ (a - 1) + (C - a) = C - 1
    BY <1>2
  <2>2. new(a - 1) = C - 1
    BY <1>9, <2>1
  <2>3. Header'.tail = idxHeaders'[H + 1].tail
    BY <1>3 DEF Header, Current
  <2> QED BY <1>3, <1>7, <2>2, <2>3
<1>30. 1..Len(idxEntries) \subseteq 1..Len(idxEntries)'
       /\ \A e \in (1..Len(idxEntries))' \ (1..Len(idxEntries)) : e \in (L + 1)..(L + C)
  BY <1>0, <1>3, <1>15, <1>18
<1> QED BY <1>0, <1>3, <1>4, <1>5, <1>12, <1>28, <1>29, <1>30

-----------------------------------------------------------------------------
(* Blocks made so far: those of the elements up to the tail, and those of   *)
(* the call under way; the last of them in the index; how many were undone. *)
Made == Filled + Len(enq.got)
Limit == IF enqAt = "free" THEN Filled ELSE Made
Top == IF enqAt \in {"requisition", "store value", "rewind"} THEN Made
       ELSE IF enqAt \in Undoing THEN Made - enq.undo ELSE Limit - 1
Undone == IF enqAt = "free" THEN Len(enq.got)
          ELSE IF enqAt = "undo" THEN enq.undo - 1
          ELSE IF enqAt = "undo rewind" THEN enq.undo ELSE 0

ItemsOf(n) == (BlockSize * n)..(BlockSize * n + BlockSize - 1)
AllDone(n) == \A k \in ItemsOf(n) : Done(k)
DoneOf(n) == {k \in ItemsOf(n) : Done(k)}
Clears(c, n) == dqAt[c] = "clear entry" /\ Number(c) = n

Tails(d, a, f) ==
  /\ a <= Filled + IndexSize(Current) /\ f <= Filled /\ Top < a
  /\ enqAt \in Inserting => Made < a
  /\ Header.tail = SlotAt(d, Current, Top)
  /\ \A e \in 1..Len(idxEntries) :
       idxEntries[e].value = Uninitialized =>
         idxEntries[e].key = InvalidBlockBase \/ (enqAt \in Inserting /\ e = EntryOf(d, Made))

(* The call of the producer.                                                *)
Calls(d, holds) ==
  /\ CallTypes
  /\ enqAt = "idle" => enq = NoEnqueue
  /\ enqAt \in {"check head", "insert"} \union Inserting =>
       enq.base = BaseOf(Made) /\ BlockSize * Made < Item(tailIndex) + enq.count
  /\ enqAt \in {"fill", "publish"} =>
       /\ Item(tailIndex) + enq.count <= BlockSize * Made
       /\ BlockSize * Made < Item(tailIndex) + enq.count + BlockSize
  /\ enqAt \in Inserting => enq.slot = SlotAt(d, Current, Made) /\ ValueOf(d, Made) \notin Blocks
  /\ enqAt \in Undoing => enq.undo \in 1..Len(enq.got)
  /\ enq.block \in Blocks <=> enqAt = "store value"
  /\ \A j \in 1..Len(enq.got) :
       IF j <= Undone THEN Filled + (j - 1) \notin DOMAIN holds
       ELSE Filled + (j - 1) \in DOMAIN holds /\ holds[Filled + (j - 1)] = enq.got[j]

(* The blocks in the index: what of them is counted as dequeued.            *)
Kept(holds) ==
  /\ emptied \in [Blocks -> Int]
  /\ \A n \in DOMAIN holds : /\ n \in Nat /\ n < Limit
                             /\ emptied[holds[n]] = Cardinality(DoneOf(n))
                             /\ AllDone(n) => \E c \in Consumers : Clears(c, n)
  /\ \A n, m \in DOMAIN holds : holds[n] = holds[m] => n = m
  /\ \A n \in 0..(Filled - 1) : AllDone(n) \/ n \in DOMAIN holds
  /\ Filled - 1 \in DOMAIN holds => tailBlock = holds[Filled - 1]
  /\ enq.block \in Blocks => emptied[enq.block] = 0

(* Every block is in one place.                                             *)
InIndex(holds) == {holds[n] : n \in DOMAIN holds}
Used(holds, b) == \/ b \in InIndex(holds) \union HeldByProducer
                  \/ \E c \in Consumers : b \in HeldByConsumer(c)
Places(holds) ==
  /\ freed \in [Blocks -> Int]
  /\ \A b \in Blocks : freed[b] = IF Used(holds, b) THEN 0 ELSE 1
  /\ \A c \in Consumers : \A b \in HeldByConsumer(c) :
       /\ b \in Blocks /\ b \notin InIndex(holds) \union HeldByProducer
       /\ \A e \in Consumers : e # c => b \notin HeldByConsumer(e)
  /\ enq.block \notin InIndex(holds) \union {enq.got[j] : j \in 1..Len(enq.got)}
  /\ \A i, j \in 1..Len(enq.got) : enq.got[i] = enq.got[j] => i = j
  /\ \A n \in DOMAIN holds : \A j \in 1..Len(enq.got) : holds[n] = enq.got[j] => n = Filled + (j - 1)

(* What a consumer knows of the index.                                      *)
Finds(d, h, n) == EntryAt(h, SlotAt(d, h, n)) = EntryOf(d, n)
Looks(d, holds, c) ==
  LET h == dq[c].header
  IN  /\ dqAt[c] \in (Holding \union Leaving) \ {"load index"} =>
           h \in 1..Current /\ \A k \in Pending(c) : Finds(d, h, k \div BlockSize)
      /\ dqAt[c] = "load tail base" =>
           /\ dq[c].slot \in 0..(IndexSize(h) - 1)
           /\ idxEntries[EntryAt(h, dq[c].slot)].key # InvalidBlockBase
      /\ dqAt[c] \in {"load block", "move out", "set empty"} \union Leaving =>
           dq[c].slot = SlotAt(d, h, Number(c))
      /\ dqAt[c] \in {"move out", "set empty"} => dq[c].block = holds[Number(c)]
      /\ dqAt[c] = "clear entry" =>
           /\ Number(c) \in DOMAIN holds /\ dq[c].block = holds[Number(c)]
           /\ Finds(d, h, Number(c)) /\ AllDone(Number(c))
           /\ \A e \in Consumers : Clears(e, Number(c)) => e = c

LiveInv(d, a, f, holds) ==
  /\ ClaimInv /\ ~destroyed
  /\ a \in Int /\ f \in Int /\ Indexes(d, a, f, holds) /\ Tails(d, a, f)
  /\ Calls(d, holds) /\ Kept(holds) /\ Places(holds)
  /\ \A c \in Consumers : Looks(d, holds, c)

-----------------------------------------------------------------------------
LEMMA TailIs ==
  ASSUME ClaimInv
  PROVE  /\ load \in Loads /\ tailIndex \in 0..(IndexMod - 1) /\ headIndex \in 0..(IndexMod - 1)
         /\ Item(tailIndex) \in 0..(IndexMod - 1) /\ Item(headIndex) \in 0..(IndexMod - 1)
         /\ Item(tailIndex) \in Int /\ Item(headIndex) \in Int
         /\ Item(headIndex) <= Item(tailIndex) /\ Item(tailIndex) < IndexMod
         /\ FirstNewBase = BaseOf(Filled) /\ Filled \in Nat /\ Filled \in Int
         /\ Item(tailIndex) <= BlockSize * Filled
         /\ BlockSize * Filled < Item(tailIndex) + BlockSize
<1>1. /\ load \in Loads /\ tailIndex \in 0..(IndexMod - 1) /\ headIndex \in 0..(IndexMod - 1)
      /\ Item(headIndex) <= Item(tailIndex)
  BY DEF ClaimInv, ClaimTypes
<1>2. Item(tailIndex) \in 0..(IndexMod - 1) /\ Item(headIndex) \in 0..(IndexMod - 1)
  BY <1>1, IndexOfItem
<1>3. FirstNewBase = BaseOf(Filled) /\ Filled \in Nat /\ Item(tailIndex) <= BlockSize * Filled
      /\ BlockSize * Filled < Item(tailIndex) + BlockSize
  BY <1>1, FirstNewIs
<1>4. IndexMod \in Int
  BY Sizes
<1> QED BY <1>1, <1>2, <1>3, <1>4

(* Block n has element k.                                                   *)
LEMMA ItemsIs ==
  ASSUME NEW n \in Int
  PROVE  /\ BlockSize * n \in Int
         /\ \A k \in ItemsOf(n) : k \in Int /\ BlockSize * n <= k /\ k < BlockSize * n + BlockSize
         /\ \A k \in Int : BlockSize * n <= k /\ k < BlockSize * n + BlockSize => k \in ItemsOf(n)
         /\ IsFiniteSet(ItemsOf(n)) /\ Cardinality(ItemsOf(n)) = BlockSize
<1>1. BlockSize \in Nat \ {0}
  BY Sizes
<1> DEFINE lo == BlockSize * n
           hi == lo + BlockSize - 1
<1>2. lo \in Int /\ hi \in Int /\ hi - lo + 1 = BlockSize /\ ~(lo > hi) /\ ItemsOf(n) = lo..hi
  BY <1>1 DEF ItemsOf
<1>3. IsFiniteSet(lo..hi) /\ Cardinality(lo..hi) = BlockSize
  <2> HIDE DEF lo, hi
  <2> QED BY <1>2, FS_Interval
<1> QED BY <1>1, <1>2, <1>3

LEMMA ItemOfBlock ==
  ASSUME NEW k \in Int
  PROVE  k \div BlockSize \in Int /\ k \in ItemsOf(k \div BlockSize)
         /\ \A n \in Int : k \in ItemsOf(n) => n = k \div BlockSize
<1>1. BlockSize \in Nat \ {0}
  BY Sizes
<1> DEFINE q == k \div BlockSize
           r == k % BlockSize
<1>2. q \in Int /\ r \in 0..(BlockSize - 1) /\ k = BlockSize * q + r
  BY <1>1, Divides
<1> HIDE DEF q, r
<1>3. BlockSize * q \in Int
  BY <1>1, <1>2
<1>4. k \in ItemsOf(q)
  BY <1>1, <1>2, <1>3 DEF ItemsOf
<1>5. ASSUME NEW n \in Int, k \in ItemsOf(n) PROVE n = k \div BlockSize
  <2> DEFINE s == k - BlockSize * n
  <2>1. BlockSize * n \in Int
    BY <1>1
  <2>2. s \in 0..(BlockSize - 1) /\ k = BlockSize * n + s
    BY <1>1, <1>5, <2>1 DEF ItemsOf
  <2> HIDE DEF s
  <2> QED BY <1>1, <2>2, Division
<1> QED BY <1>2, <1>4, <1>5 DEF q

(* Multiples of the size of a block.                                        *)
LEMMA Multiples ==
  ASSUME NEW n \in Int, NEW m \in Int
  PROVE  /\ BlockSize * n \in Int /\ BlockSize * m \in Int
         /\ BlockSize * n < BlockSize * m + BlockSize => n <= m
         /\ n < m => BlockSize * n + BlockSize <= BlockSize * m
         /\ BlockSize * (n + 1) = BlockSize * n + BlockSize
<1>1. BlockSize \in Nat \ {0}
  BY Sizes
<1>2. BlockSize * n \in Int /\ BlockSize * m \in Int /\ BlockSize * (n + 1) = BlockSize * n + BlockSize
  BY <1>1
<1>3. ASSUME n > m PROVE BlockSize * n >= BlockSize * m + BlockSize
  <2>1. PICK k \in Nat : n = m + 1 + k
    <3>1. n - m - 1 \in Nat /\ n = m + 1 + (n - m - 1)
      BY <1>3
    <3> QED BY <3>1
  <2>2. BlockSize * n = BlockSize * m + BlockSize + BlockSize * k /\ BlockSize * k >= 0
    BY <1>1, <2>1
  <2> QED BY <1>1, <1>2, <2>2
<1>4. ASSUME n < m PROVE BlockSize * m >= BlockSize * n + BlockSize
  <2>1. PICK k \in Nat : m = n + 1 + k
    <3>1. m - n - 1 \in Nat /\ m = n + 1 + (m - n - 1)
      BY <1>4
    <3> QED BY <3>1
  <2>2. BlockSize * m = BlockSize * n + BlockSize + BlockSize * k /\ BlockSize * k >= 0
    BY <1>1, <2>1
  <2> QED BY <1>1, <1>2, <2>2
<1> QED BY <1>1, <1>2, <1>3, <1>4

-----------------------------------------------------------------------------
(* The blocks of what consumers have taken are in the index.                *)
LEMMA PendingKept ==
  ASSUME ClaimInv, NEW holds, Kept(holds), NEW c \in Consumers, NEW k \in Pending(c)
  PROVE  /\ k \in Int /\ k < Item(headIndex) /\ ~Done(k)
         /\ k \div BlockSize \in Int /\ k \in ItemsOf(k \div BlockSize)
         /\ k \div BlockSize \in DOMAIN holds
         /\ k \div BlockSize < Filled
<1>1. dqAt[c] \in Holding \union Leaving
  BY DEF Pending
<1>2. Ranged(c)
  BY DEF ClaimInv
<1>3. First(c) \in Nat /\ Beyond(c) \in Nat
  BY <1>1, <1>2, TailIs, IndexOfItem DEF Ranged, First, Beyond
<1>4. BlockSize \in Nat \ {0}
  BY Sizes
<1>5. First(c) < Beyond(c) /\ Beyond(c) <= Item(headIndex)
  BY <1>1, <1>2 DEF Ranged
<1>6. Stop(c) \in Nat
  <2>1. Number(c) \in Int /\ Number(c) >= 0
    <3>1. /\ dq[c].index \in 0..(IndexMod - 1) /\ dq[c].end \in 0..(IndexMod - 1)
          /\ First(c) < Beyond(c) /\ Beyond(c) - First(c) < IndexMod \div 2
      BY <1>1, <1>2 DEF Ranged, HalfRange
    <3>2. Number(c) \in Nat
      BY <3>1, TailIs, SegmentIs
    <3> QED BY <3>2
  <2>2. BlockSize * (Number(c) + 1) \in Nat
    BY <1>4, <2>1
  <2> QED BY <1>3, <2>2 DEF Stop, Least
<1>7. k \in Nat /\ k < Beyond(c)
  <2>1. k \in First(c)..(Beyond(c) - 1) \/ k \in Stop(c)..(Beyond(c) - 1)
    BY DEF Pending
  <2> QED BY <1>3, <1>6, <2>1
<1>8. k \in Int /\ k < Item(headIndex) /\ ~Done(k)
  BY <1>3, <1>5, <1>7, TailIs DEF Done
<1>9. k \div BlockSize \in Int /\ k \in ItemsOf(k \div BlockSize)
  BY <1>8, ItemOfBlock
<1> DEFINE n == k \div BlockSize
<1>10. n \in Int /\ BlockSize * n <= k /\ k < BlockSize * n + BlockSize
  BY <1>9, ItemsIs
<1> HIDE DEF n
<1>11. 0 <= n
  <2>1. BlockSize * 0 = 0 /\ 0 \in Int
    BY <1>4
  <2> DEFINE zero == 0
  <2>2. zero \in Int /\ BlockSize * zero = 0
    BY <2>1
  <2> HIDE DEF zero
  <2>3. BlockSize * zero < BlockSize * n + BlockSize
    BY <1>7, <1>10, <1>4, <2>2
  <2>4. zero <= n
    BY <1>10, <2>2, <2>3, Multiples
  <2> QED BY <2>4 DEF zero
<1>12. n < Filled
  <2>1. BlockSize * n < BlockSize * Filled
    BY <1>4, <1>8, <1>10, TailIs
  <2>2. ~(Filled <= n)
    <3>1. CASE Filled = n
      BY <1>4, <1>10, <2>1, <3>1
    <3>2. CASE Filled < n
      BY <1>4, <1>10, <2>1, <3>2, TailIs, Multiples
    <3> QED BY <1>10, <3>1, <3>2, TailIs
  <2> QED BY <1>10, <2>2, TailIs
<1>13. n \in 0..(Filled - 1)
  BY <1>10, <1>11, <1>12, TailIs
<1>14. ~AllDone(n)
  BY <1>8, <1>9 DEF AllDone, n
<1>15. n \in DOMAIN holds
  BY <1>13, <1>14 DEF Kept
<1> QED BY <1>8, <1>9, <1>12, <1>15 DEF n

(* So is the block a consumer is at.                                        *)
LEMMA NumberKept ==
  ASSUME ClaimInv, NEW holds, Kept(holds), NEW c \in Consumers, dqAt[c] \in Holding
  PROVE  /\ First(c) \in Pending(c) /\ Number(c) \in Int /\ Number(c) \in DOMAIN holds
         /\ Number(c) < Filled /\ First(c) \in ItemsOf(Number(c)) /\ ~Done(First(c))
<1>1. Ranged(c)
  BY DEF ClaimInv
<1>2. First(c) \in Nat /\ Beyond(c) \in Nat /\ First(c) < Beyond(c)
  BY <1>1, TailIs, IndexOfItem DEF Ranged, First, Beyond
<1>3. First(c) \in Pending(c)
  BY <1>2 DEF Pending
<1> QED BY <1>3, PendingKept DEF Number

(* What is done has been filled.                                            *)
LEMMA DoneFilled ==
  ASSUME ClaimInv, NEW n \in Int, AllDone(n)
  PROVE  n < Filled
<1>1. BlockSize \in Nat \ {0}
  BY Sizes
<1>2. BlockSize * n \in Int /\ BlockSize * n \in ItemsOf(n)
  BY <1>1, ItemsIs
<1>3. BlockSize * n < BlockSize * Filled
  BY <1>1, <1>2, TailIs DEF AllDone, Done
<1>4. ~(Filled <= n)
  <2>1. CASE Filled = n
    BY <1>2, <1>3, <2>1
  <2>2. CASE Filled < n
    BY <1>1, <1>2, <1>3, <2>2, TailIs, Multiples
  <2> QED BY <2>1, <2>2, TailIs
<1> QED BY <1>4, TailIs

(* Steps of the producer leave alone what consumers have taken.             *)
ProducerOnly == UNCHANGED <<headIndex, dqAt, dq, load, isExplicit, destroyed>>

LEMMA DoneStays ==
  ASSUME ProducerOnly
  PROVE  /\ \A c : /\ Pending(c)' = Pending(c) /\ First(c)' = First(c) /\ Beyond(c)' = Beyond(c)
                   /\ Number(c)' = Number(c) /\ HeldByConsumer(c)' = HeldByConsumer(c)
         /\ \A k : Done(k)' <=> Done(k)
         /\ \A n : DoneOf(n)' = DoneOf(n) /\ (AllDone(n)' <=> AllDone(n))
         /\ \A c, n : Clears(c, n)' <=> Clears(c, n)
         /\ \A i : Item(i)' = Item(i')
         /\ \A n : BaseOf(n)' = BaseOf(n')
<1>1. \A c : /\ Pending(c)' = Pending(c) /\ First(c)' = First(c) /\ Beyond(c)' = Beyond(c)
             /\ Number(c)' = Number(c) /\ HeldByConsumer(c)' = HeldByConsumer(c)
  BY DEF ProducerOnly, Pending, First, Beyond, Number, Stop, Least, Item, Wrap, startIndex,
         HeldByConsumer
<1>2. \A k : Done(k)' <=> Done(k)
  BY <1>1 DEF Done, ProducerOnly, Item, Wrap, startIndex
<1>3. \A n : DoneOf(n)' = DoneOf(n) /\ (AllDone(n)' <=> AllDone(n))
  BY <1>2 DEF ItemsOf, DoneOf, AllDone
<1>4. \A c, n : Clears(c, n)' <=> Clears(c, n)
  BY <1>1 DEF Clears, ProducerOnly
<1>5. \A i : Item(i)' = Item(i')
  BY DEF Item, Wrap, startIndex, ProducerOnly
<1>6. \A n : BaseOf(n)' = BaseOf(n')
  BY DEF BaseOf, Wrap, startIndex, ProducerOnly
<1> QED BY <1>1, <1>2, <1>3, <1>4, <1>5, <1>6

(* A step of the producer that moves no entry and takes no block away from  *)
(* what is filled: consumers find what they look for.                       *)
EntriesKept(d, D, holds) ==
  /\ \A h \in 1..Current : /\ h \in (1..Current)' /\ IndexSize(h)' = IndexSize(h) /\ D[h] = d[h]
                           /\ \A s : EntryAt(h, s)' = EntryAt(h, s)
  /\ \A n \in DOMAIN holds : EntryOf(D, n)' = EntryOf(d, n)
  /\ \A e \in 1..Len(idxEntries) :
       idxEntries[e].key # InvalidBlockBase => idxEntries'[e].key # InvalidBlockBase

LEMMA LooksStay ==
  ASSUME ClaimInv, ProducerOnly, NEW d, NEW D, NEW holds, NEW Holds, Kept(holds), Shape(d),
         EntriesKept(d, D, holds),
         \A n \in DOMAIN holds : n < Filled => n \in DOMAIN Holds /\ Holds[n] = holds[n],
         NEW c \in Consumers, Looks(d, holds, c)
  PROVE  Looks(D, Holds, c)'
<1>1. PICK h, s : h = dq[c].header /\ s = dq[c].slot
  OBVIOUS
<1>2. dq' = dq /\ dqAt' = dqAt
  BY DEF ProducerOnly
<1>3. /\ Pending(c)' = Pending(c) /\ Number(c)' = Number(c)
      /\ \A n : AllDone(n)' <=> AllDone(n)
      /\ \A e, n : Clears(e, n)' <=> Clears(e, n)
  BY DoneStays
<1>4. ASSUME h \in 1..Current
      PROVE  /\ h \in (1..Current)' /\ IndexSize(h)' = IndexSize(h)
             /\ \A t : EntryAt(h, t)' = EntryAt(h, t)
             /\ \A n : SlotAt(D, h, n)' = SlotAt(d, h, n)
             /\ \A n \in DOMAIN holds : Finds(d, h, n) => Finds(D, h, n)'
  <2>1. /\ h \in (1..Current)' /\ IndexSize(h)' = IndexSize(h) /\ D[h] = d[h]
        /\ \A t : EntryAt(h, t)' = EntryAt(h, t)
    BY <1>4 DEF EntriesKept
  <2>2. \A n : SlotAt(D, h, n)' = SlotAt(d, h, n)
    BY <2>1 DEF SlotAt
  <2>3. ASSUME NEW n \in DOMAIN holds, Finds(d, h, n) PROVE Finds(D, h, n)'
    <3>1. EntryOf(D, n)' = EntryOf(d, n)
      BY DEF EntriesKept
    <3>2. EntryAt(h, SlotAt(D, h, n))' = EntryAt(h, SlotAt(d, h, n))
      <4>1. PICK t : t = SlotAt(d, h, n)
        OBVIOUS
      <4>2. EntryAt(h, SlotAt(D, h, n))' = EntryAt(h, t)'
        BY <2>2, <4>1 DEF EntryAt
      <4> QED BY <2>1, <4>1, <4>2
    <3> QED BY <2>3, <3>1, <3>2 DEF Finds
  <2> QED BY <2>1, <2>2, <2>3
<1>5. dqAt[c] \in (Holding \union Leaving) \ {"load index"} =>
        h \in (1..Current)' /\ \A k \in Pending(c) : Finds(D, h, k \div BlockSize)'
  <2> SUFFICES ASSUME dqAt[c] \in (Holding \union Leaving) \ {"load index"}
               PROVE  h \in (1..Current)' /\ \A k \in Pending(c) : Finds(D, h, k \div BlockSize)'
    OBVIOUS
  <2>1. h \in 1..Current /\ \A k \in Pending(c) : Finds(d, h, k \div BlockSize)
    BY <1>1 DEF Looks
  <2>2. \A k \in Pending(c) : k \div BlockSize \in DOMAIN holds
    BY PendingKept
  <2> QED BY <1>4, <2>1, <2>2
<1>6. dqAt[c] = "load tail base" =>
        /\ s \in 0..(IndexSize(h)' - 1) /\ idxEntries'[EntryAt(h, s)'].key # InvalidBlockBase
  <2> SUFFICES ASSUME dqAt[c] = "load tail base"
               PROVE  s \in 0..(IndexSize(h)' - 1) /\ idxEntries'[EntryAt(h, s)'].key # InvalidBlockBase
    OBVIOUS
  <2>1. /\ h \in 1..Current /\ s \in 0..(IndexSize(h) - 1)
        /\ idxEntries[EntryAt(h, s)].key # InvalidBlockBase
    BY <1>1 DEF Looks, Holding, Leaving
  <2>2. EntryAt(h, s) \in 1..Len(idxEntries)
    BY <2>1 DEF Shape
  <2> QED BY <1>4, <2>1, <2>2 DEF EntriesKept
<1>7. dqAt[c] \in {"load block", "move out", "set empty"} \union Leaving =>
        s = SlotAt(D, h, Number(c))'
  <2> SUFFICES ASSUME dqAt[c] \in {"load block", "move out", "set empty"} \union Leaving
               PROVE  s = SlotAt(D, h, Number(c))'
    OBVIOUS
  <2>1. h \in 1..Current /\ s = SlotAt(d, h, Number(c))
    BY <1>1 DEF Looks, Holding, Leaving
  <2>2. PICK n : n = Number(c)
    OBVIOUS
  <2>3. SlotAt(D, h, Number(c))' = SlotAt(D, h, n)'
    BY <1>3, <2>2 DEF SlotAt
  <2> QED BY <1>4, <2>1, <2>2, <2>3
<1>8. dqAt[c] \in {"move out", "set empty"} => dq[c].block = Holds[Number(c)]
  BY NumberKept DEF Looks, Holding
<1>9. dqAt[c] = "clear entry" =>
        /\ Number(c) \in DOMAIN Holds /\ dq[c].block = Holds[Number(c)]
        /\ Finds(D, h, Number(c))' /\ AllDone(Number(c))
        /\ \A e \in Consumers : Clears(e, Number(c)) => e = c
  <2> SUFFICES ASSUME dqAt[c] = "clear entry"
               PROVE  /\ Number(c) \in DOMAIN Holds /\ dq[c].block = Holds[Number(c)]
                      /\ Finds(D, h, Number(c))' /\ AllDone(Number(c))
                      /\ \A e \in Consumers : Clears(e, Number(c)) => e = c
    OBVIOUS
  <2>1. PICK n : n = Number(c)
    OBVIOUS
  <2>2. /\ h \in 1..Current /\ n \in DOMAIN holds /\ dq[c].block = holds[n]
        /\ Finds(d, h, n) /\ AllDone(n)
        /\ \A e \in Consumers : Clears(e, n) => e = c
    BY <1>1, <2>1 DEF Looks, Holding, Leaving
  <2>3. n < Filled
    <3>1. n \in Nat
      BY <2>2 DEF Kept
    <3>2. n \in Int
      BY <3>1, NatIsInt
    <3> QED BY <2>2, <3>2, DoneFilled
  <2>4. Finds(D, h, n)'
    BY <1>4, <2>2
  <2>5. Finds(D, h, Number(c))'
    BY <1>3, <2>1, <2>4 DEF Finds, EntryOf, SlotAt, EntryAt
  <2> QED BY <2>1, <2>2, <2>3, <2>5
<1> QED BY <1>1, <1>2, <1>3, <1>5, <1>6, <1>7, <1>8, <1>9 DEF Looks

-----------------------------------------------------------------------------
(* Steps of the producer.                                                   *)
LEMMA ProducerClaims ==
  ASSUME ClaimInv, ProducerOnly, UNCHANGED <<dequeueOptimisticCount, dequeueOvercommit>>,
         tailIndex' \in 0..(IndexMod - 1), Item(tailIndex) <= Item(tailIndex'),
         Item(tailIndex') <= load.items,
         enqAt' # "idle" => enq'.count > 0 /\ Item(tailIndex') + enq'.count <= load.items
  PROVE  ClaimInv'
<1>1. ClaimTypes'
  <2>1. PICK U : dq \in [Consumers -> DqLocals(U)]
    BY DEF ClaimInv, ClaimTypes
  <2>2. dq' \in [Consumers -> DqLocals(U)]
    BY <2>1 DEF ProducerOnly
  <2> QED BY <2>2 DEF ClaimInv, ClaimTypes, ProducerOnly
<1>2. load' = load /\ dqAt' = dqAt /\ dq' = dq /\ headIndex' = headIndex
  BY DEF ProducerOnly
<1>3. Item(headIndex)' = Item(headIndex) /\ Item(tailIndex)' = Item(tailIndex')
  BY <1>2, DoneStays
<1>4. Item(headIndex) <= Item(tailIndex')
  <2>1. Item(tailIndex') \in Int
    BY <1>2, TailIs, IndexOfItem
  <2> QED BY <2>1, TailIs
<1>5. \A c \in Consumers : Counted(c)' /\ Ranged(c)'
  <2> TAKE c \in Consumers
  <2>1. Counted(c) /\ Ranged(c)
    BY DEF ClaimInv
  <2>2. Counted(c)'
    BY <1>2, <2>1 DEF Counted, HalfRange
  <2>3. First(c)' = First(c) /\ Beyond(c)' = Beyond(c)
    BY DoneStays
  <2>4. Ranged(c)'
    BY <1>2, <1>3, <2>1, <2>3 DEF Ranged, HalfRange
  <2> QED BY <2>2, <2>4
<1>6. \A c, e \in Consumers : c # e => \A k \in Pending(c)' : k \notin Pending(e)'
  <2>1. \A c \in Consumers : Pending(c)' = Pending(c)
    BY DoneStays
  <2> QED BY <2>1 DEF ClaimInv
<1>7. Item(headIndex)' <= Item(tailIndex)' /\ Item(tailIndex)' <= load'.items
  BY <1>2, <1>3, <1>4
<1>8. enqAt' # "idle" => enq'.count > 0 /\ Item(tailIndex)' + enq'.count <= load'.items
  BY <1>2, <1>3
<1> QED BY <1>1, <1>5, <1>6, <1>7, <1>8 DEF ClaimInv

LEMMA CallCounts ==
  ASSUME ClaimInv, CallTypes
  PROVE  /\ Len(enq.got) \in Nat /\ Made \in Nat /\ Made \in Int /\ Made = Filled + Len(enq.got)
         /\ enq.count \in Nat /\ enq.undo \in Nat /\ enq.base \in Int /\ enq.slot \in Int
         /\ enq.got \in Seq(Blocks) /\ enq.block \in Blocks \union {NoBlock}
         /\ \A j \in 1..Len(enq.got) : enq.got[j] \in Blocks
         /\ Top \in Int /\ Limit \in Int /\ Undone \in Int
         /\ load.items \in Int /\ load.items < IndexMod
<1>1. /\ enq.count \in Nat /\ enq.undo \in Nat /\ enq.base \in Int /\ enq.slot \in Int
      /\ enq.got \in Seq(Blocks) /\ enq.block \in Blocks \union {NoBlock}
  BY DEF CallTypes, EnqueueCall
<1>2. Len(enq.got) \in Nat /\ \A j \in 1..Len(enq.got) : enq.got[j] \in Blocks
  BY <1>1, ElementOfSeq
<1>3. Filled \in Nat
  BY TailIs
<1>4. Made \in Nat /\ Made \in Int
  BY <1>2, <1>3 DEF Made
<1>5. Top \in Int /\ Limit \in Int /\ Undone \in Int
  <2>1. Limit \in Int
    BY <1>3, <1>4 DEF Limit
  <2>2. Top \in Int
    <3>1. Top \in {Made, Made - enq.undo, Limit - 1}
      BY DEF Top
    <3>2. Made - enq.undo \in Int /\ Limit - 1 \in Int
      BY <1>1, <1>4, <2>1
    <3> QED BY <1>4, <3>1, <3>2
  <2>3. Undone \in Int
    <3>1. Undone \in {Len(enq.got), enq.undo - 1, enq.undo, 0}
      BY DEF Undone
    <3>2. Len(enq.got) \in Int /\ enq.undo - 1 \in Int /\ enq.undo \in Int /\ 0 \in Int
      BY <1>1, <1>2
    <3> QED BY <3>1, <3>2
  <2> QED BY <2>1, <2>2, <2>3
<1>6. load.items \in Int /\ load.items < IndexMod
  <2>1. load \in Loads
    BY TailIs
  <2>2. load.items \in 1..(IndexMod - 1)
    BY <2>1, ProducerConstants
  <2> QED BY <2>2, Sizes
<1> QED BY <1>1, <1>2, <1>4, <1>5, <1>6 DEF Made

(* The elements filled stay as many.                                        *)
LEMMA FilledStays ==
  ASSUME ProducerOnly, tailIndex' = tailIndex
  PROVE  /\ Item(tailIndex)' = Item(tailIndex) /\ Filled' = Filled
         /\ \A n : BaseOf(n)' = BaseOf(n)
         /\ Made' = Filled + Len(enq'.got)
<1>1. Item(tailIndex)' = Item(tailIndex)
  BY DEF Item, Wrap, startIndex, ProducerOnly
<1>2. Filled' = Filled
  BY <1>1 DEF Filled
<1>3. \A n : BaseOf(n)' = BaseOf(n)
  BY DEF BaseOf, Wrap, startIndex, ProducerOnly
<1> QED BY <1>1, <1>2, <1>3 DEF Made

LEMMA KeptGoes ==
  ASSUME ClaimInv, ProducerOnly, UNCHANGED <<tailIndex, tailBlock, emptied>>,
         NEW holds, NEW more, Kept(holds),
         \A n \in DOMAIN more : n \in DOMAIN holds /\ more[n] = holds[n] /\ n < Limit',
         \A n \in DOMAIN holds : n < Filled => n \in DOMAIN more,
         enq'.block \in Blocks => emptied[enq'.block] = 0
  PROVE  Kept(more)'
<1>1. /\ \A k : Done(k)' <=> Done(k)
      /\ \A n : DoneOf(n)' = DoneOf(n) /\ (AllDone(n)' <=> AllDone(n))
      /\ \A c, n : Clears(c, n)' <=> Clears(c, n)
  BY DoneStays
<1>2. Filled' = Filled /\ Filled \in Nat
  BY FilledStays, TailIs
<1>4. \A n \in DOMAIN more :
        /\ n \in Nat /\ n < Limit'
        /\ emptied'[more[n]] = Cardinality(DoneOf(n)')
        /\ AllDone(n)' => \E c \in Consumers : Clears(c, n)'
  BY <1>1 DEF Kept
<1>5. \A n \in 0..(Filled - 1) : AllDone(n)' \/ n \in DOMAIN more
  <2> TAKE n \in 0..(Filled - 1)
  <2>1. n < Filled
    BY <1>2
  <2>2. AllDone(n) \/ n \in DOMAIN holds
    BY DEF Kept
  <2> QED BY <1>1, <2>1, <2>2
<1>6. Filled - 1 \in DOMAIN more => tailBlock' = more[Filled - 1]
  BY DEF Kept
<1>7. \A n, m \in DOMAIN more : more[n] = more[m] => n = m
  BY DEF Kept
<1>8. emptied' \in [Blocks -> Int]
  BY DEF Kept
<1>9. enq'.block \in Blocks => emptied'[enq'.block] = 0
  OBVIOUS
<1>10. \A n \in 0..(Filled' - 1) : AllDone(n)' \/ n \in DOMAIN more
  BY <1>2, <1>5
<1>11. Filled' - 1 \in DOMAIN more => tailBlock' = more[Filled' - 1]
  BY <1>2, <1>6
<1> QED BY <1>4, <1>7, <1>8, <1>9, <1>10, <1>11 DEF Kept

LEMMA PlacesStay ==
  ASSUME ProducerOnly, UNCHANGED <<tailIndex, freed>>, enq'.got = enq.got, enq'.block = enq.block,
         NEW holds, Places(holds)
  PROVE  Places(holds)'
<1>1. HeldByProducer' = HeldByProducer /\ Filled' = Filled
  BY FilledStays DEF HeldByProducer
<1>2. \A c : HeldByConsumer(c)' = HeldByConsumer(c)
  BY DoneStays
<1>3. \A b : Used(holds, b)' <=> Used(holds, b)
  BY <1>1, <1>2 DEF Used, InIndex
<1> QED BY <1>1, <1>2, <1>3 DEF Places, InIndex

(* A step of the producer that moves no block.                              *)
LEMMA CallGoes ==
  ASSUME NEW d, NEW a, NEW f, NEW holds, LiveInv(d, a, f, holds), ProducerOnly,
         UNCHANGED <<tailIndex, tailBlock, emptied, freed, dequeueOptimisticCount, dequeueOvercommit>>,
         enq'.got = enq.got, enq'.block = enq.block,
         enqAt' # "idle" => enq'.count > 0 /\ Item(tailIndex) + enq'.count <= load.items,
         \A n \in DOMAIN holds : n < Limit',
         NEW D, NEW A \in Int, NEW F \in Int, Indexes(D, A, F, holds)', EntriesKept(d, D, holds),
         Tails(D, A, F)', Calls(D, holds)'
  PROVE  LiveInv(D, A, F, holds)'
<1>1. /\ ClaimInv /\ ~destroyed /\ Indexes(d, a, f, holds) /\ Kept(holds) /\ Places(holds)
      /\ Shape(d) /\ \A c \in Consumers : Looks(d, holds, c)
  BY DEF LiveInv, Indexes
<1>2. ClaimInv'
  <2>1. tailIndex' \in 0..(IndexMod - 1) /\ Item(tailIndex') = Item(tailIndex)
        /\ Item(tailIndex) <= Item(tailIndex') /\ Item(tailIndex') <= load.items
    BY <1>1, TailIs DEF ClaimInv
  <2> QED BY <1>1, <2>1, ProducerClaims
<1>3. Kept(holds)'
  <2>1. enq'.block \in Blocks => emptied[enq'.block] = 0
    BY <1>1 DEF Kept
  <2> QED BY <1>1, <2>1, KeptGoes
<1>4. Places(holds)'
  BY <1>1, PlacesStay
<1>5. \A c \in Consumers : Looks(D, holds, c)'
  BY <1>1, LooksStay
<1>6. ~destroyed'
  BY <1>1 DEF ProducerOnly
<1> QED BY <1>2, <1>3, <1>4, <1>5, <1>6 DEF LiveInv

-----------------------------------------------------------------------------
(* What was inserted is undone from the k-th block on, or given back when   *)
(* there is no k-th.                                                        *)
LEMMA UndoGoes ==
  ASSUME ClaimInv, CallTypes, NEW k \in Nat \ {0}, UndoFrom(k), k <= Len(enq.got) + 1,
         enq.block \notin Blocks, ProducerOnly, tailIndex' = tailIndex, NEW d, NEW holds,
         \A j \in 1..Len(enq.got) :
           IF j < k THEN Filled + (j - 1) \notin DOMAIN holds
           ELSE Filled + (j - 1) \in DOMAIN holds /\ holds[Filled + (j - 1)] = enq.got[j]
  PROVE  /\ Calls(d, holds)' /\ Top' = Made - k /\ Made' = Made
         /\ enq'.got = enq.got /\ enq'.block = enq.block /\ enq'.count = enq.count
         /\ Limit' = IF k <= Len(enq.got) THEN Made ELSE Filled
         /\ enqAt' \notin Inserting
<1>1. /\ Len(enq.got) \in Nat /\ Made = Filled + Len(enq.got) /\ Filled \in Nat /\ Made \in Int
      /\ enq \in EnqueueCall
  BY CallCounts, TailIs DEF CallTypes
<1>2. /\ Filled' = Filled /\ Made' = Filled + Len(enq'.got)
  BY FilledStays
<1>3. CASE k > Len(enq.got)
  <2>1. enqAt' = "free" /\ enq' = enq
    BY <1>3 DEF UndoFrom, EnqGoto
  <2>2. k = Len(enq.got) + 1 /\ Made' = Made
    BY <1>1, <1>2, <1>3, <2>1
  <2>3. Limit' = Filled /\ Top' = Filled - 1 /\ Undone' = Len(enq.got)
    BY <1>2, <2>1 DEF Limit, Top, Undoing, Undone
  <2>4. Top' = Made - k
    BY <1>1, <2>2, <2>3
  <2>5. CallTypes'
    BY <1>1, <2>1 DEF CallTypes, EnqueuePlaces
  <2>6. \A j \in 1..Len(enq.got) : j <= Undone' /\ Filled + (j - 1) \notin DOMAIN holds
    BY <1>1, <2>2, <2>3
  <2>7. Calls(d, holds)'
    BY <1>2, <2>1, <2>5, <2>6 DEF Calls, Inserting, Undoing
  <2> QED BY <1>1, <1>3, <2>1, <2>2, <2>3, <2>4, <2>7 DEF Inserting
<1>4. CASE k <= Len(enq.got)
  <2> DEFINE local == [enq EXCEPT !.undo = k]
  <2>1. enqAt' = "undo" /\ enq' = local
    BY <1>1, <1>4 DEF UndoFrom, EnqGoto
  <2>2. /\ local \in EnqueueCall /\ local.undo = k /\ local.got = enq.got
        /\ local.block = enq.block /\ local.count = enq.count
    BY <1>1 DEF EnqueueCall
  <2> HIDE DEF local
  <2>3. Made' = Made
    BY <1>1, <1>2, <2>1, <2>2
  <2>4. Limit' = Made /\ Top' = Made - k /\ Undone' = k - 1
    BY <2>1, <2>2, <2>3 DEF Limit, Top, Undoing, Undone
  <2>5. CallTypes'
    BY <2>1, <2>2 DEF CallTypes, EnqueuePlaces, Undoing
  <2>6. \A j \in 1..Len(enq.got) : j <= Undone' <=> j < k
    BY <1>1, <2>4
  <2>7. \A j \in 1..Len(enq'.got) :
          IF j <= Undone' THEN Filled' + (j - 1) \notin DOMAIN holds
          ELSE Filled' + (j - 1) \in DOMAIN holds /\ holds[Filled' + (j - 1)] = enq'.got[j]
    BY <1>2, <2>1, <2>2, <2>6
  <2>8. enq'.undo \in 1..Len(enq'.got)
    BY <1>1, <1>4, <2>1, <2>2
  <2>9. enq'.block \notin Blocks
    BY <2>1, <2>2
  <2>10. Calls(d, holds)'
    BY <2>1, <2>5, <2>7, <2>8, <2>9 DEF Calls, Inserting, Undoing
  <2> QED BY <1>4, <2>1, <2>2, <2>3, <2>4, <2>10 DEF Inserting
<1> QED BY <1>1, <1>3, <1>4

(* Nothing is undone yet.                                                   *)
NoneUndone == enqAt \in {"check head", "insert", "null value"}

LEMMA FirstUndo ==
  ASSUME ClaimInv, NEW d, NEW holds, Calls(d, holds), Kept(holds),
         NoneUndone, NEW one, one = 1, UndoFrom(one), ProducerOnly,
         tailIndex' = tailIndex
  PROVE  /\ Calls(d, holds)' /\ Top' = Made - 1 /\ Made' = Made
         /\ enq'.got = enq.got /\ enq'.block = enq.block /\ enq'.count = enq.count
         /\ \A n \in DOMAIN holds : n < Limit'
         /\ enqAt' \notin Inserting
<1>1. CallTypes /\ enq.block \notin Blocks
  BY DEF Calls, NoneUndone
<1>2. /\ Filled \in Nat /\ Len(enq.got) \in Nat /\ Made \in Int /\ Made = Filled + Len(enq.got)
  BY <1>1, TailIs, CallCounts
<1>3. Undone = 0 /\ Limit = Made
  BY DEF Undone, Limit, Undoing, NoneUndone
<1>4. \A j \in 1..Len(enq.got) :
        IF j < 1 THEN Filled + (j - 1) \notin DOMAIN holds
        ELSE Filled + (j - 1) \in DOMAIN holds /\ holds[Filled + (j - 1)] = enq.got[j]
  <2> TAKE j \in 1..Len(enq.got)
  <2>1. ~(j < 1) /\ ~(j <= 0)
    BY <1>2
  <2> QED BY <1>3, <2>1 DEF Calls
<1>5. one \in Nat \ {0} /\ one <= Len(enq.got) + 1
  BY <1>2
<1>6. /\ Calls(d, holds)' /\ Top' = Made - one /\ Made' = Made
      /\ enq'.got = enq.got /\ enq'.block = enq.block /\ enq'.count = enq.count
      /\ Limit' = IF one <= Len(enq.got) THEN Made ELSE Filled
      /\ enqAt' \notin Inserting
  BY <1>1, <1>4, <1>5, UndoGoes
<1>7. Limit' = Made
  BY <1>2, <1>6
<1>8. \A n \in DOMAIN holds : n < Limit'
  BY <1>3, <1>7 DEF Kept
<1> QED BY <1>6, <1>8

(* Nothing of the index is written.                                         *)
LEMMA IndexSame ==
  ASSUME NEW d, NEW a \in Int, NEW f, NEW holds, Indexes(d, a, f, holds),
         UNCHANGED <<idxEntries, idxHeaders, load>>
  PROVE  /\ Indexes(d, a, f, holds)' /\ EntriesKept(d, d, holds)
         /\ Current' = Current /\ IndexSize(Current)' = IndexSize(Current)
         /\ \A n : SlotAt(d, Current, n)' = SlotAt(d, Current, n)
         /\ \A n : EntryOf(d, n)' = EntryOf(d, n) /\ ValueOf(d, n)' = ValueOf(d, n)
<1>1. IndexTypes /\ SameIndexes /\ IndexTypes'
  BY DEF Indexes, IndexTypes, SameIndexes, Current, HeaderSet, EntrySet
<1>2. Indexes(d, a, f, holds)'
  BY <1>1, IndexStays
<1>3. Current' = Current /\ Current \in 1..Current
  BY <1>1, CurrentIs DEF SameIndexes
<1>4. \A h \in 1..Current : h \in (1..Current)' /\ IndexSize(h)' = IndexSize(h)
        /\ \A s : EntryAt(h, s)' = EntryAt(h, s)
  BY <1>1, <1>3, ViewStays
<1>5. \A n : EntryOf(d, n)' = EntryOf(d, n) /\ ValueOf(d, n)' = ValueOf(d, n)
  <2>1. \A n : EntryOf(d, n)' = EntryOf(d, n)
    BY <1>1, ViewStays
  <2> QED BY <2>1 DEF ValueOf
<1>6. IndexSize(Current)' = IndexSize(Current)
  BY <1>3 DEF IndexSize
<1>7. \A n : SlotAt(d, Current, n)' = SlotAt(d, Current, n)
  BY <1>3, <1>6 DEF SlotAt
<1>8. EntriesKept(d, d, holds)
  BY <1>4, <1>5 DEF EntriesKept
<1> QED BY <1>2, <1>3, <1>5, <1>6, <1>7, <1>8

(* A step that writes nothing but the locals of the producer.               *)
LEMMA PlainGoes ==
  ASSUME NEW d, NEW a, NEW f, NEW holds, LiveInv(d, a, f, holds), ProducerOnly,
         UNCHANGED <<tailIndex, tailBlock, emptied, freed, dequeueOptimisticCount, dequeueOvercommit>>,
         UNCHANGED <<idxEntries, idxHeaders>>,
         enq'.got = enq.got, enq'.block = enq.block,
         enqAt' # "idle" => enq'.count > 0 /\ Item(tailIndex) + enq'.count <= load.items,
         Calls(d, holds)', Top' = Top, enqAt' \in Inserting <=> enqAt \in Inserting,
         \A n \in DOMAIN holds : n < Limit'
  PROVE  LiveInv(d, a, f, holds)'
<1>1. /\ ClaimInv /\ a \in Int /\ f \in Int /\ Indexes(d, a, f, holds) /\ Tails(d, a, f)
  BY DEF LiveInv
<1>2. load' = load /\ Filled' = Filled /\ Made' = Made
  BY FilledStays DEF ProducerOnly, Made
<1>3. /\ Indexes(d, a, f, holds)' /\ EntriesKept(d, d, holds)
      /\ Current' = Current /\ IndexSize(Current)' = IndexSize(Current)
      /\ \A n : SlotAt(d, Current, n)' = SlotAt(d, Current, n)
      /\ \A n : EntryOf(d, n)' = EntryOf(d, n)
  BY <1>1, <1>2, IndexSame
<1>4. Header'.tail = Header.tail
  BY DEF Header
<1>5. SlotAt(d, Current, Top)' = SlotAt(d, Current, Top) /\ EntryOf(d, Made)' = EntryOf(d, Made)
  BY <1>2, <1>3 DEF SlotAt, EntryOf, EntryAt
<1>6. Tails(d, a, f)'
  BY <1>1, <1>2, <1>3, <1>4, <1>5 DEF Tails, Inserting
<1> QED BY <1>1, <1>3, <1>6, CallGoes

LEMMA CheckHeadGoes ==
  ASSUME NEW d, NEW a, NEW f, NEW holds, LiveInv(d, a, f, holds), CheckHead
  PROVE  LiveInv(d, a, f, holds)'
<1>1. /\ ClaimInv /\ ~destroyed /\ a \in Int /\ f \in Int /\ Indexes(d, a, f, holds)
      /\ Tails(d, a, f) /\ Calls(d, holds) /\ CallTypes /\ Kept(holds)
  BY DEF LiveInv, Calls
<1>2. /\ enqAt = "check head" /\ UNCHANGED <<baseVars, idxEntries, idxHeaders>>
      /\ (enqAt' = "insert" /\ enq' = enq) \/ UndoFrom(1)
  BY DEF CheckHead, EnqGoto
<1>3. /\ ProducerOnly
      /\ UNCHANGED <<tailIndex, tailBlock, emptied, freed, dequeueOptimisticCount,
                     dequeueOvercommit, idxEntries, idxHeaders, load>>
  BY <1>2 DEF ProducerOnly, baseVars, counterVars
<1>5. /\ Filled' = Filled /\ Filled \in Nat /\ Len(enq.got) \in Nat /\ Made \in Int
      /\ Made = Filled + Len(enq.got)
  BY <1>1, <1>3, FilledStays, TailIs, CallCounts
<1>6. Undone = 0 /\ Top = Made - 1 /\ Limit = Made
  BY <1>2 DEF Undone, Top, Limit, Undoing
<1>7. /\ enqAt' \notin Inserting /\ Calls(d, holds)' /\ Top' = Top /\ enq'.got = enq.got
      /\ enq'.block = enq.block /\ enq'.count = enq.count
      /\ \A n \in DOMAIN holds : n < Limit'
  <2>1. CASE enqAt' = "insert" /\ enq' = enq
    <3>1. Made' = Made /\ Undone' = 0
      BY <1>3, <1>5, <2>1, FilledStays DEF Undone
    <3>2. Top' = Made - 1 /\ Limit' = Made
      BY <2>1, <3>1 DEF Top, Limit, Undoing
    <3>3. CallTypes'
      BY <1>1, <2>1 DEF CallTypes, EnqueuePlaces
    <3>4. enq'.base = BaseOf(Made)' /\ BlockSize * Made' < Item(tailIndex)' + enq'.count
      <4>1. enq.base = BaseOf(Made) /\ BlockSize * Made < Item(tailIndex) + enq.count
        BY <1>1, <1>2 DEF Calls
      <4>2. BaseOf(Made)' = BaseOf(Made)
        BY <1>3, <3>1 DEF BaseOf, Wrap, startIndex
      <4>3. Item(tailIndex)' = Item(tailIndex)
        BY <1>3, FilledStays
      <4> QED BY <2>1, <3>1, <4>1, <4>2, <4>3
    <3>5. Calls(d, holds)'
      BY <1>1, <1>2, <1>5, <1>6, <2>1, <3>1, <3>3, <3>4 DEF Calls, Inserting, Undoing
    <3>6. \A n \in DOMAIN holds : n < Limit'
      BY <1>1, <1>6, <3>2 DEF Kept
    <3> QED BY <1>6, <2>1, <3>2, <3>5, <3>6 DEF Inserting
  <2>2. CASE UndoFrom(1)
    <3>1. PICK one : one = 1
      OBVIOUS
    <3>2. UndoFrom(one)
      BY <2>2, <3>1
    <3>3. NoneUndone
      BY <1>2 DEF NoneUndone
    <3> QED BY <1>1, <1>3, <1>6, <3>1, <3>2, <3>3, FirstUndo
  <2> QED BY <1>2, <2>1, <2>2
<1>8. enqAt \notin Inserting
  BY <1>2 DEF Inserting
<1>9. enqAt' # "idle" => enq'.count > 0 /\ Item(tailIndex) + enq'.count <= load.items
  BY <1>1, <1>2, <1>7 DEF ClaimInv
<1> QED BY <1>3, <1>7, <1>8, <1>9, PlainGoes

LEMMA NoBlockIndexGoes ==
  ASSUME NEW d, NEW a, NEW f, NEW holds, LiveInv(d, a, f, holds), NoBlockIndex
  PROVE  LiveInv(d, a, f, holds)'
<1>1. ClaimInv /\ Calls(d, holds) /\ CallTypes /\ Kept(holds)
  BY DEF LiveInv, Calls
<1>2. PICK one : one = 1
  OBVIOUS
<1>3. enqAt = "insert" /\ UNCHANGED <<baseVars, idxEntries, idxHeaders>> /\ UndoFrom(one)
  BY <1>2 DEF NoBlockIndex
<1>4. /\ ProducerOnly
      /\ UNCHANGED <<tailIndex, tailBlock, emptied, freed, dequeueOptimisticCount, dequeueOvercommit>>
      /\ UNCHANGED <<idxEntries, idxHeaders>> /\ tailIndex' = tailIndex
  BY <1>3 DEF ProducerOnly, baseVars, counterVars
<1>5. NoneUndone /\ enqAt \notin Inserting /\ enqAt # "idle" /\ Top = Made - 1
  BY <1>3 DEF NoneUndone, Inserting, Top, Undoing, Limit
<1>6. /\ Calls(d, holds)' /\ Top' = Made - 1
      /\ enq'.got = enq.got /\ enq'.block = enq.block /\ enq'.count = enq.count
      /\ \A n \in DOMAIN holds : n < Limit'
      /\ enqAt' \notin Inserting
  BY <1>1, <1>2, <1>3, <1>4, <1>5, FirstUndo
<1>7. enqAt' # "idle" => enq'.count > 0 /\ Item(tailIndex) + enq'.count <= load.items
  BY <1>1, <1>5, <1>6 DEF ClaimInv
<1> QED BY <1>4, <1>5, <1>6, <1>7, PlainGoes

(* A step of the producer to a place where what it does is the same.        *)
LEMMA SameCall ==
  ASSUME ClaimInv, ProducerOnly, tailIndex' = tailIndex, enq' = enq, CallTypes
  PROVE  /\ Made' = Made /\ BaseOf(Made)' = BaseOf(Made) /\ Item(tailIndex)' = Item(tailIndex)
         /\ Filled' = Filled
         /\ enqAt' \in EnqueuePlaces => CallTypes'
<1>1. Made' = Made /\ Item(tailIndex)' = Item(tailIndex) /\ Filled' = Filled
  BY FilledStays DEF Made
<1>2. BaseOf(Made)' = BaseOf(Made)
  BY <1>1 DEF BaseOf, Wrap, startIndex, ProducerOnly
<1> QED BY <1>1, <1>2 DEF CallTypes, EnqueueCall

LEMMA NoBlockAvailableGoes ==
  ASSUME NEW d, NEW a, NEW f, NEW holds, LiveInv(d, a, f, holds), NoBlockAvailable
  PROVE  LiveInv(d, a, f, holds)'
<1>1. /\ ClaimInv /\ a \in Int /\ Indexes(d, a, f, holds) /\ Calls(d, holds) /\ CallTypes
      /\ Kept(holds)
  BY DEF LiveInv, Calls
<1>2. /\ enqAt = "requisition" /\ enqAt' = "rewind" /\ enq' = enq
      /\ UNCHANGED <<baseVars, idxEntries, idxHeaders>>
  BY DEF NoBlockAvailable, EnqGoto
<1>3. /\ ProducerOnly
      /\ UNCHANGED <<tailIndex, tailBlock, emptied, freed, dequeueOptimisticCount, dequeueOvercommit>>
      /\ UNCHANGED <<idxEntries, idxHeaders>> /\ tailIndex' = tailIndex /\ load' = load
  BY <1>2 DEF ProducerOnly, baseVars, counterVars
<1>4. /\ Made' = Made /\ BaseOf(Made)' = BaseOf(Made) /\ Item(tailIndex)' = Item(tailIndex)
      /\ Filled' = Filled /\ CallTypes'
  <2>1. enqAt' \in EnqueuePlaces
    BY <1>2 DEF EnqueuePlaces, Inserting
  <2> QED BY <1>1, <1>2, <1>3, <2>1, SameCall
<1>5. Undone = 0 /\ Undone' = 0 /\ Top = Made /\ Top' = Made /\ Limit = Made /\ Limit' = Made
  BY <1>2, <1>4 DEF Undone, Top, Limit
<1>6. enqAt \in Inserting /\ enqAt' \in Inserting
  BY <1>2 DEF Inserting
<1>7. /\ \A n : SlotAt(d, Current, n)' = SlotAt(d, Current, n)
      /\ \A n : ValueOf(d, n)' = ValueOf(d, n)
  BY <1>1, <1>3, IndexSame
<1>8. SlotAt(d, Current, Made)' = SlotAt(d, Current, Made) /\ ValueOf(d, Made)' = ValueOf(d, Made)
  BY <1>4, <1>7 DEF SlotAt, ValueOf, EntryOf, EntryAt
<1>9. Calls(d, holds)'
  BY <1>1, <1>2, <1>4, <1>5, <1>6, <1>8 DEF Calls, Undoing
<1>10. \A n \in DOMAIN holds : n < Limit'
  BY <1>1, <1>5 DEF Kept
<1>11. enq'.count > 0 /\ Item(tailIndex) + enq'.count <= load.items
  BY <1>1, <1>2 DEF ClaimInv
<1> QED BY <1>2, <1>3, <1>5, <1>6, <1>9, <1>10, <1>11, PlainGoes

LEMMA FillGoes ==
  ASSUME NEW d, NEW a, NEW f, NEW holds, LiveInv(d, a, f, holds), Fill
  PROVE  LiveInv(d, a, f, holds)'
<1>1. ClaimInv /\ Calls(d, holds) /\ CallTypes /\ Kept(holds)
  BY DEF LiveInv, Calls
<1>2. /\ enqAt = "fill" /\ enqAt' = "publish" /\ enq' = enq
      /\ UNCHANGED <<counterVars, tailBlock, emptied, freed, dqAt, dq, isExplicit, destroyed, load,
                     idxEntries, idxHeaders>>
  BY DEF Fill, EnqGoto
<1>3. /\ ProducerOnly
      /\ UNCHANGED <<tailIndex, tailBlock, emptied, freed, dequeueOptimisticCount, dequeueOvercommit>>
      /\ UNCHANGED <<idxEntries, idxHeaders>> /\ tailIndex' = tailIndex
  BY <1>2 DEF ProducerOnly, counterVars
<1>4. Made' = Made /\ Item(tailIndex)' = Item(tailIndex) /\ Filled' = Filled /\ CallTypes'
  <2>1. enqAt' \in EnqueuePlaces
    BY <1>2 DEF EnqueuePlaces
  <2> QED BY <1>1, <1>2, <1>3, <2>1, SameCall
<1>5. Undone = 0 /\ Undone' = 0 /\ Top = Made - 1 /\ Top' = Made - 1 /\ Limit = Made /\ Limit' = Made
  BY <1>2, <1>4 DEF Undone, Top, Limit, Undoing
<1>6. enqAt \notin Inserting /\ enqAt' \notin Inserting
  BY <1>2 DEF Inserting
<1>7. Calls(d, holds)'
  BY <1>1, <1>2, <1>4, <1>5, <1>6 DEF Calls, Undoing
<1>8. \A n \in DOMAIN holds : n < Limit'
  BY <1>1, <1>5 DEF Kept
<1>9. enq'.count > 0 /\ Item(tailIndex) + enq'.count <= load.items
  BY <1>1, <1>2 DEF ClaimInv
<1> QED BY <1>2, <1>3, <1>5, <1>6, <1>7, <1>8, <1>9, PlainGoes

(* A call needs a new block if it goes beyond the ones there are.           *)
LEMMA NewBlockStarts ==
  ASSUME ClaimInv, NEW count \in Nat \ {0}, Item(tailIndex) + count <= load.items
  PROVE  FirstNewBase \in {Wrap(tailIndex + j) : j \in 0..(count - 1)} <=>
           BlockSize * Filled < Item(tailIndex) + count
<1> DEFINE t == Item(tailIndex)
           x == BlockSize * Filled
<1>1. /\ load \in Loads /\ tailIndex \in 0..(IndexMod - 1) /\ t \in Nat /\ t < IndexMod
      /\ FirstNewBase = BaseOf(Filled) /\ t <= x /\ x < t + BlockSize /\ Filled \in Int
  BY TailIs
<1>2. /\ BlockSize \in Nat \ {0} /\ IndexMod \in Nat \ {0} /\ BlockSize <= IndexMod \div 2
      /\ IndexMod = 2 * (IndexMod \div 2) /\ IndexMod \div 2 \in Nat
  BY Sizes
<1>3. x \in Int /\ startIndex \in Int /\ tailIndex \in Int
  BY <1>1, <1>2, Start
<1>4. load.items < IndexMod /\ load.items \in Int
  <2>1. load.items \in 1..(IndexMod - 1)
    BY <1>1, ProducerConstants
  <2> QED BY <1>2, <2>1
<1>5. FirstNewBase = Wrap(startIndex + x)
  BY <1>1 DEF BaseOf
<1> HIDE DEF x
<1>6. ASSUME NEW j \in 0..(count - 1)
      PROVE  Wrap(tailIndex + j) = Wrap(startIndex + (t + j)) /\ t + j \in 0..(IndexMod - 1)
             /\ t + j \in Int
  <2>1. PICK k \in Int : startIndex + t = tailIndex + IndexMod * k
    BY <1>1, IndexOfItem
  <2>2. IndexMod * k \in Int /\ startIndex + (t + j) = (tailIndex + j) + IndexMod * k /\ tailIndex + j \in Int
    BY <1>1, <1>2, <1>3, <2>1
  <2>3. Wrap((tailIndex + j) + IndexMod * k) = Wrap(tailIndex + j)
    BY <2>2, WrapIs
  <2>4. t + j \in 0..(IndexMod - 1) /\ t + j \in Int
    BY <1>1, <1>2, <1>4
  <2> QED BY <2>2, <2>3, <2>4
<1> HIDE DEF t
<1>7. ASSUME x < t + count PROVE FirstNewBase \in {Wrap(tailIndex + j) : j \in 0..(count - 1)}
  <2> DEFINE j == x - t
  <2>1. j \in 0..(count - 1) /\ t + j = x
    BY <1>1, <1>3, <1>7
  <2> HIDE DEF j
  <2>2. FirstNewBase = Wrap(tailIndex + j)
    BY <1>5, <1>6, <2>1
  <2> QED BY <2>1, <2>2
<1>8. ASSUME NEW j \in 0..(count - 1), FirstNewBase = Wrap(tailIndex + j) PROVE x < t + count
  <2>1. PICK y : y = t + j
    OBVIOUS
  <2>2. y \in 0..(IndexMod - 1) /\ y \in Int /\ Wrap(startIndex + x) = Wrap(startIndex + y)
    BY <1>5, <1>6, <1>8, <2>1
  <2>3. Wrap(x) = Wrap(y) /\ Wrap(y) = y
    BY <1>1, <1>3, <2>2, ItemIs, WrapIs
  <2>4. t <= y /\ y < t + count
    BY <1>1, <2>1
  <2>5. CASE x < IndexMod
    <3>1. x \in 0..(IndexMod - 1)
      BY <1>1, <1>2, <1>3, <2>5
    <3>2. Wrap(x) = x
      BY <1>3, <3>1, WrapIs
    <3> QED BY <2>3, <2>4, <3>2
  <2>6. CASE x >= IndexMod
    <3> DEFINE z == x - IndexMod
               one == 1
    <3>1. z \in 0..(IndexMod - 1) /\ x = IndexMod * one + z /\ one \in Int
      BY <1>1, <1>2, <1>3, <2>6
    <3> HIDE DEF z, one
    <3>2. Wrap(x) = z
      BY <1>2, <1>3, <3>1, Division DEF Wrap
    <3>3. z < y
      <4>1. z = x - IndexMod
        BY DEF z
      <4> QED BY <1>1, <1>2, <1>3, <2>2, <2>4, <4>1
    <3> QED BY <2>2, <2>3, <3>1, <3>2, <3>3
  <2> QED BY <1>2, <1>3, <2>5, <2>6
<1>9. FirstNewBase \in {Wrap(tailIndex + j) : j \in 0..(count - 1)} => x < t + count
  BY <1>8
<1> QED BY <1>7, <1>9 DEF t, x

Bulk(count) == count \in load.bulk /\ EnqueueBulk(count)

LEMMA EnqueueBulkGoes ==
  ASSUME NEW d, NEW a, NEW f, NEW holds, LiveInv(d, a, f, holds), NEW count, Bulk(count)
  PROVE  LiveInv(d, a, f, holds)'
<1>1. ClaimInv /\ Calls(d, holds) /\ CallTypes /\ Kept(holds)
  BY DEF LiveInv, Calls
<1> DEFINE local == [NoEnqueue EXCEPT !.count = count, !.base = FirstNewBase]
<1>2. /\ enqAt = "idle" /\ Item(tailIndex) + count <= load.items /\ enq' = local
      /\ enqAt' = IF FirstNewBase \in {Wrap(tailIndex + j) : j \in 0..(count - 1)}
                  THEN "check head" ELSE "fill"
      /\ UNCHANGED <<baseVars, idxEntries, idxHeaders>>
  BY DEF Bulk, EnqueueBulk, EnqGoto
<1>3. /\ ProducerOnly
      /\ UNCHANGED <<tailIndex, tailBlock, emptied, freed, dequeueOptimisticCount, dequeueOvercommit>>
      /\ UNCHANGED <<idxEntries, idxHeaders>> /\ tailIndex' = tailIndex
  BY <1>2 DEF ProducerOnly, baseVars, counterVars
<1>4. load \in Loads /\ count \in Nat \ {0} /\ FirstNewBase = BaseOf(Filled) /\ BaseOf(Filled) \in Int
      /\ Filled \in Nat /\ Item(tailIndex) \in Int /\ Filled \in Int
      /\ Item(tailIndex) <= BlockSize * Filled /\ BlockSize * Filled < Item(tailIndex) + BlockSize
  <2>1. load \in Loads /\ FirstNewBase = BaseOf(Filled) /\ Filled \in Int
    BY <1>1, TailIs
  <2>2. count \in Nat \ {0}
    BY <2>1, LoadsGood DEF Bulk
  <2>3. BaseOf(Filled) \in Nat
    BY <2>1, BaseIs
  <2> QED BY <1>1, <2>1, <2>2, <2>3, TailIs
<1>5. enq = NoEnqueue
  BY <1>1, <1>2 DEF Calls
<1>6. /\ enq.got = <<>> /\ enq.block = NoBlock /\ enq.block \notin Blocks
      /\ local \in EnqueueCall /\ local.got = <<>> /\ local.block = NoBlock
      /\ local.count = count /\ local.base = BaseOf(Filled)
  <2>1. NoBlock \notin Blocks /\ <<>> \in Seq(Blocks)
    BY ProducerConstants
  <2>2. enq.got = <<>> /\ enq.block = NoBlock
    BY <1>5 DEF NoEnqueue
  <2>3. count \in Nat /\ FirstNewBase \in Int /\ FirstNewBase = BaseOf(Filled)
    BY <1>4
  <2>4. NoEnqueue \in EnqueueCall /\ NoEnqueue.got = <<>> /\ NoEnqueue.block = NoBlock
    BY <2>1 DEF NoEnqueue, EnqueueCall
  <2> DEFINE x == [NoEnqueue EXCEPT !.count = count]
  <2>5. x \in EnqueueCall /\ x.got = <<>> /\ x.block = NoBlock /\ x.count = count
    BY <2>3, <2>4 DEF EnqueueCall
  <2>6. local = [x EXCEPT !.base = FirstNewBase]
    OBVIOUS
  <2> HIDE DEF local, x
  <2>7. /\ local \in EnqueueCall /\ local.got = <<>> /\ local.block = NoBlock
        /\ local.count = count /\ local.base = FirstNewBase
    BY <2>3, <2>5, <2>6 DEF EnqueueCall
  <2> QED BY <2>1, <2>2, <2>3, <2>7
<1> HIDE DEF local
<1>7. Len(enq.got) = 0 /\ Len(local.got) = 0
  BY <1>6
<1>8. /\ Made = Filled /\ Made' = Filled /\ Filled' = Filled /\ BaseOf(Made)' = BaseOf(Filled)
      /\ Item(tailIndex)' = Item(tailIndex)
  <2>1. Made = Filled /\ Made' = Filled /\ Filled' = Filled /\ Item(tailIndex)' = Item(tailIndex)
    <3>1. Filled' = Filled /\ Item(tailIndex)' = Item(tailIndex) /\ Made' = Filled + Len(enq'.got)
      BY <1>3, FilledStays
    <3>2. enq' = local
      BY <1>2
    <3> QED BY <1>4, <1>7, <3>1, <3>2 DEF Made
  <2>2. BaseOf(Made)' = BaseOf(Filled)
    BY <1>3, <2>1 DEF BaseOf, Wrap, startIndex, ProducerOnly
  <2> QED BY <2>1, <2>2
<1>9. enqAt' \in {"check head", "fill"}
  BY <1>2
<1>10. Top = Filled - 1 /\ Top' = Filled - 1 /\ Limit = Filled /\ Limit' = Filled
  BY <1>2, <1>8, <1>9 DEF Top, Limit, Undoing
<1>11. enqAt \notin Inserting /\ enqAt' \notin Inserting
  BY <1>2, <1>9 DEF Inserting
<1>12. FirstNewBase \in {Wrap(tailIndex + j) : j \in 0..(count - 1)} <=>
         BlockSize * Filled < Item(tailIndex) + count
  BY <1>1, <1>2, <1>4, NewBlockStarts
<1>13. Calls(d, holds)'
  <2>1. CallTypes'
    BY <1>2, <1>6, <1>9 DEF CallTypes, EnqueuePlaces
  <2>2. \A j : j \notin 1..Len(enq'.got)
    <3>1. Len(enq'.got) = 0
      BY <1>2, <1>7
    <3> QED BY <3>1
  <2>3. CASE enqAt' = "check head"
    <3>1. BlockSize * Filled < Item(tailIndex) + count
      BY <1>2, <1>12, <2>3
    <3> QED BY <1>2, <1>6, <1>8, <1>11, <2>1, <2>2, <2>3, <3>1 DEF Calls, Undoing
  <2>4. CASE enqAt' = "fill"
    <3>1. ~(BlockSize * Filled < Item(tailIndex) + count)
      BY <1>2, <1>12, <2>4
    <3>2. BlockSize * Filled \in Int /\ BlockSize \in Int
      BY <1>4, Sizes
    <3>3. /\ Item(tailIndex) + count <= BlockSize * Filled
          /\ BlockSize * Filled < Item(tailIndex) + count + BlockSize
      BY <1>4, <3>1, <3>2
    <3> QED BY <1>2, <1>6, <1>8, <1>11, <2>1, <2>2, <2>4, <3>3 DEF Calls, Undoing
  <2> QED BY <1>9, <2>3, <2>4
<1>14. \A n \in DOMAIN holds : n < Limit'
  BY <1>1, <1>10 DEF Kept
<1>15. enq'.count > 0 /\ Item(tailIndex) + enq'.count <= load.items
  <2>1. enq'.count = count /\ Item(tailIndex) + count <= load.items
    BY <1>2, <1>6
  <2>2. count > 0
    BY <1>4
  <2> QED BY <2>1, <2>2
<1>16. enq'.got = enq.got /\ enq'.block = enq.block
  BY <1>2, <1>6
<1> QED BY <1>3, <1>10, <1>11, <1>13, <1>14, <1>15, <1>16, PlainGoes

(* What a change of the index leaves to the consumers.                      *)
LEMMA SlotsKept ==
  ASSUME IndexTypes, SameIndexes, NEW d, NEW holds,
         \A e \in 1..Len(idxEntries) :
           idxEntries[e].key # InvalidBlockBase => idxEntries'[e].key # InvalidBlockBase
  PROVE  /\ EntriesKept(d, d, holds)
         /\ Current' = Current /\ IndexSize(Current)' = IndexSize(Current)
         /\ \A n : SlotAt(d, Current, n)' = SlotAt(d, Current, n)
         /\ \A n : EntryOf(d, n)' = EntryOf(d, n)
<1>1. Current' = Current /\ Current \in 1..Current
  BY CurrentIs DEF SameIndexes
<1>2. \A h \in 1..Current : h \in (1..Current)' /\ IndexSize(h)' = IndexSize(h)
        /\ \A s : EntryAt(h, s)' = EntryAt(h, s)
  BY <1>1, ViewStays
<1>3. \A n : EntryOf(d, n)' = EntryOf(d, n)
  BY ViewStays
<1>4. IndexSize(Current)' = IndexSize(Current)
  BY <1>1 DEF IndexSize, SameIndexes
<1>5. \A n : SlotAt(d, Current, n)' = SlotAt(d, Current, n)
  BY <1>1, <1>4 DEF SlotAt
<1>6. EntriesKept(d, d, holds)
  BY <1>2, <1>3 DEF EntriesKept
<1> QED BY <1>1, <1>3, <1>4, <1>5, <1>6

(* The slot of the next block.                                              *)
AtInsert == enqAt = "insert"

LEMMA NewTailIs ==
  ASSUME NEW d, NEW a, NEW f, NEW holds, LiveInv(d, a, f, holds), AtInsert
  PROVE  /\ NewTail = SlotAt(d, Current, Made) /\ EntryAt(Len(idxHeaders), NewTail) = EntryOf(d, Made)
         /\ Top = Made - 1 /\ Made <= a /\ a <= Made + IndexSize(Current) /\ f <= Made
         /\ Made \in Int /\ IndexSize(Current) \in Nat \ {0} /\ a \in Int
         /\ Made = a \/ Made \in Window(a)
         /\ EntryFree(EntryOf(d, Made)) => ValueOf(d, Made) \notin Blocks
         /\ ~EntryFree(EntryOf(d, Made)) => ValueOf(d, Made) \in Blocks
<1>1. /\ ClaimInv /\ a \in Int /\ f \in Int /\ Indexes(d, a, f, holds) /\ Tails(d, a, f)
      /\ Calls(d, holds) /\ CallTypes /\ IndexTypes /\ Shape(d) /\ d \in [Nat -> Int]
  BY DEF LiveInv, Calls, Indexes, Shape
<1>2. /\ Len(enq.got) \in Nat /\ Made \in Int /\ Made = Filled + Len(enq.got) /\ Filled \in Nat
      /\ Current \in 1..Current /\ IndexSize(Current) \in Nat \ {0}
  BY <1>1, CallCounts, TailIs, CurrentIs, CapacityIs
<1>3. Top = Made - 1 /\ enqAt \notin Inserting
  BY DEF Top, Limit, Undoing, Inserting, AtInsert
<1>4. Header.tail = SlotAt(d, Current, Made - 1)
  BY <1>1, <1>3 DEF Tails
<1>5. NewTail = SlotAt(d, Current, Made)
  <2>1. PICK m \in Int : m = Made - 1 /\ m + 1 = Made
    BY <1>2
  <2>2. (SlotAt(d, Current, m) + 1) % IndexSize(Current) = SlotAt(d, Current, m + 1)
    BY <1>1, <1>2, SlotsFollow
  <2>3. NewTail = (Header.tail + 1) % IndexSize(Current)
    BY DEF NewTail, Header, IndexSize, Current
  <2> QED BY <1>4, <2>1, <2>2, <2>3
<1>6. EntryAt(Len(idxHeaders), NewTail) = EntryOf(d, Made)
  BY <1>5 DEF EntryOf, Current
<1>7. Made <= a /\ a <= Made + IndexSize(Current) /\ f <= Made
  <2>1. a <= Filled + IndexSize(Current) /\ f <= Filled /\ Top < a
    BY <1>1 DEF Tails
  <2>2. a \in Int /\ f \in Int /\ Top = Made - 1
    BY <1>1, <1>3
  <2> QED BY <1>2, <2>1, <2>2
<1>8. Made = a \/ Made \in Window(a)
  <2>1. a \in Int
    BY <1>1
  <2> QED BY <1>2, <1>7, <2>1 DEF Window
<1> DEFINE e == EntryOf(d, Made)
<1>9. e \in 1..Len(idxEntries) /\ ValueOf(d, Made) = idxEntries[e].value
      /\ KeyOf(d, Made) = idxEntries[e].key
  BY <1>1, <1>2, EntryInWindow DEF ValueOf, KeyOf
<1>10. NoBlock \notin Blocks /\ Uninitialized \notin Blocks
  BY ProducerConstants, ImplicitConstants
<1> HIDE DEF e
<1>11. ASSUME ValueOf(d, Made) \in Blocks PROVE ~EntryFree(e)
  <2>1. PICK m \in Window(a) : e = EntryOf(d, m)
    BY <1>1, <1>2, EntryInWindow DEF e
  <2>2. ValueOf(d, m) \in Blocks
    BY <1>9, <1>11, <2>1 DEF ValueOf
  <2>3. m \in DOMAIN holds /\ m >= f
    BY <1>1, <2>2 DEF Indexes, HoldsBlocks
  <2>4. KeyOf(d, m) = BaseOf(m)
    BY <1>1, <2>1, <2>3 DEF Indexes, KeysUpTo
  <2>5. BaseOf(m) # InvalidBlockBase
    <3>1. load \in Loads /\ m \in Int
      BY <1>1, <2>1, TailIs, WindowIsInt
    <3> QED BY <3>1, BaseIs
  <2> QED BY <1>9, <1>10, <1>11, <2>1, <2>4, <2>5 DEF EntryFree, KeyOf
<1>12. ASSUME ~EntryFree(e) PROVE ValueOf(d, Made) \in Blocks
  <2>1. idxEntries[e].key # InvalidBlockBase /\ idxEntries[e].value # NoBlock
    BY <1>12 DEF EntryFree
  <2>2. idxEntries[e].value # Uninitialized
    BY <1>1, <1>3, <1>9, <2>1 DEF Tails
  <2>3. idxEntries[e] \in EntrySet
    BY <1>1, <1>9, ElementOfSeq DEF IndexTypes
  <2> QED BY <1>9, <2>1, <2>2, <2>3 DEF EntrySet
<1> QED BY <1>1, <1>2, <1>3, <1>5, <1>6, <1>7, <1>8, <1>11, <1>12 DEF e

LEMMA MadeStays ==
  ASSUME ProducerOnly, tailIndex' = tailIndex, enq'.got = enq.got
  PROVE  /\ Made' = Made /\ BaseOf(Made)' = BaseOf(Made) /\ Item(tailIndex)' = Item(tailIndex)
         /\ Filled' = Filled
<1>1. Made' = Made /\ Item(tailIndex)' = Item(tailIndex) /\ Filled' = Filled
  BY FilledStays DEF Made
<1>2. BaseOf(Made)' = BaseOf(Made)
  BY <1>1 DEF BaseOf, Wrap, startIndex, ProducerOnly
<1> QED BY <1>1, <1>2

LEMMA SlotNoted ==
  ASSUME CallTypes, NEW s \in Int, enq' = [enq EXCEPT !.slot = s]
  PROVE  /\ enq' \in EnqueueCall /\ enq'.slot = s /\ enq'.got = enq.got /\ enq'.block = enq.block
         /\ enq'.count = enq.count /\ enq'.base = enq.base
BY DEF CallTypes, EnqueueCall

(* An index with as many slots as it has blocks is full.                    *)
LEMMA RoomLeft ==
  ASSUME NEW d, NEW a, NEW f, NEW holds, LiveInv(d, a, f, holds), AtInsert, Made = a,
         a - IndexSize(Current) \notin DOMAIN holds
  PROVE  a + 1 <= Filled + IndexSize(Current)
<1>1. /\ ClaimInv /\ a \in Int /\ Indexes(d, a, f, holds) /\ Tails(d, a, f) /\ Calls(d, holds)
      /\ CallTypes /\ IndexTypes
  BY DEF LiveInv, Calls, Indexes
<1>2. /\ Len(enq.got) \in Nat /\ Made = Filled + Len(enq.got) /\ Filled \in Nat
      /\ IndexSize(Current) \in Nat \ {0}
  BY <1>1, CallCounts, TailIs, CurrentIs, CapacityIs
<1>3. a <= Filled + IndexSize(Current)
  BY <1>1 DEF Tails
<1>4. CASE Len(enq.got) = 0
  BY <1>1, <1>2, <1>4
<1>5. CASE Len(enq.got) # 0
  <2>1. PICK one : one = 1
    OBVIOUS
  <2>2. one \in 1..Len(enq.got) /\ ~(one <= 0) /\ Filled + (one - 1) = Filled
    BY <1>2, <1>5, <2>1
  <2>3. Undone = 0
    BY DEF Undone, AtInsert
  <2>4. Filled \in DOMAIN holds
    BY <1>1, <2>2, <2>3 DEF Calls
  <2>5. Filled # a - IndexSize(Current)
    BY <2>4
  <2> QED BY <1>1, <1>2, <1>3, <2>5
<1> QED BY <1>4, <1>5

LEMMA InsertEntryGoes ==
  ASSUME NEW d, NEW a, NEW f, NEW holds, LiveInv(d, a, f, holds), InsertEntry
  PROVE  \E A : LiveInv(d, A, f, holds)'
<1>1. /\ ClaimInv /\ a \in Int /\ f \in Int /\ Indexes(d, a, f, holds) /\ Tails(d, a, f)
      /\ Calls(d, holds) /\ CallTypes /\ Kept(holds) /\ IndexTypes /\ Shape(d) /\ load \in Loads
  BY TailIs DEF LiveInv, Calls, Indexes
<1>2. /\ AtInsert /\ enqAt = "insert" /\ EntryFree(EntryAt(Len(idxHeaders), NewTail))
      /\ idxEntries' = [idxEntries EXCEPT ![EntryAt(Len(idxHeaders), NewTail)].key = enq.base]
      /\ enqAt' = "store tail" /\ enq' = [enq EXCEPT !.slot = NewTail]
      /\ UNCHANGED <<baseVars, idxHeaders>>
  BY DEF InsertEntry, EnqGoto, AtInsert
<1>3. /\ ProducerOnly
      /\ UNCHANGED <<tailIndex, tailBlock, emptied, freed, dequeueOptimisticCount, dequeueOvercommit>>
      /\ UNCHANGED <<idxHeaders, load>> /\ tailIndex' = tailIndex
  BY <1>2 DEF ProducerOnly, baseVars, counterVars
<1>4. /\ NewTail = SlotAt(d, Current, Made) /\ EntryAt(Len(idxHeaders), NewTail) = EntryOf(d, Made)
      /\ Top = Made - 1 /\ Made <= a /\ f <= Made
      /\ Made \in Int /\ IndexSize(Current) \in Nat \ {0}
      /\ Made = a \/ Made \in Window(a)
      /\ EntryFree(EntryOf(d, Made)) => ValueOf(d, Made) \notin Blocks
  BY <1>2, NewTailIs
<1>5. ValueOf(d, Made) \notin Blocks /\ enq.base = BaseOf(Made)
  BY <1>1, <1>2, <1>4 DEF Calls
<1>6. Made = a => a - IndexSize(Current) \notin DOMAIN holds
  <2> SUFFICES ASSUME Made = a, a - IndexSize(Current) \in DOMAIN holds PROVE FALSE
    OBVIOUS
  <2>1. ValueOf(d, a - IndexSize(Current)) \in Blocks
    BY <1>1 DEF Indexes, HoldsBlocks
  <2>2. EntryOf(d, a - IndexSize(Current)) = EntryOf(d, a)
    BY <1>1, EntryAround
  <2> QED BY <1>5, <2>1, <2>2 DEF ValueOf
<1>7. PICK n : n = Made
  OBVIOUS
<1>8. PICK A : A = IF n = a THEN a + 1 ELSE a
  OBVIOUS
<1>9. /\ Indexes(d, A, f, holds)' /\ SameIndexes /\ Len(idxEntries') = Len(idxEntries)
      /\ EntryOf(d, n) \in 1..Len(idxEntries)
      /\ \A e \in 1..Len(idxEntries) :
           /\ idxEntries'[e].value = idxEntries[e].value
           /\ idxEntries[e].key # InvalidBlockBase => idxEntries'[e].key # InvalidBlockBase
           /\ e # EntryOf(d, n) => idxEntries'[e] = idxEntries[e]
  <2>1. /\ n \in Int /\ n >= f /\ (n \in Window(a) \/ (n = a /\ a - IndexSize(Current) \notin DOMAIN holds))
        /\ idxEntries' = [idxEntries EXCEPT ![EntryOf(d, n)].key = BaseOf(n)]
    BY <1>1, <1>2, <1>4, <1>5, <1>6, <1>7
  <2>2. n \in Window(a) \/ (n = a /\ a - IndexSize(Current) \notin DOMAIN holds)
    BY <2>1
  <2>3. a \in Int /\ f \in Int /\ Indexes(d, a, f, holds) /\ load \in Loads
    BY <1>1
  <2>4. UNCHANGED <<idxHeaders, load>>
    BY <1>3
  <2>5. A \in Int /\ (n = a => A = a + 1) /\ (n # a => A = a)
    BY <1>1, <1>8
  <2>6. n \in Int /\ n >= f /\ PutKey(EntryOf(d, n), BaseOf(n))
    BY <2>1 DEF PutKey
  <2> QED BY <2>2, <2>3, <2>4, <2>5, <2>6, KeySet
<1>10. /\ EntriesKept(d, d, holds) /\ Current' = Current /\ IndexSize(Current)' = IndexSize(Current)
       /\ \A m : SlotAt(d, Current, m)' = SlotAt(d, Current, m)
       /\ \A m : EntryOf(d, m)' = EntryOf(d, m)
  BY <1>1, <1>9, SlotsKept
<1>11. /\ enq' \in EnqueueCall /\ enq'.slot = SlotAt(d, Current, Made) /\ enq'.got = enq.got
       /\ enq'.block = enq.block /\ enq'.count = enq.count /\ enq'.base = enq.base
  <2>1. SlotAt(d, Current, Made) \in Int
    BY <1>1, <1>4, CurrentIs, SlotIs DEF Shape
  <2> QED BY <1>1, <1>2, <1>4, <2>1, SlotNoted
<1>12. /\ Made' = Made /\ BaseOf(Made)' = BaseOf(Made) /\ Item(tailIndex)' = Item(tailIndex)
       /\ Filled' = Filled
  BY <1>3, <1>11, MadeStays
<1>13. Undone = 0 /\ Undone' = 0 /\ Top' = Made - 1 /\ Limit = Made /\ Limit' = Made
  BY <1>2, <1>12 DEF Undone, Top, Limit, Undoing
<1>14. enqAt \notin Inserting /\ enqAt' \in Inserting
  BY <1>2 DEF Inserting
<1>15. /\ SlotAt(d, Current, Made)' = SlotAt(d, Current, Made)
       /\ ValueOf(d, Made)' = ValueOf(d, Made) /\ EntryOf(d, Made)' = EntryOf(d, Made)
       /\ SlotAt(d, Current, Top)' = SlotAt(d, Current, Top)
  <2>1. SlotAt(d, Current, Made)' = SlotAt(d, Current, Made)
        /\ SlotAt(d, Current, Top)' = SlotAt(d, Current, Top)
    BY <1>4, <1>10, <1>12, <1>13 DEF SlotAt
  <2>2. EntryOf(d, Made)' = EntryOf(d, Made)
    BY <1>10, <1>12 DEF EntryOf, EntryAt, SlotAt
  <2>3. ValueOf(d, Made)' = ValueOf(d, Made)
    BY <1>7, <1>9, <2>2 DEF ValueOf
  <2> QED BY <2>1, <2>2, <2>3
<1>16. Calls(d, holds)'
  <2>1. CallTypes'
    BY <1>2, <1>11 DEF CallTypes, EnqueuePlaces, Inserting
  <2>2. enq'.base = BaseOf(Made)' /\ BlockSize * Made' < Item(tailIndex)' + enq'.count
    BY <1>1, <1>2, <1>11, <1>12 DEF Calls
  <2> QED BY <1>1, <1>2, <1>5, <1>11, <1>12, <1>13, <1>14, <1>15, <2>1, <2>2 DEF Calls, Undoing
<1>17. Tails(d, A, f)'
  <2>1. Header'.tail = Header.tail
    BY <1>3 DEF Header
  <2>2. A <= Filled + IndexSize(Current) /\ A \in Int /\ Made < A
    <3>1. CASE Made = a
      <4>1. a + 1 <= Filled + IndexSize(Current)
        BY <1>2, <1>6, <3>1, RoomLeft
      <4> QED BY <1>1, <1>7, <1>8, <3>1, <4>1
    <3>2. CASE Made # a
      <4>1. a <= Filled + IndexSize(Current)
        BY <1>1 DEF Tails
      <4>2. A = a
        BY <1>7, <1>8, <3>2
      <4> QED BY <1>1, <1>4, <3>2, <4>1, <4>2
    <3> QED BY <3>1, <3>2
  <2>3. Top' < A
    BY <1>4, <1>13, <2>2
  <2>4. f <= Filled
    BY <1>1 DEF Tails
  <2>5. \A e \in 1..Len(idxEntries) :
          idxEntries'[e].value = Uninitialized =>
            idxEntries'[e].key = InvalidBlockBase \/ e = EntryOf(d, Made)
    <3> TAKE e \in 1..Len(idxEntries)
    <3>1. CASE e = EntryOf(d, Made)
      BY <3>1
    <3>2. CASE e # EntryOf(d, Made)
      BY <1>1, <1>7, <1>9, <1>14, <3>2 DEF Tails
    <3> QED BY <3>1, <3>2
  <2>6. Header'.tail = SlotAt(d, Current, Top)'
    BY <1>1, <1>15, <2>1 DEF Tails
  <2>7. A <= Filled' + IndexSize(Current)' /\ f <= Filled' /\ Made' < A
    BY <1>10, <1>12, <2>2, <2>4
  <2>8. \A e \in 1..Len(idxEntries') :
          idxEntries'[e].value = Uninitialized =>
            idxEntries'[e].key = InvalidBlockBase \/ e = EntryOf(d, Made)'
    BY <1>9, <1>15, <2>5
  <2> QED BY <1>14, <2>3, <2>6, <2>7, <2>8 DEF Tails, InvalidBlockBase, Uninitialized
<1>18. \A m \in DOMAIN holds : m < Limit'
  BY <1>1, <1>13 DEF Kept
<1>19. enq'.count > 0 /\ Item(tailIndex) + enq'.count <= load.items
  BY <1>1, <1>2, <1>11 DEF ClaimInv
<1>20. A \in Int
  BY <1>1, <1>8
<1>21. LiveInv(d, A, f, holds)'
  BY <1>1, <1>3, <1>9, <1>10, <1>11, <1>16, <1>17, <1>18, <1>19, <1>20, CallGoes
<1> QED BY <1>21

(* A step of the producer that writes the tail of the index.                *)
LEMMA TailPut ==
  ASSUME NEW d, NEW a \in Int, NEW f, NEW holds, Indexes(d, a, f, holds),
         NEW t \in Int, PutTail(t), UNCHANGED <<idxEntries, load>>
  PROVE  /\ Indexes(d, a, f, holds)' /\ EntriesKept(d, d, holds) /\ Header'.tail = t
         /\ Current' = Current /\ IndexSize(Current)' = IndexSize(Current)
         /\ \A n : SlotAt(d, Current, n)' = SlotAt(d, Current, n)
         /\ \A n : EntryOf(d, n)' = EntryOf(d, n) /\ ValueOf(d, n)' = ValueOf(d, n)
<1>1. IndexTypes
  BY DEF Indexes
<1>2. IndexTypes' /\ SameIndexes /\ Header'.tail = t
  BY <1>1, TailWritten
<1>3. Indexes(d, a, f, holds)'
  BY <1>2, IndexStays
<1>4. /\ EntriesKept(d, d, holds)
      /\ Current' = Current /\ IndexSize(Current)' = IndexSize(Current)
      /\ \A n : SlotAt(d, Current, n)' = SlotAt(d, Current, n)
      /\ \A n : EntryOf(d, n)' = EntryOf(d, n)
  <2>1. \A e \in 1..Len(idxEntries) :
          idxEntries[e].key # InvalidBlockBase => idxEntries'[e].key # InvalidBlockBase
    OBVIOUS
  <2> QED BY <1>1, <1>2, <2>1, SlotsKept
<1>5. \A n : ValueOf(d, n)' = ValueOf(d, n)
  BY <1>4 DEF ValueOf
<1> QED BY <1>2, <1>3, <1>4, <1>5

LEMMA TailGoes ==
  ASSUME NEW d, NEW a, NEW f, NEW holds, LiveInv(d, a, f, holds), ProducerOnly,
         UNCHANGED <<tailIndex, tailBlock, emptied, freed, dequeueOptimisticCount, dequeueOvercommit>>,
         UNCHANGED <<idxEntries, load>>,
         enq'.got = enq.got, enq'.block = enq.block,
         enqAt' # "idle" => enq'.count > 0 /\ Item(tailIndex) + enq'.count <= load.items,
         Calls(d, holds)', enqAt' \in Inserting => enqAt \in Inserting,
         enqAt \in Inserting => enqAt' \in Inserting,
         \A n \in DOMAIN holds : n < Limit',
         NEW T \in Int, T < a, Top' = T, NEW t \in Int, t = SlotAt(d, Current, T), PutTail(t)
  PROVE  LiveInv(d, a, f, holds)'
<1>1. /\ ClaimInv /\ a \in Int /\ f \in Int /\ Indexes(d, a, f, holds) /\ Tails(d, a, f)
  BY DEF LiveInv
<1>2. Filled' = Filled /\ Made' = Made
  BY FilledStays DEF Made
<1>3. /\ Indexes(d, a, f, holds)' /\ EntriesKept(d, d, holds) /\ Header'.tail = t
      /\ Current' = Current /\ IndexSize(Current)' = IndexSize(Current)
      /\ \A n : SlotAt(d, Current, n)' = SlotAt(d, Current, n)
      /\ \A n : EntryOf(d, n)' = EntryOf(d, n)
  BY <1>1, TailPut
<1>4. SlotAt(d, Current, Top)' = t /\ EntryOf(d, Made)' = EntryOf(d, Made)
  BY <1>2, <1>3 DEF SlotAt, EntryOf, EntryAt
<1>5. Tails(d, a, f)'
  <2>1. a <= Filled' + IndexSize(Current)' /\ f <= Filled' /\ Top' < a
    BY <1>1, <1>2, <1>3 DEF Tails
  <2>2. enqAt' \in Inserting => Made' < a
    BY <1>1, <1>2 DEF Tails
  <2>3. Header'.tail = SlotAt(d, Current, Top)'
    BY <1>3, <1>4
  <2>4. \A e \in 1..Len(idxEntries') :
          idxEntries'[e].value = Uninitialized =>
            idxEntries'[e].key = InvalidBlockBase \/ (enqAt' \in Inserting /\ e = EntryOf(d, Made)')
    BY <1>1, <1>4 DEF Tails
  <2> QED BY <2>1, <2>2, <2>3, <2>4 DEF Tails, Inserting, InvalidBlockBase, Uninitialized
<1> QED BY <1>1, <1>3, <1>5, CallGoes

LEMMA StoreIndexTailGoes ==
  ASSUME NEW d, NEW a, NEW f, NEW holds, LiveInv(d, a, f, holds), StoreIndexTail
  PROVE  LiveInv(d, a, f, holds)'
<1>1. /\ ClaimInv /\ a \in Int /\ Indexes(d, a, f, holds) /\ Calls(d, holds) /\ CallTypes
      /\ Kept(holds) /\ Tails(d, a, f)
  BY DEF LiveInv, Calls
<1>2. /\ enqAt = "store tail" /\ enqAt' = "requisition" /\ enq' = enq
      /\ PutTail(enq.slot) /\ UNCHANGED <<baseVars, idxEntries>>
  BY DEF StoreIndexTail, EnqGoto, PutTail, Current
<1>3. /\ ProducerOnly
      /\ UNCHANGED <<tailIndex, tailBlock, emptied, freed, dequeueOptimisticCount, dequeueOvercommit>>
      /\ UNCHANGED <<idxEntries, load>> /\ tailIndex' = tailIndex
  BY <1>2 DEF ProducerOnly, baseVars, counterVars
<1>4. /\ Made' = Made /\ BaseOf(Made)' = BaseOf(Made) /\ Item(tailIndex)' = Item(tailIndex)
      /\ Filled' = Filled /\ CallTypes' /\ Made \in Int /\ enq.slot \in Int
  <2>1. enqAt' \in EnqueuePlaces
    BY <1>2 DEF EnqueuePlaces, Inserting
  <2> QED BY <1>1, <1>2, <1>3, <2>1, SameCall, CallCounts
<1>5. Undone = 0 /\ Undone' = 0 /\ Top' = Made /\ Limit = Made /\ Limit' = Made
  BY <1>2, <1>4 DEF Undone, Top, Limit
<1>6. enqAt \in Inserting /\ enqAt' \in Inserting
  BY <1>2 DEF Inserting
<1>7. /\ \A n : SlotAt(d, Current, n)' = SlotAt(d, Current, n)
      /\ \A n : ValueOf(d, n)' = ValueOf(d, n)
  BY <1>1, <1>2, <1>3, <1>4, TailPut
<1>8. SlotAt(d, Current, Made)' = SlotAt(d, Current, Made) /\ ValueOf(d, Made)' = ValueOf(d, Made)
  BY <1>4, <1>7 DEF SlotAt, ValueOf, EntryOf, EntryAt
<1>9. Calls(d, holds)'
  BY <1>1, <1>2, <1>4, <1>5, <1>6, <1>8 DEF Calls, Undoing
<1>10. \A n \in DOMAIN holds : n < Limit'
  BY <1>1, <1>5 DEF Kept
<1>11. enq'.count > 0 /\ Item(tailIndex) + enq'.count <= load.items
  BY <1>1, <1>2 DEF ClaimInv
<1>12. enq.slot = SlotAt(d, Current, Made) /\ Made < a
  BY <1>1, <1>6 DEF Calls, Tails
<1>13. enq'.got = enq.got /\ enq'.block = enq.block
  BY <1>2
<1> QED BY <1>2, <1>3, <1>4, <1>5, <1>6, <1>9, <1>10, <1>11, <1>12, <1>13, TailGoes

(* What is still in the index when the last of the call is undone.          *)
LEMMA UndoLimit ==
  ASSUME ClaimInv, CallTypes, NEW k \in Nat \ {0}, k <= Len(enq.got) + 1, NEW holds,
         \A n \in DOMAIN holds : n \in Nat /\ n < Made,
         \A j \in 1..Len(enq.got) : j < k => Filled + (j - 1) \notin DOMAIN holds,
         NEW l, l = IF k <= Len(enq.got) THEN Made ELSE Filled
  PROVE  \A n \in DOMAIN holds : n < l
<1>1. Len(enq.got) \in Nat /\ Made = Filled + Len(enq.got) /\ Filled \in Nat
  BY CallCounts, TailIs
<1>2. CASE k <= Len(enq.got)
  BY <1>2
<1>3. CASE ~(k <= Len(enq.got))
  <2> SUFFICES ASSUME NEW n \in DOMAIN holds, ~(n < Filled) PROVE FALSE
    BY <1>3
  <2>1. n \in Nat /\ n < Made
    OBVIOUS
  <2>2. PICK j : j = n - Filled + 1
    OBVIOUS
  <2>3. j \in 1..Len(enq.got) /\ j < k /\ Filled + (j - 1) = n
    BY <1>1, <1>3, <2>1, <2>2
  <2> QED BY <2>3
<1> QED BY <1>2, <1>3

LEMMA RewindTailGoes ==
  ASSUME NEW d, NEW a, NEW f, NEW holds, LiveInv(d, a, f, holds), RewindTail
  PROVE  LiveInv(d, a, f, holds)'
<1>1. /\ ClaimInv /\ a \in Int /\ Indexes(d, a, f, holds) /\ Calls(d, holds) /\ CallTypes
      /\ Kept(holds) /\ Tails(d, a, f) /\ IndexTypes /\ Shape(d)
  BY DEF LiveInv, Calls, Indexes
<1>2. /\ enqAt \in {"rewind", "undo rewind"} /\ UNCHANGED <<baseVars, idxEntries>>
      /\ PutTail((Header.tail - 1) % IndexSize(Current))
      /\ IF enqAt = "rewind" THEN enqAt' = "null value" /\ enq' = enq ELSE UndoFrom(enq.undo + 1)
  BY DEF RewindTail, EnqGoto, PutTail, Current, IndexSize, Header
<1>3. /\ ProducerOnly
      /\ UNCHANGED <<tailIndex, tailBlock, emptied, freed, dequeueOptimisticCount, dequeueOvercommit>>
      /\ UNCHANGED <<idxEntries, load>> /\ tailIndex' = tailIndex
  BY <1>2 DEF ProducerOnly, baseVars, counterVars
<1>4. Made \in Int /\ Top \in Int /\ Top < a /\ Header.tail = SlotAt(d, Current, Top)
  BY <1>1, CallCounts DEF Tails
<1>5. PICK T : T = Top - 1
  OBVIOUS
<1>6. PICK t : t = SlotAt(d, Current, T)
  OBVIOUS
<1>7. T \in Int /\ T < a /\ t \in Int /\ PutTail(t)
  <2>1. T \in Int /\ T < a
    BY <1>1, <1>4, <1>5
  <2>2. d \in [Nat -> Int] /\ Current \in 1..Current
    BY <1>1, CurrentIs DEF Shape
  <2>3. t \in Int
    BY <1>1, <1>6, <2>1, <2>2, SlotIs
  <2>4. (SlotAt(d, Current, Top) - 1) % IndexSize(Current) = SlotAt(d, Current, Top - 1)
    BY <1>1, <1>4, <2>2, SlotsFollow
  <2> QED BY <1>2, <1>4, <1>5, <1>6, <2>1, <2>3, <2>4
<1>8. CASE enqAt = "rewind"
  <2>1. enqAt' = "null value" /\ enq' = enq
    BY <1>2, <1>8
  <2>2. /\ Made' = Made /\ BaseOf(Made)' = BaseOf(Made) /\ Item(tailIndex)' = Item(tailIndex)
        /\ Filled' = Filled /\ CallTypes'
    <3>1. enqAt' \in EnqueuePlaces
      BY <2>1 DEF EnqueuePlaces, Inserting
    <3> QED BY <1>1, <1>3, <2>1, <3>1, SameCall
  <2>3. Undone = 0 /\ Undone' = 0 /\ Top' = Made - 1 /\ Top = Made /\ Limit = Made /\ Limit' = Made
    BY <1>8, <2>1, <2>2 DEF Undone, Top, Limit, Undoing
  <2>4. enqAt \in Inserting /\ enqAt' \in Inserting
    BY <1>8, <2>1 DEF Inserting
  <2>5. /\ \A n : SlotAt(d, Current, n)' = SlotAt(d, Current, n)
        /\ \A n : ValueOf(d, n)' = ValueOf(d, n)
    BY <1>1, <1>3, <1>7, TailPut
  <2>6. SlotAt(d, Current, Made)' = SlotAt(d, Current, Made) /\ ValueOf(d, Made)' = ValueOf(d, Made)
    BY <2>2, <2>5 DEF SlotAt, ValueOf, EntryOf, EntryAt
  <2>7. Calls(d, holds)'
    BY <1>1, <1>8, <2>1, <2>2, <2>3, <2>4, <2>6 DEF Calls, Undoing
  <2>8. \A n \in DOMAIN holds : n < Limit'
    BY <1>1, <2>3 DEF Kept
  <2>9. enq'.count > 0 /\ Item(tailIndex) + enq'.count <= load.items
    BY <1>1, <1>8, <2>1 DEF ClaimInv
  <2>10. enq'.got = enq.got /\ enq'.block = enq.block /\ Top' = T
    BY <1>5, <2>1, <2>3
  <2> QED BY <1>3, <1>6, <1>7, <2>4, <2>7, <2>8, <2>9, <2>10, TailGoes
<1>9. CASE enqAt = "undo rewind"
  <2>1. PICK k : k = enq.undo + 1
    OBVIOUS
  <2>2. /\ enq.undo \in 1..Len(enq.got) /\ enq.block \notin Blocks /\ Undone = enq.undo
        /\ Top = Made - enq.undo /\ Limit = Made /\ enqAt \notin Inserting
    BY <1>1, <1>9 DEF Calls, Undoing, Undone, Top, Limit, Inserting
  <2>3. Len(enq.got) \in Nat
    BY <1>1, CallCounts
  <2>4. k \in Nat \ {0} /\ k <= Len(enq.got) + 1
    BY <2>1, <2>2, <2>3
  <2>5. UndoFrom(k)
    BY <1>2, <1>9, <2>1
  <2>6. \A j \in 1..Len(enq.got) : IF j < k THEN Filled + (j - 1) \notin DOMAIN holds
          ELSE Filled + (j - 1) \in DOMAIN holds /\ holds[Filled + (j - 1)] = enq.got[j]
    <3> TAKE j \in 1..Len(enq.got)
    <3>1. j < k <=> j <= Undone
      BY <2>1, <2>2, <2>3
    <3> QED BY <1>1, <3>1 DEF Calls
  <2>7. /\ Calls(d, holds)' /\ Top' = Made - k /\ enq'.got = enq.got /\ enq'.block = enq.block
        /\ enq'.count = enq.count /\ Limit' = IF k <= Len(enq.got) THEN Made ELSE Filled
        /\ enqAt' \notin Inserting
    BY <1>1, <1>3, <2>2, <2>4, <2>5, <2>6, UndoGoes
  <2>8. Top' = T
    BY <1>4, <1>5, <2>1, <2>2, <2>3, <2>7
  <2>9. \A n \in DOMAIN holds : n < Limit'
    <3>1. \A n \in DOMAIN holds : n \in Nat /\ n < Made
      BY <1>1, <2>2 DEF Kept
    <3>2. \A j \in 1..Len(enq.got) : j < k => Filled + (j - 1) \notin DOMAIN holds
      BY <2>6
    <3> QED BY <1>1, <2>4, <2>7, <3>1, <3>2, UndoLimit
  <2>10. enq'.count > 0 /\ Item(tailIndex) + enq'.count <= load.items
    BY <1>1, <1>9, <2>7 DEF ClaimInv
  <2> QED BY <1>3, <1>6, <1>7, <2>2, <2>7, <2>8, <2>9, <2>10, TailGoes
<1> QED BY <1>2, <1>8, <1>9

(* A step of the producer that takes a block out of the index, or none.     *)
LEMMA NullPut ==
  ASSUME NEW d, NEW a \in Int, NEW f, NEW holds, Indexes(d, a, f, holds),
         NEW n \in Window(a), PutValue(EntryOf(d, n), NoBlock), UNCHANGED <<idxHeaders, load>>,
         NEW less, IsWithout(less, holds, n)
  PROVE  /\ Indexes(d, a, f, less)' /\ EntriesKept(d, d, holds) /\ Header'.tail = Header.tail
         /\ Len(idxEntries') = Len(idxEntries)
         /\ Current' = Current /\ IndexSize(Current)' = IndexSize(Current)
         /\ \A m : SlotAt(d, Current, m)' = SlotAt(d, Current, m)
         /\ \A m : EntryOf(d, m)' = EntryOf(d, m)
         /\ \A e \in 1..Len(idxEntries) :
              idxEntries'[e].value = Uninitialized =>
                idxEntries'[e] = idxEntries[e] /\ e # EntryOf(d, n)
<1>1. IndexTypes
  BY DEF Indexes
<1>2. NoBlock \in Blocks \union {NoBlock} /\ NoBlock \notin Blocks
  BY ProducerConstants
<1>3. PICK v : v = NoBlock
  OBVIOUS
<1>4. /\ Indexes(d, a, f, less)' /\ SameIndexes /\ SameKeys
      /\ \A e \in 1..Len(idxEntries) : e # EntryOf(d, n) => idxEntries'[e] = idxEntries[e]
      /\ idxEntries'[EntryOf(d, n)].value = v
  <2>1. v \in Blocks \union {NoBlock} /\ (v \in Blocks => n >= f) /\ PutValue(EntryOf(d, n), v)
    BY <1>2, <1>3
  <2> QED BY <1>3, <2>1, ValueSet
<1>5. \A e \in 1..Len(idxEntries) :
        idxEntries[e].key # InvalidBlockBase => idxEntries'[e].key # InvalidBlockBase
  BY <1>4 DEF SameKeys
<1>6. /\ EntriesKept(d, d, holds)
      /\ Current' = Current /\ IndexSize(Current)' = IndexSize(Current)
      /\ \A m : SlotAt(d, Current, m)' = SlotAt(d, Current, m)
      /\ \A m : EntryOf(d, m)' = EntryOf(d, m)
  BY <1>1, <1>4, <1>5, SlotsKept
<1>7. \A e \in 1..Len(idxEntries) :
        idxEntries'[e].value = Uninitialized => idxEntries'[e] = idxEntries[e] /\ e # EntryOf(d, n)
  BY <1>3, <1>4 DEF NoBlock, Uninitialized
<1>8. Header'.tail = Header.tail /\ Len(idxEntries') = Len(idxEntries)
  BY <1>4 DEF Header, SameKeys
<1> QED BY <1>4, <1>6, <1>7, <1>8

LEMMA NullValueGoes ==
  ASSUME NEW d, NEW a, NEW f, NEW holds, LiveInv(d, a, f, holds), NullValue
  PROVE  LiveInv(d, a, f, holds)'
<1>1. /\ ClaimInv /\ a \in Int /\ f \in Int /\ Indexes(d, a, f, holds) /\ Calls(d, holds)
      /\ CallTypes /\ Kept(holds) /\ Tails(d, a, f) /\ IndexTypes
  BY DEF LiveInv, Calls, Indexes
<1>2. /\ enqAt = "null value" /\ UNCHANGED <<baseVars, idxHeaders>> /\ UndoFrom(1)
      /\ PutValue(EntryAt(Len(idxHeaders), enq.slot), NoBlock)
  BY DEF NullValue, PutValue
<1>3. /\ ProducerOnly
      /\ UNCHANGED <<tailIndex, tailBlock, emptied, freed, dequeueOptimisticCount, dequeueOvercommit>>
      /\ UNCHANGED <<idxHeaders, load>> /\ tailIndex' = tailIndex
  BY <1>2 DEF ProducerOnly, baseVars, counterVars
<1>4. /\ enqAt \in Inserting /\ NoneUndone /\ Top = Made - 1 /\ Limit = Made
  BY <1>2 DEF Inserting, NoneUndone, Top, Limit, Undoing
<1>5. /\ enq.slot = SlotAt(d, Current, Made) /\ Made < a /\ a <= Filled + IndexSize(Current)
      /\ Len(enq.got) \in Nat /\ Made = Filled + Len(enq.got) /\ Filled \in Nat /\ Made \in Int
      /\ IndexSize(Current) \in Nat \ {0}
  <2>1. Current \in 1..Current
    BY <1>1, CurrentIs
  <2> QED BY <1>1, <1>4, <2>1, CallCounts, TailIs, CapacityIs DEF Calls, Tails
<1>6. PICK n : n = Made
  OBVIOUS
<1>7. /\ n \in Window(a) /\ PutValue(EntryOf(d, n), NoBlock) /\ IsWithout(holds, holds, n)
  <2>1. n \in Window(a)
    BY <1>1, <1>5, <1>6 DEF Window
  <2>2. EntryAt(Len(idxHeaders), enq.slot) = EntryOf(d, n)
    BY <1>5, <1>6 DEF EntryOf, Current
  <2>3. n \notin DOMAIN holds
    BY <1>1, <1>4, <1>5, <1>6 DEF Kept
  <2> QED BY <1>2, <2>1, <2>2, <2>3 DEF IsWithout
<1>8. /\ Indexes(d, a, f, holds)' /\ EntriesKept(d, d, holds) /\ Header'.tail = Header.tail
      /\ Len(idxEntries') = Len(idxEntries)
      /\ Current' = Current /\ IndexSize(Current)' = IndexSize(Current)
      /\ \A m : SlotAt(d, Current, m)' = SlotAt(d, Current, m)
      /\ \A m : EntryOf(d, m)' = EntryOf(d, m)
      /\ \A e \in 1..Len(idxEntries) :
           idxEntries'[e].value = Uninitialized => idxEntries'[e] = idxEntries[e] /\ e # EntryOf(d, n)
  BY <1>1, <1>3, <1>7, NullPut
<1>9. /\ Calls(d, holds)' /\ Top' = Made - 1 /\ Made' = Made
      /\ enq'.got = enq.got /\ enq'.block = enq.block /\ enq'.count = enq.count
      /\ \A m \in DOMAIN holds : m < Limit'
      /\ enqAt' \notin Inserting
  <2>1. PICK one : one = 1
    OBVIOUS
  <2>2. UndoFrom(one)
    BY <1>2, <2>1
  <2> QED BY <1>1, <1>3, <1>4, <2>1, <2>2, FirstUndo
<1>10. Tails(d, a, f)'
  <2>1. Filled' = Filled
    BY <1>3, FilledStays
  <2>2. a <= Filled' + IndexSize(Current)' /\ f <= Filled' /\ Top' < a
    BY <1>1, <1>4, <1>8, <1>9, <2>1 DEF Tails
  <2>3. Header'.tail = SlotAt(d, Current, Top)'
    <3>1. SlotAt(d, Current, Top)' = SlotAt(d, Current, Top)
      BY <1>4, <1>8, <1>9 DEF SlotAt
    <3> QED BY <1>1, <1>8, <3>1 DEF Tails
  <2>4. \A e \in 1..Len(idxEntries') :
          idxEntries'[e].value = Uninitialized => idxEntries'[e].key = InvalidBlockBase
    BY <1>1, <1>6, <1>8 DEF Tails
  <2> QED BY <1>9, <2>2, <2>3, <2>4 DEF Tails, InvalidBlockBase, Uninitialized
<1>11. enq'.count > 0 /\ Item(tailIndex) + enq'.count <= load.items
  BY <1>1, <1>2, <1>9 DEF ClaimInv
<1> QED BY <1>1, <1>3, <1>8, <1>9, <1>10, <1>11, CallGoes

LEMMA NewBlockIndexGoes ==
  ASSUME NEW d, NEW a, NEW f, NEW holds, LiveInv(d, a, f, holds), NewBlockIndex
  PROVE  \E D, F : LiveInv(D, a, F, holds)'
<1>1. /\ ClaimInv /\ a \in Int /\ f \in Int /\ Indexes(d, a, f, holds) /\ Calls(d, holds)
      /\ CallTypes /\ Kept(holds) /\ Tails(d, a, f) /\ IndexTypes /\ Shape(d) /\ load \in Loads
      /\ HoldsBlocks(d, a, f, holds)
  BY TailIs DEF LiveInv, Calls, Indexes
<1>2. /\ AtInsert /\ ~EntryFree(EntryAt(Len(idxHeaders), NewTail)) /\ GrownIndex(a)
      /\ UNCHANGED <<baseVars, enqAt, enq>>
  BY DEF NewBlockIndex, AtInsert, GrownIndex, IndexSize, Current, Header
<1>3. /\ ProducerOnly
      /\ UNCHANGED <<tailIndex, tailBlock, emptied, freed, dequeueOptimisticCount, dequeueOvercommit>>
      /\ load' = load /\ enqAt' = enqAt /\ enq' = enq /\ tailIndex' = tailIndex
  BY <1>2 DEF ProducerOnly, baseVars, counterVars
<1>4. /\ EntryAt(Len(idxHeaders), NewTail) = EntryOf(d, Made)
      /\ Top = Made - 1 /\ Made <= a /\ a <= Made + IndexSize(Current)
      /\ Made \in Int /\ IndexSize(Current) \in Nat \ {0}
      /\ Made = a \/ Made \in Window(a)
      /\ ~EntryFree(EntryOf(d, Made)) => ValueOf(d, Made) \in Blocks
  BY <1>2, NewTailIs
<1>5. ValueOf(d, Made) \in Blocks
  BY <1>2, <1>4
<1>6. Limit = Made /\ enqAt \notin Inserting /\ enqAt # "idle"
  BY <1>2 DEF Limit, Inserting, AtInsert
<1>7. Made = a
  <2> SUFFICES ASSUME Made \in Window(a) PROVE FALSE
    BY <1>4
  <2>1. Made \in DOMAIN holds
    BY <1>1, <1>5 DEF HoldsBlocks
  <2>2. Made < Made
    BY <1>1, <1>6, <2>1 DEF Kept
  <2> QED BY <1>4, <2>2
<1>8. PICK C : C = IndexSize(Current)
  OBVIOUS
<1>9. PICK F : F = a - C
  OBVIOUS
<1>10. C \in Nat \ {0} /\ F \in Int /\ F \in Window(a) /\ a \in Int
  BY <1>1, <1>4, <1>8, <1>9 DEF Window
<1>11. f <= F /\ F \in Nat
  <2>1. EntryOf(d, F) = EntryOf(d, a)
    BY <1>1, <1>8, <1>9, EntryAround
  <2>2. F \in DOMAIN holds
    BY <1>1, <1>5, <1>7, <1>10, <2>1 DEF HoldsBlocks, ValueOf
  <2>3. F >= f
    BY <1>1, <2>2 DEF HoldsBlocks
  <2>4. F \in Nat
    BY <1>1, <2>2 DEF Kept
  <2> QED BY <1>1, <1>10, <2>3, <2>4
<1>12. RangeOfBases % (2 * C) = 0
  <2>1. /\ BlockSize * Made < Item(tailIndex) + enq.count
        /\ Item(tailIndex) + enq.count <= load.items
    BY <1>1, <1>2, <1>6 DEF Calls, ClaimInv, AtInsert
  <2>2. /\ Item(tailIndex) \in Int /\ enq.count \in Int /\ load.items \in Int /\ load.items < IndexMod
        /\ IndexMod \in Int
    <3>1. enq.count \in Nat /\ load.items \in Int /\ load.items < IndexMod
      BY <1>1, CallCounts
    <3>2. Item(tailIndex) \in Int
      BY <1>1, TailIs
    <3>3. IndexMod \in Nat
      BY Sizes
    <3> QED BY <3>1, <3>2, <3>3, NatIsInt
  <2>3. RangeOfBases \in Nat \ {0} /\ IndexMod = BlockSize * RangeOfBases /\ BlockSize \in Nat \ {0}
    BY Sizes
  <2>4. PICK m \in Int : m = Made
    BY <1>4
  <2>5. PICK R \in Int : R = RangeOfBases
    BY <2>3
  <2>6. BlockSize * m < BlockSize * R
    <3>1. BlockSize * m \in Int
      BY <2>3, <2>4
    <3> QED BY <2>1, <2>2, <2>3, <2>4, <2>5, <3>1
  <2>7. m < R
    <3>1. ~(R <= m)
      <4> SUFFICES ASSUME R <= m PROVE FALSE
        OBVIOUS
      <4>1. R = m \/ BlockSize * R + BlockSize <= BlockSize * m
        BY <2>4, <2>5, Multiples
      <4>2. BlockSize * m \in Int /\ BlockSize * R \in Int
        BY <2>3
      <4> QED BY <2>3, <2>6, <4>1, <4>2
    <3> QED BY <3>1
  <2>8. C \in 1..(RangeOfBases - 1)
    <3>1. C <= m
      BY <1>7, <1>9, <1>10, <1>11, <2>4
    <3> QED BY <1>10, <2>3, <2>5, <2>7, <3>1
  <2>9. RangeOfBases % C = 0
    <3>1. Current \in 1..Current
      BY <1>1, CurrentIs
    <3> QED BY <1>1, <1>8, <3>1 DEF Shape
  <2>10. \A n \in 1..(RangeOfBases - 1) : RangeOfBases % n = 0 => RangeOfBases % (2 * n) = 0
    BY ImplicitConstants DEF RangeOfBases
  <2> QED BY <2>8, <2>9, <2>10
<1>13. Header.tail = SlotAt(d, Current, a - 1)
  BY <1>1, <1>4, <1>7 DEF Tails
<1>14. PICK D : D = Shifted(d, a)
  OBVIOUS
<1>15. /\ Indexes(D, a, F, holds)' /\ Current' = Current + 1
       /\ \A h \in 1..Current : IndexSize(h)' = IndexSize(h) /\ D[h] = d[h]
       /\ \A h \in 1..Current : \A s : EntryAt(h, s)' = EntryAt(h, s)
       /\ \A n \in Window(a) : EntryOf(D, n)' = EntryOf(d, n)
       /\ \A e \in 1..Len(idxEntries) : idxEntries'[e] = idxEntries[e]
       /\ 1..Len(idxEntries) \subseteq 1..Len(idxEntries)'
       /\ \A e \in (1..Len(idxEntries))' \ (1..Len(idxEntries)) :
            idxEntries'[e].key = InvalidBlockBase
       /\ Header'.tail = SlotAt(D, Current, a - 1)'
       /\ IndexSize(Current)' = 2 * C
  <2>1. f <= a - C
    BY <1>9, <1>11
  <2> QED BY <1>1, <1>2, <1>3, <1>8, <1>9, <1>12, <1>13, <1>14, <2>1, IndexGrows
<1>16. EntriesKept(d, D, holds)
  <2>1. \A h \in 1..Current : h \in (1..Current)'
    <3>1. Current \in Nat
      BY <1>1, CurrentIs
    <3> QED BY <1>15, <3>1
  <2>2. \A n \in DOMAIN holds : EntryOf(D, n)' = EntryOf(d, n)
    BY <1>1, <1>15 DEF HoldsBlocks
  <2> QED BY <1>15, <2>1, <2>2 DEF EntriesKept
<1>17. /\ Made' = Made /\ BaseOf(Made)' = BaseOf(Made) /\ Item(tailIndex)' = Item(tailIndex)
       /\ Filled' = Filled
  BY <1>1, <1>3, SameCall
<1>18. Undone = 0 /\ Undone' = 0 /\ Top' = Made - 1 /\ Limit' = Made /\ enqAt' \notin Inserting
  BY <1>2, <1>3, <1>17 DEF Undone, Top, Limit, Undoing, Inserting, AtInsert
<1>19. Calls(D, holds)'
  <2>1. CallTypes'
    BY <1>1, <1>3 DEF CallTypes
  <2>2. enq'.base = BaseOf(Made)' /\ BlockSize * Made' < Item(tailIndex)' + enq'.count
    BY <1>1, <1>2, <1>3, <1>17 DEF Calls, AtInsert
  <2> QED BY <1>1, <1>2, <1>3, <1>17, <1>18, <2>1, <2>2 DEF Calls, Undoing, AtInsert
<1>20. Tails(D, a, F)'
  <2>1. a <= Filled' + IndexSize(Current)' /\ F <= Filled' /\ Top' < a
    <3>1. a <= Filled + C /\ Filled \in Int
      BY <1>1, <1>8, TailIs DEF Tails
    <3>2. 2 * C >= C /\ 2 * C \in Int
      BY <1>10
    <3>3. a <= Filled + 2 * C /\ F <= Filled
      BY <1>9, <1>10, <3>1, <3>2
    <3> QED BY <1>4, <1>7, <1>15, <1>17, <1>18, <3>3
  <2>2. Header'.tail = SlotAt(D, Current, Top)'
    <3>1. SlotAt(D, Current, a - 1)' = SlotAt(D, Current, Top)'
      BY <1>7, <1>18 DEF SlotAt
    <3> QED BY <1>15, <3>1
  <2>3. \A e \in (1..Len(idxEntries))' :
          idxEntries'[e].value = Uninitialized => idxEntries'[e].key = InvalidBlockBase
    <3> TAKE e \in (1..Len(idxEntries))'
    <3>1. CASE e \in 1..Len(idxEntries)
      BY <1>1, <1>6, <1>15, <3>1 DEF Tails
    <3>2. CASE e \notin 1..Len(idxEntries)
      BY <1>15, <3>2
    <3> QED BY <3>1, <3>2
  <2> QED BY <1>18, <2>1, <2>2, <2>3 DEF Tails, InvalidBlockBase, Uninitialized
<1>21. \A n \in DOMAIN holds : n < Limit'
  BY <1>1, <1>6, <1>18 DEF Kept
<1>22. enq'.count > 0 /\ Item(tailIndex) + enq'.count <= load.items
  BY <1>1, <1>2, <1>3, <1>6 DEF ClaimInv
<1>23. LiveInv(D, a, F, holds)'
  <2>1. enq'.got = enq.got /\ enq'.block = enq.block
    BY <1>3
  <2> QED BY <1>1, <1>3, <1>10, <1>15, <1>16, <1>19, <1>20, <1>21, <1>22, <2>1, CallGoes
<1> QED BY <1>23

LEMMA BlockNoted ==
  ASSUME CallTypes, NEW b \in Blocks, enq' = [enq EXCEPT !.block = b]
  PROVE  /\ enq' \in EnqueueCall /\ enq'.slot = enq.slot /\ enq'.got = enq.got /\ enq'.block = b
         /\ enq'.count = enq.count /\ enq'.base = enq.base /\ enq'.undo = enq.undo
BY DEF CallTypes, EnqueueCall

(* A step of the producer that leaves the index alone.                      *)
LEMMA TailsStay ==
  ASSUME NEW d, NEW a, NEW f, NEW holds, LiveInv(d, a, f, holds), ProducerOnly,
         UNCHANGED <<tailIndex, idxEntries, idxHeaders>>, Made' = Made, Top' = Top,
         enqAt' \in Inserting => enqAt \in Inserting, enqAt \in Inserting => enqAt' \in Inserting
  PROVE  /\ Tails(d, a, f)' /\ Indexes(d, a, f, holds)' /\ EntriesKept(d, d, holds)
         /\ SlotAt(d, Current, Made)' = SlotAt(d, Current, Made)
         /\ ValueOf(d, Made)' = ValueOf(d, Made)
<1>1. /\ ClaimInv /\ a \in Int /\ f \in Int /\ Indexes(d, a, f, holds) /\ Tails(d, a, f)
  BY DEF LiveInv
<1>2. load' = load /\ Filled' = Filled
  BY FilledStays DEF ProducerOnly
<1>3. /\ Indexes(d, a, f, holds)' /\ EntriesKept(d, d, holds)
      /\ Current' = Current /\ IndexSize(Current)' = IndexSize(Current)
      /\ \A n : SlotAt(d, Current, n)' = SlotAt(d, Current, n)
      /\ \A n : EntryOf(d, n)' = EntryOf(d, n)
  BY <1>1, <1>2, IndexSame
<1>4. Header'.tail = Header.tail
  BY DEF Header
<1>5. SlotAt(d, Current, Top)' = SlotAt(d, Current, Top) /\ EntryOf(d, Made)' = EntryOf(d, Made)
      /\ SlotAt(d, Current, Made)' = SlotAt(d, Current, Made)
  BY <1>2, <1>3 DEF SlotAt, EntryOf, EntryAt
<1>6. Tails(d, a, f)'
  BY <1>1, <1>2, <1>3, <1>4, <1>5 DEF Tails, Inserting
<1> QED BY <1>3, <1>5, <1>6 DEF ValueOf

LEMMA RequisitionBlockGoes ==
  ASSUME NEW d, NEW a, NEW f, NEW holds, LiveInv(d, a, f, holds), RequisitionBlock
  PROVE  LiveInv(d, a, f, holds)'
<1>1. /\ ClaimInv /\ a \in Int /\ f \in Int /\ Indexes(d, a, f, holds) /\ Calls(d, holds)
      /\ CallTypes /\ Kept(holds) /\ Shape(d) /\ ~destroyed /\ Places(holds)
      /\ \A c \in Consumers : Looks(d, holds, c)
  BY DEF LiveInv, Calls, Indexes
<1>2. PICK b \in Blocks :
        /\ freed[b] > 0 /\ enqAt = "requisition" /\ enqAt' = "store value"
        /\ freed' = [freed EXCEPT ![b] = @ - 1] /\ emptied' = [emptied EXCEPT ![b] = 0]
        /\ enq' = [enq EXCEPT !.block = b]
        /\ UNCHANGED <<counterVars, tailBlock, elements, dqAt, dq, isExplicit, destroyed, load,
                       idxEntries, idxHeaders>>
  <2> DEFINE available == {x \in Blocks : freed[x] > 0}
             b == CHOOSE x \in available : TRUE
  <2>1. b \in available
    BY DEF RequisitionBlock
  <2> QED BY <2>1 DEF RequisitionBlock, EnqGoto
<1>3. /\ ProducerOnly
      /\ UNCHANGED <<tailIndex, tailBlock, dequeueOptimisticCount, dequeueOvercommit>>
      /\ UNCHANGED <<idxEntries, idxHeaders>> /\ tailIndex' = tailIndex
  BY <1>2 DEF ProducerOnly, counterVars
<1>4. /\ enq' \in EnqueueCall /\ enq'.slot = enq.slot /\ enq'.got = enq.got /\ enq'.block = b
      /\ enq'.count = enq.count /\ enq'.base = enq.base
  BY <1>1, <1>2, BlockNoted
<1>5. /\ Made' = Made /\ BaseOf(Made)' = BaseOf(Made) /\ Item(tailIndex)' = Item(tailIndex)
      /\ Filled' = Filled
  BY <1>3, <1>4, MadeStays
<1>6. Undone = 0 /\ Undone' = 0 /\ Top = Made /\ Top' = Made /\ Limit = Made /\ Limit' = Made
  BY <1>2, <1>5 DEF Undone, Top, Limit
<1>7. enqAt \in Inserting /\ enqAt' \in Inserting
  BY <1>2 DEF Inserting
<1>8. /\ Tails(d, a, f)' /\ Indexes(d, a, f, holds)' /\ EntriesKept(d, d, holds)
      /\ SlotAt(d, Current, Made)' = SlotAt(d, Current, Made)
      /\ ValueOf(d, Made)' = ValueOf(d, Made)
  BY <1>3, <1>5, <1>6, <1>7, TailsStay
<1>9. Calls(d, holds)'
  <2>1. CallTypes'
    BY <1>2, <1>4 DEF CallTypes, EnqueuePlaces, Inserting
  <2> QED BY <1>1, <1>2, <1>4, <1>5, <1>6, <1>7, <1>8, <2>1 DEF Calls, Undoing
<1>10. enq.block \notin Blocks
  BY <1>1, <1>2 DEF Calls
<1>11. /\ ~Used(holds, b) /\ freed[b] = 1 /\ freed \in [Blocks -> Int]
       /\ \A x \in Blocks : freed[x] = IF Used(holds, x) THEN 0 ELSE 1
  <2>1. freed \in [Blocks -> Int] /\ \A x \in Blocks : freed[x] = IF Used(holds, x) THEN 0 ELSE 1
    BY <1>1 DEF Places
  <2>2. freed[b] > 0
    BY <1>2
  <2> QED BY <2>1, <2>2
<1>20. freed' = [freed EXCEPT ![b] = @ - 1] /\ emptied' = [emptied EXCEPT ![b] = 0]
  BY <1>2
<1>21. /\ freed' \in [Blocks -> Int] /\ freed'[b] = 0
       /\ \A x \in Blocks : x # b => freed'[x] = freed[x]
  BY <1>11, <1>20
<1>22. /\ emptied' \in [Blocks -> Int] /\ emptied'[b] = 0
       /\ \A x \in Blocks : x # b => emptied'[x] = emptied[x]
  <2>1. emptied \in [Blocks -> Int]
    BY <1>1 DEF Kept
  <2> QED BY <1>20, <2>1
<1>12. /\ b \notin InIndex(holds) /\ \A j \in 1..Len(enq.got) : enq.got[j] # b
       /\ \A c \in Consumers : b \notin HeldByConsumer(c)
  BY <1>11 DEF Used, HeldByProducer
<1>13. \A c : HeldByConsumer(c)' = HeldByConsumer(c)
  BY <1>3, DoneStays
<1>14. Places(holds)'
  <2>1. freed' \in [Blocks -> Int]
    BY <1>21
  <2>2. HeldByProducer' = {b} \union {enq.got[k] : k \in 1..Len(enq.got)}
    BY <1>4 DEF HeldByProducer
  <2>3. ASSUME NEW x \in Blocks PROVE freed'[x] = IF Used(holds, x)' THEN 0 ELSE 1
    <3>1. CASE x = b
      <4>1. Used(holds, x)'
        BY <2>2, <3>1 DEF Used
      <4>2. freed'[x] = 0
        BY <1>21, <3>1
      <4> QED BY <4>1, <4>2
    <3>2. CASE x # b
      <4>1. x \in HeldByProducer' <=> x \in HeldByProducer
        BY <1>10, <2>2, <3>2 DEF HeldByProducer
      <4>2. Used(holds, x)' <=> Used(holds, x)
        BY <1>13, <4>1 DEF Used, InIndex
      <4>3. freed'[x] = freed[x]
        BY <1>21, <3>2
      <4> QED BY <1>11, <4>2, <4>3
    <3> QED BY <3>1, <3>2
  <2>4. \A c \in Consumers : \A x \in HeldByConsumer(c)' :
          /\ x \in Blocks /\ x \notin InIndex(holds) \union HeldByProducer'
          /\ \A e \in Consumers : e # c => x \notin HeldByConsumer(e)'
    <3> SUFFICES ASSUME NEW c \in Consumers, NEW x \in HeldByConsumer(c)
                 PROVE  /\ x \in Blocks /\ x \notin InIndex(holds) \union HeldByProducer'
                        /\ \A e \in Consumers : e # c => x \notin HeldByConsumer(e)
      BY <1>13
    <3>1. /\ x \in Blocks /\ x \notin InIndex(holds) \union HeldByProducer
          /\ \A e \in Consumers : e # c => x \notin HeldByConsumer(e)
      BY <1>1 DEF Places
    <3>2. x # b
      BY <1>12
    <3> QED BY <2>2, <3>1, <3>2 DEF HeldByProducer
  <2>5. b \notin InIndex(holds) \union {enq.got[j] : j \in 1..Len(enq.got)}
    BY <1>12
  <2>6. InIndex(holds)' = InIndex(holds)
    BY DEF InIndex
  <2>7. enq'.block \notin InIndex(holds)' \union {enq'.got[j] : j \in 1..Len(enq'.got)}
    BY <1>4, <2>5, <2>6
  <2>8. \A i, j \in 1..Len(enq'.got) : enq'.got[i] = enq'.got[j] => i = j
    BY <1>1, <1>4 DEF Places
  <2>9. \A n \in DOMAIN holds : \A j \in 1..Len(enq'.got) : holds[n] = enq'.got[j] => n = Filled' + (j - 1)
    BY <1>1, <1>4, <1>5 DEF Places
  <2>10. \A c \in Consumers : \A x \in HeldByConsumer(c)' :
          /\ x \in Blocks /\ x \notin InIndex(holds)' \union HeldByProducer'
          /\ \A e \in Consumers : e # c => x \notin HeldByConsumer(e)'
    BY <2>4, <2>6
  <2> QED BY <2>1, <2>3, <2>7, <2>8, <2>9, <2>10 DEF Places
<1>15. Kept(holds)'
  <2>1. emptied' \in [Blocks -> Int] /\ emptied'[b] = 0
    BY <1>22
  <2>2. ASSUME NEW n \in DOMAIN holds PROVE emptied'[holds[n]] = emptied[holds[n]]
    <3>1. holds[n] \in Blocks
      BY <1>1 DEF Indexes, HoldsBlocks
    <3>2. holds[n] # b
      BY <1>12 DEF InIndex
    <3> QED BY <1>22, <3>1, <3>2
  <2>3. /\ \A n : DoneOf(n)' = DoneOf(n) /\ (AllDone(n)' <=> AllDone(n))
        /\ \A c, n : Clears(c, n)' <=> Clears(c, n)
    BY <1>3, DoneStays
  <2> QED BY <1>1, <1>3, <1>4, <1>5, <1>6, <2>1, <2>2, <2>3 DEF Kept
<1>16. ASSUME NEW c \in Consumers PROVE Looks(d, holds, c)'
  BY <1>1, <1>3, <1>8, LooksStay
<1>17. ClaimInv'
  <2>1. tailIndex' \in 0..(IndexMod - 1) /\ Item(tailIndex) <= Item(tailIndex')
        /\ Item(tailIndex') <= load.items
    <3>1. Item(tailIndex) \in Int /\ tailIndex \in 0..(IndexMod - 1) /\ Item(tailIndex) <= load.items
      BY <1>1, TailIs DEF ClaimInv
    <3>2. Item(tailIndex') = Item(tailIndex)
      BY <1>3 DEF Item
    <3> QED BY <1>3, <3>1, <3>2
  <2>2. enq'.count > 0 /\ Item(tailIndex') + enq'.count <= load.items
    <3>1. Item(tailIndex') = Item(tailIndex)
      BY <1>3 DEF Item
    <3> QED BY <1>1, <1>2, <1>4, <3>1 DEF ClaimInv
  <2> QED BY <1>1, <1>3, <2>1, <2>2, ProducerClaims
<1>18. ~destroyed'
  BY <1>1, <1>3 DEF ProducerOnly
<1> QED BY <1>1, <1>8, <1>9, <1>14, <1>15, <1>16, <1>17, <1>18 DEF LiveInv

(* A step of the producer that puts a block in the index.                   *)
LEMMA BlockPut ==
  ASSUME NEW d, NEW a \in Int, NEW f, NEW holds, Indexes(d, a, f, holds),
         NEW n \in Window(a), n >= f, NEW b \in Blocks, PutValue(EntryOf(d, n), b),
         UNCHANGED <<idxHeaders, load>>, NEW more, IsWith(more, holds, n, b)
  PROVE  /\ Indexes(d, a, f, more)' /\ EntriesKept(d, d, holds) /\ Header'.tail = Header.tail
         /\ Len(idxEntries') = Len(idxEntries)
         /\ Current' = Current /\ IndexSize(Current)' = IndexSize(Current)
         /\ \A m : SlotAt(d, Current, m)' = SlotAt(d, Current, m)
         /\ \A m : EntryOf(d, m)' = EntryOf(d, m)
         /\ \A e \in 1..Len(idxEntries) :
              idxEntries'[e].value = Uninitialized =>
                idxEntries'[e] = idxEntries[e] /\ e # EntryOf(d, n)
<1>1. IndexTypes
  BY DEF Indexes
<1>2. Uninitialized \notin Blocks
  BY ImplicitConstants
<1>3. NoBlock \notin Blocks
  BY ProducerConstants
<1>4. /\ Indexes(d, a, f, more)' /\ SameIndexes /\ SameKeys
      /\ \A e \in 1..Len(idxEntries) : e # EntryOf(d, n) => idxEntries'[e] = idxEntries[e]
      /\ idxEntries'[EntryOf(d, n)].value = b
  <2>1. b \in Blocks \union {NoBlock}
    OBVIOUS
  <2> QED BY <2>1, ValueSet
<1>5. \A e \in 1..Len(idxEntries) :
        idxEntries[e].key # InvalidBlockBase => idxEntries'[e].key # InvalidBlockBase
  BY <1>4 DEF SameKeys
<1>6. /\ EntriesKept(d, d, holds)
      /\ Current' = Current /\ IndexSize(Current)' = IndexSize(Current)
      /\ \A m : SlotAt(d, Current, m)' = SlotAt(d, Current, m)
      /\ \A m : EntryOf(d, m)' = EntryOf(d, m)
  BY <1>1, <1>4, <1>5, SlotsKept
<1>7. \A e \in 1..Len(idxEntries) :
        idxEntries'[e].value = Uninitialized => idxEntries'[e] = idxEntries[e] /\ e # EntryOf(d, n)
  BY <1>2, <1>4
<1>8. Header'.tail = Header.tail /\ Len(idxEntries') = Len(idxEntries)
  BY <1>4 DEF Header, SameKeys
<1> QED BY <1>4, <1>6, <1>7, <1>8

(* The call goes on behind the block of the base if it has more elements    *)
(* than are left of this one.                                               *)
LEMMA MoreIs ==
  ASSUME ClaimInv, CallTypes, enq.base = BaseOf(Made), BlockSize * Made < Item(tailIndex) + enq.count,
         Item(tailIndex) + enq.count <= load.items
  PROVE  /\ Wrap(enq.base - tailIndex) + BlockSize < enq.count <=>
              BlockSize * (Made + 1) < Item(tailIndex) + enq.count
         /\ Wrap(enq.base + BlockSize) = BaseOf(Made + 1)
<1>1. /\ load \in Loads /\ tailIndex \in 0..(IndexMod - 1) /\ Item(tailIndex) \in 0..(IndexMod - 1)
      /\ Item(tailIndex) \in Int /\ Filled \in Int /\ Item(tailIndex) <= BlockSize * Filled
  BY TailIs
<1>2. /\ Made \in Int /\ Made = Filled + Len(enq.got) /\ Len(enq.got) \in Nat /\ enq.count \in Nat
      /\ load.items \in Int /\ load.items < IndexMod
  BY CallCounts
<1>3. PICK m \in Int : m = Made
  BY <1>2
<1>4. PICK i \in Int : i = Item(tailIndex)
  BY <1>1
<1>5. BlockSize \in Nat \ {0} /\ IndexMod \in Nat \ {0}
  BY Sizes
<1>6. /\ BlockSize * m \in Int /\ BlockSize * Filled \in Int
      /\ BlockSize * (m + 1) = BlockSize * m + BlockSize
  BY <1>1, <1>3, <1>5, Multiples
<1>7. i <= BlockSize * m
  <2>1. Filled <= m
    BY <1>1, <1>2, <1>3
  <2>2. Filled = m \/ BlockSize * Filled + BlockSize <= BlockSize * m
    BY <1>1, <1>3, <2>1, Multiples
  <2> QED BY <1>1, <1>4, <1>5, <1>6, <2>2
<1>8. PICK x \in Int : x = BlockSize * m - i
  BY <1>4, <1>6
<1>13. PICK p \in Int : p = BlockSize * m
  BY <1>6
<1>14. p < i + enq.count /\ i + enq.count <= load.items
  BY <1>3, <1>4, <1>13
<1>9. x \in 0..(IndexMod - 1)
  <2>1. enq.count \in Int /\ load.items \in Int /\ load.items < IndexMod /\ IndexMod \in Int
    BY <1>2, <1>5, NatIsInt
  <2>2. i <= p /\ x = p - i
    BY <1>7, <1>8, <1>13
  <2>3. 0 <= i
    BY <1>1, <1>4
  <2> QED BY <1>14, <2>1, <2>2, <2>3
<1>10. Wrap(enq.base - tailIndex) = x
  <2>1. startIndex \in Int
    BY <1>1, <1>5, Start
  <2>2. tailIndex = Wrap(startIndex + i)
    BY <1>1, <1>4, IndexOfItem
  <2>3. enq.base = Wrap(startIndex + BlockSize * m)
    BY <1>3 DEF BaseOf
  <2> DEFINE s == startIndex + BlockSize * m
             t == startIndex + i
  <2>4. s \in Int /\ t \in Int /\ s - t = x
    BY <1>4, <1>6, <1>8, <2>1
  <2> HIDE DEF s, t
  <2>5. Wrap(Wrap(s) - Wrap(t)) = Wrap(s - t)
    <3>1. s % IndexMod \in Int /\ t % IndexMod \in Int
      BY <1>5, <2>4
    <3>2. ((s % IndexMod) + (-(t % IndexMod))) % IndexMod = (s + (-(t % IndexMod))) % IndexMod
      <4>1. -(t % IndexMod) \in Int
        BY <3>1
      <4> HIDE DEF s, t
      <4> QED BY <1>5, <2>4, <4>1, RestOfSum
    <3>3. PICK q \in Int : t = IndexMod * q + (t % IndexMod)
      BY <1>5, <2>4, Divides
    <3>4. (s - t + IndexMod * q) % IndexMod = (s - t) % IndexMod
      BY <1>5, <2>4, AddMultiple
    <3>5. s + (-(t % IndexMod)) = s - t + IndexMod * q
      <4>1. IndexMod * q \in Int
        BY <1>5
      <4> QED BY <2>4, <3>1, <3>3, <4>1
    <3>6. (s % IndexMod) - (t % IndexMod) = (s % IndexMod) + (-(t % IndexMod))
      BY <3>1
    <3> QED BY <3>2, <3>4, <3>5, <3>6 DEF Wrap
  <2>6. Wrap(x) = x
    BY <1>8, <1>9, WrapIs
  <2> QED BY <2>2, <2>3, <2>4, <2>5, <2>6 DEF s, t
<1>11. Wrap(enq.base - tailIndex) + BlockSize < enq.count <=> BlockSize * m + BlockSize < i + enq.count
  <2>1. enq.count \in Int /\ BlockSize \in Int
    BY <1>2, <1>5, NatIsInt
  <2>2. x = p - i /\ p = BlockSize * m
    BY <1>8, <1>13
  <2>3. x + BlockSize < enq.count <=> p + BlockSize < i + enq.count
    BY <2>1, <2>2
  <2> QED BY <1>10, <2>2, <2>3
<1>12. Wrap(enq.base + BlockSize) = BaseOf(Made + 1)
  <2>1. startIndex \in Int
    BY <1>1, <1>5, Start
  <2>2. PICK s \in Int : s = startIndex + BlockSize * m
    BY <1>6, <2>1
  <2>3. enq.base = s % IndexMod
    BY <1>3, <2>2 DEF BaseOf, Wrap
  <2>4. ((s % IndexMod) + BlockSize) % IndexMod = (s + BlockSize) % IndexMod
    BY <1>5, NatIsInt, RestOfSum
  <2>5. s + BlockSize = startIndex + BlockSize * (m + 1)
    BY <1>5, <1>6, <2>1, <2>2
  <2> QED BY <1>3, <2>3, <2>4, <2>5 DEF BaseOf, Wrap
<1> QED BY <1>3, <1>4, <1>6, <1>11, <1>12

(* The block of the call goes into the index.                               *)
LEMMA StoreKept ==
  ASSUME ClaimInv, ProducerOnly, UNCHANGED <<tailIndex, tailBlock, emptied>>,
         NEW holds, Kept(holds), NEW n \in Nat, Filled <= n, Limit = n, Limit' = n + 1,
         n \notin DOMAIN holds, NEW b \in Blocks, emptied[b] = 0,
         \A m \in DOMAIN holds : holds[m] # b,
         NEW more, IsWith(more, holds, n, b), enq'.block \notin Blocks
  PROVE  Kept(more)'
<1>1. /\ emptied \in [Blocks -> Int]
      /\ \A m \in DOMAIN holds : /\ m \in Nat /\ m < Limit
                                 /\ emptied[holds[m]] = Cardinality(DoneOf(m))
                                 /\ AllDone(m) => \E c \in Consumers : Clears(c, m)
      /\ \A m, l \in DOMAIN holds : holds[m] = holds[l] => m = l
      /\ \A m \in 0..(Filled - 1) : AllDone(m) \/ m \in DOMAIN holds
      /\ Filled - 1 \in DOMAIN holds => tailBlock = holds[Filled - 1]
  BY DEF Kept
<1>2. /\ DOMAIN more = DOMAIN holds \union {n} /\ more[n] = b
      /\ \A m \in DOMAIN holds : m # n => more[m] = holds[m]
      /\ \A m \in DOMAIN holds : more[m] = holds[m]
  BY DEF IsWith
<1>3. /\ \A m : DoneOf(m)' = DoneOf(m) /\ (AllDone(m)' <=> AllDone(m))
      /\ \A c, m : Clears(c, m)' <=> Clears(c, m)
  BY DoneStays
<1>4. Filled' = Filled /\ Filled \in Int
  BY FilledStays, TailIs
<1>5. DoneOf(n) = {} /\ ~AllDone(n)
  <2>1. ~AllDone(n)
    BY <1>4, DoneFilled
  <2>2. ASSUME NEW k \in ItemsOf(n), Done(k) PROVE FALSE
    <3>1. k \in Int /\ BlockSize * n <= k
      BY ItemsIs
    <3>2. /\ Item(headIndex) \in Int /\ Item(tailIndex) \in Int /\ Item(headIndex) <= Item(tailIndex)
          /\ Item(tailIndex) <= BlockSize * Filled
      BY TailIs
    <3>3. k < Item(headIndex)
      BY <2>2 DEF Done
    <3>4. BlockSize * Filled \in Int /\ BlockSize * n \in Int
          /\ (Filled = n \/ BlockSize * Filled + BlockSize <= BlockSize * n)
      BY <1>4, Multiples
    <3>5. BlockSize \in Nat
      BY Sizes
    <3> QED BY <3>1, <3>2, <3>3, <3>4, <3>5
  <2> QED BY <2>1, <2>2 DEF DoneOf
<1>6. Cardinality(DoneOf(n)) = 0
  BY <1>5, FS_EmptySet
<1>7. \A m \in DOMAIN more : /\ m \in Nat /\ m < Limit'
                             /\ emptied'[more[m]] = Cardinality(DoneOf(m))
                             /\ AllDone(m) => \E c \in Consumers : Clears(c, m)
  <2> TAKE m \in DOMAIN more
  <2>1. CASE m = n
    BY <1>2, <1>5, <1>6, <2>1
  <2>2. CASE m # n
    <3>1. m \in DOMAIN holds /\ more[m] = holds[m]
      BY <1>2, <2>2
    <3>2. m \in Nat /\ m < n
      BY <1>1, <3>1
    <3> QED BY <1>1, <3>1, <3>2
  <2> QED BY <2>1, <2>2
<1>8. \A m, l \in DOMAIN more : more[m] = more[l] => m = l
  BY <1>1, <1>2
<1>9. \A m \in 0..(Filled - 1) : AllDone(m) \/ m \in DOMAIN more
  BY <1>1, <1>2
<1>10. Filled - 1 \in DOMAIN more => tailBlock = more[Filled - 1]
  <2>1. Filled - 1 # n
    BY <1>4
  <2> QED BY <1>1, <1>2, <2>1
<1> QED BY <1>1, <1>3, <1>4, <1>7, <1>8, <1>9, <1>10 DEF Kept

LEMMA StorePlaces ==
  ASSUME ProducerOnly, UNCHANGED <<tailIndex, freed>>, NEW holds, Places(holds),
         \A m \in DOMAIN holds : holds[m] \in Blocks, NEW b \in Blocks, enq.block = b,
         enq.got \in Seq(Blocks), enq'.got = Append(enq.got, b), enq'.block = NoBlock,
         NEW n, n = Filled + Len(enq.got), n \notin DOMAIN holds,
         NEW more, IsWith(more, holds, n, b)
  PROVE  Places(more)'
<1>1. /\ DOMAIN more = DOMAIN holds \union {n} /\ more[n] = b
      /\ \A m \in DOMAIN holds : more[m] = holds[m]
  BY DEF IsWith
<1>2. PICK l \in Nat : l = Len(enq.got)
  BY LenProperties
<1>3. /\ Len(enq'.got) = l + 1 /\ enq'.got[l + 1] = b
      /\ \A j \in 1..l : enq'.got[j] = enq.got[j] /\ enq.got[j] \in Blocks
  BY <1>2, AppendProperties, ElementOfSeq
<1>4. 1..(l + 1) = (1..l) \union {l + 1}
  BY <1>2
<1>5. NoBlock \notin Blocks
  BY ProducerConstants
<1>6. InIndex(more) = InIndex(holds) \union {b}
  BY <1>1 DEF InIndex
<1>7. HeldByProducer' = (HeldByProducer \union {NoBlock}) /\ b \in HeldByProducer
      /\ HeldByProducer = {b} \union {enq.got[k] : k \in 1..l}
  BY <1>2, <1>3, <1>4 DEF HeldByProducer
<1>8. /\ \A c : HeldByConsumer(c)' = HeldByConsumer(c)
      /\ Filled' = Filled
  BY DoneStays, FilledStays
<1>9. /\ freed \in [Blocks -> Int]
      /\ \A x \in Blocks : freed[x] = IF Used(holds, x) THEN 0 ELSE 1
      /\ \A c \in Consumers : \A x \in HeldByConsumer(c) :
           /\ x \in Blocks /\ x \notin InIndex(holds) \union HeldByProducer
           /\ \A e \in Consumers : e # c => x \notin HeldByConsumer(e)
      /\ b \notin InIndex(holds) \union {enq.got[j] : j \in 1..l}
      /\ \A i, j \in 1..l : enq.got[i] = enq.got[j] => i = j
      /\ \A m \in DOMAIN holds : \A j \in 1..l : holds[m] = enq.got[j] => m = Filled + (j - 1)
  BY <1>2 DEF Places
<1>10. \A x \in Blocks : Used(more, x)' <=> Used(holds, x)
  <2> TAKE x \in Blocks
  <2>1. InIndex(more)' = InIndex(holds) \union {b}
    BY <1>6 DEF InIndex
  <2>2. x \in InIndex(more)' \union HeldByProducer' <=> x \in InIndex(holds) \union HeldByProducer
    BY <1>5, <1>7, <2>1
  <2> QED BY <1>8, <2>2 DEF Used
<1>11. \A c \in Consumers : \A x \in HeldByConsumer(c)' :
         /\ x \in Blocks /\ x \notin InIndex(more) \union HeldByProducer'
         /\ \A e \in Consumers : e # c => x \notin HeldByConsumer(e)'
  <2> SUFFICES ASSUME NEW c \in Consumers, NEW x \in HeldByConsumer(c)
               PROVE  /\ x \in Blocks /\ x \notin InIndex(more) \union HeldByProducer'
                      /\ \A e \in Consumers : e # c => x \notin HeldByConsumer(e)
    BY <1>8
  <2> QED BY <1>5, <1>6, <1>7, <1>9
<1>12. NoBlock \notin InIndex(more) \union {enq'.got[j] : j \in 1..Len(enq'.got)}
  <2>1. \A j \in 1..Len(enq'.got) : enq'.got[j] \in Blocks
    BY <1>3, <1>4
  <2>2. \A x \in InIndex(holds) : x \in Blocks
    BY DEF InIndex
  <2> QED BY <1>5, <1>6, <2>1, <2>2
<1>13. \A i, j \in 1..Len(enq'.got) : enq'.got[i] = enq'.got[j] => i = j
  BY <1>3, <1>4, <1>9
<1>14. \A m \in DOMAIN more : \A j \in 1..Len(enq'.got) : more[m] = enq'.got[j] => m = Filled + (j - 1)
  <2> SUFFICES ASSUME NEW m \in DOMAIN more, NEW j \in 1..Len(enq'.got), more[m] = enq'.got[j]
               PROVE  m = Filled + (j - 1)
    OBVIOUS
  <2>1. CASE j = l + 1
    <3>1. more[m] = b
      BY <1>3, <2>1
    <3>2. m = n
      BY <1>1, <1>9, <3>1 DEF InIndex
    <3>3. (l + 1) - 1 = l
      BY <1>2
    <3> QED BY <1>2, <2>1, <3>2, <3>3
  <2>2. CASE j \in 1..l
    <3>1. enq'.got[j] = enq.got[j] /\ enq.got[j] # b
      BY <1>3, <1>9, <2>2
    <3>2. m \in DOMAIN holds /\ holds[m] = enq.got[j]
      BY <1>1, <3>1
    <3> QED BY <1>9, <2>2, <3>2
  <2> QED BY <1>3, <1>4, <2>1, <2>2
<1>15. InIndex(more)' = InIndex(more)
  BY DEF InIndex
<1> QED BY <1>8, <1>9, <1>10, <1>11, <1>12, <1>13, <1>14, <1>15 DEF Places

LEMMA GotNoted ==
  ASSUME CallTypes, NEW b \in Blocks, NEW x \in Int,
         enq' = [enq EXCEPT !.got = Append(@, b), !.block = NoBlock, !.base = x]
  PROVE  /\ enq' \in EnqueueCall /\ enq'.slot = enq.slot /\ enq'.got = Append(enq.got, b)
         /\ enq'.block = NoBlock /\ enq'.count = enq.count /\ enq'.base = x /\ enq'.undo = enq.undo
<1>1. enq \in EnqueueCall /\ Append(enq.got, b) \in Seq(Blocks)
  <2>1. enq \in EnqueueCall /\ enq.got \in Seq(Blocks)
    BY DEF CallTypes, EnqueueCall
  <2> QED BY <2>1, AppendProperties
<1> DEFINE g == Append(enq.got, b)
<1>2. enq' = [enq EXCEPT !.got = g, !.block = NoBlock, !.base = x]
  OBVIOUS
<1> HIDE DEF g
<1>3. g \in Seq(Blocks)
  BY <1>1 DEF g
<1>4. /\ enq' \in EnqueueCall /\ enq'.slot = enq.slot /\ enq'.got = g
      /\ enq'.block = NoBlock /\ enq'.count = enq.count /\ enq'.base = x /\ enq'.undo = enq.undo
  BY <1>1, <1>2, <1>3 DEF EnqueueCall
<1> QED BY <1>4 DEF g

StoresAll(more) ==
  enqAt = "store value" /\ (enqAt' = IF more THEN "check head" ELSE "fill")

(* The call has one block more.                                             *)
LEMMA StoreCalls ==
  ASSUME ClaimInv, ProducerOnly, tailIndex' = tailIndex, NEW d, NEW holds, Calls(d, holds),
         NEW further \in BOOLEAN, StoresAll(further),
         further <=> BlockSize * (Made + 1) < Item(tailIndex) + enq.count,
         NEW b \in Blocks, enq' \in EnqueueCall, enq'.got = Append(enq.got, b),
         enq'.block = NoBlock, enq'.count = enq.count,
         enq'.base = IF further THEN BaseOf(Made + 1) ELSE enq.base,
         NEW n \in Nat, n = Made, n \notin DOMAIN holds, NEW more, IsWith(more, holds, n, b)
  PROVE  /\ Calls(d, more)' /\ Made' = n + 1 /\ Limit = n /\ Limit' = n + 1 /\ Top = n /\ Top' = n
         /\ enqAt' \notin Inserting
<1>1. CallTypes /\ enqAt = "store value" /\ enqAt \in Inserting
  BY DEF Calls, StoresAll, Inserting
<1>2. /\ Len(enq.got) \in Nat /\ Made = Filled + Len(enq.got) /\ Filled \in Nat
      /\ enq.got \in Seq(Blocks)
  BY <1>1, CallCounts, TailIs
<1>3. PICK l \in Nat : l = Len(enq.got)
  BY <1>2
<1>4. /\ Len(enq'.got) = l + 1 /\ enq'.got[l + 1] = b
      /\ \A j \in 1..l : enq'.got[j] = enq.got[j]
  BY <1>2, <1>3, AppendProperties
<1>5. Filled' = Filled /\ Made' = n + 1 /\ Item(tailIndex)' = Item(tailIndex)
      /\ \A m : BaseOf(m)' = BaseOf(m)
  <2>1. Made' = Filled + Len(enq'.got) /\ Filled' = Filled
    BY FilledStays
  <2> QED BY <1>2, <1>3, <1>4, <2>1, FilledStays
<1>6. enqAt' \in {"check head", "fill"}
  BY DEF StoresAll
<1>7. Undone = 0 /\ Undone' = 0
  BY <1>1, <1>6 DEF Undone
<1>8. Limit = n /\ Limit' = n + 1 /\ Top = n /\ Top' = n
  <2>1. Limit = Made /\ Limit' = Made' /\ Top = Made /\ Top' = Made' - 1
    BY <1>1, <1>6 DEF Limit, Top, Undoing
  <2>2. (n + 1) - 1 = n
    OBVIOUS
  <2> QED BY <1>5, <2>1, <2>2
<1>9. \A j \in 1..Len(enq'.got) :
        Filled' + (j - 1) \in DOMAIN more /\ more[Filled' + (j - 1)] = enq'.got[j]
  <2> SUFFICES ASSUME NEW j \in 1..(l + 1)
               PROVE  Filled + (j - 1) \in DOMAIN more /\ more[Filled + (j - 1)] = enq'.got[j]
    BY <1>4, <1>5
  <2>1. /\ DOMAIN more = DOMAIN holds \union {n} /\ more[n] = b
        /\ \A m \in DOMAIN holds : m # n => more[m] = holds[m]
    BY DEF IsWith
  <2>2. CASE j = l + 1
    <3>1. Filled + (j - 1) = n
      BY <1>2, <1>3, <2>2
    <3> QED BY <1>4, <2>1, <2>2, <3>1
  <2>3. CASE j # l + 1
    <3>1. j \in 1..l /\ ~(j <= 0)
      BY <1>3, <2>3
    <3>2. Filled + (j - 1) \in DOMAIN holds /\ holds[Filled + (j - 1)] = enq.got[j]
      BY <1>3, <1>7, <3>1 DEF Calls
    <3> QED BY <1>4, <2>1, <3>1, <3>2
  <2> QED BY <2>2, <2>3
<1>10. \A j \in 1..Len(enq'.got) : ~(j <= Undone')
  <2> TAKE j \in 1..Len(enq'.got)
  <2>1. Len(enq'.got) \in Int
    BY <1>3, <1>4
  <2>2. j >= 1 /\ j \in Int
    BY <2>1
  <2> QED BY <1>7, <2>2
<1>11. enqAt' = "check head" =>
         enq'.base = BaseOf(Made)' /\ BlockSize * Made' < Item(tailIndex)' + enq'.count
  <2> SUFFICES ASSUME enqAt' = "check head"
               PROVE  enq'.base = BaseOf(Made)' /\ BlockSize * Made' < Item(tailIndex)' + enq'.count
    OBVIOUS
  <2>1. further
    BY DEF StoresAll
  <2>2. BaseOf(Made)' = BaseOf(Made + 1)
    BY <1>5 DEF BaseOf, Wrap, startIndex, ProducerOnly
  <2> QED BY <1>5, <2>1, <2>2
<1>12. enqAt' = "fill" =>
         /\ Item(tailIndex)' + enq'.count <= BlockSize * Made'
         /\ BlockSize * Made' < Item(tailIndex)' + enq'.count + BlockSize
  <2> SUFFICES ASSUME enqAt' = "fill"
               PROVE  /\ Item(tailIndex) + enq.count <= BlockSize * (n + 1)
                      /\ BlockSize * (n + 1) < Item(tailIndex) + enq.count + BlockSize
    BY <1>5
  <2>1. ~further
    BY DEF StoresAll
  <2>2. ~(BlockSize * (n + 1) < Item(tailIndex) + enq.count)
    BY <2>1
  <2>3. BlockSize * n < Item(tailIndex) + enq.count
    BY <1>1 DEF Calls
  <2>4. Item(tailIndex) \in Int /\ enq.count \in Nat
    BY <1>1, TailIs, CallCounts
  <2>5. PICK x \in Int : x = Item(tailIndex) + enq.count
    BY <2>4
  <2>6. PICK p \in Int : p = BlockSize * n
    BY Sizes
  <2>7. BlockSize * (n + 1) = p + BlockSize /\ BlockSize \in Int
    BY <2>6, Multiples, Sizes
  <2>8. x <= p + BlockSize /\ p + BlockSize < x + BlockSize
    BY <2>2, <2>3, <2>5, <2>6, <2>7
  <2> QED BY <2>5, <2>7, <2>8
<1>13. CallTypes'
  BY <1>6 DEF CallTypes, EnqueuePlaces
<1>14. enqAt' \notin Inserting
  BY <1>6 DEF Inserting
<1>15. NoBlock \notin Blocks
  BY ProducerConstants
<1>16. Calls(d, more)'
  BY <1>6, <1>9, <1>10, <1>11, <1>12, <1>13, <1>14, <1>15 DEF Calls, Undoing
<1> QED BY <1>5, <1>8, <1>14, <1>16

LEMMA StoreValueGoes ==
  ASSUME NEW d, NEW a, NEW f, NEW holds, LiveInv(d, a, f, holds), StoreValue
  PROVE  \E more : LiveInv(d, a, f, more)'
<1>1. /\ ClaimInv /\ a \in Int /\ f \in Int /\ Indexes(d, a, f, holds) /\ Calls(d, holds)
      /\ CallTypes /\ Kept(holds) /\ Shape(d) /\ ~destroyed /\ Places(holds) /\ IndexTypes
      /\ Tails(d, a, f) /\ HoldsBlocks(d, a, f, holds)
      /\ \A c \in Consumers : Looks(d, holds, c)
  BY DEF LiveInv, Calls, Indexes
<1>2. PICK further \in BOOLEAN : further <=> Wrap(enq.base - tailIndex) + BlockSize < enq.count
  OBVIOUS
<1>3. /\ StoresAll(further) /\ enqAt = "store value" /\ enqAt' # "idle"
      /\ PutValue(EntryAt(Len(idxHeaders), enq.slot), enq.block)
      /\ enq' = [enq EXCEPT !.got = Append(@, enq.block), !.block = NoBlock,
                            !.base = IF further THEN Wrap(@ + BlockSize) ELSE @]
      /\ UNCHANGED <<baseVars, idxHeaders>>
  <2>1. StoresAll(further) /\ enqAt = "store value" /\ enqAt' # "idle"
    BY <1>2 DEF StoreValue, EnqGoto, StoresAll
  <2>2. /\ PutValue(EntryAt(Len(idxHeaders), enq.slot), enq.block)
        /\ UNCHANGED <<baseVars, idxHeaders>>
    BY DEF StoreValue, PutValue
  <2>3. enq' = [enq EXCEPT !.got = Append(@, enq.block), !.block = NoBlock,
                            !.base = IF further THEN Wrap(@ + BlockSize) ELSE @]
    BY <1>2 DEF StoreValue, EnqGoto
  <2> QED BY <2>1, <2>2, <2>3
<1>4. /\ ProducerOnly
      /\ UNCHANGED <<tailIndex, tailBlock, emptied, freed, dequeueOptimisticCount, dequeueOvercommit>>
      /\ UNCHANGED <<idxHeaders, load>> /\ tailIndex' = tailIndex
  BY <1>3 DEF ProducerOnly, baseVars, counterVars
<1>5. /\ enqAt \in Inserting /\ enq.block \in Blocks /\ Limit = Made
  BY <1>1, <1>3 DEF Inserting, Calls, Limit
<1>6. /\ enq.slot = SlotAt(d, Current, Made) /\ Made < a /\ a <= Filled + IndexSize(Current)
      /\ f <= Filled /\ enq.base = BaseOf(Made) /\ BlockSize * Made < Item(tailIndex) + enq.count
      /\ Item(tailIndex) + enq.count <= load.items /\ enq.count > 0
  BY <1>1, <1>3, <1>5 DEF Calls, Tails, ClaimInv
<1>7. /\ Len(enq.got) \in Nat /\ Made = Filled + Len(enq.got) /\ Filled \in Nat /\ Made \in Nat
      /\ IndexSize(Current) \in Nat \ {0} /\ enq.got \in Seq(Blocks) /\ enq.base \in Int
  <2>1. Current \in 1..Current
    BY <1>1, CurrentIs
  <2> QED BY <1>1, <2>1, CallCounts, TailIs, CapacityIs
<1>8. PICK n : n = Made
  OBVIOUS
<1>9. PICK b : b = enq.block
  OBVIOUS
<1>10. /\ n \in Nat /\ n \in Window(a) /\ n >= f /\ Filled <= n /\ b \in Blocks
       /\ PutValue(EntryOf(d, n), b) /\ n \notin DOMAIN holds
  <2>1. n \in Window(a) /\ n \in Nat /\ n >= f /\ Filled <= n
    BY <1>1, <1>6, <1>7, <1>8 DEF Window
  <2>2. EntryAt(Len(idxHeaders), enq.slot) = EntryOf(d, n)
    BY <1>6, <1>8 DEF EntryOf, Current
  <2>3. n \notin DOMAIN holds
    BY <1>1, <1>5, <1>7, <1>8 DEF Kept
  <2> QED BY <1>3, <1>5, <1>9, <2>1, <2>2, <2>3
<1>11. PICK more : IsWith(more, holds, n, b)
  BY WithIs
<1>12. /\ further <=> BlockSize * (Made + 1) < Item(tailIndex) + enq.count
       /\ Wrap(enq.base + BlockSize) = BaseOf(Made + 1)
  BY <1>1, <1>2, <1>6, MoreIs
<1>13. /\ enq' \in EnqueueCall /\ enq'.got = Append(enq.got, b)
       /\ enq'.block = NoBlock /\ enq'.count = enq.count
       /\ enq'.base = IF further THEN BaseOf(Made + 1) ELSE enq.base
  <2>1. PICK x : x = IF further THEN Wrap(enq.base + BlockSize) ELSE enq.base
    OBVIOUS
  <2>2. x \in Int
    <3>1. Wrap(enq.base + BlockSize) \in Int
      <4>1. enq.base + BlockSize \in Int
        BY <1>7, Sizes
      <4> QED BY <4>1, WrapIs
    <3> QED BY <1>7, <2>1, <3>1
  <2>3. enq' = [enq EXCEPT !.got = Append(@, b), !.block = NoBlock, !.base = x]
    BY <1>3, <1>9, <2>1
  <2>4. /\ enq' \in EnqueueCall /\ enq'.got = Append(enq.got, b)
        /\ enq'.block = NoBlock /\ enq'.count = enq.count /\ enq'.base = x
    BY <1>1, <1>10, <2>2, <2>3, GotNoted
  <2> QED BY <1>12, <2>1, <2>4
<1>14. /\ Calls(d, more)' /\ Made' = n + 1 /\ Limit' = n + 1 /\ Top = n /\ Top' = n
       /\ enqAt' \notin Inserting
  BY <1>1, <1>3, <1>4, <1>8, <1>10, <1>11, <1>12, <1>13, StoreCalls
<1>15. /\ Indexes(d, a, f, more)' /\ EntriesKept(d, d, holds) /\ Header'.tail = Header.tail
       /\ Len(idxEntries') = Len(idxEntries)
       /\ Current' = Current /\ IndexSize(Current)' = IndexSize(Current)
       /\ \A m : SlotAt(d, Current, m)' = SlotAt(d, Current, m)
       /\ \A e \in 1..Len(idxEntries) :
            idxEntries'[e].value = Uninitialized =>
              idxEntries'[e] = idxEntries[e] /\ e # EntryOf(d, n)
  BY <1>1, <1>4, <1>10, <1>11, BlockPut
<1>16. \A m \in DOMAIN holds : holds[m] # b /\ holds[m] \in Blocks
  BY <1>1, <1>9 DEF Places, InIndex, HoldsBlocks
<1>17. NoBlock \notin Blocks
  BY ProducerConstants
<1>18. Kept(more)'
  <2>1. emptied[b] = 0
    BY <1>1, <1>5, <1>9 DEF Kept
  <2> QED BY <1>1, <1>4, <1>5, <1>8, <1>10, <1>11, <1>13, <1>14, <1>16, <1>17, <2>1, StoreKept
<1>19. Places(more)'
  BY <1>1, <1>4, <1>7, <1>8, <1>9, <1>10, <1>11, <1>13, <1>16, StorePlaces
<1>20. Tails(d, a, f)'
  <2>1. Filled' = Filled
    BY <1>4, FilledStays
  <2>2. a <= Filled' + IndexSize(Current)' /\ f <= Filled' /\ Top' < a
    BY <1>6, <1>8, <1>14, <1>15, <2>1
  <2>3. Header'.tail = SlotAt(d, Current, Top)'
    <3>1. SlotAt(d, Current, Top)' = SlotAt(d, Current, Top)
      BY <1>14, <1>15 DEF SlotAt
    <3> QED BY <1>1, <1>15, <3>1 DEF Tails
  <2>4. \A e \in 1..Len(idxEntries') :
          idxEntries'[e].value = Uninitialized => idxEntries'[e].key = InvalidBlockBase
    BY <1>1, <1>8, <1>15 DEF Tails
  <2> QED BY <1>14, <2>2, <2>3, <2>4 DEF Tails, InvalidBlockBase, Uninitialized
<1>21. ASSUME NEW c \in Consumers PROVE Looks(d, more, c)'
  <2>1. \A m \in DOMAIN holds : m < Filled => m \in DOMAIN more /\ more[m] = holds[m]
    BY <1>10, <1>11 DEF IsWith
  <2> QED BY <1>1, <1>4, <1>15, <2>1, LooksStay
<1>22. ClaimInv'
  <2>1. tailIndex' \in 0..(IndexMod - 1) /\ Item(tailIndex) <= Item(tailIndex')
        /\ Item(tailIndex') <= load.items
    <3>1. Item(tailIndex) \in Int /\ tailIndex \in 0..(IndexMod - 1) /\ Item(tailIndex) <= load.items
      BY <1>1, TailIs DEF ClaimInv
    <3>2. Item(tailIndex') = Item(tailIndex)
      BY <1>4 DEF Item
    <3> QED BY <1>4, <3>1, <3>2
  <2>2. enq'.count > 0 /\ Item(tailIndex') + enq'.count <= load.items
    <3>1. Item(tailIndex') = Item(tailIndex)
      BY <1>4 DEF Item
    <3> QED BY <1>6, <1>13, <3>1
  <2> QED BY <1>1, <1>4, <2>1, <2>2, ProducerClaims
<1>23. ~destroyed'
  BY <1>1, <1>4 DEF ProducerOnly
<1>24. LiveInv(d, a, f, more)'
  BY <1>1, <1>14, <1>15, <1>18, <1>19, <1>20, <1>21, <1>22, <1>23 DEF LiveInv
<1> QED BY <1>24

(* get_block_index_index_for_index, from the entry of block m.              *)
LEMMA SlotOfIs ==
  ASSUME load \in Loads, IndexTypes, NEW d, Shape(d), NEW h \in 1..Current,
         NEW m \in Int, NEW n \in Int, NEW i, BlockBase(i) = BaseOf(n),
         NEW tail, tail = SlotAt(d, h, m), NEW base, base = BaseOf(m)
  PROVE  SlotOf(h, tail, base, i) = SlotAt(d, h, n)
<1>1. IndexSize(h) \in Nat \ {0} /\ RangeOfBases % IndexSize(h) = 0 /\ d[h] \in Int
  <2>1. Current \in Nat /\ d \in [Nat -> Int]
    BY CurrentIs DEF Shape
  <2>2. h \in Nat
    BY <2>1
  <2> QED BY <2>1, <2>2, CapacityIs DEF Shape
<1>2. PICK o \in Int, C \in Nat \ {0} : o = d[h] /\ C = IndexSize(h)
  BY <1>1
<1>3. Divisible(RangeOfBases, C)
  BY <1>1, <1>2 DEF Divisible
<1>4. (((m + o) % C) + SignedBlocks(BaseOf(n) - BaseOf(m))) % C = (n + o) % C
  BY <1>3, SlotFound
<1>5. SlotAt(d, h, m) = (m + o) % C /\ SlotAt(d, h, n) = (n + o) % C
  BY <1>2 DEF SlotAt
<1>6. SlotOf(h, tail, base, i) = (tail + SignedBlocks(BaseOf(n) - base)) % C
  BY <1>2 DEF SlotOf, IndexSize
<1> QED BY <1>4, <1>5, <1>6

(* The base of a block is the base of its first index.                      *)
LEMMA BaseOfBase ==
  ASSUME load \in Loads, NEW n \in Int
  PROVE  BlockBase(BaseOf(n)) = BaseOf(n)
<1>1. startIndex \in Int /\ BlockSize \in Nat \ {0} /\ IndexMod \in Nat \ {0}
  BY Start, Sizes
<1>2. PICK x \in Int : x = BlockSize * n
  BY <1>1
<1>3. PICK y \in Int : y = startIndex + x
  BY <1>1, <1>2
<1>4. PICK i \in Int : i = BaseOf(n)
  BY BaseIs
<1>5. PICK k \in Int : k = y \div IndexMod
  BY <1>1, <1>3, Divides
<1>6. startIndex + x = i + IndexMod * k
  <2>1. i = y % IndexMod
    BY <1>2, <1>3, <1>4 DEF BaseOf, Wrap
  <2>2. y = IndexMod * k + (y % IndexMod)
    BY <1>1, <1>3, <1>5, Divides
  <2>3. IndexMod * k \in Int
    BY <1>1
  <2> QED BY <1>3, <2>1, <2>2, <2>3
<1>7. BlockOffset(i) = x % BlockSize
  BY <1>6, OffsetIs
<1>8. x % BlockSize = 0
  <2>1. 0 \in 0..(BlockSize - 1) /\ x = BlockSize * n + 0
    BY <1>1, <1>2
  <2>2. PICK z \in 0..(BlockSize - 1) : z = 0
    BY <2>1
  <2>3. x % BlockSize = z
    BY <1>1, <2>1, <2>2, Division
  <2> QED BY <2>2, <2>3
<1> QED BY <1>4, <1>7, <1>8 DEF BlockBase

(* A block leaves the index and stays with the producer.                    *)
LEMMA UndoPlaces ==
  ASSUME ProducerOnly, UNCHANGED <<tailIndex, freed, enq>>, NEW holds, Places(holds),
         NEW n \in DOMAIN holds, NEW j \in 1..Len(enq.got), holds[n] = enq.got[j],
         NEW less, IsWithout(less, holds, n)
  PROVE  Places(less)'
<1>1. DOMAIN less = DOMAIN holds \ {n} /\ \A m \in DOMAIN less : less[m] = holds[m]
  BY DEF IsWithout
<1>2. /\ \A x \in InIndex(less) : x \in InIndex(holds)
      /\ \A x \in InIndex(holds) : x \in InIndex(less) \/ x = enq.got[j]
  BY <1>1 DEF InIndex
<1>3. HeldByProducer' = HeldByProducer /\ enq.got[j] \in HeldByProducer
  BY DEF HeldByProducer
<1>4. /\ \A c : HeldByConsumer(c)' = HeldByConsumer(c)
      /\ Filled' = Filled
  BY DoneStays, FilledStays
<1>5. InIndex(less)' = InIndex(less)
  BY DEF InIndex
<1>6. \A x \in Blocks : Used(less, x)' <=> Used(holds, x)
  BY <1>2, <1>3, <1>4, <1>5 DEF Used
<1> QED BY <1>1, <1>2, <1>3, <1>4, <1>5, <1>6 DEF Places

LEMMA UndoValueGoes ==
  ASSUME NEW d, NEW a, NEW f, NEW holds, LiveInv(d, a, f, holds), UndoValue
  PROVE  \E less : LiveInv(d, a, f, less)'
<1>1. /\ ClaimInv /\ a \in Int /\ f \in Int /\ Indexes(d, a, f, holds) /\ Calls(d, holds)
      /\ CallTypes /\ Kept(holds) /\ Shape(d) /\ ~destroyed /\ Places(holds) /\ IndexTypes
      /\ Tails(d, a, f) /\ HoldsBlocks(d, a, f, holds) /\ KeysUpTo(d, a, f) /\ load \in Loads
      /\ \A c \in Consumers : Looks(d, holds, c)
  BY TailIs DEF LiveInv, Calls, Indexes
<1>2. /\ enqAt = "undo" /\ enqAt' = "undo rewind" /\ enq' = enq /\ UNCHANGED <<baseVars, idxHeaders>>
      /\ PutValue(EntryAt(Current, SlotOf(Current, Header.tail, idxEntries[EntryAt(Current, Header.tail)].key,
                    Wrap(FirstNewBase + (enq.undo - 1) * BlockSize))), NoBlock)
  BY DEF UndoValue, EnqGoto, PutValue, Current
<1>3. /\ ProducerOnly
      /\ UNCHANGED <<tailIndex, tailBlock, emptied, freed, dequeueOptimisticCount, dequeueOvercommit>>
      /\ UNCHANGED <<idxHeaders, load>> /\ tailIndex' = tailIndex
  BY <1>2 DEF ProducerOnly, baseVars, counterVars
<1>4. /\ enq.undo \in 1..Len(enq.got) /\ Undone = enq.undo - 1 /\ Top = Made - enq.undo
      /\ enqAt \notin Inserting /\ Limit = Made /\ enq.block \notin Blocks
  BY <1>1, <1>2 DEF Inserting, Undoing, Calls, Limit, Undone, Top
<1>5. /\ Len(enq.got) \in Nat /\ Made = Filled + Len(enq.got) /\ Filled \in Nat /\ Made \in Nat
      /\ IndexSize(Current) \in Nat \ {0} /\ FirstNewBase = BaseOf(Filled) /\ Current \in 1..Current
  <2>1. Current \in 1..Current
    BY <1>1, CurrentIs
  <2> QED BY <1>1, <2>1, CallCounts, TailIs, CapacityIs
<1>6. PICK k \in 1..Len(enq.got) : k = enq.undo
  BY <1>4
<1>7. PICK n : n = Filled + (k - 1)
  OBVIOUS
<1>8. n \in Int /\ k \in Int
  BY <1>5, <1>6, <1>7
<1>9. n \in DOMAIN holds /\ holds[n] = enq.got[k]
  <2>1. ~(k <= Undone)
    BY <1>4, <1>6, <1>8
  <2> QED BY <1>1, <1>6, <1>7, <2>1 DEF Calls
<1>10. n \in Window(a)
  BY <1>1, <1>9 DEF HoldsBlocks
<1>11. PICK m \in Int : m = Top
  BY <1>4, <1>5, <1>6, <1>8
<1>12. idxEntries[EntryAt(Current, Header.tail)].key = BaseOf(m) /\ Header.tail = SlotAt(d, Current, m)
  <2>1. Header.tail = SlotAt(d, Current, m)
    BY <1>1, <1>11 DEF Tails
  <2>2. m < a /\ a <= Filled + IndexSize(Current) /\ f <= Filled
    BY <1>1, <1>11 DEF Tails
  <2>3. Filled <= m
    BY <1>4, <1>5, <1>6, <1>8, <1>11
  <2>4. m \in Window(a) /\ m >= f
    BY <1>1, <1>5, <2>2, <2>3 DEF Window
  <2>5. KeyOf(d, m) = BaseOf(m)
    BY <1>1, <2>4 DEF KeysUpTo
  <2> QED BY <2>1, <2>5 DEF KeyOf, EntryOf
<1>13. BlockBase(Wrap(FirstNewBase + (enq.undo - 1) * BlockSize)) = BaseOf(n)
  <2>1. startIndex \in Int /\ BlockSize \in Nat \ {0} /\ IndexMod \in Nat \ {0}
    BY <1>1, Start, Sizes
  <2>2. PICK s \in Int : s = startIndex + BlockSize * Filled
    BY <1>5, <2>1
  <2>3. PICK z \in Int : z = (k - 1) * BlockSize
    BY <1>8, <2>1
  <2>4. s + z = startIndex + BlockSize * n
    <3>1. PICK p \in Int, q \in Int : p = Filled /\ q = k - 1
      BY <1>5, <1>8
    <3>2. BlockSize * (p + q) = BlockSize * p + q * BlockSize
      BY <2>1, <3>1
    <3>3. n = p + q
      BY <1>7, <3>1
    <3>4. BlockSize * p \in Int /\ q * BlockSize \in Int
      BY <2>1, <3>1
    <3> QED BY <2>1, <2>2, <2>3, <3>1, <3>2, <3>3, <3>4
  <2>5. ((s % IndexMod) + z) % IndexMod = (s + z) % IndexMod
    BY <2>1, RestOfSum
  <2>6. Wrap(FirstNewBase + (enq.undo - 1) * BlockSize) = BaseOf(n)
    BY <1>5, <1>6, <2>2, <2>3, <2>4, <2>5 DEF BaseOf, Wrap
  <2> QED BY <1>1, <1>8, <2>6, BaseOfBase
<1>14. PutValue(EntryOf(d, n), NoBlock)
  <2>1. PICK i, tail, base : /\ i = Wrap(FirstNewBase + (enq.undo - 1) * BlockSize)
                             /\ tail = Header.tail
                             /\ base = idxEntries[EntryAt(Current, Header.tail)].key
    OBVIOUS
  <2>2. SlotOf(Current, tail, base, i) = SlotAt(d, Current, n)
    BY <1>1, <1>5, <1>8, <1>11, <1>12, <1>13, <2>1, SlotOfIs
  <2> QED BY <1>2, <2>1, <2>2 DEF EntryOf
<1>15. PICK less : IsWithout(less, holds, n)
  BY WithIs
<1>16. /\ Indexes(d, a, f, less)' /\ EntriesKept(d, d, holds) /\ Header'.tail = Header.tail
       /\ Len(idxEntries') = Len(idxEntries)
       /\ Current' = Current /\ IndexSize(Current)' = IndexSize(Current)
       /\ \A l : SlotAt(d, Current, l)' = SlotAt(d, Current, l)
       /\ \A e \in 1..Len(idxEntries) :
            idxEntries'[e].value = Uninitialized =>
              idxEntries'[e] = idxEntries[e] /\ e # EntryOf(d, n)
  BY <1>1, <1>3, <1>10, <1>14, <1>15, NullPut
<1>17. /\ Made' = Made /\ Item(tailIndex)' = Item(tailIndex) /\ Filled' = Filled
  BY <1>2, <1>3, MadeStays
<1>18. /\ enqAt' \notin Inserting /\ Undone' = k /\ Top' = Top /\ Limit' = Made
  BY <1>2, <1>4, <1>6, <1>17 DEF Inserting, Undoing, Limit, Undone, Top
<1>19. DOMAIN less = DOMAIN holds \ {n} /\ \A l \in DOMAIN less : less[l] = holds[l]
  BY <1>15 DEF IsWithout
<1>20. Calls(d, less)'
  <2>1. CallTypes'
    BY <1>1, <1>2 DEF CallTypes, EnqueuePlaces, Undoing
  <2>2. \A j \in 1..Len(enq.got) :
          IF j <= k THEN Filled + (j - 1) \notin DOMAIN less
          ELSE Filled + (j - 1) \in DOMAIN less /\ less[Filled + (j - 1)] = enq.got[j]
    <3> TAKE j \in 1..Len(enq.got)
    <3>1. j \in Int
      BY <1>5
    <3>2. IF j <= Undone THEN Filled + (j - 1) \notin DOMAIN holds
          ELSE Filled + (j - 1) \in DOMAIN holds /\ holds[Filled + (j - 1)] = enq.got[j]
      BY <1>1 DEF Calls
    <3>3. CASE j = k
      BY <1>7, <1>19, <3>3
    <3>4. CASE j # k
      <4>1. Filled + (j - 1) # n /\ (j <= k <=> j <= Undone)
        <5>1. Undone = k - 1 /\ Filled \in Int
          BY <1>4, <1>5, <1>6
        <5>2. n = Filled + (k - 1) /\ k \in Int
          BY <1>7, <1>8
        <5> QED BY <3>1, <3>4, <5>1, <5>2
      <4> QED BY <1>19, <3>2, <4>1
    <3> QED BY <3>3, <3>4
  <2>3. enq'.undo \in 1..Len(enq'.got) /\ enq'.block \notin Blocks
    BY <1>2, <1>4
  <2> QED BY <1>2, <1>17, <1>18, <2>1, <2>2, <2>3 DEF Calls, Inserting, Undoing
<1>21. Kept(less)'
  <2>1. \A l \in DOMAIN less : l \in DOMAIN holds /\ less[l] = holds[l] /\ l < Limit'
    BY <1>1, <1>4, <1>18, <1>19 DEF Kept
  <2>2. \A l \in DOMAIN holds : l < Filled => l \in DOMAIN less
    <3>1. ~(n < Filled)
      BY <1>5, <1>6, <1>7, <1>8
    <3> QED BY <1>19, <3>1
  <2>3. enq'.block \notin Blocks
    BY <1>2, <1>4
  <2> QED BY <1>1, <1>3, <2>1, <2>2, <2>3, KeptGoes
<1>22. Places(less)'
  BY <1>1, <1>2, <1>3, <1>6, <1>9, <1>15, UndoPlaces
<1>23. Tails(d, a, f)'
  <2>1. a <= Filled' + IndexSize(Current)' /\ f <= Filled' /\ Top' < a
    BY <1>1, <1>16, <1>17, <1>18 DEF Tails
  <2>2. Header'.tail = SlotAt(d, Current, Top)'
    <3>1. SlotAt(d, Current, Top)' = SlotAt(d, Current, Top)
      BY <1>16, <1>18 DEF SlotAt
    <3> QED BY <1>1, <1>16, <3>1 DEF Tails
  <2>3. \A e \in 1..Len(idxEntries') :
          idxEntries'[e].value = Uninitialized => idxEntries'[e].key = InvalidBlockBase
    BY <1>1, <1>4, <1>16 DEF Tails
  <2> QED BY <1>18, <2>1, <2>2, <2>3 DEF Tails, InvalidBlockBase, Uninitialized
<1>24. ASSUME NEW c \in Consumers PROVE Looks(d, less, c)'
  <2>1. \A l \in DOMAIN holds : l < Filled => l \in DOMAIN less /\ less[l] = holds[l]
    <3>1. ~(n < Filled)
      BY <1>5, <1>6, <1>7, <1>8
    <3> QED BY <1>19, <3>1
  <2> QED BY <1>1, <1>3, <1>16, <2>1, LooksStay
<1>25. ClaimInv'
  <2>1. tailIndex' \in 0..(IndexMod - 1) /\ Item(tailIndex) <= Item(tailIndex')
        /\ Item(tailIndex') <= load.items
    <3>1. Item(tailIndex) \in Int /\ tailIndex \in 0..(IndexMod - 1) /\ Item(tailIndex) <= load.items
      BY <1>1, TailIs DEF ClaimInv
    <3>2. Item(tailIndex') = Item(tailIndex)
      BY <1>3 DEF Item
    <3> QED BY <1>3, <3>1, <3>2
  <2>2. enq'.count > 0 /\ Item(tailIndex') + enq'.count <= load.items
    <3>1. Item(tailIndex') = Item(tailIndex)
      BY <1>3 DEF Item
    <3> QED BY <1>1, <1>2, <3>1 DEF ClaimInv
  <2> QED BY <1>1, <1>3, <2>1, <2>2, ProducerClaims
<1>26. ~destroyed'
  BY <1>1, <1>3 DEF ProducerOnly
<1>27. LiveInv(d, a, f, less)'
  BY <1>1, <1>16, <1>20, <1>21, <1>22, <1>23, <1>24, <1>25, <1>26 DEF LiveInv
<1> QED BY <1>27

LEMMA NoEnqueueIs ==
  NoEnqueue \in EnqueueCall /\ NoEnqueue.got = <<>> /\ NoEnqueue.block = NoBlock
  /\ Len(NoEnqueue.got) = 0
<1>1. NoBlock \notin Blocks /\ <<>> \in Seq(Blocks) /\ Len(<<>>) = 0
  BY ProducerConstants
<1> QED BY <1>1 DEF NoEnqueue, EnqueueCall

LEMMA TailNoted ==
  ASSUME CallTypes, enq.got # <<>>, enq' = [enq EXCEPT !.got = Tail(@)]
  PROVE  /\ enq' \in EnqueueCall /\ enq'.got = Tail(enq.got) /\ enq'.block = enq.block
         /\ enq'.count = enq.count
<1>1. enq \in EnqueueCall /\ enq.got \in Seq(Blocks)
  BY DEF CallTypes, EnqueueCall
<1> DEFINE g == Tail(enq.got)
<1>2. enq' = [enq EXCEPT !.got = g]
  OBVIOUS
<1>3. g \in Seq(Blocks)
  BY <1>1, HeadTailProperties
<1> HIDE DEF g
<1>4. enq' \in EnqueueCall /\ enq'.got = g /\ enq'.block = enq.block /\ enq'.count = enq.count
  BY <1>1, <1>2, <1>3 DEF EnqueueCall
<1> QED BY <1>4 DEF g

(* The first of the blocks goes back.                                       *)
LEMMA FreePlaces ==
  ASSUME ClaimInv, ProducerOnly, tailIndex' = tailIndex, NEW holds, Places(holds),
         \A m \in DOMAIN holds : m \in Nat /\ m < Filled,
         enq.got \in Seq(Blocks), enq.got # <<>>, enq'.got = Tail(enq.got),
         enq'.block = enq.block, enq.block \notin Blocks,
         freed' = [freed EXCEPT ![Head(enq.got)] = @ + 1]
  PROVE  Places(holds)'
<1>1. PICK l \in Nat : Len(enq.got) = l + 1
  <2>1. Len(enq.got) \in Nat /\ Len(enq.got) # 0
    BY LenProperties, EmptySeq
  <2>2. Len(enq.got) - 1 \in Nat /\ Len(enq.got) = (Len(enq.got) - 1) + 1
    BY <2>1
  <2> QED BY <2>2
<1>2. PICK b \in Blocks : b = enq.got[1] /\ b = Head(enq.got)
  BY HeadTailProperties
<1>3. Len(enq'.got) = l /\ \A j \in 1..l : enq'.got[j] = enq.got[j + 1]
  BY <1>1, HeadTailProperties
<1>4. /\ 1 \in 1..(l + 1)
      /\ \A j \in 1..l : j + 1 \in 1..(l + 1) /\ j + 1 # 1 /\ (j + 1) - 1 = j /\ j \in Int
      /\ \A j \in 1..(l + 1) : j = 1 \/ \E i \in 1..l : j = i + 1
  <2>1. \A j \in 1..(l + 1) : j = 1 \/ \E i \in 1..l : j = i + 1
    <3> SUFFICES ASSUME NEW j \in 1..(l + 1), j # 1 PROVE \E i \in 1..l : j = i + 1
      OBVIOUS
    <3>1. j - 1 \in 1..l /\ j = (j - 1) + 1
      BY <1>1
    <3> QED BY <3>1
  <2> QED BY <1>1, <2>1
<1>5. /\ freed \in [Blocks -> Int]
      /\ \A x \in Blocks : freed[x] = IF Used(holds, x) THEN 0 ELSE 1
      /\ \A c \in Consumers : \A x \in HeldByConsumer(c) :
           /\ x \in Blocks /\ x \notin InIndex(holds) \union HeldByProducer
           /\ \A e \in Consumers : e # c => x \notin HeldByConsumer(e)
      /\ enq.block \notin InIndex(holds) \union {enq.got[j] : j \in 1..(l + 1)}
      /\ \A i, j \in 1..(l + 1) : enq.got[i] = enq.got[j] => i = j
      /\ \A m \in DOMAIN holds : \A j \in 1..(l + 1) : holds[m] = enq.got[j] => m = Filled + (j - 1)
  BY <1>1 DEF Places
<1>6. \A c : HeldByConsumer(c)' = HeldByConsumer(c)
  BY DoneStays
<1>7. Filled' = Filled /\ Filled \in Int
  BY FilledStays, TailIs
<1>8. b \in HeldByProducer /\ HeldByProducer = {enq.block} \union {enq.got[j] : j \in 1..(l + 1)}
      /\ HeldByProducer' = {enq.block} \union {enq'.got[j] : j \in 1..l}
  BY <1>1, <1>2, <1>3, <1>4 DEF HeldByProducer
<1>9. \A m \in DOMAIN holds : \A j \in 1..(l + 1) : holds[m] # enq.got[j]
  <2> SUFFICES ASSUME NEW m \in DOMAIN holds, NEW j \in 1..(l + 1), m = Filled + (j - 1) PROVE FALSE
    BY <1>5
  <2>1. m \in Nat /\ m < Filled
    OBVIOUS
  <2>2. j \in Int /\ j >= 1
    BY <1>1
  <2> QED BY <1>7, <2>1, <2>2
<1>10. b \notin HeldByProducer' /\ b \notin InIndex(holds) /\ \A c \in Consumers : b \notin HeldByConsumer(c)
  <2>1. \A j \in 1..l : enq'.got[j] # b
    BY <1>2, <1>3, <1>4, <1>5
  <2>2. b # enq.block
    BY <1>2
  <2>3. b \notin HeldByProducer'
    BY <1>8, <2>1, <2>2
  <2>4. b \notin InIndex(holds)
    <3>1. \A m \in DOMAIN holds : holds[m] # b
      BY <1>2, <1>4, <1>9
    <3> QED BY <3>1 DEF InIndex
  <2>5. \A c \in Consumers : b \notin HeldByConsumer(c)
    BY <1>5, <1>8
  <2> QED BY <2>3, <2>4, <2>5
<1>11. \A x \in Blocks : x # b => (x \in HeldByProducer' <=> x \in HeldByProducer)
  <2> TAKE x \in Blocks
  <2> HAVE x # b
  <2>1. x \in {enq'.got[j] : j \in 1..l} <=> x \in {enq.got[j] : j \in 1..(l + 1)}
    BY <1>2, <1>3, <1>4
  <2> QED BY <1>8, <2>1
<1>12. freed' \in [Blocks -> Int] /\ freed'[b] = 1 /\ \A x \in Blocks : x # b => freed'[x] = freed[x]
  <2>1. freed[b] = 0
    BY <1>5, <1>8 DEF Used
  <2>2. freed' = [freed EXCEPT ![b] = @ + 1]
    BY <1>2
  <2> QED BY <1>5, <2>1, <2>2
<1>13. ASSUME NEW x \in Blocks PROVE freed'[x] = IF Used(holds, x)' THEN 0 ELSE 1
  <2>1. InIndex(holds)' = InIndex(holds)
    BY DEF InIndex
  <2>2. CASE x = b
    <3>1. ~Used(holds, x)'
      BY <1>6, <1>10, <2>1, <2>2 DEF Used
    <3> QED BY <1>12, <2>2, <3>1
  <2>3. CASE x # b
    <3>1. Used(holds, x)' <=> Used(holds, x)
      BY <1>6, <1>11, <2>1, <2>3 DEF Used
    <3> QED BY <1>5, <1>12, <2>3, <3>1
  <2> QED BY <2>2, <2>3
<1>14. \A c \in Consumers : \A x \in HeldByConsumer(c)' :
         /\ x \in Blocks /\ x \notin InIndex(holds) \union HeldByProducer'
         /\ \A e \in Consumers : e # c => x \notin HeldByConsumer(e)'
  <2> SUFFICES ASSUME NEW c \in Consumers, NEW x \in HeldByConsumer(c)
               PROVE  /\ x \in Blocks /\ x \notin InIndex(holds) \union HeldByProducer'
                      /\ \A e \in Consumers : e # c => x \notin HeldByConsumer(e)
    BY <1>6
  <2>1. x \in Blocks /\ x # b
    BY <1>5, <1>10
  <2> QED BY <1>5, <1>11, <2>1
<1>15. \A i, j \in 1..Len(enq'.got) : enq'.got[i] = enq'.got[j] => i = j
  <2> SUFFICES ASSUME NEW i \in 1..l, NEW j \in 1..l, enq'.got[i] = enq'.got[j] PROVE i = j
    BY <1>3
  <2>1. i + 1 = j + 1
    BY <1>3, <1>4, <1>5
  <2> QED BY <1>4, <2>1
<1>16. enq.block \notin InIndex(holds) \union {enq'.got[j] : j \in 1..Len(enq'.got)}
  BY <1>3, <1>4, <1>5
<1>17. \A m \in DOMAIN holds : \A j \in 1..Len(enq'.got) : holds[m] = enq'.got[j] => m = Filled + (j - 1)
  <2> SUFFICES ASSUME NEW m \in DOMAIN holds, NEW j \in 1..l, holds[m] = enq'.got[j] PROVE FALSE
    BY <1>3
  <2>1. enq'.got[j] = enq.got[j + 1] /\ j + 1 \in 1..(l + 1)
    BY <1>3, <1>4
  <2> QED BY <1>9, <2>1
<1>18. InIndex(holds)' = InIndex(holds)
  BY DEF InIndex
<1> QED BY <1>7, <1>12, <1>13, <1>14, <1>15, <1>16, <1>17, <1>18 DEF Places

(* A step of the producer within its call, or at the end of it.             *)
LEMMA CallClaims ==
  ASSUME ClaimInv, ProducerOnly, UNCHANGED <<tailIndex, dequeueOptimisticCount, dequeueOvercommit>>,
         enqAt' # "idle" => enqAt # "idle" /\ enq'.count = enq.count
  PROVE  ClaimInv'
<1>1. tailIndex' \in 0..(IndexMod - 1) /\ Item(tailIndex) <= Item(tailIndex')
      /\ Item(tailIndex') <= load.items
  <2>1. Item(tailIndex) \in Int /\ tailIndex \in 0..(IndexMod - 1) /\ Item(tailIndex) <= load.items
    BY TailIs DEF ClaimInv
  <2>2. Item(tailIndex') = Item(tailIndex)
    BY DEF Item
  <2> QED BY <2>1, <2>2
<1>2. enqAt' # "idle" => enq'.count > 0 /\ Item(tailIndex') + enq'.count <= load.items
  <2>1. Item(tailIndex') = Item(tailIndex)
    BY DEF Item
  <2> QED BY <2>1 DEF ClaimInv
<1> QED BY <1>1, <1>2, ProducerClaims

LEMMA AllFreedGoes ==
  ASSUME NEW d, NEW a, NEW f, NEW holds, LiveInv(d, a, f, holds), FreeBlocks, enq.got = <<>>
  PROVE  LiveInv(d, a, f, holds)'
<1>1. /\ ClaimInv /\ Calls(d, holds) /\ CallTypes /\ Kept(holds) /\ load \in Loads
  BY TailIs DEF LiveInv, Calls
<1>2. /\ enqAt = "free" /\ enqAt' = "idle" /\ enq' = NoEnqueue
      /\ UNCHANGED <<counterVars, tailBlock, elements, emptied, dqAt, dq, isExplicit, destroyed, load,
                     idxEntries, idxHeaders, freed>>
  BY DEF FreeBlocks, EnqGoto
<1>3. /\ ProducerOnly
      /\ UNCHANGED <<tailIndex, tailBlock, emptied, freed, dequeueOptimisticCount, dequeueOvercommit>>
      /\ UNCHANGED <<idxEntries, idxHeaders>> /\ tailIndex' = tailIndex
  BY <1>2 DEF ProducerOnly, counterVars
<1>4. enq.block = NoBlock
  BY <1>1, <1>2, CallCounts DEF Calls
<1>5. /\ NoEnqueue \in EnqueueCall /\ NoEnqueue.got = <<>> /\ NoEnqueue.block = NoBlock
      /\ Len(NoEnqueue.got) = 0
  BY NoEnqueueIs
<1>6. /\ enqAt \notin Inserting /\ enqAt' \notin Inserting /\ enqAt' \notin Undoing
      /\ enqAt' \notin {"check head", "insert"}
  BY <1>2 DEF Inserting, Undoing
<1>7. enq'.got = enq.got /\ enq'.block = enq.block
  BY <1>2, <1>4, <1>5
<1>8. Filled' = Filled /\ Made' = Made /\ Made = Filled /\ Filled \in Int
  <2>1. Filled' = Filled /\ Made' = Made
    BY <1>3, <1>7, MadeStays
  <2>2. Len(enq.got) = 0 /\ Filled \in Int
    BY <1>1, <1>2, <1>5, <1>7, TailIs
  <2> QED BY <2>1, <2>2 DEF Made
<1>9. Limit = Filled /\ Limit' = Filled /\ Top' = Top
  <2>1. Limit = Filled /\ Top = Filled - 1
    BY <1>2, <1>6 DEF Limit, Top, Undoing
  <2>2. Limit' = Filled /\ Top' = Filled - 1
    BY <1>2, <1>6, <1>8 DEF Limit, Top
  <2> QED BY <2>1, <2>2
<1>10. Calls(d, holds)'
  <2>1. CallTypes'
    BY <1>2, <1>5 DEF CallTypes, EnqueuePlaces
  <2>2. 1..Len(enq'.got) = {}
    BY <1>2, <1>5
  <2>3. enq'.block \notin Blocks
    BY <1>2, <1>5, ProducerConstants
  <2>4. NoEnqueue' = NoEnqueue
    BY DEF NoEnqueue
  <2> QED BY <1>2, <1>6, <2>1, <2>2, <2>3, <2>4 DEF Calls
<1>11. \A n \in DOMAIN holds : n < Limit'
  BY <1>1, <1>9 DEF Kept
<1> QED BY <1>2, <1>3, <1>6, <1>7, <1>9, <1>10, <1>11, PlainGoes

LEMMA FreeBlocksGoes ==
  ASSUME NEW d, NEW a, NEW f, NEW holds, LiveInv(d, a, f, holds), FreeBlocks
  PROVE  LiveInv(d, a, f, holds)'
<1>1. SUFFICES ASSUME enq.got # <<>> PROVE LiveInv(d, a, f, holds)'
  BY AllFreedGoes
<1>2. /\ ClaimInv /\ a \in Int /\ f \in Int /\ Indexes(d, a, f, holds) /\ Calls(d, holds)
      /\ CallTypes /\ Kept(holds) /\ Shape(d) /\ ~destroyed /\ Places(holds) /\ Tails(d, a, f)
      /\ \A c \in Consumers : Looks(d, holds, c)
  BY DEF LiveInv, Calls, Indexes
<1>3. /\ enqAt = "free" /\ enqAt' = "free" /\ enq' = [enq EXCEPT !.got = Tail(@)]
      /\ freed' = [freed EXCEPT ![Head(enq.got)] = @ + 1]
      /\ UNCHANGED <<counterVars, tailBlock, elements, emptied, dqAt, dq, isExplicit, destroyed, load,
                     idxEntries, idxHeaders>>
  BY <1>1 DEF FreeBlocks, EnqGoto
<1>4. /\ ProducerOnly /\ load' = load
      /\ UNCHANGED <<tailIndex, tailBlock, emptied, dequeueOptimisticCount, dequeueOvercommit>>
      /\ UNCHANGED <<idxEntries, idxHeaders>> /\ tailIndex' = tailIndex
  BY <1>3 DEF ProducerOnly, counterVars
<1>5. /\ enq' \in EnqueueCall /\ enq'.got = Tail(enq.got) /\ enq'.block = enq.block
      /\ enq'.count = enq.count
  BY <1>1, <1>2, <1>3, TailNoted
<1>6. /\ enqAt \notin Inserting /\ enqAt \notin Undoing /\ enqAt' \notin Inserting /\ enqAt' \notin Undoing
      /\ enqAt' \notin {"check head", "insert"} /\ enq.block \notin Blocks
      /\ \A n : n \in {"requisition", "store value", "rewind"} => n # enqAt /\ n # enqAt'
  BY <1>2, <1>3 DEF Inserting, Undoing, Calls
<1>7. Filled' = Filled
  BY <1>4, FilledStays
<1>8. /\ Limit = Filled /\ Limit' = Filled /\ Top' = Top
  <2>1. Limit = Filled /\ Top = Filled - 1
    BY <1>3, <1>6 DEF Limit, Top
  <2>2. Limit' = Filled /\ Top' = Filled - 1
    BY <1>3, <1>6, <1>7 DEF Limit, Top
  <2> QED BY <2>1, <2>2
<1>9. \A m \in DOMAIN holds : m \in Nat /\ m < Filled
  BY <1>2, <1>8 DEF Kept
<1>10. /\ Len(enq'.got) = Len(enq.got) - 1 /\ Len(enq.got) \in Nat /\ enq.got \in Seq(Blocks)
  BY <1>1, <1>2, <1>5, CallCounts, HeadTailProperties
<1>11. Calls(d, holds)'
  <2>1. CallTypes'
    BY <1>3, <1>5 DEF CallTypes, EnqueuePlaces
  <2>2. \A j \in 1..Len(enq.got) : Filled + (j - 1) \notin DOMAIN holds
    <3>1. Undone = Len(enq.got)
      BY <1>3 DEF Undone
    <3>2. \A j \in 1..Len(enq.got) : j <= Undone
      BY <1>10, <3>1
    <3> QED BY <1>2, <3>2 DEF Calls
  <2>3. \A j \in 1..Len(enq'.got) : j \in 1..Len(enq.got) /\ j <= Len(enq'.got)
    BY <1>10
  <2>4. Undone' = Len(enq'.got)
    BY <1>3 DEF Undone
  <2>5. \A j \in 1..Len(enq'.got) : j <= Undone' /\ Filled' + (j - 1) \notin DOMAIN holds
    BY <1>7, <2>2, <2>3, <2>4
  <2> QED BY <1>3, <1>5, <1>6, <2>1, <2>5 DEF Calls
<1>12. /\ Indexes(d, a, f, holds)' /\ EntriesKept(d, d, holds)
       /\ Current' = Current /\ IndexSize(Current)' = IndexSize(Current)
       /\ \A n : SlotAt(d, Current, n)' = SlotAt(d, Current, n)
  BY <1>2, <1>4, IndexSame
<1>13. Tails(d, a, f)'
  <2>1. Header'.tail = Header.tail
    BY <1>4 DEF Header
  <2>2. SlotAt(d, Current, Top)' = SlotAt(d, Current, Top)
    BY <1>8, <1>12 DEF SlotAt
  <2> QED BY <1>2, <1>4, <1>6, <1>7, <1>8, <1>12, <2>1, <2>2 DEF Tails
<1>14. Kept(holds)'
  BY <1>2, <1>4, <1>5, <1>6, <1>8, <1>9, KeptGoes
<1>15. Places(holds)'
  BY <1>1, <1>2, <1>3, <1>4, <1>5, <1>6, <1>9, <1>10, FreePlaces
<1>16. ASSUME NEW c \in Consumers PROVE Looks(d, holds, c)'
  BY <1>2, <1>4, <1>12, LooksStay
<1>17. ClaimInv'
  BY <1>2, <1>3, <1>4, <1>5, CallClaims
<1>18. ~destroyed'
  BY <1>2, <1>4 DEF ProducerOnly
<1> QED BY <1>2, <1>11, <1>12, <1>13, <1>14, <1>15, <1>16, <1>17, <1>18 DEF LiveInv

(* The index of an element behind.                                          *)
LEMMA ItemOfSum ==
  ASSUME load \in Loads, NEW i \in 0..(IndexMod - 1), NEW n \in Nat, Item(i) + n < IndexMod
  PROVE  Wrap(i + n) \in 0..(IndexMod - 1) /\ Item(Wrap(i + n)) = Item(i) + n
<1> DEFINE M == IndexMod
           S == startIndex
           T == Item(i)
<1>1. /\ M \in Nat \ {0} /\ S \in Int /\ i \in Int /\ n \in Int
  BY Sizes, Start
<1>2. T \in Nat /\ T \in Int
  BY IndexOfItem
<1>3. PICK k \in Int : S + T = i + M * k
  BY IndexOfItem
<1>4. T + n \in 0..(M - 1)
  BY <1>1, <1>2
<1> HIDE DEF S, T
<1>5. i + n = (S + (T + n)) + M * (0 - k)
  <2>1. M * (0 - k) = 0 - M * k /\ M * k \in Int
    BY <1>1
  <2> QED BY <1>1, <1>2, <1>3, <2>1
<1>6. S + (T + n) \in Int /\ 0 - k \in Int /\ T + n \in Int /\ i + n \in Int
  BY <1>1, <1>2
<1>7. Wrap(i + n) = Wrap(S + (T + n))
  BY <1>5, <1>6, WrapIs
<1>8. Item(Wrap(i + n)) = Wrap(T + n)
  BY <1>6, <1>7, ItemIs DEF S
<1>9. Wrap(i + n) \in 0..(M - 1)
  BY <1>6, WrapIs
<1> QED BY <1>4, <1>6, <1>8, <1>9, WrapIs DEF T

(* How many blocks the elements have, when they end in block n - 1.         *)
LEMMA FilledIs ==
  ASSUME NEW t \in Int, NEW n \in Int, t <= BlockSize * n, BlockSize * n < t + BlockSize
  PROVE  (t + BlockSize - 1) \div BlockSize = n
<1> DEFINE B == BlockSize
<1>1. B \in Nat \ {0} /\ B * n \in Int
  BY Sizes
<1> HIDE DEF B
<1>2. PICK r \in Int : r = (t + B - 1) - B * n
  BY <1>1
<1>3. r \in 0..(B - 1) /\ t + B - 1 = B * n + r /\ t + B - 1 \in Int
  BY <1>1, <1>2 DEF B
<1>4. (t + B - 1) \div B = n
  BY <1>1, <1>3, Division
<1> QED BY <1>4 DEF B

(* The blocks of the call now hold elements.                                *)
LEMMA PublishPlaces ==
  ASSUME ProducerOnly, freed' = freed, NEW holds, Places(holds), NEW l \in Nat, Len(enq.got) = l,
         \A j \in 1..l : enq.got[j] \in InIndex(holds),
         enq.block \notin Blocks, \A m \in DOMAIN holds : holds[m] \in Blocks, enq' = NoEnqueue
  PROVE  Places(holds)'
<1>1. NoEnqueue.got = <<>> /\ NoEnqueue.block = NoBlock /\ Len(NoEnqueue.got) = 0 /\ NoBlock \notin Blocks
  BY NoEnqueueIs, ProducerConstants
<1>2. 1..Len(enq'.got) = {} /\ enq'.block = NoBlock
  BY <1>1
<1>3. HeldByProducer' = {NoBlock}
  BY <1>2 DEF HeldByProducer
<1>4. \A c : HeldByConsumer(c)' = HeldByConsumer(c)
  BY DoneStays
<1>5. InIndex(holds)' = InIndex(holds) /\ NoBlock \notin InIndex(holds)
  BY <1>1 DEF InIndex
<1>6. \A b \in Blocks : Used(holds, b)' <=> Used(holds, b)
  <2>1. \A b \in Blocks : b \in HeldByProducer => b \in InIndex(holds)
    BY DEF HeldByProducer
  <2> QED BY <1>1, <1>3, <1>4, <1>5, <2>1 DEF Used
<1>7. \A c \in Consumers : \A x \in HeldByConsumer(c) :
        /\ x \in Blocks /\ x \notin InIndex(holds) \union HeldByProducer
        /\ \A e \in Consumers : e # c => x \notin HeldByConsumer(e)
  BY DEF Places
<1>8. \A c \in Consumers : \A x \in HeldByConsumer(c)' :
        /\ x \in Blocks /\ x \notin InIndex(holds)' \union HeldByProducer'
        /\ \A e \in Consumers : e # c => x \notin HeldByConsumer(e)'
  BY <1>1, <1>3, <1>4, <1>5, <1>7
<1> QED BY <1>2, <1>5, <1>6, <1>8 DEF Places

LEMMA PublishKept ==
  ASSUME ClaimInv, ProducerOnly, emptied' = emptied, NEW holds, Kept(holds), CallTypes,
         Limit = Made, Limit' = Made, Filled' = Made, enq'.block \notin Blocks,
         \A j \in 1..Len(enq.got) : /\ Filled + (j - 1) \in DOMAIN holds
                                    /\ holds[Filled + (j - 1)] = enq.got[j],
         tailBlock' = IF enq.got = <<>> THEN tailBlock ELSE enq.got[Len(enq.got)]
  PROVE  Kept(holds)'
<1>1. /\ \A n : DoneOf(n)' = DoneOf(n) /\ (AllDone(n)' <=> AllDone(n))
      /\ \A c, n : Clears(c, n)' <=> Clears(c, n)
  BY DoneStays
<1>2. PICK l \in Nat : l = Len(enq.got) /\ enq.got \in Seq(Blocks) /\ Made = Filled + l
  BY CallCounts
<1>3. PICK g \in Nat : g = Filled
  BY TailIs
<1>4. \A n \in 0..(Made - 1) : AllDone(n) \/ n \in DOMAIN holds
  <2> TAKE n \in 0..(Made - 1)
  <2>1. CASE n < g
    <3>1. n \in 0..(Filled - 1)
      BY <1>2, <1>3, <2>1
    <3> QED BY <3>1 DEF Kept
  <2>2. CASE ~(n < g)
    <3>1. n - g + 1 \in 1..l /\ g + ((n - g + 1) - 1) = n
      BY <1>2, <1>3, <2>2
    <3>2. n \in DOMAIN holds
      BY <1>2, <1>3, <3>1
    <3> QED BY <3>2
  <2> QED BY <2>1, <2>2
<1>5. Made - 1 \in DOMAIN holds => tailBlock' = holds[Made - 1]
  <2>1. CASE enq.got = <<>>
    <3>1. l = 0
      BY <1>2, <2>1, EmptySeq
    <3>2. Made = Filled
      BY <1>2, <1>3, <3>1
    <3> QED BY <2>1, <3>2 DEF Kept
  <2>2. CASE enq.got # <<>>
    <3>1. l # 0
      BY <1>2, <2>2, EmptySeq
    <3>2. l \in 1..l /\ g + (l - 1) = Made - 1
      BY <1>2, <1>3, <3>1
    <3> QED BY <1>2, <1>3, <2>2, <3>2
  <2> QED BY <2>1, <2>2
<1> QED BY <1>1, <1>4, <1>5 DEF Kept

LEMMA PublishTailGoes ==
  ASSUME NEW d, NEW a, NEW f, NEW holds, LiveInv(d, a, f, holds), PublishTail
  PROVE  LiveInv(d, a, f, holds)'
<1>1. /\ ClaimInv /\ a \in Int /\ f \in Int /\ Indexes(d, a, f, holds) /\ Calls(d, holds)
      /\ CallTypes /\ Kept(holds) /\ Shape(d) /\ ~destroyed /\ Places(holds) /\ Tails(d, a, f)
      /\ load \in Loads /\ HoldsBlocks(d, a, f, holds) /\ IndexTypes
      /\ \A c \in Consumers : Looks(d, holds, c)
  BY TailIs DEF LiveInv, Calls, Indexes
<1>2. /\ enqAt = "publish" /\ enqAt' = "idle" /\ enq' = NoEnqueue
      /\ tailIndex' = Wrap(tailIndex + enq.count)
      /\ tailBlock' = IF enq.got = <<>> THEN tailBlock ELSE enq.got[Len(enq.got)]
      /\ UNCHANGED <<headIndex, dequeueOptimisticCount, dequeueOvercommit, elements, emptied, freed,
                     dqAt, dq, isExplicit, destroyed, load, idxEntries, idxHeaders>>
  BY DEF PublishTail, EnqGoto
<1>3. /\ ProducerOnly /\ load' = load /\ emptied' = emptied /\ freed' = freed
      /\ UNCHANGED <<dequeueOptimisticCount, dequeueOvercommit>> /\ UNCHANGED <<idxEntries, idxHeaders>>
  BY <1>2 DEF ProducerOnly
<1>4. /\ enqAt \notin Inserting /\ enqAt \notin Undoing /\ enqAt' \notin Inserting /\ enqAt' \notin Undoing
      /\ enqAt' \notin {"check head", "insert"} /\ enq.block \notin Blocks
      /\ \A n : n \in {"requisition", "store value", "rewind"} => n # enqAt /\ n # enqAt'
  BY <1>1, <1>2 DEF Inserting, Undoing, Calls
<1>5. PICK t \in Int : /\ t = Item(tailIndex) + enq.count /\ Item(tailIndex) <= t /\ t <= load.items
                       /\ t <= BlockSize * Made /\ BlockSize * Made < t + BlockSize
  <2>1. /\ Item(tailIndex) + enq.count <= BlockSize * Made
        /\ BlockSize * Made < Item(tailIndex) + enq.count + BlockSize
    BY <1>1, <1>2 DEF Calls
  <2>2. Item(tailIndex) \in Int /\ enq.count \in Nat /\ enq.count > 0
        /\ Item(tailIndex) + enq.count <= load.items
    BY <1>1, <1>2, CallCounts, TailIs DEF ClaimInv
  <2>3. PICK s \in Int, n \in Nat : s = Item(tailIndex) /\ n = enq.count
    BY <2>2
  <2>4. s + n \in Int /\ s <= s + n
    BY <2>3
  <2> QED BY <2>1, <2>2, <2>3, <2>4
<1>6. tailIndex' \in 0..(IndexMod - 1) /\ Item(tailIndex') = t
  <2>1. tailIndex \in 0..(IndexMod - 1) /\ enq.count \in Nat /\ load.items \in Int /\ load.items < IndexMod
        /\ IndexMod \in Nat
    BY <1>1, CallCounts, TailIs, Sizes
  <2>2. Item(tailIndex) + enq.count < IndexMod
    BY <1>5, <2>1
  <2>3. PICK n \in Nat : n = enq.count
    BY <2>1
  <2> QED BY <1>1, <1>2, <1>5, <2>1, <2>2, <2>3, ItemOfSum
<1>7. Filled' = Made
  <2>1. Item(tailIndex)' = t
    BY <1>3, <1>6 DEF Item, startIndex
  <2>2. Made \in Int
    BY <1>1, CallCounts
  <2>3. (t + BlockSize - 1) \div BlockSize = Made
    BY <1>5, <2>2, FilledIs
  <2> QED BY <2>1, <2>3 DEF Filled
<1>8. /\ NoEnqueue \in EnqueueCall /\ NoEnqueue.got = <<>> /\ NoEnqueue.block = NoBlock
      /\ Len(NoEnqueue.got) = 0
  BY NoEnqueueIs
<1>9. PICK l \in Nat, g \in Nat : /\ l = Len(enq.got) /\ g = Filled /\ Made = g + l /\ enq.got \in Seq(Blocks)
  BY <1>1, CallCounts, TailIs
<1>10. /\ Made' = Made /\ Made \in Int /\ Filled <= Made /\ Filled \in Int
  <2>1. Made' = Filled' + Len(enq'.got)
    BY DEF Made
  <2>2. Len(enq'.got) = 0
    BY <1>2, <1>8
  <2> QED BY <1>7, <1>9, <2>1, <2>2
<1>11. /\ Limit = Made /\ Limit' = Made /\ Top' = Top
  <2>1. Limit = Made /\ Top = Made - 1
    BY <1>2, <1>4 DEF Limit, Top
  <2>2. Limit' = Made /\ Top' = Made - 1
    BY <1>2, <1>4, <1>10 DEF Limit, Top
  <2> QED BY <2>1, <2>2
<1>12. Calls(d, holds)'
  <2>1. CallTypes'
    BY <1>2, <1>8 DEF CallTypes, EnqueuePlaces
  <2>2. 1..Len(enq'.got) = {}
    BY <1>2, <1>8
  <2>3. enq'.block \notin Blocks
    BY <1>2, <1>8, ProducerConstants
  <2>4. NoEnqueue' = NoEnqueue
    BY DEF NoEnqueue
  <2> QED BY <1>2, <1>4, <2>1, <2>2, <2>3, <2>4 DEF Calls
<1>13. /\ Indexes(d, a, f, holds)' /\ EntriesKept(d, d, holds)
       /\ Current' = Current /\ IndexSize(Current)' = IndexSize(Current)
       /\ \A n : SlotAt(d, Current, n)' = SlotAt(d, Current, n)
  BY <1>1, <1>3, IndexSame
<1>14. Tails(d, a, f)'
  <2>1. Header'.tail = Header.tail
    BY <1>3 DEF Header
  <2>2. SlotAt(d, Current, Top)' = SlotAt(d, Current, Top)
    BY <1>11, <1>13 DEF SlotAt
  <2>3. a <= Filled' + IndexSize(Current)' /\ f <= Filled'
    <3>1. IndexSize(Current) \in Int
      BY <1>1, CurrentIs, CapacityIs
    <3>2. a <= Filled + IndexSize(Current) /\ f <= Filled
      BY <1>1 DEF Tails
    <3> QED BY <1>1, <1>7, <1>10, <1>13, <3>1, <3>2
  <2>4. Top' < a
    BY <1>1, <1>11 DEF Tails
  <2>5. \A e \in 1..Len(idxEntries') :
          idxEntries'[e].value = Uninitialized => idxEntries'[e].key = InvalidBlockBase
    BY <1>1, <1>3, <1>4 DEF Tails
  <2> QED BY <1>1, <1>4, <1>11, <2>1, <2>2, <2>3, <2>4, <2>5 DEF Tails, InvalidBlockBase, Uninitialized
<1>15. \A j \in 1..Len(enq.got) : Filled + (j - 1) \in DOMAIN holds /\ holds[Filled + (j - 1)] = enq.got[j]
  <2>1. Undone = 0
    BY <1>2 DEF Undone
  <2>2. \A j \in 1..Len(enq.got) : ~(j <= Undone)
    BY <1>9, <2>1
  <2> QED BY <1>1, <2>2 DEF Calls
<1>16. enq'.block \notin Blocks
  BY <1>2, <1>8, ProducerConstants
<1>17. Kept(holds)'
  BY <1>1, <1>2, <1>3, <1>7, <1>11, <1>15, <1>16, PublishKept
<1>18. Places(holds)'
  <2>1. \A j \in 1..l : enq.got[j] \in InIndex(holds)
    BY <1>9, <1>15 DEF InIndex
  <2>2. \A m \in DOMAIN holds : holds[m] \in Blocks
    BY <1>1 DEF HoldsBlocks
  <2> QED BY <1>1, <1>2, <1>3, <1>4, <1>9, <2>1, <2>2, PublishPlaces
<1>19. ASSUME NEW c \in Consumers PROVE Looks(d, holds, c)'
  BY <1>1, <1>3, <1>13, LooksStay
<1>20. ClaimInv'
  <2>1. Item(tailIndex) <= Item(tailIndex') /\ Item(tailIndex') <= load.items
    BY <1>5, <1>6
  <2> QED BY <1>1, <1>2, <1>3, <1>6, <2>1, ProducerClaims
<1>21. ~destroyed'
  BY <1>1, <1>3 DEF ProducerOnly
<1> QED BY <1>1, <1>12, <1>13, <1>14, <1>17, <1>18, <1>19, <1>20, <1>21 DEF LiveInv

(* Any step of the producer.                                                *)
LEMMA EnqueueGoes ==
  ASSUME NEW d, NEW a, NEW f, NEW holds, LiveInv(d, a, f, holds), EnqueueStep
  PROVE  \E D, A, F, more : LiveInv(D, A, F, more)'
<1>1. CASE CheckHead
  BY <1>1, CheckHeadGoes
<1>2. CASE InsertEntry
  BY <1>2, InsertEntryGoes
<1>3. CASE StoreIndexTail
  BY <1>3, StoreIndexTailGoes
<1>4. CASE NewBlockIndex
  BY <1>4, NewBlockIndexGoes
<1>5. CASE NoBlockIndex
  BY <1>5, NoBlockIndexGoes
<1>6. CASE RequisitionBlock
  BY <1>6, RequisitionBlockGoes
<1>7. CASE NoBlockAvailable
  BY <1>7, NoBlockAvailableGoes
<1>8. CASE StoreValue
  BY <1>8, StoreValueGoes
<1>9. CASE RewindTail
  BY <1>9, RewindTailGoes
<1>10. CASE NullValue
  BY <1>10, NullValueGoes
<1>11. CASE UndoValue
  BY <1>11, UndoValueGoes
<1>12. CASE FreeBlocks
  BY <1>12, FreeBlocksGoes
<1>13. CASE Fill
  BY <1>13, FillGoes
<1>14. CASE PublishTail
  BY <1>14, PublishTailGoes
<1> QED BY <1>1, <1>2, <1>3, <1>4, <1>5, <1>6, <1>7, <1>8, <1>9, <1>10, <1>11, <1>12, <1>13, <1>14
     DEF EnqueueStep

-----------------------------------------------------------------------------
(* Steps of consumers.                                                      *)
ConsumerOnly == UNCHANGED <<tailIndex, tailBlock, isExplicit, load, destroyed, enqAt, enq, idxHeaders>>
OthersStay(c) == \A e \in Consumers : e # c => dqAt'[e] = dqAt[e] /\ dq'[e] = dq[e]

LEMMA OthersSame ==
  ASSUME NEW c \in Consumers, ConsumerOnly, OthersStay(c), NEW e \in Consumers, e # c
  PROVE  /\ dqAt'[e] = dqAt[e] /\ dq'[e] = dq[e]
         /\ First(e)' = First(e) /\ Beyond(e)' = Beyond(e) /\ Number(e)' = Number(e) /\ Stop(e)' = Stop(e)
         /\ Pending(e)' = Pending(e) /\ HeldByConsumer(e)' = HeldByConsumer(e)
         /\ \A n : Clears(e, n)' <=> Clears(e, n)
<1>1. dqAt'[e] = dqAt[e] /\ dq'[e] = dq[e] /\ load' = load
  BY DEF OthersStay, ConsumerOnly
<1>2. First(e)' = First(e) /\ Beyond(e)' = Beyond(e) /\ Number(e)' = Number(e) /\ Stop(e)' = Stop(e)
  BY <1>1 DEF First, Beyond, Number, Stop, Item, startIndex
<1> QED BY <1>1, <1>2 DEF Pending, HeldByConsumer, Clears

LEMMA ViewSame ==
  ASSUME ConsumerOnly
  PROVE  /\ Current' = Current /\ Header' = Header
         /\ \A h : IndexSize(h)' = IndexSize(h)
         /\ \A h, s : EntryAt(h, s)' = EntryAt(h, s)
         /\ \A d, h, n : SlotAt(d, h, n)' = SlotAt(d, h, n)
         /\ \A d, n : EntryOf(d, n)' = EntryOf(d, n)
         /\ \A d, h, n : Finds(d, h, n)' <=> Finds(d, h, n)
<1>1. idxHeaders' = idxHeaders
  BY DEF ConsumerOnly
<1>2. Current' = Current /\ Header' = Header /\ (\A h : IndexSize(h)' = IndexSize(h))
  BY <1>1 DEF Current, Header, IndexSize
<1>3. /\ \A h, s : EntryAt(h, s)' = EntryAt(h, s)
      /\ \A d, h, n : SlotAt(d, h, n)' = SlotAt(d, h, n)
  BY <1>1, <1>2 DEF EntryAt, SlotAt
<1>4. \A d, n : EntryOf(d, n)' = EntryOf(d, n)
  BY <1>1, <1>2, <1>3 DEF EntryOf, EntryAt
<1>5. \A d, h, n : Finds(d, h, n)' <=> Finds(d, h, n)
  BY <1>1, <1>3, <1>4 DEF Finds, EntryAt
<1> QED BY <1>2, <1>3, <1>4, <1>5

LEMMA ProducerSame ==
  ASSUME ConsumerOnly
  PROVE  /\ Item(tailIndex)' = Item(tailIndex) /\ Filled' = Filled /\ Made' = Made /\ Limit' = Limit
         /\ Top' = Top /\ Undone' = Undone /\ BaseOf(Made)' = BaseOf(Made)
         /\ HeldByProducer' = HeldByProducer
         /\ CallTypes => CallTypes'
<1>1. tailIndex' = tailIndex /\ load' = load /\ enqAt' = enqAt /\ enq' = enq
  BY DEF ConsumerOnly
<1>2. Item(tailIndex)' = Item(tailIndex)
  BY <1>1 DEF Item, startIndex
<1>3. Filled' = Filled
  BY <1>2 DEF Filled
<1>4. Made' = Made
  BY <1>1, <1>3 DEF Made
<1>5. Limit' = Limit
  BY <1>1, <1>3, <1>4 DEF Limit
<1>6. Top' = Top /\ Undone' = Undone
  BY <1>1, <1>4, <1>5 DEF Top, Undone
<1>7. BaseOf(Made)' = BaseOf(Made)
  BY <1>1, <1>4 DEF BaseOf, startIndex
<1>8. HeldByProducer' = HeldByProducer /\ (CallTypes => CallTypes')
  BY <1>1 DEF HeldByProducer, CallTypes
<1> QED BY <1>2, <1>3, <1>4, <1>5, <1>6, <1>7, <1>8

(* What another consumer knows stays true.                                  *)
LEMMA OtherLooks ==
  ASSUME NEW c \in Consumers, ConsumerOnly, OthersStay(c), NEW e \in Consumers, e # c,
         NEW d, NEW holds, NEW Holds, Looks(d, holds, e),
         Shape(d),
         \A g \in 1..Len(idxEntries) :
           idxEntries[g].key # InvalidBlockBase => idxEntries'[g].key # InvalidBlockBase,
         dqAt[e] \in {"move out", "set empty", "clear entry"} => Holds[Number(e)] = holds[Number(e)],
         dqAt[e] = "clear entry" =>
           /\ Number(e) \in DOMAIN Holds /\ AllDone(Number(e))'
           /\ \A x \in Consumers : Clears(x, Number(e))' => x = e
  PROVE  Looks(d, Holds, e)'
<1>1. /\ dqAt'[e] = dqAt[e] /\ dq'[e] = dq[e] /\ Number(e)' = Number(e) /\ Pending(e)' = Pending(e)
  BY OthersSame
<1>2. PICK h : h = dq[e].header
  OBVIOUS
<1>3. /\ Current' = Current /\ IndexSize(h)' = IndexSize(h)
      /\ \A s : EntryAt(h, s)' = EntryAt(h, s)
      /\ \A n : SlotAt(d, h, n)' = SlotAt(d, h, n)
      /\ \A n : Finds(d, h, n)' <=> Finds(d, h, n)
  BY ViewSame
<1>4. dqAt'[e] \in (Holding \union Leaving) \ {"load index"} =>
        h \in 1..Current' /\ \A k \in Pending(e)' : Finds(d, h, k \div BlockSize)'
  BY <1>1, <1>2, <1>3 DEF Looks
<1>5. dqAt'[e] = "load tail base" =>
        /\ dq'[e].slot \in 0..(IndexSize(h)' - 1)
        /\ idxEntries'[EntryAt(h, dq[e].slot)'].key # InvalidBlockBase
  <2> SUFFICES ASSUME dqAt[e] = "load tail base"
               PROVE  /\ dq[e].slot \in 0..(IndexSize(h) - 1)
                      /\ idxEntries'[EntryAt(h, dq[e].slot)].key # InvalidBlockBase
    BY <1>1, <1>3 DEF EntryAt
  <2>1. /\ dq[e].slot \in 0..(IndexSize(h) - 1)
        /\ idxEntries[EntryAt(h, dq[e].slot)].key # InvalidBlockBase
    BY <1>2 DEF Looks
  <2>2. h \in 1..Current
    BY <1>2 DEF Looks, Holding
  <2>3. EntryAt(h, dq[e].slot) \in 1..Len(idxEntries)
    BY <2>1, <2>2 DEF Shape
  <2> QED BY <2>1, <2>3
<1>6. dqAt'[e] \in {"load block", "move out", "set empty"} \union Leaving =>
        dq'[e].slot = SlotAt(d, h, Number(e))'
  BY <1>1, <1>2, <1>3 DEF Looks
<1>7. dqAt'[e] \in {"move out", "set empty"} => dq'[e].block = Holds[Number(e)']
  BY <1>1 DEF Looks
<1>8. dqAt'[e] = "clear entry" =>
        /\ Number(e)' \in DOMAIN Holds /\ dq'[e].block = Holds[Number(e)']
        /\ Finds(d, h, Number(e))' /\ AllDone(Number(e))'
        /\ \A x \in Consumers : Clears(x, Number(e))' => x = e
  BY <1>1, <1>2, <1>3 DEF Looks
<1> QED BY <1>1, <1>2, <1>3, <1>4, <1>5, <1>6, <1>7, <1>8 DEF Looks

(* A step of a consumer that writes no value leaves the producer's part.    *)
LEMMA IndexIdle ==
  ASSUME ConsumerOnly, idxEntries' = idxEntries, NEW d, NEW a \in Int, NEW f, NEW holds,
         Indexes(d, a, f, holds), Tails(d, a, f), Calls(d, holds)
  PROVE  Indexes(d, a, f, holds)' /\ Tails(d, a, f)' /\ Calls(d, holds)'
<1>1. load' = load /\ idxHeaders' = idxHeaders /\ enqAt' = enqAt /\ enq' = enq
  BY DEF ConsumerOnly
<1>2. Indexes(d, a, f, holds)'
  BY <1>1, IndexSame
<1>3. /\ Current' = Current /\ Header' = Header
      /\ \A h : IndexSize(h)' = IndexSize(h)
      /\ \A h, n : SlotAt(d, h, n)' = SlotAt(d, h, n)
      /\ \A n : EntryOf(d, n)' = EntryOf(d, n)
  BY ViewSame
<1>4. /\ Item(tailIndex)' = Item(tailIndex) /\ Filled' = Filled /\ Made' = Made /\ Limit' = Limit
      /\ Top' = Top /\ Undone' = Undone /\ BaseOf(Made)' = BaseOf(Made)
      /\ CallTypes => CallTypes'
  BY ProducerSame
<1>5. SlotAt(d, Current, Top)' = SlotAt(d, Current, Top) /\ SlotAt(d, Current, Made)' = SlotAt(d, Current, Made)
      /\ EntryOf(d, Made)' = EntryOf(d, Made) /\ ValueOf(d, Made)' = ValueOf(d, Made)
  BY <1>3, <1>4 DEF SlotAt, EntryOf, EntryAt, ValueOf
<1>6. IndexSize(Current)' = IndexSize(Current)
  BY <1>3 DEF IndexSize
<1>7. Tails(d, a, f)'
  BY <1>1, <1>3, <1>4, <1>5, <1>6 DEF Tails
<1>8. NoEnqueue' = NoEnqueue
  BY DEF NoEnqueue
<1>9. Calls(d, holds)'
  BY <1>1, <1>4, <1>5, <1>8 DEF Calls
<1> QED BY <1>2, <1>7, <1>9

NotLeaving(c) == dqAt[c] \notin Leaving

(* A step of a consumer that is at no block it leaves.                      *)
LEMMA ConsumerGoes ==
  ASSUME NEW d, NEW a, NEW f, NEW holds, LiveInv(d, a, f, holds), NEW c \in Consumers, ConsumerOnly,
         OthersStay(c), UNCHANGED <<emptied, freed, idxEntries>>, ClaimInv',
         \A k \in Int : Done(k)' <=> Done(k),
         NotLeaving(c), NotLeaving(c)', Looks(d, holds, c)'
  PROVE  LiveInv(d, a, f, holds)'
<1>1. /\ ClaimInv /\ a \in Int /\ f \in Int /\ Indexes(d, a, f, holds) /\ Calls(d, holds)
      /\ Kept(holds) /\ ~destroyed /\ Places(holds) /\ Tails(d, a, f) /\ Shape(d)
      /\ \A e \in Consumers : Looks(d, holds, e)
  BY DEF LiveInv, Indexes
<1>2. Indexes(d, a, f, holds)' /\ Tails(d, a, f)' /\ Calls(d, holds)'
  BY <1>1, IndexIdle
<1>3. /\ \A e \in Consumers : \A n : Clears(e, n)' <=> Clears(e, n)
      /\ \A e \in Consumers : HeldByConsumer(e)' = HeldByConsumer(e)
  <2>1. \A n : ~Clears(c, n) /\ ~Clears(c, n)'
    BY DEF NotLeaving, Leaving, Clears
  <2>2. HeldByConsumer(c) = {} /\ HeldByConsumer(c)' = {}
    BY DEF NotLeaving, Leaving, HeldByConsumer
  <2>3. \A e \in Consumers : e # c => (\A n : Clears(e, n)' <=> Clears(e, n))
                                       /\ HeldByConsumer(e)' = HeldByConsumer(e)
    BY OthersSame
  <2> QED BY <2>1, <2>2, <2>3
<1>4. \A n \in Int : DoneOf(n)' = DoneOf(n) /\ (AllDone(n)' <=> AllDone(n))
  <2> TAKE n \in Int
  <2>1. \A k \in ItemsOf(n) : k \in Int
    BY ItemsIs
  <2>2. ItemsOf(n)' = ItemsOf(n)
    BY DEF ItemsOf
  <2> QED BY <2>1, <2>2 DEF DoneOf, AllDone
<1>5. /\ Filled' = Filled /\ Limit' = Limit /\ HeldByProducer' = HeldByProducer
      /\ enq' = enq /\ tailBlock' = tailBlock /\ destroyed' = destroyed
  BY ProducerSame DEF ConsumerOnly
<1>6. Kept(holds)'
  <2>1. \A n \in DOMAIN holds : n \in Int
    BY <1>1 DEF Kept
  <2>2. Filled \in Int
    BY <1>1, TailIs
  <2>3. \A n \in 0..(Filled - 1) : n \in Int
    BY <2>2
  <2> QED BY <1>1, <1>3, <1>4, <1>5, <2>1, <2>3 DEF Kept
<1>7. Places(holds)'
  <2>1. InIndex(holds)' = InIndex(holds)
    BY DEF InIndex
  <2>2. \A b : Used(holds, b)' <=> Used(holds, b)
    BY <1>3, <1>5, <2>1 DEF Used
  <2> QED BY <1>1, <1>3, <1>5, <2>1, <2>2 DEF Places
<1>8. ASSUME NEW e \in Consumers PROVE Looks(d, holds, e)'
  <2>1. CASE e = c
    BY <2>1
  <2>2. CASE e # c
    <3>1. ASSUME dqAt[e] = "clear entry"
          PROVE  /\ Number(e) \in DOMAIN holds /\ AllDone(Number(e))'
                 /\ \A x \in Consumers : Clears(x, Number(e))' => x = e
      <4>1. /\ Number(e) \in DOMAIN holds /\ AllDone(Number(e))
            /\ \A x \in Consumers : Clears(x, Number(e)) => x = e
        BY <1>1, <3>1 DEF Looks
      <4>2. Number(e) \in Int
        BY <1>1, <4>1 DEF Kept
      <4>3. Number(e)' = Number(e)
        BY <2>2, OthersSame
      <4>4. AllDone(Number(e))'
        BY <1>4, <4>1, <4>2, <4>3 DEF AllDone, ItemsOf
      <4> QED BY <1>3, <4>1, <4>3, <4>4 DEF Clears
    <3> QED BY <1>1, <2>2, <3>1, OtherLooks
  <2> QED BY <2>1, <2>2
<1> QED BY <1>1, <1>2, <1>5, <1>6, <1>7, <1>8 DEF LiveInv

LEMMA GotoIs ==
  ASSUME ClaimInv, NEW c \in Consumers, NEW at, NEW local, DqGoto(c, at, local)
  PROVE  dqAt'[c] = at /\ dq'[c] = local /\ OthersStay(c)
<1>1. PICK U : dq \in [Consumers -> DqLocals(U)]
  BY DEF ClaimInv, ClaimTypes
<1>2. dqAt \in [Consumers -> Claiming \union Holding \union Leaving]
  BY DEF ClaimInv, ClaimTypes
<1> QED BY <1>1, <1>2 DEF DqGoto, OthersStay

(* A consumer that has nothing looks for nothing.                           *)
LEMMA ClaimingLooks ==
  ASSUME NEW c \in Consumers, NEW d, NEW holds, dqAt'[c] \in Claiming \union {"load index"}
  PROVE  Looks(d, holds, c)' /\ NotLeaving(c)'
BY DEF Looks, Claiming, Holding, Leaving, NotLeaving

LEMMA ClaimsOn ==
  ASSUME NEW c \in Consumers,
         LoadTail(c) \/ LoadOvercommit(c) \/ LoadOptimistic(c) \/ ClaimCount(c) \/ ReloadTail(c) \/ GiveBack(c)
  PROVE  /\ dqAt[c] \in Claiming
         /\ \E at \in Claiming : \E local : DqGoto(c, at, local)
         /\ headIndex' = headIndex /\ tailIndex' = tailIndex
<1>1. CASE LoadTail(c)
  BY <1>1 DEF LoadTail, Claiming, counterVars
<1>2. CASE LoadOvercommit(c)
  BY <1>2 DEF LoadOvercommit, Claiming, counterVars
<1>3. CASE LoadOptimistic(c)
  BY <1>3 DEF LoadOptimistic, Claiming, counterVars
<1>4. CASE ClaimCount(c)
  BY <1>4 DEF ClaimCount, Claiming
<1>5. CASE ReloadTail(c)
  BY <1>5 DEF ReloadTail, Claiming, counterVars
<1>6. CASE GiveBack(c)
  BY <1>6 DEF GiveBack, Claiming
<1> QED BY <1>1, <1>2, <1>3, <1>4, <1>5, <1>6

LEMMA ClaimsGoes ==
  ASSUME NEW d, NEW a, NEW f, NEW holds, LiveInv(d, a, f, holds), ClaimsCovered, NEW c \in Consumers,
         Claims(c), UNCHANGED <<idxEntries, idxHeaders, enqAt, enq>>
  PROVE  LiveInv(d, a, f, holds)'
<1>1. ClaimInv
  BY DEF LiveInv
<1>2. /\ UNCHANGED <<tailBlock, elements, emptied, freed, isExplicit, destroyed, load>>
      /\ UNCHANGED <<isExplicit, load, enqAt, enq>>
      /\ \/ LoadTail(c) \/ LoadOvercommit(c) \/ LoadOptimistic(c) \/ ClaimCount(c)
         \/ ReloadTail(c) \/ GiveBack(c) \/ TakeIndex(c)
  BY DEF Claims
<1>3. CASE TakeIndex(c)
  <2>1. ClaimInv' /\ \A k \in Int : Done(k)' <=> Done(k)
    BY <1>1, <1>2, <1>3, TakeIndexClaims
  <2>2. \E local : DqGoto(c, "load index", local)
    BY <1>3 DEF TakeIndex
  <2>3. dqAt'[c] = "load index" /\ OthersStay(c)
    BY <1>1, <2>2, GotoIs
  <2>4. Looks(d, holds, c)' /\ NotLeaving(c)'
    BY <2>3, ClaimingLooks
  <2>5. NotLeaving(c) /\ tailIndex' = tailIndex
    BY <1>3 DEF TakeIndex, NotLeaving, Leaving
  <2>6. ConsumerOnly
    BY <1>2, <2>5 DEF ConsumerOnly
  <2> QED BY <1>2, <2>1, <2>3, <2>4, <2>5, <2>6, ConsumerGoes
<1>4. CASE LoadTail(c) \/ LoadOvercommit(c) \/ LoadOptimistic(c) \/ ClaimCount(c) \/ ReloadTail(c) \/ GiveBack(c)
  <2>1. ClaimInv'
    BY <1>1, <1>2, <1>4, LoadTailClaims, LoadOvercommitClaims, LoadOptimisticClaims, ClaimCountClaims,
       ReloadTailClaims, GiveBackClaims
  <2>2. /\ dqAt[c] \in Claiming /\ headIndex' = headIndex /\ tailIndex' = tailIndex
        /\ \E at \in Claiming : \E local : DqGoto(c, at, local)
    BY <1>4, ClaimsOn
  <2>3. dqAt'[c] \in Claiming /\ OthersStay(c)
    BY <1>1, <2>2, GotoIs
  <2>4. Looks(d, holds, c)' /\ NotLeaving(c)'
    BY <2>3, ClaimingLooks
  <2>5. NotLeaving(c)
    BY <2>2 DEF NotLeaving, Leaving, Claiming
  <2>6. ConsumerOnly
    BY <1>2, <2>2 DEF ConsumerOnly
  <2>7. Pending(c) = {} /\ Pending(c)' = {}
    BY <2>2, <2>3 DEF Pending, Claiming, Holding, Leaving
  <2>8. \A e \in Consumers : Pending(e)' = Pending(e)
    BY <2>3, <2>6, <2>7, OthersSame
  <2>9. Item(headIndex)' = Item(headIndex)
    BY <1>2, <2>2 DEF Item, startIndex
  <2>10. \A k \in Int : Done(k)' <=> Done(k)
    BY <2>8, <2>9 DEF Done
  <2> QED BY <1>2, <2>1, <2>3, <2>4, <2>5, <2>6, <2>10, ConsumerGoes
<1> QED BY <1>2, <1>3, <1>4

WithHeader(x, v) == [x EXCEPT !.header = v]
WithSlot(x, v) == [x EXCEPT !.slot = v]
WithBlock(x, v) == [x EXCEPT !.block = v]

LEMMA LocalNoted ==
  ASSUME NEW U, NEW x \in DqLocals(U), NEW v, NEW y
  PROVE  /\ y = WithHeader(x, v) =>
              /\ y \in DqLocals(U \union {v}) /\ y.header = v /\ y.slot = x.slot /\ y.block = x.block
              /\ y.index = x.index /\ y.end = x.end
         /\ y = WithSlot(x, v) =>
              /\ y \in DqLocals(U \union {v}) /\ y.header = x.header /\ y.slot = v /\ y.block = x.block
              /\ y.index = x.index /\ y.end = x.end
         /\ y = WithBlock(x, v) =>
              /\ y \in DqLocals(U \union {v}) /\ y.header = x.header /\ y.slot = x.slot /\ y.block = v
              /\ y.index = x.index /\ y.end = x.end
<1>1. x \in DqLocals(U \union {v}) /\ v \in U \union {v}
  BY LocalsGrow
<1> DEFINE W == U \union {v}
<1>2. x \in DqLocals(W) /\ v \in W
  BY <1>1
<1> HIDE DEF W
<1>3. ASSUME y = WithHeader(x, v)
      PROVE  /\ y \in DqLocals(W) /\ y.header = v /\ y.slot = x.slot /\ y.block = x.block
             /\ y.index = x.index /\ y.end = x.end
  BY <1>2, <1>3 DEF DqLocals, WithHeader
<1>4. ASSUME y = WithSlot(x, v)
      PROVE  /\ y \in DqLocals(W) /\ y.header = x.header /\ y.slot = v /\ y.block = x.block
             /\ y.index = x.index /\ y.end = x.end
  BY <1>2, <1>4 DEF DqLocals, WithSlot
<1>5. ASSUME y = WithBlock(x, v)
      PROVE  /\ y \in DqLocals(W) /\ y.header = x.header /\ y.slot = x.slot /\ y.block = v
             /\ y.index = x.index /\ y.end = x.end
  BY <1>2, <1>5 DEF DqLocals, WithBlock
<1> QED BY <1>3, <1>4, <1>5 DEF W

(* A consumer that only looks.                                              *)
OnlyLooks == UNCHANGED <<counterVars, tailBlock, isExplicit, load, destroyed, enqAt, enq, idxHeaders,
                         emptied, freed, idxEntries>>

LEMMA LookingIs ==
  ASSUME ClaimInv, NEW c \in Consumers, NEW at \in Holding, dqAt[c] \in Holding, NEW V,
         NEW local \in DqLocals(V), DqGoto(c, at, local), local.index = dq[c].index, local.end = dq[c].end,
         OnlyLooks
  PROVE  /\ ClaimInv' /\ dqAt'[c] = at /\ dq'[c] = local /\ OthersStay(c) /\ ConsumerOnly
         /\ Pending(c)' = Pending(c) /\ Number(c)' = Number(c)
         /\ \A k \in Int : Done(k)' <=> Done(k)
         /\ UNCHANGED <<emptied, freed, idxEntries>>
         /\ NotLeaving(c) /\ NotLeaving(c)'
<1>1. at \in Holding \union Leaving /\ dqAt[c] \in Holding \union Leaving
  OBVIOUS
<1>2. UNCHANGED <<counterVars, isExplicit, load, enqAt, enq>>
  BY DEF OnlyLooks
<1>3. /\ ClaimInv' /\ dqAt'[c] = at /\ dq'[c] = local
      /\ \A e \in Consumers : e # c => dqAt'[e] = dqAt[e] /\ dq'[e] = dq[e]
      /\ Pending(c)' = Pending(c) /\ Number(c)' = Number(c)
      /\ \A k : Done(k)' <=> Done(k)
  BY <1>1, <1>2, HoldsOn
<1>4. ConsumerOnly
  BY DEF OnlyLooks, ConsumerOnly, counterVars
<1>5. NotLeaving(c) /\ NotLeaving(c)'
  BY <1>3 DEF NotLeaving, Holding, Leaving
<1> QED BY <1>3, <1>4, <1>5 DEF OthersStay, OnlyLooks

LEMMA LoadBlockIndexGoes ==
  ASSUME NEW d, NEW a, NEW f, NEW holds, LiveInv(d, a, f, holds), NEW c \in Consumers,
         LoadBlockIndex(c), OnlyLooks
  PROVE  LiveInv(d, a, f, holds)'
<1>1. ClaimInv /\ IndexTypes
  BY DEF LiveInv, Indexes
<1>2. PICK U : dq \in [Consumers -> DqLocals(U)]
  BY <1>1 DEF ClaimInv, ClaimTypes
<1>3. PICK local : local = WithHeader(dq[c], Current)
  OBVIOUS
<1>4. /\ local \in DqLocals(U \union {Current}) /\ local.header = Current
      /\ local.index = dq[c].index /\ local.end = dq[c].end
  <2>1. dq[c] \in DqLocals(U)
    BY <1>2
  <2>2. local = WithHeader(dq[c], Current)
    BY <1>3
  <2>3. /\ local \in DqLocals(U \union {Current}) /\ local.header = Current /\ local.slot = dq[c].slot /\ local.block = dq[c].block
        /\ local.index = dq[c].index /\ local.end = dq[c].end
    BY <2>1, <2>2, LocalNoted
  <2> QED BY <1>3, <2>3
<1>5. dqAt[c] = "load index" /\ DqGoto(c, "load index tail", local)
  BY <1>3 DEF LoadBlockIndex, Current, WithHeader
<1>6. "load index tail" \in Holding /\ dqAt[c] \in Holding
  BY <1>5 DEF Holding
<1>7. /\ ClaimInv' /\ dqAt'[c] = "load index tail" /\ dq'[c] = local /\ OthersStay(c) /\ ConsumerOnly
      /\ \A k \in Int : Done(k)' <=> Done(k)
      /\ UNCHANGED <<emptied, freed, idxEntries>>
      /\ NotLeaving(c) /\ NotLeaving(c)'
  BY <1>1, <1>4, <1>5, <1>6, LookingIs
<1>8. Looks(d, holds, c)'
  <2>1. Current' = Current /\ Current \in 1..Current
    BY <1>1, <1>7, CurrentIs, ViewSame
  <2>2. \A k \in Pending(c)' : Finds(d, Current, k \div BlockSize)
    BY DEF Finds, EntryOf
  <2>3. \A k \in Pending(c)' : Finds(d, dq[c].header, k \div BlockSize)'
    BY <1>4, <1>7, <2>1, <2>2, ViewSame DEF Finds, EntryAt, SlotAt, IndexSize, EntryOf
  <2> QED BY <1>4, <1>7, <2>1, <2>3 DEF Looks, Leaving
<1> QED BY <1>7, <1>8, ConsumerGoes

LEMMA MoveOutGoes ==
  ASSUME NEW d, NEW a, NEW f, NEW holds, LiveInv(d, a, f, holds), NEW c \in Consumers,
         MoveOut(c), OnlyLooks
  PROVE  LiveInv(d, a, f, holds)'
<1>1. ClaimInv /\ Looks(d, holds, c)
  BY DEF LiveInv
<1>2. PICK U : dq \in [Consumers -> DqLocals(U)]
  BY <1>1 DEF ClaimInv, ClaimTypes
<1>3. PICK local : local = dq[c] /\ local \in DqLocals(U)
  BY <1>2
<1>4. dqAt[c] = "move out" /\ DqGoto(c, "set empty", local)
  BY <1>3 DEF MoveOut
<1>5. "set empty" \in Holding /\ dqAt[c] \in Holding
  BY <1>4 DEF Holding
<1>6. /\ ClaimInv' /\ dqAt'[c] = "set empty" /\ dq'[c] = local /\ OthersStay(c) /\ ConsumerOnly
      /\ Pending(c)' = Pending(c) /\ Number(c)' = Number(c)
      /\ \A k \in Int : Done(k)' <=> Done(k)
      /\ UNCHANGED <<emptied, freed, idxEntries>>
      /\ NotLeaving(c) /\ NotLeaving(c)'
  BY <1>1, <1>3, <1>4, <1>5, LookingIs
<1>7. PICK h : h = dq[c].header
  OBVIOUS
<1>8. /\ Current' = Current /\ \A n : SlotAt(d, h, n)' = SlotAt(d, h, n)
      /\ \A n : Finds(d, h, n)' <=> Finds(d, h, n)
  BY <1>6, ViewSame
<1>9. /\ h \in 1..Current /\ \A k \in Pending(c) : Finds(d, h, k \div BlockSize)
      /\ dq[c].slot = SlotAt(d, h, Number(c)) /\ dq[c].block = holds[Number(c)]
  BY <1>1, <1>4, <1>7 DEF Looks, Holding, Leaving
<1>10. Looks(d, holds, c)'
  <2>1. dqAt'[c] \notin Leaving
    BY <1>6 DEF Leaving
  <2>2. SlotAt(d, h, Number(c))' = SlotAt(d, h, Number(c))
    BY <1>6, <1>8 DEF SlotAt
  <2>3. \A k \in Pending(c)' : Finds(d, h, k \div BlockSize)'
    BY <1>6, <1>8, <1>9 DEF Finds, EntryAt, EntryOf
  <2> QED BY <1>3, <1>6, <1>7, <1>8, <1>9, <2>1, <2>2, <2>3 DEF Looks
<1> QED BY <1>6, <1>10, ConsumerGoes

(* What a consumer that has loaded the index knows of it.                   *)
LEMMA LooksAt ==
  ASSUME ClaimInv, NEW d, NEW holds, NEW c \in Consumers, Looks(d, holds, c), IndexTypes,
         dqAt[c] \in Holding, dqAt[c] # "load index", NEW h, h = dq[c].header
  PROVE  /\ h \in 1..Current /\ \A k \in Pending(c) : Finds(d, h, k \div BlockSize)
         /\ IndexSize(h) \in Nat \ {0} /\ DOMAIN idxHeaders[h].index = 0..(IndexSize(h) - 1)
<1>1. h \in 1..Current /\ \A k \in Pending(c) : Finds(d, h, k \div BlockSize)
  BY DEF Looks
<1> QED BY <1>1, CapacityIs

(* A consumer still finds the entries after it has looked.                  *)
LEMMA FindsOn ==
  ASSUME ConsumerOnly, NEW c \in Consumers, NEW d, NEW h, Pending(c)' = Pending(c), Number(c)' = Number(c),
         h \in 1..Current, \A k \in Pending(c) : Finds(d, h, k \div BlockSize)
  PROVE  /\ h \in 1..Current' /\ \A k \in Pending(c)' : Finds(d, h, k \div BlockSize)'
         /\ SlotAt(d, h, Number(c))' = SlotAt(d, h, Number(c))
         /\ IndexSize(h)' = IndexSize(h) /\ \A s : EntryAt(h, s)' = EntryAt(h, s)
<1>1. /\ Current' = Current /\ IndexSize(h)' = IndexSize(h) /\ \A s : EntryAt(h, s)' = EntryAt(h, s)
      /\ \A n : SlotAt(d, h, n)' = SlotAt(d, h, n)
      /\ \A n : Finds(d, h, n)' <=> Finds(d, h, n)
  BY ViewSame
<1>2. SlotAt(d, h, Number(c))' = SlotAt(d, h, Number(c))
  BY <1>1 DEF SlotAt
<1>3. \A k \in Pending(c)' : Finds(d, h, k \div BlockSize)'
  BY <1>1 DEF Finds, EntryAt, EntryOf
<1> QED BY <1>1, <1>2, <1>3

(* The block the tail of the current index is at is in the window, with its *)
(* key, as long as a consumer has elements to find.                         *)
LEMMA TailHasKey ==
  ASSUME NEW d, NEW a, NEW f, NEW holds, LiveInv(d, a, f, holds), NEW n \in DOMAIN holds, n < Filled
  PROVE  Top \in Int /\ Top \in Window(a) /\ KeyOf(d, Top) = BaseOf(Top) /\ Top < a
<1>1. /\ ClaimInv /\ a \in Int /\ f \in Int /\ CallTypes /\ Calls(d, holds) /\ Tails(d, a, f)
      /\ KeysUpTo(d, a, f) /\ HoldsBlocks(d, a, f, holds) /\ IndexTypes
  BY DEF LiveInv, Calls, Indexes
<1>2. /\ Len(enq.got) \in Nat /\ Made = Filled + Len(enq.got) /\ Filled \in Nat /\ Made \in Int
      /\ IndexSize(Current) \in Nat \ {0} /\ Top \in Int /\ enq.undo \in Nat
  BY <1>1, CallCounts, TailIs, CurrentIs, CapacityIs
<1>3. Filled - 1 <= Top
  <2>1. CASE enqAt \in {"requisition", "store value", "rewind"}
    <3>1. Top = Made
      BY <2>1 DEF Top
    <3> QED BY <1>2, <3>1
  <2>2. CASE enqAt \in Undoing
    <3>1. Top = Made - enq.undo
      BY <2>2 DEF Top, Undoing
    <3>2. enq.undo \in 1..Len(enq.got)
      BY <1>1, <2>2 DEF Calls
    <3> QED BY <1>2, <3>1, <3>2
  <2>3. CASE enqAt \notin Undoing /\ enqAt \notin {"requisition", "store value", "rewind"}
    <3>1. Top = Limit - 1
      BY <2>3 DEF Top
    <3>2. Limit = Filled \/ Limit = Made
      BY DEF Limit
    <3> QED BY <1>2, <3>1, <3>2
  <2> QED BY <2>1, <2>2, <2>3
<1>4. n \in Window(a) /\ n >= f
  BY <1>1 DEF HoldsBlocks
<1>5. n \in Int /\ n >= a - IndexSize(Current)
  BY <1>1, <1>4, WindowIsInt
<1>6. Top < a
  BY <1>1 DEF Tails
<1>7. Top \in Window(a) /\ Top >= f
  BY <1>1, <1>2, <1>3, <1>4, <1>5, <1>6 DEF Window
<1> QED BY <1>1, <1>2, <1>6, <1>7 DEF KeysUpTo

LEMMA LoadIndexTailGoes ==
  ASSUME NEW d, NEW a, NEW f, NEW holds, LiveInv(d, a, f, holds), NEW c \in Consumers,
         LoadIndexTail(c), OnlyLooks
  PROVE  LiveInv(d, a, f, holds)'
<1>1. /\ ClaimInv /\ Looks(d, holds, c) /\ IndexTypes /\ Kept(holds) /\ Tails(d, a, f) /\ Keys(d)
      /\ load \in Loads /\ Shape(d) /\ d \in [Nat -> Int]
  BY TailIs DEF LiveInv, Indexes, Shape
<1>2. PICK U : dq \in [Consumers -> DqLocals(U)]
  BY <1>1 DEF ClaimInv, ClaimTypes
<1>3. PICK h, t, local : h = dq[c].header /\ t = idxHeaders[h].tail /\ local = WithSlot(dq[c], t)
  OBVIOUS
<1>4. /\ local \in DqLocals(U \union {t}) /\ local.header = h /\ local.slot = t
      /\ local.index = dq[c].index /\ local.end = dq[c].end
  <2>1. dq[c] \in DqLocals(U)
    BY <1>2
  <2>2. local = WithSlot(dq[c], t)
    BY <1>3
  <2>3. /\ local \in DqLocals(U \union {t}) /\ local.header = dq[c].header /\ local.slot = t /\ local.block = dq[c].block
        /\ local.index = dq[c].index /\ local.end = dq[c].end
    BY <2>1, <2>2, LocalNoted
  <2> QED BY <1>3, <2>3
<1>5. dqAt[c] = "load index tail" /\ DqGoto(c, "load tail base", local)
  BY <1>3 DEF LoadIndexTail, WithSlot
<1>6. "load tail base" \in Holding /\ dqAt[c] \in Holding /\ dqAt[c] # "load index"
  BY <1>5 DEF Holding
<1>7. /\ ClaimInv' /\ dqAt'[c] = "load tail base" /\ dq'[c] = local /\ OthersStay(c) /\ ConsumerOnly
      /\ \A k \in Int : Done(k)' <=> Done(k)
      /\ Pending(c)' = Pending(c) /\ Number(c)' = Number(c)
      /\ UNCHANGED <<emptied, freed, idxEntries>>
      /\ NotLeaving(c) /\ NotLeaving(c)'
  BY <1>1, <1>4, <1>5, <1>6, LookingIs
<1>8. /\ h \in 1..Current /\ \A k \in Pending(c) : Finds(d, h, k \div BlockSize)
      /\ IndexSize(h) \in Nat \ {0}
  BY <1>1, <1>3, <1>6, LooksAt
<1>9. /\ h \in 1..Current' /\ \A k \in Pending(c)' : Finds(d, h, k \div BlockSize)'
      /\ IndexSize(h)' = IndexSize(h) /\ \A s : EntryAt(h, s)' = EntryAt(h, s)
  BY <1>7, <1>8, FindsOn
<1>10. t \in 0..(IndexSize(h) - 1) /\ idxEntries[EntryAt(h, t)].key # InvalidBlockBase
  <2>1. CASE h # Current
    BY <1>1, <1>3, <1>8, <2>1 DEF Keys
  <2>2. CASE h = Current
    <3>1. Number(c) \in DOMAIN holds /\ Number(c) < Filled
      BY <1>1, <1>6, NumberKept
    <3>2. Top \in Int /\ KeyOf(d, Top) = BaseOf(Top)
      BY <3>1, TailHasKey
    <3>3. t = SlotAt(d, Current, Top)
      BY <1>1, <1>3, <2>2 DEF Tails, Header, Current
    <3>4. t \in 0..(IndexSize(h) - 1)
      BY <1>1, <1>8, <2>2, <3>2, <3>3, SlotIs
    <3>5. BaseOf(Top) # InvalidBlockBase
      BY <1>1, <3>2, BaseIs
    <3> QED BY <2>2, <3>2, <3>3, <3>4, <3>5 DEF KeyOf, EntryOf
  <2> QED BY <2>1, <2>2
<1>11. Looks(d, holds, c)'
  <2>1. dqAt'[c] \notin Leaving
    BY <1>7 DEF Leaving
  <2>2. idxEntries'[EntryAt(h, t)'].key # InvalidBlockBase
    BY <1>7, <1>9, <1>10
  <2> QED BY <1>4, <1>7, <1>9, <1>10, <2>1, <2>2 DEF Looks, InvalidBlockBase
<1> QED BY <1>7, <1>11, ConsumerGoes

LEMMA LoadTailBaseGoes ==
  ASSUME NEW d, NEW a, NEW f, NEW holds, LiveInv(d, a, f, holds), NEW c \in Consumers,
         LoadTailBase(c), OnlyLooks
  PROVE  LiveInv(d, a, f, holds)'
<1>1. /\ ClaimInv /\ Looks(d, holds, c) /\ IndexTypes /\ Kept(holds) /\ Keys(d)
      /\ load \in Loads /\ Shape(d)
  BY TailIs DEF LiveInv, Indexes
<1>2. PICK U : dq \in [Consumers -> DqLocals(U)]
  BY <1>1 DEF ClaimInv, ClaimTypes
<1>3. PICK h, t, k, s, local : /\ h = dq[c].header /\ t = dq[c].slot /\ k = idxEntries[EntryAt(h, t)].key
                               /\ s = SlotOf(h, t, k, dq[c].index) /\ local = WithSlot(dq[c], s)
  OBVIOUS
<1>4. /\ local \in DqLocals(U \union {s}) /\ local.header = h /\ local.slot = s
      /\ local.index = dq[c].index /\ local.end = dq[c].end
  <2>1. dq[c] \in DqLocals(U)
    BY <1>2
  <2>2. local = WithSlot(dq[c], s)
    BY <1>3
  <2>3. /\ local \in DqLocals(U \union {s}) /\ local.header = dq[c].header /\ local.slot = s /\ local.block = dq[c].block
        /\ local.index = dq[c].index /\ local.end = dq[c].end
    BY <2>1, <2>2, LocalNoted
  <2> QED BY <1>3, <2>3
<1>5. dqAt[c] = "load tail base" /\ DqGoto(c, "load block", local)
  BY <1>3 DEF LoadTailBase, WithSlot
<1>6. "load block" \in Holding /\ dqAt[c] \in Holding /\ dqAt[c] # "load index"
  BY <1>5 DEF Holding
<1>7. /\ ClaimInv' /\ dqAt'[c] = "load block" /\ dq'[c] = local /\ OthersStay(c) /\ ConsumerOnly
      /\ \A i \in Int : Done(i)' <=> Done(i)
      /\ Pending(c)' = Pending(c) /\ Number(c)' = Number(c)
      /\ UNCHANGED <<emptied, freed, idxEntries>>
      /\ NotLeaving(c) /\ NotLeaving(c)'
  BY <1>1, <1>4, <1>5, <1>6, LookingIs
<1>8. /\ h \in 1..Current /\ \A i \in Pending(c) : Finds(d, h, i \div BlockSize)
  BY <1>1, <1>3, <1>6, LooksAt
<1>9. /\ h \in 1..Current' /\ \A i \in Pending(c)' : Finds(d, h, i \div BlockSize)'
      /\ SlotAt(d, h, Number(c))' = SlotAt(d, h, Number(c))
  BY <1>7, <1>8, FindsOn
<1>10. s = SlotAt(d, h, Number(c))
  <2>1. t \in 0..(IndexSize(h) - 1) /\ k # InvalidBlockBase
    BY <1>1, <1>3, <1>5 DEF Looks
  <2>2. PICK m \in Int : k = BaseOf(m) /\ t = SlotAt(d, h, m)
    BY <1>1, <1>3, <1>8, <2>1 DEF Keys
  <2>3. Number(c) \in Int
    BY <1>1, <1>6, NumberKept
  <2>4. dq[c].index \in 0..(IndexMod - 1)
    BY <1>1, <1>6 DEF ClaimInv, Ranged
  <2>5. BlockBase(dq[c].index) = BaseOf(Number(c))
    BY <1>1, <2>4, BlockOfIndex DEF Number, First
  <2>6. PICK i : i = dq[c].index
    OBVIOUS
  <2>7. SlotOf(h, t, k, i) = SlotAt(d, h, Number(c))
    BY <1>1, <1>8, <2>2, <2>3, <2>5, <2>6, SlotOfIs
  <2> QED BY <1>3, <2>6, <2>7
<1>11. Looks(d, holds, c)'
  <2>1. dqAt'[c] \notin Leaving
    BY <1>7 DEF Leaving
  <2> QED BY <1>4, <1>7, <1>9, <1>10, <2>1 DEF Looks
<1> QED BY <1>7, <1>11, ConsumerGoes

(* The entry a consumer has found is that of its block.                     *)
LEMMA FoundIs ==
  ASSUME NEW d, NEW a, NEW f, NEW holds, LiveInv(d, a, f, holds), NEW c \in Consumers,
         dqAt[c] \in {"load block", "move out", "set empty"}
  PROVE  /\ DqEntry(c) = EntryOf(d, Number(c)) /\ Number(c) \in DOMAIN holds /\ Number(c) \in Int
         /\ ValueOf(d, Number(c)) = holds[Number(c)] /\ holds[Number(c)] \in Blocks
         /\ dq[c].index \in 0..(IndexMod - 1) /\ Number(c) >= f /\ Number(c) \in Window(a)
<1>1. /\ ClaimInv /\ Looks(d, holds, c) /\ IndexTypes /\ Kept(holds) /\ HoldsBlocks(d, a, f, holds)
  BY DEF LiveInv, Indexes
<1>2. dqAt[c] \in Holding /\ dqAt[c] # "load index"
  BY DEF Holding
<1>3. /\ First(c) \in Pending(c) /\ Number(c) \in Int /\ Number(c) \in DOMAIN holds
  BY <1>1, <1>2, NumberKept
<1>4. PICK h : h = dq[c].header
  OBVIOUS
<1>5. Finds(d, h, Number(c)) /\ dq[c].slot = SlotAt(d, h, Number(c))
  <2>1. \A i \in Pending(c) : Finds(d, h, i \div BlockSize)
    BY <1>1, <1>2, <1>4, LooksAt
  <2>2. dq[c].slot = SlotAt(d, h, Number(c))
    BY <1>1, <1>4 DEF Looks
  <2> QED BY <1>3, <2>1, <2>2 DEF Number
<1>6. DqEntry(c) = EntryOf(d, Number(c))
  BY <1>4, <1>5 DEF DqEntry, Finds
<1>7. dq[c].index \in 0..(IndexMod - 1)
  BY <1>1, <1>2 DEF ClaimInv, Ranged
<1> QED BY <1>1, <1>3, <1>6, <1>7 DEF HoldsBlocks

LEMMA LoadBlockGoes ==
  ASSUME NEW d, NEW a, NEW f, NEW holds, LiveInv(d, a, f, holds), NEW c \in Consumers,
         LoadBlock(c), OnlyLooks
  PROVE  LiveInv(d, a, f, holds)'
<1>1. /\ ClaimInv /\ Looks(d, holds, c) /\ IndexTypes
  BY DEF LiveInv, Indexes
<1>2. PICK U : dq \in [Consumers -> DqLocals(U)]
  BY <1>1 DEF ClaimInv, ClaimTypes
<1>3. PICK h, b, local : /\ h = dq[c].header /\ b = idxEntries[DqEntry(c)].value
                         /\ local = WithBlock(dq[c], b)
  OBVIOUS
<1>4. /\ local \in DqLocals(U \union {b}) /\ local.header = h /\ local.slot = dq[c].slot /\ local.block = b
      /\ local.index = dq[c].index /\ local.end = dq[c].end
  <2>1. dq[c] \in DqLocals(U)
    BY <1>2
  <2>2. local = WithBlock(dq[c], b)
    BY <1>3
  <2>3. /\ local \in DqLocals(U \union {b}) /\ local.header = dq[c].header /\ local.slot = dq[c].slot /\ local.block = b
        /\ local.index = dq[c].index /\ local.end = dq[c].end
    BY <2>1, <2>2, LocalNoted
  <2> QED BY <1>3, <2>3
<1>5. dqAt[c] = "load block" /\ DqGoto(c, "move out", local)
  BY <1>3 DEF LoadBlock, WithBlock
<1>6. "move out" \in Holding /\ dqAt[c] \in Holding /\ dqAt[c] # "load index"
  BY <1>5 DEF Holding
<1>7. /\ ClaimInv' /\ dqAt'[c] = "move out" /\ dq'[c] = local /\ OthersStay(c) /\ ConsumerOnly
      /\ \A i \in Int : Done(i)' <=> Done(i)
      /\ Pending(c)' = Pending(c) /\ Number(c)' = Number(c)
      /\ UNCHANGED <<emptied, freed, idxEntries>>
      /\ NotLeaving(c) /\ NotLeaving(c)'
  BY <1>1, <1>4, <1>5, <1>6, LookingIs
<1>8. /\ h \in 1..Current /\ \A i \in Pending(c) : Finds(d, h, i \div BlockSize)
  BY <1>1, <1>3, <1>6, LooksAt
<1>9. /\ h \in 1..Current' /\ \A i \in Pending(c)' : Finds(d, h, i \div BlockSize)'
      /\ SlotAt(d, h, Number(c))' = SlotAt(d, h, Number(c))
  BY <1>7, <1>8, FindsOn
<1>10. b = holds[Number(c)]
  BY <1>3, <1>5, FoundIs DEF ValueOf
<1>11. dq[c].slot = SlotAt(d, h, Number(c))
  BY <1>1, <1>3, <1>5 DEF Looks
<1>12. Looks(d, holds, c)'
  <2>1. dqAt'[c] \notin Leaving
    BY <1>7 DEF Leaving
  <2> QED BY <1>4, <1>7, <1>9, <1>10, <1>11, <2>1 DEF Looks
<1> QED BY <1>7, <1>12, ConsumerGoes

-----------------------------------------------------------------------------
(* A part of an interval is added to another.                               *)
LEMMA PartCounted ==
  ASSUME NEW S, IsFiniteSet(S), NEW T \in SUBSET S, NEW U \in SUBSET S, NEW x \in Int, NEW y \in Int, x < y,
         \A k \in x..(y - 1) : k \in S /\ k \notin T,
         \A k \in S : k \in U <=> k \in T \/ k \in x..(y - 1)
  PROVE  /\ Cardinality(U) = Cardinality(T) + (y - x) /\ Cardinality(U) \in Int
         /\ Cardinality(U) = Cardinality(S) <=> \A k \in S : k \in U
<1> DEFINE V == x..(y - 1)
<1>1. IsFiniteSet(V) /\ Cardinality(V) = y - x
  <2>1. y - 1 \in Int /\ ~(x > y - 1) /\ (y - 1) - x + 1 = y - x
    OBVIOUS
  <2> QED BY <2>1, FS_Interval
<1>2. IsFiniteSet(T) /\ IsFiniteSet(U)
  BY FS_Subset
<1>3. \A k \in V : k \in S /\ k \notin T
  OBVIOUS
<1>4. \A k \in S : k \in U <=> k \in T \/ k \in V
  OBVIOUS
<1> HIDE DEF V
<1>5. U = T \union V /\ T \intersect V = {}
  BY <1>3, <1>4
<1>6. Cardinality(U) = Cardinality(T) + Cardinality(V) - Cardinality(T \intersect V)
  BY <1>1, <1>2, <1>5, FS_Union
<1>7. Cardinality(T \intersect V) = 0 /\ Cardinality(T) \in Nat /\ Cardinality(U) \in Nat
  BY <1>2, <1>5, FS_EmptySet, FS_CardinalityType
<1>8. Cardinality(U) = Cardinality(T) + (y - x)
  BY <1>1, <1>6, <1>7
<1>9. Cardinality(S) = Cardinality(U) => S = U
  BY FS_Subset
<1>10. (\A k \in S : k \in U) => S = U
  OBVIOUS
<1> QED BY <1>7, <1>8, <1>9, <1>10

(* The part of a claim that is in one block.                                *)
LEMMA SegmentOfBlock ==
  ASSUME ClaimInv, NEW c \in Consumers, dqAt[c] \in Holding \union Leaving
  PROVE  /\ First(c) \in Int /\ Stop(c) \in Int /\ Beyond(c) \in Int /\ Number(c) \in Int
         /\ First(c) < Stop(c) /\ Stop(c) <= Beyond(c)
         /\ SegmentSize(c) = Stop(c) - First(c)
         /\ \A k \in First(c)..(Stop(c) - 1) : k \in ItemsOf(Number(c))
         /\ Stop(c) # Beyond(c) => Stop(c) \div BlockSize = Number(c) + 1
<1>1. /\ dq[c].index \in 0..(IndexMod - 1) /\ dq[c].end \in 0..(IndexMod - 1) /\ load \in Loads
      /\ First(c) < Beyond(c) /\ Beyond(c) - First(c) < IndexMod \div 2
  BY TailIs DEF ClaimInv, Ranged, HalfRange
<1>2. /\ SegmentEnd(c) \in 0..(IndexMod - 1) /\ Item(SegmentEnd(c)) = Stop(c)
      /\ SegmentSize(c) = Stop(c) - First(c)
      /\ First(c) < Stop(c) /\ Stop(c) <= Beyond(c)
      /\ Number(c) \in Nat /\ BlockSize * Number(c) <= First(c)
      /\ Stop(c) <= BlockSize * Number(c) + BlockSize
      /\ Stop(c) # Beyond(c) => Stop(c) = BlockSize * Number(c) + BlockSize
  BY <1>1, SegmentIs
<1>3. First(c) \in Nat /\ Beyond(c) \in Nat /\ Stop(c) \in Nat
  BY <1>1, <1>2, IndexOfItem DEF First, Beyond
<1>4. PICK x \in Int, y \in Int, n \in Int, z \in Int :
        /\ x = First(c) /\ y = Stop(c) /\ n = Number(c) /\ z = Beyond(c)
  BY <1>2, <1>3, NatIsInt
<1>5. BlockSize * n \in Int /\ BlockSize * (n + 1) = BlockSize * n + BlockSize /\ n + 1 \in Int
      /\ BlockSize \in Nat \ {0}
  BY Multiples, Sizes
<1>6. \A k \in x..(y - 1) : k \in ItemsOf(n)
  <2>1. BlockSize * n <= x /\ y <= BlockSize * n + BlockSize
    BY <1>2, <1>4
  <2>2. \A k \in x..(y - 1) : k \in Int /\ BlockSize * n <= k /\ k < BlockSize * n + BlockSize
    BY <1>5, <2>1
  <2> QED BY <2>2, ItemsIs
<1>7. ASSUME y # z PROVE y \div BlockSize = n + 1
  <2>1. y = BlockSize * (n + 1) + 0 /\ 0 \in 0..(BlockSize - 1)
    BY <1>2, <1>4, <1>5, <1>7
  <2> QED BY <1>5, <2>1, Division
<1> QED BY <1>2, <1>4, <1>6, <1>7

(* The next block of the claim, if there is one, is found like this one.    *)
LEMMA NextLooks ==
  ASSUME NEW d, NEW holds, ClaimInv, IndexTypes, Shape(d), NEW c \in Consumers, Looks(d, holds, c),
         dqAt[c] \in {"set empty", "free block"}, ConsumerOnly,
         Pending(c)' = Stop(c)..(Beyond(c) - 1),
         \/ dqAt'[c] = "idle"
         \/ /\ dqAt'[c] = "load block" /\ Stop(c) # Beyond(c)
            /\ dq'[c].header = dq[c].header /\ First(c)' = Stop(c)
            /\ dq'[c].slot = (dq[c].slot + 1) % Cardinality(DOMAIN idxHeaders[dq[c].header].index)
  PROVE  Looks(d, holds, c)'
<1>1. CASE dqAt'[c] = "idle"
  BY <1>1 DEF Looks, Holding, Leaving
<1>2. CASE /\ dqAt'[c] = "load block" /\ Stop(c) # Beyond(c)
           /\ dq'[c].header = dq[c].header /\ First(c)' = Stop(c)
           /\ dq'[c].slot = (dq[c].slot + 1) % Cardinality(DOMAIN idxHeaders[dq[c].header].index)
  <2>1. PICK h : h = dq[c].header
    OBVIOUS
  <2>2. dqAt[c] \in (Holding \union Leaving) \ {"load index"} /\ dqAt[c] \in Holding \union Leaving
    BY DEF Holding, Leaving
  <2>3. /\ h \in 1..Current /\ \A k \in Pending(c) : Finds(d, h, k \div BlockSize)
        /\ dq[c].slot = SlotAt(d, h, Number(c))
    BY <2>1, <2>2 DEF Looks, Leaving
  <2>4. /\ First(c) \in Int /\ Stop(c) \in Int /\ Beyond(c) \in Int /\ Number(c) \in Int
        /\ First(c) < Stop(c) /\ Stop(c) <= Beyond(c)
        /\ Stop(c) \div BlockSize = Number(c) + 1
    BY <1>2, <2>2, SegmentOfBlock
  <2>5. \A k \in Stop(c)..(Beyond(c) - 1) : k \in Pending(c)
    <3>1. \A k \in Stop(c)..(Beyond(c) - 1) : k \in First(c)..(Beyond(c) - 1)
      BY <2>4, PartOfClaim
    <3> QED BY <2>2, <3>1 DEF Pending
  <2>6. /\ Current' = Current
        /\ \A n : SlotAt(d, h, n)' = SlotAt(d, h, n)
        /\ \A n : Finds(d, h, n)' <=> Finds(d, h, n)
    BY ViewSame
  <2>7. Number(c)' = Number(c) + 1
    BY <1>2, <2>4 DEF Number
  <2>8. dq'[c].slot = SlotAt(d, h, Number(c) + 1)
    <3>1. d \in [Nat -> Int]
      BY DEF Shape
    <3>2. (SlotAt(d, h, Number(c)) + 1) % IndexSize(h) = SlotAt(d, h, Number(c) + 1)
      BY <2>3, <2>4, <3>1, SlotsFollow
    <3> QED BY <1>2, <2>1, <2>3, <3>2 DEF IndexSize
  <2>9. SlotAt(d, h, Number(c))' = SlotAt(d, h, Number(c) + 1)
    BY <2>6, <2>7 DEF SlotAt
  <2>10. \A k \in Pending(c)' : Finds(d, h, k \div BlockSize)'
    BY <2>3, <2>5, <2>6 DEF Finds, EntryAt, EntryOf
  <2>11. dqAt'[c] \notin Leaving
    BY <1>2 DEF Leaving
  <2> QED BY <1>2, <2>1, <2>3, <2>6, <2>8, <2>9, <2>10, <2>11 DEF Looks
<1> QED BY <1>1, <1>2

(* What is done of the blocks when a segment is counted.                    *)
LEMMA DoneCounted ==
  ASSUME ClaimInv, ConsumerOnly, NEW c \in Consumers, NEW x \in Int, NEW y \in Int, NEW n \in Int, x < y,
         \A k \in x..(y - 1) : k \in ItemsOf(n) /\ ~Done(k),
         \A k \in Int : Done(k)' <=> Done(k) \/ k \in x..(y - 1)
  PROVE  /\ \A m \in Int : m # n => DoneOf(m)' = DoneOf(m) /\ (AllDone(m)' <=> AllDone(m))
         /\ \A m \in Int : AllDone(m) => AllDone(m)'
         /\ Cardinality(DoneOf(n))' = Cardinality(DoneOf(n)) + (y - x)
         /\ AllDone(n)' <=> Cardinality(DoneOf(n))' = BlockSize
<1>1. \A m : ItemsOf(m)' = ItemsOf(m)
  BY DEF ItemsOf
<1>2. \A m \in Int : /\ \A k \in ItemsOf(m) : k \in Int
                     /\ IsFiniteSet(ItemsOf(m)) /\ Cardinality(ItemsOf(m)) = BlockSize
  BY ItemsIs
<1>3. \A m \in Int : m # n => \A k \in x..(y - 1) : k \notin ItemsOf(m)
  <2> SUFFICES ASSUME NEW m \in Int, NEW k \in x..(y - 1), k \in ItemsOf(m) PROVE m = n
    OBVIOUS
  <2>1. k \in Int /\ k \in ItemsOf(n)
    OBVIOUS
  <2>2. m = k \div BlockSize /\ n = k \div BlockSize
    BY <2>1, ItemOfBlock
  <2> QED BY <2>2
<1>4. ASSUME NEW m \in Int, m # n PROVE DoneOf(m)' = DoneOf(m) /\ (AllDone(m)' <=> AllDone(m))
  <2>1. \A k \in ItemsOf(m) : Done(k)' <=> Done(k)
    BY <1>2, <1>3, <1>4
  <2> QED BY <1>1, <2>1 DEF DoneOf, AllDone
<1>5. ASSUME NEW m \in Int, AllDone(m) PROVE AllDone(m)'
  BY <1>1, <1>2, <1>5 DEF AllDone
<1>6. /\ Cardinality(DoneOf(n)') = Cardinality(DoneOf(n)) + (y - x)
      /\ Cardinality(DoneOf(n)') = BlockSize <=> \A k \in ItemsOf(n) : k \in DoneOf(n)'
  <2> DEFINE S == ItemsOf(n)
             T == DoneOf(n)
             U == DoneOf(n)'
  <2>1. T \in SUBSET S /\ U \in SUBSET S
    BY <1>1 DEF DoneOf
  <2>2. \A k \in x..(y - 1) : k \in S /\ k \notin T
    BY DEF DoneOf
  <2>3. \A k \in S : k \in U <=> k \in T \/ k \in x..(y - 1)
    BY <1>1, <1>2 DEF DoneOf
  <2>4. IsFiniteSet(S) /\ Cardinality(S) = BlockSize
    BY <1>2
  <2> HIDE DEF S, T, U
  <2>5. /\ Cardinality(U) = Cardinality(T) + (y - x)
        /\ Cardinality(U) = Cardinality(S) <=> \A k \in S : k \in U
    BY <2>1, <2>2, <2>3, <2>4, PartCounted
  <2> QED BY <2>4, <2>5 DEF S, T, U
<1>7. AllDone(n)' <=> \A k \in ItemsOf(n) : k \in DoneOf(n)'
  BY <1>1 DEF AllDone, DoneOf
<1>8. Cardinality(DoneOf(n))' = Cardinality(DoneOf(n)')
  OBVIOUS
<1> QED BY <1>4, <1>5, <1>6, <1>7, <1>8

AtSetEmpty(c) == dqAt[c] = "set empty"

(* The block counted in is cleared by who counts the last of its elements.  *)
LEMMA CountedKept ==
  ASSUME ClaimInv, NEW holds, Kept(holds), ConsumerOnly, NEW c \in Consumers, OthersStay(c),
         NEW n \in DOMAIN holds, AtSetEmpty(c), NEW s \in Int,
         \A m \in DOMAIN holds : holds[m] \in Blocks,
         emptied' = [emptied EXCEPT ![holds[n]] = @ + s],
         Cardinality(DoneOf(n))' = Cardinality(DoneOf(n)) + s,
         \A m \in Int : m # n => DoneOf(m)' = DoneOf(m) /\ (AllDone(m)' <=> AllDone(m)),
         AllDone(n) => AllDone(n)',
         AllDone(n)' => Clears(c, n)', enq.block # holds[n]
  PROVE  Kept(holds)' /\ emptied'[holds[n]] = Cardinality(DoneOf(n))'
<1>0. PICK b \in Blocks : b = holds[n] /\ emptied' = [emptied EXCEPT ![b] = @ + s]
  OBVIOUS
<1>1. emptied \in [Blocks -> Int] /\ \A m \in DOMAIN holds : m \in Int /\ emptied[holds[m]] = Cardinality(DoneOf(m))
  <2>1. emptied \in [Blocks -> Int]
    BY DEF Kept
  <2>2. \A m \in DOMAIN holds : m \in Nat /\ emptied[holds[m]] = Cardinality(DoneOf(m))
    BY DEF Kept
  <2> QED BY <2>1, <2>2, NatIsInt
<1>2. /\ emptied' \in [Blocks -> Int] /\ emptied'[holds[n]] = emptied[holds[n]] + s
      /\ \A g \in Blocks : g # holds[n] => emptied'[g] = emptied[g]
  <2>1. emptied \in [Blocks -> Int]
    BY <1>1
  <2>2. /\ emptied' \in [Blocks -> Int] /\ emptied'[b] = emptied[b] + s
        /\ \A g \in Blocks : g # b => emptied'[g] = emptied[g]
    BY <1>0, <2>1
  <2> QED BY <1>0, <2>2
<1>3. emptied'[holds[n]] = Cardinality(DoneOf(n))'
  BY <1>1, <1>2
<1>4. ASSUME NEW m \in DOMAIN holds, m # n
      PROVE  /\ emptied'[holds[m]] = Cardinality(DoneOf(m))'
             /\ AllDone(m)' => \E e \in Consumers : Clears(e, m)'
  <2>1. holds[m] # holds[n]
    BY <1>4 DEF Kept
  <2>2. DoneOf(m)' = DoneOf(m) /\ (AllDone(m)' <=> AllDone(m))
    BY <1>1, <1>4
  <2>3. ASSUME AllDone(m) PROVE \E e \in Consumers : Clears(e, m)'
    <3>1. PICK e \in Consumers : Clears(e, m)
      BY <2>3 DEF Kept
    <3>2. e # c
      BY <3>1 DEF Clears, AtSetEmpty
    <3> QED BY <3>1, <3>2, OthersSame
  <2>4. Cardinality(DoneOf(m))' = Cardinality(DoneOf(m)')
    OBVIOUS
  <2> QED BY <1>1, <1>2, <2>1, <2>2, <2>3, <2>4
<1>5. /\ Filled' = Filled /\ Limit' = Limit /\ enq' = enq /\ tailBlock' = tailBlock
  BY ProducerSame DEF ConsumerOnly
<1>6. ASSUME NEW m \in 0..(Filled - 1) PROVE AllDone(m)' \/ m \in DOMAIN holds
  <2>1. AllDone(m) \/ m \in DOMAIN holds
    BY DEF Kept
  <2>2. Filled \in Int
    BY TailIs
  <2>3. m \in Int
    BY <2>2
  <2> QED BY <2>1, <2>3
<1>7. \A m \in DOMAIN holds : /\ emptied'[holds[m]] = Cardinality(DoneOf(m))'
                              /\ AllDone(m)' => \E e \in Consumers : Clears(e, m)'
  BY <1>3, <1>4
<1>8. enq'.block \in Blocks => emptied'[enq'.block] = 0
  <2> SUFFICES ASSUME enq.block \in Blocks PROVE emptied'[enq.block] = 0
    BY <1>5
  <2>1. emptied[enq.block] = 0
    BY DEF Kept
  <2> QED BY <1>2, <2>1
<1> QED BY <1>2, <1>3, <1>5, <1>6, <1>7, <1>8 DEF Kept

CountersStay == ConsumerOnly /\ UNCHANGED counterVars

LEMMA SetManyEmptyGoes ==
  ASSUME NEW d, NEW a, NEW f, NEW holds, LiveInv(d, a, f, holds), NEW c \in Consumers,
         SetManyEmpty(c), CountersStay
  PROVE  LiveInv(d, a, f, holds)'
<1>1. /\ ClaimInv /\ a \in Int /\ f \in Int /\ Indexes(d, a, f, holds) /\ Calls(d, holds)
      /\ Kept(holds) /\ ~destroyed /\ Places(holds) /\ Tails(d, a, f) /\ IndexTypes /\ Shape(d)
      /\ HoldsBlocks(d, a, f, holds)
      /\ \A e \in Consumers : Looks(d, holds, e)
  BY DEF LiveInv, Indexes
<1>2. /\ dqAt[c] = "set empty" /\ AtSetEmpty(c) /\ UNCHANGED <<freed, idxEntries>>
      /\ emptied' = [emptied EXCEPT ![dq[c].block] = @ + SegmentSize(c)]
      /\ IF emptied'[dq[c].block] = BlockSize
         THEN DqGoto(c, "clear entry", dq[c]) ELSE ImplicitNextSegment(c)
  BY DEF SetManyEmpty, AtSetEmpty
<1>3. /\ ConsumerOnly /\ UNCHANGED <<counterVars, isExplicit, load, enqAt, enq>>
  BY DEF CountersStay, ConsumerOnly
<1>4. dqAt[c] \in Holding /\ dqAt[c] # "load index" /\ dqAt[c] \in {"set empty", "free block"}
  BY <1>2 DEF Holding
<1>5. PICK n \in DOMAIN holds, x \in Int, y \in Int, z \in Int :
        n = Number(c) /\ x = First(c) /\ y = Stop(c) /\ z = Beyond(c)
  BY <1>1, <1>4, NumberKept, SegmentOfBlock
<1>6. /\ n \in Int /\ x < y /\ y <= z /\ SegmentSize(c) = y - x /\ ~Done(x)
      /\ \A k \in x..(y - 1) : k \in ItemsOf(n)
  BY <1>1, <1>4, <1>5, NumberKept, SegmentOfBlock
<1>7. /\ ClaimInv' /\ Pending(c)' = y..(z - 1)
      /\ \/ dqAt'[c] = "clear entry" /\ dq'[c] = dq[c] /\ DqGoto(c, "clear entry", dq[c])
         \/ dqAt'[c] = "idle" /\ dq'[c] = NoDequeue /\ Stop(c) = Beyond(c)
         \/ /\ dqAt'[c] = "load block" /\ Stop(c) # Beyond(c)
            /\ dq'[c].header = dq[c].header /\ First(c)' = Stop(c) /\ Beyond(c)' = Beyond(c)
            /\ dq'[c].slot = (dq[c].slot + 1) % Cardinality(DOMAIN idxHeaders[dq[c].header].index)
      /\ OthersStay(c)
  BY <1>1, <1>2, <1>3, <1>4, <1>5, Advances DEF OthersStay
<1>8. \A k \in Int : Done(k)' <=> Done(k) \/ k \in x..(y - 1)
  BY <1>1, <1>2, <1>3, <1>5, SegmentCounted
<1>9. \A k \in x..(y - 1) : k \in ItemsOf(n) /\ ~Done(k)
  <2> SUFFICES ASSUME NEW k \in x..(y - 1) PROVE ~Done(k)
    BY <1>6
  <2>1. k \in x..(z - 1)
    BY <1>6
  <2>2. k \in Pending(c)
    BY <1>4, <1>5, <2>1 DEF Pending
  <2> QED BY <1>1, <2>2, PendingKept
<1>10. /\ \A m \in Int : m # n => DoneOf(m)' = DoneOf(m) /\ (AllDone(m)' <=> AllDone(m))
       /\ \A m \in Int : AllDone(m) => AllDone(m)'
       /\ Cardinality(DoneOf(n))' = Cardinality(DoneOf(n)) + (y - x)
       /\ AllDone(n)' <=> Cardinality(DoneOf(n))' = BlockSize
  BY <1>1, <1>3, <1>6, <1>8, <1>9, DoneCounted
<1>11. dq[c].block = holds[n] /\ holds[n] \in Blocks /\ enq.block # holds[n]
  <2>1. dq[c].block = holds[n]
    BY <1>1, <1>2, <1>5 DEF Looks
  <2>2. holds[n] \in Blocks
    BY <1>1 DEF HoldsBlocks
  <2>3. enq.block \notin InIndex(holds)
    BY <1>1 DEF Places
  <2> QED BY <2>1, <2>2, <2>3 DEF InIndex
<1>12. emptied'[holds[n]] = Cardinality(DoneOf(n))'
  <2>1. emptied[holds[n]] = Cardinality(DoneOf(n)) /\ emptied \in [Blocks -> Int]
    BY <1>1 DEF Kept
  <2>2. PICK g, s : g \in Blocks /\ g = holds[n] /\ s = y - x /\ emptied' = [emptied EXCEPT ![g] = @ + s]
    BY <1>2, <1>6, <1>11
  <2>3. emptied'[g] = emptied[g] + s
    BY <2>1, <2>2
  <2> QED BY <1>10, <2>1, <2>2, <2>3
<1>13. AllDone(n)' <=> dqAt'[c] = "clear entry"
  <2>1. AllDone(n)' <=> emptied'[dq[c].block] = BlockSize
    BY <1>10, <1>11, <1>12
  <2>2. emptied'[dq[c].block] = BlockSize => dqAt'[c] = "clear entry"
    BY <1>1, <1>2, GotoIs
  <2>3. ImplicitNextSegment(c) => dqAt'[c] # "clear entry"
    <3>1. ImplicitNextSegment(c) => \E at, local : at # "clear entry" /\ DqGoto(c, at, local)
      BY DEF ImplicitNextSegment, NextSegment
    <3> QED BY <1>1, <3>1, GotoIs
  <2> QED BY <1>2, <2>1, <2>2, <2>3
<1>14. dqAt'[c] = "clear entry" => Number(c)' = n /\ Clears(c, n)'
  <2>1. dqAt'[c] = "clear entry" => dq'[c] = dq[c]
    BY <1>7
  <2>2. dqAt'[c] = "clear entry" => Number(c)' = n
    BY <1>3, <1>5, <2>1 DEF Number, First, Item, startIndex
  <2> QED BY <2>2 DEF Clears
<1>15. Kept(holds)'
  <2>1. PICK s \in Int : s = y - x
    BY <1>6
  <2>2. emptied' = [emptied EXCEPT ![holds[n]] = @ + s]
    BY <1>2, <1>6, <1>11, <2>1
  <2>3. AllDone(n) => AllDone(n)'
    BY <1>6, <1>10
  <2>4. \A m \in DOMAIN holds : holds[m] \in Blocks
    BY <1>1 DEF HoldsBlocks
  <2>5. Cardinality(DoneOf(n))' = Cardinality(DoneOf(n)) + s
    BY <1>10, <2>1
  <2> QED BY <1>1, <1>2, <1>3, <1>7, <1>10, <1>11, <1>13, <1>14, <2>2, <2>3, <2>4, <2>5, CountedKept
<1>16. Indexes(d, a, f, holds)' /\ Tails(d, a, f)' /\ Calls(d, holds)'
  BY <1>1, <1>2, <1>3, IndexIdle
<1>17. Places(holds)'
  <2>1. HeldByConsumer(c) = {} /\ HeldByConsumer(c)' = {}
    BY <1>2, <1>7 DEF HeldByConsumer
  <2>2. \A e \in Consumers : HeldByConsumer(e)' = HeldByConsumer(e)
    BY <1>3, <1>7, <2>1, OthersSame
  <2>3. InIndex(holds)' = InIndex(holds)
    BY DEF InIndex
  <2>4. HeldByProducer' = HeldByProducer /\ Filled' = Filled /\ enq' = enq /\ freed' = freed
    BY <1>2, <1>3, ProducerSame DEF ConsumerOnly
  <2>5. \A b : Used(holds, b)' <=> Used(holds, b)
    BY <2>2, <2>3, <2>4 DEF Used
  <2> QED BY <1>1, <2>2, <2>3, <2>4, <2>5 DEF Places
<1>18. ASSUME NEW e \in Consumers, e # c PROVE Looks(d, holds, e)'
  <2>1. ASSUME dqAt[e] = "clear entry"
        PROVE  /\ Number(e) \in DOMAIN holds /\ AllDone(Number(e))'
               /\ \A i \in Consumers : Clears(i, Number(e))' => i = e
    <3>1. /\ Number(e) \in DOMAIN holds /\ AllDone(Number(e))
          /\ \A i \in Consumers : Clears(i, Number(e)) => i = e
      BY <1>1, <2>1 DEF Looks
    <3>2. PICK m \in Int : m = Number(e)
      BY <1>1, <3>1 DEF Kept
    <3>3. Number(e)' = m
      BY <1>3, <1>7, <1>18, <3>2, OthersSame
    <3>4. AllDone(m)'
      BY <1>10, <3>1, <3>2
    <3>5. m # n
      <4>1. x \in ItemsOf(n)
        BY <1>6
      <4> QED BY <1>6, <3>1, <3>2, <4>1 DEF AllDone
    <3>6. \A i \in Consumers : Clears(i, m)' => i = e
      <4> TAKE i \in Consumers
      <4>1. CASE i = c
        BY <1>14, <3>5, <4>1 DEF Clears
      <4>2. CASE i # c
        BY <1>3, <1>7, <3>1, <3>2, <4>2, OthersSame
      <4> QED BY <4>1, <4>2
    <3>7. AllDone(Number(e))' /\ \A i \in Consumers : Clears(i, Number(e))' => i = e
      BY <3>3, <3>4, <3>6 DEF AllDone, ItemsOf, Clears
    <3> QED BY <3>1, <3>7
  <2> QED BY <1>2, <1>1, <1>3, <1>7, <1>18, <2>1, OtherLooks
<1>19. Looks(d, holds, c)'
  <2>1. CASE dqAt'[c] = "clear entry"
    <3>1. PICK h : h = dq[c].header
      OBVIOUS
    <3>2. dq'[c] = dq[c] /\ Number(c)' = n /\ AllDone(n)'
      BY <1>7, <1>13, <1>14, <2>1
    <3>3. /\ h \in 1..Current /\ \A k \in Pending(c) : Finds(d, h, k \div BlockSize)
          /\ dq[c].slot = SlotAt(d, h, n) /\ Finds(d, h, n)
      <4>1. h \in 1..Current /\ \A k \in Pending(c) : Finds(d, h, k \div BlockSize)
        BY <1>1, <1>4, <3>1, LooksAt
      <4>2. dq[c].slot = SlotAt(d, h, n)
        BY <1>1, <1>2, <1>5, <3>1 DEF Looks
      <4>3. First(c) \in Pending(c)
        BY <1>1, <1>4, NumberKept
      <4> QED BY <1>5, <4>1, <4>2, <4>3 DEF Number
    <3>4. /\ Current' = Current
          /\ \A m : SlotAt(d, h, m)' = SlotAt(d, h, m)
          /\ \A m : Finds(d, h, m)' <=> Finds(d, h, m)
      BY <1>3, ViewSame
    <3>5. \A k \in y..(z - 1) : k \in Pending(c)
      <4>1. \A k \in y..(z - 1) : k \in x..(z - 1)
        BY <1>6
      <4> QED BY <1>4, <1>5, <4>1 DEF Pending
    <3>6. \A k \in Pending(c)' : Finds(d, h, k \div BlockSize)'
      BY <1>7, <3>3, <3>4, <3>5 DEF Finds, EntryAt, EntryOf
    <3>7. \A i \in Consumers : Clears(i, n)' => i = c
      <4> TAKE i \in Consumers
      <4>1. ASSUME i # c, Clears(i, n) PROVE FALSE
        <5>1. AllDone(n)
          BY <1>1, <4>1 DEF Looks, Clears
        <5>2. x \in ItemsOf(n)
          BY <1>6
        <5> QED BY <1>6, <5>1, <5>2 DEF AllDone
      <4> QED BY <1>3, <1>7, <4>1, OthersSame
    <3>8. Finds(d, h, Number(c))' /\ SlotAt(d, h, Number(c))' = SlotAt(d, h, n)
          /\ AllDone(Number(c))' /\ \A i \in Consumers : Clears(i, Number(c))' => i = c
      BY <3>2, <3>3, <3>4, <3>7 DEF Finds, SlotAt, AllDone, ItemsOf, Clears
    <3> QED BY <1>11, <2>1, <3>1, <3>2, <3>3, <3>4, <3>6, <3>8 DEF Looks
  <2>2. CASE dqAt'[c] # "clear entry"
    <3>1. Pending(c)' = Stop(c)..(Beyond(c) - 1)
      BY <1>5, <1>7
    <3> QED BY <1>1, <1>3, <1>4, <1>7, <2>2, <3>1, NextLooks
  <2> QED BY <2>1, <2>2
<1>20. ~destroyed'
  BY <1>1, <1>3 DEF ConsumerOnly
<1> QED BY <1>1, <1>7, <1>15, <1>16, <1>17, <1>18, <1>19, <1>20 DEF LiveInv

(* A consumer clears the entry of a block: the block is its own now.        *)
LEMMA ClearPlaces ==
  ASSUME ConsumerOnly, freed' = freed, NEW holds, Places(holds), NEW c \in Consumers, OthersStay(c),
         NEW n \in DOMAIN holds, NEW b \in Blocks, b = holds[n],
         HeldByConsumer(c) = {}, HeldByConsumer(c)' = {b},
         \A m \in DOMAIN holds : holds[m] = holds[n] => m = n,
         \A j \in 1..Len(enq.got) : n # Filled + (j - 1),
         NEW less, IsWithout(less, holds, n)
  PROVE  Places(less)'
<1>1. DOMAIN less = DOMAIN holds \ {n} /\ \A m \in DOMAIN less : less[m] = holds[m]
  BY DEF IsWithout
<1>2. InIndex(less)' = InIndex(less) /\ HeldByProducer' = HeldByProducer /\ Filled' = Filled /\ enq' = enq
  BY ProducerSame DEF InIndex, ConsumerOnly
<1>3. b \in InIndex(holds) /\ \A x : x \in InIndex(less) <=> x \in InIndex(holds) /\ x # b
  BY <1>1 DEF InIndex
<1>4. \A e \in Consumers : e # c => HeldByConsumer(e)' = HeldByConsumer(e)
  BY OthersSame
<1>5. b \notin HeldByProducer
  <2>1. enq.block # b /\ \A j \in 1..Len(enq.got) : enq.got[j] # b
    BY <1>3 DEF Places
  <2> QED BY <2>1 DEF HeldByProducer
<1>6. \A x \in Blocks : Used(less, x)' <=> Used(holds, x)
  BY <1>2, <1>3, <1>4 DEF Used
<1>7. \A e \in Consumers : \A x \in HeldByConsumer(e) :
        /\ x \in Blocks /\ x \notin InIndex(holds) \union HeldByProducer
        /\ \A i \in Consumers : i # e => x \notin HeldByConsumer(i)
  BY DEF Places
<1>8. \A e \in Consumers : \A x \in HeldByConsumer(e)' :
        /\ x \in Blocks /\ x \notin InIndex(less)' \union HeldByProducer'
        /\ \A i \in Consumers : i # e => x \notin HeldByConsumer(i)'
  <2> SUFFICES ASSUME NEW e \in Consumers, NEW x \in HeldByConsumer(e)'
               PROVE  /\ x \in Blocks /\ x \notin InIndex(less) \union HeldByProducer
                      /\ \A i \in Consumers : i # e => x \notin HeldByConsumer(i)'
    BY <1>2
  <2>1. CASE e = c
    BY <1>3, <1>4, <1>5, <1>7, <2>1
  <2>2. CASE e # c
    <3>1. x \in HeldByConsumer(e) /\ x # b
      BY <1>3, <1>4, <1>7, <2>2
    <3> QED BY <1>3, <1>4, <1>7, <3>1
  <2> QED BY <2>1, <2>2
<1> QED BY <1>1, <1>2, <1>3, <1>6, <1>8 DEF Places

LEMMA ClearKept ==
  ASSUME ClaimInv, ConsumerOnly, emptied' = emptied, NEW holds, Kept(holds), NEW c \in Consumers,
         OthersStay(c), NEW n \in DOMAIN holds, AllDone(n), \A m : Clears(c, m) => m = n,
         \A k \in Int : Done(k)' <=> Done(k),
         NEW less, IsWithout(less, holds, n)
  PROVE  Kept(less)'
<1>1. DOMAIN less = DOMAIN holds \ {n} /\ \A m \in DOMAIN less : less[m] = holds[m]
  BY DEF IsWithout
<1>2. \A m \in Int : DoneOf(m)' = DoneOf(m) /\ (AllDone(m)' <=> AllDone(m))
  <2> TAKE m \in Int
  <2>1. \A k \in ItemsOf(m) : k \in Int
    BY ItemsIs
  <2>2. ItemsOf(m)' = ItemsOf(m)
    BY DEF ItemsOf
  <2> QED BY <2>1, <2>2 DEF DoneOf, AllDone
<1>3. /\ Filled' = Filled /\ Limit' = Limit /\ enq' = enq /\ tailBlock' = tailBlock
  BY ProducerSame DEF ConsumerOnly
<1>4. \A m \in DOMAIN holds : m \in Int
  BY NatIsInt DEF Kept
<1>5. ASSUME NEW m \in DOMAIN less, AllDone(m)' PROVE \E e \in Consumers : Clears(e, m)'
  <2>1. PICK e \in Consumers : Clears(e, m)
    BY <1>1, <1>2, <1>4, <1>5 DEF Kept
  <2>2. e # c
    BY <1>1, <2>1
  <2> QED BY <2>1, <2>2, OthersSame
<1>6. ASSUME NEW m \in 0..(Filled - 1) PROVE AllDone(m)' \/ m \in DOMAIN less
  <2>1. Filled \in Int
    BY TailIs
  <2>2. m \in Int
    BY <2>1
  <2>3. AllDone(m) \/ m \in DOMAIN holds
    BY DEF Kept
  <2> QED BY <1>1, <1>2, <2>2, <2>3
<1>7. \A m \in DOMAIN less : emptied'[less[m]] = Cardinality(DoneOf(m)')
  BY <1>1, <1>2, <1>4 DEF Kept
<1> QED BY <1>1, <1>3, <1>5, <1>6, <1>7 DEF Kept

(* The producer's part when a consumer clears the entry of a filled block.  *)
LEMMA ClearIndex ==
  ASSUME NEW d, NEW a \in Int, NEW f, NEW holds, Indexes(d, a, f, holds), Tails(d, a, f), Calls(d, holds),
         ClaimInv, ConsumerOnly, NEW n \in DOMAIN holds, n \in Window(a), n < Filled,
         PutValue(EntryOf(d, n), NoBlock), NEW less, IsWithout(less, holds, n)
  PROVE  /\ Indexes(d, a, f, less)' /\ Tails(d, a, f)' /\ Calls(d, less)'
         /\ \A e \in 1..Len(idxEntries) : idxEntries'[e].key = idxEntries[e].key
<1>1. idxHeaders' = idxHeaders /\ load' = load /\ enqAt' = enqAt /\ enq' = enq
  BY DEF ConsumerOnly
<1>2. /\ Indexes(d, a, f, less)' /\ Header'.tail = Header.tail
      /\ Len(idxEntries') = Len(idxEntries)
      /\ Current' = Current /\ IndexSize(Current)' = IndexSize(Current)
      /\ \A m : SlotAt(d, Current, m)' = SlotAt(d, Current, m)
      /\ \A m : EntryOf(d, m)' = EntryOf(d, m)
      /\ \A e \in 1..Len(idxEntries) :
           idxEntries'[e].value = Uninitialized =>
             idxEntries'[e] = idxEntries[e] /\ e # EntryOf(d, n)
  BY <1>1, NullPut
<1>3. /\ SameKeys /\ EntryOf(d, n) \in 1..Len(idxEntries)
      /\ \A e \in 1..Len(idxEntries) : e # EntryOf(d, n) => idxEntries'[e] = idxEntries[e]
      /\ idxEntries'[EntryOf(d, n)].value = NoBlock
  <2>1. NoBlock \in Blocks \union {NoBlock} /\ NoBlock \notin Blocks
    BY ProducerConstants
  <2> QED BY <1>1, <2>1, ValueSet
<1>4. /\ Item(tailIndex)' = Item(tailIndex) /\ Filled' = Filled /\ Made' = Made /\ Limit' = Limit
      /\ Top' = Top /\ Undone' = Undone /\ BaseOf(Made)' = BaseOf(Made)
      /\ CallTypes => CallTypes'
  BY ProducerSame
<1>5. SlotAt(d, Current, Top)' = SlotAt(d, Current, Top) /\ SlotAt(d, Current, Made)' = SlotAt(d, Current, Made)
      /\ EntryOf(d, Made)' = EntryOf(d, Made)
  BY <1>2, <1>4 DEF SlotAt, EntryOf, EntryAt
<1>6. Tails(d, a, f)'
  <2>1. \A e \in 1..Len(idxEntries') :
          idxEntries'[e].value = Uninitialized =>
            \/ idxEntries'[e].key = InvalidBlockBase
            \/ (enqAt' \in Inserting /\ e = EntryOf(d, Made)')
    BY <1>1, <1>2, <1>5 DEF Tails
  <2> QED BY <1>1, <1>2, <1>4, <1>5, <2>1 DEF Tails, InvalidBlockBase, Uninitialized
<1>7. ASSUME ValueOf(d, Made) \notin Blocks PROVE ValueOf(d, Made)' \notin Blocks
  <2>1. CallTypes /\ Shape(d) /\ IndexTypes
    BY DEF Calls, Indexes
  <2>2. Made \in Int
    BY <2>1, CallCounts
  <2>3. EntryOf(d, Made) \in 1..Len(idxEntries)
    BY <2>1, <2>2, EntryInWindow
  <2>4. ValueOf(d, Made)' = idxEntries'[EntryOf(d, Made)].value
    BY <1>5 DEF ValueOf
  <2>5. NoBlock \notin Blocks
    BY ProducerConstants
  <2> QED BY <1>3, <1>7, <2>3, <2>4, <2>5 DEF ValueOf
<1>8. \A j \in 1..Len(enq.got) :
        IF j <= Undone THEN Filled + (j - 1) \notin DOMAIN less
        ELSE Filled + (j - 1) \in DOMAIN less /\ less[Filled + (j - 1)] = enq.got[j]
  <2> TAKE j \in 1..Len(enq.got)
  <2>1. IF j <= Undone THEN Filled + (j - 1) \notin DOMAIN holds
        ELSE Filled + (j - 1) \in DOMAIN holds /\ holds[Filled + (j - 1)] = enq.got[j]
    BY DEF Calls
  <2>2. Filled + (j - 1) # n
    <3>1. Filled \in Int /\ Len(enq.got) \in Nat
      BY TailIs, CallCounts DEF Calls
    <3>2. Filled + (j - 1) \in Int /\ Filled <= Filled + (j - 1)
      BY <3>1
    <3> QED BY <3>1, <3>2
  <2> QED BY <2>1, <2>2 DEF IsWithout
<1>9. NoEnqueue' = NoEnqueue
  BY DEF NoEnqueue
<1>10. Calls(d, less)'
  BY <1>1, <1>4, <1>5, <1>7, <1>8, <1>9 DEF Calls
<1> QED BY <1>2, <1>3, <1>6, <1>10 DEF SameKeys

LEMMA ClearEntryGoes ==
  ASSUME NEW d, NEW a, NEW f, NEW holds, LiveInv(d, a, f, holds), NEW c \in Consumers,
         ClearEntry(c), CountersStay
  PROVE  \E less : LiveInv(d, a, f, less)'
<1>1. /\ ClaimInv /\ a \in Int /\ f \in Int /\ Indexes(d, a, f, holds) /\ Calls(d, holds)
      /\ Kept(holds) /\ ~destroyed /\ Places(holds) /\ Tails(d, a, f) /\ IndexTypes /\ Shape(d)
      /\ HoldsBlocks(d, a, f, holds) /\ CallTypes
      /\ \A e \in Consumers : Looks(d, holds, e)
  BY DEF LiveInv, Indexes, Calls
<1>2. /\ dqAt[c] = "clear entry" /\ UNCHANGED <<freed, emptied>>
      /\ PutValue(DqEntry(c), NoBlock) /\ DqGoto(c, "free block", dq[c])
  BY DEF ClearEntry, PutValue
<1>3. /\ ConsumerOnly /\ UNCHANGED <<counterVars, isExplicit, load, enqAt, enq>>
  BY DEF CountersStay, ConsumerOnly
<1>4. PICK U : dq \in [Consumers -> DqLocals(U)]
  BY <1>1 DEF ClaimInv, ClaimTypes
<1>5. PICK local \in DqLocals(U) : local = dq[c]
  BY <1>4
<1>6. /\ ClaimInv' /\ dqAt'[c] = "free block" /\ dq'[c] = dq[c] /\ OthersStay(c)
      /\ Pending(c)' = Pending(c) /\ Number(c)' = Number(c)
      /\ \A k \in Int : Done(k)' <=> Done(k)
  <2>1. /\ "free block" \in Holding \union Leaving /\ dqAt[c] \in Holding \union Leaving
        /\ "free block" \in Holding <=> dqAt[c] \in Holding
    BY <1>2 DEF Holding, Leaving
  <2>2. /\ ClaimInv' /\ dqAt'[c] = "free block" /\ dq'[c] = local
        /\ \A e \in Consumers : e # c => dqAt'[e] = dqAt[e] /\ dq'[e] = dq[e]
        /\ Pending(c)' = Pending(c) /\ Number(c)' = Number(c)
        /\ \A k : Done(k)' <=> Done(k)
    BY <1>1, <1>2, <1>3, <1>5, <2>1, HoldsOn
  <2> QED BY <1>5, <2>2 DEF OthersStay
<1>7. PICK h : h = dq[c].header
  OBVIOUS
<1>8. PICK n \in DOMAIN holds : n = Number(c)
  BY <1>1, <1>2 DEF Looks
<1>9. /\ h \in 1..Current /\ \A k \in Pending(c) : Finds(d, h, k \div BlockSize)
      /\ dq[c].slot = SlotAt(d, h, n) /\ dq[c].block = holds[n]
      /\ Finds(d, h, n) /\ AllDone(n) /\ \A e \in Consumers : Clears(e, n) => e = c
  BY <1>1, <1>2, <1>7, <1>8 DEF Looks, Holding, Leaving
<1>10. DqEntry(c) = EntryOf(d, n)
  BY <1>7, <1>9 DEF DqEntry, Finds
<1>11. /\ n \in Window(a) /\ holds[n] \in Blocks /\ n \in Int /\ n < Filled
  <2>1. n \in Window(a) /\ holds[n] \in Blocks
    BY <1>1 DEF HoldsBlocks
  <2>2. n \in Int
    BY <1>1, NatIsInt DEF Kept
  <2> QED BY <1>1, <1>9, <2>1, <2>2, DoneFilled
<1>12. PICK less : IsWithout(less, holds, n)
  BY WithIs
<1>13. /\ Indexes(d, a, f, less)' /\ Tails(d, a, f)' /\ Calls(d, less)'
       /\ \A e \in 1..Len(idxEntries) : idxEntries'[e].key = idxEntries[e].key
  BY <1>1, <1>2, <1>3, <1>10, <1>11, <1>12, ClearIndex
<1>14. Kept(less)'
  <2>1. \A m : Clears(c, m) => m = n
    BY <1>8 DEF Clears
  <2> QED BY <1>1, <1>2, <1>3, <1>6, <1>9, <1>12, <2>1, ClearKept
<1>15. Places(less)'
  <2>1. HeldByConsumer(c) = {} /\ HeldByConsumer(c)' = {holds[n]}
    BY <1>2, <1>6, <1>9 DEF HeldByConsumer
  <2>2. \A m \in DOMAIN holds : holds[m] = holds[n] => m = n
    BY <1>1 DEF Kept
  <2>3. \A j \in 1..Len(enq.got) : n # Filled + (j - 1)
    <3> TAKE j \in 1..Len(enq.got)
    <3>1. Filled \in Int /\ Len(enq.got) \in Nat
      BY <1>1, TailIs, CallCounts
    <3>2. Filled + (j - 1) \in Int /\ Filled <= Filled + (j - 1)
      BY <3>1
    <3> QED BY <1>11, <3>1, <3>2
  <2>4. PICK b \in Blocks : b = holds[n]
    BY <1>11
  <2> QED BY <1>1, <1>2, <1>3, <1>6, <1>12, <2>1, <2>2, <2>3, <2>4, ClearPlaces
<1>16. ASSUME NEW e \in Consumers, e # c PROVE Looks(d, less, e)'
  <2>1. ASSUME dqAt[e] \in {"move out", "set empty", "clear entry"}
        PROVE  Number(e) \in DOMAIN less /\ less[Number(e)] = holds[Number(e)]
    <3>1. Number(e) \in DOMAIN holds /\ Number(e) # n
      <4>1. CASE dqAt[e] = "clear entry"
        <5>1. Number(e) \in DOMAIN holds
          BY <1>1, <4>1 DEF Looks
        <5> QED BY <1>9, <1>16, <4>1, <5>1 DEF Clears
      <4>2. CASE dqAt[e] # "clear entry"
        <5>1. dqAt[e] \in Holding
          BY <2>1, <4>2 DEF Holding
        <5>2. Number(e) \in DOMAIN holds /\ First(e) \in ItemsOf(Number(e)) /\ ~Done(First(e))
          BY <1>1, <5>1, NumberKept
        <5> QED BY <1>9, <5>2 DEF AllDone
      <4> QED BY <4>1, <4>2
    <3> QED BY <1>12, <3>1 DEF IsWithout
  <2>2. ASSUME dqAt[e] = "clear entry"
        PROVE  /\ AllDone(Number(e))' /\ \A x \in Consumers : Clears(x, Number(e))' => x = e
    <3>1. /\ Number(e) \in DOMAIN holds /\ AllDone(Number(e))
          /\ \A i \in Consumers : Clears(i, Number(e)) => i = e
      BY <1>1, <2>2 DEF Looks
    <3>2. PICK m \in Int : m = Number(e)
      BY <1>1, <3>1, NatIsInt DEF Kept
    <3>3. Number(e)' = m
      BY <1>3, <1>6, <1>16, <3>2, OthersSame
    <3>4. AllDone(m)'
      <4>1. \A k \in ItemsOf(m) : k \in Int
        BY ItemsIs
      <4>2. ItemsOf(m)' = ItemsOf(m)
        BY DEF ItemsOf
      <4> QED BY <1>6, <3>1, <3>2, <4>1, <4>2 DEF AllDone
    <3>5. \A i \in Consumers : Clears(i, m)' => i = e
      <4> TAKE i \in Consumers
      <4>1. CASE i = c
        BY <1>6, <4>1 DEF Clears
      <4>2. CASE i # c
        BY <1>3, <1>6, <3>1, <3>2, <4>2, OthersSame
      <4> QED BY <4>1, <4>2
    <3> QED BY <3>3, <3>4, <3>5 DEF AllDone, ItemsOf, Clears
  <2> QED BY <1>1, <1>3, <1>6, <1>13, <1>16, <2>1, <2>2, OtherLooks
<1>17. Looks(d, less, c)'
  <2>1. /\ Current' = Current
        /\ \A m : SlotAt(d, h, m)' = SlotAt(d, h, m)
        /\ \A m : Finds(d, h, m)' <=> Finds(d, h, m)
    BY <1>3, ViewSame
  <2>2. \A k \in Pending(c)' : Finds(d, h, k \div BlockSize)'
    BY <1>6, <1>9, <2>1 DEF Finds, EntryAt, EntryOf
  <2>3. SlotAt(d, h, Number(c))' = SlotAt(d, h, n)
    BY <1>6, <1>8, <2>1 DEF SlotAt
  <2> QED BY <1>6, <1>7, <1>9, <2>1, <2>2, <2>3 DEF Looks
<1>18. ~destroyed'
  BY <1>1, <1>3 DEF ConsumerOnly
<1>19. LiveInv(d, a, f, less)'
  BY <1>1, <1>6, <1>13, <1>14, <1>15, <1>16, <1>17, <1>18 DEF LiveInv
<1> QED BY <1>19

(* A block is given back: it was the consumer's, and is free now.           *)
LEMMA FreedPlaces ==
  ASSUME ConsumerOnly, NEW holds, Places(holds), NEW c \in Consumers, OthersStay(c),
         NEW b \in Blocks, HeldByConsumer(c) = {b}, HeldByConsumer(c)' = {},
         freed' = [freed EXCEPT ![b] = @ + 1]
  PROVE  Places(holds)'
<1>1. InIndex(holds)' = InIndex(holds) /\ HeldByProducer' = HeldByProducer /\ Filled' = Filled /\ enq' = enq
  BY ProducerSame DEF InIndex, ConsumerOnly
<1>2. \A e \in Consumers : e # c => HeldByConsumer(e)' = HeldByConsumer(e)
  BY OthersSame
<1>3. /\ b \notin InIndex(holds) \union HeldByProducer
      /\ \A e \in Consumers : e # c => b \notin HeldByConsumer(e)
  BY DEF Places
<1>4. ~Used(holds, b)' /\ Used(holds, b)
  BY <1>1, <1>2, <1>3 DEF Used
<1>5. \A x \in Blocks : x # b => (Used(holds, x)' <=> Used(holds, x))
  BY <1>1, <1>2 DEF Used
<1>6. freed \in [Blocks -> Int] /\ freed[b] = 0
  BY <1>4 DEF Places
<1>7. freed' \in [Blocks -> Int] /\ freed'[b] = 1 /\ \A x \in Blocks : x # b => freed'[x] = freed[x]
  BY <1>6
<1>8. \A x \in Blocks : freed'[x] = IF Used(holds, x)' THEN 0 ELSE 1
  <2> TAKE x \in Blocks
  <2>1. CASE x = b
    BY <1>4, <1>7, <2>1
  <2>2. CASE x # b
    <3>1. freed[x] = IF Used(holds, x) THEN 0 ELSE 1
      BY DEF Places
    <3> QED BY <1>5, <1>7, <2>2, <3>1
  <2> QED BY <2>1, <2>2
<1>9. \A e \in Consumers : \A x \in HeldByConsumer(e)' :
        /\ x \in Blocks /\ x \notin InIndex(holds)' \union HeldByProducer'
        /\ \A i \in Consumers : i # e => x \notin HeldByConsumer(i)'
  <2> SUFFICES ASSUME NEW e \in Consumers, NEW x \in HeldByConsumer(e)'
               PROVE  /\ x \in Blocks /\ x \notin InIndex(holds) \union HeldByProducer
                      /\ \A i \in Consumers : i # e => x \notin HeldByConsumer(i)'
    BY <1>1
  <2>1. e # c /\ x \in HeldByConsumer(e)
    BY <1>2
  <2>2. /\ x \in Blocks /\ x \notin InIndex(holds) \union HeldByProducer
        /\ \A i \in Consumers : i # e => x \notin HeldByConsumer(i)
    BY <2>1 DEF Places
  <2> QED BY <1>2, <2>2
<1> QED BY <1>1, <1>7, <1>8, <1>9 DEF Places

LEMMA AddBlockToFreeListGoes ==
  ASSUME NEW d, NEW a, NEW f, NEW holds, LiveInv(d, a, f, holds), NEW c \in Consumers,
         AddBlockToFreeList(c), CountersStay
  PROVE  LiveInv(d, a, f, holds)'
<1>1. /\ ClaimInv /\ a \in Int /\ f \in Int /\ Indexes(d, a, f, holds) /\ Calls(d, holds)
      /\ Kept(holds) /\ ~destroyed /\ Places(holds) /\ Tails(d, a, f) /\ IndexTypes /\ Shape(d)
      /\ \A e \in Consumers : Looks(d, holds, e)
  BY DEF LiveInv, Indexes
<1>2. /\ dqAt[c] = "free block" /\ UNCHANGED <<emptied, idxEntries>> /\ ImplicitNextSegment(c)
      /\ freed' = [freed EXCEPT ![dq[c].block] = @ + 1]
  BY DEF AddBlockToFreeList
<1>3. /\ ConsumerOnly /\ UNCHANGED <<counterVars, isExplicit, load, enqAt, enq>>
  BY DEF CountersStay, ConsumerOnly
<1>4. /\ ClaimInv' /\ Pending(c)' = Stop(c)..(Beyond(c) - 1) /\ OthersStay(c)
      /\ \/ dqAt'[c] = "clear entry" /\ DqGoto(c, "clear entry", dq[c])
         \/ dqAt'[c] = "idle"
         \/ /\ dqAt'[c] = "load block" /\ Stop(c) # Beyond(c)
            /\ dq'[c].header = dq[c].header /\ First(c)' = Stop(c)
            /\ dq'[c].slot = (dq[c].slot + 1) % Cardinality(DOMAIN idxHeaders[dq[c].header].index)
  <2>1. dqAt[c] \in {"set empty", "free block"}
    BY <1>2
  <2> QED BY <1>1, <1>2, <1>3, <2>1, Advances DEF OthersStay
<1>5. dqAt'[c] # "clear entry"
  <2>1. ImplicitNextSegment(c) => \E at, local : at # "clear entry" /\ DqGoto(c, at, local)
    BY DEF ImplicitNextSegment, NextSegment
  <2> QED BY <1>1, <1>2, <2>1, GotoIs
<1>6. \A k : Done(k)' <=> Done(k)
  BY <1>1, <1>2, <1>3, BlockLeft
<1>7. \A n \in Int : DoneOf(n)' = DoneOf(n) /\ (AllDone(n)' <=> AllDone(n))
  <2> TAKE n \in Int
  <2>1. ItemsOf(n)' = ItemsOf(n)
    BY DEF ItemsOf
  <2> QED BY <1>6, <2>1 DEF DoneOf, AllDone
<1>8. \A e \in Consumers : \A n : Clears(e, n)' <=> Clears(e, n)
  <2>1. \A n : ~Clears(c, n) /\ ~Clears(c, n)'
    BY <1>2, <1>5 DEF Clears
  <2>2. \A e \in Consumers : e # c => \A n : Clears(e, n)' <=> Clears(e, n)
    BY <1>3, <1>4, OthersSame
  <2> QED BY <2>1, <2>2
<1>9. Indexes(d, a, f, holds)' /\ Tails(d, a, f)' /\ Calls(d, holds)'
  BY <1>1, <1>2, <1>3, IndexIdle
<1>10. Kept(holds)'
  <2>1. \A n \in DOMAIN holds : n \in Int
    BY <1>1 DEF Kept
  <2>2. Filled \in Int
    BY <1>1, TailIs
  <2>3. \A n \in 0..(Filled - 1) : n \in Int
    BY <2>2
  <2>4. Filled' = Filled /\ Limit' = Limit /\ enq' = enq /\ tailBlock' = tailBlock
    BY <1>3, ProducerSame DEF ConsumerOnly
  <2> QED BY <1>1, <1>2, <1>7, <1>8, <2>1, <2>3, <2>4 DEF Kept
<1>11. Places(holds)'
  <2>1. HeldByConsumer(c) = {dq[c].block}
    BY <1>2 DEF HeldByConsumer
  <2>2. dq[c].block \in Blocks
    BY <1>1, <2>1 DEF Places
  <2>3. HeldByConsumer(c)' = {}
    BY <1>4, <1>5 DEF HeldByConsumer
  <2>4. PICK b \in Blocks : b = dq[c].block
    BY <2>2
  <2> QED BY <1>1, <1>2, <1>3, <1>4, <2>1, <2>3, <2>4, FreedPlaces
<1>12. ASSUME NEW e \in Consumers PROVE Looks(d, holds, e)'
  <2>1. CASE e = c
    <3>1. dqAt[c] \in {"set empty", "free block"}
      BY <1>2
    <3> QED BY <1>1, <1>3, <1>4, <1>5, <2>1, <3>1, NextLooks
  <2>2. CASE e # c
    <3>1. ASSUME dqAt[e] = "clear entry"
          PROVE  /\ Number(e) \in DOMAIN holds /\ AllDone(Number(e))'
                 /\ \A x \in Consumers : Clears(x, Number(e))' => x = e
      <4>1. /\ Number(e) \in DOMAIN holds /\ AllDone(Number(e))
            /\ \A x \in Consumers : Clears(x, Number(e)) => x = e
        BY <1>1, <3>1 DEF Looks
      <4>2. Number(e) \in Int
        BY <1>1, <4>1 DEF Kept
      <4>3. Number(e)' = Number(e)
        BY <1>3, <1>4, <2>2, OthersSame
      <4>4. AllDone(Number(e))'
        BY <1>7, <4>1, <4>2, <4>3 DEF AllDone, ItemsOf
      <4> QED BY <1>8, <4>1, <4>3, <4>4 DEF Clears
    <3> QED BY <1>1, <1>2, <1>3, <1>4, <2>2, <3>1, OtherLooks
  <2> QED BY <2>1, <2>2
<1>13. ~destroyed'
  BY <1>1, <1>3 DEF ConsumerOnly
<1> QED BY <1>1, <1>4, <1>9, <1>10, <1>11, <1>12, <1>13 DEF LiveInv

(* Every step of a consumer.                                                *)
LEMMA ConsumerStepGoes ==
  ASSUME NEW d, NEW a, NEW f, NEW holds, LiveInv(d, a, f, holds), ClaimsCovered, NEW c \in Consumers,
         ConsumerStep(c)
  PROVE  \E less : LiveInv(d, a, f, less)'
<1>1. UNCHANGED <<idxHeaders, enqAt, enq>>
  BY DEF ConsumerStep
<1>2. CASE Claims(c) /\ UNCHANGED idxEntries
  BY <1>1, <1>2, ClaimsGoes
<1>3. CASE MoveOut(c) /\ UNCHANGED idxEntries
  <2>1. OnlyLooks
    BY <1>1, <1>3 DEF MoveOut, OnlyLooks
  <2> QED BY <1>3, <2>1, MoveOutGoes
<1>4. CASE Dequeues(c)
  <2>1. UNCHANGED <<counterVars, tailBlock, isExplicit, destroyed, load>>
    BY <1>4 DEF Dequeues
  <2>2. CountersStay
    BY <1>1, <2>1 DEF CountersStay, ConsumerOnly, counterVars
  <2>3. CASE /\ LoadBlockIndex(c) \/ LoadIndexTail(c) \/ LoadTailBase(c) \/ LoadBlock(c)
             /\ UNCHANGED <<emptied, freed, idxEntries>>
    <3>1. OnlyLooks
      BY <1>1, <2>1, <2>3 DEF OnlyLooks
    <3> QED BY <2>3, <3>1, LoadBlockIndexGoes, LoadIndexTailGoes, LoadTailBaseGoes, LoadBlockGoes
  <2>4. CASE SetManyEmpty(c)
    BY <2>2, <2>4, SetManyEmptyGoes
  <2>5. CASE ClearEntry(c)
    BY <2>2, <2>5, ClearEntryGoes
  <2>6. CASE AddBlockToFreeList(c)
    BY <2>2, <2>6, AddBlockToFreeListGoes
  <2> QED BY <1>4, <2>3, <2>4, <2>5, <2>6 DEF Dequeues
<1> QED BY <1>2, <1>3, <1>4 DEF ConsumerStep

-----------------------------------------------------------------------------
(* The destructor, when no operation is under way.                          *)
AtRest == enqAt = "idle" /\ \A c \in Consumers : dqAt[c] = "idle"

(* How many elements are left, and the index of the last one.               *)
LEMMA ElementsLeft ==
  ASSUME ClaimInv
  PROVE  /\ Wrap(tailIndex - headIndex) = Item(tailIndex) - Item(headIndex)
         /\ headIndex = tailIndex <=> Item(headIndex) = Item(tailIndex)
         /\ Item(tailIndex) > 0 =>
              /\ Wrap(tailIndex - 1) \in 0..(IndexMod - 1)
              /\ Item(Wrap(tailIndex - 1)) = Item(tailIndex) - 1
<1> DEFINE M == IndexMod
           S == startIndex
           H == Item(headIndex)
           T == Item(tailIndex)
<1>1. /\ load \in Loads /\ headIndex \in 0..(M - 1) /\ tailIndex \in 0..(M - 1)
      /\ H \in 0..(M - 1) /\ T \in 0..(M - 1) /\ H <= T /\ H \in Int /\ T \in Int
  BY TailIs
<1>2. M \in Nat \ {0} /\ S \in Int
  BY <1>1, Sizes, Start
<1>3. headIndex \in Int /\ tailIndex \in Int
  BY <1>1, <1>2
<1>4. PICK k \in Int : S + H = headIndex + M * k
  BY <1>1, IndexOfItem
<1>5. PICK l \in Int : S + T = tailIndex + M * l
  BY <1>1, IndexOfItem
<1>6. headIndex = Wrap(S + H) /\ tailIndex = Wrap(S + T)
  BY <1>1, IndexOfItem
<1> HIDE DEF H, T
<1>7. Wrap(tailIndex - headIndex) = T - H
  <2>1. M * k \in Int /\ M * l \in Int /\ M * (k - l) = M * k - M * l
    BY <1>2
  <2>2. tailIndex - headIndex = (T - H) + M * (k - l)
    BY <1>1, <1>2, <1>3, <1>4, <1>5, <2>1
  <2>3. T - H \in Int /\ k - l \in Int /\ T - H \in 0..(M - 1)
    BY <1>1, <1>2
  <2>4. Wrap((T - H) + M * (k - l)) = Wrap(T - H)
    BY <2>3, WrapIs
  <2> QED BY <2>2, <2>3, <2>4, WrapIs
<1>8. headIndex = tailIndex <=> H = T
  BY <1>6 DEF H, T
<1>9. ASSUME T > 0 PROVE Wrap(tailIndex - 1) \in 0..(M - 1) /\ Item(Wrap(tailIndex - 1)) = T - 1
  <2>1. M * l \in Int /\ M * (0 - l) = 0 - M * l
    BY <1>2
  <2>2. tailIndex - 1 = (S + (T - 1)) + M * (0 - l)
    BY <1>1, <1>2, <1>3, <1>5, <2>1
  <2>3. S + (T - 1) \in Int /\ 0 - l \in Int /\ T - 1 \in Int /\ T - 1 \in 0..(M - 1)
    BY <1>1, <1>2, <1>9
  <2>4. Wrap(tailIndex - 1) = Wrap(S + (T - 1)) /\ Wrap(S + (T - 1)) \in 0..(M - 1)
    BY <2>2, <2>3, WrapIs
  <2>5. Item(Wrap(S + (T - 1))) = Wrap(T - 1)
    BY <1>1, <2>3, ItemIs
  <2> QED BY <2>3, <2>4, <2>5, WrapIs
<1> QED BY <1>7, <1>8, <1>9 DEF H, T

(* The blocks that are not free are those in the index, with the elements   *)
(* that were not dequeued.                                                  *)
LEMMA RestIs ==
  ASSUME NEW d, NEW a, NEW f, NEW holds, LiveInv(d, a, f, holds), AtRest
  PROVE  /\ enq = NoEnqueue /\ Limit = Filled /\ Top = Filled - 1
         /\ \A k \in Int : Done(k) <=> k < Item(headIndex)
         /\ \A n \in DOMAIN holds : n \in Int /\ 0 <= n /\ n < Filled /\ ~AllDone(n) /\ holds[n] \in Blocks
         /\ \A n \in Int : 0 <= n /\ n < Filled /\ ~AllDone(n) => n \in DOMAIN holds
         /\ \A b \in Blocks : freed[b] = IF b \in InIndex(holds) THEN 0 ELSE 1
         /\ Filled - 1 \in DOMAIN holds => tailBlock = holds[Filled - 1]
<1>1. /\ ClaimInv /\ Calls(d, holds) /\ Kept(holds) /\ Places(holds) /\ HoldsBlocks(d, a, f, holds)
  BY DEF LiveInv, Indexes
<1>2. enqAt = "idle" /\ \A c \in Consumers : dqAt[c] = "idle"
  BY DEF AtRest
<1>3. enq = NoEnqueue /\ enq.got = <<>> /\ enq.block = NoBlock
  BY <1>1, <1>2 DEF Calls, NoEnqueue
<1>4. Filled \in Int
  BY <1>1, TailIs
<1>5. Len(enq.got) = 0
  BY <1>3
<1>6. Limit = Filled /\ Top = Filled - 1
  <2>1. Made = Filled
    BY <1>4, <1>5 DEF Made
  <2>2. Limit = Filled
    BY <1>2, <2>1 DEF Limit
  <2> QED BY <1>2, <2>2 DEF Top, Undoing
<1>7. \A k \in Int : Done(k) <=> k < Item(headIndex)
  BY <1>2 DEF Done, Pending, Holding, Leaving
<1>8. \A n \in DOMAIN holds : n \in Int /\ 0 <= n /\ n < Filled /\ ~AllDone(n) /\ holds[n] \in Blocks
  <2> TAKE n \in DOMAIN holds
  <2>1. n \in Nat /\ n < Filled
    BY <1>1, <1>6 DEF Kept
  <2>2. ~AllDone(n)
    BY <1>1, <1>2 DEF Kept, Clears
  <2>3. holds[n] \in Blocks
    BY <1>1 DEF HoldsBlocks
  <2>4. n \in Int /\ 0 <= n
    BY <2>1
  <2> QED BY <2>1, <2>2, <2>3, <2>4
<1>9. \A n \in Int : 0 <= n /\ n < Filled /\ ~AllDone(n) => n \in DOMAIN holds
  <2> TAKE n \in Int
  <2>1. 0 <= n /\ n < Filled => n \in 0..(Filled - 1)
    BY <1>4
  <2> QED BY <1>1, <2>1 DEF Kept
<1>10. \A b \in Blocks : Used(holds, b) <=> b \in InIndex(holds)
  <2>1. NoBlock \notin Blocks
    BY ProducerConstants
  <2>2. \A b \in Blocks : b \notin HeldByProducer
    BY <1>3, <1>5, <2>1 DEF HeldByProducer
  <2>3. \A c \in Consumers : HeldByConsumer(c) = {}
    BY <1>2 DEF HeldByConsumer
  <2> QED BY <2>2, <2>3 DEF Used
<1>11. \A b \in Blocks : freed[b] = IF b \in InIndex(holds) THEN 0 ELSE 1
  BY <1>1, <1>10 DEF Places
<1>12. Filled - 1 \in DOMAIN holds => tailBlock = holds[Filled - 1]
  BY <1>1 DEF Kept
<1> QED BY <1>3, <1>6, <1>7, <1>8, <1>9, <1>11, <1>12

(* With elements left: the blocks in the index are those of these elements. *)
LEMMA LeftInIndex ==
  ASSUME NEW d, NEW a, NEW f, NEW holds, LiveInv(d, a, f, holds), AtRest,
         Item(headIndex) < Item(tailIndex)
  PROVE  /\ \A k \in Item(headIndex)..(Item(tailIndex) - 1) : k \in Int /\ k \div BlockSize \in DOMAIN holds
         /\ \A n \in DOMAIN holds : \E k \in Item(headIndex)..(Item(tailIndex) - 1) : k \div BlockSize = n
         /\ (Item(tailIndex) - 1) \div BlockSize = Filled - 1
<1>1. ClaimInv
  BY DEF LiveInv
<1>2. PICK H \in Int, T \in Int, F \in Int : H = Item(headIndex) /\ T = Item(tailIndex) /\ F = Filled
  BY <1>1, TailIs
<1>3. 0 <= H /\ H < T /\ T <= BlockSize * F /\ BlockSize * F < T + BlockSize
  <2>1. Item(headIndex) \in 0..(IndexMod - 1) /\ IndexMod \in Int
    BY <1>1, TailIs, Sizes
  <2>2. 0 <= H
    BY <1>2, <2>1
  <2> QED BY <1>1, <1>2, <2>2, TailIs
<1>4. /\ \A k \in Int : Done(k) <=> k < H
      /\ \A n \in DOMAIN holds : n \in Int /\ 0 <= n /\ n < F /\ ~AllDone(n)
      /\ \A n \in Int : 0 <= n /\ n < F /\ ~AllDone(n) => n \in DOMAIN holds
  BY <1>2, RestIs
<1>5. BlockSize \in Int /\ BlockSize > 1
  BY Sizes
<1>6. ASSUME NEW k \in H..(T - 1) PROVE k \in Int /\ k \div BlockSize \in DOMAIN holds
  <2>1. k \in Int /\ H <= k /\ k < T
    BY <1>2
  <2>2. PICK n \in Int : n = k \div BlockSize
    BY <2>1, ItemOfBlock
  <2>3. k \in ItemsOf(n) /\ BlockSize * n <= k /\ k < BlockSize * n + BlockSize
    BY <2>1, <2>2, ItemOfBlock, ItemsIs
  <2>4. n < F
    <3>1. BlockSize * n \in Int /\ BlockSize * F \in Int /\ F <= n => BlockSize * F <= BlockSize * n
      BY <1>5, Multiples
    <3>2. ~(F <= n)
      BY <1>3, <1>5, <2>1, <2>3, <3>1
    <3> QED BY <3>2
  <2>5. 0 <= n
    <3>1. BlockSize * n \in Int /\ n < 0 => BlockSize * n + BlockSize <= BlockSize * 0
      BY Multiples
    <3>2. BlockSize * 0 = 0
      BY <1>5
    <3> QED BY <1>3, <1>5, <2>1, <2>3, <3>1, <3>2
  <2>6. ~AllDone(n)
    BY <1>4, <2>1, <2>3 DEF AllDone
  <2> QED BY <1>4, <2>1, <2>2, <2>4, <2>5, <2>6
<1>7. ASSUME NEW n \in DOMAIN holds PROVE \E k \in H..(T - 1) : k \div BlockSize = n
  <2>1. n \in Int /\ n < F /\ ~AllDone(n)
    BY <1>4
  <2>2. PICK y \in ItemsOf(n) : ~Done(y)
    BY <2>1 DEF AllDone
  <2>3. y \in Int /\ BlockSize * n <= y /\ y < BlockSize * n + BlockSize /\ BlockSize * n \in Int
    BY <2>1, ItemsIs
  <2>4. H <= y
    BY <1>4, <2>2, <2>3
  <2>5. BlockSize * n < T
    <3>1. BlockSize * n + BlockSize <= BlockSize * F /\ BlockSize * F \in Int
      BY <2>1, Multiples
    <3> QED BY <1>3, <1>5, <2>3, <3>1
  <2>6. PICK k \in Int : /\ H <= k /\ k < T /\ BlockSize * n <= k /\ k < BlockSize * n + BlockSize
    <3>1. CASE H <= BlockSize * n
      BY <1>5, <2>3, <2>5, <3>1
    <3>2. CASE ~(H <= BlockSize * n)
      BY <1>3, <1>5, <2>3, <2>4, <3>2
    <3> QED BY <3>1, <3>2
  <2>7. k \in ItemsOf(n)
    BY <2>1, <2>6, ItemsIs
  <2>8. k \div BlockSize = n
    BY <2>1, <2>7, ItemOfBlock
  <2>9. k \in H..(T - 1)
    BY <2>6
  <2> QED BY <2>8, <2>9
<1>8. (T - 1) \div BlockSize = F - 1
  <2>1. BlockSize * F \in Int /\ BlockSize * (F - 1) = BlockSize * F - BlockSize
    BY <1>5
  <2>2. T - 1 \in Int /\ F - 1 \in Int
    OBVIOUS
  <2>3. BlockSize * (F - 1) <= T - 1 /\ T - 1 < BlockSize * (F - 1) + BlockSize
    BY <1>3, <1>5, <2>1
  <2>4. T - 1 \in ItemsOf(F - 1)
    BY <2>2, <2>3, ItemsIs
  <2> QED BY <2>2, <2>4, ItemOfBlock
<1> QED BY <1>2, <1>6, <1>7, <1>8

(* What the destructor reads in the index.                                  *)
BlockAt(i) ==
  idxEntries[EntryAt(Current, SlotOf(Current, Header.tail, idxEntries[EntryAt(Current, Header.tail)].key, i))].value

LEMMA BlockAtIs ==
  ASSUME NEW d, NEW a, NEW f, NEW holds, LiveInv(d, a, f, holds), NEW n \in DOMAIN holds, n < Filled,
         NEW i \in 0..(IndexMod - 1), Item(i) \div BlockSize = n
  PROVE  BlockAt(i) = holds[n]
<1>1. /\ IndexTypes /\ Shape(d) /\ HoldsBlocks(d, a, f, holds) /\ load \in Loads
      /\ Header.tail = SlotAt(d, Current, Top)
  BY TailIs DEF LiveInv, Indexes, Tails
<1>2. Top \in Int /\ KeyOf(d, Top) = BaseOf(Top)
  BY TailHasKey
<1>3. n \in Int
  BY NatIsInt DEF LiveInv, Kept
<1>4. BlockBase(i) = BaseOf(n)
  BY <1>1, BlockOfIndex
<1>5. PICK tail, base : tail = Header.tail /\ base = idxEntries[EntryAt(Current, tail)].key
  OBVIOUS
<1>6. tail = SlotAt(d, Current, Top) /\ base = BaseOf(Top)
  BY <1>1, <1>2, <1>5 DEF KeyOf, EntryOf
<1>7. Current \in 1..Current
  BY <1>1, CurrentIs
<1>8. SlotOf(Current, tail, base, i) = SlotAt(d, Current, n)
  BY <1>1, <1>2, <1>3, <1>4, <1>6, <1>7, SlotOfIs
<1>9. BlockAt(i) = ValueOf(d, n)
  BY <1>5, <1>8 DEF BlockAt, ValueOf, EntryOf
<1> QED BY <1>1, <1>9 DEF HoldsBlocks

LEMMA RemainingIs ==
  ASSUME NEW d, NEW a, NEW f, NEW holds, LiveInv(d, a, f, holds), AtRest, headIndex # tailIndex
  PROVE  /\ RemainingBlocks = InIndex(holds)
         /\ LastRemaining = tailBlock /\ tailBlock \in InIndex(holds)
<1>1. ClaimInv
  BY DEF LiveInv
<1>2. PICK H \in Int, T \in Int : H = Item(headIndex) /\ T = Item(tailIndex)
  BY <1>1, TailIs
<1>3. /\ H < T /\ 0 <= H /\ T < IndexMod /\ IndexMod \in Int /\ load \in Loads
      /\ headIndex \in 0..(IndexMod - 1)
  <2>1. Item(headIndex) \in 0..(IndexMod - 1) /\ IndexMod \in Int
    BY <1>1, TailIs, Sizes
  <2>2. 0 <= H
    BY <1>2, <2>1
  <2>3. H # T /\ H <= T
    BY <1>1, <1>2, ElementsLeft, TailIs
  <2>4. H < T
    BY <2>3
  <2> QED BY <1>1, <1>2, <2>1, <2>2, <2>4, TailIs
<1>4. /\ \A k \in H..(T - 1) : k \in Int /\ k \div BlockSize \in DOMAIN holds
      /\ \A n \in DOMAIN holds : \E k \in H..(T - 1) : k \div BlockSize = n
      /\ (T - 1) \div BlockSize = Filled - 1
  BY <1>2, <1>3, LeftInIndex
<1>5. /\ \A n \in DOMAIN holds : n < Filled
      /\ Filled - 1 \in DOMAIN holds => tailBlock = holds[Filled - 1]
  BY RestIs
<1>6. ASSUME NEW k \in H..(T - 1)
      PROVE  BlockAt(Wrap(headIndex + (k - H))) = holds[k \div BlockSize]
  <2>1. PICK j \in Nat : j = k - H
    BY <1>6
  <2>2. Item(headIndex) + j = k /\ k < IndexMod
    BY <1>2, <1>3, <1>6, <2>1
  <2>3. Wrap(headIndex + j) \in 0..(IndexMod - 1) /\ Item(Wrap(headIndex + j)) = k
    <3>1. Item(headIndex) + j < IndexMod
      BY <2>2
    <3>2. Item(Wrap(headIndex + j)) = Item(headIndex) + j /\ Wrap(headIndex + j) \in 0..(IndexMod - 1)
      BY <1>3, <3>1, ItemOfSum
    <3> QED BY <2>2, <3>2
  <2>4. PICK n \in DOMAIN holds : n = k \div BlockSize
    BY <1>4
  <2>5. PICK i \in 0..(IndexMod - 1) : i = Wrap(headIndex + j) /\ Item(i) \div BlockSize = n
    BY <2>3, <2>4
  <2>6. BlockAt(i) = holds[n]
    BY <1>5, <2>5, BlockAtIs
  <2> QED BY <2>1, <2>4, <2>5, <2>6
<1>7. RemainingBlocks = {BlockAt(Wrap(headIndex + j)) : j \in 0..(T - H - 1)}
  <2>1. Wrap(tailIndex - headIndex) = T - H
    BY <1>1, <1>2, ElementsLeft
  <2> QED BY <2>1 DEF RemainingBlocks, BlockAt, Current
<1>8. ASSUME NEW x \in RemainingBlocks PROVE x \in InIndex(holds)
  <2>1. PICK j \in 0..(T - H - 1) : x = BlockAt(Wrap(headIndex + j))
    BY <1>7
  <2>2. PICK k \in H..(T - 1) : j = k - H
    <3>1. H + j \in H..(T - 1) /\ j = (H + j) - H
      OBVIOUS
    <3> QED BY <3>1
  <2>3. x = holds[k \div BlockSize]
    BY <1>6, <2>1, <2>2
  <2> QED BY <1>4, <2>3 DEF InIndex
<1>9. ASSUME NEW x \in InIndex(holds) PROVE x \in RemainingBlocks
  <2>1. PICK n \in DOMAIN holds : x = holds[n]
    BY DEF InIndex
  <2>2. PICK k \in H..(T - 1) : k \div BlockSize = n
    BY <1>4
  <2>3. x = BlockAt(Wrap(headIndex + (k - H)))
    BY <1>6, <2>1, <2>2
  <2>4. k - H \in 0..(T - H - 1)
    OBVIOUS
  <2> QED BY <1>7, <2>3, <2>4
<1>10. T - 1 \in H..(T - 1)
  BY <1>3
<1>11. PICK n \in DOMAIN holds : n = (T - 1) \div BlockSize /\ n = Filled - 1
  BY <1>4, <1>10
<1>12. LastRemaining = tailBlock
  <2>1. T > 0
    BY <1>3
  <2>2. PICK i \in 0..(IndexMod - 1) : i = Wrap(tailIndex - 1) /\ Item(i) = T - 1
    BY <1>1, <1>2, <2>1, ElementsLeft
  <2>3. Item(i) \div BlockSize = n
    BY <1>11, <2>2
  <2>4. BlockAt(i) = holds[n]
    BY <1>5, <2>3, BlockAtIs
  <2>5. LastRemaining = BlockAt(i)
    BY <2>2 DEF LastRemaining, BlockAt, Current
  <2> QED BY <1>5, <1>11, <2>4, <2>5
<1>13. tailBlock \in InIndex(holds)
  BY <1>5, <1>11 DEF InIndex
<1> QED BY <1>8, <1>9, <1>12, <1>13

(* With none left: the block the producer was filling, if it was.           *)
LEMMA NoneRemaining ==
  ASSUME NEW d, NEW a, NEW f, NEW holds, LiveInv(d, a, f, holds), AtRest, headIndex = tailIndex
  PROVE  InIndex(holds) = IF tailBlock # NoBlock /\ BlockOffset(tailIndex) # 0 THEN {tailBlock} ELSE {}
<1>1. ClaimInv
  BY DEF LiveInv
<1>2. PICK T \in Int, F \in Int : T = Item(headIndex) /\ T = Item(tailIndex) /\ F = Filled
  BY <1>1, TailIs, ElementsLeft
<1>3. /\ 0 <= T /\ T <= BlockSize * F /\ BlockSize * F < T + BlockSize /\ BlockSize * F \in Int
      /\ 0 <= F /\ BlockSize \in Int /\ BlockSize > 1
  <2>1. Item(headIndex) \in 0..(IndexMod - 1) /\ IndexMod \in Int /\ Filled \in Nat
    BY <1>1, TailIs, Sizes
  <2>2. 0 <= T /\ 0 <= F
    BY <1>2, <2>1
  <2> QED BY <1>1, <1>2, <2>2, TailIs, Multiples, Sizes
<1>4. /\ \A k \in Int : Done(k) <=> k < T
      /\ \A n \in DOMAIN holds : n \in Int /\ 0 <= n /\ n < F /\ ~AllDone(n) /\ holds[n] \in Blocks
      /\ \A n \in Int : 0 <= n /\ n < F /\ ~AllDone(n) => n \in DOMAIN holds
      /\ F - 1 \in DOMAIN holds => tailBlock = holds[F - 1]
  BY <1>2, RestIs
<1>5. BlockOffset(tailIndex) = T % BlockSize
  <2>1. load \in Loads /\ tailIndex \in 0..(IndexMod - 1)
    BY <1>1, TailIs
  <2> QED BY <1>2, <2>1, BlockOfIndex
<1>6. BlockOffset(tailIndex) = 0 <=> T = BlockSize * F
  <2>1. ASSUME T = BlockSize * F PROVE T % BlockSize = 0
    <3>1. BlockSize \in Nat \ {0} /\ 0 \in 0..(BlockSize - 1) /\ T = BlockSize * F + 0
      BY <1>3, <2>1
    <3> QED BY <3>1, Division
  <2>2. ASSUME T % BlockSize = 0 PROVE T = BlockSize * F
    <3>1. BlockSize \in Nat \ {0}
      BY <1>3
    <3>2. T \div BlockSize \in Int /\ T = BlockSize * (T \div BlockSize) + (T % BlockSize)
      BY <3>1, Divides
    <3>3. PICK q \in Int : q = T \div BlockSize /\ T = BlockSize * q + 0
      BY <2>2, <3>2
    <3>4. PICK w \in Int : w = BlockSize * q /\ T = w
      BY <3>3, Multiples
    <3>5. ASSUME q < F PROVE FALSE
      <4>1. w + BlockSize <= BlockSize * F
        BY <3>4, <3>5, Multiples
      <4> QED BY <1>3, <3>4, <4>1
    <3>6. ASSUME F < q PROVE FALSE
      <4>1. BlockSize * F + BlockSize <= w
        BY <3>4, <3>6, Multiples
      <4> QED BY <1>3, <3>4, <4>1
    <3> QED BY <3>4, <3>5, <3>6
  <2> QED BY <1>5, <2>1, <2>2
<1>7. ASSUME NEW n \in DOMAIN holds PROVE n = F - 1 /\ T # BlockSize * F
  <2>1. n \in Int /\ n < F /\ ~AllDone(n)
    BY <1>4
  <2>2. PICK y \in ItemsOf(n) : ~Done(y)
    BY <2>1 DEF AllDone
  <2>3. y \in Int /\ BlockSize * n <= y /\ y < BlockSize * n + BlockSize /\ BlockSize * n \in Int
    BY <2>1, ItemsIs
  <2>4. T <= y
    BY <1>4, <2>2, <2>3
  <2>5. ASSUME n < F - 1 PROVE FALSE
    <3>1. n + 1 \in Int /\ n + 1 < F
      BY <2>1, <2>5
    <3>2. BlockSize * (n + 1) + BlockSize <= BlockSize * F /\ BlockSize * (n + 1) = BlockSize * n + BlockSize
      BY <2>1, <3>1, Multiples
    <3> QED BY <1>3, <2>3, <2>4, <3>2
  <2>6. BlockSize * n + BlockSize <= BlockSize * F
    BY <2>1, Multiples
  <2>7. T # BlockSize * F
    BY <1>3, <2>3, <2>4, <2>6
  <2> QED BY <2>1, <2>5, <2>7
<1>8. ASSUME T # BlockSize * F PROVE F - 1 \in DOMAIN holds
  <2>1. BlockSize * (F - 1) = BlockSize * F - BlockSize
    BY <1>3
  <2>2. T \in ItemsOf(F - 1)
    <3>1. BlockSize * (F - 1) <= T /\ T < BlockSize * (F - 1) + BlockSize
      BY <1>3, <1>8, <2>1
    <3> QED BY <3>1, ItemsIs
  <2>3. ~AllDone(F - 1)
    BY <1>4, <2>2 DEF AllDone
  <2>4. F # 0
    <3>1. F = 0 => BlockSize * F = 0
      BY <1>3
    <3> QED BY <1>3, <1>8, <3>1
  <2>5. F - 1 \in Int /\ 0 <= F - 1 /\ F - 1 < F
    BY <1>3, <2>4
  <2> QED BY <1>4, <2>3, <2>5
<1>9. CASE T = BlockSize * F
  BY <1>6, <1>7, <1>9 DEF InIndex
<1>10. CASE T # BlockSize * F
  <2>1. F - 1 \in DOMAIN holds /\ tailBlock = holds[F - 1] /\ tailBlock \in Blocks
    BY <1>4, <1>8, <1>10
  <2>2. tailBlock # NoBlock
    BY <2>1, ProducerConstants
  <2>3. InIndex(holds) = {tailBlock}
    BY <1>7, <2>1 DEF InIndex
  <2> QED BY <1>6, <1>10, <2>2, <2>3
<1> QED BY <1>9, <1>10

(* All blocks are free after the destructor.                                *)
Gone == destroyed /\ AtRest /\ freed = [b \in Blocks |-> 1]

LEMMA DestroyFrees ==
  ASSUME NEW d, NEW a, NEW f, NEW holds, LiveInv(d, a, f, holds), Destroy
  PROVE  Gone'
<1> DEFINE old == IF headIndex = tailIndex THEN {} ELSE RemainingBlocks \ {LastRemaining}
           last == IF tailBlock # NoBlock /\ (headIndex # tailIndex \/ BlockOffset(tailIndex) # 0)
                   THEN {tailBlock} ELSE {}
<1>1. AtRest /\ destroyed' = TRUE /\ UNCHANGED <<enqAt, dqAt>>
  BY DEF Destroy, AtRest
<1>2. freed' = [b \in Blocks |-> freed[b] + (IF b \in old THEN 1 ELSE 0) + (IF b \in last THEN 1 ELSE 0)]
  BY DEF Destroy
<1>3. ASSUME NEW b \in Blocks
      PROVE  IF b \in InIndex(holds) THEN (b \in old <=> b \notin last) ELSE b \notin old /\ b \notin last
  <2>1. CASE headIndex = tailIndex
    BY <1>1, <2>1, NoneRemaining
  <2>2. CASE headIndex # tailIndex
    <3>1. RemainingBlocks = InIndex(holds) /\ LastRemaining = tailBlock /\ tailBlock \in InIndex(holds)
      BY <1>1, <2>2, RemainingIs
    <3>2. tailBlock # NoBlock
      <4>1. InIndex(holds) \subseteq Blocks
        BY <1>1, RestIs DEF InIndex
      <4> QED BY <3>1, <4>1, ProducerConstants
    <3> QED BY <2>2, <3>1, <3>2
  <2> QED BY <2>1, <2>2
<1> HIDE DEF old, last
<1>4. \A b \in Blocks : freed[b] = IF b \in InIndex(holds) THEN 0 ELSE 1
  BY <1>1, RestIs
<1>5. \A b \in Blocks : freed[b] + (IF b \in old THEN 1 ELSE 0) + (IF b \in last THEN 1 ELSE 0) = 1
  BY <1>3, <1>4
<1>6. freed' = [b \in Blocks |-> 1]
  BY <1>2, <1>5
<1> QED BY <1>1, <1>6 DEF Gone, AtRest

-----------------------------------------------------------------------------
(* Initial states: q blocks were used and given back, block n has the key   *)
(* of the q + n-th, as far back as the index goes.                          *)
UsedIn(q, slot) == {p \in 0..(q - 1) : p % InitialIndexSize = slot}
UsedBlocks == startIndex \div BlockSize
Offset == [h \in Nat |-> UsedBlocks]

LEMMA UsedIs ==
  ASSUME NEW q \in Nat, NEW n \in (-InitialIndexSize)..(-1), NEW s, s = (n + q) % InitialIndexSize
  PROVE  IF n >= -q THEN /\ n + q \in UsedIn(q, s) /\ n + q \in Nat
                         /\ \A p \in UsedIn(q, s) : p <= n + q
         ELSE UsedIn(q, s) = {}
<1> DEFINE N == InitialIndexSize
<1>1. N \in Nat \ {0}
  BY ImplicitConstants
<1> HIDE DEF N
<1>2. n \in Int /\ n \in (-N)..(-1)
  BY <1>1 DEF N
<1>3. ASSUME NEW p \in 0..(q - 1), p % N = s PROVE p <= n + q
  <2>1. ASSUME n + q < p PROVE FALSE
    <3>1. PICK x \in (q - N)..(q - 1), y \in (q - N)..(q - 1), o \in Int :
            x = n + q /\ y = p /\ o = 0
      <4>1. n + q \in (q - N)..(q - 1) /\ p \in (q - N)..(q - 1) /\ 0 \in Int
        BY <1>1, <1>2, <2>1
      <4> QED BY <4>1
    <3>2. x + o = n + q /\ y + o = p
      BY <1>2, <3>1
    <3>3. (x + o) % N = (y + o) % N
      BY <1>3, <3>2 DEF N
    <3>5. q \in Int
      OBVIOUS
    <3>4. n + q = p
      BY <1>1, <3>1, <3>3, <3>5, SlotsDiffer
    <3> QED BY <1>2, <2>1, <3>4
  <2> QED BY <1>2, <2>1
<1>4. CASE n >= -q
  <2>1. n + q \in 0..(q - 1) /\ n + q \in Nat
    BY <1>2, <1>4
  <2> QED BY <1>3, <1>4, <2>1 DEF UsedIn, N
<1>5. CASE ~(n >= -q)
  <2>1. \A p \in 0..(q - 1) : p % N # s
    BY <1>2, <1>3, <1>5
  <2> QED BY <1>5, <2>1 DEF UsedIn, N
<1> QED BY <1>4, <1>5

LEMMA LastKeyIs ==
  ASSUME load \in Loads, NEW n \in (-InitialIndexSize)..(-1)
  PROVE  /\ UsedBlocks \in Nat /\ startIndex = BlockSize * UsedBlocks
         /\ LastKey((n + UsedBlocks) % InitialIndexSize) =
              IF n >= -UsedBlocks THEN BaseOf(n) ELSE InvalidBlockBase
<1>1. startIndex \in Int /\ 0 <= startIndex /\ startIndex < IndexMod /\ IndexMod \in Int
      /\ BlockSize \in Nat \ {0}
  BY Start, Sizes
<1>2. PICK k \in Int : startIndex = BlockSize * k
  BY Start
<1>3. PICK q \in Nat : q = UsedBlocks /\ startIndex = BlockSize * q
  <2>1. 0 \in 0..(BlockSize - 1) /\ startIndex = BlockSize * k + 0
    BY <1>1, <1>2
  <2>2. UsedBlocks = k
    BY <1>1, <2>1, Division DEF UsedBlocks
  <2>3. 0 <= k
    <3>1. k < 0 => BlockSize * k + BlockSize <= BlockSize * 0
      BY Multiples
    <3>2. BlockSize * 0 = 0 /\ BlockSize * k \in Int
      BY <1>1
    <3> QED BY <1>1, <1>2, <3>1, <3>2
  <2>4. k \in Nat
    BY <2>3
  <2> QED BY <1>2, <2>2, <2>4
<1>4. PICK s : s = (n + q) % InitialIndexSize
  OBVIOUS
<1>5. UsedIn(q, s) = {p \in 0..(startIndex \div BlockSize - 1) : p % InitialIndexSize = s}
  BY <1>3 DEF UsedIn, UsedBlocks
<1>6. LastKey(s) = IF UsedIn(q, s) = {} THEN InvalidBlockBase
                   ELSE BlockSize * CHOOSE x \in UsedIn(q, s) : \A p \in UsedIn(q, s) : p <= x
  BY <1>5 DEF LastKey
<1>7. CASE n >= -q
  <2>1. PICK z \in UsedIn(q, s) : z = n + q /\ z \in Nat /\ \A p \in UsedIn(q, s) : p <= z
    BY <1>4, <1>7, UsedIs
  <2>2. \A x \in UsedIn(q, s) : x \in Int
    BY DEF UsedIn
  <2>3. z = CHOOSE x \in UsedIn(q, s) : \A p \in UsedIn(q, s) : p <= x
    <3>1. \A x \in UsedIn(q, s) : (\A p \in UsedIn(q, s) : p <= x) => x = z
      BY <2>1, <2>2
    <3> QED BY <2>1, <3>1
  <2>4. LastKey(s) = BlockSize * z
    BY <1>6, <2>1, <2>3
  <2>5. n \in Int /\ n < 0 /\ z \in Int /\ z < q /\ 0 <= z
    <3>1. InitialIndexSize \in Nat
      BY ImplicitConstants
    <3>2. n \in Int /\ n < 0
      BY <3>1
    <3> QED BY <2>1, <3>2
  <2>6. BaseOf(n) = BlockSize * z
    <3>1. BlockSize * (n + q) = BlockSize * n + BlockSize * q
      BY <1>1, <2>5
    <3>2. startIndex + BlockSize * n = BlockSize * z
      <4>1. BlockSize * n \in Int
        BY <2>5, Multiples
      <4> QED BY <1>1, <1>3, <2>1, <3>1, <4>1
    <3>3. BlockSize * z \in Int /\ 0 <= BlockSize * z /\ BlockSize * z + BlockSize <= BlockSize * q
      <4>1. BlockSize * z + BlockSize <= BlockSize * q
        BY <2>5, Multiples
      <4>2. BlockSize * z \in Int
        BY <2>5, Multiples
      <4>3. 0 <= BlockSize * z
        <5>1. z = 0 \/ BlockSize * 0 + BlockSize <= BlockSize * z
          BY <2>5, Multiples
        <5>2. BlockSize * 0 = 0
          BY <1>1
        <5> QED BY <1>1, <4>2, <5>1, <5>2
      <4> QED BY <4>1, <4>2, <4>3
    <3>4. PICK w \in Int : w = BlockSize * z /\ w \in 0..(IndexMod - 1)
      BY <1>1, <1>3, <3>3
    <3>5. Wrap(w) = w
      BY <3>4, WrapIs
    <3> QED BY <3>2, <3>4, <3>5 DEF BaseOf
  <2> QED BY <1>3, <1>4, <1>7, <2>4, <2>6
<1>8. CASE ~(n >= -q)
  <2>1. UsedIn(q, s) = {}
    BY <1>4, <1>8, UsedIs
  <2> QED BY <1>3, <1>4, <1>6, <1>8, <2>1
<1> QED BY <1>7, <1>8

(* The index of an initial state.                                           *)
LEMMA InitIndexTypes ==
  ASSUME load \in Loads, IndexInit
  PROVE  /\ IndexTypes /\ Current = 1 /\ Len(idxEntries) = InitialIndexSize
         /\ IndexSize(1) = InitialIndexSize /\ Header.tail = (UsedBlocks - 1) % InitialIndexSize
         /\ \A s \in 0..(InitialIndexSize - 1) : EntryAt(1, s) = s + 1
         /\ \A s \in 0..(InitialIndexSize - 1) :
              /\ idxEntries[s + 1].key = LastKey(s)
              /\ idxEntries[s + 1].value =
                   IF LastKey(s) = InvalidBlockBase THEN Uninitialized ELSE NoBlock
<1> DEFINE N == InitialIndexSize
           x == [tail |-> (UsedBlocks - 1) % N, index |-> [slot \in 0..(N - 1) |-> slot + 1]]
<1>1. N \in Nat \ {0}
  BY ImplicitConstants
<1>2. idxHeaders = <<x>> /\ idxHeaders[1] = x /\ Len(idxHeaders) = 1
  BY DEF IndexInit, UsedBlocks
<1>3. UsedBlocks \in Nat
  <2>1. -1 \in (-N)..(-1)
    BY <1>1
  <2> QED BY <2>1, LastKeyIs
<1>4. x.tail \in Int
  BY <1>1, <1>3, Divides
<1>5. x.index \in [0..(N - 1) -> Nat]
  BY <1>1
<1>6. x \in HeaderSet
  BY <1>1, <1>4, <1>5 DEF HeaderSet
<1>7. idxHeaders \in Seq(HeaderSet) /\ idxHeaders # <<>>
  <2> HIDE DEF x
  <2> QED BY <1>2, <1>6
<1>8. ASSUME NEW s \in 0..(N - 1)
      PROVE  LastKey(s) \in Int
  <2>1. PICK m \in (-N)..(-1) : (m + UsedBlocks) % N = s
    <3>1. PICK q \in Int, z \in Int : q = UsedBlocks /\ z = 0
      BY <1>3
    <3>2. PICK u \in Int : u = s - q
      BY <1>1, <3>1
    <3>3. PICK y \in (z - N)..(z - 1) : (y + q) % N = (u + q) % N
      BY <1>1, SlotReached
    <3>4. u + q = s /\ s % N = s
      BY <1>1, <3>1, <3>2, SmallRest
    <3>5. y \in (-N)..(-1)
      BY <1>1, <3>1
    <3> QED BY <3>1, <3>3, <3>4, <3>5
  <2>2. LastKey(s) = IF m >= -UsedBlocks THEN BaseOf(m) ELSE InvalidBlockBase
    BY <2>1, LastKeyIs
  <2>3. BaseOf(m) \in Int
    <3>1. m \in Int
      BY <1>1
    <3> QED BY <3>1, BaseIs
  <2> QED BY <2>2, <2>3 DEF InvalidBlockBase
<1>9. idxEntries = [e \in 1..N |->
       [key |-> LastKey(e - 1),
        value |-> IF LastKey(e - 1) = InvalidBlockBase THEN Uninitialized ELSE NoBlock]]
  BY DEF IndexInit
<1>10. ASSUME NEW e \in 1..N PROVE idxEntries[e] \in EntrySet
  <2>1. e - 1 \in 0..(N - 1)
    BY <1>1
  <2>2. LastKey(e - 1) \in Int
    BY <1>8, <2>1
  <2> QED BY <1>9, <2>2 DEF EntrySet
<1>11. idxEntries \in Seq(EntrySet) /\ Len(idxEntries) = N
  <2>1. idxEntries \in [1..N -> EntrySet]
    BY <1>9, <1>10
  <2> QED BY <1>1, <2>1
<1>12. Current = 1
  BY <1>2 DEF Current
<1>13. IndexSize(1) = N
  <2>1. DOMAIN idxHeaders[1].index = 0..(N - 1)
    BY <1>2
  <2>2. 0 \in Int /\ N - 1 \in Int /\ (0 > N - 1 <=> N < 1) /\ (N - 1) - 0 + 1 = N
    BY <1>1
  <2>3. Cardinality(0..(N - 1)) = N
    BY <1>1, <2>2, FS_Interval
  <2> QED BY <2>1, <2>3 DEF IndexSize
<1>14. \A s \in 0..(N - 1) : EntryAt(1, s) = s + 1
  BY <1>2 DEF EntryAt
<1>15. Header.tail = (UsedBlocks - 1) % N
  BY <1>2 DEF Header
<1>16. \A s \in 0..(N - 1) :
         /\ idxEntries[s + 1].key = LastKey(s)
         /\ idxEntries[s + 1].value = IF LastKey(s) = InvalidBlockBase THEN Uninitialized ELSE NoBlock
  <2> TAKE s \in 0..(N - 1)
  <2>1. s + 1 \in 1..N /\ (s + 1) - 1 = s
    BY <1>1
  <2> QED BY <1>9, <2>1
<1> QED BY <1>7, <1>11, <1>12, <1>13, <1>14, <1>15, <1>16 DEF IndexTypes

(* Of every slot, the number before 0 of the block that had it last.        *)
LEMMA InitEntries ==
  ASSUME load \in Loads, IndexInit
  PROVE  /\ UsedBlocks \in Nat /\ Offset \in [Nat -> Int] /\ Offset[Current] = UsedBlocks
         /\ \A n \in Int : SlotAt(Offset, 1, n) = (n + UsedBlocks) % InitialIndexSize
                           /\ SlotAt(Offset, 1, n) \in 0..(InitialIndexSize - 1)
                           /\ EntryOf(Offset, n) = SlotAt(Offset, 1, n) + 1
         /\ \A n \in Window(0) :
              /\ n \in Int
              /\ KeyOf(Offset, n) = IF n >= -UsedBlocks THEN BaseOf(n) ELSE InvalidBlockBase
              /\ ValueOf(Offset, n) = IF n >= -UsedBlocks THEN NoBlock ELSE Uninitialized
         /\ \A s \in 0..(InitialIndexSize - 1) : \E n \in Window(0) : s = SlotAt(Offset, 1, n)
<1> DEFINE N == InitialIndexSize
           q == UsedBlocks
<1>1. N \in Nat \ {0}
  BY ImplicitConstants
<1>2. q \in Nat
  <2>1. -1 \in (-N)..(-1)
    BY <1>1
  <2> QED BY <2>1, LastKeyIs
<1>3. /\ Current = 1 /\ IndexSize(1) = N
      /\ \A s \in 0..(N - 1) : EntryAt(1, s) = s + 1
      /\ \A s \in 0..(N - 1) :
           /\ idxEntries[s + 1].key = LastKey(s)
           /\ idxEntries[s + 1].value = IF LastKey(s) = InvalidBlockBase THEN Uninitialized ELSE NoBlock
  BY InitIndexTypes
<1>4. Offset \in [Nat -> Int] /\ Offset[1] = q /\ Offset[Current] = q
  BY <1>2, <1>3 DEF Offset
<1> HIDE DEF N, q
<1>5. ASSUME NEW n \in Int
      PROVE  /\ SlotAt(Offset, 1, n) = (n + q) % N /\ SlotAt(Offset, 1, n) \in 0..(N - 1)
             /\ EntryOf(Offset, n) = SlotAt(Offset, 1, n) + 1
  <2>1. SlotAt(Offset, 1, n) = (n + q) % N
    BY <1>3, <1>4 DEF SlotAt
  <2>2. (n + q) % N \in 0..(N - 1)
    <3>1. n + q \in Int
      BY <1>2
    <3> QED BY <1>1, <3>1, Divides
  <2> QED BY <1>3, <2>1, <2>2 DEF EntryOf
<1>6. Window(0) = (-N)..(-1)
  <2>1. 0 - N = -N /\ 0 - 1 = -1
    BY <1>1
  <2> QED BY <1>3, <2>1 DEF Window
<1>7. ASSUME NEW n \in Window(0)
      PROVE  /\ n \in Int
             /\ KeyOf(Offset, n) = IF n >= -q THEN BaseOf(n) ELSE InvalidBlockBase
             /\ ValueOf(Offset, n) = IF n >= -q THEN NoBlock ELSE Uninitialized
  <2>1. n \in Int /\ n \in (-N)..(-1)
    BY <1>1, <1>6
  <2>2. LastKey((n + q) % N) = IF n >= -q THEN BaseOf(n) ELSE InvalidBlockBase
    BY <2>1, LastKeyIs DEF N, q
  <2>3. PICK s \in 0..(N - 1) : s = (n + q) % N /\ EntryOf(Offset, n) = s + 1
    BY <1>5, <2>1
  <2>4. KeyOf(Offset, n) = LastKey(s)
    BY <1>3, <2>3 DEF KeyOf
  <2>5. ValueOf(Offset, n) = IF LastKey(s) = InvalidBlockBase THEN Uninitialized ELSE NoBlock
    BY <1>3, <2>3 DEF ValueOf
  <2>6. BaseOf(n) # InvalidBlockBase
    BY <2>1, BaseIs
  <2> QED BY <2>1, <2>2, <2>3, <2>4, <2>5, <2>6
<1>8. ASSUME NEW s \in 0..(N - 1) PROVE \E n \in Window(0) : s = SlotAt(Offset, 1, n)
  <2>1. PICK p \in Int, z \in Int : p = q /\ z = 0
    BY <1>2
  <2>2. PICK u \in Int : u = s - p
    BY <1>1
  <2>3. PICK y \in (z - N)..(z - 1) : (y + p) % N = (u + p) % N
    BY <1>1, SlotReached
  <2>4. u + p = s /\ s % N = s
    BY <1>1, <2>2, SmallRest
  <2>5. y \in (-N)..(-1) /\ y \in Int
    BY <1>1, <2>1
  <2> QED BY <1>5, <1>6, <2>1, <2>3, <2>4, <2>5
<1> QED BY <1>2, <1>4, <1>5, <1>7, <1>8 DEF N, q

LEMMA InitIndexes ==
  ASSUME load \in Loads, IndexInit, NEW holds, DOMAIN holds = {}, NEW zero, zero = 0, NEW f, f = -UsedBlocks
  PROVE  Indexes(Offset, zero, f, holds) /\ f \in Int /\ f <= 0
<1> DEFINE N == InitialIndexSize
<1>1. N \in Nat \ {0} /\ RangeOfBases % N = 0
  BY ImplicitConstants DEF RangeOfBases
<1>2. /\ IndexTypes /\ Current = 1 /\ Len(idxEntries) = N /\ IndexSize(1) = N
      /\ \A s \in 0..(N - 1) : EntryAt(1, s) = s + 1
  BY InitIndexTypes
<1>3. /\ UsedBlocks \in Nat /\ Offset \in [Nat -> Int]
      /\ \A n \in Int : SlotAt(Offset, 1, n) = (n + UsedBlocks) % N
                        /\ SlotAt(Offset, 1, n) \in 0..(N - 1)
                        /\ EntryOf(Offset, n) = SlotAt(Offset, 1, n) + 1
      /\ \A n \in Window(0) :
           /\ n \in Int
           /\ KeyOf(Offset, n) = IF n >= -UsedBlocks THEN BaseOf(n) ELSE InvalidBlockBase
           /\ ValueOf(Offset, n) = IF n >= -UsedBlocks THEN NoBlock ELSE Uninitialized
      /\ \A s \in 0..(N - 1) : \E n \in Window(0) : s = SlotAt(Offset, 1, n)
  BY InitEntries
<1> HIDE DEF N
<1>4. 1..Current = {1}
  BY <1>2
<1>5. Shape(Offset)
  <2>1. N % N = 0
    <3>1. 0 \in 0..(N - 1) /\ N = N * 1 + 0
      BY <1>1
    <3> QED BY <1>1, <3>1, Division
  <2>2. \A h \in 1..Current : RangeOfBases % IndexSize(h) = 0 /\ IndexSize(Current) % IndexSize(h) = 0
    BY <1>1, <1>2, <1>4, <2>1
  <2>3. \A h \in 1..Current : \A s \in 0..(IndexSize(h) - 1) : EntryAt(h, s) \in 1..Len(idxEntries)
    <3>1. \A s \in 0..(N - 1) : s + 1 \in 1..N
      BY <1>1
    <3> QED BY <1>2, <1>4, <3>1
  <2>4. \A e \in 1..Len(idxEntries) : \E n \in Int : e = EntryOf(Offset, n)
    <3> TAKE e \in 1..Len(idxEntries)
    <3>1. e - 1 \in 0..(N - 1) /\ (e - 1) + 1 = e
      BY <1>1, <1>2
    <3> QED BY <1>3, <3>1
  <2>5. \A h \in 1..Current : \A s \in 0..(IndexSize(h) - 1) : \A n \in Int :
          EntryAt(h, s) = EntryOf(Offset, n) => s = SlotAt(Offset, h, n)
    <3> SUFFICES ASSUME NEW s \in 0..(N - 1), NEW n \in Int, s + 1 = EntryOf(Offset, n)
                 PROVE  s = SlotAt(Offset, 1, n)
      BY <1>2, <1>4
    <3>1. PICK r \in 0..(N - 1) : r = SlotAt(Offset, 1, n) /\ s + 1 = r + 1
      BY <1>3
    <3> QED BY <1>1, <3>1
  <2> QED BY <1>3, <2>2, <2>3, <2>4, <2>5 DEF Shape
<1>6. Keys(Offset)
  <2>1. ASSUME NEW s \in 0..(N - 1), idxEntries[EntryAt(1, s)].key # InvalidBlockBase
        PROVE  \E n \in Int : idxEntries[EntryAt(1, s)].key = BaseOf(n) /\ s = SlotAt(Offset, 1, n)
    <3>1. PICK n \in Window(0) : s = SlotAt(Offset, 1, n)
      BY <1>3
    <3>2. n \in Int /\ EntryAt(1, s) = EntryOf(Offset, n)
      BY <1>2, <1>3, <3>1
    <3>3. idxEntries[EntryAt(1, s)].key = KeyOf(Offset, n)
      BY <3>2 DEF KeyOf
    <3>4. KeyOf(Offset, n) = BaseOf(n)
      BY <1>3, <2>1, <3>1, <3>3
    <3> QED BY <3>1, <3>2, <3>3, <3>4
  <2>2. \A h \in 1..Current : h = Current /\ h = 1 /\ IndexSize(h) = N
    BY <1>2, <1>4
  <2> QED BY <2>1, <2>2 DEF Keys
<1>7. KeysUpTo(Offset, zero, f)
  BY <1>3 DEF KeysUpTo
<1>8. HoldsBlocks(Offset, zero, f, holds)
  <2>1. NoBlock \notin Blocks /\ Uninitialized \notin Blocks
    BY ProducerConstants, ImplicitConstants
  <2> QED BY <1>3, <2>1 DEF HoldsBlocks
<1>9. f \in Int /\ f <= 0
  BY <1>3
<1> QED BY <1>2, <1>5, <1>6, <1>7, <1>8, <1>9 DEF Indexes

LEMMA InitCounts ==
  ASSUME ImplicitInit
  PROVE  /\ ClaimInv /\ load \in Loads /\ Item(tailIndex) = 0 /\ Filled = 0 /\ Made = 0 /\ Limit = 0
         /\ Top = -1 /\ CallTypes /\ enqAt = "idle" /\ enq = NoEnqueue /\ enq.block \notin Blocks
         /\ Len(enq.got) = 0
<1>1. /\ isExplicit = FALSE /\ load \in Loads
      /\ tailIndex = startIndex /\ headIndex = startIndex
      /\ dequeueOptimisticCount = startIndex /\ dequeueOvercommit = 0
      /\ dqAt = [c \in Consumers |-> "idle"] /\ dq = [c \in Consumers |-> NoDequeue]
      /\ enqAt = "idle" /\ enq = NoEnqueue
  BY DEF ImplicitInit, BaseInit, IndexInit
<1>2. startIndex \in 0..(IndexMod - 1) /\ startIndex \in Int
  BY <1>1, Start, Sizes
<1>3. Item(tailIndex) = 0 /\ Item(headIndex) = 0
  <2>1. PICK z \in Int : z = 0
    OBVIOUS
  <2>2. startIndex - startIndex = z /\ z \in 0..(IndexMod - 1)
    BY <1>2, <2>1, Sizes
  <2>3. Wrap(z) = z
    BY <2>2, WrapIs
  <2> QED BY <1>1, <2>1, <2>2, <2>3 DEF Item
<1>4. ClaimTypes
  <2>1. dqAt \in [Consumers -> Claiming \union Holding \union Leaving]
    BY <1>1 DEF Claiming
  <2>2. dq \in [Consumers -> DqLocals({0, NoBlock})]
    BY <1>1, NoDequeueIs
  <2> QED BY <1>1, <1>2, <2>1, <2>2 DEF ClaimTypes
<1>5. \A c \in Consumers : Counted(c) /\ Ranged(c) /\ Pending(c) = {}
  BY <1>1 DEF Counted, Ranged, Pending, Holding, Leaving
<1>6. 0 <= load.items
  BY <1>1, ProducerConstants
<1>7. ClaimInv
  BY <1>1, <1>3, <1>4, <1>5, <1>6 DEF ClaimInv
<1>8. enq.got = <<>> /\ enq.block = NoBlock /\ NoBlock \notin Blocks
  BY <1>1, ProducerConstants DEF NoEnqueue
<1>9. CallTypes
  <2>1. NoEnqueue \in EnqueueCall
    BY DEF NoEnqueue, EnqueueCall
  <2> QED BY <1>1, <2>1 DEF CallTypes, EnqueuePlaces
<1>10. Filled = 0
  <2>1. PICK t \in Int, n \in Int : t = 0 /\ n = 0
    OBVIOUS
  <2>2. BlockSize * n = 0 /\ BlockSize \in Int /\ BlockSize > 1
    BY <2>1, Sizes
  <2>3. t <= BlockSize * n /\ BlockSize * n < t + BlockSize
    BY <2>1, <2>2
  <2>4. (t + BlockSize - 1) \div BlockSize = n
    BY <2>3, FilledIs
  <2> QED BY <1>3, <2>1, <2>4 DEF Filled
<1>11. Len(enq.got) = 0
  BY <1>8
<1>12. Made = 0 /\ Limit = 0
  BY <1>1, <1>10, <1>11 DEF Made, Limit
<1>13. Top = -1
  BY <1>1, <1>12 DEF Top, Undoing
<1> QED BY <1>1, <1>3, <1>7, <1>8, <1>9, <1>10, <1>11, <1>12, <1>13

LEMMA InitLives ==
  ASSUME ImplicitInit
  PROVE  \E d, a, f, holds : LiveInv(d, a, f, holds)
<1>1. PICK holds : DOMAIN holds = {}
  <2>1. DOMAIN [n \in {} |-> NoBlock] = {}
    OBVIOUS
  <2> QED BY <2>1
<1>2. PICK zero, f : zero \in Int /\ zero = 0 /\ f = -UsedBlocks
  OBVIOUS
<1>3. /\ ClaimInv /\ load \in Loads /\ Item(tailIndex) = 0 /\ Filled = 0 /\ Made = 0 /\ Limit = 0
      /\ Top = -1 /\ CallTypes /\ enqAt = "idle" /\ enq = NoEnqueue /\ enq.block \notin Blocks
      /\ Len(enq.got) = 0
  BY InitCounts
<1>4. IndexInit /\ BaseInit(FALSE)
  BY DEF ImplicitInit
<1>5. Indexes(Offset, zero, f, holds) /\ f \in Int /\ f <= 0
  BY <1>1, <1>2, <1>3, <1>4, InitIndexes
<1>6. Tails(Offset, zero, f)
  <2>1. IndexTypes /\ Header.tail = (UsedBlocks - 1) % InitialIndexSize
        /\ Current = 1 /\ IndexSize(1) = InitialIndexSize /\ Len(idxEntries) = InitialIndexSize
        /\ \A s \in 0..(InitialIndexSize - 1) :
              /\ idxEntries[s + 1].key = LastKey(s)
              /\ idxEntries[s + 1].value =
                   IF LastKey(s) = InvalidBlockBase THEN Uninitialized ELSE NoBlock
    BY <1>3, <1>4, InitIndexTypes
  <2>2. zero <= Filled + IndexSize(Current) /\ f <= Filled /\ Top < zero
    <3>1. InitialIndexSize \in Nat
      BY ImplicitConstants
    <3> QED BY <1>2, <1>3, <1>5, <2>1, <3>1
  <2>3. Header.tail = SlotAt(Offset, Current, Top)
    <3>1. UsedBlocks \in Nat /\ \A n \in Int : SlotAt(Offset, 1, n) = (n + UsedBlocks) % InitialIndexSize
      BY <1>3, <1>4, InitEntries
    <3>2. Top \in Int /\ Top + UsedBlocks = UsedBlocks - 1
      BY <1>3, <3>1
    <3>3. SlotAt(Offset, 1, Top) = (Top + UsedBlocks) % InitialIndexSize
      BY <3>1, <3>2
    <3> QED BY <2>1, <3>2, <3>3
  <2>4. \A e \in 1..Len(idxEntries) : idxEntries[e].value = Uninitialized => idxEntries[e].key = InvalidBlockBase
    <3> TAKE e \in 1..Len(idxEntries)
    <3>1. InitialIndexSize \in Nat
      BY ImplicitConstants
    <3>2. e - 1 \in 0..(InitialIndexSize - 1) /\ (e - 1) + 1 = e
      BY <2>1, <3>1
    <3>3. PICK s \in 0..(InitialIndexSize - 1) : s + 1 = e
      BY <3>2
    <3>4. NoBlock # Uninitialized
      BY DEF NoBlock, Uninitialized
    <3> QED BY <2>1, <3>3, <3>4
  <2> QED BY <1>3, <2>2, <2>3, <2>4 DEF Tails, Inserting
<1>7. Calls(Offset, holds)
  BY <1>3 DEF Calls, Inserting, Undoing
<1>8. Kept(holds)
  <2>1. emptied \in [Blocks -> Int]
    BY <1>4 DEF BaseInit
  <2>2. 0..(Filled - 1) = {}
    BY <1>3
  <2> QED BY <1>1, <1>3, <2>1, <2>2 DEF Kept
<1>9. \A c \in Consumers : dqAt[c] = "idle"
  BY <1>4 DEF BaseInit
<1>10. Places(holds)
  <2>1. freed = [b \in Blocks |-> 1]
    BY <1>4 DEF BaseInit
  <2>2. \A c \in Consumers : HeldByConsumer(c) = {}
    BY <1>9 DEF HeldByConsumer
  <2>3. InIndex(holds) = {}
    BY <1>1 DEF InIndex
  <2>4. 1..Len(enq.got) = {}
    BY <1>3
  <2>5. \A b \in Blocks : ~Used(holds, b)
    BY <1>3, <2>2, <2>3, <2>4 DEF Used, HeldByProducer
  <2> QED BY <1>1, <1>3, <2>1, <2>2, <2>3, <2>4, <2>5 DEF Places
<1>11. \A c \in Consumers : Looks(Offset, holds, c)
  BY <1>9 DEF Looks, Holding, Leaving
<1>12. ~destroyed
  BY <1>4 DEF BaseInit
<1>13. LiveInv(Offset, zero, f, holds)
  BY <1>2, <1>3, <1>5, <1>6, <1>7, <1>8, <1>10, <1>11, <1>12 DEF LiveInv
<1> QED BY <1>13

-----------------------------------------------------------------------------
(* The inductive invariant: some numbering of the blocks fits the index, or *)
(* the producer is gone.                                                    *)
ImplicitInv == (\E d, a, f, holds : LiveInv(d, a, f, holds)) \/ Gone

LEMMA LiveSteps ==
  ASSUME NEW d, NEW a, NEW f, NEW holds, LiveInv(d, a, f, holds), ClaimsCovered, ImplicitNext
  PROVE  ImplicitInv'
<1>1. CASE \E count \in load.bulk : EnqueueBulk(count)
  <2>1. PICK count : Bulk(count)
    BY <1>1 DEF Bulk
  <2> QED BY <2>1, EnqueueBulkGoes DEF ImplicitInv
<1>2. CASE EnqueueStep
  BY <1>2, EnqueueGoes DEF ImplicitInv
<1>3. CASE \E c \in Consumers : ConsumerStep(c)
  <2>1. PICK c \in Consumers : ConsumerStep(c)
    BY <1>3
  <2> QED BY <2>1, ConsumerStepGoes DEF ImplicitInv
<1>4. CASE Destroy
  BY <1>4, DestroyFrees DEF ImplicitInv
<1> QED BY <1>1, <1>2, <1>3, <1>4 DEF ImplicitNext

LEMMA Stutters ==
  ASSUME ImplicitInv, UNCHANGED implicitVars
  PROVE  ImplicitInv'
<1> USE DEF implicitVars, baseVars, counterVars, indexVars
<1>1. ASSUME NEW d, NEW a, NEW f, NEW holds, LiveInv(d, a, f, holds) PROVE LiveInv(d, a, f, holds)'
  <2>1. /\ ClaimInv /\ a \in Int /\ f \in Int /\ Indexes(d, a, f, holds) /\ Tails(d, a, f)
        /\ Calls(d, holds) /\ Kept(holds) /\ Places(holds) /\ ~destroyed
        /\ \A c \in Consumers : Looks(d, holds, c)
    BY <1>1 DEF LiveInv
  <2>2. /\ ConsumerOnly /\ idxEntries' = idxEntries /\ \A k : Done(k)' <=> Done(k)
    BY DEF ConsumerOnly, Done, Pending, First, Beyond, Stop, Number, Item, startIndex
  <2>3. Indexes(d, a, f, holds)' /\ Tails(d, a, f)' /\ Calls(d, holds)'
    BY <2>1, <2>2, IndexIdle
  <2>4. ClaimInv'
    BY <2>1 DEF ClaimInv, ClaimTypes, Counted, Ranged, Pending, First, Beyond, Stop, Number, Item, startIndex
  <2>5. /\ \A n : DoneOf(n)' = DoneOf(n) /\ (AllDone(n)' <=> AllDone(n))
        /\ \A c, n : Clears(c, n)' <=> Clears(c, n)
        /\ \A c : HeldByConsumer(c)' = HeldByConsumer(c) /\ Pending(c)' = Pending(c) /\ Number(c)' = Number(c)
    BY <2>2 DEF DoneOf, AllDone, ItemsOf, Clears, HeldByConsumer, Pending, First, Beyond, Stop, Number, Item, startIndex
  <2>6. Filled' = Filled /\ Limit' = Limit /\ HeldByProducer' = HeldByProducer
    BY <2>2, ProducerSame
  <2>7. Kept(holds)'
    BY <2>1, <2>5, <2>6 DEF Kept
  <2>8. Places(holds)'
    <3>1. InIndex(holds)' = InIndex(holds)
      BY DEF InIndex
    <3>2. \A b : Used(holds, b)' <=> Used(holds, b)
      BY <2>5, <2>6, <3>1 DEF Used
    <3> QED BY <2>1, <2>5, <2>6, <3>1, <3>2 DEF Places
  <2>9. \A c \in Consumers : Looks(d, holds, c)'
    <3> TAKE c \in Consumers
    <3>1. Looks(d, holds, c)
      BY <2>1
    <3>2. /\ \A h : IndexSize(h)' = IndexSize(h) /\ \A s : EntryAt(h, s)' = EntryAt(h, s)
          /\ \A h, n : SlotAt(d, h, n)' = SlotAt(d, h, n) /\ (Finds(d, h, n)' <=> Finds(d, h, n))
          /\ Current' = Current
      BY <2>2, ViewSame
    <3> QED BY <2>5, <3>1, <3>2 DEF Looks
  <2> QED BY <2>1, <2>3, <2>4, <2>7, <2>8, <2>9 DEF LiveInv
<1>2. Gone => Gone'
  BY DEF Gone, AtRest
<1> QED BY <1>1, <1>2 DEF ImplicitInv

LEMMA ImplicitSteps ==
  ASSUME ImplicitInv, ClaimsCovered, [ImplicitNext]_implicitVars
  PROVE  ImplicitInv'
<1>1. CASE UNCHANGED implicitVars
  BY <1>1, Stutters
<1>2. CASE ImplicitNext
  <2>1. CASE Gone
    <3>1. destroyed /\ enqAt = "idle"
      BY <2>1 DEF Gone, AtRest
    <3>2. ~EnqueueStep
      BY <3>1 DEF EnqueueStep, CheckHead, InsertEntry, StoreIndexTail, NewBlockIndex, NoBlockIndex,
                  RequisitionBlock, NoBlockAvailable, StoreValue, RewindTail, NullValue, UndoValue,
                  FreeBlocks, Fill, PublishTail
    <3>3. \A count : ~EnqueueBulk(count)
      BY <3>1 DEF EnqueueBulk
    <3>4. ~Destroy /\ \A c : ~ConsumerStep(c)
      BY <3>1 DEF Destroy, ConsumerStep
    <3> QED BY <1>2, <3>2, <3>3, <3>4 DEF ImplicitNext
  <2>2. CASE \E d, a, f, holds : LiveInv(d, a, f, holds)
    BY <1>2, <2>2, LiveSteps
  <2> QED BY <2>1, <2>2 DEF ImplicitInv
<1> QED BY <1>1, <1>2

LEMMA BlocksFromInv ==
  ASSUME ImplicitInv
  PROVE  BlocksInOnePlace
<1>1. CASE Gone
  BY <1>1 DEF Gone, BlocksInOnePlace
<1>2. CASE \E d, a, f, holds : LiveInv(d, a, f, holds)
  <2>1. PICK d, a, f, holds : LiveInv(d, a, f, holds)
    BY <1>2
  <2>2. /\ ~destroyed /\ Places(holds) /\ HoldsBlocks(d, a, f, holds) /\ IndexTypes /\ Shape(d) /\ a \in Int
        /\ Kept(holds)
    BY <2>1 DEF LiveInv, Indexes
  <2>3. ASSUME NEW b \in Blocks PROVE b \in Indexed <=> b \in InIndex(holds)
    <3>1. ASSUME b \in Indexed PROVE b \in InIndex(holds)
      <4>1. PICK e \in 1..Len(idxEntries) : idxEntries[e].value = b
        BY <3>1 DEF Indexed
      <4>2. PICK n \in Int : e = EntryOf(d, n)
        BY <2>2 DEF Shape
      <4>3. PICK m \in Window(a) : e = EntryOf(d, m)
        BY <2>2, <4>2, EntryInWindow
      <4>4. ValueOf(d, m) = b
        BY <4>1, <4>3 DEF ValueOf
      <4>5. m \in DOMAIN holds /\ holds[m] = b
        BY <2>2, <4>3, <4>4 DEF HoldsBlocks
      <4> QED BY <4>5 DEF InIndex
    <3>2. ASSUME b \in InIndex(holds) PROVE b \in Indexed
      <4>1. PICK n \in DOMAIN holds : holds[n] = b
        BY <3>2 DEF InIndex
      <4>2. ValueOf(d, n) = b
        BY <2>2, <4>1 DEF HoldsBlocks
      <4>3. n \in Int
        BY <2>2, NatIsInt DEF Kept
      <4>4. EntryOf(d, n) \in 1..Len(idxEntries)
        BY <2>2, <4>3, EntryInWindow
      <4> QED BY <4>2, <4>4 DEF Indexed, ValueOf
    <3> QED BY <3>1, <3>2
  <2>4. \A b \in Blocks : freed[b] = IF Used(holds, b) THEN 0 ELSE 1
    BY <2>2 DEF Places
  <2> QED BY <2>2, <2>3, <2>4 DEF BlocksInOnePlace, Used
<1> QED BY <1>1, <1>2 DEF ImplicitInv

LEMMA FoundFromInv ==
  ASSUME ImplicitInv
  PROVE  EntryFound
<1> SUFFICES ASSUME NEW c \in Consumers, dqAt[c] = "load block"
             PROVE  /\ idxEntries[DqEntry(c)].key = BlockBase(dq[c].index)
                    /\ idxEntries[DqEntry(c)].value \in Blocks
  BY DEF EntryFound
<1>1. PICK d, a, f, holds : LiveInv(d, a, f, holds)
  BY DEF ImplicitInv, Gone, AtRest
<1>2. /\ KeysUpTo(d, a, f) /\ load \in Loads
  BY <1>1, TailIs DEF LiveInv, Indexes
<1>3. /\ DqEntry(c) = EntryOf(d, Number(c)) /\ Number(c) \in DOMAIN holds /\ Number(c) \in Int
      /\ ValueOf(d, Number(c)) = holds[Number(c)] /\ holds[Number(c)] \in Blocks
      /\ dq[c].index \in 0..(IndexMod - 1) /\ Number(c) >= f /\ Number(c) \in Window(a)
  BY <1>1, FoundIs
<1>4. KeyOf(d, Number(c)) = BaseOf(Number(c))
  BY <1>2, <1>3 DEF KeysUpTo
<1>5. BlockBase(dq[c].index) = BaseOf(Number(c))
  BY <1>2, <1>3, BlockOfIndex DEF Number, First
<1> QED BY <1>3, <1>4, <1>5 DEF KeyOf, ValueOf

(* enqueue, enqueue_bulk, dequeue, dequeue_bulk and the destructor keep the *)
(* numbering of the blocks, as long as nobody takes more than is there.     *)
THEOREM ImplicitKept == ImplicitSpec /\ []ClaimsCovered => []ImplicitInv
<1>1. ImplicitInit => ImplicitInv
  BY InitLives DEF ImplicitInv
<1>2. ImplicitInv /\ ClaimsCovered /\ [ImplicitNext]_implicitVars => ImplicitInv'
  BY ImplicitSteps
<1> QED BY <1>1, <1>2, PTL DEF ImplicitSpec

(* Every block of the queue is in one place, also when an enqueue that      *)
(* failed half way gave its blocks back while consumers freed theirs, and   *)
(* after the destructor: as long as nobody takes more than is there.        *)
THEOREM EveryBlockInOnePlace == ImplicitSpec /\ []ClaimsCovered => []BlocksInOnePlace
<1>1. ImplicitInv => BlocksInOnePlace
  BY BlocksFromInv
<1> QED BY <1>1, ImplicitKept, PTL

(* get_block_index_index_for_index: a consumer that has elements finds the  *)
(* entry of their block, whatever the producer does to the index meanwhile. *)
THEOREM EveryEntryFound == ImplicitSpec /\ []ClaimsCovered => []EntryFound
<1>1. ImplicitInv => EntryFound
  BY FoundFromInv
<1> QED BY <1>1, ImplicitKept, PTL
=============================================================================
