----------------------------- MODULE BufferProofs -----------------------------
(***************************************************************************)
(* The octet buffer gives back what was written to it, at the places its   *)
(* sizes tell, for any values, strings and length of the buffer, and for   *)
(* any number of items.                                                    *)
(***************************************************************************)
EXTENDS Buffer, FiniteSetTheorems, WellFoundedInduction, TLAPS

-----------------------------------------------------------------------------
(* Least and greatest numbers.                                             *)
Below == {pair \in Nat \X Nat : pair[1] < pair[2]}

(* A set of natural numbers has a least one.                               *)
LEMMA Least ==
  ASSUME NEW S \in SUBSET Nat, S # {}
  PROVE  \E m \in S : \A k \in S : m <= k
<1>1. IsWellFoundedOn(Below, Nat)
  BY NatLessThanWellFounded DEF OpToRel, Below
<1>2. PICK m \in S : \A k \in S : <<k, m>> \notin Below
  BY <1>1, WFMin
<1>3. \A k \in S : ~(k < m)
  BY <1>2 DEF Below
<1>. QED
  BY <1>3

(* Min is the least number of a set.                                       *)
LEMMA MinIs ==
  ASSUME NEW S \in SUBSET Nat, NEW m \in S, \A k \in S : m <= k
  PROVE  Min(S) = m
<1>1. Min(S) \in S /\ \A k \in S : Min(S) <= k
  BY DEF Min
<1>2. Min(S) <= m /\ m <= Min(S) /\ m \in Nat /\ Min(S) \in Nat
  BY <1>1
<1>. QED
  BY <1>2

(* Max is the greatest number of a word.                                   *)
LEMMA MaxIs ==
  ASSUME NEW v \in SUBSET Word, v # {}
  PROVE  Max(v) \in v /\ \A k \in v : k <= Max(v)
<1>. DEFINE S == {63 - i : i \in v}
<1>0. \A i \in v : i \in 0..63
  BY DEF Word
<1>1. S \in SUBSET Nat /\ S # {}
  BY <1>0
<1>2. PICK m \in S : \A k \in S : m <= k
  BY <1>1, Least
<1>3. PICK i \in v : m = 63 - i
  BY <1>2
<1>4. ASSUME NEW k \in v PROVE k <= i
  <2>1. 63 - i <= 63 - k
    BY <1>2, <1>3
  <2>. QED
    BY <1>0, <2>1
<1>5. \E x \in v : \A k \in v : x >= k
  BY <1>4 DEF Word
<1>. QED
  BY <1>5 DEF Max, Word

-----------------------------------------------------------------------------
(* Shifts.                                                                 *)

(* A shift to the right and back leaves the bits in between.               *)
LEMMA Shifted ==
  ASSUME NEW v \in SUBSET Word, NEW p \in Nat, NEW w \in Nat
  PROVE  /\ Low(Shr(v, p), w) \in SUBSET Word
         /\ Shl(Low(Shr(v, p), w), p) = {i \in v : p <= i /\ i < p + w}
<1>1. Low(Shr(v, p), w) \in SUBSET Word
  BY DEF Low, Shr, Word
<1>2. ASSUME NEW i \in Shl(Low(Shr(v, p), w), p)
      PROVE  i \in v /\ p <= i /\ i < p + w
  <2>1. PICK j \in Low(Shr(v, p), w) : i = j + p
    BY <1>2 DEF Shl
  <2>2. PICK k \in v : k >= p /\ j = k - p
    BY DEF Low, Shr
  <2>. QED
    BY <2>1, <2>2 DEF Low, Word
<1>3. ASSUME NEW i \in v, p <= i, i < p + w
      PROVE  i \in Shl(Low(Shr(v, p), w), p)
  <2>1. i - p \in Shr(v, p)
    BY <1>3 DEF Shr
  <2>2. i - p \in Low(Shr(v, p), w)
    BY <1>3, <2>1 DEF Low, Word
  <2>3. i = (i - p) + p /\ i \in Word
    BY <1>3 DEF Word
  <2>. QED
    BY <2>2, <2>3 DEF Shl
<1>. QED
  BY <1>1, <1>2, <1>3

(* What is shifted to the left stays a word.                               *)
LEMMA ShlWord == ASSUME NEW v, NEW p PROVE Shl(v, p) \in SUBSET Word
BY DEF Shl

-----------------------------------------------------------------------------
(* Integers of a fixed width.                                              *)
(* PutUint makes n octets.                                                 *)
LEMMA PutUintType ==
  ASSUME NEW v \in SUBSET Word, NEW n \in 1..8, NEW order
  PROVE  PutUint(v, n, order) \in Seq(Octet) /\ Len(PutUint(v, n, order)) = n
<1>1. \A j \in 1..n : Place(j, n, order) \in Nat
  BY DEF Place
<1>2. \A p \in Nat : Low(Shr(v, p), 8) \in Octet
  BY DEF Low, Shr, Octet, Word
<1>3. PutUint(v, n, order) = [j \in 1..n |-> Low(Shr(v, Place(j, n, order)), 8)]
  BY DEF PutUint
<1>4. PutUint(v, n, order) \in [1..n -> Octet]
  BY <1>1, <1>2, <1>3
<1>. QED
  BY <1>4

(* Octets that PutUint has written are read by GetUint as the lowest bits  *)
(* of the value, whatever the order.                                       *)
LEMMA UintBack ==
  ASSUME NEW v \in SUBSET Word, NEW n \in 1..8, NEW order, NEW b,
         \A j \in 1..n : b[j] = PutUint(v, n, order)[j]
  PROVE  GetUint(b, n, order) = Low(v, 8 * n)
<1>1. \A j \in 1..n : /\ Place(j, n, order) \in Nat
                      /\ b[j] = Low(Shr(v, Place(j, n, order)), 8)
  BY DEF Place, PutUint
<1>2. ASSUME NEW j \in 1..n
      PROVE  Shl(b[j], Place(j, n, order))
               = {i \in v : Place(j, n, order) <= i /\ i < Place(j, n, order) + 8}
  <2>1. Shl(Low(Shr(v, Place(j, n, order)), 8), Place(j, n, order))
          = {i \in v : Place(j, n, order) <= i /\ i < Place(j, n, order) + 8}
    BY <1>1, Shifted
  <2>. QED
    BY <1>1, <2>1
<1>3. ASSUME NEW i \in GetUint(b, n, order)
      PROVE  i \in Low(v, 8 * n)
  <2>1. PICK j \in 1..n : i \in Shl(b[j], Place(j, n, order))
    BY <1>3 DEF GetUint
  <2>2. i \in v /\ i < Place(j, n, order) + 8
    BY <1>2, <2>1
  <2>3. Place(j, n, order) + 8 <= 8 * n
    BY DEF Place
  <2>4. Place(j, n, order) \in Nat
    BY <1>1
  <2>. QED
    BY <2>2, <2>3, <2>4 DEF Low, Word
<1>4. ASSUME NEW i \in Low(v, 8 * n)
      PROVE  i \in GetUint(b, n, order)
  <2>1. i \in v /\ i \in 0..63 /\ i < 8 * n
    BY <1>4 DEF Low, Word
  <2>2. \E j \in 1..n : Place(j, n, order) <= i /\ i < Place(j, n, order) + 8
    <3>. DEFINE o == i \div 8
    <3>1. /\ o \in 0..n - 1
          /\ 8 * o <= i /\ i < 8 * o + 8
      BY <2>1
    <3>2. CASE order = "LE"
      <4>1. o + 1 \in 1..n /\ Place(o + 1, n, order) = 8 * o
        BY <3>1, <3>2 DEF Place
      <4>. QED
        BY <3>1, <4>1
    <3>3. CASE order # "LE"
      <4>1. n - o \in 1..n /\ Place(n - o, n, order) = 8 * o
        BY <3>1, <3>3 DEF Place
      <4>. QED
        BY <3>1, <4>1
    <3>. QED
      BY <3>2, <3>3
  <2>. QED
    BY <1>2, <2>1, <2>2 DEF GetUint
<1>. QED
  BY <1>3, <1>4
-----------------------------------------------------------------------------
(* Variable-length integers.                                               *)

(* How many octets of a value say that more follow.                        *)
TopGroup(v) == IF v = {} THEN 0 ELSE Max(v) \div 7

(* The groups of seven bits up to that one hold the whole value, and the   *)
(* last of several is not empty.                                           *)
LEMMA TopGroupIs ==
  ASSUME NEW v \in SUBSET Word
  PROVE  /\ TopGroup(v) \in 0..9
         /\ \A i \in v : i < 7 * TopGroup(v) + 7
         /\ TopGroup(v) # 0 => \E i \in v : i >= 7 * TopGroup(v)
<1>1. CASE v = {}
  BY <1>1 DEF TopGroup
<1>2. CASE v # {}
  <2>. DEFINE m == Max(v)
  <2>1. m \in v /\ (\A i \in v : i <= m) /\ m \in 0..63
    BY <1>2, MaxIs DEF Word
  <2>2. TopGroup(v) = m \div 7
    BY <1>2 DEF TopGroup
  <2>. HIDE DEF m
  <2>3. m \div 7 \in 0..9 /\ 7 * (m \div 7) <= m /\ m < 7 * (m \div 7) + 7
    BY <2>1
  <2>4. \A i \in v : i \in 0..63
    BY DEF Word
  <2>. QED
    BY <2>1, <2>2, <2>3, <2>4
<1>. QED
  BY <1>1, <1>2

(* The octets of a value.                                                  *)
LEMMA PutUvarintType ==
  ASSUME NEW v \in SUBSET Word
  PROVE  /\ PutUvarint(v) \in Seq(Octet)
         /\ Len(PutUvarint(v)) = TopGroup(v) + 1
         /\ \A j \in 1..TopGroup(v) + 1 :
              /\ 7 \in PutUvarint(v)[j] <=> j <= TopGroup(v)
              /\ PutUvarint(v)[j] \ {7} = Low(Shr(v, 7 * (j - 1)), 7)
<1>. DEFINE l == TopGroup(v)
            f == PutUvarint(v)
<1>1. l \in 0..9
  BY TopGroupIs
<1>2. f = [j \in 1..l + 1 |-> Low(Shr(v, 7 * (j - 1)), 7) \cup IF j <= l THEN {7} ELSE {}]
  BY DEF PutUvarint, TopGroup
<1>. HIDE DEF l, f
<1>3. ASSUME NEW j \in 1..l + 1
      PROVE  /\ f[j] \in Octet
             /\ 7 \in f[j] <=> j <= l
             /\ f[j] \ {7} = Low(Shr(v, 7 * (j - 1)), 7)
  <2>1. f[j] = Low(Shr(v, 7 * (j - 1)), 7) \cup IF j <= l THEN {7} ELSE {}
    BY <1>2
  <2>2. Low(Shr(v, 7 * (j - 1)), 7) \in SUBSET (0..6)
    BY <1>1 DEF Low, Shr, Word
  <2>. QED
    BY <2>1, <2>2 DEF Octet
<1>4. f \in [1..l + 1 -> Octet]
  BY <1>2, <1>3
<1>5. f \in Seq(Octet) /\ Len(f) = l + 1
  BY <1>1, <1>4
<1>. QED
  BY <1>3, <1>5 DEF l, f

(* UvarintSize tells their number.                                         *)
LEMMA UvarintSizeIs ==
  ASSUME NEW v \in SUBSET Word
  PROVE  UvarintSize(v) = TopGroup(v) + 1 /\ UvarintSize(v) \in 1..10
<1>. DEFINE l == TopGroup(v)
            S == {i \in 1..10 : Shr(v, 7 * i) = {}}
<1>1. /\ l \in 0..9
      /\ \A i \in v : i < 7 * l + 7
      /\ l # 0 => \E i \in v : i >= 7 * l
  BY TopGroupIs
<1>. HIDE DEF l
<1>2. Shr(v, 7 * (l + 1)) = {}
  BY <1>1 DEF Shr, Word
<1>3. l + 1 \in S
  BY <1>1, <1>2
<1>4. ASSUME NEW k \in S PROVE l + 1 <= k
  <2>1. SUFFICES ASSUME k <= l PROVE FALSE
    BY <1>1
  <2>2. PICK i \in v : i >= 7 * l
    BY <1>1, <2>1
  <2>3. i >= 7 * k /\ i \in 0..63
    BY <1>1, <2>1, <2>2 DEF Word
  <2>4. i - 7 * k \in Shr(v, 7 * k)
    BY <2>3 DEF Shr
  <2>. QED
    BY <2>4
<1>5. S \in SUBSET Nat
  OBVIOUS
<1>. HIDE DEF S
<1>6. Min(S) = l + 1
  BY <1>3, <1>4, <1>5, MinIs
<1>. QED
  BY <1>1, <1>6 DEF UvarintSize, S, l

(* Octets that PutUvarint has written are read as the value, and no others *)
(* with them.                                                              *)
LEMMA UvarintBack ==
  ASSUME NEW v \in SUBSET Word, NEW b \in Seq(Octet), TopGroup(v) + 1 <= Len(b),
         \A j \in 1..TopGroup(v) + 1 : b[j] = PutUvarint(v)[j]
  PROVE  GetUvarint(b) = [v |-> v, n |-> TopGroup(v) + 1]
<1>. DEFINE l == TopGroup(v)
            ends == {j \in DOMAIN b : 7 \notin b[j]}
<1>1. /\ l \in 0..9
      /\ \A i \in v : i < 7 * l + 7
  BY TopGroupIs
<1>2. \A j \in 1..l + 1 : /\ 7 \in b[j] <=> j <= l
                          /\ b[j] \ {7} = Low(Shr(v, 7 * (j - 1)), 7)
  BY PutUvarintType
<1>0. l + 1 <= Len(b)
  OBVIOUS
<1>. HIDE DEF l
<1>3. DOMAIN b = 1..Len(b) /\ Len(b) \in Nat
  OBVIOUS
<1>4. ends \in SUBSET Nat /\ l + 1 \in ends /\ \A k \in ends : l + 1 <= k
  BY <1>0, <1>1, <1>2, <1>3
<1>5. Min(ends) = l + 1
  BY <1>4, MinIs
<1>6. l + 1 = 10 => b[l + 1] \subseteq {0}
  <2>1. SUFFICES ASSUME l = 9 PROVE b[10] \subseteq {0}
    BY <1>1
  <2>2. 7 \notin b[10] /\ b[10] \ {7} = Low(Shr(v, 7 * (10 - 1)), 7)
    BY <1>1, <1>2, <2>1
  <2>3. \A i \in v : i \in 0..63
    BY DEF Word
  <2>4. ASSUME NEW o \in Shr(v, 63) PROVE o = 0
    <3>1. PICK i \in v : i >= 63 /\ o = i - 63
      BY DEF Shr
    <3>2. i \in 0..63
      BY <2>3
    <3>. QED
      BY <3>1, <3>2
  <2>5. 7 * (10 - 1) = 63
    OBVIOUS
  <2>6. b[10] = Low(Shr(v, 63), 7)
    <3>1. b[10] = b[10] \ {7}
      BY <2>2
    <3>2. Low(Shr(v, 7 * (10 - 1)), 7) = Low(Shr(v, 63), 7)
      BY <2>5, Zenon
    <3>. QED
      BY <2>2, <3>1, <3>2, Zenon
  <2>. QED
    BY <2>4, <2>6 DEF Low
<1>7. ASSUME NEW j \in 1..l + 1
      PROVE  Shl(b[j] \ {7}, 7 * (j - 1)) = {i \in v : 7 * (j - 1) <= i /\ i < 7 * (j - 1) + 7}
  <2>1. 7 * (j - 1) \in Nat
    BY <1>1
  <2>2. Shl(Low(Shr(v, 7 * (j - 1)), 7), 7 * (j - 1))
          = {i \in v : 7 * (j - 1) <= i /\ i < 7 * (j - 1) + 7}
    BY <2>1, Shifted
  <2>. QED
    BY <1>2, <2>2
<1>8. UNION {Shl(b[j] \ {7}, 7 * (j - 1)) : j \in 1..l + 1} = v
  <2>1. ASSUME NEW i \in v
        PROVE  \E j \in 1..l + 1 : i \in Shl(b[j] \ {7}, 7 * (j - 1))
    <3>1. i \in 0..63 /\ i < 7 * l + 7
      BY <1>1 DEF Word
    <3>. DEFINE o == i \div 7
    <3>2. o + 1 \in 1..l + 1 /\ 7 * o <= i /\ i < 7 * o + 7
      BY <1>1, <3>1
    <3>3. o = (o + 1) - 1
      BY <3>1
    <3>. HIDE DEF o
    <3>4. i \in Shl(b[o + 1] \ {7}, 7 * ((o + 1) - 1))
      BY <1>7, <3>2, <3>3
    <3>. QED
      BY <3>2, <3>4
  <2>. QED
    BY <1>7, <2>1
<1>. HIDE DEF ends
<1>9. ends # {} /\ ~(l + 1 > 10 \/ (l + 1 = 10 /\ ~b[l + 1] \subseteq {0}))
  BY <1>1, <1>4, <1>6
<1>. QED
  BY <1>5, <1>8, <1>9 DEF GetUvarint, ends, l

(* Whatever octets are read, the value has no more bits than its octets    *)
(* hold, and there are no more octets than the buffer has.                 *)
LEMMA GetUvarintType ==
  ASSUME NEW b \in Seq(Octet)
  PROVE  LET r == GetUvarint(b)
         IN  /\ r.v \in SUBSET Word
             /\ r.n \in Int
             /\ r.n <= Len(b)
             /\ r.n > 0 => UvarintSize(r.v) <= r.n
<1>. DEFINE ends == {j \in DOMAIN b : 7 \notin b[j]}
            n == Min(ends)
            value == UNION {Shl(b[j] \ {7}, 7 * (j - 1)) : j \in 1..n}
<1>1. CASE ends = {}
  BY <1>1 DEF GetUvarint
<1>2. CASE ends # {}
  <2>1. ends \in SUBSET Nat
    OBVIOUS
  <2>2. PICK m \in ends : \A k \in ends : m <= k
    BY <1>2, <2>1, Least
  <2>3. n = m
    BY <2>1, <2>2, MinIs
  <2>4. n \in 1..Len(b)
    BY <2>2, <2>3
  <2>5. value \in SUBSET Word
    <3>1. \A j : Shl(b[j] \ {7}, 7 * (j - 1)) \subseteq Word
      BY DEF Shl
    <3>. QED
      BY <3>1
  <2>6. ASSUME NEW i \in value PROVE i < 7 * n
    <3>1. PICK j \in 1..n : i \in Shl(b[j] \ {7}, 7 * (j - 1))
      OBVIOUS
    <3>2. PICK o \in b[j] \ {7} : i = o + 7 * (j - 1)
      BY <3>1 DEF Shl
    <3>3. b[j] \in Octet
      BY <2>4
    <3>4. o \in 0..6
      BY <3>2, <3>3 DEF Octet
    <3>. HIDE DEF n
    <3>. QED
      BY <2>4, <3>2, <3>4
  <2>7. UvarintSize(value) <= n
    <3>. HIDE DEF value, n
    <3>1. /\ UvarintSize(value) = TopGroup(value) + 1
          /\ TopGroup(value) \in 0..9
          /\ TopGroup(value) # 0 => \E i \in value : i >= 7 * TopGroup(value)
      BY <2>5, TopGroupIs, UvarintSizeIs
    <3>2. CASE TopGroup(value) = 0
      BY <2>4, <3>1, <3>2
    <3>3. CASE TopGroup(value) # 0
      <4>1. PICK i \in value : i >= 7 * TopGroup(value)
        BY <3>1, <3>3
      <4>2. i < 7 * n /\ i \in 0..63
        BY <2>5, <2>6 DEF Word
      <4>. QED
        BY <2>4, <3>1, <4>1, <4>2
    <3>. QED
      BY <3>2, <3>3
  <2>8. GetUvarint(b) = IF n > 10 \/ (n = 10 /\ ~b[n] \subseteq {0})
                        THEN [v |-> {}, n |-> -n] ELSE [v |-> value, n |-> n]
    BY <1>2 DEF GetUvarint
  <2>. HIDE DEF ends, n, value
  <2>. QED
    BY <2>4, <2>5, <2>7, <2>8
<1>. QED
  BY <1>1, <1>2

-----------------------------------------------------------------------------
(* Signed values.                                                          *)
(* Bit 0 tells the sign, and the others move up by one.                    *)
LEMMA ZigzagBits ==
  ASSUME NEW x \in SUBSET Word
  PROVE  /\ Zigzag(x) \in SUBSET Word
         /\ \A i \in Word : i \in Zigzag(x) <=> IF 63 \in x THEN i = 0 \/ i - 1 \notin x
                                                           ELSE i - 1 \in x
<1>1. ASSUME NEW i \in Word PROVE i \in Shl(x, 1) <=> i - 1 \in x
  <2>1. i \in 0..63 /\ \A o \in x : o \in 0..63
    BY DEF Word
  <2>2. i - 1 \in x => i \in {o + 1 : o \in x}
    <3>1. i = (i - 1) + 1
      BY <2>1
    <3>. QED
      BY <3>1
  <2>3. ASSUME NEW o \in x, i = o + 1 PROVE i - 1 \in x
    <3>1. i - 1 = o
      BY <2>1, <2>3
    <3>. QED
      BY <3>1
  <2>. QED
    BY <2>2, <2>3 DEF Shl
<1>2. 0 - 1 \notin x
  BY DEF Word
<1>3. 0 \in Word
  BY DEF Word
<1>. QED
  BY <1>1, <1>2, <1>3, ShlWord DEF Zigzag

(* The way back.                                                           *)
LEMMA UnzigzagBits ==
  ASSUME NEW u \in SUBSET Word
  PROVE  /\ Unzigzag(u) \in SUBSET Word
         /\ \A i \in Word : i \in Unzigzag(u) <=> IF 0 \in u THEN i + 1 \notin u
                                                            ELSE i + 1 \in u
<1>1. ASSUME NEW i \in Word PROVE i \in Shr(u, 1) <=> i + 1 \in u
  <2>1. i \in 0..63 /\ \A o \in u : o \in 0..63
    BY DEF Word
  <2>2. i + 1 \in u => i \in Shr(u, 1)
    <3>1. i = (i + 1) - 1 /\ i + 1 >= 1
      BY <2>1
    <3>. QED
      BY <3>1 DEF Shr
  <2>3. ASSUME NEW o \in u, i = o - 1 PROVE i + 1 \in u
    <3>1. i + 1 = o
      BY <2>1, <2>3
    <3>. QED
      BY <3>1
  <2>. QED
    BY <2>2, <2>3 DEF Shr
<1>2. Shr(u, 1) \in SUBSET Word
  BY DEF Shr, Word
<1>. QED
  BY <1>1, <1>2 DEF Unzigzag

(* A value is what comes back, and no other value has its octets.          *)
LEMMA ZigzagBack ==
  ASSUME NEW x \in SUBSET Word
  PROVE  Unzigzag(Zigzag(x)) = x /\ Zigzag(Unzigzag(x)) = x
<1>1. \A i \in Word : i \in 0..63 /\ (i + 1) - 1 = i /\ (i - 1) + 1 = i
  BY DEF Word
<1>2. 0 \in Word /\ 63 \in Word /\ 63 + 1 \notin x /\ 0 - 1 \notin x
  BY DEF Word
<1>3. ASSUME NEW i \in Word PROVE i \in Unzigzag(Zigzag(x)) <=> i \in x
  <2>1. 0 \in Zigzag(x) <=> 63 \in x
    BY <1>2, ZigzagBits
  <2>2. CASE i = 63
    <3>1. i + 1 \notin Zigzag(x)
      BY <2>2, ZigzagBits DEF Word
    <3>. QED
      BY <2>1, <2>2, <3>1, UnzigzagBits, ZigzagBits
  <2>3. CASE i # 63
    <3>1. i + 1 \in Word /\ i + 1 # 0
      BY <1>1, <2>3 DEF Word
    <3>2. i + 1 \in Zigzag(x) <=> IF 63 \in x THEN i \notin x ELSE i \in x
      BY <1>1, <3>1, ZigzagBits
    <3>. QED
      BY <2>1, <3>2, UnzigzagBits, ZigzagBits
  <2>. QED
    BY <2>2, <2>3
<1>4. ASSUME NEW i \in Word PROVE i \in Zigzag(Unzigzag(x)) <=> i \in x
  <2>1. 63 \in Unzigzag(x) <=> 0 \in x
    BY <1>2, UnzigzagBits
  <2>2. CASE i = 0
    <3>1. 0 - 1 \notin Unzigzag(x)
      BY UnzigzagBits DEF Word
    <3>. QED
      BY <1>2, <2>1, <2>2, <3>1, UnzigzagBits, ZigzagBits
  <2>3. CASE i # 0
    <3>1. i - 1 \in Word
      BY <1>1, <2>3 DEF Word
    <3>2. i - 1 \in Unzigzag(x) <=> IF 0 \in x THEN i \notin x ELSE i \in x
      BY <1>1, <3>1, UnzigzagBits
    <3>. QED
      BY <2>1, <2>3, <3>2, UnzigzagBits, ZigzagBits
  <2>. QED
    BY <2>2, <2>3
<1>. QED
  BY <1>3, <1>4, ZigzagBits, UnzigzagBits

-----------------------------------------------------------------------------
(* Items.                                                                  *)
Kinds == Fixed \cup Variable \cup Text

Holds(k, x) ==
  \/ k \in Fixed \cup Variable /\ x \in SUBSET Word
  \/ k \in Text /\ x \in Seq(Octet)

(* An item is as many octets as its size tells.                            *)
LEMMA EncodedType ==
  ASSUME NEW k \in Kinds, NEW x, Holds(k, x)
  PROVE  /\ Encoded(k, x) \in Seq(Octet)
         /\ Len(Encoded(k, x)) = Taken(k, x)
<1>1. CASE k \in Fixed
  BY <1>1, PutUintType DEF Holds, Fixed, Variable, Text, Encoded, Taken
<1>2. CASE k \in Variable
  <2>1. x \in SUBSET Word /\ Zigzag(x) \in SUBSET Word
    BY <1>2, ZigzagBits DEF Holds, Variable, Text
  <2>2. \A v \in SUBSET Word : /\ PutUvarint(v) \in Seq(Octet)
                               /\ Len(PutUvarint(v)) = UvarintSize(v)
    BY PutUvarintType, UvarintSizeIs
  <2>. QED
    BY <1>2, <2>1, <2>2 DEF Variable, Encoded, Taken, VarintSize
<1>3. CASE k \in Text
  BY <1>3 DEF Holds, Fixed, Variable, Text, Encoded, Taken
<1>. QED
  BY <1>1, <1>2, <1>3 DEF Kinds

(* An item that stands in the buffer where ReadPos is, is found there.     *)
LEMMA FoundBack ==
  ASSUME data \in Seq(Octet), readPos \in Nat,
         NEW k \in Kinds, NEW x, Holds(k, x), readPos + Taken(k, x) <= Len(data),
         \A j \in 1..Taken(k, x) : data[readPos + j] = Encoded(k, x)[j]
  PROVE  /\ Found(k, Taken(k, x)).v = Kept([kind |-> k, x |-> x])
         /\ Found(k, Taken(k, x)).n = Taken(k, x)
<1>. DEFINE b == SubSeq(data, readPos + 1, Len(data))
            n == Taken(k, x)
<1>1. /\ b \in Seq(Octet)
      /\ Len(b) = Len(data) - readPos
      /\ \A j \in 1..Len(b) : b[j] = data[readPos + j]
  <2>1. readPos <= Len(data)
    <3>1. Taken(k, x) \in Nat
      BY EncodedType
    <3>. QED
      BY <3>1
  <2>. QED
    BY <2>1
<1>2. /\ n \in Nat
      /\ n <= Len(b)
      /\ \A j \in 1..n : b[j] = Encoded(k, x)[j]
  BY <1>1, EncodedType
<1>. HIDE DEF b, n
<1>3. CASE k \in Fixed
  <2>1. /\ x \in SUBSET Word /\ k.op = "uint" /\ k.n \in 1..8 /\ n = k.n
        /\ Encoded(k, x) = PutUint(x, k.n, k.order)
    BY <1>3 DEF Holds, Fixed, Variable, Text, n, Taken, Encoded
  <2>2. GetUint(b, k.n, k.order) = Low(x, 8 * k.n)
    BY <1>2, <2>1, UintBack
  <2>. QED
    BY <2>1, <2>2 DEF Found, Kept, b, n
<1>4. CASE k \in Variable
  <2>1. x \in SUBSET Word /\ Zigzag(x) \in SUBSET Word
    BY <1>4, ZigzagBits DEF Holds, Variable, Text
  <2>2. ASSUME NEW v \in SUBSET Word, n = UvarintSize(v), Encoded(k, x) = PutUvarint(v)
        PROVE  GetUvarint(b) = [v |-> v, n |-> n]
    <3>1. TopGroup(v) + 1 = n
      BY <2>2, UvarintSizeIs
    <3>2. TopGroup(v) + 1 <= Len(b)
      BY <1>2, <3>1
    <3>3. \A j \in 1..TopGroup(v) + 1 : b[j] = PutUvarint(v)[j]
      BY <1>2, <2>2, <3>1
    <3>4. GetUvarint(b) = [v |-> v, n |-> TopGroup(v) + 1]
      BY <1>1, <3>2, <3>3, UvarintBack
    <3>. QED
      BY <3>1, <3>4
  <2>3. CASE k.op = "uvarint"
    <3>1. GetUvarint(b) = [v |-> x, n |-> n]
      BY <2>1, <2>2, <2>3 DEF n, Taken, Encoded
    <3>. QED
      BY <2>3, <3>1 DEF Found, Kept, b, n
  <2>4. CASE k.op = "varint"
    <3>1. GetUvarint(b) = [v |-> Zigzag(x), n |-> n]
      BY <2>1, <2>2, <2>4 DEF n, Taken, Encoded, VarintSize
    <3>. QED
      BY <2>1, <2>4, <3>1, ZigzagBack DEF Found, Kept, b, n
  <2>. QED
    BY <1>4, <2>3, <2>4 DEF Variable
<1>5. CASE k \in Text
  <2>1. k.op = "bytes" /\ x \in Seq(Octet) /\ n = Len(x) /\ Encoded(k, x) = x
    BY <1>5 DEF Holds, Fixed, Variable, Text, n, Taken, Encoded
  <2>2. /\ SubSeq(b, 1, n) \in Seq(Octet)
        /\ Len(SubSeq(b, 1, n)) = Len(x)
        /\ \A j \in 1..Len(x) : SubSeq(b, 1, n)[j] = x[j]
    BY <1>1, <1>2, <2>1
  <2>3. SubSeq(b, 1, n) = x
    BY <2>1, <2>2
  <2>. QED
    BY <2>1, <2>3 DEF Found, Kept, b, n
<1>. QED
  BY <1>3, <1>4, <1>5 DEF Kinds

-----------------------------------------------------------------------------
(* The state.                                                              *)
Content == (SUBSET Word) \cup Seq(Octet)

Item == {w \in [kind : Kinds, x : Content, at : Nat] : Holds(w.kind, w.x)}

Result == [kind : Kinds, x : Content, n : Int]

BufferTypes ==
  /\ data \in Seq(Octet)
  /\ writePos \in 0..Len(data)
  /\ readPos \in Int
  /\ readPos <= Len(data)
  /\ written \in Seq(Item)
  /\ got \in Seq(Result)
  /\ panicked \in BOOLEAN

(* The items lie end to end in front of WritePos, each as it was written,  *)
(* and the next one to be read is where ReadPos is.                        *)
LaidOut ==
  /\ Begin(1) = 0
  /\ \A k \in DOMAIN written :
       /\ Begin(k + 1) = Begin(k) + Taken(written[k].kind, written[k].x)
       /\ Begin(k + 1) <= writePos
       /\ \A i \in 1..Taken(written[k].kind, written[k].x) :
            data[Begin(k) + i] = Encoded(written[k].kind, written[k].x)[i]
  /\ readPos = Begin(Len(got) + 1)

(* What was read are the first items.                                      *)
ReadSoFar ==
  /\ Len(got) <= Len(written)
  /\ \A k \in DOMAIN got : got[k].x = Kept(written[k])

ReadSizes ==
  \A k \in DOMAIN got : got[k].n > 0 => Taken(got[k].kind, got[k].x) <= got[k].n

BufferInv ==
  /\ BufferTypes
  /\ Own /\ ~panicked => LaidOut
  /\ Own => ReadSoFar
  /\ ReadSizes

(* What stands in front of the place that is written stays, and so does    *)
(* the length.                                                             *)
LEMMA OverwrittenIs ==
  ASSUME data \in Seq(Octet), NEW p \in 0..Len(data), NEW b \in Seq(Octet)
  PROVE  /\ Overwritten(p, b) \in Seq(Octet)
         /\ Len(Overwritten(p, b)) = Len(data)
         /\ \A i \in 1..p : Overwritten(p, b)[i] = data[i]
         /\ \A i \in 1..Len(b) : p + i <= Len(data) => Overwritten(p, b)[p + i] = b[i]
<1>. DEFINE d == Overwritten(p, b)
<1>1. d = [i \in 1..Len(data) |-> IF i \in p + 1..p + Len(b) THEN b[i - p] ELSE data[i]]
  BY DEF Overwritten
<1>. HIDE DEF d
<1>2. \A i \in 1..Len(data) : i \in p + 1..p + Len(b) => b[i - p] \in Octet
  <2>1. ASSUME NEW i \in 1..Len(data), i \in p + 1..p + Len(b) PROVE i - p \in 1..Len(b)
    BY <2>1
  <2>. QED
    BY <2>1
<1>3. d \in [1..Len(data) -> Octet]
  BY <1>1, <1>2
<1>4. d \in Seq(Octet) /\ Len(d) = Len(data)
  BY <1>3
<1>5. ASSUME NEW i \in 1..Len(b), p + i <= Len(data) PROVE d[p + i] = b[i]
  <2>1. p + i \in 1..Len(data) /\ p + i \in p + 1..p + Len(b) /\ (p + i) - p = i
    BY <1>5
  <2>. QED
    BY <1>1, <2>1
<1>6. ASSUME NEW i \in 1..p PROVE d[i] = data[i]
  BY <1>1
<1>. QED
  BY <1>4, <1>5, <1>6 DEF d

(* The parts of a step: what a method does that writes.  An item of the    *)
(* kind it is for goes in, or the method panics.                           *)
LEMMA Steps ==
  ASSUME BufferAssumption, BufferTypes, Next
  PROVE  \/ \E k \in Kinds, x \in Content : Holds(k, x) /\ Writable /\ Put(k, x)
         \/ \E b \in Seq(Octet) :
              /\ Writable
              /\ data' = Overwritten(writePos, b)
              /\ writePos' \in {writePos, Len(data)}
              /\ panicked' = TRUE
              /\ UNCHANGED <<readPos, written, got>>
         \/ ReadNext
         \/ /\ ~Own
            /\ \E k \in Kinds, n \in Nat : (k \in Fixed => n = k.n) /\ ReadItem(k, n)
<1>. DEFINE Fits == \E k \in Kinds, x \in Content : Holds(k, x) /\ Writable /\ Put(k, x)
            Fails == \E b \in Seq(Octet) :
                       /\ Writable
                       /\ data' = Overwritten(writePos, b)
                       /\ writePos' \in {writePos, Len(data)}
                       /\ panicked' = TRUE
                       /\ UNCHANGED <<readPos, written, got>>
            text == [op |-> "bytes"]
<1>1. /\ Left \in Nat
      /\ text \in Kinds
      /\ \A s \in Seq(Octet) : Holds(text, s) /\ s \in Content
      /\ \A v \in SUBSET Word : v \in Content
      /\ \A k \in Fixed \cup Variable, v \in SUBSET Word : Holds(k, v)
      /\ Fixed \subseteq Kinds /\ Variable \subseteq Kinds
  <2>1. Left \in Nat
    BY DEF BufferTypes, Left
  <2>2. text \in Text
    BY DEF Text
  <2>3. text \in Kinds /\ \A s \in Seq(Octet) : Holds(text, s) /\ s \in Content
    <3>. HIDE DEF text
    <3>1. text \in Kinds
      BY <2>2, Zenon DEF Kinds
    <3>2. \A s \in Seq(Octet) : Holds(text, s)
      BY <2>2, Zenon DEF Holds
    <3>3. \A s \in Seq(Octet) : s \in Content
      BY Zenon DEF Content
    <3>. QED
      BY <3>1, <3>2, <3>3, Zenon
  <2>4. Fixed \subseteq Kinds /\ Variable \subseteq Kinds
    BY Zenon DEF Kinds
  <2>5. /\ \A v \in SUBSET Word : v \in Content
        /\ \A k \in Fixed \cup Variable, v \in SUBSET Word : Holds(k, v)
    BY Zenon DEF Holds, Content
  <2>. QED
    BY <2>1, <2>3, <2>4, <2>5, Zenon
<1>2. Values \subseteq SUBSET Word /\ Strings \subseteq Seq(Octet)
  BY DEF BufferAssumption
<1>3. ASSUME NEW k \in Kinds, NEW x, Holds(k, x), NEW part \in 0..Left,
             Writable, Overflow(k, x, part), writePos' \in {writePos, Len(data)}
      PROVE  Fails
  <2>1. /\ Encoded(k, x) \in Seq(Octet)
        /\ part <= Len(Encoded(k, x))
    BY <1>1, <1>3, EncodedType DEF Overflow
  <2>2. SubSeq(Encoded(k, x), 1, part) \in Seq(Octet)
    BY <2>1
  <2>. QED
    BY <1>3, <2>2 DEF Overflow
<1>4. ASSUME NEW v \in Values, NEW k \in Fixed, WriteUint(k, v) PROVE Fits \/ Fails
  <2>1. CASE Put(k, v)
    BY <1>1, <1>2, <1>4, <2>1 DEF WriteUint
  <2>2. ASSUME NEW part \in {0, Left}, Overflow(k, v, part), writePos' = writePos
        PROVE  Fails
    <3>1. part \in 0..Left
      BY <1>1
    <3>2. k \in Kinds /\ Holds(k, v) /\ Writable /\ writePos' \in {writePos, Len(data)}
      BY <1>1, <1>2, <1>4, <2>2 DEF WriteUint
    <3>. HIDE DEF Fails
    <3>. QED
      BY <1>3, <2>2, <3>1, <3>2
  <2>3. PICK part \in {0, Left} : Put(k, v) \/ (Overflow(k, v, part) /\ writePos' = writePos)
    BY <1>4 DEF WriteUint
  <2>4. CASE Overflow(k, v, part) /\ writePos' = writePos
    BY <2>2, <2>4
  <2>. HIDE DEF Fits, Fails
  <2>. QED
    BY <2>1, <2>3, <2>4, Zenon
<1>5. ASSUME NEW v \in Values, NEW k \in Variable, WriteUvarint(k, v) PROVE Fits \/ Fails
  <2>1. CASE Put(k, v)
    BY <1>1, <1>2, <1>5, <2>1 DEF WriteUvarint
  <2>2. CASE Overflow(k, v, Left) /\ writePos' = writePos
    <3>1. Left \in 0..Left
      BY <1>1
    <3>2. k \in Kinds /\ Holds(k, v) /\ Writable /\ writePos' \in {writePos, Len(data)}
      BY <1>1, <1>2, <1>5, <2>2 DEF WriteUvarint
    <3>. HIDE DEF Fails
    <3>. QED
      BY <1>3, <2>2, <3>1, <3>2
  <2>. QED
    BY <1>5, <2>1, <2>2 DEF WriteUvarint
<1>6. ASSUME NEW s \in Strings, Write(s) PROVE Fits
  <2>. DEFINE n == Min({Len(s), Left})
  <2>1. s \in Seq(Octet) /\ Len(s) \in Nat
    BY <1>2
  <2>2. n \in {Len(s), Left} /\ n <= Len(s)
    <3>1. CASE Len(s) <= Left
      BY <1>1, <2>1, <3>1, MinIs
    <3>2. CASE Left <= Len(s)
      BY <1>1, <2>1, <3>2, MinIs
    <3>. QED
      BY <1>1, <2>1, <3>1, <3>2
  <2>. HIDE DEF n
  <2>3. SubSeq(s, 1, n) \in Seq(Octet)
    BY <1>1, <2>1, <2>2
  <2>. QED
    BY <1>1, <1>6, <2>3 DEF Write, n
<1>7. ASSUME NEW s \in Strings, WriteBytes(s) PROVE Fails
  <2>1. Holds(text, s) /\ Left \in 0..Left
    BY <1>1, <1>2
  <2>2. Writable /\ Overflow(text, s, Left) /\ writePos' \in {writePos, Len(data)}
    BY <1>7 DEF WriteBytes
  <2>. HIDE DEF Fails
  <2>. QED
    BY <1>1, <1>3, <2>1, <2>2
<1>8. ASSUME NEW s \in Strings, Take(s) PROVE Fits \/ Fails
  <2>1. CASE Put(text, s)
    BY <1>1, <1>2, <1>8, <2>1 DEF Take
  <2>2. CASE Overflow(text, s, 0) /\ writePos' = writePos
    <3>1. 0 \in 0..Left
      BY <1>1
    <3>2. Holds(text, s) /\ Writable /\ writePos' \in {writePos, Len(data)}
      BY <1>1, <1>2, <1>8, <2>2 DEF Take
    <3>. HIDE DEF Fails
    <3>. QED
      BY <1>1, <1>3, <2>2, <3>1, <3>2
  <2>. QED
    BY <1>8, <2>1, <2>2 DEF Take
<1>9. ASSUME ReadForeign
      PROVE  ~Own /\ \E k \in Kinds, n \in Nat : (k \in Fixed => n = k.n) /\ ReadItem(k, n)
  <2>1. ASSUME NEW k \in Fixed PROVE k.n \in Nat
    BY DEF Fixed
  <2>2. text \notin Fixed /\ \A k \in Variable : k \notin Fixed
    BY DEF Fixed, Variable
  <2>3. ASSUME NEW s \in Strings, Read(Len(s)), ~panicked
        PROVE  \E n \in Nat : ReadItem(text, n)
    <3>1. Len(s) \in Nat /\ Len(data) - readPos \in Nat
      BY <1>2 DEF BufferTypes
    <3>. DEFINE r == Len(data) - readPos
    <3>2. Min({Len(s), r}) \in Nat
      <4>. HIDE DEF r
      <4>1. CASE Len(s) <= r
        BY <3>1, <4>1, MinIs DEF r
      <4>2. CASE r <= Len(s)
        BY <3>1, <4>2, MinIs DEF r
      <4>. QED
        BY <3>1, <4>1, <4>2 DEF r
    <3>. QED
      BY <2>3, <3>2 DEF Read
  <2>4. ASSUME NEW s \in Strings PROVE Len(s) \in Nat
    BY <1>2
  <2>5. \A k, n : ReadItem(k, n) => ~panicked
    BY DEF ReadItem
  <2>. QED
    BY <1>1, <1>9, <2>1, <2>2, <2>3, <2>4, <2>5 DEF ReadForeign, Read
<1>. QED
  BY <1>4, <1>5, <1>6, <1>7, <1>8, <1>9 DEF Next

-----------------------------------------------------------------------------
(* The steps.                                                              *)

(* An empty buffer, or one that somebody else has filled.                  *)
LEMMA InitInv == ASSUME BufferAssumption, Init PROVE BufferInv
<1>1. data \in Seq(Octet) /\ Len(data) \in Nat
  <2>1. CASE data \in Foreign
    BY <2>1 DEF BufferAssumption
  <2>2. CASE data = [i \in 1..Room |-> {}]
    BY <2>2 DEF BufferAssumption, Octet
  <2>. QED
    BY <2>1, <2>2 DEF Init
<1>2. BufferTypes
  <2>1. writePos \in 0..Len(data) /\ readPos \in Int /\ readPos <= Len(data)
    BY <1>1 DEF Init
  <2>2. written \in Seq(Item) /\ got \in Seq(Result) /\ panicked \in BOOLEAN
    <3>1. written = <<>> /\ got = <<>> /\ panicked = FALSE
      BY DEF Init
    <3>2. \A S : <<>> \in Seq(S)
      OBVIOUS
    <3>. QED
      BY <3>1, <3>2, Zenon
  <2>. QED
    BY <1>1, <2>1, <2>2 DEF BufferTypes
<1>3. Own => LaidOut
  BY DEF Init, Own, LaidOut, Begin
<1>. QED
  BY <1>2, <1>3 DEF Init, BufferInv, ReadSoFar, ReadSizes

(* An item goes in behind the others.                                      *)
LEMMA PutInv ==
  ASSUME BufferInv, NEW k \in Kinds, NEW x \in Content, Holds(k, x), Writable, Put(k, x)
  PROVE  BufferInv'
<1>. DEFINE e == Encoded(k, x)
            item == [kind |-> k, x |-> x, at |-> writePos]
<1>1. /\ data \in Seq(Octet) /\ Len(data) \in Nat
      /\ writePos \in 0..Len(data)
      /\ written \in Seq(Item) /\ Len(written) \in Nat
      /\ got \in Seq(Result) /\ Len(got) \in Nat
      /\ ~panicked /\ Own
      /\ Begin(1) = 0
      /\ readPos = Begin(Len(got) + 1)
      /\ Len(got) <= Len(written)
  BY DEF BufferInv, BufferTypes, Writable, LaidOut, ReadSoFar
<1>2. e \in Seq(Octet) /\ Len(e) = Taken(k, x) /\ Len(e) \in Nat
  BY EncodedType
<1>3. /\ writePos + Len(e) <= Len(data)
      /\ data' = Overwritten(writePos, e)
      /\ writePos' = writePos + Len(e)
      /\ written' = Append(written, item)
      /\ readPos' = readPos /\ got' = got /\ panicked' = panicked
  BY <1>1, <1>2 DEF Put, Left
<1>4. /\ data' \in Seq(Octet)
      /\ Len(data') = Len(data)
      /\ \A i \in 1..writePos : data'[i] = data[i]
      /\ \A i \in 1..Len(e) : data'[writePos + i] = e[i]
  <2>. HIDE DEF e
  <2>1. /\ data' \in Seq(Octet)
        /\ Len(data') = Len(data)
        /\ \A i \in 1..writePos : data'[i] = data[i]
        /\ \A i \in 1..Len(e) : writePos + i <= Len(data) => data'[writePos + i] = e[i]
    BY <1>1, <1>2, <1>3, OverwrittenIs
  <2>2. \A i \in 1..Len(e) : writePos + i <= Len(data)
    BY <1>1, <1>2, <1>3
  <2>. QED
    BY <2>1, <2>2
<1>. HIDE DEF e
<1>14. PICK m \in Nat : m = Len(written) + 1
  BY <1>1
<1>5. item \in Item
  BY <1>1 DEF Item
<1>6. /\ written' \in Seq(Item) /\ Len(written') = m
      /\ DOMAIN written = 1..Len(written) /\ DOMAIN written' = 1..m
      /\ \A j \in 1..Len(written) : written'[j] = written[j]
      /\ written'[m] = item
  BY <1>1, <1>3, <1>5, <1>14
<1>. HIDE DEF item
<1>7. BufferTypes'
  BY <1>1, <1>2, <1>3, <1>4, <1>6 DEF BufferInv, BufferTypes
<1>8. \A j \in 1..m : Begin(j)' = Begin(j)
  <2>1. ASSUME NEW j \in 1..Len(written) PROVE Begin(j)' = Begin(j)
    BY <1>1, <1>6, <1>14 DEF Begin
  <2>2. Begin(m)' = Begin(m)
    <3>1. m \in DOMAIN written' /\ m \notin DOMAIN written
      BY <1>1, <1>6, <1>14
    <3>2. written'[m].at = writePos
      BY <1>6 DEF item
    <3>. QED
      BY <3>1, <3>2 DEF Begin
  <2>3. \A j \in 1..m : j \in 1..Len(written) \/ j = m
    BY <1>1, <1>14
  <2>. QED
    BY <2>1, <2>2, <2>3
<1>9. Begin(m) = writePos /\ Begin(m + 1)' = writePos'
  BY <1>1, <1>6, <1>14 DEF Begin
<1>10. ASSUME NEW j \in 1..m
       PROVE  /\ Begin(j + 1)' = Begin(j)' + Taken(written'[j].kind, written'[j].x)
              /\ Begin(j + 1)' <= writePos'
              /\ \A i \in 1..Taken(written'[j].kind, written'[j].x) :
                   data'[Begin(j)' + i] = Encoded(written'[j].kind, written'[j].x)[i]
  <2>1. CASE j = m
    <3>1. written'[j].kind = k /\ written'[j].x = x
      BY <1>6, <2>1 DEF item
    <3>2. Begin(j)' = writePos
      BY <1>8, <1>9, <2>1
    <3>3. Begin(j + 1)' = writePos' /\ writePos' = writePos + Taken(k, x) /\ writePos' \in Int
      BY <1>1, <1>2, <1>3, <1>9, <2>1
    <3>4. \A i \in 1..Taken(k, x) : data'[writePos + i] = Encoded(k, x)[i]
      BY <1>2, <1>4 DEF e
    <3>. QED
      BY <3>1, <3>2, <3>3, <3>4
  <2>2. CASE j # m
    <3>. DEFINE w == written[j]
    <3>1. j \in 1..Len(written) /\ j + 1 \in 1..m /\ written'[j] = w
      BY <1>1, <1>6, <2>2, <1>14
    <3>2. /\ Begin(j + 1) = Begin(j) + Taken(w.kind, w.x)
          /\ Begin(j + 1) <= writePos
          /\ \A i \in 1..Taken(w.kind, w.x) : data[Begin(j) + i] = Encoded(w.kind, w.x)[i]
      BY <1>1, <1>6, <3>1 DEF BufferInv, LaidOut
    <3>3. Begin(j) \in Nat /\ w \in Item
      BY <1>1, <1>6, <3>1 DEF Begin, Item
    <3>4. Taken(w.kind, w.x) \in Nat
      <4>1. w.kind \in Kinds /\ Holds(w.kind, w.x)
        BY <3>3 DEF Item
      <4>. QED
        BY <4>1, EncodedType
    <3>. HIDE DEF w
    <3>5. ASSUME NEW i \in 1..Taken(w.kind, w.x)
          PROVE  data'[Begin(j) + i] = Encoded(w.kind, w.x)[i]
      <4>1. Begin(j) + i \in 1..writePos
        BY <1>1, <3>2, <3>3, <3>4
      <4>. QED
        BY <1>4, <3>2, <4>1
    <3>6. writePos <= writePos' /\ Begin(j + 1) \in Int
      BY <1>1, <1>2, <1>3, <3>2, <3>3, <3>4
    <3>7. writePos \in Int /\ writePos' \in Int /\ Begin(j + 1) <= writePos'
      BY <1>1, <1>2, <1>3, <3>2, <3>6
    <3>. QED
      BY <1>8, <3>1, <3>2, <3>5, <3>7
  <2>. QED
    BY <2>1, <2>2
<1>11. LaidOut'
  <2>1. 1 \in 1..m /\ Len(got) + 1 \in 1..m
    BY <1>1, <1>14
  <2>2. Begin(1)' = 0 /\ readPos' = Begin(Len(got) + 1)'
    BY <1>1, <1>3, <1>8, <2>1
  <2>3. \A j \in DOMAIN written' :
          /\ Begin(j + 1)' = Begin(j)' + Taken(written'[j].kind, written'[j].x)
          /\ Begin(j + 1)' <= writePos'
          /\ \A i \in 1..Taken(written'[j].kind, written'[j].x) :
               data'[Begin(j)' + i] = Encoded(written'[j].kind, written'[j].x)[i]
    BY <1>6, <1>10, Zenon
  <2>. QED
    BY <2>2, <2>3, Zenon DEF LaidOut
<1>12. ReadSoFar'
  <2>1. \A j \in DOMAIN got : j \in 1..Len(written)
    BY <1>1
  <2>. QED
    BY <1>1, <1>3, <1>6, <2>1, <1>14 DEF BufferInv, ReadSoFar
<1>13. ReadSizes'
  BY <1>3 DEF BufferInv, ReadSizes
<1>. QED
  BY <1>7, <1>11, <1>12, <1>13 DEF BufferInv

(* A method that panics has not reached the items, but they are not in     *)
(* front of WritePos any more, which only tells how full the buffer is.    *)
LEMMA OverflowInv ==
  ASSUME BufferInv, NEW b \in Seq(Octet), Writable, data' = Overwritten(writePos, b),
         writePos' \in {writePos, Len(data)}, panicked' = TRUE,
         UNCHANGED <<readPos, written, got>>
  PROVE  BufferInv'
<1>1. /\ data' \in Seq(Octet)
      /\ Len(data') = Len(data)
  BY OverwrittenIs DEF BufferInv, BufferTypes
<1>2. BufferTypes'
  BY <1>1 DEF BufferInv, BufferTypes
<1>3. Own
  BY DEF Writable
<1>4. ReadSoFar'
  BY <1>3 DEF BufferInv, ReadSoFar
<1>5. ReadSizes'
  BY DEF BufferInv, ReadSizes
<1>. QED
  BY <1>2, <1>4, <1>5 DEF BufferInv

(* The next item is read: it is there, and it is what was written.         *)
LEMMA ReadNextInv ==
  ASSUME BufferInv, ReadNext
  PROVE  BufferInv'
<1>. DEFINE j == Len(got) + 1
            w == written[j]
            n == Taken(w.kind, w.x)
            r == [kind |-> w.kind, x |-> Found(w.kind, n).v, n |-> Found(w.kind, n).n]
<1>1. /\ data \in Seq(Octet) /\ Len(data) \in Nat
      /\ writePos \in 0..Len(data)
      /\ readPos \in Int
      /\ written \in Seq(Item) /\ Len(written) \in Nat
      /\ got \in Seq(Result) /\ Len(got) \in Nat
      /\ ~panicked /\ Own
      /\ LaidOut /\ ReadSoFar /\ ReadSizes
      /\ Len(got) < Len(written)
  BY DEF BufferInv, BufferTypes, ReadNext, ReadItem
<1>2. j \in 1..Len(written) /\ DOMAIN written = 1..Len(written)
  BY <1>1
<1>3. w \in Item /\ w.kind \in Kinds /\ Holds(w.kind, w.x) /\ w.at \in Nat /\ w.x \in Content
  BY <1>1, <1>2 DEF Item
<1>4. Encoded(w.kind, w.x) \in Seq(Octet) /\ Len(Encoded(w.kind, w.x)) = n /\ n \in Nat
  BY <1>3, EncodedType
<1>5. /\ readPos = Begin(j) /\ Begin(j) \in Nat
      /\ Begin(j + 1) = Begin(j) + n
      /\ Begin(j + 1) <= writePos
      /\ \A i \in 1..n : data[Begin(j) + i] = Encoded(w.kind, w.x)[i]
  BY <1>1, <1>2, <1>3 DEF LaidOut, Begin
<1>6. readPos \in Nat /\ readPos + n <= Len(data) /\ readPos + n = Begin(j + 1)
  BY <1>1, <1>4, <1>5
<1>7. Found(w.kind, n).v = Kept(w) /\ Found(w.kind, n).n = n
  <2>1. /\ Found(w.kind, n).v = Kept([kind |-> w.kind, x |-> w.x])
        /\ Found(w.kind, n).n = n
    BY <1>1, <1>3, <1>5, <1>6, FoundBack
  <2>. QED
    BY <2>1 DEF Kept
<1>8. ReadItem(w.kind, n)
  BY <1>4 DEF ReadNext
<1>9. /\ readPos' = readPos + n
      /\ got' = Append(got, r)
      /\ UNCHANGED <<data, writePos, written, panicked>>
  <2>1. ~(readPos < 0) /\ ~(readPos + n > Len(data))
    BY <1>1, <1>4, <1>6
  <2>2. /\ readPos' = readPos + Found(w.kind, n).n
        /\ got' = Append(got, r)
        /\ UNCHANGED <<data, writePos, written, panicked>>
    BY <1>8, <2>1, Zenon DEF ReadItem
  <2>. QED
    BY <1>7, <2>2
<1>10. Kept(w) \in Content /\ Taken(w.kind, Kept(w)) = n
  <2>1. CASE w.kind \in Fixed
    <3>1. w.x \in SUBSET Word /\ w.kind.op = "uint"
      BY <1>3, <2>1 DEF Holds, Fixed, Variable, Text
    <3>. QED
      BY <3>1 DEF Kept, Low, Content, Taken
  <2>2. CASE w.kind \in Variable \cup Text
    <3>1. w.kind.op # "uint"
      BY <2>2 DEF Variable, Text
    <3>. QED
      BY <1>3, <3>1 DEF Kept
  <2>. QED
    BY <1>3, <2>1, <2>2 DEF Kinds
<1>11. r \in Result /\ r.x = Kept(w) /\ r.n = n /\ r.kind = w.kind
  BY <1>3, <1>4, <1>7, <1>10 DEF Result
<1>. HIDE DEF r, n
<1>12. /\ got' \in Seq(Result) /\ Len(got') = j
       /\ \A i \in 1..Len(got) : got'[i] = got[i]
       /\ got'[j] = r
       /\ DOMAIN got' = 1..j
       /\ DOMAIN got = 1..Len(got)
  BY <1>1, <1>9, <1>11
<1>13. \A i \in 1..j : i \in 1..Len(got) \/ i = j
  BY <1>1
<1>14. BufferTypes'
  <2>1. readPos' \in Int /\ readPos' <= Len(data)
    BY <1>1, <1>4, <1>6, <1>9
  <2>. QED
    BY <1>1, <1>9, <1>12, <2>1 DEF BufferInv, BufferTypes
<1>15. LaidOut'
  <2>1. \A i \in Nat : Begin(i)' = Begin(i)
    BY <1>9 DEF Begin
  <2>2. PICK q \in Nat : q = Len(got') + 1 /\ q = j + 1
    BY <1>1, <1>12
  <2>3. readPos' = Begin(q)
    BY <1>6, <1>9, <2>2
  <2>4. Begin(Len(got) + 1)' = Begin(q)
    BY <2>1, <2>2
  <2>5. \A i \in DOMAIN written : i \in Nat /\ i + 1 \in Nat
    BY <1>1
  <2>. QED
    BY <1>1, <1>9, <2>1, <2>3, <2>4, <2>5 DEF LaidOut
<1>16. ReadSoFar'
  <2>1. j <= Len(written)
    BY <1>1
  <2>2. ASSUME NEW i \in 1..j PROVE got'[i].x = Kept(written[i])
    BY <1>1, <1>11, <1>12, <1>13 DEF ReadSoFar
  <2>. QED
    BY <1>9, <1>12, <2>1, <2>2 DEF ReadSoFar
<1>17. ReadSizes'
  <2>1. Taken(r.kind, r.x) = r.n /\ r.n \in Nat
    BY <1>4, <1>10, <1>11 DEF n
  <2>2. Taken(r.kind, r.x) <= r.n
    BY <2>1
  <2>3. ASSUME NEW i \in 1..j, got'[i].n > 0
        PROVE  Taken(got'[i].kind, got'[i].x) <= got'[i].n
    BY <1>1, <1>12, <1>13, <2>2, <2>3 DEF ReadSizes
  <2>. QED
    BY <1>12, <2>3 DEF ReadSizes
<1>. QED
  BY <1>14, <1>15, <1>16, <1>17 DEF BufferInv

(* Anything is read from a buffer that somebody else has filled.           *)
LEMMA ReadForeignInv ==
  ASSUME BufferInv, ~Own, NEW k \in Kinds, NEW n \in Nat, k \in Fixed => n = k.n,
         ReadItem(k, n)
  PROVE  BufferInv'
<1>. DEFINE b == SubSeq(data, readPos + 1, Len(data))
            f == Found(k, n)
            r == [kind |-> k, x |-> f.v, n |-> f.n]
<1>1. /\ data \in Seq(Octet) /\ Len(data) \in Nat
      /\ readPos \in Int /\ readPos <= Len(data)
      /\ written \in Seq(Item)
      /\ got \in Seq(Result) /\ Len(got) \in Nat
      /\ panicked \in BOOLEAN
      /\ ReadSizes
      /\ writePos' = writePos /\ written' = written /\ data' = data
  BY DEF BufferInv, BufferTypes, ReadItem
<1>2. ~Own'
  BY <1>1 DEF Own
<1>3. CASE panicked' = TRUE /\ UNCHANGED <<readPos, got>>
  <2>1. BufferTypes'
    BY <1>1, <1>3 DEF BufferInv, BufferTypes
  <2>. QED
    BY <1>1, <1>2, <1>3, <2>1 DEF BufferInv, ReadSizes
<1>4. CASE /\ readPos >= 0
           /\ k.op \in {"uvarint", "varint"} \/ readPos + n <= Len(data)
           /\ readPos' = readPos + f.n
           /\ got' = Append(got, r)
           /\ UNCHANGED panicked
  <2>1. b \in Seq(Octet) /\ Len(b) = Len(data) - readPos
    BY <1>1, <1>4
  <2>2. /\ f.v \in Content
        /\ f.n \in Int
        /\ readPos + f.n <= Len(data)
        /\ f.n > 0 => Taken(k, f.v) <= f.n
    <3>. HIDE DEF b
    <3>1. CASE k \in Fixed
      <4>1. k.op = "uint" /\ n = k.n
        BY <3>1 DEF Fixed
      <4>2. f = [v |-> GetUint(b, k.n, k.order), n |-> k.n]
        BY <4>1 DEF Found, b
      <4>3. GetUint(b, k.n, k.order) \in SUBSET Word
        BY ShlWord DEF GetUint
      <4>. HIDE DEF f
      <4>. QED
        BY <1>4, <4>1, <4>2, <4>3 DEF Content, Taken
    <3>2. CASE k \in Variable
      <4>. DEFINE u == GetUvarint(b)
      <4>1. /\ u.v \in SUBSET Word
            /\ u.n \in Int
            /\ u.n <= Len(b)
            /\ u.n > 0 => UvarintSize(u.v) <= u.n
        BY <2>1, GetUvarintType
      <4>2. readPos + u.n <= Len(data)
        BY <1>1, <2>1, <4>1
      <4>. HIDE DEF u
      <4>3. CASE k.op = "uvarint"
        <5>1. f = u
          BY <4>3 DEF Found, b, u
        <5>. HIDE DEF f
        <5>. QED
          BY <4>1, <4>2, <4>3, <5>1 DEF Content, Taken
      <4>4. CASE k.op = "varint"
        <5>1. f = [v |-> Unzigzag(u.v), n |-> u.n]
          BY <4>4 DEF Found, b, u
        <5>2. Unzigzag(u.v) \in SUBSET Word /\ Zigzag(Unzigzag(u.v)) = u.v
          BY <4>1, UnzigzagBits, ZigzagBack
        <5>. HIDE DEF f
        <5>. QED
          BY <4>1, <4>2, <4>4, <5>1, <5>2 DEF Content, Taken, VarintSize
      <4>. QED
        BY <3>2, <4>3, <4>4 DEF Variable
    <3>3. CASE k \in Text
      <4>1. k.op = "bytes"
        BY <3>3 DEF Text
      <4>2. f = [v |-> SubSeq(b, 1, n), n |-> n]
        BY <4>1 DEF Found, b
      <4>3. n <= Len(b)
        BY <1>1, <1>4, <2>1, <4>1
      <4>4. SubSeq(b, 1, n) \in Seq(Octet) /\ Len(SubSeq(b, 1, n)) = n
        BY <2>1, <4>3
      <4>5. readPos + n <= Len(data)
        BY <1>4, <4>1
      <4>. HIDE DEF f
      <4>. QED
        BY <4>1, <4>2, <4>4, <4>5 DEF Content, Taken
    <3>. QED
      BY <3>1, <3>2, <3>3 DEF Kinds
  <2>. HIDE DEF f, b
  <2>3. r \in Result /\ r.kind = k /\ r.x = f.v /\ r.n = f.n
    BY <2>2 DEF Result
  <2>. HIDE DEF r
  <2>4. /\ got' \in Seq(Result)
        /\ DOMAIN got' = 1..Len(got) + 1
        /\ DOMAIN got = 1..Len(got)
        /\ \A i \in 1..Len(got) : got'[i] = got[i]
        /\ got'[Len(got) + 1] = r
    BY <1>1, <1>4, <2>3
  <2>5. BufferTypes'
    BY <1>1, <1>4, <2>2, <2>4 DEF BufferInv, BufferTypes
  <2>6. ReadSizes'
    <3>1. \A i \in DOMAIN got' : i \in DOMAIN got \/ i = Len(got) + 1
      BY <1>1, <2>4
    <3>2. r.n > 0 => Taken(r.kind, r.x) <= r.n
      BY <2>2, <2>3
    <3>3. ASSUME NEW i \in DOMAIN got', got'[i].n > 0
          PROVE  Taken(got'[i].kind, got'[i].x) <= got'[i].n
      BY <1>1, <2>4, <3>1, <3>2, <3>3 DEF ReadSizes
    <3>. QED
      BY <3>3 DEF ReadSizes
  <2>. QED
    BY <1>2, <2>5, <2>6 DEF BufferInv
<1>5. IF readPos < 0 \/ (k.op \notin {"uvarint", "varint"} /\ readPos + n > Len(data))
      THEN panicked' = TRUE /\ UNCHANGED <<readPos, got>>
      ELSE readPos' = readPos + f.n /\ got' = Append(got, r) /\ UNCHANGED panicked
  BY DEF ReadItem
<1>6. (readPos < 0 \/ readPos >= 0) /\ (readPos + n > Len(data) \/ readPos + n <= Len(data))
  BY <1>1
<1>. HIDE DEF f, r
<1>. QED
  BY <1>3, <1>4, <1>5, <1>6

-----------------------------------------------------------------------------
(* The invariant holds in every state.                                     *)
LEMMA BufferInvariance == Spec => []BufferInv
<1>1. Init => BufferInv
  BY InitInv, BufferAssumption
<1>2. BufferInv /\ [Next]_vars => BufferInv'
  <2>1. SUFFICES ASSUME BufferInv, [Next]_vars PROVE BufferInv'
    OBVIOUS
  <2>2. CASE UNCHANGED vars
    <3>1. /\ data' = data /\ readPos' = readPos /\ writePos' = writePos
          /\ written' = written /\ got' = got /\ panicked' = panicked
      BY <2>2 DEF vars
    <3>2. BufferTypes'
      BY <2>1, <3>1, Zenon DEF BufferInv, BufferTypes
    <3>3. (Own => ReadSoFar)' /\ ReadSizes'
      BY <2>1, <3>1, Zenon DEF BufferInv, ReadSoFar, ReadSizes, Own
    <3>4. (Own /\ ~panicked => LaidOut)'
      BY <2>1, <3>1, Zenon DEF BufferInv, LaidOut, Begin, Own
    <3>. QED
      BY <3>2, <3>3, <3>4 DEF BufferInv
  <2>3. CASE Next
    <3>1. \/ \E k \in Kinds, x \in Content : Holds(k, x) /\ Writable /\ Put(k, x)
          \/ \E b \in Seq(Octet) :
               /\ Writable
               /\ data' = Overwritten(writePos, b)
               /\ writePos' \in {writePos, Len(data)}
               /\ panicked' = TRUE
               /\ UNCHANGED <<readPos, written, got>>
          \/ ReadNext
          \/ /\ ~Own
             /\ \E k \in Kinds, n \in Nat : (k \in Fixed => n = k.n) /\ ReadItem(k, n)
      BY <2>1, <2>3, BufferAssumption, Steps DEF BufferInv
    <3>. QED
      BY <2>1, <3>1, PutInv, OverflowInv, ReadNextInv, ReadForeignInv
  <2>. QED
    BY <2>1, <2>2, <2>3
<1>. QED
  BY <1>1, <1>2, PTL DEF Spec

(* Every item is read back as it was written, up to the octets its kind    *)
(* has, for any values and strings, any length of the buffer, any number   *)
(* of items and any order of writing and reading.                          *)
THEOREM BufferReadBack == Spec => []ReadBack
<1>1. BufferInv => ReadBack
  BY DEF BufferInv, ReadSoFar, ReadBack
<1>. QED
  BY <1>1, BufferInvariance, PTL

(* UvarintSize, VarintSize and the constants in the accessors are the      *)
(* octets that are used: the items lie end to end from the start of the    *)
(* buffer to WritePos, and what a foreign buffer holds can be written      *)
(* again in the octets it took.                                            *)
THEOREM BufferSizesTold == Spec => []SizesTold
<1>1. BufferInv => SizesTold
  BY DEF BufferInv, LaidOut, ReadSizes, SizesTold
<1>. QED
  BY <1>1, BufferInvariance, PTL

=============================================================================
