----------------------------- MODULE WireProofs -----------------------------
(***************************************************************************)
(* The wire format, for any messages.                                      *)
(***************************************************************************)
EXTENDS Wire, FiniteSetTheorems, WellFoundedInduction, TLAPS

-----------------------------------------------------------------------------
(* Least numbers, and functions defined by recursion.                      *)

Below == {pair \in Nat \X Nat : pair[1] < pair[2]}

(* A set of natural numbers has a least one.                               *)
LEMMA Least ==
  ASSUME NEW S \in SUBSET Nat, S # {}
  PROVE  \E m \in S : \A k \in S : m <= k
<1>1. IsWellFoundedOn(Below, Nat)
  BY NatLessThanWellFounded DEF OpToRel, Below
<1>2. PICK m \in S : \A k \in S : <<k, m>> \notin Below
  BY <1>1, WFMin
<1>3. \A k \in S : ~(k < m)
  BY <1>2 DEF Below
<1>. QED
  BY <1>3

(* Min is the least number of a set.                                       *)
LEMMA MinIs ==
  ASSUME NEW S \in SUBSET Nat, S # {}
  PROVE  Min(S) \in S /\ \A k \in S : Min(S) <= k
BY Least DEF Min

(* What holds of 0 and is handed on holds up to n.                         *)
LEMMA Upwards ==
  ASSUME NEW n \in Nat, NEW S, 0 \in S, \A k \in 1..n : k - 1 \in S => k \in S
  PROVE  \A k \in 0..n : k \in S
<1>. DEFINE Bad == {k \in 0..n : k \notin S}
<1>1. SUFFICES ASSUME Bad # {} PROVE FALSE
  OBVIOUS
<1>2. Bad \in SUBSET Nat
  OBVIOUS
<1>3. PICK m \in Bad : \A k \in Bad : m <= k
  BY <1>1, <1>2, Least
<1>4. m \in 1..n /\ m - 1 \in 0..n /\ ~(m <= m - 1)
  OBVIOUS
<1>5. m - 1 \in S
  BY <1>3, <1>4
<1>. QED
  BY <1>4, <1>5

Closed(n, S, step) == \A k \in 1..n : \A x \in S : step[k][x] \in S

Steps(n, S, first, step) ==
  {f \in [0..n -> S] : \A k \in 0..n : f[k] = IF k = 0 THEN first ELSE step[k][f[k - 1]]}

(* A function on 0..n may be defined by its first value and a step.        *)
LEMMA StepsExist ==
  ASSUME NEW n \in Nat, NEW S, NEW first \in S, NEW step, Closed(n, S, step)
  PROVE  Steps(n, S, first, step) # {}
<1>. USE DEF Closed
<1>. DEFINE Follows(f, m) == \A k \in 0..m :
                               f[k] = IF k = 0 THEN first ELSE step[k][f[k - 1]]
            Works(m) == \E f \in [0..m -> S] : Follows(f, m)
<1>1. Works(0)
  <2>. DEFINE f == [k \in 0..0 |-> first]
  <2>1. f \in [0..0 -> S] /\ f[0] = first
    OBVIOUS
  <2>2. \A k \in 0..0 : k = 0
    OBVIOUS
  <2>3. Follows(f, 0)
    BY <2>1, <2>2
  <2>. QED
    BY <2>1, <2>3
<1>2. ASSUME NEW m \in 1..n, Works(m - 1) PROVE Works(m)
  <2>1. PICK g \in [0..m - 1 -> S] : Follows(g, m - 1)
    BY <1>2
  <2>. DEFINE f == [k \in 0..m |-> IF k = m THEN step[m][g[m - 1]] ELSE g[k]]
  <2>2. f \in [0..m -> S]
    <3>1. step[m][g[m - 1]] \in S
      OBVIOUS
    <3>2. \A k \in 0..m : k # m => k \in 0..m - 1
      OBVIOUS
    <3>. QED
      BY <3>1, <3>2
  <2>3. ASSUME NEW k \in 0..m PROVE f[k] = IF k = 0 THEN first ELSE step[k][f[k - 1]]
    <3>1. CASE k = m
      <4>1. f[k] = step[m][g[m - 1]] /\ f[k - 1] = g[m - 1]
        BY <3>1
      <4>. QED
        BY <3>1, <4>1
    <3>2. CASE k # m
      <4>1. k \in 0..m - 1 /\ f[k] = g[k] /\ (k # 0 => f[k - 1] = g[k - 1])
        BY <3>2
      <4>. QED
        BY <2>1, <4>1
    <3>. QED
      BY <3>1, <3>2
  <2>. HIDE DEF f
  <2>4. Follows(f, m)
    BY <2>3
  <2>. QED
    BY <2>2, <2>4
<1>3. \A k \in 0..n : k \in {m \in 0..n : Works(m)}
  <2>. HIDE DEF Works
  <2>1. \A k \in 1..n : k - 1 \in {m \in 0..n : Works(m)} => k \in {m \in 0..n : Works(m)}
    BY <1>2
  <2>2. 0 \in {m \in 0..n : Works(m)}
    BY <1>1
  <2>. QED
    BY <2>1, <2>2, Upwards
<1>4. n \in {m \in 0..n : Works(m)}
  BY <1>3
<1>. QED
  BY <1>4 DEF Steps

Comes(S, over, turn, measure, N) ==
  /\ measure \in [S -> 0..N]
  /\ \A x \in S \ over : turn[x] \in S /\ measure[turn[x]] < measure[x]

Turns(S, R, over, result, turn) ==
  {f \in [S -> R] : \A x \in S : f[x] = IF x \in over THEN result[x] ELSE f[turn[x]]}

(* A function may be defined by turns that bring a bounded measure down.   *)
LEMMA TurnsExist ==
  ASSUME NEW S, NEW R, NEW over \in SUBSET S, NEW result \in [over -> R], NEW turn,
         NEW N \in Nat, NEW measure, Comes(S, over, turn, measure, N)
  PROVE  Turns(S, R, over, result, turn) # {}
<1>. USE DEF Comes
<1>. DEFINE Part(m) == {x \in S : measure[x] < m}
            Follows(f, m) == \A x \in Part(m) :
                               f[x] = IF x \in over THEN result[x] ELSE f[turn[x]]
            Works(m) == \E f \in [Part(m) -> R] : Follows(f, m)
<1>1. Works(0)
  <2>1. Part(0) = {}
    <3>1. \A x \in S : measure[x] \in 0..N
      OBVIOUS
    <3>. QED
      BY <3>1
  <2>2. PICK f : f = [x \in {} |-> 0]
    OBVIOUS
  <2>3. f \in [{} -> R]
    BY <2>2
  <2>. QED
    BY <2>1, <2>3
<1>2. ASSUME NEW m \in 1..N + 1, Works(m - 1) PROVE Works(m)
  <2>1. PICK g \in [Part(m - 1) -> R] : Follows(g, m - 1)
    BY <1>2
  <2>. DEFINE f == [x \in Part(m) |-> IF x \in over THEN result[x] ELSE g[turn[x]]]
  <2>2. ASSUME NEW x \in Part(m), x \notin over
        PROVE  turn[x] \in Part(m - 1) /\ turn[x] \in Part(m)
    <3>1. turn[x] \in S /\ measure[turn[x]] \in 0..N /\ measure[x] \in 0..N
      BY <2>2
    <3>. QED
      BY <2>2, <3>1
  <2>3. f \in [Part(m) -> R]
    BY <2>2
  <2>4. ASSUME NEW x \in Part(m) PROVE f[x] = IF x \in over THEN result[x] ELSE f[turn[x]]
    <3>1. CASE x \in over
      BY <3>1
    <3>2. CASE x \notin over
      <4>1. turn[x] \in Part(m - 1) /\ turn[x] \in Part(m)
        BY <2>2, <3>2
      <4>2. f[turn[x]] = g[turn[x]]
        BY <2>1, <4>1
      <4>. QED
        BY <3>2, <4>2
    <3>. QED
      BY <3>1, <3>2
  <2>. HIDE DEF f
  <2>5. Follows(f, m)
    BY <2>4
  <2>. QED
    BY <2>3, <2>5
<1>3. Part(N + 1) = S
  <2>1. \A x \in S : measure[x] \in 0..N
    OBVIOUS
  <2>. QED
    BY <2>1
<1>4. PICK M \in Nat : M = N + 1
  OBVIOUS
<1>5. N + 1 \in {m \in 0..N + 1 : Works(m)}
  <2>. DEFINE All == {m \in 0..M : Works(m)}
  <2>. HIDE DEF Works
  <2>1. \A k \in 1..M : k - 1 \in All => k \in All
    BY <1>2, <1>4
  <2>2. 0 \in All
    BY <1>1, <1>4
  <2>3. \A k \in 0..M : k \in All
    <3>. HIDE DEF All
    <3>. QED
      BY <1>4, <2>1, <2>2, Upwards
  <2>. QED
    BY <1>4, <2>3
<1>6. PICK f \in [Part(N + 1) -> R] : Follows(f, N + 1)
  BY <1>5
<1>. QED
  BY <1>3, <1>6 DEF Turns

(* And there is but one such function.                                     *)
LEMMA TurnsOnce ==
  ASSUME NEW S, NEW R, NEW over \in SUBSET S, NEW result \in [over -> R], NEW turn,
         NEW N \in Nat, NEW measure, Comes(S, over, turn, measure, N),
         NEW g, g = [x \in S |-> IF x \in over THEN result[x] ELSE g[turn[x]]]
  PROVE  g \in Turns(S, R, over, result, turn)
<1>. USE DEF Comes
<1>. DEFINE Typed == {m \in Nat : \A x \in S : measure[x] <= m => g[x] \in R}
<1>1. \A x \in S : measure[x] \in 0..N
  OBVIOUS
<1>2. 0 \in Typed
  <2>1. ASSUME NEW x \in S, measure[x] <= 0 PROVE g[x] \in R
    <3>1. x \in over
      BY <1>1, <2>1
    <3>. QED
      BY <3>1
  <2>. QED
    BY <2>1
<1>3. ASSUME NEW m \in 1..N, m - 1 \in Typed PROVE m \in Typed
  <2>1. ASSUME NEW x \in S, measure[x] <= m PROVE g[x] \in R
    <3>1. CASE x \in over
      BY <3>1
    <3>2. CASE x \notin over
      <4>1. turn[x] \in S /\ measure[turn[x]] <= m - 1
        BY <1>1, <2>1, <3>2
      <4>. QED
        BY <1>3, <3>2, <4>1
    <3>. QED
      BY <3>1, <3>2
  <2>. QED
    BY <2>1
<1>4. N \in Typed
  <2>. HIDE DEF Typed
  <2>1. \A m \in 0..N : m \in Typed
    BY <1>2, <1>3, Upwards
  <2>. QED
    BY <2>1
<1>5. \A x \in S : g[x] \in R
  BY <1>1, <1>4
<1>. QED
  BY <1>5 DEF Turns

-----------------------------------------------------------------------------
(* Labels and suffixes.                                                    *)

(* The dot of a label is the first one behind its start.                   *)
LEMMA DotIs ==
  ASSUME NEW s \in Name, NEW b \in 1..Len(s), s[Len(s)] = Dot
  PROVE  /\ DotAfter(s, b) \in b..Len(s)
         /\ s[DotAfter(s, b)] = Dot
         /\ \A i \in b..DotAfter(s, b) - 1 : s[i] # Dot
<1>. DEFINE dots == {i \in b..Len(s) : s[i] = Dot}
<1>1. Len(s) \in dots /\ dots \in SUBSET Nat
  OBVIOUS
<1>2. Min(dots) \in dots /\ \A k \in dots : Min(dots) <= k
  BY <1>1, MinIs
<1>3. DotAfter(s, b) = Min(dots)
  BY DEF DotAfter
<1>. HIDE DEF dots
<1>4. Min(dots) \in b..Len(s) /\ s[Min(dots)] = Dot
  BY <1>2 DEF dots
<1>5. ASSUME NEW i \in b..Min(dots) - 1 PROVE s[i] # Dot
  <2>1. i \in b..Len(s) /\ ~(Min(dots) <= i)
    BY <1>4, <1>5
  <2>. QED
    BY <1>2, <2>1 DEF dots
<1>. QED
  BY <1>3, <1>4, <1>5

(* Behind the dot of a label the next one starts, and none before.         *)
LEMMA NextLabel ==
  ASSUME NEW s \in Name, NEW b \in Starts(s), s[Len(s)] = Dot
  PROVE  /\ b \in 1..Len(s)
         /\ DotAfter(s, b) \in b..Len(s)
         /\ DotAfter(s, b) # Len(s) => DotAfter(s, b) + 1 \in Starts(s)
         /\ \A c \in Starts(s) : c > b => c > DotAfter(s, b)
<1>1. b \in 1..Len(s)
  BY DEF Starts
<1>2. /\ DotAfter(s, b) \in b..Len(s)
      /\ s[DotAfter(s, b)] = Dot
      /\ \A i \in b..DotAfter(s, b) - 1 : s[i] # Dot
  BY <1>1, DotIs
<1>3. DotAfter(s, b) # Len(s) => DotAfter(s, b) + 1 \in Starts(s)
  BY <1>1, <1>2 DEF Starts
<1>4. ASSUME NEW c \in Starts(s), c > b PROVE c > DotAfter(s, b)
  <2>1. c \in 1..Len(s) /\ s[c - 1] = Dot
    BY <1>1, <1>4 DEF Starts
  <2>2. c - 1 >= b
    BY <1>1, <1>4, <2>1
  <2>3. ~(c - 1 \in b..DotAfter(s, b) - 1)
    BY <1>2, <2>1
  <2>. QED
    BY <1>1, <1>2, <2>1, <2>2, <2>3
<1>. QED
  BY <1>1, <1>2, <1>3, <1>4

(* The characters of a suffix.                                             *)
LEMMA SuffixIs ==
  ASSUME NEW s \in Name, NEW b \in 1..Len(s) + 1
  PROVE  /\ Suffix(s, b) \in Name
         /\ Len(Suffix(s, b)) = Len(s) - b + 1
         /\ \A i \in 1..Len(s) - b + 1 : Suffix(s, b)[i] = s[b + i - 1]
         /\ \A c \in 1..Len(s) - b + 2 : Suffix(Suffix(s, b), c) = Suffix(s, b + c - 1)
         /\ Suffix(s, 1) = s
<1>1. /\ Suffix(s, b) \in Name
      /\ Len(Suffix(s, b)) = Len(s) - b + 1
      /\ \A i \in 1..Len(s) - b + 1 : Suffix(s, b)[i] = s[b + i - 1]
  BY DEF Suffix, Name
<1>2. Suffix(s, 1) = s
  BY DEF Suffix, Name
<1>3. ASSUME NEW c \in 1..Len(s) - b + 2 PROVE Suffix(Suffix(s, b), c) = Suffix(s, b + c - 1)
  <2>. DEFINE x == Suffix(s, b)
              y == Suffix(x, c)
              z == Suffix(s, b + c - 1)
  <2>1. x \in Name /\ Len(x) = Len(s) - b + 1
    BY <1>1
  <2>2. y \in Name /\ Len(y) = Len(x) - c + 1 /\ \A i \in 1..Len(x) - c + 1 : y[i] = x[c + i - 1]
    <3>. HIDE DEF x
    <3>. QED
      BY <2>1 DEF Suffix, Name
  <2>3. z \in Name /\ Len(z) = Len(s) - b - c + 2 /\ \A i \in 1..Len(s) - b - c + 2 : z[i] = s[b + c - 1 + i - 1]
    BY DEF Suffix, Name
  <2>4. \A i \in 1..Len(z) : y[i] = z[i]
    <3>. HIDE DEF x, y, z
    <3>1. TAKE i \in 1..Len(z)
    <3>2. i \in 1..Len(x) - c + 1 /\ c + i - 1 \in 1..Len(s) - b + 1 /\ i \in 1..Len(s) - b - c + 2
      BY <2>1, <2>3
    <3>3. y[i] = x[c + i - 1] /\ z[i] = s[b + c - 1 + i - 1]
      BY <2>2, <2>3, <3>2
    <3>4. x[c + i - 1] = s[b + (c + i - 1) - 1]
      BY <1>1, <3>2 DEF x
    <3>. QED
      BY <3>2, <3>3, <3>4
  <2>. HIDE DEF x, y, z
  <2>5. y = z
    BY <2>1, <2>2, <2>3, <2>4 DEF Name
  <2>. QED
    BY <2>5 DEF x, y, z
<1>. QED
  BY <1>1, <1>2, <1>3

-----------------------------------------------------------------------------
(* Packing a name.                                                         *)

Maps == {c \in UNION {[D -> Nat] : D \in SUBSET Name} : \A x \in DOMAIN c : c[x] < MaxOffset}

Packer == [msg : Seq(Byte), comp : Maps, ok : BOOLEAN]

(* The parts of PackDomainName: the suffixes that are known, where the     *)
(* labels end, the labels and what ends the name.                          *)
Hits(s, compress, p) == {b \in Starts(s) : compress /\ Suffix(s, b) \in DOMAIN p.comp}

Stop(s, compress, p) ==
  IF Hits(s, compress, p) = {} THEN Len(s) + 1 ELSE Min(Hits(s, compress, p))

Labels(s, n) == [i \in 1..n |-> IF i \in Starts(s) THEN DotAfter(s, i) - i ELSE s[i - 1]]

Tail16(s, compress, p) ==
  IF Hits(s, compress, p) = {} THEN <<0>> ELSE Pointer(p.comp[Suffix(s, Stop(s, compress, p))])

Fresh(s, compress, p) ==
  {b \in Starts(s) : compress /\ b < Stop(s, compress, p) /\ PlaceOf(b, p) < MaxOffset}

MapWith(s, compress, p) ==
  [x \in DOMAIN p.comp \cup {Suffix(s, b) : b \in Fresh(s, compress, p)} |->
     IF x \in DOMAIN p.comp THEN p.comp[x] ELSE PlaceOf(Len(s) - Len(x) + 1, p)]

(* A name of labels is the labels that are not known, and an end.          *)
LEMMA PackedIs ==
  ASSUME NEW s, NEW compress, NEW p, s # <<>>, s # <<Dot>>
  PROVE  PackDomainName(s, compress, p) =
           IF ~Legal(s) THEN [p EXCEPT !.ok = FALSE]
           ELSE [p EXCEPT !.msg = @ \o Labels(s, Stop(s, compress, p) - 1) \o Tail16(s, compress, p),
                          !.comp = MapWith(s, compress, p)]
BY DEF PackDomainName, Labels, Stop, Hits, Tail16, MapWith, Fresh

(* MaxOffset fits in a pointer.                                            *)
LEMMA Limits == MaxOffset \in Nat /\ MaxOffset <= 16384 /\ MaxPtr \in Nat /\ Datagram \in Nat
BY WireAssumption

(* A map has offsets for names.                                            *)
LEMMA MapsAre ==
  ASSUME NEW c \in Maps
  PROVE  /\ DOMAIN c \in SUBSET Name
         /\ \A x \in DOMAIN c : c[x] \in Nat /\ c[x] < MaxOffset /\ c[x] < 16384
<1>1. PICK D \in SUBSET Name : c \in [D -> Nat]
  BY DEF Maps
<1>2. DOMAIN c = D /\ \A x \in D : c[x] \in Nat
  BY <1>1
<1>3. \A x \in DOMAIN c : c[x] < MaxOffset
  BY DEF Maps
<1>4. ASSUME NEW x \in D PROVE c[x] < 16384
  <2>1. c[x] \in Nat /\ c[x] < MaxOffset
    BY <1>2, <1>3
  <2>. QED
    BY <2>1, Limits
<1>. QED
  BY <1>2, <1>3, <1>4

(* An octet is a number.                                                   *)
LEMMA ByteIs == \A x \in Byte : x \in Nat /\ x <= 255
BY DEF Byte

(* What U16 makes are octets.                                              *)
LEMMA U16Bytes ==
  ASSUME NEW n \in Int
  PROVE  U16(n) \in Seq(Byte) /\ Len(U16(n)) = 2 /\ U16(n)[1] \in Byte /\ U16(n)[2] \in Byte
<1>1. (n \div 256) % 256 \in Byte /\ n % 256 \in Byte
  BY DEF Byte
<1>. QED
  BY <1>1 DEF U16

(* A number of two octets.                                                 *)
LEMMA U16Is ==
  ASSUME NEW n \in Int
  PROVE  /\ U16(n) \in Seq(Byte)
         /\ Len(U16(n)) = 2
         /\ U16(n)[1] \in Byte /\ U16(n)[2] \in Byte
         /\ U16(n)[1] = (n \div 256) % 256 /\ U16(n)[2] = n % 256
         /\ 0 <= n /\ n <= 65535 => U16(n)[1] * 256 + U16(n)[2] = n
<1>1. (n \div 256) % 256 \in Byte /\ n % 256 \in Byte
  BY DEF Byte
<1>2. U16(n)[1] = (n \div 256) % 256 /\ U16(n)[2] = n % 256 /\ Len(U16(n)) = 2
  BY DEF U16
<1>3. U16(n) \in Seq(Byte)
  BY <1>1 DEF U16
<1>4. ASSUME 0 <= n, n <= 65535 PROVE U16(n)[1] * 256 + U16(n)[2] = n
  <2>1. 0 <= n \div 256 /\ n \div 256 <= 255 /\ (n \div 256) * 256 + (n % 256) = n
    BY <1>4
  <2>2. (n \div 256) % 256 = n \div 256
    BY <2>1
  <2>. QED
    BY <1>2, <2>1, <2>2
<1>. QED
  BY <1>1, <1>2, <1>3, <1>4

(* Where the first suffix that is known starts.                            *)
LEMMA StopIs ==
  ASSUME NEW s \in Name, s # <<>>, NEW compress, NEW p
  PROVE  /\ Stop(s, compress, p) \in 1..Len(s) + 1
         /\ Hits(s, compress, p) # {} =>
              /\ Stop(s, compress, p) \in Hits(s, compress, p)
              /\ \A b \in Hits(s, compress, p) : Stop(s, compress, p) <= b
         /\ Hits(s, compress, p) = {} => Stop(s, compress, p) = Len(s) + 1
<1>1. CASE Hits(s, compress, p) = {}
  BY <1>1 DEF Stop, Name
<1>2. CASE Hits(s, compress, p) # {}
  <2>. DEFINE hits == Hits(s, compress, p)
  <2>1. hits \in SUBSET (1..Len(s))
    BY DEF Hits, Starts
  <2>2. hits \in SUBSET Nat
    BY <2>1 DEF Name
  <2>3. Min(hits) \in hits /\ \A b \in hits : Min(hits) <= b
    BY <1>2, <2>2, MinIs
  <2>. QED
    BY <1>2, <2>1, <2>3 DEF Stop, Name
<1>. QED
  BY <1>1, <1>2

(* The labels of a name are octets.                                        *)
LEMMA LabelsAre ==
  ASSUME NEW s \in Name, s # <<>>, Legal(s), NEW n \in 0..Len(s)
  PROVE  Labels(s, n) \in Seq(Byte) /\ Len(Labels(s, n)) = n
<1>1. ASSUME NEW i \in 1..n
      PROVE  (IF i \in Starts(s) THEN DotAfter(s, i) - i ELSE s[i - 1]) \in Byte
  <2>1. CASE i \in Starts(s)
    <3>1. DotAfter(s, i) - i \in (IF i = 1 THEN 0 ELSE 1)..63
      BY <2>1 DEF Legal
    <3>2. DotAfter(s, i) - i \in 0..63
      <4>1. CASE i = 1
        BY <3>1, <4>1
      <4>2. CASE i # 1
        <5>1. DotAfter(s, i) - i \in 1..63
          BY <3>1, <4>2
        <5>2. \A x \in 1..63 : x \in 0..63
          OBVIOUS
        <5>. QED
          BY <5>1, <5>2
      <4>. QED
        BY <4>1, <4>2
    <3>. QED
      BY <2>1, <3>2 DEF Byte
  <2>2. CASE i \notin Starts(s)
    <3>1. i \in 1..Len(s) /\ i # 1
      BY <2>2 DEF Starts, Name
    <3>2. i - 1 \in 1..Len(s) /\ s[i - 1] \in Byte
      BY <3>1 DEF Name
    <3>. QED
      BY <2>2, <3>2
  <2>. QED
    BY <2>1, <2>2
<1>2. Labels(s, n) \in [1..n -> Byte]
  BY <1>1 DEF Labels
<1>. QED
  BY <1>2

(* The end of a name is an octet or two.                                   *)
LEMMA TailIs ==
  ASSUME NEW s \in Name, s # <<>>, NEW compress, NEW p \in Packer
  PROVE  /\ Tail16(s, compress, p) \in Seq(Byte)
         /\ Hits(s, compress, p) = {} => Tail16(s, compress, p) = <<0>>
         /\ Hits(s, compress, p) # {} =>
              \E t \in Nat : /\ t < 16384
                             /\ Suffix(s, Stop(s, compress, p)) \in DOMAIN p.comp
                             /\ t = p.comp[Suffix(s, Stop(s, compress, p))]
                             /\ Tail16(s, compress, p) = Pointer(t)
         /\ Len(Tail16(s, compress, p)) = IF Hits(s, compress, p) = {} THEN 1 ELSE 2
<1>1. CASE Hits(s, compress, p) = {}
  BY <1>1 DEF Tail16, Byte
<1>2. CASE Hits(s, compress, p) # {}
  <2>1. Suffix(s, Stop(s, compress, p)) \in DOMAIN p.comp
    BY <1>2, StopIs DEF Hits
  <2>2. p.comp \in Maps
    BY DEF Packer
  <2>3. PICK t \in Nat : t = p.comp[Suffix(s, Stop(s, compress, p))] /\ t < 16384
    BY <2>1, <2>2, MapsAre
  <2>4. Tail16(s, compress, p) = Pointer(t)
    BY <1>2, <2>3 DEF Tail16, Pointer
  <2>5. Tail16(s, compress, p) \in Seq(Byte) /\ Len(Tail16(s, compress, p)) = 2
    <3>. DEFINE h == 49152 + t
    <3>1. h \in Int /\ Tail16(s, compress, p) = U16(h)
      BY <2>4 DEF Pointer
    <3>. HIDE DEF h
    <3>. QED
      BY <3>1, U16Is
  <2>. QED
    BY <1>2, <2>1, <2>3, <2>4, <2>5
<1>. QED
  BY <1>1, <1>2

(* The map that has the new labels of a name is a map.                     *)
LEMMA MapWithIs ==
  ASSUME NEW s \in Name, s # <<>>, NEW compress, NEW p \in Packer
  PROVE  MapWith(s, compress, p) \in Maps
<1>. DEFINE new == {Suffix(s, b) : b \in Fresh(s, compress, p)}
            D == DOMAIN p.comp \cup new
            v(x) == IF x \in DOMAIN p.comp THEN p.comp[x] ELSE PlaceOf(Len(s) - Len(x) + 1, p)
<1>1. p.comp \in Maps
  BY DEF Packer
<1>2. DOMAIN p.comp \in SUBSET Name /\ \A x \in DOMAIN p.comp : p.comp[x] \in Nat /\ p.comp[x] < MaxOffset
  BY <1>1, MapsAre
<1>3. ASSUME NEW b \in Fresh(s, compress, p)
      PROVE  /\ Suffix(s, b) \in Name
             /\ PlaceOf(Len(s) - Len(Suffix(s, b)) + 1, p) \in Nat
             /\ PlaceOf(Len(s) - Len(Suffix(s, b)) + 1, p) < MaxOffset
  <2>1. b \in 1..Len(s) /\ PlaceOf(b, p) < MaxOffset
    BY DEF Fresh, Starts
  <2>2. Suffix(s, b) \in Name /\ Len(Suffix(s, b)) = Len(s) - b + 1
    BY <2>1, SuffixIs
  <2>3. Len(s) - Len(Suffix(s, b)) + 1 = b
    BY <2>1, <2>2 DEF Name
  <2>4. PlaceOf(b, p) \in Nat
    BY <2>1 DEF PlaceOf, Packer
  <2>. QED
    BY <2>1, <2>2, <2>3, <2>4
<1>4. ASSUME NEW x \in D PROVE v(x) \in Nat /\ v(x) < MaxOffset
  <2>1. CASE x \in DOMAIN p.comp
    BY <1>2, <2>1
  <2>2. CASE x \notin DOMAIN p.comp
    BY <1>3, <2>2
  <2>. QED
    BY <2>1, <2>2
<1>5. D \in SUBSET Name
  BY <1>2, <1>3
<1>6. MapWith(s, compress, p) = [x \in D |-> v(x)]
  BY DEF MapWith
<1>. HIDE DEF D, v
<1>7. MapWith(s, compress, p) \in [D -> Nat] /\ \A x \in D : MapWith(s, compress, p)[x] < MaxOffset
  BY <1>4, <1>6
<1>8. MapWith(s, compress, p) \in UNION {[E -> Nat] : E \in SUBSET Name}
  BY <1>5, <1>7, Zenon
<1>. QED
  BY <1>6, <1>7, <1>8 DEF Maps

(* Packing a name extends the octets, by at most one more than its length. *)
LEMMA PackNameType ==
  ASSUME NEW s \in Name, NEW compress, NEW p \in Packer, NEW w,
         w = PackDomainName(s, compress, p)
  PROVE  /\ w \in Packer
         /\ w.ok => p.ok
         /\ Len(w.msg) >= Len(p.msg)
         /\ Len(w.msg) <= Len(p.msg) + Len(s) + 1
         /\ \A i \in 1..Len(p.msg) : w.msg[i] = p.msg[i]
<1>0. p.msg \in Seq(Byte) /\ p.comp \in Maps /\ p.ok \in BOOLEAN /\ Len(s) \in Nat
  BY DEF Packer, Name
<1>1. CASE s = <<>>
  <2>1. w = p
    BY <1>1 DEF PackDomainName
  <2>. QED
    BY <1>0, <2>1
<1>2. CASE s = <<Dot>>
  <2>1. w = [p EXCEPT !.msg = Append(@, 0)]
    BY <1>2 DEF PackDomainName
  <2>2. Append(p.msg, 0) \in Seq(Byte) /\ Len(s) = 1
    BY <1>0, <1>2 DEF Byte
  <2>3. w \in Packer /\ w.msg = Append(p.msg, 0) /\ w.ok = p.ok
    BY <2>1, <2>2 DEF Packer
  <2>. QED
    BY <1>0, <2>2, <2>3
<1>3. CASE s # <<>> /\ s # <<Dot>> /\ ~Legal(s)
  <2>1. w = [p EXCEPT !.ok = FALSE]
    BY <1>3, PackedIs
  <2>2. w \in Packer /\ w.msg = p.msg /\ w.ok = FALSE
    BY <2>1 DEF Packer
  <2>. QED
    BY <1>0, <2>2
<1>4. CASE s # <<>> /\ s # <<Dot>> /\ Legal(s)
  <2>. DEFINE n == Stop(s, compress, p) - 1
              l == Labels(s, n)
              t == Tail16(s, compress, p)
              m == MapWith(s, compress, p)
  <2>1. w = [p EXCEPT !.msg = @ \o l \o t, !.comp = m]
    BY <1>4, PackedIs
  <2>2. n \in 0..Len(s)
    BY <1>0, <1>4, StopIs
  <2>3. l \in Seq(Byte) /\ Len(l) = n
    BY <1>4, <2>2, LabelsAre
  <2>4. t \in Seq(Byte) /\ Len(t) + n <= Len(s) + 1
    <3>1. CASE Hits(s, compress, p) = {}
      <4>1. t \in Seq(Byte) /\ Len(t) = 1
        BY <1>4, <3>1, TailIs
      <4>. HIDE DEF t, n
      <4>. QED
        BY <1>0, <2>2, <4>1
    <3>2. CASE Hits(s, compress, p) # {}
      <4>1. Stop(s, compress, p) \in 1..Len(s)
        BY <1>4, <3>2, StopIs DEF Hits, Starts
      <4>2. t \in Seq(Byte) /\ Len(t) = 2
        BY <1>4, <3>2, TailIs
      <4>3. n + 2 <= Len(s) + 1
        BY <1>0, <4>1
      <4>. HIDE DEF t, n
      <4>. QED
        BY <1>0, <2>2, <4>2, <4>3
    <3>. QED
      BY <3>1, <3>2
  <2>5. m \in Maps
    BY <1>4, MapWithIs
  <2>. HIDE DEF n, l, t, m
  <2>6. p.msg \o l \o t \in Seq(Byte) /\ Len(p.msg \o l \o t) = Len(p.msg) + n + Len(t)
    <3>1. p.msg \o l \in Seq(Byte) /\ Len(p.msg \o l) = Len(p.msg) + n
      BY <1>0, <2>3
    <3>. QED
      BY <1>0, <2>3, <2>4, <3>1
  <2>7. w \in Packer /\ w.msg = p.msg \o l \o t /\ w.ok = p.ok
    BY <2>1, <2>5, <2>6 DEF Packer
  <2>8. \A i \in 1..Len(p.msg) : (p.msg \o l \o t)[i] = p.msg[i]
    BY <1>0, <2>3, <2>4
  <2>. QED
    BY <1>0, <2>2, <2>4, <2>6, <2>7, <2>8
<1>. QED
  BY <1>1, <1>2, <1>3, <1>4

-----------------------------------------------------------------------------
(* Packing a record.                                                       *)

(* The parts of a record have the lengths its layout tells.                *)
LEMMA RecordIs ==
  ASSUME NEW r \in Record
  PROVE  /\ r.rt \in DOMAIN Layout /\ r.name \in Name /\ Len(r.name) \in Nat
         /\ r.pre \in Seq(Byte) /\ r.names \in Seq(Name) /\ r.post \in Seq(Byte)
         /\ Len(r.pre) = Layout[r.rt].pre /\ Len(r.names) = Layout[r.rt].names
         /\ Len(r.post) = Layout[r.rt].post
         /\ Layout[r.rt].code \in Byte
         /\ Len(r.pre) <= 2 /\ Len(r.names) <= 2 /\ Len(r.post) <= 20
<1>1. r \in [rt : DOMAIN Layout, name : Name, pre : Seq(Byte), names : Seq(Name), post : Seq(Byte)]
  BY DEF Record
<1>2. /\ Len(r.pre) = Layout[r.rt].pre /\ Len(r.names) = Layout[r.rt].names
      /\ Len(r.post) = Layout[r.rt].post
  BY DEF Record
<1>3. \A t \in DOMAIN Layout : /\ Layout[t].code \in Byte
                               /\ Layout[t].pre <= 2 /\ Layout[t].names <= 2 /\ Layout[t].post <= 20
  BY DEF Layout, Byte
<1>4. r.name \in Seq(Byte)
  BY <1>1 DEF Name
<1>. QED
  BY <1>1, <1>2, <1>3, <1>4

(* The header of a record.                                                 *)
RRHead(r, compress, p) ==
  [PackDomainName(r.name, compress, p) EXCEPT
     !.msg = @ \o U16(Layout[r.rt].code) \o Zeros(6) \o U16(FirstRdlength(r.rt)) \o r.pre]

Whole(r, x) == [x EXCEPT !.msg = @ \o r.post]

Patched(w, start) == [w EXCEPT !.msg = RawSetRdlength(@, start)]

(* A record is its header, the names of its rdata and the rest of it, with *)
(* the length put in behind.                                               *)
LEMMA PackRRIs ==
  ASSUME NEW r \in Record, NEW compress, NEW p, RRHead(r, compress, p) \in Packer
  PROVE  \E body \in [0..Len(r.names) -> Packer] :
           /\ body[0] = RRHead(r, compress, p)
           /\ \A k \in 1..Len(r.names) : body[k] = PackDomainName(r.names[k], compress, body[k - 1])
           /\ PackRR(r, compress, p) =
                IF Whole(r, body[Len(r.names)]).ok
                THEN Patched(Whole(r, body[Len(r.names)]), Len(p.msg))
                ELSE Whole(r, body[Len(r.names)])
<1>. DEFINE body[k \in 0..Len(r.names)] ==
              IF k = 0 THEN RRHead(r, compress, p)
              ELSE PackDomainName(r.names[k], compress, body[k - 1])
            n == Len(r.names)
            first == RRHead(r, compress, p)
            step == [k \in 1..n |-> [x \in Packer |-> PackDomainName(r.names[k], compress, x)]]
<1>1. PackRR(r, compress, p) =
        IF Whole(r, body[Len(r.names)]).ok
        THEN Patched(Whole(r, body[Len(r.names)]), Len(p.msg))
        ELSE Whole(r, body[Len(r.names)])
  BY Zenon DEF PackRR, RRHead, Whole, Patched
<1>2. r.names \in Seq(Name) /\ n \in Nat
  BY RecordIs
<1>3. ASSUME NEW k \in 1..n, NEW x \in Packer
      PROVE  step[k][x] = PackDomainName(r.names[k], compress, x) /\ step[k][x] \in Packer
  <2>1. r.names[k] \in Name
    BY <1>2
  <2>2. PackDomainName(r.names[k], compress, x) \in Packer
    BY <2>1, PackNameType
  <2>3. step[k][x] = PackDomainName(r.names[k], compress, x)
    OBVIOUS
  <2>. QED
    BY <2>2, <2>3
<1>. HIDE DEF step
<1>4. PICK f : f \in Steps(n, Packer, first, step)
  <2>1. Closed(n, Packer, step)
    BY <1>3 DEF Closed
  <2>2. n \in Nat /\ first \in Packer
    BY <1>2
  <2>. HIDE DEF n, first, body
  <2>. QED
    BY <2>1, <2>2, StepsExist
<1>5. ASSUME NEW k \in 0..n
      PROVE  f[k] = IF k = 0 THEN first ELSE PackDomainName(r.names[k], compress, f[k - 1])
  <2>1. CASE k = 0
    BY <1>4, <2>1 DEF Steps
  <2>2. CASE k # 0
    <3>1. k \in 1..n /\ k - 1 \in 0..n
      BY <1>2, <2>2
    <3>2. f[k - 1] \in Packer
      BY <1>4, <3>1 DEF Steps
    <3>. QED
      BY <1>3, <1>4, <2>2, <3>1, <3>2 DEF Steps
  <2>. QED
    BY <2>1, <2>2
<1>6. f = [k \in 0..n |-> IF k = 0 THEN first ELSE PackDomainName(r.names[k], compress, f[k - 1])]
  BY <1>4, <1>5 DEF Steps
<1>7. body = [k \in 0..n |-> IF k = 0 THEN first ELSE PackDomainName(r.names[k], compress, body[k - 1])]
  BY <1>6, Zenon
<1>. HIDE DEF body, first, n
<1>8. body \in [0..n -> Packer] /\ body[0] = first
  <2>1. body = f
    <3>. DEFINE Agree == {k \in 0..n : body[k] = f[k]}
    <3>1. \A k \in 0..n : k \in Agree
      <4>1. 0 \in Agree
        BY <1>2, <1>5, <1>7
      <4>2. ASSUME NEW k \in 1..n, k - 1 \in Agree PROVE k \in Agree
        <5>1. k \in 0..n /\ k # 0 /\ body[k - 1] = f[k - 1]
          BY <1>2, <4>2
        <5>2. body[k] = PackDomainName(r.names[k], compress, body[k - 1])
          BY <1>7, <5>1
        <5>. QED
          BY <1>5, <5>1, <5>2
      <4>. HIDE DEF Agree
      <4>. QED
        BY <1>2, <4>1, <4>2, Upwards
    <3>2. \A k \in 0..n : body[k] = f[k]
      BY <3>1
    <3>. QED
      BY <1>6, <1>7, <3>2, Zenon
  <2>. QED
    BY <1>2, <1>4, <1>5, <2>1 DEF Steps
<1>9. ASSUME NEW k \in 1..n
      PROVE  body[k] = PackDomainName(r.names[k], compress, body[k - 1])
  BY <1>2, <1>7
<1>. QED
  BY <1>1, <1>8, <1>9 DEF first, n

-----------------------------------------------------------------------------
(* Putting the length of the rdata in.                                     *)

(* A name that does not go on at i ends there.                             *)
EndsAt(msg, i) ==
  \/ i = Len(msg)
  \/ msg[i + 1] = 0
  \/ msg[i + 1] >= 192
  \/ (IF msg[i + 1] < 64 THEN i + 1 + msg[i + 1] ELSE i + 1) > Len(msg)

EndOf(msg, i) ==
  IF i = Len(msg) THEN i
  ELSE IF msg[i + 1] = 0 THEN i + 1
  ELSE IF msg[i + 1] >= 192 THEN i + 2 ELSE Len(msg)

GoesOn(msg, i) == IF msg[i + 1] < 64 THEN i + 1 + msg[i + 1] ELSE i + 1

(* NameEnd goes from label to label.                                       *)
LEMMA NameEndIs ==
  ASSUME NEW msg \in Seq(Byte)
  PROVE  \E end \in [0..Len(msg) -> Nat] :
           /\ \A i \in 0..Len(msg) :
                end[i] = IF EndsAt(msg, i) THEN EndOf(msg, i) ELSE end[GoesOn(msg, i)]
           /\ \A i \in 0..Len(msg) : NameEnd(msg, i) = end[i]
<1>. DEFINE S == 0..Len(msg)
            over == {i \in S : EndsAt(msg, i)}
            result == [i \in over |-> EndOf(msg, i)]
            turn == [i \in S |-> GoesOn(msg, i)]
            N == Len(msg)
            measure == [i \in S |-> N - i]
            end[i \in 0..Len(msg)] ==
              LET c    == msg[i + 1]
                  next == IF c < 64 THEN i + 1 + c ELSE i + 1
              IN  IF i = Len(msg) THEN i
                  ELSE IF c = 0 THEN i + 1
                  ELSE IF c >= 192 THEN i + 2
                  ELSE IF next > Len(msg) THEN Len(msg) ELSE end[next]
<1>1. \A i \in S : NameEnd(msg, i) = end[i]
  BY Zenon DEF NameEnd
<1>2. N \in Nat
  OBVIOUS
<1>3. ASSUME NEW i \in S, ~EndsAt(msg, i)
      PROVE  GoesOn(msg, i) \in S /\ GoesOn(msg, i) > i
  <2>1. i + 1 \in 1..Len(msg)
    BY <1>3 DEF EndsAt
  <2>2. msg[i + 1] \in Byte
    BY <2>1
  <2>3. msg[i + 1] \in Nat
    BY <2>2, ByteIs
  <2>4. GoesOn(msg, i) > i /\ GoesOn(msg, i) \in Nat
    BY <2>3 DEF GoesOn
  <2>5. GoesOn(msg, i) <= Len(msg)
    BY <1>3, <2>4 DEF EndsAt, GoesOn
  <2>. QED
    BY <2>4, <2>5
<1>4. Comes(S, over, turn, measure, N)
  <2>1. measure \in [S -> 0..N]
    BY <1>2
  <2>2. ASSUME NEW i \in S \ over PROVE turn[i] \in S /\ measure[turn[i]] < measure[i]
    <3>1. GoesOn(msg, i) \in S /\ GoesOn(msg, i) > i
      BY <1>3
    <3>. QED
      BY <1>2, <3>1
  <2>. QED
    BY <2>1, <2>2 DEF Comes
<1>5. result \in [over -> Nat]
  BY <1>2 DEF EndOf
<1>6. PICK f : f \in Turns(S, Nat, over, result, turn)
  <2>. HIDE DEF S, over, result, turn, measure, N, end
  <2>1. over \in SUBSET S
    BY DEF over
  <2>. QED
    BY <1>2, <1>4, <1>5, <2>1, TurnsExist
<1>7. ASSUME NEW g, NEW i \in S
      PROVE  (IF i \in over THEN result[i] ELSE g[turn[i]]) =
               LET c    == msg[i + 1]
                   next == IF c < 64 THEN i + 1 + c ELSE i + 1
               IN  IF i = Len(msg) THEN i
                   ELSE IF c = 0 THEN i + 1
                   ELSE IF c >= 192 THEN i + 2
                   ELSE IF next > Len(msg) THEN Len(msg) ELSE g[next]
  <2>. HIDE DEF end
  <2>1. CASE i \in over
    <3>1. result[i] = EndOf(msg, i) /\ EndsAt(msg, i)
      BY <2>1
    <3>. QED
      BY <2>1, <3>1 DEF EndOf, EndsAt
  <2>2. CASE i \notin over
    <3>1. turn[i] = GoesOn(msg, i) /\ ~EndsAt(msg, i)
      BY <2>2
    <3>. QED
      BY <2>2, <3>1 DEF GoesOn, EndsAt
  <2>. QED
    BY <2>1, <2>2
<1>8. f = [i \in 0..Len(msg) |->
             LET c    == msg[i + 1]
                 next == IF c < 64 THEN i + 1 + c ELSE i + 1
             IN  IF i = Len(msg) THEN i
                 ELSE IF c = 0 THEN i + 1
                 ELSE IF c >= 192 THEN i + 2
                 ELSE IF next > Len(msg) THEN Len(msg) ELSE f[next]]
  <2>. HIDE DEF over, result, turn, measure, N, end
  <2>1. f = [i \in S |-> IF i \in over THEN result[i] ELSE f[turn[i]]]
    BY <1>6 DEF Turns
  <2>. QED
    BY <1>7, <2>1
<1>9. end = [i \in 0..Len(msg) |->
               LET c    == msg[i + 1]
                   next == IF c < 64 THEN i + 1 + c ELSE i + 1
               IN  IF i = Len(msg) THEN i
                   ELSE IF c = 0 THEN i + 1
                   ELSE IF c >= 192 THEN i + 2
                   ELSE IF next > Len(msg) THEN Len(msg) ELSE end[next]]
  BY <1>8, Zenon
<1>10. end \in Turns(S, Nat, over, result, turn)
  <2>. HIDE DEF over, result, turn, measure, N, end
  <2>0. end = [i \in S |-> end[i]]
    BY <1>9
  <2>a. ASSUME NEW i \in S PROVE end[i] = IF i \in over THEN result[i] ELSE end[turn[i]]
    <3>. DEFINE v == IF i \in over THEN result[i] ELSE end[turn[i]]
    <3>1. v = LET c    == msg[i + 1]
                  next == IF c < 64 THEN i + 1 + c ELSE i + 1
              IN  IF i = Len(msg) THEN i
                  ELSE IF c = 0 THEN i + 1
                  ELSE IF c >= 192 THEN i + 2
                  ELSE IF next > Len(msg) THEN Len(msg) ELSE end[next]
      BY <1>7
    <3>. HIDE DEF v
    <3>2. end[i] = v
      BY <1>9, <3>1
    <3>. QED
      BY <3>2 DEF v
  <2>1. end = [i \in S |-> IF i \in over THEN result[i] ELSE end[turn[i]]]
    BY <2>0, <2>a
  <2>2. over \in SUBSET S
    BY DEF over
  <2>. HIDE DEF S
  <2>. QED
    BY <1>2, <1>4, <1>5, <2>1, <2>2, TurnsOnce
<1>11. end \in [0..Len(msg) -> Nat]
  BY <1>10, Zenon DEF Turns
<1>12. ASSUME NEW i \in 0..Len(msg)
       PROVE  end[i] = IF EndsAt(msg, i) THEN EndOf(msg, i) ELSE end[GoesOn(msg, i)]
  <2>. HIDE DEF end
  <2>1. end[i] = IF i \in over THEN result[i] ELSE end[turn[i]]
    BY <1>10 DEF Turns
  <2>. QED
    BY <2>1
<1>. QED
  BY <1>1, <1>11, <1>12, Zenon

Joins(c, a, b) == c = a \o b

(* Two sequences, one behind the other.                                    *)
LEMMA Joined ==
  ASSUME NEW a \in Seq(Byte), NEW b \in Seq(Byte), NEW c, Joins(c, a, b)
  PROVE  /\ c \in Seq(Byte)
         /\ Len(c) = Len(a) + Len(b)
         /\ \A i \in 1..Len(a) : c[i] = a[i]
         /\ \A i \in 1..Len(b) : c[Len(a) + i] = b[i]
BY DEF Joins

Changes(c, a, j, x) == c = [a EXCEPT ![j] = x]

(* A sequence with one octet changed.                                      *)
LEMMA Changed ==
  ASSUME NEW a \in Seq(Byte), NEW j \in Nat, NEW x \in Byte, NEW c, Changes(c, a, j, x)
  PROVE  /\ c \in Seq(Byte)
         /\ Len(c) = Len(a)
         /\ \A i \in 1..Len(a) : i # j => c[i] = a[i]
         /\ j \in 1..Len(a) => c[j] = x
<1>1. DOMAIN a = 1..Len(a)
  OBVIOUS
<1>2. c = [i \in DOMAIN a |-> IF i = j THEN x ELSE a[i]]
  BY DEF Changes
<1>3. \A i \in 1..Len(a) : (IF i = j THEN x ELSE a[i]) \in Byte
  OBVIOUS
<1>4. c \in [1..Len(a) -> Byte]
  BY <1>1, <1>2, <1>3
<1>5. c \in Seq(Byte) /\ Len(c) = Len(a)
  BY <1>4
<1>. QED
  BY <1>1, <1>2, <1>5

WithLength(msg, p, n) ==
  IF n > 65535 THEN msg ELSE [msg EXCEPT ![p + 1] = U16(n)[1], ![p + 2] = U16(n)[2]]

(* The length goes behind the owner, its type, class and time to live.     *)
LEMMA RawSetIs ==
  ASSUME NEW msg \in Seq(Byte), NEW start \in 0..Len(msg), NEW e, e = NameEnd(msg, start),
         NEW w, w = RawSetRdlength(msg, start)
  PROVE  /\ e \in Nat
         /\ w \in Seq(Byte) /\ Len(w) = Len(msg)
         /\ \A i \in 1..Len(msg) : i # e + 9 /\ i # e + 10 => w[i] = msg[i]
         /\ e + 10 <= Len(msg) /\ Len(msg) - (e + 10) <= 65535 =>
              At16(w, e + 8) = Len(msg) - (e + 10)
<1>1. e \in Nat
  <2>1. PICK end \in [0..Len(msg) -> Nat] : \A i \in 0..Len(msg) : NameEnd(msg, i) = end[i]
    BY NameEndIs
  <2>. QED
    BY <2>1
<1>0. PICK p \in Nat : p = e + 8
  BY <1>1
<1>a. PICK n : n = Len(msg) - (p + 2)
  OBVIOUS
<1>2. n \in Int
  BY <1>a
<1>3. PICK x : x = U16(n)[1]
  OBVIOUS
<1>4. PICK y : y = U16(n)[2]
  OBVIOUS
<1>5. x \in Byte /\ y \in Byte /\ (0 <= n /\ n <= 65535 => x * 256 + y = n)
  <2>1. U16(n)[1] \in Byte /\ U16(n)[2] \in Byte
    BY <1>2, U16Bytes
  <2>2. 0 <= n /\ n <= 65535 => U16(n)[1] * 256 + U16(n)[2] = n
    BY <1>2, U16Is
  <2>. QED
    BY <1>3, <1>4, <2>1, <2>2
<1>6. w = IF n > 65535 THEN msg ELSE [[msg EXCEPT ![p + 1] = x] EXCEPT ![p + 2] = y]
  <2>1. w = WithLength(msg, NameEnd(msg, start) + 8, Len(msg) - ((NameEnd(msg, start) + 8) + 2))
    BY DEF RawSetRdlength, WithLength
  <2>2. w = WithLength(msg, p, n)
    BY <1>0, <1>a, <1>2, <2>1
  <2>. QED
    BY <1>3, <1>4, <2>2 DEF WithLength
<1>7. PICK u : Changes(u, msg, p + 1, x)
  BY DEF Changes
<1>8. PICK v : Changes(v, u, p + 2, y)
  BY DEF Changes
<1>9. p + 1 \in Nat /\ p + 2 \in Nat /\ p + 1 # p + 2
  BY <1>2
<1>10. /\ u \in Seq(Byte) /\ Len(u) = Len(msg)
       /\ \A i \in 1..Len(msg) : i # p + 1 => u[i] = msg[i]
       /\ p + 1 \in 1..Len(msg) => u[p + 1] = x
  BY <1>5, <1>7, <1>9, Changed
<1>11. /\ v \in Seq(Byte) /\ Len(v) = Len(u)
       /\ \A i \in 1..Len(u) : i # p + 2 => v[i] = u[i]
       /\ p + 2 \in 1..Len(u) => v[p + 2] = y
  BY <1>5, <1>8, <1>9, <1>10, Changed
<1>12. w = IF n > 65535 THEN msg ELSE v
  BY <1>6, <1>7, <1>8 DEF Changes
<1>13. w \in Seq(Byte) /\ Len(w) = Len(msg) /\ \A i \in 1..Len(msg) : i # p + 1 /\ i # p + 2 => w[i] = msg[i]
  BY <1>10, <1>11, <1>12
<1>14. ASSUME p + 2 <= Len(msg), n <= 65535
       PROVE  At16(w, p) = n
  <2>1. p + 1 \in 1..Len(msg) /\ p + 2 \in 1..Len(msg) /\ 0 <= n
    BY <1>0, <1>1, <1>a, <1>2, <1>14
  <2>2. w[p + 1] = x /\ w[p + 2] = y
    BY <1>a, <1>2, <1>9, <1>10, <1>11, <1>12, <1>14, <2>1
  <2>3. At16(w, p) = w[p + 1] * 256 + w[p + 2]
    BY <1>0, <1>2 DEF At16
  <2>. QED
    BY <1>5, <1>14, <2>1, <2>2, <2>3
<1>. QED
  BY <1>0, <1>1, <1>a, <1>2, <1>13, <1>14

Heads(r, compress, p, o, h) ==
  o = PackDomainName(r.name, compress, p) /\ h = RRHead(r, compress, p)

(* A header is ten octets behind the owner, the type first.                *)
LEMMA RRHeadIs ==
  ASSUME NEW r \in Record, NEW compress, NEW p \in Packer, NEW o, NEW h,
         Heads(r, compress, p, o, h)
  PROVE  /\ o \in Packer /\ h \in Packer
         /\ h.comp = o.comp /\ h.ok = o.ok
         /\ Len(h.msg) = Len(o.msg) + 10 + Len(r.pre)
         /\ \A i \in 1..Len(o.msg) : h.msg[i] = o.msg[i]
         /\ h.msg[Len(o.msg) + 1] = 0 /\ h.msg[Len(o.msg) + 2] = Layout[r.rt].code
         /\ \A i \in 1..Len(r.pre) : h.msg[Len(o.msg) + 10 + i] = r.pre[i]
<1>. USE DEF Heads
<1>1. PICK q : q = r.pre
  OBVIOUS
<1>2. PICK n \in Nat : n = Layout[r.rt].code /\ n <= 255
  BY RecordIs, ByteIs
<1>3. r.name \in Name /\ q \in Seq(Byte)
  BY <1>1, RecordIs
<1>4. o \in Packer
  BY <1>3, PackNameType
<1>5. PICK m : m = o.msg
  OBVIOUS
<1>6. m \in Seq(Byte)
  BY <1>4, <1>5 DEF Packer
<1>7. PICK code : code = U16(n)
  OBVIOUS
<1>8. code \in Seq(Byte) /\ Len(code) = 2 /\ code[1] = 0 /\ code[2] = n
  <2>1. U16(n) \in Seq(Byte) /\ Len(U16(n)) = 2 /\ U16(n)[1] = (n \div 256) % 256 /\ U16(n)[2] = n % 256
    BY U16Is
  <2>2. n \div 256 = 0 /\ n % 256 = n
    BY <1>2
  <2>. QED
    BY <1>7, <2>1, <2>2
<1>9. PICK first : first = U16(FirstRdlength(r.rt))
  OBVIOUS
<1>10. first \in Seq(Byte) /\ Len(first) = 2
  <2>1. FirstRdlength(r.rt) \in Int
    BY DEF FirstRdlength
  <2>. QED
    BY <1>9, <2>1, U16Is
<1>11. PICK z : z = Zeros(6)
  OBVIOUS
<1>12. z \in Seq(Byte) /\ Len(z) = 6
  <2>1. z = <<0, 0, 0, 0, 0, 0>>
    BY <1>11 DEF Zeros
  <2>2. <<0, 0, 0, 0, 0, 0>> \in Seq(Byte) /\ Len(<<0, 0, 0, 0, 0, 0>>) = 6
    BY DEF Byte
  <2>. QED
    BY <2>1, <2>2
<1>13. PICK a : Joins(a, m, code)
  BY DEF Joins
<1>14. PICK b : Joins(b, a, z)
  BY DEF Joins
<1>15. PICK c : Joins(c, b, first)
  BY DEF Joins
<1>16. PICK d : Joins(d, c, q)
  BY DEF Joins
<1>17. /\ a \in Seq(Byte) /\ Len(a) = Len(m) + 2
       /\ \A i \in 1..Len(m) : a[i] = m[i]
       /\ \A i \in 1..2 : a[Len(m) + i] = code[i]
  <2>1. /\ a \in Seq(Byte) /\ Len(a) = Len(m) + Len(code)
        /\ \A i \in 1..Len(m) : a[i] = m[i]
        /\ \A i \in 1..Len(code) : a[Len(m) + i] = code[i]
    <3>1. code \in Seq(Byte)
      BY <1>8
    <3>. QED
      BY <1>6, <1>13, <3>1, Joined
  <2>. QED
    BY <1>8, <2>1
<1>18. b \in Seq(Byte) /\ Len(b) = Len(m) + 8 /\ \A i \in 1..Len(a) : b[i] = a[i]
  <2>1. b \in Seq(Byte) /\ Len(b) = Len(a) + Len(z) /\ \A i \in 1..Len(a) : b[i] = a[i]
    <3>1. a \in Seq(Byte) /\ z \in Seq(Byte)
      BY <1>12, <1>17
    <3>. QED
      BY <1>14, <3>1, Joined
  <2>. QED
    BY <1>6, <1>12, <1>17, <2>1
<1>19. c \in Seq(Byte) /\ Len(c) = Len(m) + 10 /\ \A i \in 1..Len(b) : c[i] = b[i]
  <2>1. c \in Seq(Byte) /\ Len(c) = Len(b) + Len(first) /\ \A i \in 1..Len(b) : c[i] = b[i]
    <3>1. b \in Seq(Byte) /\ first \in Seq(Byte)
      BY <1>10, <1>18
    <3>. QED
      BY <1>15, <3>1, Joined
  <2>. QED
    BY <1>6, <1>10, <1>18, <2>1
<1>20. /\ d \in Seq(Byte) /\ Len(d) = Len(m) + 10 + Len(q)
       /\ \A i \in 1..Len(c) : d[i] = c[i]
       /\ \A i \in 1..Len(q) : d[Len(c) + i] = q[i]
  BY <1>3, <1>6, <1>16, <1>19, Joined
<1>21. h = [o EXCEPT !.msg = d]
  <2>1. h = [o EXCEPT !.msg = m \o U16(n) \o Zeros(6) \o U16(FirstRdlength(r.rt)) \o r.pre]
    BY <1>2, <1>5 DEF RRHead
  <2>. QED
    BY <1>1, <1>7, <1>9, <1>11, <1>13, <1>14, <1>15, <1>16, <2>1 DEF Joins
<1>22. h \in Packer /\ h.msg = d /\ h.comp = o.comp /\ h.ok = o.ok
  BY <1>4, <1>20, <1>21 DEF Packer
<1>23. \A i \in 1..Len(m) + 2 : d[i] = a[i]
  BY <1>6, <1>17, <1>18, <1>19, <1>20
<1>24. \A i \in 1..Len(m) : d[i] = m[i]
  BY <1>6, <1>17, <1>23
<1>25. d[Len(m) + 1] = 0 /\ d[Len(m) + 2] = n
  BY <1>6, <1>8, <1>17, <1>23
<1>26. \A i \in 1..Len(q) : d[Len(m) + 10 + i] = q[i]
  BY <1>19, <1>20
<1>. QED
  BY <1>1, <1>2, <1>4, <1>5, <1>20, <1>22, <1>24, <1>25, <1>26

(* What the names of a record take is the sum of what each takes.          *)
LEMMA LenNamesIs ==
  ASSUME NEW r \in Record
  PROVE  \E sum \in [0..Len(r.names) -> Nat] :
           /\ sum[0] = 0
           /\ \A k \in 1..Len(r.names) : sum[k] = sum[k - 1] + Len(r.names[k]) + 1
           /\ LenNames(r) = sum[Len(r.names)]
<1>. DEFINE n == Len(r.names)
            sum[k \in 0..Len(r.names)] == IF k = 0 THEN 0 ELSE sum[k - 1] + Len(r.names[k]) + 1
            step == [k \in 1..n |-> [x \in Nat |-> x + Len(r.names[k]) + 1]]
<1>1. LenNames(r) = sum[n]
  BY Zenon DEF LenNames
<1>2. r.names \in Seq(Name) /\ n \in Nat
  BY RecordIs
<1>3. ASSUME NEW k \in 1..n, NEW x \in Nat
      PROVE  step[k][x] = x + Len(r.names[k]) + 1 /\ step[k][x] \in Nat
  <2>1. r.names[k] \in Seq(Byte)
    BY <1>2 DEF Name
  <2>2. step[k][x] = x + Len(r.names[k]) + 1
    OBVIOUS
  <2>. QED
    BY <2>1, <2>2
<1>. HIDE DEF step
<1>4. PICK f : f \in Steps(n, Nat, 0, step)
  <2>1. Closed(n, Nat, step)
    BY <1>3 DEF Closed
  <2>2. n \in Nat /\ 0 \in Nat
    BY <1>2
  <2>. HIDE DEF n, sum
  <2>. QED
    BY <2>1, <2>2, StepsExist
<1>5. ASSUME NEW k \in 0..n
      PROVE  f[k] = IF k = 0 THEN 0 ELSE f[k - 1] + Len(r.names[k]) + 1
  <2>1. CASE k = 0
    BY <1>4, <2>1 DEF Steps
  <2>2. CASE k # 0
    <3>1. k \in 1..n /\ k - 1 \in 0..n
      BY <1>2, <2>2
    <3>2. f[k - 1] \in Nat
      BY <1>4, <3>1 DEF Steps
    <3>. QED
      BY <1>3, <1>4, <2>2, <3>1, <3>2 DEF Steps
  <2>. QED
    BY <2>1, <2>2
<1>6. f = [k \in 0..n |-> IF k = 0 THEN 0 ELSE f[k - 1] + Len(r.names[k]) + 1]
  BY <1>4, <1>5 DEF Steps
<1>7. sum = [k \in 0..n |-> IF k = 0 THEN 0 ELSE sum[k - 1] + Len(r.names[k]) + 1]
  BY <1>6, Zenon
<1>. HIDE DEF sum, n
<1>8. \A k \in 0..n : k \in {i \in 0..n : sum[i] \in Nat}
  <2>. DEFINE Typed == {i \in 0..n : sum[i] \in Nat}
  <2>1. 0 \in Typed
    BY <1>2, <1>7
  <2>2. ASSUME NEW k \in 1..n, k - 1 \in Typed PROVE k \in Typed
    <3>1. r.names[k] \in Seq(Byte)
      BY <1>2 DEF Name, n
    <3>2. sum[k] = sum[k - 1] + Len(r.names[k]) + 1
      BY <1>2, <1>7
    <3>. QED
      BY <1>2, <2>2, <3>1, <3>2
  <2>. HIDE DEF Typed
  <2>3. \A k \in 0..n : k \in Typed
    BY <1>2, <2>1, <2>2, Upwards
  <2>. QED
    BY <2>3 DEF Typed
<1>9. sum \in [0..n -> Nat]
  BY <1>7, <1>8
<1>10. sum[0] = 0 /\ \A k \in 1..n : sum[k] = sum[k - 1] + Len(r.names[k]) + 1
  BY <1>2, <1>7
<1>. QED
  BY <1>1, <1>9, <1>10 DEF n

Extends(b, a) == Len(b) >= Len(a) /\ \A i \in 1..Len(a) : b[i] = a[i]

(* What extends an extension extends.                                      *)
LEMMA ExtendsMore ==
  ASSUME NEW a \in Seq(Byte), NEW b \in Seq(Byte), NEW c \in Seq(Byte), Extends(b, a), Extends(c, b)
  PROVE  Extends(c, a)
BY DEF Extends

(* The names of a record extend its header.                                *)
LEMMA BodyExtends ==
  ASSUME NEW r \in Record, NEW compress, NEW body \in [0..Len(r.names) -> Packer],
         \A k \in 1..Len(r.names) : body[k] = PackDomainName(r.names[k], compress, body[k - 1])
  PROVE  \A k \in 0..Len(r.names) :
           Extends(body[k].msg, body[0].msg) /\ (body[k].ok => body[0].ok)
<1>. DEFINE n == Len(r.names)
            Good == {k \in 0..n : Extends(body[k].msg, body[0].msg) /\ (body[k].ok => body[0].ok)}
<1>1. n \in Nat
  BY RecordIs
<1>2. 0 \in Good
  <2>1. body[0].msg \in Seq(Byte)
    BY <1>1 DEF Packer
  <2>. QED
    BY <1>1, <2>1 DEF Extends
<1>3. ASSUME NEW k \in 1..n, k - 1 \in Good PROVE k \in Good
  <2>1. r.names[k] \in Name
    BY RecordIs
  <2>2. PICK p \in Packer : p = body[k - 1]
    BY <1>1
  <2>3. PICK w \in Packer : w = body[k]
    BY <1>1
  <2>4. w = PackDomainName(r.names[k], compress, p)
    BY <2>2, <2>3
  <2>5. (w.ok => p.ok) /\ Len(w.msg) >= Len(p.msg) /\ \A i \in 1..Len(p.msg) : w.msg[i] = p.msg[i]
    BY <2>1, <2>4, PackNameType
  <2>6. Extends(w.msg, p.msg)
    BY <2>5 DEF Extends
  <2>7. body[0] \in Packer
    BY <1>1
  <2>8. body[0].msg \in Seq(Byte) /\ p.msg \in Seq(Byte) /\ w.msg \in Seq(Byte)
    BY <2>7 DEF Packer
  <2>9. Extends(p.msg, body[0].msg) /\ (p.ok => body[0].ok)
    BY <1>3, <2>2
  <2>10. Extends(w.msg, body[0].msg)
    BY <2>6, <2>8, <2>9, ExtendsMore
  <2>. QED
    BY <2>3, <2>5, <2>9, <2>10
<1>. HIDE DEF n, Good
<1>4. \A k \in 0..n : k \in Good
  BY <1>1, <1>2, <1>3, Upwards
<1>. QED
  BY <1>4 DEF n, Good

(* The names of a record take no more than LenNames says.                  *)
LEMMA BodyFits ==
  ASSUME NEW r \in Record, NEW compress, NEW body \in [0..Len(r.names) -> Packer],
         \A k \in 1..Len(r.names) : body[k] = PackDomainName(r.names[k], compress, body[k - 1])
  PROVE  /\ LenNames(r) \in Nat
         /\ Len(body[Len(r.names)].msg) <= Len(body[0].msg) + LenNames(r)
<1>. DEFINE n == Len(r.names)
<1>1. n \in Nat
  BY RecordIs
<1>2. PICK sum \in [0..n -> Nat] :
           /\ sum[0] = 0
           /\ \A k \in 1..n : sum[k] = sum[k - 1] + Len(r.names[k]) + 1
           /\ LenNames(r) = sum[n]
  BY LenNamesIs
<1>. DEFINE Good == {k \in 0..n : Len(body[k].msg) <= Len(body[0].msg) + sum[k]}
<1>3. 0 \in Good
  <2>1. body[0].msg \in Seq(Byte)
    BY <1>1 DEF Packer
  <2>. QED
    BY <1>1, <1>2, <2>1
<1>4. ASSUME NEW k \in 1..n, k - 1 \in Good PROVE k \in Good
  <2>1. r.names[k] \in Name
    BY RecordIs
  <2>2. PICK p \in Packer : p = body[k - 1]
    BY <1>1
  <2>3. PICK w \in Packer : w = body[k]
    BY <1>1
  <2>4. w = PackDomainName(r.names[k], compress, p)
    BY <2>2, <2>3
  <2>5. Len(w.msg) <= Len(p.msg) + Len(r.names[k]) + 1
    BY <2>1, <2>4, PackNameType
  <2>6. body[0] \in Packer
    BY <1>1
  <2>7. Len(body[0].msg) \in Nat /\ Len(p.msg) \in Nat /\ Len(w.msg) \in Nat
    BY <2>6 DEF Packer
  <2>8. Len(p.msg) <= Len(body[0].msg) + sum[k - 1]
    BY <1>4, <2>2
  <2>9. sum[k] \in Nat /\ sum[k - 1] \in Nat
    <3>1. k \in 0..n /\ k - 1 \in 0..n
      BY <1>1
    <3>. HIDE DEF n
    <3>. QED
      BY <1>2, <3>1
  <2>10. PICK l \in Nat : l = Len(r.names[k])
    BY <2>1 DEF Name
  <2>11. sum[k] = sum[k - 1] + l + 1
    BY <1>2, <2>10
  <2>12. Len(w.msg) <= Len(p.msg) + l + 1
    BY <2>5, <2>10
  <2>13. Len(w.msg) <= Len(body[0].msg) + sum[k]
    <3>1. PICK a : a = Len(w.msg)
      OBVIOUS
    <3>2. PICK b : b = Len(p.msg)
      OBVIOUS
    <3>3. PICK c : c = Len(body[0].msg)
      OBVIOUS
    <3>4. a \in Nat /\ b \in Nat /\ c \in Nat
      BY <2>7, <3>1, <3>2, <3>3
    <3>5. a <= b + l + 1 /\ b <= c + sum[k - 1]
      BY <2>8, <2>12, <3>1, <3>2, <3>3
    <3>6. a <= c + (sum[k - 1] + l + 1)
      BY <2>9, <3>4, <3>5
    <3>. QED
      BY <2>11, <3>1, <3>3, <3>6
  <2>. QED
    BY <2>3, <2>13
<1>5. LenNames(r) \in Nat
  BY <1>1, <1>2
<1>. HIDE DEF n, Good
<1>6. \A k \in 0..n : k \in Good
  BY <1>1, <1>3, <1>4, Upwards
<1>7. n \in Good
  BY <1>1, <1>6
<1>. QED
  BY <1>2, <1>5, <1>7 DEF n, Good

(* What PackRR does, part by part.                                         *)
LEMMA PackRRParts ==
  ASSUME NEW r \in Record, NEW compress, NEW p \in Packer, NEW w, w = PackRR(r, compress, p)
  PROVE  \E body \in [0..Len(r.names) -> Packer], x \in Packer :
           /\ body[0] = RRHead(r, compress, p)
           /\ \A k \in 1..Len(r.names) : body[k] = PackDomainName(r.names[k], compress, body[k - 1])
           /\ x.comp = body[Len(r.names)].comp /\ x.ok = body[Len(r.names)].ok
           /\ Joins(x.msg, body[Len(r.names)].msg, r.post)
           /\ w = IF x.ok THEN Patched(x, Len(p.msg)) ELSE x
<1>1. RRHead(r, compress, p) \in Packer
  BY RRHeadIs DEF Heads
<1>2. PICK body \in [0..Len(r.names) -> Packer] :
        /\ body[0] = RRHead(r, compress, p)
        /\ \A k \in 1..Len(r.names) : body[k] = PackDomainName(r.names[k], compress, body[k - 1])
        /\ PackRR(r, compress, p) =
             IF Whole(r, body[Len(r.names)]).ok
             THEN Patched(Whole(r, body[Len(r.names)]), Len(p.msg))
             ELSE Whole(r, body[Len(r.names)])
  BY <1>1, PackRRIs
<1>3. PICK b : b = body[Len(r.names)]
  OBVIOUS
<1>4. b \in Packer
  BY <1>3, RecordIs
<1>5. PICK q : q = r.post
  OBVIOUS
<1>6. q \in Seq(Byte)
  BY <1>5, RecordIs
<1>7. PICK x : x = Whole(r, b)
  OBVIOUS
<1>8. b.msg \in Seq(Byte)
  BY <1>4 DEF Packer
<1>9. x = [b EXCEPT !.msg = b.msg \o q]
  BY <1>5, <1>7 DEF Whole
<1>10. PICK m : Joins(m, b.msg, q)
  BY DEF Joins
<1>11. m \in Seq(Byte)
  BY <1>6, <1>8, <1>10, Joined
<1>12. x = [b EXCEPT !.msg = m]
  BY <1>9, <1>10 DEF Joins
<1>13. x \in Packer /\ x.comp = b.comp /\ x.ok = b.ok /\ x.msg = m
  BY <1>4, <1>11, <1>12 DEF Packer
<1>14. w = IF x.ok THEN Patched(x, Len(p.msg)) ELSE x
  BY <1>2, <1>3, <1>7
<1>. QED
  BY <1>2, <1>3, <1>5, <1>10, <1>13, <1>14, Zenon

(* A record takes at most what LenRR says, and comes behind what was       *)
(* written before it.                                                      *)
LEMMA PackRRType ==
  ASSUME NEW r \in Record, NEW compress, NEW p \in Packer, NEW w, w = PackRR(r, compress, p)
  PROVE  /\ w \in Packer
         /\ LenRR(r) \in Nat
         /\ Len(w.msg) <= Len(p.msg) + LenRR(r)
<1>1. PICK body \in [0..Len(r.names) -> Packer], x \in Packer :
        /\ body[0] = RRHead(r, compress, p)
        /\ \A k \in 1..Len(r.names) : body[k] = PackDomainName(r.names[k], compress, body[k - 1])
        /\ x.comp = body[Len(r.names)].comp /\ x.ok = body[Len(r.names)].ok
        /\ Joins(x.msg, body[Len(r.names)].msg, r.post)
        /\ w = IF x.ok THEN Patched(x, Len(p.msg)) ELSE x
  BY PackRRParts
<1>2. PICK o : o = PackDomainName(r.name, compress, p)
  OBVIOUS
<1>3. /\ o \in Packer
      /\ Len(o.msg) >= Len(p.msg)
      /\ Len(o.msg) <= Len(p.msg) + Len(r.name) + 1
  BY <1>2, RecordIs, PackNameType
<1>4. PICK h : h = RRHead(r, compress, p)
  OBVIOUS
<1>5. h \in Packer /\ Len(h.msg) = Len(o.msg) + 10 + Len(r.pre)
  <2>1. Heads(r, compress, p, o, h)
    BY <1>2, <1>4 DEF Heads
  <2>. QED
    BY <2>1, RRHeadIs
<1>6. LenNames(r) \in Nat /\ Len(body[Len(r.names)].msg) <= Len(body[0].msg) + LenNames(r)
  BY <1>1, BodyFits
<1>7. \A k \in 0..Len(r.names) : Extends(body[k].msg, body[0].msg)
  BY <1>1, BodyExtends
<1>8. PICK b : b = body[Len(r.names)]
  OBVIOUS
<1>9. Len(r.names) \in 0..Len(r.names) /\ b \in Packer
  BY <1>8, RecordIs
<1>10. Len(b.msg) <= Len(h.msg) + LenNames(r) /\ Len(h.msg) <= Len(b.msg)
  <2>1. Extends(b.msg, h.msg)
    BY <1>1, <1>4, <1>7, <1>8, <1>9
  <2>. QED
    BY <1>1, <1>4, <1>6, <1>8, <2>1 DEF Extends
<1>11. /\ b.msg \in Seq(Byte) /\ x.msg \in Seq(Byte) /\ p.msg \in Seq(Byte)
       /\ o.msg \in Seq(Byte) /\ h.msg \in Seq(Byte)
  BY <1>3, <1>5, <1>9 DEF Packer
<1>12. PICK q : q = r.post
  OBVIOUS
<1>13. q \in Seq(Byte)
  BY <1>12, RecordIs
<1>14. Len(x.msg) = Len(b.msg) + Len(q)
  <2>1. Joins(x.msg, b.msg, q)
    BY <1>1, <1>8, <1>12
  <2>. QED
    BY <1>11, <1>13, <2>1, Joined
<1>15. PICK lp \in Nat, ln \in Nat, ls \in Nat, lq \in Nat :
         lp = Len(r.pre) /\ ln = LenNames(r) /\ ls = Len(r.name) /\ lq = Len(r.post)
  BY <1>6, RecordIs
<1>16. LenRR(r) = ls + 1 + 10 + lp + ln + lq
  BY <1>15 DEF LenRR
<1>17. PICK lx \in Nat, lo \in Nat, lh \in Nat, lb \in Nat, l \in Nat :
         lx = Len(x.msg) /\ lo = Len(o.msg) /\ lh = Len(h.msg) /\ lb = Len(b.msg) /\ l = Len(p.msg)
  BY <1>11
<1>18. lx = lb + lq /\ lb <= lh + ln /\ lh <= lb /\ lh = lo + 10 + lp /\ lo <= l + ls + 1 /\ lo >= l
  BY <1>3, <1>5, <1>10, <1>12, <1>14, <1>15, <1>17
<1>19. lx <= l + (ls + 1 + 10 + lp + ln + lq) /\ l <= lx
  BY <1>18
<1>20. Len(x.msg) <= Len(p.msg) + LenRR(r) /\ Len(p.msg) <= Len(x.msg) /\ LenRR(r) \in Nat
  <2>1. LenRR(r) \in Nat
    BY <1>16
  <2>2. lx <= l + LenRR(r)
    BY <1>16, <1>19
  <2>. QED
    BY <1>17, <1>19, <2>1, <2>2
<1>21. CASE x.ok
  <2>1. w = Patched(x, Len(p.msg))
    BY <1>1, <1>21
  <2>2. PICK m : m = RawSetRdlength(x.msg, Len(p.msg))
    OBVIOUS
  <2>3. Len(p.msg) \in 0..Len(x.msg)
    BY <1>11, <1>20
  <2>4. m \in Seq(Byte) /\ Len(m) = Len(x.msg)
    BY <1>11, <2>2, <2>3, RawSetIs
  <2>5. w = [x EXCEPT !.msg = m]
    BY <2>1, <2>2 DEF Patched
  <2>6. w \in Packer /\ w.msg = m
    BY <2>4, <2>5 DEF Packer
  <2>. QED
    BY <1>20, <2>4, <2>6
<1>22. CASE ~x.ok
  BY <1>1, <1>20, <1>22
<1>. QED
  BY <1>21, <1>22

(* What Len says of a record is a number, and no record takes nothing.     *)
LEMMA LenRRIs ==
  ASSUME NEW r \in Record
  PROVE  LenRR(r) \in Nat /\ 1 <= LenRR(r)
<1>1. PICK sum \in [0..Len(r.names) -> Nat] : LenNames(r) = sum[Len(r.names)]
  BY LenNamesIs
<1>2. LenNames(r) \in Nat
  BY <1>1, RecordIs
<1>3. PICK a \in Nat, b \in Nat, c \in Nat : a = Len(r.name) /\ b = Len(r.pre) /\ c = Len(r.post)
  BY RecordIs
<1>4. LenRR(r) = a + 1 + 10 + b + LenNames(r) + c
  BY <1>3 DEF LenRR
<1>5. PICK d \in Nat : d = LenNames(r)
  BY <1>2
<1>6. a + 1 + 10 + b + d + c \in Nat /\ 1 <= a + 1 + 10 + b + d + c
  OBVIOUS
<1>. QED
  BY <1>4, <1>5, <1>6

-----------------------------------------------------------------------------
(* A message.                                                              *)

Message == [q : Name, rrs : Seq(Seq(Record)), compress : BOOLEAN]

(* The records of a message.                                               *)
LEMMA MessageIs ==
  ASSUME NEW m \in Msgs
  PROVE  /\ m.q \in Name /\ m.compress \in BOOLEAN
         /\ Len(m.rrs) = 3 /\ \A k \in 1..3 : m.rrs[k] \in Seq(Record)
         /\ Records(m) \in Seq(Record)
<1>1. m \in Message /\ Len(m.rrs) = 3
  BY MessagesAssumption DEF Message
<1>2. m.q \in Name /\ m.compress \in BOOLEAN /\ m.rrs \in Seq(Seq(Record))
  BY <1>1 DEF Message
<1>3. \A k \in 1..3 : m.rrs[k] \in Seq(Record)
  BY <1>1, <1>2
<1>4. Records(m) \in Seq(Record)
  BY <1>3 DEF Records
<1>. QED
  BY <1>1, <1>2, <1>3, <1>4

(* Twelve octets come first; the last six are the counts.                  *)
LEMMA HeaderParts ==
  ASSUME NEW m \in Msgs
  PROVE  /\ Header(m) \in Seq(Byte) /\ Len(Header(m)) = 12
         /\ \A i \in 1..2 : /\ Header(m)[6 + i] = U16(Len(m.rrs[1]))[i]
                           /\ Header(m)[8 + i] = U16(Len(m.rrs[2]))[i]
                           /\ Header(m)[10 + i] = U16(Len(m.rrs[3]))[i]
<1>1. PICK z : z = Zeros(4)
  OBVIOUS
<1>2. z \in Seq(Byte) /\ Len(z) = 4
  <2>1. z = <<0, 0, 0, 0>>
    BY <1>1 DEF Zeros
  <2>2. <<0, 0, 0, 0>> \in Seq(Byte) /\ Len(<<0, 0, 0, 0>>) = 4
    BY DEF Byte
  <2>. QED
    BY <2>1, <2>2
<1>3. PICK a : a = U16(1)
  OBVIOUS
<1>4. PICK b : b = U16(Len(m.rrs[1]))
  OBVIOUS
<1>5. PICK c : c = U16(Len(m.rrs[2]))
  OBVIOUS
<1>6. PICK d : d = U16(Len(m.rrs[3]))
  OBVIOUS
<1>7. /\ a \in Seq(Byte) /\ b \in Seq(Byte) /\ c \in Seq(Byte) /\ d \in Seq(Byte)
      /\ Len(a) = 2 /\ Len(b) = 2 /\ Len(c) = 2 /\ Len(d) = 2
  <2>1. m.rrs[1] \in Seq(Record) /\ m.rrs[2] \in Seq(Record) /\ m.rrs[3] \in Seq(Record)
    BY MessageIs
  <2>2. Len(m.rrs[1]) \in Int /\ Len(m.rrs[2]) \in Int /\ Len(m.rrs[3]) \in Int
    BY <2>1
  <2>. QED
    BY <1>3, <1>4, <1>5, <1>6, <2>2, U16Bytes
<1>8. Header(m) = z \o a \o b \o c \o d
  BY <1>1, <1>3, <1>4, <1>5, <1>6 DEF Header
<1>9. PICK za : Joins(za, z, a)
  BY DEF Joins
<1>10. PICK zb : Joins(zb, za, b)
  BY DEF Joins
<1>11. PICK zc : Joins(zc, zb, c)
  BY DEF Joins
<1>12. PICK zd : Joins(zd, zc, d)
  BY DEF Joins
<1>13. /\ z \in Seq(Byte) /\ a \in Seq(Byte) /\ b \in Seq(Byte) /\ c \in Seq(Byte)
       /\ d \in Seq(Byte)
  BY <1>2, <1>7
<1>14. za \in Seq(Byte) /\ Len(za) = Len(z) + Len(a)
  BY <1>9, <1>13, Joined
<1>15. zb \in Seq(Byte) /\ Len(zb) = Len(za) + Len(b) /\ \A i \in 1..Len(b) : zb[Len(za) + i] = b[i]
  <2>1. za \in Seq(Byte) /\ b \in Seq(Byte)
    BY <1>13, <1>14
  <2>. QED
    BY <1>10, <2>1, Joined
<1>16. /\ zc \in Seq(Byte) /\ Len(zc) = Len(zb) + Len(c)
       /\ \A i \in 1..Len(zb) : zc[i] = zb[i]
       /\ \A i \in 1..Len(c) : zc[Len(zb) + i] = c[i]
  <2>1. zb \in Seq(Byte) /\ c \in Seq(Byte)
    BY <1>13, <1>15
  <2>. QED
    BY <1>11, <2>1, Joined
<1>17. /\ zd \in Seq(Byte) /\ Len(zd) = Len(zc) + Len(d)
       /\ \A i \in 1..Len(zc) : zd[i] = zc[i]
       /\ \A i \in 1..Len(d) : zd[Len(zc) + i] = d[i]
  <2>1. zc \in Seq(Byte) /\ d \in Seq(Byte)
    BY <1>13, <1>16
  <2>. QED
    BY <1>12, <2>1, Joined
<1>18. Header(m) = zd
  BY <1>8, <1>9, <1>10, <1>11, <1>12 DEF Joins
<1>19. Len(za) = 6 /\ Len(zb) = 8 /\ Len(zc) = 10 /\ Len(zd) = 12
  BY <1>2, <1>7, <1>14, <1>15, <1>16, <1>17
<1>20. ASSUME NEW i \in 1..2 PROVE zd[6 + i] = b[i] /\ zd[8 + i] = c[i] /\ zd[10 + i] = d[i]
  <2>1. i \in 1..Len(b) /\ i \in 1..Len(c) /\ i \in 1..Len(d)
    BY <1>7
  <2>2. zb[6 + i] = b[i] /\ zc[8 + i] = c[i] /\ zd[10 + i] = d[i]
    BY <1>15, <1>16, <1>17, <1>19, <2>1
  <2>3. 6 + i \in 1..Len(zb) /\ 6 + i \in 1..Len(zc) /\ 8 + i \in 1..Len(zc)
    BY <1>19
  <2>4. zc[6 + i] = zb[6 + i] /\ zd[6 + i] = zc[6 + i] /\ zd[8 + i] = zc[8 + i]
    BY <1>16, <1>17, <2>3
  <2>. QED
    BY <2>2, <2>4
<1>. QED
  BY <1>4, <1>5, <1>6, <1>17, <1>18, <1>19, <1>20

(* That many octets.                                                       *)
LEMMA HeaderIs ==
  ASSUME NEW m \in Msgs
  PROVE  Header(m) \in Seq(Byte) /\ Len(Header(m)) = 12
BY HeaderParts

(* Len adds up what the records take.                                      *)
LEMMA LenUpToIs ==
  ASSUME NEW m \in Msgs
  PROVE  /\ LenUpTo(m) \in [0..Len(Records(m)) -> Nat]
         /\ LenUpTo(m)[0] = 12 + Len(m.q) + 1 + 2 + 2
         /\ \A k \in 1..Len(Records(m)) :
              LenUpTo(m)[k] = LenUpTo(m)[k - 1] + LenRR(Records(m)[k])
<1>. DEFINE n == Len(Records(m))
            first == 12 + Len(m.q) + 1 + 2 + 2
            upTo[k \in 0..Len(Records(m))] ==
              IF k = 0 THEN 12 + Len(m.q) + 1 + 2 + 2
              ELSE upTo[k - 1] + LenRR(Records(m)[k])
            step == [k \in 1..n |-> [x \in Nat |-> x + LenRR(Records(m)[k])]]
<1>1. LenUpTo(m) = upTo
  BY Zenon DEF LenUpTo
<1>2. Records(m) \in Seq(Record) /\ n \in Nat /\ m.q \in Seq(Byte)
  BY MessageIs DEF Name
<1>3. ASSUME NEW k \in 1..n
      PROVE  LenRR(Records(m)[k]) \in Nat
  <2>1. Records(m)[k] \in Record
    BY <1>2
  <2>. QED
    BY <2>1, LenRRIs
<1>4. ASSUME NEW k \in 1..n, NEW x \in Nat
      PROVE  step[k][x] = x + LenRR(Records(m)[k]) /\ step[k][x] \in Nat
  BY <1>3
<1>. HIDE DEF step
<1>5. first \in Nat
  BY <1>2
<1>6. PICK f : f \in Steps(n, Nat, first, step)
  <2>1. Closed(n, Nat, step)
    BY <1>4 DEF Closed
  <2>. HIDE DEF n, first, upTo
  <2>. QED
    BY <1>2, <1>5, <2>1, StepsExist
<1>. HIDE DEF first
<1>7. ASSUME NEW k \in 0..n
      PROVE  f[k] = IF k = 0 THEN first ELSE f[k - 1] + LenRR(Records(m)[k])
  <2>1. CASE k = 0
    BY <1>6, <2>1 DEF Steps
  <2>2. CASE k # 0
    <3>1. k \in 1..n /\ k - 1 \in 0..n
      BY <1>2, <2>2
    <3>2. f[k - 1] \in Nat
      BY <1>6, <3>1 DEF Steps
    <3>3. f[k] = step[k][f[k - 1]]
      BY <1>6, <2>2 DEF Steps
    <3>. QED
      BY <1>4, <2>2, <3>1, <3>2, <3>3
  <2>. QED
    BY <2>1, <2>2
<1>8. f = [k \in 0..n |-> IF k = 0 THEN first ELSE f[k - 1] + LenRR(Records(m)[k])]
  BY <1>6, <1>7 DEF Steps
<1>9. upTo = [k \in 0..n |-> IF k = 0 THEN first ELSE upTo[k - 1] + LenRR(Records(m)[k])]
  BY <1>8, Zenon DEF first
<1>. HIDE DEF upTo
<1>10. \A k \in 0..n : k \in {i \in 0..n : upTo[i] \in Nat}
  <2>. DEFINE Typed == {i \in 0..n : upTo[i] \in Nat}
  <2>1. 0 \in Typed
    BY <1>2, <1>5, <1>9
  <2>2. ASSUME NEW k \in 1..n, k - 1 \in Typed PROVE k \in Typed
    <3>1. k \in 0..n /\ k # 0 /\ upTo[k - 1] \in Nat
      BY <1>2, <2>2
    <3>2. upTo[k] = upTo[k - 1] + LenRR(Records(m)[k])
      BY <1>9, <3>1
    <3>. QED
      BY <1>3, <3>1, <3>2
  <2>. HIDE DEF Typed, n
  <2>. QED
    BY <1>2, <2>1, <2>2, Upwards DEF Typed
<1>11. upTo \in [0..n -> Nat]
  BY <1>9, <1>10
<1>12. upTo[0] = first
  BY <1>2, <1>9
<1>13. ASSUME NEW k \in 1..n PROVE upTo[k] = upTo[k - 1] + LenRR(Records(m)[k])
  <2>1. k \in 0..n /\ k # 0
    BY <1>2
  <2>. QED
    BY <1>9, <2>1
<1>. QED
  BY <1>1, <1>11, <1>12, <1>13 DEF n, first

(* What Len makes room for, up to the item to be packed next.              *)
Room(m, i) == IF i = 0 THEN 12 ELSE LenUpTo(m)[i - 1]

(* Every item adds to the room, and LenMsg is all of it.                   *)
LEMMA RoomIs ==
  ASSUME NEW m \in Msgs, NEW n \in Nat, n = Len(Records(m))
  PROVE  /\ \A i \in 0..n + 1 : Room(m, i) \in Nat
         /\ Room(m, 1) = Room(m, 0) + (Len(m.q) + 1 + 4)
         /\ \A i \in 1..n : Room(m, i + 1) = Room(m, i) + LenRR(Records(m)[i])
         /\ \A i \in 0..n + 1 : Room(m, i) <= LenMsg(m)
         /\ LenMsg(m) \in Nat
<1>1. PICK len \in [0..n -> Nat] :
        /\ len[0] = 12 + Len(m.q) + 1 + 2 + 2
        /\ \A k \in 1..n : len[k] = len[k - 1] + LenRR(Records(m)[k])
        /\ \A k \in 0..n : LenUpTo(m)[k] = len[k]
  BY LenUpToIs, Zenon
<1>2. PICK q \in Nat : q = Len(m.q)
  BY MessageIs DEF Name
<1>3. Room(m, 0) = 12
  BY DEF Room
<1>4. ASSUME NEW i \in 1..n + 1 PROVE Room(m, i) = len[i - 1] /\ Room(m, i) \in Nat
  <2>1. i - 1 \in 0..n /\ i # 0
    OBVIOUS
  <2>. QED
    BY <1>1, <2>1 DEF Room
<1>5. LenMsg(m) = len[n] /\ LenMsg(m) \in Nat
  <2>1. LenMsg(m) = LenUpTo(m)[n]
    BY DEF LenMsg
  <2>2. n \in 0..n
    OBVIOUS
  <2>3. LenUpTo(m)[n] = len[n] /\ len[n] \in Nat
    BY <1>1, <2>2
  <2>. QED
    BY <2>1, <2>3
<1>6. Room(m, 1) = 12 + (q + 1 + 4)
  <2>1. 1 \in 1..n + 1
    OBVIOUS
  <2>2. Room(m, 1) = len[0]
    BY <1>4, <2>1
  <2>. QED
    BY <1>1, <1>2, <2>2
<1>7. ASSUME NEW i \in 1..n PROVE Room(m, i + 1) = Room(m, i) + LenRR(Records(m)[i])
  <2>1. i \in 1..n + 1 /\ i + 1 \in 1..n + 1 /\ (i + 1) - 1 = i
    OBVIOUS
  <2>2. Room(m, i) = len[i - 1] /\ Room(m, i + 1) = len[i]
    BY <1>4, <2>1
  <2>. QED
    BY <1>1, <2>2
<1>8. ASSUME NEW j \in 0..n PROVE len[n - j] <= len[n]
  <2>. DEFINE Good == {k \in 0..n : len[n - k] <= len[n]}
  <2>1. 0 \in Good
    BY <1>1
  <2>2. ASSUME NEW k \in 1..n, k - 1 \in Good PROVE k \in Good
    <3>0. k \in 1..n
      OBVIOUS
    <3>a. n - (k - 1) \in 1..n
      BY <3>0
    <3>1. PICK i \in 1..n : i = n - (k - 1)
      BY <3>a
    <3>2. LenRR(Records(m)[i]) \in Nat
      <4>1. Records(m)[i] \in Record
        BY MessageIs
      <4>. QED
        BY <4>1, LenRRIs
    <3>3. len[i] = len[i - 1] + LenRR(Records(m)[i]) /\ len[i] <= len[n]
      BY <1>1, <2>2, <3>1
    <3>4. i - 1 = n - k /\ len[i] \in Nat /\ len[i - 1] \in Nat /\ len[n] \in Nat
      <4>1. i - 1 = n - k
        BY <3>1
      <4>2. i \in 0..n /\ i - 1 \in 0..n /\ n \in 0..n
        OBVIOUS
      <4>3. len[i] \in Nat /\ len[i - 1] \in Nat /\ len[n] \in Nat
        BY <1>1, <4>2
      <4>. QED
        BY <4>1, <4>3
    <3>5. len[i - 1] <= len[n]
      BY <3>2, <3>3, <3>4
    <3>. QED
      BY <3>4, <3>5
  <2>. HIDE DEF Good
  <2>3. \A k \in 0..n : k \in Good
    BY <2>1, <2>2, Upwards
  <2>. QED
    BY <2>3 DEF Good
<1>9. ASSUME NEW i \in 0..n + 1 PROVE Room(m, i) <= LenMsg(m)
  <2>1. ASSUME NEW k \in 0..n PROVE len[k] <= len[n]
    <3>1. n - k \in 0..n /\ n - (n - k) = k
      OBVIOUS
    <3>. QED
      BY <1>8, <3>1
  <2>2. CASE i = 0
    <3>1. len[0] <= len[n] /\ len[n] \in Nat /\ len[0] = 12 + q + 1 + 2 + 2
      BY <1>1, <1>2, <2>1
    <3>. QED
      BY <1>3, <1>5, <2>2, <3>1
  <2>3. CASE i # 0
    <3>1. i \in 1..n + 1 /\ i - 1 \in 0..n
      BY <2>3
    <3>2. len[i - 1] <= len[n]
      BY <2>1, <3>1
    <3>. QED
      BY <1>4, <1>5, <3>1, <3>2
  <2>. QED
    BY <2>2, <2>3
<1>10. \A i \in 0..n + 1 : Room(m, i) \in Nat
  BY <1>3, <1>4
<1>. QED
  BY <1>2, <1>3, <1>5, <1>6, <1>7, <1>9, <1>10

(* A question takes four octets more than its name.                        *)
LEMMA PackQuestionType ==
  ASSUME NEW s \in Name, NEW compress, NEW p \in Packer, NEW w, w = PackQuestion(s, compress, p)
  PROVE  /\ w \in Packer
         /\ Len(w.msg) <= Len(p.msg) + (Len(s) + 1 + 4)
         /\ \E o \in Packer, z \in Seq(Byte) :
              /\ o = PackDomainName(s, compress, p)
              /\ w.comp = o.comp /\ w.ok = o.ok
              /\ Joins(w.msg, o.msg, z)
<1>1. PICK o : o = PackDomainName(s, compress, p)
  OBVIOUS
<1>2. o \in Packer /\ Len(o.msg) <= Len(p.msg) + Len(s) + 1
  BY <1>1, PackNameType
<1>3. PICK z : z = Zeros(4)
  OBVIOUS
<1>4. z \in Seq(Byte) /\ Len(z) = 4
  <2>1. z = <<0, 0, 0, 0>>
    BY <1>3 DEF Zeros
  <2>2. <<0, 0, 0, 0>> \in Seq(Byte) /\ Len(<<0, 0, 0, 0>>) = 4
    BY DEF Byte
  <2>. QED
    BY <2>1, <2>2
<1>5. PICK m : Joins(m, o.msg, z)
  BY DEF Joins
<1>6. o.msg \in Seq(Byte) /\ p.msg \in Seq(Byte) /\ s \in Seq(Byte) /\ z \in Seq(Byte)
  BY <1>2, <1>4 DEF Packer, Name
<1>7. m \in Seq(Byte) /\ Len(m) = Len(o.msg) + Len(z)
  BY <1>5, <1>6, Joined
<1>8. w = [o EXCEPT !.msg = m]
  BY <1>1, <1>3, <1>5 DEF PackQuestion, Joins
<1>9. w \in Packer /\ w.msg = m /\ w.comp = o.comp /\ w.ok = o.ok
  BY <1>2, <1>7, <1>8 DEF Packer
<1>10. PICK a \in Nat, b \in Nat, c \in Nat, d \in Nat :
         a = Len(m) /\ b = Len(o.msg) /\ c = Len(p.msg) /\ d = Len(s)
  BY <1>6, <1>7
<1>11. a = b + 4 /\ b <= c + d + 1
  BY <1>2, <1>4, <1>7, <1>10
<1>12. a <= c + (d + 1 + 4)
  BY <1>11
<1>. QED
  BY <1>1, <1>2, <1>5, <1>6, <1>9, <1>10, <1>12

-----------------------------------------------------------------------------
(* The buffer suffices.                                                    *)

Written == [msg |-> out, comp |-> comp, ok |-> TRUE]

(* While a message is packed, every item has taken at most the room Len    *)
(* makes for it.                                                           *)
Fits ==
  /\ sent \in Msgs
  /\ phase = "pack" =>
       /\ item \in 0..Len(Records(sent)) + 1
       /\ Written \in Packer
       /\ Len(out) <= Room(sent, item)

(* Nothing is written but the header.                                      *)
LEMMA FitsInit == Init => Fits
<1>. SUFFICES ASSUME Init PROVE Fits
  OBVIOUS
<1>1. sent \in Msgs /\ item = 0 /\ out = Header(sent) /\ comp = [s \in {} |-> 0]
  BY DEF Init
<1>2. out \in Seq(Byte) /\ Len(out) = 12
  BY <1>1, HeaderIs
<1>3. Len(Records(sent)) \in Nat
  BY <1>1, MessageIs
<1>4. comp \in Maps
  <2>1. {} \in SUBSET Name /\ comp \in [{} -> Nat] /\ DOMAIN comp = {}
    BY <1>1
  <2>2. comp \in UNION {[D -> Nat] : D \in SUBSET Name}
    BY <2>1, Zenon
  <2>. QED
    BY <2>1, <2>2 DEF Maps
<1>5. Written \in Packer
  BY <1>2, <1>4 DEF Written, Packer
<1>. QED
  BY <1>1, <1>2, <1>3, <1>5 DEF Fits, Room

(* Pack writes one item into its room.                                     *)
LEMMA FitsPack == Fits /\ Pack => Fits'
<1>. SUFFICES ASSUME Fits, Pack PROVE Fits'
  OBVIOUS
<1>1. sent \in Msgs /\ sent' = sent /\ phase = "pack" /\ item <= Len(Records(sent))
  BY DEF Fits, Pack
<1>2. PICK n \in Nat : n = Len(Records(sent))
  BY <1>1, MessageIs
<1>3. item \in 0..n /\ Written \in Packer /\ Len(out) <= Room(sent, item)
  BY <1>1, <1>2 DEF Fits
<1>4. PICK w : w = IF item = 0 THEN PackQuestion(sent.q, sent.compress, Written)
                   ELSE PackRR(Records(sent)[item], sent.compress, Written)
  OBVIOUS
<1>5. IF w.ok THEN out' = w.msg /\ comp' = w.comp /\ item' = item + 1 /\ phase' = phase
      ELSE phase' = "error"
  BY <1>4 DEF Pack, Written
<1>6. Written.msg = out
  BY DEF Written
<1>7. out \in Seq(Byte)
  BY <1>3, <1>6 DEF Packer
<1>8. /\ \A i \in 0..n + 1 : Room(sent, i) \in Nat
      /\ Room(sent, 1) = Room(sent, 0) + (Len(sent.q) + 1 + 4)
      /\ \A i \in 1..n : Room(sent, i + 1) = Room(sent, i) + LenRR(Records(sent)[i])
  BY <1>1, <1>2, RoomIs
<1>9. w \in Packer /\ Len(w.msg) <= Room(sent, item + 1)
  <2>1. CASE item = 0
    <3>1. sent.q \in Name
      BY <1>1, MessageIs
    <3>2. w = PackQuestion(sent.q, sent.compress, Written)
      BY <1>4, <2>1
    <3>3. w \in Packer /\ Len(w.msg) <= Len(out) + (Len(sent.q) + 1 + 4)
      BY <1>3, <1>6, <3>1, <3>2, PackQuestionType
    <3>4. PICK q \in Nat : q = Len(sent.q)
      BY <3>1 DEF Name
    <3>5. w.msg \in Seq(Byte)
      BY <3>3 DEF Packer
    <3>6. PICK a \in Nat, b \in Nat : a = Len(w.msg) /\ b = Len(out)
      BY <1>7, <3>5
    <3>7. a <= b + (q + 1 + 4) /\ b <= Room(sent, 0) /\ Room(sent, 0) \in Nat
      BY <1>3, <1>8, <2>1, <3>3, <3>4, <3>6
    <3>8. a <= Room(sent, 0) + (q + 1 + 4)
      BY <3>7
    <3>. QED
      BY <1>8, <2>1, <3>3, <3>4, <3>6, <3>8
  <2>2. CASE item # 0
    <3>1. item \in 1..n
      BY <1>3, <2>2
    <3>2. Records(sent)[item] \in Record
      BY <1>1, <1>2, <3>1, MessageIs
    <3>3. PICK r \in Record : r = Records(sent)[item]
      BY <3>2
    <3>4. w = PackRR(r, sent.compress, Written)
      BY <1>4, <2>2, <3>3
    <3>5. w \in Packer /\ LenRR(r) \in Nat /\ Len(w.msg) <= Len(out) + LenRR(r)
      BY <1>3, <1>6, <3>4, PackRRType
    <3>6. w.msg \in Seq(Byte)
      BY <3>5 DEF Packer
    <3>7. PICK a \in Nat, b \in Nat : a = Len(w.msg) /\ b = Len(out)
      BY <1>7, <3>6
    <3>8. Room(sent, item) \in Nat /\ Room(sent, item + 1) = Room(sent, item) + LenRR(r)
      BY <1>8, <3>1, <3>3
    <3>9. a <= b + LenRR(r) /\ b <= Room(sent, item)
      BY <1>3, <3>5, <3>7
    <3>10. a <= Room(sent, item) + LenRR(r)
      BY <3>5, <3>7, <3>8, <3>9
    <3>. QED
      BY <3>5, <3>7, <3>8, <3>10
  <2>. QED
    BY <2>1, <2>2
<1>10. CASE w.ok
  <2>1. out' = w.msg /\ comp' = w.comp /\ item' = item + 1 /\ phase' = "pack"
    BY <1>1, <1>5, <1>10
  <2>2. item' \in 0..n + 1
    BY <1>3, <2>1
  <2>3. Written' \in Packer
    BY <1>9, <2>1 DEF Written, Packer
  <2>4. Len(out') <= Room(sent', item')
    BY <1>1, <1>9, <2>1
  <2>. QED
    BY <1>1, <1>2, <2>1, <2>2, <2>3, <2>4 DEF Fits
<1>11. CASE ~w.ok
  BY <1>1, <1>5, <1>11 DEF Fits
<1>. QED
  BY <1>10, <1>11

(* And Fits is inductive: the other steps leave packing behind.            *)
LEMMA FitsStep == Fits /\ [Next]_vars => Fits'
<1>. SUFFICES ASSUME Fits, [Next]_vars PROVE Fits'
  OBVIOUS
<1>1. CASE Pack
  BY <1>1, FitsPack
<1>2. CASE Transmit
  BY <1>2 DEF Fits, Transmit
<1>3. CASE ReadQuestion
  BY <1>3 DEF Fits, ReadQuestion
<1>4. CASE ReadRR
  BY <1>4 DEF Fits, ReadRR
<1>5. CASE NextSection
  BY <1>5 DEF Fits, NextSection
<1>6. CASE Panic
  BY <1>6 DEF Fits, Panic
<1>7. CASE UNCHANGED vars
  BY <1>7 DEF Fits, vars, Written
<1>. QED
  BY <1>1, <1>2, <1>3, <1>4, <1>5, <1>6, <1>7 DEF Next

(* Fits holds at every moment.                                             *)
THEOREM WireFits == Spec => []Fits
<1>. QED
  BY FitsInit, FitsStep, PTL DEF Spec

(* "We always return one more than needed": whatever message is packed,    *)
(* with whatever compression, the buffer PackBuffer makes from Len has     *)
(* room for it.                                                            *)
THEOREM WireBufferSuffices == Spec => []BufferSuffices
<1>1. Fits => BufferSuffices
  <2>. SUFFICES ASSUME Fits, phase = "pack" PROVE Len(out) <= LenMsg(sent)
    BY DEF BufferSuffices
  <2>1. PICK n \in Nat : n = Len(Records(sent))
    BY MessageIs DEF Fits
  <2>2. item \in 0..n + 1 /\ Len(out) <= Room(sent, item) /\ out \in Seq(Byte)
    BY <2>1 DEF Fits, Written, Packer
  <2>3. sent \in Msgs
    BY DEF Fits
  <2>4. /\ Room(sent, item) \in Nat /\ Room(sent, item) <= LenMsg(sent)
        /\ LenMsg(sent) \in Nat
    BY <2>1, <2>2, <2>3, RoomIs
  <2>5. PICK a \in Nat : a = Len(out)
    BY <2>2
  <2>6. PICK c \in Nat : c = LenMsg(sent)
    BY <2>4, Zenon
  <2>7. PICK b \in Nat : b = Room(sent, item)
    BY <2>4, Zenon
  <2>8. a <= b /\ b <= c
    BY <2>2, <2>4, <2>5, <2>6, <2>7, Zenon
  <2>9. a <= c
    BY <2>8
  <2>. QED
    BY <2>5, <2>6, <2>9, Zenon
<1>. QED
  BY <1>1, WireFits, PTL

-----------------------------------------------------------------------------
(* Reading a name.                                                         *)

(* What is written for a character are characters.                         *)
LEMMA EscapedIs ==
  ASSUME NEW b \in Byte
  PROVE  Escaped(b) \in Seq(Byte)
<1>1. b \in Nat /\ b <= 255
  BY ByteIs
<1>2. <<Backslash, b>> \in Seq(Byte) /\ <<Backslash, 116>> \in Seq(Byte) /\ <<Backslash, 114>> \in Seq(Byte)
      /\ <<b>> \in Seq(Byte)
  BY DEF Byte, Backslash
<1>3. <<Backslash, 48 + (b \div 100), 48 + ((b \div 10) % 10), 48 + (b % 10)>> \in Seq(Byte)
  <2>1. 48 + (b \div 100) \in Byte
    BY <1>1 DEF Byte
  <2>2. 48 + ((b \div 10) % 10) \in Byte
    BY <1>1 DEF Byte
  <2>3. 48 + (b % 10) \in Byte
    BY <1>1 DEF Byte
  <2>4. Backslash \in Byte
    BY DEF Byte, Backslash
  <2>. QED
    BY <2>1, <2>2, <2>3, <2>4
<1>4. CASE b \in {Dot, 40, 41, 59, 32, 64, 34, Backslash}
  BY <1>2, <1>4 DEF Escaped, Dot, Backslash
<1>5. CASE b \notin {Dot, 40, 41, 59, 32, 64, 34, Backslash} /\ b = 9
  BY <1>2, <1>5 DEF Escaped
<1>6. CASE b \notin {Dot, 40, 41, 59, 32, 64, 34, Backslash} /\ b = 13
  BY <1>2, <1>6 DEF Escaped
<1>7. CASE b \notin {Dot, 40, 41, 59, 32, 64, 34, Backslash} /\ b # 9 /\ b # 13
  BY <1>2, <1>3, <1>7 DEF Escaped
<1>. QED
  BY <1>4, <1>5, <1>6, <1>7

(* A label is read character by character.                                 *)
LEMMA LabelAtIs ==
  ASSUME NEW msg \in Seq(Byte), NEW p \in Nat, NEW c \in Nat, p + c <= Len(msg)
  PROVE  /\ LabelAt(msg, p, c) \in Seq(Byte)
         /\ \E read \in [0..c -> Seq(Byte)] :
              /\ read[0] = <<>>
              /\ \A k \in 1..c : read[k] = read[k - 1] \o Escaped(msg[p + k])
              /\ LabelAt(msg, p, c) = Append(read[c], Dot)
<1>. DEFINE read[j \in 0..c] == IF j = 0 THEN <<>> ELSE read[j - 1] \o Escaped(msg[p + j])
            S == Seq(Byte)
            step == [k \in 1..c |-> [x \in S |-> x \o Escaped(msg[p + k])]]
<1>1. LabelAt(msg, p, c) = Append(read[c], Dot)
  BY Zenon DEF LabelAt
<1>2. ASSUME NEW k \in 1..c, NEW x \in S
      PROVE  step[k][x] = x \o Escaped(msg[p + k]) /\ step[k][x] \in S
  <2>1. msg[p + k] \in Byte
    <3>1. p + k \in 1..Len(msg)
      OBVIOUS
    <3>. QED
      BY <3>1
  <2>2. Escaped(msg[p + k]) \in S
    BY <2>1, EscapedIs
  <2>3. step[k][x] = x \o Escaped(msg[p + k])
    OBVIOUS
  <2>4. PICK y \in Seq(Byte) : y = Escaped(msg[p + k])
    BY <2>2
  <2>5. x \o y \in Seq(Byte)
    OBVIOUS
  <2>. QED
    BY <2>3, <2>4, <2>5
<1>. HIDE DEF step
<1>3. PICK first : first = <<>>
  OBVIOUS
<1>4. first \in Seq(Byte)
  BY <1>3
<1>5. PICK f : f \in Steps(c, S, first, step)
  <2>1. Closed(c, S, step)
    BY <1>2 DEF Closed
  <2>. HIDE DEF S, read
  <2>. QED
    BY <1>4, <2>1, StepsExist DEF S
<1>6. ASSUME NEW k \in 0..c
      PROVE  f[k] = IF k = 0 THEN <<>> ELSE f[k - 1] \o Escaped(msg[p + k])
  <2>1. CASE k = 0
    BY <1>3, <1>5, <2>1 DEF Steps
  <2>2. CASE k # 0
    <3>1. k \in 1..c /\ k - 1 \in 0..c
      BY <2>2
    <3>2. f[k - 1] \in S
      BY <1>5, <3>1 DEF Steps
    <3>3. f[k] = step[k][f[k - 1]]
      BY <1>5, <2>2 DEF Steps
    <3>. QED
      BY <1>2, <2>2, <3>1, <3>2, <3>3
  <2>. QED
    BY <2>1, <2>2
<1>7. f = [k \in 0..c |-> IF k = 0 THEN <<>> ELSE f[k - 1] \o Escaped(msg[p + k])]
  BY <1>5, <1>6 DEF Steps
<1>8. read = [k \in 0..c |-> IF k = 0 THEN <<>> ELSE read[k - 1] \o Escaped(msg[p + k])]
  BY <1>7, Zenon
<1>. HIDE DEF read
<1>9. \A k \in 0..c : k \in {i \in 0..c : read[i] \in S}
  <2>. DEFINE Typed == {i \in 0..c : read[i] \in S}
  <2>1. 0 \in Typed
    BY <1>8
  <2>2. ASSUME NEW k \in 1..c, k - 1 \in Typed PROVE k \in Typed
    <3>1. k \in 0..c /\ k # 0 /\ read[k - 1] \in S
      BY <2>2
    <3>2. read[k] = read[k - 1] \o Escaped(msg[p + k])
      BY <1>8, <3>1
    <3>3. read[k] = step[k][read[k - 1]]
      BY <1>2, <3>1, <3>2
    <3>. QED
      BY <1>2, <3>1, <3>3
  <2>. HIDE DEF Typed
  <2>. QED
    BY <2>1, <2>2, Upwards DEF Typed
<1>10. read \in [0..c -> Seq(Byte)]
  BY <1>8, <1>9
<1>11. read[0] = <<>> /\ \A k \in 1..c : read[k] = read[k - 1] \o Escaped(msg[p + k])
  BY <1>8
<1>12. LabelAt(msg, p, c) \in Seq(Byte)
  <2>1. read[c] \in Seq(Byte) /\ Dot \in Byte
    BY <1>10 DEF Dot, Byte
  <2>. QED
    BY <1>1, <2>1
<1>. QED
  BY <1>1, <1>10, <1>11, <1>12

(* Characters that need no escape are read as they are.                    *)
LEMMA PlainLabel ==
  ASSUME NEW msg \in Seq(Byte), NEW p \in Nat, NEW c \in Nat, p + c <= Len(msg),
         \A i \in 1..c : Escaped(msg[p + i]) = <<msg[p + i]>>
  PROVE  /\ LabelAt(msg, p, c) \in Seq(Byte)
         /\ Len(LabelAt(msg, p, c)) = c + 1
         /\ \A i \in 1..c : LabelAt(msg, p, c)[i] = msg[p + i]
         /\ LabelAt(msg, p, c)[c + 1] = Dot
<1>1. PICK read \in [0..c -> Seq(Byte)] :
        /\ read[0] = <<>>
        /\ \A k \in 1..c : read[k] = read[k - 1] \o Escaped(msg[p + k])
        /\ LabelAt(msg, p, c) = Append(read[c], Dot)
  BY LabelAtIs
<1>. DEFINE Good == {k \in 0..c : Len(read[k]) = k /\ \A i \in 1..k : read[k][i] = msg[p + i]}
<1>2. 0 \in Good
  BY <1>1
<1>3. ASSUME NEW k \in 1..c, k - 1 \in Good PROVE k \in Good
  <2>1. PICK a \in Seq(Byte) : a = read[k - 1]
    OBVIOUS
  <2>2. PICK b : b = read[k]
    OBVIOUS
  <2>3. PICK x : x = msg[p + k]
    OBVIOUS
  <2>4. b = Append(a, x)
    <3>1. b = a \o <<x>>
      BY <1>1, <2>1, <2>2, <2>3
    <3>. QED
      BY <3>1
  <2>5. Len(a) = k - 1 /\ \A i \in 1..k - 1 : a[i] = msg[p + i]
    BY <1>3, <2>1
  <2>6. Len(b) = k /\ b[k] = x /\ \A i \in 1..k - 1 : b[i] = a[i]
    BY <2>4, <2>5
  <2>7. \A i \in 1..k : b[i] = msg[p + i]
    <3>1. TAKE i \in 1..k
    <3>2. CASE i = k
      BY <2>3, <2>6, <3>2
    <3>3. CASE i # k
      <4>1. i \in 1..k - 1
        BY <3>3
      <4>. QED
        BY <2>5, <2>6, <4>1
    <3>. QED
      BY <3>2, <3>3
  <2>. QED
    BY <2>2, <2>6, <2>7
<1>. HIDE DEF Good
<1>4. \A k \in 0..c : k \in Good
  BY <1>2, <1>3, Upwards
<1>5. PICK a \in Seq(Byte) : a = read[c]
  OBVIOUS
<1>6. Len(a) = c /\ \A i \in 1..c : a[i] = msg[p + i]
  <2>1. c \in Good
    BY <1>4
  <2>2. Len(read[c]) = c /\ \A i \in 1..c : read[c][i] = msg[p + i]
    BY <2>1 DEF Good
  <2>. QED
    BY <1>5, <2>2
<1>7. LabelAt(msg, p, c) = Append(a, Dot)
  BY <1>1, <1>5
<1>8. Dot \in Byte
  BY DEF Dot, Byte
<1>. QED
  BY <1>6, <1>7, <1>8

(* UnpackDomainName is done: at an end, or at something that is none.      *)
Over(msg, x) ==
  \/ x.p >= Len(msg)
  \/ msg[x.p + 1] = 0
  \/ msg[x.p + 1] < 64 /\ x.p + 1 + msg[x.p + 1] > Len(msg)
  \/ msg[x.p + 1] >= 64 /\ (msg[x.p + 1] < 192 \/ x.p + 1 >= Len(msg) \/ x.ptrs = MaxPtr)

Outcome(msg, x) ==
  IF x.p < Len(msg) /\ msg[x.p + 1] = 0
  THEN [s |-> IF x.s = <<>> THEN <<Dot>> ELSE x.s, off |-> Behind(x.p + 1, x.ptrs, x.ret)]
  ELSE [s |-> <<>>, off |-> Len(msg)]

(* Or it goes on behind a label or where a pointer leads.                  *)
PastLabel(msg, x) ==
  [x EXCEPT !.p = @ + 1 + msg[x.p + 1], !.s = @ \o LabelAt(msg, x.p + 1, msg[x.p + 1])]

AtPointer(msg, x) ==
  [x EXCEPT !.p = Target(msg, x.p), !.ptrs = @ + 1, !.ret = Behind(x.p + 2, x.ptrs, x.ret)]

Turn(msg, x) == IF msg[x.p + 1] < 64 THEN PastLabel(msg, x) ELSE AtPointer(msg, x)

(* How far a reading is from its end, at most.                             *)
Left(msg, x) ==
  (MaxPtr - x.ptrs) * (Len(msg) + 1) + (IF x.p >= Len(msg) THEN 0 ELSE Len(msg) - x.p)

(* Less times a number is less.                                            *)
LEMMA Times ==
  ASSUME NEW a \in Nat, NEW b \in Nat, NEW w \in Nat, a <= b
  PROVE  a * w \in Nat /\ a * w <= b * w
<1>1. PICK d \in Nat : b = a + d
  OBVIOUS
<1>2. b * w = a * w + d * w
  BY <1>1
<1>3. a * w \in Nat /\ d * w \in Nat
  OBVIOUS
<1>. QED
  BY <1>2, <1>3

(* One less times a number.                                                *)
LEMMA OneLess ==
  ASSUME NEW a \in Nat, NEW w \in Nat, a > 0
  PROVE  (a - 1) * w \in Nat /\ a * w = (a - 1) * w + w
OBVIOUS

(* A reading that is not done goes on, and comes nearer to its end.        *)
LEMMA TurnIs ==
  ASSUME NEW msg \in Seq(Byte), NEW x \in Reading
  PROVE  /\ Left(msg, x) \in Nat /\ Left(msg, x) <= MaxPtr * (Len(msg) + 1) + Len(msg)
         /\ ~Over(msg, x) => Turn(msg, x) \in Reading /\ Left(msg, Turn(msg, x)) < Left(msg, x)
<1>1. PICK N \in Nat : N = Len(msg)
  OBVIOUS
<1>2. PICK q \in Nat, k \in Nat, s \in Seq(Byte), ret \in Nat :
        q = x.p /\ k = x.ptrs /\ s = x.s /\ ret = x.ret /\ k <= MaxPtr
  BY Limits DEF Reading
<1>3. PICK a \in Nat : a = MaxPtr - k
  BY <1>2, Limits
<1>4. a <= MaxPtr
  BY <1>2, <1>3, Limits
<1>5. Left(msg, x) = a * (N + 1) + (IF q >= N THEN 0 ELSE N - q)
  BY <1>1, <1>2, <1>3 DEF Left
<1>6. PICK aw \in Nat : aw = a * (N + 1)
  OBVIOUS
<1>7. aw <= MaxPtr * (N + 1)
  <2>1. N + 1 \in Nat /\ MaxPtr \in Nat
    BY Limits
  <2>. QED
    BY <1>4, <1>6, <2>1, Times
<1>8. Left(msg, x) = aw + (IF q >= N THEN 0 ELSE N - q)
  BY <1>5, <1>6
<1>9. Left(msg, x) \in Nat /\ Left(msg, x) <= MaxPtr * (Len(msg) + 1) + Len(msg)
  <2>1. PICK mw \in Int : mw = MaxPtr * (N + 1)
    BY Limits
  <2>2. Left(msg, x) \in Nat /\ Left(msg, x) <= mw + N
    BY <1>7, <1>8, <2>1
  <2>. QED
    BY <1>1, <2>1, <2>2
<1>10. ASSUME ~Over(msg, x)
       PROVE  Turn(msg, x) \in Reading /\ Left(msg, Turn(msg, x)) < Left(msg, x)
  <2>1. q < N
    BY <1>1, <1>2, <1>10 DEF Over
  <2>2. msg[q + 1] \in Byte
    <3>1. q + 1 \in 1..Len(msg)
      BY <1>1, <2>1
    <3>. QED
      BY <3>1
  <2>3. PICK c \in Nat : c = msg[q + 1] /\ c <= 255
    BY <2>2, ByteIs
  <2>4. CASE c < 64
    <3>1. q + 1 + c <= N /\ c > 0
      BY <1>1, <1>2, <1>10, <2>3, <2>4, SMTT(30) DEF Over
    <3>2. PICK l : l = LabelAt(msg, q + 1, c)
      OBVIOUS
    <3>3. l \in Seq(Byte)
      <4>0. PICK u \in Nat : u = q + 1
        OBVIOUS
      <4>1. u + c <= Len(msg)
        BY <1>1, <3>1, <4>0
      <4>2. LabelAt(msg, u, c) \in Seq(Byte)
        BY <4>1, LabelAtIs
      <4>. QED
        BY <3>2, <4>0, <4>2
    <3>4. Turn(msg, x) = [x EXCEPT !.p = q + 1 + c, !.s = s \o l]
      BY <1>2, <2>3, <2>4, <3>2 DEF Turn, PastLabel
    <3>5. PICK t : t = s \o l
      OBVIOUS
    <3>6. t \in Seq(Byte) /\ q + 1 + c \in Nat
      BY <3>3, <3>5
    <3>7. PICK y : y = Turn(msg, x)
      OBVIOUS
    <3>8. y \in Reading /\ y.p = q + 1 + c /\ y.ptrs = k
      BY <1>2, <3>4, <3>5, <3>6, <3>7 DEF Reading
    <3>9. Left(msg, y) = aw + (IF q + 1 + c >= N THEN 0 ELSE N - (q + 1 + c))
      BY <1>1, <1>3, <1>6, <3>8 DEF Left
    <3>10. Left(msg, y) < Left(msg, x)
      BY <1>8, <2>1, <3>1, <3>9
    <3>. QED
      BY <3>7, <3>8, <3>10
  <2>5. CASE c >= 64
    <3>1. c >= 192 /\ q + 1 < N /\ k # MaxPtr
      BY <1>1, <1>2, <1>10, <2>3, <2>5 DEF Over
    <3>2. msg[q + 2] \in Byte
      <4>1. q + 2 \in 1..Len(msg)
        BY <1>1, <3>1
      <4>. QED
        BY <4>1
    <3>3. PICK d \in Nat : d = msg[q + 2]
      BY <3>2, ByteIs
    <3>4. At16(msg, q) = c * 256 + d
      BY <2>3, <3>3 DEF At16
    <3>5. PICK t \in Nat : t = Target(msg, q)
      BY <3>1, <3>4 DEF Target
    <3>6. PICK b \in Nat : b = Behind(q + 2, k, ret)
      BY DEF Behind
    <3>7. Turn(msg, x) = [x EXCEPT !.p = t, !.ptrs = k + 1, !.ret = b]
      BY <1>2, <2>3, <2>5, <3>5, <3>6 DEF Turn, AtPointer
    <3>8. k + 1 \in 0..MaxPtr /\ a > 0
      BY <1>2, <1>3, <3>1, Limits
    <3>9. PICK y : y = Turn(msg, x)
      OBVIOUS
    <3>10. y \in Reading /\ y.p = t /\ y.ptrs = k + 1
      BY <3>7, <3>8, <3>9 DEF Reading
    <3>11. PICK bw \in Nat : bw = (a - 1) * (N + 1) /\ aw = bw + (N + 1)
      <4>1. N + 1 \in Nat
        OBVIOUS
      <4>. QED
        BY <1>6, <3>8, <4>1, OneLess
    <3>12. Left(msg, y) = bw + (IF t >= N THEN 0 ELSE N - t)
      <4>1. MaxPtr - (k + 1) = a - 1
        BY <1>3, Limits
      <4>. QED
        BY <1>1, <3>10, <3>11, <4>1 DEF Left
    <3>13. Left(msg, y) < Left(msg, x)
      BY <1>8, <2>1, <3>11, <3>12
    <3>. QED
      BY <3>9, <3>10, <3>13
  <2>. QED
    BY <2>4, <2>5
<1>. QED
  BY <1>9, <1>10

(* What NameFrom does at x.                                                *)
OneTurn(msg, from, x) ==
  LET c   == msg[x.p + 1]
      bad == [s |-> <<>>, off |-> Len(msg)]
  IN  IF x.p >= Len(msg) THEN bad
      ELSE IF c = 0
      THEN [s |-> IF x.s = <<>> THEN <<Dot>> ELSE x.s,
            off |-> Behind(x.p + 1, x.ptrs, x.ret)]
      ELSE IF c < 64
      THEN IF x.p + 1 + c > Len(msg) THEN bad
           ELSE from[[x EXCEPT !.p = @ + 1 + c, !.s = @ \o LabelAt(msg, x.p + 1, c)]]
      ELSE IF c < 192 \/ x.p + 1 >= Len(msg) \/ x.ptrs = MaxPtr THEN bad
      ELSE from[[x EXCEPT !.p = Target(msg, x.p), !.ptrs = @ + 1,
                          !.ret = Behind(x.p + 2, x.ptrs, x.ret)]]

(* A turn ends the reading or leads to the next one.                       *)
LEMMA OneTurnIs ==
  ASSUME NEW msg \in Seq(Byte), NEW x \in Reading, NEW from
  PROVE  OneTurn(msg, from, x) =
           IF Over(msg, x) THEN Outcome(msg, x) ELSE from[Turn(msg, x)]
<1>1. CASE x.p >= Len(msg)
  <2>1. Over(msg, x) /\ Outcome(msg, x) = [s |-> <<>>, off |-> Len(msg)]
    BY <1>1 DEF Over, Outcome, Reading
  <2>. QED
    BY <1>1, <2>1 DEF OneTurn
<1>2. CASE x.p < Len(msg)
  <2>1. msg[x.p + 1] \in Byte
    <3>1. x.p + 1 \in 1..Len(msg)
      BY <1>2 DEF Reading
    <3>. QED
      BY <3>1
  <2>2. PICK c \in Nat : c = msg[x.p + 1]
    BY <2>1, ByteIs
  <2>3. x.p \in Nat
    BY DEF Reading
  <2>4. CASE c = 0
    <3>1. Over(msg, x)
      BY <2>2, <2>4 DEF Over
    <3>. QED
      BY <1>2, <2>2, <2>3, <2>4, <3>1 DEF OneTurn, Outcome
  <2>5. CASE c # 0 /\ c < 64
    <3>1. CASE x.p + 1 + c > Len(msg)
      <4>1. Over(msg, x)
        BY <2>2, <2>5, <3>1 DEF Over
      <4>. QED
        BY <1>2, <2>2, <2>3, <2>5, <3>1, <4>1 DEF OneTurn, Outcome
    <3>2. CASE ~(x.p + 1 + c > Len(msg))
      <4>1. ~Over(msg, x)
        BY <1>2, <2>2, <2>3, <2>5, <3>2 DEF Over
      <4>2. Turn(msg, x) = PastLabel(msg, x)
        BY <2>2, <2>5 DEF Turn
      <4>3. OneTurn(msg, from, x) = from[PastLabel(msg, x)]
        BY <1>2, <2>2, <2>3, <2>5, <3>2 DEF OneTurn, PastLabel
      <4>. QED
        BY <4>1, <4>2, <4>3
    <3>. QED
      BY <3>1, <3>2
  <2>6. CASE c >= 64
    <3>1. CASE c < 192 \/ x.p + 1 >= Len(msg) \/ x.ptrs = MaxPtr
      <4>1. Over(msg, x)
        BY <2>2, <2>6, <3>1 DEF Over
      <4>. QED
        BY <1>2, <2>2, <2>3, <2>6, <3>1, <4>1 DEF OneTurn, Outcome
    <3>2. CASE ~(c < 192 \/ x.p + 1 >= Len(msg) \/ x.ptrs = MaxPtr)
      <4>1. ~Over(msg, x)
        BY <1>2, <2>2, <2>3, <2>6, <3>2 DEF Over
      <4>2. Turn(msg, x) = AtPointer(msg, x)
        BY <2>2, <2>6 DEF Turn
      <4>3. OneTurn(msg, from, x) = from[AtPointer(msg, x)]
        BY <1>2, <2>2, <2>3, <2>6, <3>2 DEF OneTurn, AtPointer
      <4>. QED
        BY <4>1, <4>2, <4>3
    <3>. QED
      BY <3>1, <3>2
  <2>. QED
    BY <2>2, <2>4, <2>5, <2>6
<1>. QED
  BY <1>1, <1>2 DEF Reading

(* NameFrom goes from turn to turn.                                        *)
LEMMA NameFromIs ==
  ASSUME NEW msg \in Seq(Byte), NEW y \in Reading
  PROVE  NameFrom(msg)[y] =
           IF Over(msg, y) THEN Outcome(msg, y) ELSE NameFrom(msg)[Turn(msg, y)]
<1>. DEFINE bad == [s |-> <<>>, off |-> Len(msg)]
            from[x \in Reading] ==
              LET c == msg[x.p + 1]
              IN  IF x.p >= Len(msg) THEN bad
                  ELSE IF c = 0
                  THEN [s |-> IF x.s = <<>> THEN <<Dot>> ELSE x.s,
                        off |-> Behind(x.p + 1, x.ptrs, x.ret)]
                  ELSE IF c < 64
                  THEN IF x.p + 1 + c > Len(msg) THEN bad
                       ELSE from[[x EXCEPT !.p = @ + 1 + c, !.s = @ \o LabelAt(msg, x.p + 1, c)]]
                  ELSE IF c < 192 \/ x.p + 1 >= Len(msg) \/ x.ptrs = MaxPtr THEN bad
                  ELSE from[[x EXCEPT !.p = Target(msg, x.p), !.ptrs = @ + 1,
                                      !.ret = Behind(x.p + 2, x.ptrs, x.ret)]]
            over == {x \in Reading : Over(msg, x)}
            result == [x \in over |-> Outcome(msg, x)]
            R == {Outcome(msg, x) : x \in over}
            turn == [x \in Reading |-> Turn(msg, x)]
            N == MaxPtr * (Len(msg) + 1) + Len(msg)
            measure == [x \in Reading |-> Left(msg, x)]
<1>1. NameFrom(msg) = from
  BY Zenon DEF NameFrom
<1>2. N \in Nat
  <2>1. MaxPtr * (Len(msg) + 1) \in Nat
    <3>1. PICK a \in Nat, b \in Nat : a = MaxPtr /\ b = Len(msg) + 1
      BY Limits
    <3>2. a * b \in Nat
      OBVIOUS
    <3>. QED
      BY <3>1, <3>2
  <2>. QED
    BY <2>1
<1>3. Comes(Reading, over, turn, measure, N)
  <2>1. measure \in [Reading -> 0..N]
    <3>1. ASSUME NEW x \in Reading PROVE Left(msg, x) \in 0..N
      <4>1. Left(msg, x) \in Nat /\ Left(msg, x) <= N
        BY TurnIs
      <4>. HIDE DEF N
      <4>. QED
        BY <1>2, <4>1
    <3>. HIDE DEF N
    <3>. QED
      BY <3>1
  <2>2. ASSUME NEW x \in Reading \ over
        PROVE  turn[x] \in Reading /\ measure[turn[x]] < measure[x]
    <3>1. x \in Reading /\ ~Over(msg, x)
      OBVIOUS
    <3>2. Turn(msg, x) \in Reading /\ Left(msg, Turn(msg, x)) < Left(msg, x)
      BY <3>1, TurnIs
    <3>3. turn[x] = Turn(msg, x)
      OBVIOUS
    <3>. QED
      BY <3>1, <3>2, <3>3
  <2>. HIDE DEF over, turn, measure, N
  <2>. QED
    BY <2>1, <2>2 DEF Comes
<1>4. result \in [over -> R] /\ over \in SUBSET Reading
  OBVIOUS
<1>5. PICK f : f \in Turns(Reading, R, over, result, turn)
  <2>. HIDE DEF over, result, R, turn, measure, N, from
  <2>. QED
    BY <1>2, <1>3, <1>4, TurnsExist
<1>6. ASSUME NEW x \in Reading
      PROVE  f[x] = OneTurn(msg, f, x)
  <2>1. f[x] = IF x \in over THEN result[x] ELSE f[turn[x]]
    BY <1>5 DEF Turns
  <2>2. OneTurn(msg, f, x) = IF Over(msg, x) THEN Outcome(msg, x) ELSE f[Turn(msg, x)]
    BY OneTurnIs
  <2>. QED
    BY <2>1, <2>2
<1>7. f = [x \in Reading |-> OneTurn(msg, f, x)]
  BY <1>5, <1>6 DEF Turns
<1>8. from = [x \in Reading |-> OneTurn(msg, from, x)]
  BY <1>7, Zenon DEF OneTurn
<1>. HIDE DEF from
<1>9. from[y] = OneTurn(msg, from, y)
  BY <1>8, Zenon
<1>10. OneTurn(msg, from, y) = IF Over(msg, y) THEN Outcome(msg, y) ELSE from[Turn(msg, y)]
  BY OneTurnIs
<1>. QED
  BY <1>1, <1>9, <1>10

-----------------------------------------------------------------------------
(* Names are written where they can be read.                               *)

(* A suffix has no more labels, and less if labels come before it.         *)
LEMMA FewerDots ==
  ASSUME NEW s \in Name, NEW b \in 1..Len(s) + 1
  PROVE  /\ Cardinality(Dots(s)) \in Nat /\ Cardinality(Dots(Suffix(s, b))) \in Nat
         /\ Cardinality(Dots(Suffix(s, b))) <= Cardinality(Dots(s))
         /\ b > 1 /\ s[b - 1] = Dot => Cardinality(Dots(Suffix(s, b))) < Cardinality(Dots(s))
<1>. DEFINE x == Suffix(s, b)
            T == Dots(s) \ {b - 1}
            f == [i \in Dots(x) |-> i + b - 1]
<1>1. PICK n \in Nat : n = Len(s)
  BY DEF Name
<1>2. x \in Name /\ Len(x) = n - b + 1 /\ \A i \in 1..n - b + 1 : x[i] = s[b + i - 1]
  BY <1>1, SuffixIs
<1>3. IsFiniteSet(Dots(s))
  <2>1. IsFiniteSet(1..n)
    BY FS_Interval
  <2>2. Dots(s) \in SUBSET (1..n)
    BY <1>1 DEF Dots
  <2>. QED
    BY <2>1, <2>2, FS_Subset
<1>4. /\ IsFiniteSet(T) /\ Cardinality(Dots(s)) \in Nat /\ Cardinality(T) \in Nat
      /\ Cardinality(T) = IF b - 1 \in Dots(s) THEN Cardinality(Dots(s)) - 1 ELSE Cardinality(Dots(s))
  <2>1. IsFiniteSet(T) /\ Cardinality(T) = IF b - 1 \in Dots(s) THEN Cardinality(Dots(s)) - 1 ELSE Cardinality(Dots(s))
    BY <1>3, FS_RemoveElement
  <2>. HIDE DEF T
  <2>. QED
    BY <1>3, <2>1, FS_CardinalityType
<1>5. f \in Injection(Dots(x), T)
  <2>. HIDE DEF x
  <2>1. ASSUME NEW i \in Dots(x) PROVE i + b - 1 \in T /\ i \in Nat
    <3>1. i \in 1..n - b + 1 /\ x[i] = Dot
      BY <1>1, <1>2 DEF Dots
    <3>2. b + i - 1 \in 1..n /\ s[b + i - 1] = Dot /\ b + i - 1 = i + b - 1 /\ i + b - 1 # b - 1
      BY <1>1, <1>2, <3>1
    <3>. QED
      BY <1>1, <3>1, <3>2 DEF Dots
  <2>2. f \in [Dots(x) -> T]
    BY <2>1
  <2>3. ASSUME NEW i \in Dots(x), NEW j \in Dots(x), f[i] = f[j] PROVE i = j
    BY <2>1, <2>3
  <2>. HIDE DEF T, f
  <2>. QED
    BY <2>2, <2>3 DEF Injection, IsInjective
<1>6. Cardinality(Dots(x)) <= Cardinality(T) /\ Cardinality(Dots(x)) \in Nat
  <2>. HIDE DEF x, T, f
  <2>1. IsFiniteSet(Dots(x)) /\ Cardinality(Dots(x)) <= Cardinality(T)
    BY <1>4, <1>5, FS_Injection
  <2>. QED
    BY <2>1, FS_CardinalityType
<1>7. ASSUME b > 1, s[b - 1] = Dot PROVE b - 1 \in Dots(s)
  BY <1>1, <1>7 DEF Dots
<1>. HIDE DEF T, x
<1>. QED
  BY <1>4, <1>6, <1>7 DEF x

(* A place where a label of a name starts: the name from there on, the     *)
(* length of the label, and where what is written of the name ends.        *)
Loc == [at : Nat, name : Name, len : 1..63, end : Nat]

Rest(l) == Suffix(l.name, l.len + 2)

HasLabel(l, msg) ==
  /\ Few(l.name)
  /\ l.len + 1 <= Len(l.name) /\ l.name[l.len + 1] = Dot
  /\ \A i \in 1..l.len : Escaped(l.name[i]) = <<l.name[i]>>
  /\ l.at + l.len + 2 <= l.end /\ l.end <= Len(msg)
  /\ msg[l.at + 1] = l.len
  /\ \A i \in 1..l.len : msg[l.at + 1 + i] = l.name[i]

(* The label is the last one; the next one follows; or a pointer does.     *)
AtRoot(l, msg) == Len(l.name) = l.len + 1 /\ l.end = l.at + l.len + 2 /\ msg[l.end] = 0

Followed(l, m) == m.at = l.at + l.len + 1 /\ m.name = Rest(l) /\ m.end = l.end

Pointing(l, m, msg) ==
  /\ m.at < 16384 /\ m.name = Rest(l) /\ m.end <= l.at
  /\ l.end = l.at + l.len + 3
  /\ msg[l.at + l.len + 2] = Pointer(m.at)[1] /\ msg[l.at + l.len + 3] = Pointer(m.at)[2]

Sound(L, msg) ==
  /\ L \in SUBSET Loc
  /\ \A l \in L : /\ HasLabel(l, msg)
                  /\ AtRoot(l, msg) \/ \E m \in L : Followed(l, m) \/ Pointing(l, m, msg)

(* The parts of a place.                                                   *)
LEMMA LocIs ==
  ASSUME NEW l \in Loc
  PROVE  /\ l.at \in Nat /\ l.name \in Name /\ l.end \in Nat
         /\ l.len \in Nat /\ 1 <= l.len /\ l.len <= 63
<1>1. l.at \in Nat /\ l.name \in Name /\ l.end \in Nat /\ l.len \in 1..63
  BY DEF Loc
<1>2. \A k \in 1..63 : k \in Nat /\ 1 <= k /\ k <= 63
  OBVIOUS
<1>. QED
  BY <1>1, <1>2

(* The octets of the places are the same in two messages.                  *)
Kept(L, msg, other) ==
  \A l \in L : /\ l.end <= Len(other)
               /\ \A i \in 1..Len(msg) : l.at < i /\ i <= l.end => other[i] = msg[i]

(* Then the places are as sound in the other one.                          *)
LEMMA KeptSound ==
  ASSUME NEW msg \in Seq(Byte), NEW other \in Seq(Byte), NEW L, Sound(L, msg), Kept(L, msg, other)
  PROVE  Sound(L, other)
<1>1. ASSUME NEW l \in L
      PROVE  /\ HasLabel(l, other)
             /\ AtRoot(l, other) \/ \E m \in L : Followed(l, m) \/ Pointing(l, m, other)
  <2>1. l \in Loc /\ HasLabel(l, msg)
    BY DEF Sound
  <2>2. PICK a \in Nat, k \in Nat, e \in Nat : a = l.at /\ k = l.len /\ e = l.end
    BY <2>1, LocIs
  <2>3. a + k + 2 <= e /\ e <= Len(msg) /\ e <= Len(other)
    BY <2>1, <2>2 DEF HasLabel, Kept
  <2>4. ASSUME NEW i \in Nat, a < i, i <= e PROVE other[i] = msg[i]
    <3>1. i \in 1..Len(msg)
      BY <2>3, <2>4
    <3>. QED
      BY <2>2, <2>4, <3>1 DEF Kept
  <2>5. HasLabel(l, other)
    <3>1. other[a + 1] = msg[a + 1]
      BY <2>3, <2>4
    <3>2. \A i \in 1..k : other[a + 1 + i] = msg[a + 1 + i]
      <4>1. TAKE i \in 1..k
      <4>2. a + 1 + i \in Nat /\ a < a + 1 + i /\ a + 1 + i <= e
        BY <2>3
      <4>. QED
        BY <2>4, <4>2
    <3>. QED
      BY <2>1, <2>2, <2>3, <3>1, <3>2 DEF HasLabel
  <2>6. CASE AtRoot(l, msg)
    <3>1. e = a + k + 2 /\ other[e] = msg[e]
      BY <2>2, <2>4, <2>6 DEF AtRoot
    <3>. QED
      BY <2>2, <2>5, <2>6, <3>1 DEF AtRoot
  <2>7. CASE \E m \in L : Followed(l, m) \/ Pointing(l, m, msg)
    <3>1. PICK m \in L : Followed(l, m) \/ Pointing(l, m, msg)
      BY <2>7
    <3>2. CASE Followed(l, m)
      BY <2>5, <3>2
    <3>3. CASE Pointing(l, m, msg)
      <4>1. e = a + k + 3
        BY <2>2, <3>3 DEF Pointing
      <4>2. other[a + k + 2] = msg[a + k + 2] /\ other[a + k + 3] = msg[a + k + 3]
        <5>1. a + k + 2 \in Nat /\ a < a + k + 2 /\ a + k + 2 <= e
          BY <4>1
        <5>2. a + k + 3 \in Nat /\ a < a + k + 3 /\ a + k + 3 <= e
          BY <4>1
        <5>. QED
          BY <2>4, <5>1, <5>2
      <4>3. Pointing(l, m, other)
        BY <2>2, <3>3, <4>2 DEF Pointing
      <4>. QED
        BY <2>5, <4>3
    <3>. QED
      BY <3>1, <3>2, <3>3
  <2>. QED
    BY <2>1, <2>5, <2>6, <2>7 DEF Sound
<1>. QED
  BY <1>1 DEF Sound

(* What comes behind a message leaves its places as they are.              *)
LEMMA ExtendsKept ==
  ASSUME NEW msg \in Seq(Byte), NEW other \in Seq(Byte), NEW L, Sound(L, msg), Extends(other, msg)
  PROVE  Kept(L, msg, other) /\ Sound(L, other)
<1>1. ASSUME NEW l \in L PROVE l.end \in Nat /\ l.end <= Len(msg)
  BY DEF Sound, HasLabel, Loc
<1>2. Len(other) >= Len(msg) /\ \A i \in 1..Len(msg) : other[i] = msg[i]
  BY DEF Extends
<1>3. Kept(L, msg, other)
  BY <1>1, <1>2 DEF Kept
<1>. QED
  BY <1>3, KeptSound

Leads(c, d, t) == c \in Nat /\ d \in Nat /\ 192 <= c /\ c * 256 + d = 49152 + t

(* A pointer has its two highest bits set, and leads to its offset.        *)
LEMMA PointerIs ==
  ASSUME NEW t \in Nat, t < 16384
  PROVE  /\ Leads(Pointer(t)[1], Pointer(t)[2], t)
         /\ Pointer(t) \in Seq(Byte) /\ Len(Pointer(t)) = 2
<1>1. PICK n \in Nat : n = 49152 + t
  OBVIOUS
<1>2. n <= 65535 /\ Pointer(t) = U16(n)
  BY <1>1 DEF Pointer
<1>3. /\ U16(n) \in Seq(Byte) /\ Len(U16(n)) = 2
      /\ U16(n)[1] \in Byte /\ U16(n)[2] \in Byte
      /\ U16(n)[1] * 256 + U16(n)[2] = n
  BY <1>2, U16Is
<1>4. PICK a \in Nat, b \in Nat : a = U16(n)[1] /\ b = U16(n)[2] /\ b <= 255
  BY <1>3, ByteIs
<1>5. a * 256 + b = n
  BY <1>3, <1>4
<1>6. 192 <= a
  BY <1>1, <1>4, <1>5
<1>7. Leads(Pointer(t)[1], Pointer(t)[2], t)
  BY <1>1, <1>2, <1>4, <1>5, <1>6 DEF Leads
<1>. QED
  BY <1>2, <1>3, <1>7

First(l) == SubSeq(l.name, 1, l.len + 1)

(* A name is its first label and the rest.                                 *)
LEMMA FirstAndRest ==
  ASSUME NEW l \in Loc, l.len + 1 <= Len(l.name), NEW s \in Seq(Byte)
  PROVE  /\ First(l) \in Seq(Byte) /\ Len(First(l)) = l.len + 1
         /\ \A i \in 1..l.len + 1 : First(l)[i] = l.name[i]
         /\ Rest(l) \in Name /\ Len(Rest(l)) = Len(l.name) - l.len - 1
         /\ s \o First(l) \in Seq(Byte) /\ s \o First(l) # <<>>
         /\ (s \o First(l)) \o Rest(l) = s \o l.name
         /\ Len(l.name) = l.len + 1 => s \o First(l) = s \o l.name
<1>1. PICK k \in Nat : k = l.len
  BY LocIs
<1>2. PICK n \in Seq(Byte) : n = l.name
  BY LocIs DEF Name
<1>3. PICK f : f = SubSeq(n, 1, k + 1)
  OBVIOUS
<1>4. f \in Seq(Byte) /\ Len(f) = k + 1 /\ \A i \in 1..k + 1 : f[i] = n[i]
  BY <1>1, <1>2, <1>3
<1>5. f = First(l)
  BY <1>1, <1>2, <1>3 DEF First
<1>6. PICK r : r = Suffix(n, k + 2)
  OBVIOUS
<1>7. r \in Seq(Byte) /\ Len(r) = Len(n) - k - 1 /\ \A i \in 1..Len(n) - k - 1 : r[i] = n[k + 1 + i]
  <2>1. k + 2 \in 1..Len(n) + 1
    BY <1>1, <1>2
  <2>. QED
    BY <1>6, <2>1 DEF Suffix
<1>8. r = Rest(l)
  BY <1>1, <1>2, <1>6 DEF Rest
<1>9. PICK sf : Joins(sf, s, f)
  BY DEF Joins
<1>a. f \in Seq(Byte) /\ r \in Seq(Byte) /\ n \in Seq(Byte)
  BY <1>4, <1>7
<1>10. /\ sf \in Seq(Byte) /\ Len(sf) = Len(s) + Len(f)
       /\ \A i \in 1..Len(s) : sf[i] = s[i]
       /\ \A i \in 1..Len(f) : sf[Len(s) + i] = f[i]
  BY <1>9, <1>a, Joined
<1>b. sf \in Seq(Byte)
  BY <1>10
<1>11. sf # <<>>
  <2>1. Len(sf) > 0
    BY <1>4, <1>10
  <2>. QED
    BY <2>1
<1>12. sf \o r = s \o n
  <2>1. PICK a : Joins(a, sf, r)
    BY DEF Joins
  <2>2. PICK b : Joins(b, s, n)
    BY DEF Joins
  <2>3. /\ a \in Seq(Byte) /\ Len(a) = Len(sf) + Len(r)
        /\ \A i \in 1..Len(sf) : a[i] = sf[i]
        /\ \A i \in 1..Len(r) : a[Len(sf) + i] = r[i]
    BY <1>a, <1>b, <2>1, Joined
  <2>4. /\ b \in Seq(Byte) /\ Len(b) = Len(s) + Len(n)
        /\ \A i \in 1..Len(s) : b[i] = s[i]
        /\ \A i \in 1..Len(n) : b[Len(s) + i] = n[i]
    BY <1>a, <2>2, Joined
  <2>5. PICK ls \in Nat, ln \in Nat : ls = Len(s) /\ ln = Len(n)
    BY <1>a
  <2>6. Len(f) = k + 1 /\ Len(r) = ln - k - 1 /\ k + 1 <= ln /\ Len(sf) = ls + k + 1
    BY <1>1, <1>2, <1>4, <1>7, <1>10, <2>5
  <2>7. Len(a) = ls + ln /\ Len(b) = ls + ln
    BY <2>3, <2>4, <2>5, <2>6
  <2>8. ASSUME NEW i \in 1..ls + ln PROVE a[i] = b[i]
    <3>1. CASE i <= ls
      <4>1. i \in 1..ls /\ i \in 1..Len(sf)
        BY <2>6, <3>1
      <4>. QED
        BY <1>10, <2>3, <2>4, <2>5, <4>1
    <3>2. CASE i > ls /\ i <= ls + k + 1
      <4>1. PICK j \in Nat : j = i - ls
        BY <3>2
      <4>2. j \in 1..k + 1 /\ j \in 1..ln /\ i = ls + j /\ i \in 1..Len(sf)
        BY <2>6, <3>2, <4>1
      <4>3. a[i] = sf[i] /\ sf[i] = f[j] /\ b[i] = n[j] /\ f[j] = n[j]
        BY <1>4, <1>10, <2>3, <2>4, <2>5, <2>6, <4>2
      <4>. QED
        BY <4>3
    <3>3. CASE i > ls + k + 1
      <4>1. PICK j \in Nat : j = i - (ls + k + 1)
        BY <3>3
      <4>2. j \in 1..ln - k - 1 /\ k + 1 + j \in 1..ln /\ i = (ls + k + 1) + j /\ i = ls + (k + 1 + j)
        BY <2>6, <3>3, <4>1
      <4>3. a[(ls + k + 1) + j] = r[j]
        BY <2>3, <2>6, <4>2
      <4>4. b[ls + (k + 1 + j)] = n[k + 1 + j]
        BY <2>4, <2>5, <4>2
      <4>5. r[j] = n[k + 1 + j]
        BY <1>7, <2>5, <4>2
      <4>. QED
        BY <4>2, <4>3, <4>4, <4>5
    <3>. QED
      BY <3>1, <3>2, <3>3
  <2>9. a = b
    BY <2>3, <2>4, <2>7, <2>8
  <2>. QED
    BY <2>1, <2>2, <2>9 DEF Joins
<1>13. ASSUME Len(n) = k + 1 PROVE f = n
  BY <1>4, <1>13
<1>14. Len(Rest(l)) = Len(l.name) - l.len - 1 /\ Len(First(l)) = l.len + 1
  BY <1>1, <1>2, <1>4, <1>5, <1>7, <1>8
<1>15. \A i \in 1..l.len + 1 : First(l)[i] = l.name[i]
  BY <1>1, <1>2, <1>4, <1>5
<1>16. s \o First(l) = sf
  BY <1>5, <1>9 DEF Joins
<1>17. First(l) \in Seq(Byte) /\ Rest(l) \in Name
  BY <1>5, <1>8, <1>a DEF Name
<1>18. (s \o First(l)) \o Rest(l) = s \o l.name
  BY <1>2, <1>8, <1>12, <1>16
<1>19. Len(l.name) = l.len + 1 => s \o First(l) = s \o l.name
  BY <1>1, <1>2, <1>5, <1>13
<1>. QED
  BY <1>10, <1>11, <1>14, <1>15, <1>16, <1>17, <1>18, <1>19

Passed(x, l) == [x EXCEPT !.p = l.at + l.len + 1, !.s = x.s \o First(l)]

(* A reading at a place goes past its label.                               *)
LEMMA PassLabel ==
  ASSUME NEW msg \in Seq(Byte), NEW l \in Loc, HasLabel(l, msg), NEW x \in Reading, x.p = l.at
  PROVE  Passed(x, l) \in Reading /\ NameFrom(msg)[x] = NameFrom(msg)[Passed(x, l)]
<1>0. PICK y : y = Passed(x, l)
  OBVIOUS
<1>1. PICK a \in Nat, k \in Nat, e \in Nat :
        a = l.at /\ k = l.len /\ e = l.end /\ 1 <= k /\ k <= 63
  BY LocIs
<1>2. a + k + 2 <= e /\ e <= Len(msg)
  BY <1>1 DEF HasLabel
<1>3. msg[a + 1] = k
  BY <1>1 DEF HasLabel
<1>4. ~Over(msg, x)
  BY <1>1, <1>2, <1>3, SMTT(30) DEF Over
<1>5. /\ First(l) \in Seq(Byte) /\ Len(First(l)) = k + 1
      /\ \A i \in 1..k + 1 : First(l)[i] = l.name[i]
  <2>1. l.len + 1 <= Len(l.name)
    BY DEF HasLabel
  <2>2. <<>> \in Seq(Byte)
    OBVIOUS
  <2>. QED
    BY <1>1, <2>1, <2>2, FirstAndRest
<1>6. LabelAt(msg, a + 1, k) = First(l)
  <2>0. PICK u \in Nat : u = a + 1
    OBVIOUS
  <2>1. u + k <= Len(msg)
    BY <1>2, <2>0
  <2>2. \A i \in 1..k : msg[u + i] = l.name[i] /\ Escaped(msg[u + i]) = <<msg[u + i]>>
    BY <1>1, <2>0 DEF HasLabel
  <2>3. /\ LabelAt(msg, u, k) \in Seq(Byte)
        /\ Len(LabelAt(msg, u, k)) = k + 1
        /\ \A i \in 1..k : LabelAt(msg, u, k)[i] = msg[u + i]
        /\ LabelAt(msg, u, k)[k + 1] = Dot
    BY <2>1, <2>2, PlainLabel
  <2>4. l.name[k + 1] = Dot
    BY <1>1 DEF HasLabel
  <2>5. PICK g \in Seq(Byte) : g = LabelAt(msg, u, k)
    BY <2>3
  <2>6. PICK f \in Seq(Byte) : f = First(l)
    BY <1>5
  <2>7. Len(g) = k + 1 /\ Len(f) = k + 1
    BY <1>5, <2>3, <2>5, <2>6
  <2>8. \A i \in 1..k + 1 : g[i] = f[i]
    <3>1. TAKE i \in 1..k + 1
    <3>2. f[i] = l.name[i]
      BY <1>5, <2>6
    <3>3. CASE i = k + 1
      BY <2>3, <2>4, <2>5, <3>2, <3>3
    <3>4. CASE i # k + 1
      <4>1. i \in 1..k
        BY <3>4
      <4>. QED
        BY <2>2, <2>3, <2>5, <3>2, <4>1
    <3>. QED
      BY <3>3, <3>4
  <2>. QED
    BY <2>0, <2>5, <2>6, <2>7, <2>8
<1>7. Turn(msg, x) = [x EXCEPT !.p = a + 1 + k, !.s = x.s \o First(l)]
  <2>1. x.p = a /\ k < 64
    BY <1>1
  <2>2. Turn(msg, x) = PastLabel(msg, x)
    BY <1>3, <2>1 DEF Turn
  <2>3. PastLabel(msg, x) = [x EXCEPT !.p = a + 1 + k, !.s = x.s \o LabelAt(msg, a + 1, k)]
    BY <1>3, <2>1 DEF PastLabel
  <2>. QED
    BY <1>6, <2>2, <2>3
<1>8. y = Turn(msg, x)
  <2>1. a + 1 + k = l.at + l.len + 1
    BY <1>1
  <2>. QED
    BY <1>0, <1>7, <2>1 DEF Passed
<1>. QED
  BY <1>0, <1>4, <1>8, TurnIs, NameFromIs

(* A name of at most n characters is read from its place as it is.         *)
ReadsUpTo(n, L, msg) ==
  \A l \in L, x \in Reading :
    Len(l.name) <= n /\ x.p = l.at /\ Cardinality(Dots(l.name)) + x.ptrs <= MaxPtr + 1 =>
      NameFrom(msg)[x] = [s |-> x.s \o l.name, off |-> Behind(l.end, x.ptrs, x.ret)]

(* The rest of a name is shorter and has less labels.                      *)
LEMMA RestIs ==
  ASSUME NEW msg, NEW l \in Loc, HasLabel(l, msg)
  PROVE  /\ Rest(l) \in Name /\ Len(Rest(l)) < Len(l.name)
         /\ Cardinality(Dots(l.name)) \in Nat /\ Cardinality(Dots(Rest(l))) \in Nat
         /\ Cardinality(Dots(Rest(l))) < Cardinality(Dots(l.name))
<1>1. PICK k \in Nat : k = l.len
  BY LocIs
<1>2. PICK s \in Name : s = l.name
  BY LocIs
<1>3. k + 1 <= Len(s) /\ s[k + 1] = Dot /\ Len(s) \in Nat
  BY <1>1, <1>2 DEF HasLabel, Name
<1>4. PICK b \in Nat : b = k + 2
  OBVIOUS
<1>5. b \in 1..Len(s) + 1 /\ b > 1 /\ s[b - 1] = Dot
  BY <1>3, <1>4
<1>6. /\ Cardinality(Dots(s)) \in Nat /\ Cardinality(Dots(Suffix(s, b))) \in Nat
      /\ Cardinality(Dots(Suffix(s, b))) < Cardinality(Dots(s))
  BY <1>5, FewerDots
<1>7. Suffix(s, b) \in Name /\ Len(Suffix(s, b)) = Len(s) - b + 1
  BY <1>5, SuffixIs
<1>8. Suffix(s, b) = Rest(l)
  BY <1>1, <1>2, <1>4 DEF Rest
<1>. QED
  BY <1>2, <1>3, <1>4, <1>6, <1>7, <1>8

(* The reading of a name ends at the root.                                 *)
LEMMA ReadRoot ==
  ASSUME NEW msg \in Seq(Byte), NEW l \in Loc, HasLabel(l, msg), AtRoot(l, msg),
         NEW x \in Reading, x.p = l.at
  PROVE  NameFrom(msg)[x] = [s |-> x.s \o l.name, off |-> Behind(l.end, x.ptrs, x.ret)]
<1>1. PICK y : y = Passed(x, l)
  OBVIOUS
<1>2. y \in Reading /\ NameFrom(msg)[x] = NameFrom(msg)[y]
  BY <1>1, PassLabel
<1>3. PICK a \in Nat, k \in Nat, e \in Nat : a = l.at /\ k = l.len /\ e = l.end
  BY LocIs
<1>4. e = a + k + 2 /\ e <= Len(msg) /\ msg[e] = 0 /\ Len(l.name) = l.len + 1
  BY <1>3 DEF AtRoot, HasLabel
<1>5. y.p = a + k + 1 /\ y.s = x.s \o First(l) /\ y.ptrs = x.ptrs /\ y.ret = x.ret
  BY <1>1, <1>3 DEF Reading, Passed
<1>6. y.s # <<>> /\ y.s = x.s \o l.name
  <2>1. x.s \in Seq(Byte) /\ l.len + 1 <= Len(l.name)
    BY DEF Reading, HasLabel
  <2>2. x.s \o First(l) # <<>> /\ x.s \o First(l) = x.s \o l.name
    BY <1>4, <2>1, FirstAndRest
  <2>. QED
    BY <1>5, <2>2
<1>7. y.p < Len(msg) /\ y.p + 1 = e
  BY <1>4, <1>5
<1>8. Over(msg, y)
  BY <1>4, <1>7 DEF Over
<1>9. Outcome(msg, y) = [s |-> y.s, off |-> Behind(e, y.ptrs, y.ret)]
  BY <1>4, <1>6, <1>7 DEF Outcome
<1>10. NameFrom(msg)[y] = Outcome(msg, y)
  BY <1>2, <1>8, NameFromIs
<1>. QED
  BY <1>2, <1>3, <1>5, <1>6, <1>9, <1>10

(* Or it goes on with the next label.                                      *)
LEMMA ReadNext ==
  ASSUME NEW msg \in Seq(Byte), NEW l \in Loc, HasLabel(l, msg), NEW m \in Loc, Followed(l, m),
         NEW x \in Reading, x.p = l.at, NEW n \in Nat, Len(l.name) <= n,
         Cardinality(Dots(l.name)) + x.ptrs <= MaxPtr + 1,
         ReadsUpTo(n - 1, {m}, msg)
  PROVE  NameFrom(msg)[x] = [s |-> x.s \o l.name, off |-> Behind(l.end, x.ptrs, x.ret)]
<1>1. PICK y : y = Passed(x, l)
  OBVIOUS
<1>2. y \in Reading /\ NameFrom(msg)[x] = NameFrom(msg)[y]
  BY <1>1, PassLabel
<1>3. /\ y.p = l.at + l.len + 1 /\ y.s = x.s \o First(l)
      /\ y.ptrs = x.ptrs /\ y.ret = x.ret /\ x.ptrs \in Nat
  BY <1>1 DEF Reading, Passed
<1>4. m.at = y.p /\ m.name = Rest(l) /\ m.end = l.end
  BY <1>3 DEF Followed
<1>5. /\ Rest(l) \in Name /\ Len(Rest(l)) < Len(l.name)
      /\ Cardinality(Dots(l.name)) \in Nat /\ Cardinality(Dots(Rest(l))) \in Nat
      /\ Cardinality(Dots(Rest(l))) < Cardinality(Dots(l.name))
  BY RestIs
<1>6. Len(m.name) <= n - 1
  <2>1. PICK a \in Nat, b \in Nat : a = Len(Rest(l)) /\ b = Len(l.name)
    BY <1>5, LocIs DEF Name
  <2>2. a < b /\ b <= n
    BY <1>5, <2>1
  <2>3. a <= n - 1
    BY <2>2
  <2>. QED
    BY <1>4, <2>1, <2>3
<1>7. Cardinality(Dots(m.name)) + y.ptrs <= MaxPtr + 1
  <2>1. PICK a \in Nat, b \in Nat, c \in Nat :
          a = Cardinality(Dots(Rest(l))) /\ b = Cardinality(Dots(l.name)) /\ c = x.ptrs
    BY <1>3, <1>5
  <2>2. a < b /\ b + c <= MaxPtr + 1
    BY <1>5, <2>1
  <2>3. a + c <= MaxPtr + 1
    BY <2>2, Limits
  <2>. QED
    BY <1>3, <1>4, <2>1, <2>3
<1>8. NameFrom(msg)[y] = [s |-> y.s \o m.name, off |-> Behind(m.end, y.ptrs, y.ret)]
  BY <1>2, <1>4, <1>6, <1>7 DEF ReadsUpTo
<1>9. (x.s \o First(l)) \o Rest(l) = x.s \o l.name
  <2>1. x.s \in Seq(Byte) /\ l.len + 1 <= Len(l.name)
    BY DEF Reading, HasLabel
  <2>. QED
    BY <2>1, FirstAndRest
<1>. QED
  BY <1>2, <1>3, <1>4, <1>8, <1>9

(* Or it goes on where the pointer leads.                                  *)
LEMMA ReadPointer ==
  ASSUME NEW msg \in Seq(Byte), NEW l \in Loc, HasLabel(l, msg),
         NEW m \in Loc, HasLabel(m, msg), Pointing(l, m, msg),
         NEW x \in Reading, x.p = l.at, NEW n \in Nat, Len(l.name) <= n,
         Cardinality(Dots(l.name)) + x.ptrs <= MaxPtr + 1,
         ReadsUpTo(n - 1, {m}, msg)
  PROVE  NameFrom(msg)[x] = [s |-> x.s \o l.name, off |-> Behind(l.end, x.ptrs, x.ret)]
<1>1. PICK y : y = Passed(x, l)
  OBVIOUS
<1>2. y \in Reading /\ NameFrom(msg)[x] = NameFrom(msg)[y]
  BY <1>1, PassLabel
<1>a. PICK a \in Nat, k \in Nat, e \in Nat : a = l.at /\ k = l.len /\ e = l.end
  BY LocIs
<1>b. PICK t \in Nat : t = m.at
  BY LocIs
<1>c. PICK ptrs \in Nat, ret \in Nat : ptrs = x.ptrs /\ ret = x.ret
  BY DEF Reading
<1>3. a = l.at /\ k = l.len /\ e = l.end /\ t = m.at /\ ptrs = x.ptrs /\ ret = x.ret
  BY <1>a, <1>b, <1>c
<1>4. y.p = a + k + 1 /\ y.s = x.s \o First(l) /\ y.ptrs = ptrs /\ y.ret = ret
  BY <1>1, <1>3 DEF Reading, Passed
<1>5. /\ t < 16384 /\ m.name = Rest(l) /\ e = a + k + 3 /\ e <= Len(msg)
      /\ msg[a + k + 2] = Pointer(t)[1] /\ msg[a + k + 3] = Pointer(t)[2]
  BY <1>3 DEF Pointing, HasLabel
<1>6. PICK c \in Nat, d \in Nat : c = Pointer(t)[1] /\ d = Pointer(t)[2] /\ 192 <= c /\ c * 256 + d = 49152 + t
  <2>1. t < 16384
    BY <1>5
  <2>2. PICK c, d : c = Pointer(t)[1] /\ d = Pointer(t)[2]
    OBVIOUS
  <2>3. Leads(c, d, t)
    BY <2>1, <2>2, PointerIs
  <2>. QED
    BY <2>2, <2>3, SMTT(30) DEF Leads
<1>7. msg[y.p + 1] = c /\ msg[y.p + 2] = d /\ y.p + 1 < Len(msg) /\ y.p \in Nat
  <2>1. (a + k + 1) + 1 = a + k + 2 /\ (a + k + 1) + 2 = a + k + 3
    OBVIOUS
  <2>. QED
    BY <1>4, <1>5, <1>6, <2>1
<1>8. PICK j \in Nat, i \in Nat : j = Cardinality(Dots(l.name)) /\ i = Cardinality(Dots(m.name)) /\ i < j /\ i > 0
  <2>1. /\ Cardinality(Dots(l.name)) \in Nat /\ Cardinality(Dots(Rest(l))) \in Nat
        /\ Cardinality(Dots(Rest(l))) < Cardinality(Dots(l.name))
    BY RestIs
  <2>2. /\ Cardinality(Dots(m.name)) \in Nat /\ Cardinality(Dots(Rest(m))) \in Nat
        /\ Cardinality(Dots(Rest(m))) < Cardinality(Dots(m.name))
    BY RestIs
  <2>. QED
    BY <1>5, <2>1, <2>2
<1>9. j + ptrs <= MaxPtr + 1
  BY <1>3, <1>8
<1>10. ptrs # MaxPtr /\ i + (ptrs + 1) <= MaxPtr + 1
  BY <1>8, <1>9, Limits
<1>11. ~Over(msg, y)
  <2>1. c # 0 /\ ~(c < 64) /\ ~(c < 192)
    BY <1>6, SMTT(30)
  <2>2. PICK q \in Nat : q = y.p
    BY <1>7
  <2>3. ~(q >= Len(msg)) /\ ~(q + 1 >= Len(msg)) /\ msg[q + 1] = c
    BY <1>7, <2>2
  <2>4. y.ptrs # MaxPtr
    BY <1>4, <1>10
  <2>. QED
    BY <2>1, <2>2, <2>3, <2>4 DEF Over
<1>12. Target(msg, y.p) = t
  <2>1. At16(msg, y.p) = c * 256 + d
    BY <1>7 DEF At16
  <2>. QED
    BY <1>6, <2>1 DEF Target
<1>13. PICK z : z = Turn(msg, y)
  OBVIOUS
<1>14. z = [y EXCEPT !.p = t, !.ptrs = ptrs + 1, !.ret = Behind(y.p + 2, ptrs, ret)]
  <2>1. ~(msg[y.p + 1] < 64)
    BY <1>6, <1>7
  <2>2. Turn(msg, y) = AtPointer(msg, y)
    BY <2>1 DEF Turn
  <2>. QED
    BY <1>4, <1>12, <1>13, <2>2 DEF AtPointer
<1>15. z \in Reading /\ NameFrom(msg)[y] = NameFrom(msg)[z]
  BY <1>2, <1>11, <1>13, TurnIs, NameFromIs
<1>16. z.p = m.at /\ z.s = x.s \o First(l) /\ z.ptrs = ptrs + 1 /\ z.ret = Behind(e, ptrs, ret)
  <2>1. y.p + 2 = e
    BY <1>4, <1>5
  <2>. QED
    BY <1>2, <1>3, <1>4, <1>14, <2>1 DEF Reading
<1>17. Len(m.name) <= n - 1
  <2>1. /\ Rest(l) \in Name /\ Len(Rest(l)) < Len(l.name)
    BY RestIs
  <2>2. PICK u \in Nat, v \in Nat : u = Len(Rest(l)) /\ v = Len(l.name)
    BY <2>1, LocIs DEF Name
  <2>3. u < v /\ v <= n
    BY <2>1, <2>2
  <2>4. u <= n - 1
    BY <2>3
  <2>. QED
    BY <1>5, <2>2, <2>4
<1>18. NameFrom(msg)[z] = [s |-> z.s \o m.name, off |-> Behind(m.end, z.ptrs, z.ret)]
  <2>1. Cardinality(Dots(m.name)) + z.ptrs <= MaxPtr + 1
    BY <1>8, <1>10, <1>16
  <2>. QED
    BY <1>15, <1>16, <1>17, <2>1 DEF ReadsUpTo
<1>19. Behind(m.end, z.ptrs, z.ret) = Behind(l.end, x.ptrs, x.ret)
  BY <1>3, <1>16 DEF Behind
<1>20. (x.s \o First(l)) \o Rest(l) = x.s \o l.name
  <2>1. x.s \in Seq(Byte) /\ l.len + 1 <= Len(l.name)
    BY DEF Reading, HasLabel
  <2>. QED
    BY <2>1, FirstAndRest
<1>21. z.s \o m.name = x.s \o l.name
  BY <1>5, <1>16, <1>20
<1>22. NameFrom(msg)[x] = NameFrom(msg)[z]
  BY <1>2, <1>15
<1>. QED
  BY <1>18, <1>19, <1>21, <1>22

(* Every name of sound places is read as it is, from wherever it is.       *)
LEMMA ReadsBack ==
  ASSUME NEW msg \in Seq(Byte), NEW L, Sound(L, msg), NEW N \in Nat
  PROVE  ReadsUpTo(N, L, msg)
<1>. DEFINE Good == {n \in 0..N : ReadsUpTo(n, L, msg)}
<1>1. ASSUME NEW l \in L PROVE l \in Loc /\ HasLabel(l, msg) /\ Len(l.name) \in Nat /\ Len(l.name) > 0
  <2>1. l \in Loc /\ HasLabel(l, msg)
    BY DEF Sound
  <2>2. PICK k \in Nat, n \in Nat : k = l.len /\ n = Len(l.name)
    BY <2>1, LocIs DEF Name
  <2>3. k + 1 <= n
    BY <2>1, <2>2 DEF HasLabel
  <2>. QED
    BY <2>1, <2>2, <2>3
<1>2. 0 \in Good
  <2>1. \A l \in L : ~(Len(l.name) <= 0)
    BY <1>1
  <2>2. ReadsUpTo(0, L, msg)
    BY <2>1 DEF ReadsUpTo
  <2>. QED
    BY <2>2
<1>3. ASSUME NEW n \in 1..N, n - 1 \in Good PROVE n \in Good
  <2>1. ASSUME NEW l \in L, NEW x \in Reading, Len(l.name) <= n, x.p = l.at,
               Cardinality(Dots(l.name)) + x.ptrs <= MaxPtr + 1
        PROVE  NameFrom(msg)[x] = [s |-> x.s \o l.name, off |-> Behind(l.end, x.ptrs, x.ret)]
    <3>0. n \in Nat
      OBVIOUS
    <3>1. l \in Loc /\ HasLabel(l, msg)
      BY <1>1
    <3>2. ASSUME NEW m \in L PROVE ReadsUpTo(n - 1, {m}, msg) /\ m \in Loc /\ HasLabel(m, msg)
      BY <1>1, <1>3 DEF ReadsUpTo
    <3>3. CASE AtRoot(l, msg)
      BY <2>1, <3>1, <3>3, ReadRoot
    <3>4. CASE \E m \in L : Followed(l, m)
      <4>1. PICK m \in L : Followed(l, m)
        BY <3>4
      <4>. QED
        BY <2>1, <3>0, <3>1, <3>2, <4>1, ReadNext
    <3>5. CASE \E m \in L : Pointing(l, m, msg)
      <4>1. PICK m \in L : Pointing(l, m, msg)
        BY <3>5
      <4>. QED
        BY <2>1, <3>0, <3>1, <3>2, <4>1, ReadPointer
    <3>. QED
      BY <3>3, <3>4, <3>5 DEF Sound
  <2>2. ReadsUpTo(n, L, msg)
    BY <2>1 DEF ReadsUpTo
  <2>. QED
    BY <2>2
<1>. HIDE DEF Good
<1>4. \A n \in 0..N : n \in Good
  BY <1>2, <1>3, Upwards
<1>5. N \in Good
  BY <1>4
<1>. QED
  BY <1>5 DEF Good

(* UnpackDomainName reads the name of a place, and goes on behind it.      *)
LEMMA UnpackIs ==
  ASSUME NEW msg \in Seq(Byte), NEW L, Sound(L, msg), NEW l \in L
  PROVE  UnpackDomainName(msg, l.at) = [s |-> l.name, off |-> l.end]
<1>1. l \in Loc /\ HasLabel(l, msg)
  BY DEF Sound
<1>2. PICK N \in Nat : N = Len(l.name)
  BY <1>1, LocIs DEF Name
<1>3. PICK x : x = [p |-> l.at, s |-> <<>>, ptrs |-> 0, ret |-> l.at]
  OBVIOUS
<1>4. x \in Reading
  <2>1. l.at \in Nat /\ 0 \in 0..MaxPtr /\ <<>> \in Seq(Byte)
    BY <1>1, LocIs, Limits
  <2>. QED
    BY <1>3, <2>1 DEF Reading
<1>5. ReadsUpTo(N, L, msg)
  BY ReadsBack
<1>6. Cardinality(Dots(l.name)) \in Nat /\ Cardinality(Dots(l.name)) <= MaxPtr + 1
  BY <1>1, RestIs DEF HasLabel, Few
<1>7. Cardinality(Dots(l.name)) + x.ptrs <= MaxPtr + 1 /\ x.p = l.at /\ Len(l.name) <= N
  <2>1. x.ptrs = 0 /\ x.p = l.at
    BY <1>3
  <2>2. Cardinality(Dots(l.name)) + 0 <= MaxPtr + 1
    BY <1>6, Limits
  <2>. QED
    BY <1>2, <2>1, <2>2
<1>8. NameFrom(msg)[x] = [s |-> x.s \o l.name, off |-> Behind(l.end, x.ptrs, x.ret)]
  BY <1>4, <1>5, <1>7 DEF ReadsUpTo
<1>9. x.s \o l.name = l.name /\ Behind(l.end, x.ptrs, x.ret) = l.end
  <2>1. l.name \in Seq(Byte) /\ x.s = <<>> /\ x.ptrs = 0
    BY <1>1, <1>3, LocIs DEF Name
  <2>2. <<>> \o l.name = l.name
    BY <2>1
  <2>. QED
    BY <2>1, <2>2 DEF Behind
<1>. QED
  BY <1>3, <1>8, <1>9 DEF UnpackDomainName

(* What a name that is packed is made of.                                  *)
Packs(s, compress, p, w, N, stop) ==
  /\ s \in Name /\ s # <<>> /\ s # <<Dot>> /\ Legal(s) /\ Plain(s)
  /\ p \in Packer /\ w = PackDomainName(s, compress, p)
  /\ N \in Nat /\ N = Len(p.msg)
  /\ stop \in Nat /\ stop = Stop(s, compress, p)

(* The octets of a name that was written.                                  *)
LEMMA WrittenIs ==
  ASSUME NEW s, NEW compress, NEW p, NEW w, NEW N, NEW stop, Packs(s, compress, p, w, N, stop)
  PROVE  /\ w \in Packer /\ w.comp = MapWith(s, compress, p) /\ w.ok = p.ok
         /\ stop \in 1..Len(s) + 1 /\ Extends(w.msg, p.msg)
         /\ \A i \in 1..stop - 1 :
              w.msg[N + i] = IF i \in Starts(s) THEN DotAfter(s, i) - i ELSE s[i - 1]
         /\ Hits(s, compress, p) = {} =>
              stop = Len(s) + 1 /\ Len(w.msg) = N + stop /\ w.msg[N + stop] = 0
         /\ Hits(s, compress, p) # {} =>
              /\ stop \in Hits(s, compress, p)
              /\ \E t \in Nat : /\ t < 16384 /\ Suffix(s, stop) \in DOMAIN p.comp
                                /\ t = p.comp[Suffix(s, stop)]
                                /\ Len(w.msg) = N + stop + 1
                                /\ w.msg[N + stop] = Pointer(t)[1]
                                /\ w.msg[N + stop + 1] = Pointer(t)[2]
<1>0. /\ s \in Name /\ s # <<>> /\ s # <<Dot>> /\ Legal(s) /\ p \in Packer
      /\ w = PackDomainName(s, compress, p) /\ N \in Nat /\ N = Len(p.msg)
      /\ stop \in Nat /\ stop = Stop(s, compress, p)
  BY DEF Packs
<1>a. N \in Nat /\ stop \in Nat
  BY <1>0
<1>1. PICK l : l = Labels(s, stop - 1)
  OBVIOUS
<1>2. PICK t : t = Tail16(s, compress, p)
  OBVIOUS
<1>3. w = [p EXCEPT !.msg = @ \o l \o t, !.comp = MapWith(s, compress, p)]
  BY <1>0, <1>1, <1>2, PackedIs
<1>4. PICK m : m = p.msg
  OBVIOUS
<1>5. m \in Seq(Byte)
  BY <1>0, <1>4 DEF Packer
<1>6. PICK n \in Nat : n = Len(s)
  BY <1>0 DEF Name
<1>7. /\ stop \in 1..n + 1
      /\ Hits(s, compress, p) # {} => stop \in Hits(s, compress, p)
      /\ Hits(s, compress, p) = {} => stop = n + 1
  BY <1>0, <1>6, StopIs
<1>8. l \in Seq(Byte) /\ Len(l) = stop - 1
  <2>1. PICK k \in Nat : k = stop - 1
    BY <1>0, <1>7
  <2>2. k \in 0..Len(s)
    BY <1>0, <1>6, <1>7, <2>1
  <2>3. Labels(s, k) \in Seq(Byte) /\ Len(Labels(s, k)) = k
    BY <1>0, <2>2, LabelsAre
  <2>. QED
    BY <1>0, <1>1, <2>1, <2>3
<1>9. t \in Seq(Byte)
  BY <1>0, <1>2, TailIs
<1>10. PICK a : Joins(a, m, l)
  BY <1>0 DEF Joins
<1>11. PICK b : Joins(b, a, t)
  BY <1>0 DEF Joins
<1>12. l \in Seq(Byte)
  BY <1>0, <1>8
<1>13. /\ a \in Seq(Byte) /\ Len(a) = Len(m) + Len(l)
       /\ \A i \in 1..Len(m) : a[i] = m[i]
       /\ \A i \in 1..Len(l) : a[Len(m) + i] = l[i]
  BY <1>5, <1>10, <1>12, Joined
<1>14. a \in Seq(Byte)
  BY <1>0, <1>13
<1>15. /\ b \in Seq(Byte) /\ Len(b) = Len(a) + Len(t)
       /\ \A i \in 1..Len(a) : b[i] = a[i]
       /\ \A i \in 1..Len(t) : b[Len(a) + i] = t[i]
  BY <1>0, <1>9, <1>11, <1>14, Joined
<1>16. w = [p EXCEPT !.msg = b, !.comp = MapWith(s, compress, p)]
  BY <1>0, <1>3, <1>4, <1>10, <1>11 DEF Joins
<1>17. w \in Packer /\ w.msg = b /\ w.comp = MapWith(s, compress, p) /\ w.ok = p.ok
  <2>1. PICK c : c = MapWith(s, compress, p)
    OBVIOUS
  <2>2. c \in Maps
    BY <1>0, <2>1, MapWithIs
  <2>3. w = [p EXCEPT !.msg = b, !.comp = c]
    BY <1>0, <1>16, <2>1
  <2>. QED
    BY <1>0, <1>15, <2>1, <2>2, <2>3 DEF Packer
<1>18. N = Len(m) /\ Len(a) = N + stop - 1
  BY <1>0, <1>4, <1>5, <1>7, <1>8, <1>13
<1>19. Extends(w.msg, p.msg)
  <2>1. \A i \in 1..N : b[i] = m[i]
    BY <1>a, <1>7, <1>13, <1>15, <1>18
  <2>2. Len(b) >= N
    BY <1>0, <1>7, <1>9, <1>15, <1>18
  <2>. QED
    BY <1>0, <1>4, <1>17, <1>18, <2>1, <2>2 DEF Extends
<1>20. ASSUME NEW i \in 1..stop - 1
       PROVE  b[N + i] = IF i \in Starts(s) THEN DotAfter(s, i) - i ELSE s[i - 1]
  <2>1. N + i \in 1..Len(a) /\ i \in 1..Len(l)
    BY <1>0, <1>7, <1>8, <1>18
  <2>2. b[N + i] = l[i]
    BY <1>0, <1>13, <1>15, <1>18, <2>1
  <2>. QED
    BY <1>0, <1>1, <2>2 DEF Labels
<1>21. ASSUME Hits(s, compress, p) = {}
       PROVE  stop = n + 1 /\ Len(b) = N + stop /\ b[N + stop] = 0
  <2>1. t = <<0>>
    BY <1>0, <1>2, <1>21, TailIs
  <2>2. Len(t) = 1 /\ t[1] = 0
    BY <1>0, <2>1
  <2>3. Len(b) = N + stop /\ b[Len(a) + 1] = 0
    BY <1>0, <1>7, <1>15, <1>18, <2>2
  <2>4. Len(a) + 1 = N + stop
    BY <1>0, <1>7, <1>18
  <2>. QED
    BY <1>0, <1>7, <1>21, <2>3, <2>4
<1>22. ASSUME Hits(s, compress, p) # {}
       PROVE  \E x \in Nat : /\ x < 16384 /\ Suffix(s, stop) \in DOMAIN p.comp
                             /\ x = p.comp[Suffix(s, stop)]
                             /\ Len(b) = N + stop + 1
                             /\ b[N + stop] = Pointer(x)[1]
                             /\ b[N + stop + 1] = Pointer(x)[2]
  <2>1. PICK x \in Nat : /\ x < 16384
                         /\ Suffix(s, Stop(s, compress, p)) \in DOMAIN p.comp
                         /\ x = p.comp[Suffix(s, Stop(s, compress, p))]
                         /\ Tail16(s, compress, p) = Pointer(x)
    BY <1>0, <1>22, TailIs
  <2>2. Len(t) = 2
    BY <1>0, <1>2, <1>22, TailIs
  <2>3. t = Pointer(x)
    BY <1>0, <1>2, <2>1
  <2>4. Len(b) = N + stop + 1 /\ b[Len(a) + 1] = t[1] /\ b[Len(a) + 2] = t[2]
    BY <1>0, <1>7, <1>15, <1>18, <2>2
  <2>5. Len(a) + 1 = N + stop /\ Len(a) + 2 = N + stop + 1
    BY <1>0, <1>7, <1>18
  <2>6. b[N + stop] = Pointer(x)[1] /\ b[N + stop + 1] = Pointer(x)[2]
    BY <1>0, <2>3, <2>4, <2>5
  <2>7. Suffix(s, stop) \in DOMAIN p.comp /\ x = p.comp[Suffix(s, stop)] /\ x < 16384
    BY <1>0, <2>1
  <2>8. Len(b) = N + stop + 1
    BY <1>0, <2>4
  <2>. QED
    BY <2>6, <2>7, <2>8
<1>. QED
  BY <1>0, <1>6, <1>7, <1>17, <1>19, <1>20, <1>21, <1>22

(* The place where the label at b of a name is written.                    *)
NewLoc(s, b, N, e) ==
  [at |-> N + b - 1, name |-> Suffix(s, b), len |-> DotAfter(s, b) - b, end |-> e]

(* The labels of an ordinary name are not empty, and its characters plain. *)
LEMMA PlainIs ==
  ASSUME NEW s \in Name, s # <<Dot>>, Plain(s), Legal(s), NEW b \in Starts(s)
  PROVE  /\ b \in 1..Len(s) /\ DotAfter(s, b) \in b..Len(s)
         /\ DotAfter(s, b) - b \in 1..63
         /\ s[DotAfter(s, b)] = Dot
         /\ \A i \in b..DotAfter(s, b) - 1 : Escaped(s[i]) = <<s[i]>>
<1>1. s[Len(s)] = Dot
  BY DEF Legal
<1>2. b \in 1..Len(s)
  BY DEF Starts
<1>3. /\ DotAfter(s, b) \in b..Len(s)
      /\ s[DotAfter(s, b)] = Dot
      /\ \A i \in b..DotAfter(s, b) - 1 : s[i] # Dot
  BY <1>1, <1>2, DotIs
<1>4. DotAfter(s, b) - b \in (IF b = 1 THEN 0 ELSE 1)..63
  BY DEF Legal
<1>5. PICK n \in Nat, d \in Nat : n = Len(s) /\ d = DotAfter(s, b)
  BY <1>2, <1>3 DEF Name
<1>6. d - b \in 1..63
  <2>1. CASE b = 1
    <3>1. s[1] # Dot
      BY DEF Plain
    <3>2. d # b
      BY <1>3, <1>5, <2>1, <3>1
    <3>a. DotAfter(s, b) - b \in 0..63
      BY <1>4, <2>1
    <3>b. \A x \in 0..63 : x \in Nat /\ x <= 63
      OBVIOUS
    <3>3. PICK k \in Nat : k = d - b /\ k <= 63
      BY <1>5, <3>a, <3>b
    <3>4. k # 0
      BY <1>2, <1>5, <3>2, <3>3
    <3>5. k \in 1..63
      BY <3>3, <3>4
    <3>. QED
      BY <3>3, <3>5
  <2>2. CASE b # 1
    BY <1>4, <1>5, <2>2
  <2>. QED
    BY <2>1, <2>2
<1>7. ASSUME NEW i \in b..d - 1 PROVE Escaped(s[i]) = <<s[i]>>
  <2>1. i \in 1..n /\ s[i] # Dot
    BY <1>2, <1>3, <1>5
  <2>. QED
    BY <1>5, <2>1 DEF Plain
<1>. QED
  BY <1>2, <1>3, <1>5, <1>6, <1>7

(* A label in front of the stop has its dot there too.                     *)
LEMMA DotBefore ==
  ASSUME NEW s, NEW compress, NEW p, NEW w, NEW N, NEW stop, Packs(s, compress, p, w, N, stop),
         NEW b \in Starts(s), b < stop
  PROVE  DotAfter(s, b) < stop
<1>1. PICK n \in Nat : n = Len(s)
  BY DEF Packs, Name
<1>2. s \in Name /\ s[Len(s)] = Dot
  BY DEF Packs, Legal
<1>3. /\ b \in 1..n /\ DotAfter(s, b) \in b..n
      /\ \A c \in Starts(s) : c > b => c > DotAfter(s, b)
  BY <1>1, <1>2, NextLabel
<1>4. stop \in Nat /\ (stop = n + 1 \/ stop \in Starts(s))
  <2>1. s \in Name /\ s # <<>> /\ stop = Stop(s, compress, p) /\ stop \in Nat
    BY DEF Packs
  <2>2. CASE Hits(s, compress, p) = {}
    BY <1>1, <2>1, <2>2, StopIs
  <2>3. CASE Hits(s, compress, p) # {}
    <3>1. stop \in Hits(s, compress, p)
      BY <2>1, <2>3, StopIs
    <3>. QED
      BY <2>1, <3>1 DEF Hits
  <2>. QED
    BY <2>2, <2>3
<1>. QED
  BY <1>3, <1>4

(* A label that is written is at its place.                                *)
LEMMA NewHasLabel ==
  ASSUME NEW s, NEW compress, NEW p, NEW w, NEW N, NEW stop, Packs(s, compress, p, w, N, stop), Few(s),
         NEW b \in Starts(s), b < stop, NEW e \in Nat, e = Len(w.msg),
         NEW l, l = NewLoc(s, b, N, e)
  PROVE  /\ l \in Loc /\ HasLabel(l, w.msg)
         /\ Rest(l) = Suffix(s, DotAfter(s, b) + 1)
         /\ Len(l.name) = Len(s) - b + 1
<1>1. /\ s \in Name /\ s # <<>> /\ s # <<Dot>> /\ Legal(s) /\ Plain(s) /\ p \in Packer
      /\ w = PackDomainName(s, compress, p) /\ N \in Nat /\ N = Len(p.msg)
      /\ stop \in Nat /\ stop = Stop(s, compress, p)
  BY DEF Packs
<1>2. PICK n \in Nat, d \in Nat : n = Len(s) /\ d = DotAfter(s, b)
  BY <1>1, PlainIs DEF Name
<1>3. /\ b \in 1..n /\ d \in b..n /\ d - b \in 1..63 /\ s[d] = Dot
      /\ \A i \in b..d - 1 : Escaped(s[i]) = <<s[i]>>
  BY <1>1, <1>2, PlainIs
<1>4. d < stop
  BY <1>2, DotBefore
<1>5. /\ w \in Packer
      /\ \A i \in 1..stop - 1 :
           w.msg[N + i] = IF i \in Starts(s) THEN DotAfter(s, i) - i ELSE s[i - 1]
  BY WrittenIs
<1>6. e >= N + stop
  <2>1. CASE Hits(s, compress, p) = {}
    BY <2>1, WrittenIs
  <2>2. CASE Hits(s, compress, p) # {}
    <3>1. Len(w.msg) = N + stop + 1
      BY <2>2, WrittenIs
    <3>. QED
      BY <1>1, <3>1
  <2>. QED
    BY <2>1, <2>2
<1>7. /\ Suffix(s, b) \in Name
      /\ Len(Suffix(s, b)) = n - b + 1
      /\ \A i \in 1..n - b + 1 : Suffix(s, b)[i] = s[b + i - 1]
      /\ \A c \in 1..n - b + 2 : Suffix(Suffix(s, b), c) = Suffix(s, b + c - 1)
  BY <1>1, <1>2, <1>3, SuffixIs, SMTT(30)
<1>8. PICK k \in Nat : k = d - b /\ k \in 1..63
  BY <1>3
<1>9. l.at = N + b - 1 /\ l.name = Suffix(s, b) /\ l.len = k /\ l.end = e
  BY <1>2, <1>8 DEF NewLoc
<1>10. l \in Loc
  <2>1. l = [at |-> N + b - 1, name |-> Suffix(s, b), len |-> k, end |-> e]
    BY <1>2, <1>8 DEF NewLoc
  <2>2. N + b - 1 \in Nat
    BY <1>1, <1>3
  <2>. QED
    BY <1>7, <1>8, <2>1, <2>2 DEF Loc
<1>11. Few(l.name)
  <2>1. Cardinality(Dots(s)) \in Nat /\ Cardinality(Dots(Suffix(s, b))) \in Nat /\ Cardinality(Dots(Suffix(s, b))) <= Cardinality(Dots(s))
    <3>1. b \in 1..Len(s) + 1
      BY <1>2, <1>3
    <3>. QED
      BY <1>1, <3>1, FewerDots
  <2>2. Cardinality(Dots(s)) <= MaxPtr + 1
    BY DEF Few
  <2>3. PICK x \in Nat, y \in Nat : x = Cardinality(Dots(s)) /\ y = Cardinality(Dots(Suffix(s, b)))
    BY <2>1
  <2>4. y <= MaxPtr + 1
    BY <2>1, <2>2, <2>3, Limits
  <2>. QED
    BY <1>9, <2>3, <2>4 DEF Few
<1>12. k + 1 <= n - b + 1 /\ Suffix(s, b)[k + 1] = Dot
  <2>1. k + 1 \in 1..n - b + 1 /\ b + (k + 1) - 1 = d
    BY <1>3, <1>8
  <2>. QED
    BY <1>3, <1>7, <2>1
<1>13. ASSUME NEW i \in 1..k
       PROVE  /\ Escaped(Suffix(s, b)[i]) = <<Suffix(s, b)[i]>>
              /\ w.msg[N + b + i] = Suffix(s, b)[i]
  <2>0. i \in Nat /\ 1 <= i /\ i <= d - b /\ b \in Nat /\ 1 <= b /\ d <= n /\ stop \in Nat
    BY <1>1, <1>3, <1>8
  <2>1. i \in 1..n - b + 1 /\ b + i - 1 \in b..d - 1 /\ b + i \in 1..stop - 1 /\ b + i <= d /\ b + i > b
    BY <1>2, <1>4, <2>0
  <2>2. Suffix(s, b)[i] = s[b + i - 1]
    BY <1>7, <2>1
  <2>3. b + i \notin Starts(s)
    <3>1. s[Len(s)] = Dot
      BY <1>1 DEF Legal
    <3>2. \A c \in Starts(s) : c > b => c > d
      BY <1>1, <1>2, <3>1, NextLabel
    <3>. QED
      BY <1>3, <2>1, <3>2
  <2>4. w.msg[N + (b + i)] = s[(b + i) - 1]
    BY <1>5, <2>1, <2>3
  <2>5. N + (b + i) = N + b + i
    BY <1>1, <1>3
  <2>. QED
    BY <1>3, <2>1, <2>2, <2>4, <2>5
<1>14. w.msg[N + b] = k
  <2>1. b \in 1..stop - 1
    BY <1>1, <1>3
  <2>. QED
    BY <1>2, <1>5, <1>8, <2>1
<1>15. (N + b - 1) + k + 2 <= e
  <2>1. b \in Nat /\ k \in Nat /\ b + k = d /\ stop \in Nat /\ N \in Nat
    BY <1>1, <1>3, <1>8
  <2>. QED
    BY <1>2, <1>4, <1>6, <2>1
<1>16. HasLabel(l, w.msg)
  <2>1. (N + b - 1) + 1 = N + b /\ \A i \in 1..k : (N + b - 1) + 1 + i = N + b + i
    BY <1>1, <1>3
  <2>. QED
    BY <1>7, <1>9, <1>11, <1>12, <1>13, <1>14, <1>15, <2>1 DEF HasLabel
<1>17. Rest(l) = Suffix(s, d + 1)
  <2>1. k + 2 \in 1..n - b + 2 /\ b + (k + 2) - 1 = d + 1
    BY <1>3, <1>8
  <2>. QED
    BY <1>7, <1>9, <2>1 DEF Rest
<1>. QED
  BY <1>2, <1>7, <1>9, <1>10, <1>16, <1>17

(* The places of the labels that are written of a name.                    *)
Placed(s, N, stop, e) == {NewLoc(s, b, N, e) : b \in {c \in Starts(s) : c < stop}}

(* The places have the names of a map at its offsets.                      *)
Covers(L, c) == \A x \in DOMAIN c : \E l \in L : l.at = c[x] /\ l.name = x

(* What follows a label that is written is the root, the next label or a   *)
(* pointer to what was written before.                                     *)
LEMMA NewGoesOn ==
  ASSUME NEW s, NEW compress, NEW p, NEW w, NEW N, NEW stop, Packs(s, compress, p, w, N, stop), Few(s),
         NEW b \in Starts(s), b < stop, NEW e \in Nat, e = Len(w.msg),
         NEW l, l = NewLoc(s, b, N, e), NEW L, Sound(L, p.msg), Covers(L, p.comp)
  PROVE  \/ AtRoot(l, w.msg)
         \/ \E m \in L \cup Placed(s, N, stop, e) : Followed(l, m) \/ Pointing(l, m, w.msg)
<1>1. /\ s \in Name /\ s # <<>> /\ s # <<Dot>> /\ Legal(s) /\ Plain(s) /\ p \in Packer
      /\ w = PackDomainName(s, compress, p) /\ N \in Nat /\ N = Len(p.msg)
      /\ stop \in Nat /\ stop = Stop(s, compress, p)
  BY DEF Packs
<1>a. N \in Nat /\ stop \in Nat
  BY <1>1
<1>2. PICK n \in Nat, d \in Nat : n = Len(s) /\ d = DotAfter(s, b)
  BY <1>1, PlainIs DEF Name
<1>3. /\ b \in 1..n /\ d \in b..n /\ d - b \in 1..63 /\ s[d] = Dot
      /\ d # n => d + 1 \in Starts(s)
  <2>1. s[Len(s)] = Dot
    BY <1>1 DEF Legal
  <2>. QED
    BY <1>1, <1>2, <2>1, PlainIs, NextLabel
<1>4. d < stop
  BY <1>2, DotBefore
<1>5. PICK k \in Nat : k = d - b /\ 1 <= k /\ k <= 63
  BY <1>3
<1>6. l.at = N + b - 1 /\ l.len = k /\ l.end = e /\ Rest(l) = Suffix(s, d + 1)
  BY <1>2, <1>5, NewHasLabel DEF NewLoc
<1>7. Len(l.name) = n - b + 1
  BY <1>2, NewHasLabel
<1>8. b \in Nat /\ 1 <= b /\ b + k = d
  BY <1>3, <1>5
<1>9. CASE d + 1 < stop
  <2>1. stop <= n + 1
    BY <1>1, <1>2, StopIs
  <2>2. d + 1 \in Starts(s)
    <3>1. d # n
      BY <1>a, <1>9, <2>1
    <3>. QED
      BY <1>3, <3>1
  <2>3. PICK m : m = NewLoc(s, d + 1, N, e)
    OBVIOUS
  <2>4. m \in Placed(s, N, stop, e)
    BY <1>9, <2>2, <2>3 DEF Placed
  <2>5. m.at = N + (d + 1) - 1 /\ m.name = Suffix(s, d + 1) /\ m.end = e
    BY <2>3 DEF NewLoc
  <2>6. N + (d + 1) - 1 = (N + b - 1) + k + 1
    BY <1>1, <1>8
  <2>. QED
    BY <1>6, <2>4, <2>5, <2>6 DEF Followed
<1>10. CASE d + 1 = stop /\ Hits(s, compress, p) = {}
  <2>1. stop = n + 1 /\ e = N + stop /\ w.msg[N + stop] = 0
    BY <1>2, <1>10, WrittenIs
  <2>2. n = d /\ n - b + 1 = k + 1 /\ e = (N + b - 1) + k + 2
    <3>1. e = N + (n + 1) /\ d + 1 = n + 1
      BY <1>10, <2>1
    <3>. QED
      BY <1>a, <1>8, <3>1
  <2>. QED
    BY <1>6, <1>7, <2>1, <2>2 DEF AtRoot
<1>11. CASE d + 1 = stop /\ Hits(s, compress, p) # {}
  <2>1. PICK t \in Nat : /\ t < 16384 /\ Suffix(s, stop) \in DOMAIN p.comp
                         /\ t = p.comp[Suffix(s, stop)]
                         /\ Len(w.msg) = N + stop + 1
                         /\ w.msg[N + stop] = Pointer(t)[1]
                         /\ w.msg[N + stop + 1] = Pointer(t)[2]
    BY <1>11, WrittenIs
  <2>2. PICK m \in L : m.at = t /\ m.name = Suffix(s, stop)
    BY <2>1 DEF Covers
  <2>3. m.end \in Nat /\ m.end <= N
    <3>1. m \in Loc /\ HasLabel(m, p.msg)
      BY DEF Sound
    <3>. QED
      BY <1>1, <3>1, LocIs DEF HasLabel
  <2>4. m.end <= N + b - 1
    BY <1>1, <1>8, <2>3
  <2>5. /\ e = (N + b - 1) + k + 3 /\ N + stop = (N + b - 1) + k + 2
        /\ N + stop + 1 = (N + b - 1) + k + 3
    <3>1. e = N + stop + 1 /\ d + 1 = stop
      BY <1>11, <2>1
    <3>. QED
      BY <1>a, <1>8, <3>1
  <2>6. m.name = Rest(l)
    BY <1>6, <1>11, <2>2
  <2>7. /\ w.msg[(N + b - 1) + k + 2] = Pointer(m.at)[1]
        /\ w.msg[(N + b - 1) + k + 3] = Pointer(m.at)[2]
    BY <2>1, <2>2, <2>5
  <2>8. Pointing(l, m, w.msg)
    <3>1. m.at < 16384 /\ e = (N + b - 1) + k + 3
      BY <2>1, <2>2, <2>5
    <3>2. l.at = N + b - 1 /\ l.len = k /\ l.end = e
      BY <1>6
    <3>. QED
      BY <2>4, <2>6, <2>7, <3>1, <3>2 DEF Pointing
  <2>. QED
    BY <2>8
<1>12. d + 1 < stop \/ d + 1 = stop
  BY <1>1, <1>4
<1>. QED
  BY <1>9, <1>10, <1>11, <1>12

(* So the places of what was written, with those of a new name, are sound. *)
LEMMA NewSound ==
  ASSUME NEW s, NEW compress, NEW p, NEW w, NEW N, NEW stop, Packs(s, compress, p, w, N, stop), Few(s),
         NEW e \in Nat, e = Len(w.msg), NEW L, Sound(L, p.msg), Covers(L, p.comp),
         NEW M, M = L \cup Placed(s, N, stop, e)
  PROVE  Sound(M, w.msg)
<1>0. p \in Packer
  BY DEF Packs
<1>1. p \in Packer /\ w \in Packer /\ Extends(w.msg, p.msg)
  BY <1>0, WrittenIs
<1>2. Sound(L, w.msg)
  BY <1>1, ExtendsKept DEF Packer
<1>3. ASSUME NEW l \in Placed(s, N, stop, e)
      PROVE  /\ l \in Loc /\ HasLabel(l, w.msg)
             /\ AtRoot(l, w.msg) \/ \E m \in M : Followed(l, m) \/ Pointing(l, m, w.msg)
  <2>1. PICK b \in Starts(s) : b < stop /\ l = NewLoc(s, b, N, e)
    BY DEF Placed
  <2>2. l \in Loc /\ HasLabel(l, w.msg)
    BY <2>1, NewHasLabel
  <2>3. \/ AtRoot(l, w.msg)
        \/ \E m \in L \cup Placed(s, N, stop, e) : Followed(l, m) \/ Pointing(l, m, w.msg)
    BY <2>1, NewGoesOn
  <2>. QED
    BY <2>2, <2>3
<1>. QED
  BY <1>2, <1>3 DEF Sound

(* And they have the names of the map.                                     *)
LEMMA NewCovers ==
  ASSUME NEW s, NEW compress, NEW p, NEW w, NEW N, NEW stop, Packs(s, compress, p, w, N, stop),
         NEW e \in Nat, e = Len(w.msg), NEW L, Covers(L, p.comp),
         NEW M, M = L \cup Placed(s, N, stop, e)
  PROVE  Covers(M, w.comp)
<1>1. /\ s \in Name /\ N \in Nat /\ N = Len(p.msg)
      /\ stop \in Nat /\ stop = Stop(s, compress, p)
  BY DEF Packs
<1>2. w.comp = MapWith(s, compress, p)
  BY WrittenIs
<1>3. ASSUME NEW x \in DOMAIN w.comp PROVE \E l \in M : l.at = w.comp[x] /\ l.name = x
  <2>0. /\ x \in DOMAIN p.comp \cup {Suffix(s, b) : b \in Fresh(s, compress, p)}
        /\ w.comp[x] = IF x \in DOMAIN p.comp THEN p.comp[x] ELSE PlaceOf(Len(s) - Len(x) + 1, p)
    BY <1>2 DEF MapWith
  <2>1. CASE x \in DOMAIN p.comp
    BY <2>0, <2>1 DEF Covers
  <2>2. CASE x \notin DOMAIN p.comp
    <3>1. PICK b \in Fresh(s, compress, p) : x = Suffix(s, b)
      BY <2>0, <2>2
    <3>2. b \in Starts(s) /\ b < stop /\ b \in 1..Len(s)
      BY <1>1, <3>1 DEF Fresh, Starts
    <3>3. PICK n \in Nat : n = Len(s)
      BY <1>1 DEF Name
    <3>4. Len(x) = n - b + 1
      BY <1>1, <3>1, <3>2, <3>3, SuffixIs
    <3>5. n - (n - b + 1) + 1 = b
      BY <3>2, <3>3
    <3>6. w.comp[x] = PlaceOf(b, p)
      BY <2>0, <2>2, <3>3, <3>4, <3>5
    <3>7. PICK l : l = NewLoc(s, b, N, e)
      OBVIOUS
    <3>8. l \in M
      BY <3>2, <3>7 DEF Placed
    <3>9. l.at = N + b - 1 /\ l.name = x
      BY <3>1, <3>7 DEF NewLoc
    <3>. QED
      BY <1>1, <3>6, <3>8, <3>9 DEF PlaceOf
  <2>. QED
    BY <2>1, <2>2
<1>. QED
  BY <1>3 DEF Covers

(* The places say where the octets and the map of a packer are.            *)
Holds(L, p) == Sound(L, p.msg) /\ Covers(L, p.comp)

(* They are those of L, and places of what was written since.              *)
Grown(M, L, p, w) ==
  /\ L \subseteq M /\ Holds(M, w)
  /\ \A l \in M : l \in L \/ (l.at \in Nat /\ l.at >= Len(p.msg))

(* A name is written from a to e: the root, a place or a pointer to one.   *)
NameAt(L, msg, a, s, e) ==
  /\ a < e /\ e <= Len(msg)
  /\ \/ s = <<Dot>> /\ e = a + 1 /\ msg[a + 1] = 0
     \/ \E l \in L : l.at = a /\ l.name = s /\ l.end = e
     \/ /\ e = a + 2
        /\ \E l \in L : /\ l.name = s /\ l.at < 16384 /\ l.end <= a
                        /\ msg[a + 1] = Pointer(l.at)[1] /\ msg[a + 2] = Pointer(l.at)[2]

(* A name is packed without an error.                                      *)
Names(s, compress, p, w) ==
  /\ s \in Name /\ Plain(s)
  /\ p \in Packer /\ w = PackDomainName(s, compress, p) /\ w.ok

(* A name of labels that is packed is there.                               *)
LEMMA NewAt ==
  ASSUME NEW s, NEW compress, NEW p, NEW w, NEW N, NEW stop, Packs(s, compress, p, w, N, stop),
         NEW e \in Nat, e = Len(w.msg), NEW L, Sound(L, p.msg), Covers(L, p.comp),
         NEW M, M = L \cup Placed(s, N, stop, e)
  PROVE  NameAt(M, w.msg, N, s, e)
<1>1. s \in Name /\ s # <<>> /\ s[Len(s)] = Dot /\ p \in Packer
  BY DEF Packs, Legal
<1>2. N \in Nat /\ stop \in Nat
  BY DEF Packs
<1>3. PICK n \in Nat : n = Len(s) /\ n >= 1
  BY <1>1 DEF Name
<1>4. stop \in 1..n + 1
  BY <1>3, WrittenIs
<1>5. N < e
  <2>1. CASE Hits(s, compress, p) = {}
    <3>1. Len(w.msg) = N + stop
      BY <2>1, WrittenIs
    <3>. QED
      BY <1>2, <1>4, <3>1
  <2>2. CASE Hits(s, compress, p) # {}
    <3>1. Len(w.msg) = N + stop + 1
      BY <2>2, WrittenIs
    <3>. QED
      BY <1>2, <3>1
  <2>. QED
    BY <2>1, <2>2
<1>6. CASE 1 < stop
  <2>1. 1 \in Starts(s)
    BY <1>3 DEF Starts
  <2>2. PICK l : l = NewLoc(s, 1, N, e)
    OBVIOUS
  <2>3. l \in M
    BY <1>6, <2>1, <2>2 DEF Placed
  <2>4. 1 \in 1..Len(s) + 1
    BY <1>3
  <2>5. Suffix(s, 1) = s
    BY <1>1, <2>4, SuffixIs
  <2>6. l.at = N /\ l.name = s /\ l.end = e
    BY <1>2, <2>2, <2>5 DEF NewLoc
  <2>. QED
    BY <1>5, <2>3, <2>6 DEF NameAt
<1>7. CASE stop = 1
  <2>1. Hits(s, compress, p) # {}
    <3>1. n + 1 # 1
      BY <1>3
    <3>. QED
      BY <1>3, <1>7, <3>1, WrittenIs
  <2>2. PICK t \in Nat : /\ t < 16384 /\ Suffix(s, stop) \in DOMAIN p.comp
                         /\ t = p.comp[Suffix(s, stop)]
                         /\ Len(w.msg) = N + stop + 1
                         /\ w.msg[N + stop] = Pointer(t)[1]
                         /\ w.msg[N + stop + 1] = Pointer(t)[2]
    BY <2>1, WrittenIs
  <2>3. PICK l \in L : l.at = t /\ l.name = Suffix(s, stop)
    BY <2>2 DEF Covers
  <2>4. 1 \in 1..Len(s) + 1
    BY <1>3
  <2>5. Suffix(s, 1) = s
    BY <1>1, <2>4, SuffixIs
  <2>6. l.name = s
    BY <1>7, <2>3, <2>5
  <2>7. l.end <= N
    <3>1. HasLabel(l, p.msg) /\ N = Len(p.msg)
      BY DEF Sound, Packs
    <3>. QED
      BY <3>1 DEF HasLabel
  <2>8. e = N + 2
    BY <1>2, <1>7, <2>2
  <2>9. w.msg[N + 1] = Pointer(l.at)[1] /\ w.msg[N + 2] = Pointer(l.at)[2]
    <3>1. N + stop = N + 1 /\ N + stop + 1 = N + 2
      BY <1>2, <1>7
    <3>. QED
      BY <2>2, <2>3, <3>1
  <2>10. l.at < 16384
    BY <2>2, <2>3
  <2>. QED
    BY <1>5, <2>6, <2>7, <2>8, <2>9, <2>10 DEF NameAt
<1>. QED
  BY <1>4, <1>6, <1>7

(* A name that is packed is there, and leaves the places sound.            *)
LEMMA NameGrows ==
  ASSUME NEW s, NEW compress, NEW p, NEW w, Names(s, compress, p, w), Few(s), NEW L, Holds(L, p)
  PROVE  \E M : Grown(M, L, p, w) /\ NameAt(M, w.msg, Len(p.msg), s, Len(w.msg))
<1>1. s \in Name /\ Plain(s) /\ p \in Packer /\ w = PackDomainName(s, compress, p) /\ w.ok
  BY DEF Names
<1>2. p.msg \in Seq(Byte)
  BY <1>1 DEF Packer
<1>3. PICK N \in Nat : N = Len(p.msg)
  BY <1>2
<1>4. Sound(L, p.msg) /\ Covers(L, p.comp)
  BY DEF Holds
<1>5. CASE s = <<Dot>>
  <2>1. w = [p EXCEPT !.msg = Append(@, 0)]
    BY <1>1, <1>5 DEF PackDomainName
  <2>2. w.msg = Append(p.msg, 0) /\ w.comp = p.comp
    BY <1>1, <2>1 DEF Packer
  <2>3. PICK m : m = Append(p.msg, 0)
    OBVIOUS
  <2>4. /\ m \in Seq(Byte) /\ Len(m) = N + 1 /\ m[N + 1] = 0
        /\ \A i \in 1..N : m[i] = p.msg[i]
    BY <1>2, <1>3, <2>3 DEF Byte
  <2>5. Extends(m, p.msg)
    BY <1>3, <2>4 DEF Extends
  <2>6. Sound(L, m)
    BY <1>2, <1>4, <2>4, <2>5, ExtendsKept
  <2>7. Grown(L, L, p, w)
    BY <1>4, <2>2, <2>3, <2>6 DEF Grown, Holds
  <2>8. NameAt(L, m, N, s, N + 1)
    <3>1. N < N + 1
      OBVIOUS
    <3>. QED
      BY <1>5, <2>4, <3>1 DEF NameAt
  <2>9. NameAt(L, w.msg, Len(p.msg), s, Len(w.msg))
    BY <1>3, <2>2, <2>3, <2>4, <2>8
  <2>. QED
    BY <2>7, <2>9
<1>6. CASE s # <<Dot>>
  <2>1. s # <<>>
    BY <1>1, <1>6 DEF Plain
  <2>2. Legal(s)
    <3>1. SUFFICES ASSUME ~Legal(s) PROVE FALSE
      OBVIOUS
    <3>2. w = [p EXCEPT !.ok = FALSE]
      BY <1>1, <1>6, <2>1, <3>1, PackedIs
    <3>. QED
      BY <1>1, <3>2 DEF Packer
  <2>3. PICK stop : stop = Stop(s, compress, p)
    OBVIOUS
  <2>4. stop \in Nat
    <3>1. Stop(s, compress, p) \in 1..Len(s) + 1
      BY <1>1, <2>1, StopIs
    <3>. QED
      BY <2>3, <3>1
  <2>5. Packs(s, compress, p, w, N, stop)
    BY <1>1, <1>3, <1>6, <2>1, <2>2, <2>3, <2>4 DEF Packs
  <2>6. w \in Packer
    BY <2>5, WrittenIs
  <2>7. PICK e \in Nat : e = Len(w.msg)
    BY <2>6 DEF Packer
  <2>8. PICK M : M = L \cup Placed(s, N, stop, e)
    OBVIOUS
  <2>9. Sound(M, w.msg)
    BY <1>4, <2>5, <2>7, <2>8, NewSound
  <2>10. Covers(M, w.comp)
    <3>1. Covers(L, p.comp)
      BY <1>4
    <3>2. ASSUME NEW K, K = L \cup Placed(s, N, stop, e) PROVE Covers(K, w.comp)
      BY <2>5, <2>7, <3>1, <3>2, NewCovers, Z3
    <3>. QED
      BY <2>8, <3>2
  <2>11. NameAt(M, w.msg, N, s, e)
    BY <1>4, <2>5, <2>7, <2>8, NewAt
  <2>12. ASSUME NEW l \in Placed(s, N, stop, e) PROVE l.at \in Nat /\ l.at >= N
    <3>1. PICK b \in Starts(s) : l = NewLoc(s, b, N, e)
      BY DEF Placed
    <3>2. l.at = N + b - 1 /\ b \in Nat /\ b >= 1
      BY <3>1 DEF NewLoc, Starts
    <3>. QED
      BY <3>2
  <2>13. Grown(M, L, p, w)
    BY <1>3, <2>8, <2>9, <2>10, <2>12 DEF Grown, Holds
  <2>. QED
    BY <1>3, <2>7, <2>11, <2>13
<1>. QED
  BY <1>5, <1>6

(* What comes behind leaves a name where it is.                            *)
LEMMA NameStays ==
  ASSUME NEW msg \in Seq(Byte), NEW other \in Seq(Byte), Extends(other, msg),
         NEW L, NEW M, L \subseteq M, NEW a \in Nat, NEW s, NEW e \in Nat, NameAt(L, msg, a, s, e)
  PROVE  NameAt(M, other, a, s, e)
<1>1. a < e /\ e <= Len(msg)
  BY DEF NameAt
<1>2. Len(other) >= Len(msg) /\ \A i \in 1..Len(msg) : other[i] = msg[i]
  BY DEF Extends
<1>3. a < e /\ e <= Len(other)
  BY <1>1, <1>2
<1>4. CASE s = <<Dot>> /\ e = a + 1 /\ msg[a + 1] = 0
  <2>1. a + 1 \in 1..Len(msg)
    BY <1>1
  <2>. QED
    BY <1>2, <1>3, <1>4, <2>1 DEF NameAt
<1>5. CASE \E l \in L : l.at = a /\ l.name = s /\ l.end = e
  BY <1>3, <1>5 DEF NameAt
<1>6. CASE /\ e = a + 2
           /\ \E l \in L : /\ l.name = s /\ l.at < 16384 /\ l.end <= a
                           /\ msg[a + 1] = Pointer(l.at)[1] /\ msg[a + 2] = Pointer(l.at)[2]
  <2>1. a + 1 \in 1..Len(msg) /\ a + 2 \in 1..Len(msg)
    BY <1>1, <1>6
  <2>2. other[a + 1] = msg[a + 1] /\ other[a + 2] = msg[a + 2]
    BY <1>2, <2>1
  <2>. QED
    BY <1>3, <1>6, <2>2 DEF NameAt
<1>. QED
  BY <1>4, <1>5, <1>6 DEF NameAt

(* Places that grow twice have grown.                                      *)
LEMMA GrownMore ==
  ASSUME NEW p \in Packer, NEW w \in Packer, NEW v \in Packer, NEW L, NEW M, NEW K,
         Len(p.msg) <= Len(w.msg), Grown(M, L, p, w), Grown(K, M, w, v)
  PROVE  Grown(K, L, p, v)
<1>1. PICK a \in Nat, b \in Nat : a = Len(p.msg) /\ b = Len(w.msg)
  BY DEF Packer
<1>2. a <= b
  BY <1>1
<1>3. L \subseteq K /\ Holds(K, v)
  BY DEF Grown
<1>4. ASSUME NEW l \in K PROVE l \in L \/ (l.at \in Nat /\ l.at >= a)
  <2>1. CASE l \in M
    BY <1>1, <2>1 DEF Grown
  <2>2. CASE l \notin M
    <3>1. l.at \in Nat /\ l.at >= b
      BY <1>1, <2>2 DEF Grown
    <3>. QED
      BY <1>2, <3>1
  <2>. QED
    BY <2>1, <2>2
<1>. QED
  BY <1>1, <1>3, <1>4 DEF Grown

(* The packer behind each name of the rdata.                               *)
Bodies(r, compress, body) ==
  /\ body \in [0..Len(r.names) -> Packer]
  /\ \A k \in 1..Len(r.names) : body[k] = PackDomainName(r.names[k], compress, body[k - 1])

(* The first k names of the rdata are where they were written.             *)
NamesAt(M, msg, r, at, k) == \A j \in 1..k : NameAt(M, msg, at[j - 1], r.names[j], at[j])

(* The names of the rdata are there.                                       *)
LEMMA BodyGrows ==
  ASSUME NEW r \in Record, PlainIn(r), FewIn(r), NEW compress, NEW body, Bodies(r, compress, body),
         body[Len(r.names)].ok, NEW L, Holds(L, body[0]),
         NEW at \in [0..Len(r.names) -> Nat], \A k \in 0..Len(r.names) : at[k] = Len(body[k].msg)
  PROVE  \E M : /\ Grown(M, L, body[0], body[Len(r.names)])
                /\ NamesAt(M, body[Len(r.names)].msg, r, at, Len(r.names))
<1>1. PICK n \in Nat : n = Len(r.names)
  BY RecordIs
<1>2. body \in [0..n -> Packer] /\ at \in [0..n -> Nat]
  BY <1>1 DEF Bodies
<1>3. \A k \in 1..n : body[k] = PackDomainName(r.names[k], compress, body[k - 1])
  BY <1>1 DEF Bodies
<1>4. \A k \in 0..n : Extends(body[k].msg, body[0].msg)
  <2>1. /\ body \in [0..Len(r.names) -> Packer]
        /\ \A k \in 1..Len(r.names) : body[k] = PackDomainName(r.names[k], compress, body[k - 1])
    BY DEF Bodies
  <2>2. \A k \in 0..Len(r.names) : Extends(body[k].msg, body[0].msg)
    BY <2>1, BodyExtends
  <2>. QED
    BY <1>1, <2>2
<1>. DEFINE Good == {k \in 0..n : body[k].ok => \E M : /\ Grown(M, L, body[0], body[k])
                                                       /\ NamesAt(M, body[k].msg, r, at, k)}
<1>5. 0 \in Good
  <2>1. Grown(L, L, body[0], body[0])
    BY DEF Grown
  <2>2. NamesAt(L, body[0].msg, r, at, 0)
    BY DEF NamesAt
  <2>3. 0 \in 0..n
    BY <1>1
  <2>. QED
    BY <2>1, <2>2, <2>3
<1>6. ASSUME NEW k \in 1..n, k - 1 \in Good PROVE k \in Good
  <2>0. k \in 0..n /\ k - 1 \in 0..n /\ 0 \in 0..n
    BY <1>1
  <2>1. SUFFICES ASSUME body[k].ok
                 PROVE  \E M : Grown(M, L, body[0], body[k]) /\ NamesAt(M, body[k].msg, r, at, k)
    BY <2>0
  <2>2. PICK p \in Packer : p = body[k - 1]
    BY <1>2, <2>0
  <2>3. PICK w \in Packer : w = body[k]
    BY <1>2, <2>0
  <2>4. PICK z \in Packer : z = body[0]
    BY <1>2, <2>0
  <2>5. PICK s \in Name : s = r.names[k]
    BY <1>1, RecordIs
  <2>6. w = PackDomainName(s, compress, p)
    BY <1>3, <2>2, <2>3, <2>5
  <2>7. Plain(s) /\ Few(s)
    BY <1>1, <2>5 DEF PlainIn, FewIn
  <2>8. Names(s, compress, p, w)
    BY <2>1, <2>3, <2>6, <2>7 DEF Names
  <2>9. p.ok /\ Extends(w.msg, p.msg)
    BY <2>1, <2>3, <2>6, PackNameType DEF Extends
  <2>10. PICK M : Grown(M, L, z, p) /\ NamesAt(M, p.msg, r, at, k - 1)
    BY <1>6, <2>2, <2>4, <2>9
  <2>11. Holds(M, p)
    BY <2>10 DEF Grown
  <2>12. PICK K : Grown(K, M, p, w) /\ NameAt(K, w.msg, Len(p.msg), s, Len(w.msg))
    BY <2>7, <2>8, <2>11, NameGrows
  <2>13. Grown(K, L, z, w)
    <3>1. Extends(p.msg, z.msg)
      BY <1>4, <2>0, <2>2, <2>4
    <3>2. Len(z.msg) <= Len(p.msg)
      BY <3>1 DEF Extends, Packer
    <3>. QED
      BY <2>10, <2>12, <3>2, GrownMore
  <2>14. ASSUME NEW j \in 1..k PROVE NameAt(K, w.msg, at[j - 1], r.names[j], at[j])
    <3>1. CASE j = k
      <4>1. at[k - 1] = Len(p.msg) /\ at[k] = Len(w.msg)
        BY <1>1, <2>0, <2>2, <2>3
      <4>. QED
        BY <2>5, <2>12, <3>1, <4>1
    <3>2. CASE j # k
      <4>1. j \in 1..k - 1 /\ j \in 0..n /\ j - 1 \in 0..n
        BY <1>1, <3>2
      <4>2. at[j] \in Nat /\ at[j - 1] \in Nat
        BY <1>2, <4>1
      <4>3. NameAt(M, p.msg, at[j - 1], r.names[j], at[j])
        BY <2>10, <4>1 DEF NamesAt
      <4>4. M \subseteq K
        BY <2>12 DEF Grown
      <4>5. p.msg \in Seq(Byte) /\ w.msg \in Seq(Byte)
        BY DEF Packer
      <4>. QED
        BY <2>9, <4>2, <4>3, <4>4, <4>5, NameStays
    <3>. QED
      BY <3>1, <3>2
  <2>. QED
    BY <2>3, <2>4, <2>13, <2>14 DEF NamesAt
<1>. HIDE DEF Good
<1>7. \A k \in 0..n : k \in Good
  BY <1>1, <1>5, <1>6, Upwards
<1>8. n \in Good
  BY <1>1, <1>7
<1>. QED
  BY <1>1, <1>8 DEF Good

(* Where the places of a message end, for names of at most n characters.   *)
EndsUpTo(n, L, msg) == \A l \in L : Len(l.name) <= n => NameEnd(msg, l.at) = l.end

(* The search for the end of a name finds the end of its place.            *)
LEMMA PlaceEnds ==
  ASSUME NEW msg \in Seq(Byte), NEW L, Sound(L, msg), NEW l \in L
  PROVE  NameEnd(msg, l.at) = l.end
<1>0. L \in SUBSET Loc
  BY DEF Sound
<1>1. PICK end \in [0..Len(msg) -> Nat] :
        /\ \A i \in 0..Len(msg) :
             end[i] = IF EndsAt(msg, i) THEN EndOf(msg, i) ELSE end[GoesOn(msg, i)]
        /\ \A i \in 0..Len(msg) : NameEnd(msg, i) = end[i]
  BY NameEndIs
<1>2. PICK M \in Nat : M = Len(msg)
  OBVIOUS
<1>3. PICK N \in Nat : N = Len(l.name)
  BY <1>0, LocIs DEF Name
<1>. DEFINE Good == {n \in 0..N : EndsUpTo(n, L, msg)}
<1>4. ASSUME NEW x \in L
      PROVE  \E a \in Nat, k \in Nat, e \in Nat :
               /\ a = x.at /\ k = x.len /\ e = x.end /\ 1 <= k /\ k <= 63
               /\ a + k + 2 <= e /\ e <= M
               /\ GoesOn(msg, a) = a + k + 1
               /\ NameEnd(msg, a) = end[a + k + 1]
  <2>1. PICK a \in Nat, k \in Nat, e \in Nat : a = x.at /\ k = x.len /\ e = x.end /\ 1 <= k /\ k <= 63
    BY <1>0, LocIs
  <2>2. HasLabel(x, msg)
    BY DEF Sound
  <2>3. a + k + 2 <= e /\ e <= M /\ msg[a + 1] = k
    BY <1>2, <2>1, <2>2 DEF HasLabel
  <2>4. a + 1 + k = a + k + 1 /\ k < 64 /\ ~(k >= 192) /\ k # 0 /\ ~(a + k + 1 > M) /\ a # M /\ a <= M
    <3>1. 1 <= k /\ k <= 63
      BY <2>1
    <3>2. a + k + 2 <= e /\ e <= M
      BY <2>3
    <3>. QED
      BY <3>1, <3>2
  <2>5. GoesOn(msg, a) = a + k + 1
    BY <2>3, <2>4 DEF GoesOn
  <2>6. ~EndsAt(msg, a)
    BY <1>2, <2>3, <2>4 DEF EndsAt
  <2>7. a \in 0..Len(msg)
    BY <1>2, <2>4
  <2>8. NameEnd(msg, a) = end[a + k + 1]
    BY <1>1, <2>5, <2>6, <2>7
  <2>. QED
    BY <2>1, <2>3, <2>5, <2>8
<1>5. 0 \in Good
  <2>1. ASSUME NEW x \in L PROVE ~(Len(x.name) <= 0)
    <3>1. x.len \in Nat /\ x.len >= 1 /\ Len(x.name) \in Nat
      BY <1>0, LocIs DEF Name
    <3>2. x.len + 1 <= Len(x.name)
      BY DEF Sound, HasLabel
    <3>. QED
      BY <3>1, <3>2
  <2>. QED
    BY <1>3, <2>1 DEF EndsUpTo
<1>6. ASSUME NEW n \in 1..N, n - 1 \in Good PROVE n \in Good
  <2>1. ASSUME NEW x \in L, Len(x.name) <= n PROVE NameEnd(msg, x.at) = x.end
    <3>1. PICK a \in Nat, k \in Nat, e \in Nat :
            /\ a = x.at /\ k = x.len /\ e = x.end /\ 1 <= k /\ k <= 63
            /\ a + k + 2 <= e /\ e <= M
            /\ NameEnd(msg, a) = end[a + k + 1]
      BY <1>4
    <3>2. PICK b \in Nat : b = a + k + 1
      OBVIOUS
    <3>3. b \in 0..Len(msg) /\ b + 1 <= e /\ b # Len(msg)
      BY <1>2, <3>1, <3>2, SMTT(30)
    <3>4. NameEnd(msg, b) = end[b] /\ end[b] = IF EndsAt(msg, b) THEN EndOf(msg, b) ELSE end[GoesOn(msg, b)]
      BY <1>1, <3>3
    <3>5. CASE AtRoot(x, msg)
      <4>1. e = b + 1 /\ msg[b + 1] = 0
        BY <3>1, <3>2, <3>5, SMTT(30) DEF AtRoot
      <4>2. EndsAt(msg, b) /\ EndOf(msg, b) = b + 1
        BY <3>3, <4>1 DEF EndsAt, EndOf
      <4>. QED
        BY <3>1, <3>2, <3>4, <4>1, <4>2
    <3>6. ASSUME NEW m \in L, Followed(x, m) PROVE NameEnd(msg, x.at) = x.end
      <4>1. m.at = b /\ m.end = e /\ m.name = Rest(x)
        BY <3>1, <3>2, <3>6 DEF Followed
      <4>2. Len(m.name) <= n - 1
        <5>1. x \in Loc /\ x.len + 1 <= Len(x.name)
          BY <1>0 DEF Sound, HasLabel
        <5>2. <<>> \in Seq(Byte)
          OBVIOUS
        <5>3. Len(Rest(x)) = Len(x.name) - x.len - 1
          BY <5>1, <5>2, FirstAndRest
        <5>4. PICK j \in Nat : j = Len(x.name)
          BY <5>1, LocIs DEF Name
        <5>5. Len(Rest(x)) = j - k - 1 /\ j <= n
          BY <2>1, <3>1, <5>3, <5>4
        <5>. QED
          BY <3>1, <4>1, <5>5
      <4>3. NameEnd(msg, m.at) = m.end
        BY <1>6, <4>2 DEF EndsUpTo
      <4>. QED
        BY <3>1, <3>2, <3>4, <4>1, <4>3
    <3>7. ASSUME NEW m \in L, Pointing(x, m, msg) PROVE NameEnd(msg, x.at) = x.end
      <4>1. e = b + 2 /\ msg[b + 1] = Pointer(m.at)[1] /\ m.at < 16384
        <5>1. e = a + k + 3 /\ msg[a + k + 2] = Pointer(m.at)[1] /\ m.at < 16384
          BY <3>1, <3>7 DEF Pointing
        <5>2. a + k + 3 = b + 2 /\ a + k + 2 = b + 1
          BY <3>2
        <5>. QED
          BY <5>1, <5>2
      <4>2. msg[b + 1] \in Nat /\ 192 <= msg[b + 1]
        <5>1. m.at \in Nat
          BY <1>0, LocIs
        <5>2. Leads(Pointer(m.at)[1], Pointer(m.at)[2], m.at)
          BY <4>1, <5>1, PointerIs
        <5>. QED
          BY <4>1, <5>2 DEF Leads
      <4>3. EndsAt(msg, b) /\ EndOf(msg, b) = b + 2
        BY <3>3, <4>2 DEF EndsAt, EndOf
      <4>. QED
        BY <3>1, <3>2, <3>4, <4>1, <4>3
    <3>. QED
      BY <3>5, <3>6, <3>7 DEF Sound
  <2>. QED
    BY <2>1 DEF EndsUpTo
<1>. HIDE DEF Good
<1>7. \A n \in 0..N : n \in Good
  BY <1>3, <1>5, <1>6, Upwards
<1>8. N \in Good
  BY <1>3, <1>7
<1>9. Len(l.name) <= N
  BY <1>3
<1>. QED
  BY <1>8, <1>9 DEF Good, EndsUpTo

(* Two messages are the same from a to e.                                  *)
Same(other, msg, a, e) ==
  e <= Len(other) /\ \A i \in 1..Len(msg) : a < i /\ i <= e => other[i] = msg[i]

(* A name is where it is as long as its octets are.                        *)
LEMMA NameKept ==
  ASSUME NEW msg \in Seq(Byte), NEW other \in Seq(Byte), NEW L, NEW a \in Nat, NEW s, NEW e \in Nat,
         NameAt(L, msg, a, s, e), Same(other, msg, a, e)
  PROVE  NameAt(L, other, a, s, e)
<1>1. a < e /\ e <= Len(msg)
  BY DEF NameAt
<1>2. e <= Len(other) /\ \A i \in 1..Len(msg) : a < i /\ i <= e => other[i] = msg[i]
  BY DEF Same
<1>4. CASE s = <<Dot>> /\ e = a + 1 /\ msg[a + 1] = 0
  <2>1. a + 1 \in 1..Len(msg) /\ a < a + 1 /\ a + 1 <= e
    BY <1>1, <1>4
  <2>2. other[a + 1] = msg[a + 1]
    BY <1>2, <2>1
  <2>. QED
    BY <1>1, <1>2, <1>4, <2>2 DEF NameAt
<1>5. CASE \E l \in L : l.at = a /\ l.name = s /\ l.end = e
  BY <1>1, <1>2, <1>5 DEF NameAt
<1>6. CASE /\ e = a + 2
           /\ \E l \in L : /\ l.name = s /\ l.at < 16384 /\ l.end <= a
                           /\ msg[a + 1] = Pointer(l.at)[1] /\ msg[a + 2] = Pointer(l.at)[2]
  <2>1. a + 1 \in 1..Len(msg) /\ a + 2 \in 1..Len(msg) /\ a < a + 1 /\ a + 1 <= e /\ a < a + 2 /\ a + 2 <= e
    BY <1>1, <1>6
  <2>2. other[a + 1] = msg[a + 1] /\ other[a + 2] = msg[a + 2]
    BY <1>2, <2>1
  <2>. QED
    BY <1>1, <1>2, <1>6, <2>2 DEF NameAt
<1>. QED
  BY <1>4, <1>5, <1>6 DEF NameAt

(* The search for the end of a name finds it.                              *)
LEMMA EndOfName ==
  ASSUME NEW msg \in Seq(Byte), NEW L, Sound(L, msg), NEW a \in Nat, NEW s, NEW e \in Nat,
         NameAt(L, msg, a, s, e)
  PROVE  NameEnd(msg, a) = e
<1>1. a < e /\ e <= Len(msg) /\ a \in 0..Len(msg) /\ a # Len(msg)
  BY DEF NameAt
<1>2. PICK end \in [0..Len(msg) -> Nat] :
        /\ \A i \in 0..Len(msg) :
             end[i] = IF EndsAt(msg, i) THEN EndOf(msg, i) ELSE end[GoesOn(msg, i)]
        /\ \A i \in 0..Len(msg) : NameEnd(msg, i) = end[i]
  BY NameEndIs
<1>3. EndsAt(msg, a) => NameEnd(msg, a) = EndOf(msg, a)
  BY <1>1, <1>2
<1>4. CASE s = <<Dot>> /\ e = a + 1 /\ msg[a + 1] = 0
  BY <1>1, <1>3, <1>4 DEF EndsAt, EndOf
<1>5. CASE \E l \in L : l.at = a /\ l.name = s /\ l.end = e
  BY <1>5, PlaceEnds
<1>6. CASE /\ e = a + 2
           /\ \E l \in L : /\ l.name = s /\ l.at < 16384 /\ l.end <= a
                           /\ msg[a + 1] = Pointer(l.at)[1] /\ msg[a + 2] = Pointer(l.at)[2]
  <2>1. PICK l \in L : l.at < 16384 /\ msg[a + 1] = Pointer(l.at)[1]
    BY <1>6
  <2>2. l.at \in Nat
    BY LocIs DEF Sound
  <2>3. Leads(Pointer(l.at)[1], Pointer(l.at)[2], l.at)
    BY <2>1, <2>2, PointerIs
  <2>4. msg[a + 1] \in Nat /\ msg[a + 1] >= 192
    BY <2>1, <2>3 DEF Leads
  <2>. QED
    BY <1>1, <1>3, <1>6, <2>4 DEF EndsAt, EndOf
<1>. QED
  BY <1>4, <1>5, <1>6 DEF NameAt

Tells(msg, p, n) == n <= 65535 => At16(msg, p) = n

(* A record is written from a to e: its owner up to o, the header behind   *)
(* it, and the rdata, with its names from at[0] on.                        *)
RRParts(M, msg, a, r, e, o, at) ==
  /\ NameAt(M, msg, a, r.name, o)
  /\ msg[o + 1] = 0 /\ msg[o + 2] = Layout[r.rt].code
  /\ Tells(msg, o + 8, e - (o + 10))
  /\ \A i \in 1..Len(r.pre) : msg[o + 10 + i] = r.pre[i]
  /\ at[0] = o + 10 + Len(r.pre)
  /\ NamesAt(M, msg, r, at, Len(r.names))
  /\ \A k \in 0..Len(r.names) : at[0] <= at[k]
  /\ at[Len(r.names)] + Len(r.post) = e /\ e <= Len(msg)
  /\ \A i \in 1..Len(r.post) : msg[at[Len(r.names)] + i] = r.post[i]

RRAt(M, msg, a, r, e) ==
  \E o \in Nat, at \in [0..Len(r.names) -> Nat] : RRParts(M, msg, a, r, e, o, at)

(* A packed record is there, and leaves the places sound.                  *)
LEMMA RRGrows ==
  ASSUME NEW r \in Record, PlainIn(r), FewIn(r), NEW compress, NEW p \in Packer,
         NEW w, w = PackRR(r, compress, p), w.ok, NEW L, Holds(L, p)
  PROVE  /\ Extends(w.msg, p.msg)
         /\ \E M : Grown(M, L, p, w) /\ RRAt(M, w.msg, Len(p.msg), r, Len(w.msg))
<1>1. PICK body \in [0..Len(r.names) -> Packer], x \in Packer :
        /\ body[0] = RRHead(r, compress, p)
        /\ \A k \in 1..Len(r.names) : body[k] = PackDomainName(r.names[k], compress, body[k - 1])
        /\ x.comp = body[Len(r.names)].comp /\ x.ok = body[Len(r.names)].ok
        /\ Joins(x.msg, body[Len(r.names)].msg, r.post)
        /\ w = IF x.ok THEN Patched(x, Len(p.msg)) ELSE x
  BY PackRRParts
<1>2. x.ok /\ w = Patched(x, Len(p.msg))
  <2>1. CASE x.ok
    BY <1>1, <2>1
  <2>2. CASE ~x.ok
    BY <1>1, <2>2
  <2>. QED
    BY <2>1, <2>2
<1>3. PICK n \in Nat : n = Len(r.names)
  BY RecordIs
<1>4. PICK b \in Packer : b = body[n]
  BY <1>1, <1>3
<1>5. PICK o : o = PackDomainName(r.name, compress, p)
  OBVIOUS
<1>6. PICK h : h = RRHead(r, compress, p)
  OBVIOUS
<1>7. Heads(r, compress, p, o, h)
  BY <1>5, <1>6 DEF Heads
<1>8. /\ o \in Packer /\ h \in Packer /\ h.comp = o.comp /\ h.ok = o.ok
      /\ Len(h.msg) = Len(o.msg) + 10 + Len(r.pre)
      /\ \A i \in 1..Len(o.msg) : h.msg[i] = o.msg[i]
      /\ h.msg[Len(o.msg) + 1] = 0 /\ h.msg[Len(o.msg) + 2] = Layout[r.rt].code
      /\ \A i \in 1..Len(r.pre) : h.msg[Len(o.msg) + 10 + i] = r.pre[i]
  BY <1>7, RRHeadIs
<1>a. body[0] = h /\ x.comp = b.comp /\ b.ok /\ Joins(x.msg, b.msg, r.post)
  BY <1>1, <1>2, <1>3, <1>4, <1>6
<1>9. Bodies(r, compress, body)
  BY <1>1 DEF Bodies
<1>10. Extends(b.msg, h.msg) /\ o.ok
  <2>1. \A k \in 0..Len(r.names) : Extends(body[k].msg, body[0].msg) /\ (body[k].ok => body[0].ok)
    BY <1>1, BodyExtends
  <2>. QED
    BY <1>3, <1>4, <1>8, <1>a, <2>1
<1>11. PICK q \in Seq(Byte) : q = r.post
  BY RecordIs
<1>12. /\ p.msg \in Seq(Byte) /\ o.msg \in Seq(Byte) /\ h.msg \in Seq(Byte)
       /\ b.msg \in Seq(Byte) /\ x.msg \in Seq(Byte)
  BY <1>8 DEF Packer
<1>13. /\ Len(x.msg) = Len(b.msg) + Len(q)
       /\ \A i \in 1..Len(b.msg) : x.msg[i] = b.msg[i]
       /\ \A i \in 1..Len(q) : x.msg[Len(b.msg) + i] = q[i]
  <2>1. PICK c : c = x.msg
    OBVIOUS
  <2>2. PICK u \in Seq(Byte) : u = b.msg
    BY <1>12
  <2>3. Joins(c, u, q)
    BY <1>a, <1>11, <2>1, <2>2
  <2>4. /\ Len(c) = Len(u) + Len(q)
        /\ \A i \in 1..Len(u) : c[i] = u[i]
        /\ \A i \in 1..Len(q) : c[Len(u) + i] = q[i]
    BY <2>3, Joined
  <2>. QED
    BY <2>1, <2>2, <2>4
<1>14. Len(p.msg) <= Len(o.msg) /\ Extends(o.msg, p.msg)
  <2>1. r.name \in Name
    BY RecordIs
  <2>. QED
    BY <1>5, <2>1, PackNameType DEF Extends
<1>15. PICK P \in Nat, O \in Nat, lp \in Nat : P = Len(p.msg) /\ O = Len(o.msg) /\ lp = Len(r.pre)
  BY <1>12, RecordIs
<1>16. PICK H \in Nat, B \in Nat, X \in Nat, lq \in Nat :
         H = Len(h.msg) /\ B = Len(b.msg) /\ X = Len(x.msg) /\ lq = Len(q)
  BY <1>12
<1>17. P <= O /\ H = O + 10 + lp /\ H <= B /\ X = B + lq
  BY <1>8, <1>10, <1>13, <1>14, <1>15, <1>16 DEF Extends
<1>18. PICK M1 : Grown(M1, L, p, o) /\ NameAt(M1, o.msg, P, r.name, O)
  <2>1. Names(r.name, compress, p, o)
    BY <1>5, <1>10, RecordIs DEF Names, PlainIn
  <2>. QED
    BY <1>15, <2>1, NameGrows DEF FewIn
<1>19. Extends(h.msg, o.msg) /\ Holds(M1, h)
  <2>1. Extends(h.msg, o.msg)
    <3>1. O <= H
      BY <1>17
    <3>. QED
      BY <1>8, <1>15, <1>16, <3>1 DEF Extends
  <2>2. Sound(M1, o.msg) /\ Covers(M1, o.comp)
    BY <1>18 DEF Grown, Holds
  <2>3. Sound(M1, h.msg)
    BY <1>12, <2>1, <2>2, ExtendsKept
  <2>4. Covers(M1, h.comp)
    BY <1>8, <2>2
  <2>. QED
    BY <2>1, <2>3, <2>4 DEF Holds
<1>20. PICK at \in [0..Len(r.names) -> Nat] : \A k \in 0..Len(r.names) : at[k] = Len(body[k].msg)
  <2>. DEFINE f == [k \in 0..Len(r.names) |-> Len(body[k].msg)]
  <2>1. \A k \in 0..Len(r.names) : Len(body[k].msg) \in Nat
    BY <1>1 DEF Packer
  <2>2. f \in [0..Len(r.names) -> Nat] /\ \A k \in 0..Len(r.names) : f[k] = Len(body[k].msg)
    BY <2>1
  <2>. QED
    BY <2>2
<1>21. PICK M : Grown(M, M1, h, b) /\ NamesAt(M, b.msg, r, at, n)
  <2>1. body[Len(r.names)].ok /\ Holds(M1, body[0])
    BY <1>3, <1>4, <1>a, <1>19
  <2>. QED
    BY <1>3, <1>4, <1>9, <1>a, <1>20, <2>1, BodyGrows
<1>22. Extends(x.msg, b.msg)
  BY <1>13, <1>16, <1>17 DEF Extends
<1>23. Sound(M, x.msg) /\ Covers(M, x.comp)
  <2>1. Sound(M, b.msg) /\ Covers(M, b.comp)
    BY <1>21 DEF Grown, Holds
  <2>2. Sound(M, x.msg)
    BY <1>12, <1>22, <2>1, ExtendsKept
  <2>. QED
    BY <1>a, <2>1, <2>2
<1>24. NameAt(M, x.msg, P, r.name, O)
  <2>1. Extends(b.msg, o.msg)
    BY <1>10, <1>12, <1>19, ExtendsMore
  <2>2. Extends(x.msg, o.msg)
    BY <1>12, <1>22, <2>1, ExtendsMore
  <2>3. M1 \subseteq M
    BY <1>21 DEF Grown
  <2>. QED
    BY <1>12, <1>18, <2>2, <2>3, NameStays
<1>25. PICK m : m = RawSetRdlength(x.msg, P)
  OBVIOUS
<1>26. /\ m \in Seq(Byte) /\ Len(m) = X
       /\ \A i \in 1..X : i # O + 9 /\ i # O + 10 => m[i] = x.msg[i]
       /\ Tells(m, O + 8, X - (O + 10))
  <2>1. O = NameEnd(x.msg, P)
    BY <1>12, <1>23, <1>24, EndOfName
  <2>2. P \in 0..Len(x.msg) /\ O + 10 <= X
    BY <1>16, <1>17
  <2>. QED
    BY <1>12, <1>16, <1>25, <2>1, <2>2, RawSetIs DEF Tells
<1>27. w.msg = m /\ w.comp = x.comp
  <2>1. w = [x EXCEPT !.msg = m]
    BY <1>2, <1>15, <1>25 DEF Patched
  <2>. QED
    BY <2>1 DEF Packer
<1>28. ASSUME NEW a \in Nat, NEW e \in Nat, e <= X, e <= O \/ a >= H
       PROVE  Same(m, x.msg, a, e)
  <2>1. ASSUME NEW i \in 1..X, a < i, i <= e PROVE i # O + 9 /\ i # O + 10
    BY <1>17, <1>28, <2>1
  <2>. QED
    BY <1>16, <1>26, <1>28, <2>1 DEF Same
<1>29. ASSUME NEW l \in M PROVE l.at \in Nat /\ l.end \in Nat /\ l.end <= X /\ (l.end <= O \/ l.at >= H)
  <2>1. l \in Loc /\ HasLabel(l, x.msg)
    BY <1>23 DEF Sound
  <2>2. l.at \in Nat /\ l.end \in Nat /\ l.end <= X
    BY <1>16, <2>1, LocIs DEF HasLabel
  <2>3. CASE l \in M1
    <3>1. HasLabel(l, o.msg)
      BY <1>18, <2>3 DEF Grown, Holds, Sound
    <3>. QED
      BY <1>15, <2>2, <3>1 DEF HasLabel
  <2>4. CASE l \notin M1
    BY <1>16, <1>21, <2>2, <2>4 DEF Grown
  <2>. QED
    BY <2>2, <2>3, <2>4
<1>30. Sound(M, m)
  <2>1. ASSUME NEW l \in M PROVE Same(m, x.msg, l.at, l.end)
    BY <1>28, <1>29
  <2>2. Kept(M, x.msg, m)
    BY <2>1 DEF Kept, Same
  <2>. QED
    BY <1>12, <1>23, <1>26, <2>2, KeptSound
<1>31. Grown(M, L, p, w)
  <2>1. L \subseteq M1 /\ M1 \subseteq M
    BY <1>18, <1>21 DEF Grown
  <2>2. Holds(M, w)
    BY <1>23, <1>27, <1>30 DEF Holds
  <2>3. ASSUME NEW l \in M PROVE l \in L \/ (l.at \in Nat /\ l.at >= P)
    <3>1. CASE l \in M1
      BY <1>15, <1>18, <3>1 DEF Grown
    <3>2. CASE l \notin M1
      <4>1. l.at \in Nat /\ l.at >= H
        BY <1>16, <1>21, <3>2 DEF Grown
      <4>. QED
        BY <1>17, <4>1
    <3>. QED
      BY <3>1, <3>2
  <2>. QED
    BY <1>15, <2>1, <2>2, <2>3 DEF Grown
<1>32. NameAt(M, m, P, r.name, O)
  <2>1. O <= X
    BY <1>17
  <2>2. Same(m, x.msg, P, O)
    BY <1>28, <2>1
  <2>. QED
    BY <1>12, <1>24, <1>26, <2>2, NameKept
<1>33. \A k \in 0..n : at[k] \in Nat /\ at[k] >= H
  <2>1. TAKE k \in 0..n
  <2>2. \A j \in 0..Len(r.names) : Extends(body[j].msg, body[0].msg)
    BY <1>1, BodyExtends
  <2>3. Extends(body[k].msg, h.msg)
    BY <1>3, <1>a, <2>2
  <2>4. at[k] = Len(body[k].msg) /\ at[k] \in Nat
    BY <1>3, <1>20
  <2>. QED
    BY <1>16, <2>3, <2>4 DEF Extends
<1>34. at[0] = H /\ at[n] = B
  <2>1. 0 \in 0..n /\ n \in 0..n
    OBVIOUS
  <2>2. at[0] = Len(body[0].msg) /\ at[n] = Len(body[n].msg)
    BY <1>3, <1>20, <2>1
  <2>. QED
    BY <1>4, <1>a, <1>16, <2>2
<1>35. NamesAt(M, m, r, at, n)
  <2>1. ASSUME NEW j \in 1..n PROVE NameAt(M, m, at[j - 1], r.names[j], at[j])
    <3>1. j \in 0..n /\ j - 1 \in 0..n
      BY <1>3
    <3>2. at[j] \in Nat /\ at[j - 1] \in Nat /\ at[j - 1] >= H
      BY <1>33, <3>1
    <3>3. NameAt(M, b.msg, at[j - 1], r.names[j], at[j])
      BY <1>21 DEF NamesAt
    <3>4. NameAt(M, x.msg, at[j - 1], r.names[j], at[j])
      BY <1>12, <1>22, <3>2, <3>3, NameStays
    <3>5. at[j] <= X
      BY <1>16, <3>4 DEF NameAt
    <3>6. Same(m, x.msg, at[j - 1], at[j])
      BY <1>28, <3>2, <3>5
    <3>. QED
      BY <1>12, <1>26, <3>2, <3>4, <3>6, NameKept
  <2>. QED
    BY <2>1 DEF NamesAt
<1>36. ASSUME NEW i \in 1..H, i <= O + 8 \/ i > O + 10 PROVE m[i] = h.msg[i]
  <2>1. i \in 1..B /\ i \in 1..X /\ i # O + 9 /\ i # O + 10
    BY <1>17, <1>36
  <2>2. b.msg[i] = h.msg[i]
    BY <1>10, <1>16 DEF Extends
  <2>3. x.msg[i] = b.msg[i]
    BY <1>13, <1>16, <2>1
  <2>. QED
    BY <1>26, <2>1, <2>2, <2>3
<1>37. m[O + 1] = 0 /\ m[O + 2] = Layout[r.rt].code
  <2>1. O + 1 \in 1..H /\ O + 2 \in 1..H /\ O + 1 <= O + 8 /\ O + 2 <= O + 8
    BY <1>17
  <2>2. m[O + 1] = h.msg[O + 1] /\ m[O + 2] = h.msg[O + 2]
    BY <1>36, <2>1
  <2>. QED
    BY <1>8, <1>15, <2>2
<1>38. ASSUME NEW i \in 1..lp PROVE m[O + 10 + i] = r.pre[i]
  <2>1. O + 10 + i \in 1..H /\ O + 10 + i > O + 10
    BY <1>17
  <2>2. m[O + 10 + i] = h.msg[O + 10 + i]
    BY <1>36, <2>1
  <2>. QED
    BY <1>8, <1>15, <2>2
<1>39. ASSUME NEW i \in 1..lq PROVE m[B + i] = q[i]
  <2>1. B + i \in 1..X /\ B + i # O + 9 /\ B + i # O + 10
    BY <1>17
  <2>2. x.msg[B + i] = q[i]
    BY <1>13, <1>16
  <2>. QED
    BY <1>26, <2>1, <2>2
<1>40. RRParts(M, m, P, r, X, O, at)
  <2>1. at[0] = O + 10 + Len(r.pre) /\ at[Len(r.names)] + Len(r.post) = X /\ X <= Len(m)
    BY <1>3, <1>11, <1>15, <1>16, <1>17, <1>26, <1>34
  <2>2. \A k \in 0..Len(r.names) : at[0] <= at[k]
    BY <1>3, <1>33, <1>34
  <2>3. \A i \in 1..Len(r.pre) : m[O + 10 + i] = r.pre[i]
    BY <1>15, <1>38
  <2>4. \A i \in 1..Len(r.post) : m[at[Len(r.names)] + i] = r.post[i]
    BY <1>3, <1>11, <1>16, <1>34, <1>39
  <2>5. NamesAt(M, m, r, at, Len(r.names))
    BY <1>3, <1>35
  <2>. QED
    BY <1>26, <1>32, <1>37, <2>1, <2>2, <2>3, <2>4, <2>5 DEF RRParts
<1>41. RRAt(M, w.msg, Len(p.msg), r, Len(w.msg))
  BY <1>15, <1>26, <1>27, <1>40 DEF RRAt
<1>42. Extends(w.msg, p.msg)
  <2>1. ASSUME NEW i \in 1..P PROVE m[i] = p.msg[i]
    <3>1. i \in 1..O /\ i \in 1..H /\ i <= O + 8
      BY <1>17
    <3>2. m[i] = h.msg[i]
      BY <1>36, <3>1
    <3>3. h.msg[i] = o.msg[i]
      BY <1>8, <1>15, <3>1
    <3>4. o.msg[i] = p.msg[i]
      BY <1>14, <1>15 DEF Extends
    <3>. QED
      BY <3>2, <3>3, <3>4
  <2>2. X >= P
    BY <1>17
  <2>. QED
    BY <1>15, <1>26, <1>27, <2>1, <2>2 DEF Extends
<1>. QED
  BY <1>31, <1>41, <1>42

(* What comes behind leaves a record where it is.                          *)
LEMMA RRStays ==
  ASSUME NEW msg \in Seq(Byte), NEW other \in Seq(Byte), Extends(other, msg),
         NEW L, NEW M, L \subseteq M, NEW a \in Nat, NEW r \in Record, NEW e \in Nat,
         RRAt(L, msg, a, r, e)
  PROVE  RRAt(M, other, a, r, e)
<1>1. PICK o \in Nat, at \in [0..Len(r.names) -> Nat] : RRParts(L, msg, a, r, e, o, at)
  BY DEF RRAt
<1>2. PICK n \in Nat, lp \in Nat, lq \in Nat : n = Len(r.names) /\ lp = Len(r.pre) /\ lq = Len(r.post)
  BY RecordIs
<1>3. PICK T \in Nat : T = Len(msg)
  OBVIOUS
<1>4. Len(other) >= T /\ \A i \in 1..T : other[i] = msg[i]
  BY <1>3 DEF Extends
<1>5. at \in [0..n -> Nat]
  BY <1>2
<1>6. /\ at[0] = o + 10 + lp /\ at[n] + lq = e /\ e <= T
      /\ at[0] <= at[n] /\ at[0] \in Nat /\ at[n] \in Nat
  <2>1. /\ at[0] = o + 10 + Len(r.pre) /\ at[Len(r.names)] + Len(r.post) = e /\ e <= Len(msg)
        /\ at[0] <= at[Len(r.names)]
    <3>1. Len(r.names) \in 0..Len(r.names)
      BY <1>2
    <3>. QED
      BY <1>1, <3>1, Zenon DEF RRParts
  <2>2. at[0] \in Nat /\ at[n] \in Nat
    BY <1>5
  <2>. QED
    BY <1>2, <1>3, <2>1, <2>2
<1>7. NameAt(M, other, a, r.name, o)
  <2>1. NameAt(L, msg, a, r.name, o)
    BY <1>1 DEF RRParts
  <2>. QED
    BY <2>1, NameStays
<1>8. NamesAt(M, other, r, at, n)
  <2>1. ASSUME NEW j \in 1..n PROVE NameAt(M, other, at[j - 1], r.names[j], at[j])
    <3>1. j \in 0..n /\ j - 1 \in 0..n
      OBVIOUS
    <3>2. at[j] \in Nat /\ at[j - 1] \in Nat
      BY <1>5, <3>1
    <3>3. NameAt(L, msg, at[j - 1], r.names[j], at[j])
      BY <1>1, <1>2 DEF RRParts, NamesAt
    <3>. QED
      BY <3>2, <3>3, NameStays
  <2>. QED
    BY <2>1 DEF NamesAt
<1>9. other[o + 1] = msg[o + 1] /\ other[o + 2] = msg[o + 2] /\ At16(other, o + 8) = At16(msg, o + 8)
  <2>1. o + 1 \in 1..T /\ o + 2 \in 1..T /\ (o + 8) + 1 \in 1..T /\ (o + 8) + 2 \in 1..T
    BY <1>6
  <2>. QED
    BY <1>4, <2>1 DEF At16
<1>10. ASSUME NEW i \in 1..lp PROVE other[o + 10 + i] = msg[o + 10 + i]
  <2>1. o + 10 + i \in 1..T
    BY <1>6
  <2>. QED
    BY <1>4, <2>1
<1>11. ASSUME NEW i \in 1..lq PROVE other[at[n] + i] = msg[at[n] + i]
  <2>1. at[n] + i \in 1..T
    BY <1>6
  <2>. QED
    BY <1>4, <2>1
<1>12. e <= Len(other)
  BY <1>4, <1>6
<1>13. RRParts(M, other, a, r, e, o, at)
  <2>1. /\ msg[o + 1] = 0 /\ msg[o + 2] = Layout[r.rt].code
        /\ Tells(msg, o + 8, e - (o + 10))
        /\ \A i \in 1..Len(r.pre) : msg[o + 10 + i] = r.pre[i]
        /\ at[0] = o + 10 + Len(r.pre)
        /\ \A k \in 0..Len(r.names) : at[0] <= at[k]
        /\ at[Len(r.names)] + Len(r.post) = e
        /\ \A i \in 1..Len(r.post) : msg[at[Len(r.names)] + i] = r.post[i]
    BY <1>1 DEF RRParts
  <2>2. other[o + 1] = 0 /\ other[o + 2] = Layout[r.rt].code
    BY <1>9, <2>1
  <2>3. Tells(other, o + 8, e - (o + 10))
    BY <1>9, <2>1 DEF Tells
  <2>4. \A i \in 1..Len(r.pre) : other[o + 10 + i] = r.pre[i]
    BY <1>2, <1>10, <2>1
  <2>5. \A i \in 1..Len(r.post) : other[at[Len(r.names)] + i] = r.post[i]
    BY <1>2, <1>11, <2>1
  <2>6. NamesAt(M, other, r, at, Len(r.names))
    BY <1>2, <1>8
  <2>. QED
    BY <1>7, <1>12, <2>1, <2>2, <2>3, <2>4, <2>5, <2>6, Zenon DEF RRParts
<1>. QED
  BY <1>13 DEF RRAt

(* The question is written from a to e.                                    *)
QuestionAt(M, msg, a, s, e) == \E o \in Nat : NameAt(M, msg, a, s, o) /\ e = o + 4 /\ e <= Len(msg)

(* A packed question is there, and leaves the places sound.                *)
LEMMA QuestionGrows ==
  ASSUME NEW s \in Name, Plain(s), Few(s), NEW compress, NEW p \in Packer,
         NEW w, w = PackQuestion(s, compress, p), w.ok, NEW L, Holds(L, p)
  PROVE  /\ Extends(w.msg, p.msg)
         /\ \E M : Grown(M, L, p, w) /\ QuestionAt(M, w.msg, Len(p.msg), s, Len(w.msg))
<1>1. PICK o : o = PackDomainName(s, compress, p)
  OBVIOUS
<1>2. w = [o EXCEPT !.msg = @ \o Zeros(4)]
  BY <1>1 DEF PackQuestion
<1>3. o \in Packer /\ Extends(o.msg, p.msg)
  BY <1>1, PackNameType DEF Extends
<1>4. PICK z : z = Zeros(4)
  OBVIOUS
<1>5. z \in Seq(Byte) /\ Len(z) = 4
  <2>1. z = <<0, 0, 0, 0>>
    BY <1>4 DEF Zeros
  <2>2. <<0, 0, 0, 0>> \in Seq(Byte) /\ Len(<<0, 0, 0, 0>>) = 4
    BY DEF Byte
  <2>. QED
    BY <2>1, <2>2
<1>6. PICK m : Joins(m, o.msg, z)
  BY DEF Joins
<1>7. p.msg \in Seq(Byte) /\ o.msg \in Seq(Byte) /\ z \in Seq(Byte)
  BY <1>3, <1>5 DEF Packer
<1>8. m \in Seq(Byte) /\ Len(m) = Len(o.msg) + Len(z) /\ \A i \in 1..Len(o.msg) : m[i] = o.msg[i]
  BY <1>6, <1>7, Joined
<1>9. w.msg = m /\ w.comp = o.comp /\ w.ok = o.ok
  <2>1. w = [o EXCEPT !.msg = m]
    BY <1>2, <1>4, <1>6 DEF Joins
  <2>. QED
    BY <1>3, <2>1 DEF Packer
<1>10. PICK P \in Nat, O \in Nat : P = Len(p.msg) /\ O = Len(o.msg)
  BY <1>7
<1>11. Len(m) = O + 4
  BY <1>5, <1>8, <1>10
<1>12. PICK M : Grown(M, L, p, o) /\ NameAt(M, o.msg, P, s, O)
  <2>1. Names(s, compress, p, o)
    BY <1>1, <1>9 DEF Names
  <2>. QED
    BY <1>10, <2>1, NameGrows
<1>13. Extends(m, o.msg)
  BY <1>8, <1>10, <1>11 DEF Extends
<1>14. Holds(M, w)
  <2>1. Sound(M, o.msg) /\ Covers(M, o.comp)
    BY <1>12 DEF Grown, Holds
  <2>2. Sound(M, m)
    BY <1>7, <1>8, <1>13, <2>1, ExtendsKept
  <2>. QED
    BY <1>9, <2>1, <2>2 DEF Holds
<1>15. Grown(M, L, p, w)
  BY <1>12, <1>14 DEF Grown
<1>16. NameAt(M, m, P, s, O)
  BY <1>7, <1>8, <1>12, <1>13, NameStays
<1>17. QuestionAt(M, m, P, s, O + 4)
  BY <1>11, <1>16 DEF QuestionAt
<1>18. QuestionAt(M, w.msg, Len(p.msg), s, Len(w.msg))
  BY <1>9, <1>10, <1>11, <1>17
<1>19. Extends(w.msg, p.msg)
  BY <1>3, <1>7, <1>8, <1>9, <1>13, ExtendsMore
<1>. QED
  BY <1>15, <1>18, <1>19

(* What comes behind leaves a question where it is.                        *)
LEMMA QuestionStays ==
  ASSUME NEW msg \in Seq(Byte), NEW other \in Seq(Byte), Extends(other, msg),
         NEW L, NEW M, L \subseteq M, NEW a \in Nat, NEW s, NEW e, QuestionAt(L, msg, a, s, e)
  PROVE  QuestionAt(M, other, a, s, e)
<1>1. PICK o \in Nat : NameAt(L, msg, a, s, o) /\ e = o + 4 /\ e <= Len(msg)
  BY DEF QuestionAt
<1>2. NameAt(M, other, a, s, o)
  BY <1>1, NameStays
<1>3. e <= Len(other)
  BY <1>1 DEF Extends
<1>. QED
  BY <1>1, <1>2, <1>3 DEF QuestionAt

-----------------------------------------------------------------------------
(* What has been written of a message.                                     *)

(* The first i items of a message are written one behind the other.        *)
Laid(M, msg, m, i, at) ==
  /\ at[0] = 12 /\ at[i] = Len(msg)
  /\ Extends(msg, Header(m))
  /\ i >= 1 => QuestionAt(M, msg, 12, m.q, at[1])
  /\ \A j \in 1..i - 1 : RRAt(M, msg, at[j], Records(m)[j], at[j + 1])

(* While a message is packed, the places say where everything is.          *)
Told ==
  phase = "pack" =>
    \E M : \E at \in [0..Len(Records(sent)) + 1 -> Nat] :
      Holds(M, Written) /\ Laid(M, out, sent, item, at)

(* Nothing is written but the header.                                      *)
LEMMA ToldInit == Init => Told
<1>. SUFFICES ASSUME Init PROVE Told
  OBVIOUS
<1>1. sent \in Msgs /\ item = 0 /\ out = Header(sent) /\ comp = [s \in {} |-> 0]
  BY DEF Init
<1>2. out \in Seq(Byte) /\ Len(out) = 12
  BY <1>1, HeaderIs
<1>3. PICK n \in Nat : n = Len(Records(sent))
  BY <1>1, MessageIs
<1>4. PICK at \in [0..n + 1 -> Nat] : at[0] = 12
  <2>. DEFINE f == [j \in 0..n + 1 |-> 12]
  <2>1. f \in [0..n + 1 -> Nat] /\ f[0] = 12
    BY <1>3
  <2>. QED
    BY <2>1
<1>5. Holds({}, Written)
  <2>1. Sound({}, out)
    BY DEF Sound
  <2>2. Covers({}, comp)
    BY <1>1 DEF Covers
  <2>. QED
    BY <2>1, <2>2 DEF Holds, Written
<1>6. Laid({}, out, sent, item, at)
  <2>1. Extends(out, Header(sent))
    BY <1>1, <1>2 DEF Extends
  <2>2. at[0] = 12 /\ at[item] = Len(out) /\ ~(item >= 1)
    BY <1>1, <1>2, <1>4
  <2>3. \A j \in 1..item - 1 : FALSE
    BY <1>1
  <2>. QED
    BY <2>1, <2>2, <2>3 DEF Laid
<1>. QED
  BY <1>3, <1>5, <1>6 DEF Told

(* Pack writes the next item.                                              *)
LEMMA ToldPack ==
  ASSUME OrdinaryNames
  PROVE  Fits /\ Told /\ Pack => Told'
<1>. SUFFICES ASSUME Fits, Told, Pack PROVE Told'
  OBVIOUS
<1>1. sent \in Msgs /\ sent' = sent /\ phase = "pack" /\ item <= Len(Records(sent))
  BY DEF Fits, Pack
<1>2. PICK n \in Nat : n = Len(Records(sent))
  BY <1>1, MessageIs
<1>3. item \in 0..n /\ Written \in Packer
  BY <1>1, <1>2 DEF Fits
<1>4. PICK w : w = IF item = 0 THEN PackQuestion(sent.q, sent.compress, Written)
                   ELSE PackRR(Records(sent)[item], sent.compress, Written)
  OBVIOUS
<1>5. IF w.ok THEN out' = w.msg /\ comp' = w.comp /\ item' = item + 1 /\ phase' = phase
      ELSE phase' = "error"
  BY <1>4 DEF Pack, Written
<1>6. CASE ~w.ok
  BY <1>5, <1>6 DEF Told
<1>7. CASE w.ok
  <2>1. out' = w.msg /\ comp' = w.comp /\ item' = item + 1
    BY <1>5, <1>7
  <2>2. PICK M, at \in [0..n + 1 -> Nat] : Holds(M, Written) /\ Laid(M, out, sent, item, at)
    BY <1>1, <1>2 DEF Told
  <2>3. Written.msg = out /\ out \in Seq(Byte)
    BY <1>3 DEF Written, Packer
  <2>4. PICK i \in 0..n : i = item
    BY <1>3
  <2>5. /\ at[0] = 12 /\ at[i] = Len(out)
        /\ Extends(out, Header(sent))
        /\ i >= 1 => QuestionAt(M, out, 12, sent.q, at[1])
        /\ \A j \in 1..i - 1 : RRAt(M, out, at[j], Records(sent)[j], at[j + 1])
    BY <2>2, <2>4 DEF Laid
  <2>6. PICK K : /\ w \in Packer /\ Extends(w.msg, out) /\ Grown(K, M, Written, w)
                 /\ IF i = 0 THEN QuestionAt(K, w.msg, Len(out), sent.q, Len(w.msg))
                    ELSE RRAt(K, w.msg, Len(out), Records(sent)[i], Len(w.msg))
    <3>1. CASE i = 0
      <4>1. sent.q \in Name /\ Plain(sent.q) /\ Few(sent.q)
        BY <1>1, MessageIs DEF OrdinaryNames, OrdinaryMessage, PlainMessage
      <4>2. w = PackQuestion(sent.q, sent.compress, Written)
        BY <1>4, <2>4, <3>1
      <4>3. PICK K : Grown(K, M, Written, w) /\ QuestionAt(K, w.msg, Len(Written.msg), sent.q, Len(w.msg))
        BY <1>3, <1>7, <2>2, <4>1, <4>2, QuestionGrows
      <4>4. w \in Packer
        BY <1>3, <4>1, <4>2, PackQuestionType
      <4>5. Extends(w.msg, out)
        BY <1>3, <1>7, <2>2, <2>3, <4>1, <4>2, QuestionGrows
      <4>. QED
        BY <2>3, <3>1, <4>3, <4>4, <4>5
    <3>2. CASE i # 0
      <4>1. i \in 1..n
        BY <3>2
      <4>2. PICK r \in Record : r = Records(sent)[i]
        BY <1>1, <1>2, <4>1, MessageIs
      <4>3. PlainIn(r) /\ FewIn(r)
        BY <1>1, <1>2, <4>1, <4>2 DEF OrdinaryNames, OrdinaryMessage, PlainMessage
      <4>4. w = PackRR(r, sent.compress, Written)
        BY <1>4, <2>4, <3>2, <4>2
      <4>5. PICK K : Grown(K, M, Written, w) /\ RRAt(K, w.msg, Len(Written.msg), r, Len(w.msg))
        BY <1>3, <1>7, <2>2, <4>3, <4>4, RRGrows
      <4>6. w \in Packer
        BY <1>3, <4>4, PackRRType
      <4>7. Extends(w.msg, out)
        BY <1>3, <1>7, <2>2, <2>3, <4>3, <4>4, RRGrows
      <4>. QED
        BY <2>3, <3>2, <4>2, <4>5, <4>6, <4>7
    <3>. QED
      BY <3>1, <3>2
  <2>7. w.msg \in Seq(Byte)
    BY <2>6 DEF Packer
  <2>8. PICK e \in Nat : e = Len(w.msg)
    BY <2>7
  <2>9. PICK new : new = [at EXCEPT ![i + 1] = e]
    OBVIOUS
  <2>10. /\ new \in [0..n + 1 -> Nat] /\ new[i + 1] = e
         /\ \A j \in 0..i : new[j] = at[j] /\ at[j] \in Nat
    <3>1. i + 1 \in 0..n + 1
      BY <2>4
    <3>2. \A j \in 0..i : j \in 0..n + 1 /\ j # i + 1
      BY <2>4
    <3>. QED
      BY <2>9, <3>1, <3>2
  <2>11. M \subseteq K /\ Holds(K, w)
    BY <2>6 DEF Grown
  <2>12. Holds(K, Written')
    BY <2>1, <2>11 DEF Holds, Written
  <2>13. Laid(K, w.msg, sent, i + 1, new)
    <3>1. new[0] = 12 /\ new[i + 1] = Len(w.msg)
      BY <2>4, <2>5, <2>8, <2>10
    <3>2. Extends(w.msg, Header(sent))
      BY <1>1, <2>3, <2>5, <2>6, <2>7, HeaderIs, ExtendsMore
    <3>3. QuestionAt(K, w.msg, 12, sent.q, new[1])
      <4>1. CASE i = 0
        <5>1. QuestionAt(K, w.msg, Len(out), sent.q, Len(w.msg))
          BY <2>6, <4>1
        <5>2. Len(out) = 12
          BY <2>5, <4>1
        <5>3. new[i + 1] = Len(w.msg)
          BY <2>8, <2>10
        <5>4. i + 1 = 1
          BY <4>1
        <5>5. new[1] = Len(w.msg)
          BY <5>3, <5>4, Zenon
        <5>. QED
          BY <5>1, <5>2, <5>5
      <4>2. CASE i # 0
        <5>1. i >= 1 /\ 1 \in 0..i
          BY <2>4, <4>2
        <5>2. QuestionAt(M, out, 12, sent.q, at[1]) /\ new[1] = at[1]
          BY <2>5, <2>10, <5>1
        <5>. QED
          BY <2>3, <2>6, <2>7, <2>11, <5>2, QuestionStays
      <4>. QED
        BY <4>1, <4>2
    <3>4. ASSUME NEW j \in 1..(i + 1) - 1
          PROVE  RRAt(K, w.msg, new[j], Records(sent)[j], new[j + 1])
      <4>0. j \in 1..i /\ j \in 0..i /\ i # 0
        BY <2>4
      <4>1. CASE j = i
        <5>1. new[j] = Len(out) /\ new[j + 1] = Len(w.msg)
          BY <2>5, <2>8, <2>10, <4>0, <4>1
        <5>. QED
          BY <2>6, <4>0, <4>1, <5>1
      <4>2. CASE j # i
        <5>1. j \in 1..i - 1 /\ j + 1 \in 0..i /\ j \in 1..n
          BY <2>4, <4>0, <4>2
        <5>2. RRAt(M, out, at[j], Records(sent)[j], at[j + 1])
          BY <2>5, <5>1
        <5>3. Records(sent)[j] \in Record
          BY <1>1, <1>2, <5>1, MessageIs
        <5>4. at[j] \in Nat /\ at[j + 1] \in Nat /\ new[j] = at[j] /\ new[j + 1] = at[j + 1]
          BY <2>10, <4>0, <5>1
        <5>5. RRAt(K, w.msg, at[j], Records(sent)[j], at[j + 1])
          BY <2>3, <2>6, <2>7, <2>11, <5>2, <5>3, <5>4, RRStays, SMTT(30)
        <5>. QED
          BY <5>4, <5>5
      <4>. QED
        BY <4>1, <4>2
    <3>. QED
      BY <3>1, <3>2, <3>3, <3>4 DEF Laid
  <2>14. Laid(K, out', sent', item', new)
    BY <1>1, <2>1, <2>4, <2>13
  <2>. QED
    BY <1>1, <1>2, <2>10, <2>12, <2>14 DEF Told
<1>. QED
  BY <1>6, <1>7

(* Told is inductive with Fits.                                            *)
LEMMA ToldStep ==
  ASSUME OrdinaryNames
  PROVE  Fits /\ Told /\ [Next]_vars => Told'
<1>. SUFFICES ASSUME Fits, Told, [Next]_vars PROVE Told'
  OBVIOUS
<1>1. CASE Pack
  BY <1>1, ToldPack
<1>2. CASE Transmit
  BY <1>2 DEF Told, Transmit
<1>3. CASE ReadQuestion
  BY <1>3 DEF Told, ReadQuestion
<1>4. CASE ReadRR
  BY <1>4 DEF Told, ReadRR
<1>5. CASE NextSection
  BY <1>5 DEF Told, NextSection
<1>6. CASE Panic
  BY <1>6 DEF Told, Panic
<1>7. CASE UNCHANGED vars
  BY <1>7 DEF Told, vars, Written
<1>. QED
  BY <1>1, <1>2, <1>3, <1>4, <1>5, <1>6, <1>7 DEF Next

(* While a message is packed, everything written is where the places say.  *)
THEOREM WireTold ==
  ASSUME OrdinaryNames
  PROVE  Spec => []Told
<1>1. Fits /\ Told /\ [Next]_vars => Told'
  BY ToldStep
<1>. QED
  BY <1>1, ToldInit, WireFits, PTL DEF Spec

(* The compression map tells the truth at every moment: at the offset it   *)
(* has for a name, the octets written so far read as that name, whatever   *)
(* messages of ordinary names are packed.                                  *)
THEOREM WireCompressionSound ==
  ASSUME OrdinaryNames
  PROVE  Spec => []CompressionSound
<1>1. Fits /\ Told => CompressionSound
  <2>. SUFFICES ASSUME Fits, Told, phase = "pack", NEW s \in DOMAIN comp
                PROVE  UnpackDomainName(out, comp[s]).s = s
    BY DEF CompressionSound
  <2>1. PICK M : Holds(M, Written)
    BY DEF Told
  <2>2. Sound(M, out) /\ Covers(M, comp)
    BY <2>1 DEF Holds, Written
  <2>3. PICK l \in M : l.at = comp[s] /\ l.name = s
    BY <2>2 DEF Covers
  <2>4. out \in Seq(Byte)
    BY DEF Fits, Written, Packer
  <2>5. UnpackDomainName(out, l.at) = [s |-> l.name, off |-> l.end]
    BY <2>2, <2>4, UnpackIs
  <2>. QED
    BY <2>3, <2>5
<1>2. Spec => []Told
  BY WireTold
<1>. QED
  BY <1>1, <1>2, WireFits, PTL

-----------------------------------------------------------------------------
(* Reading what was written, whole or cut off.                             *)

(* A name is read as it is, and reading goes on behind it.                 *)
LEMMA NameReads ==
  ASSUME NEW msg \in Seq(Byte), NEW L, Sound(L, msg), NEW a \in Nat, NEW s \in Name, Short(s),
         NEW e \in Nat, NameAt(L, msg, a, s, e)
  PROVE  UnpackDomainName(msg, a) = [s |-> s, off |-> e]
<1>1. PICK x : x = [p |-> a, s |-> <<>>, ptrs |-> 0, ret |-> a]
  OBVIOUS
<1>2. x \in Reading
  <2>1. 0 \in 0..MaxPtr /\ <<>> \in Seq(Byte)
    BY Limits
  <2>. QED
    BY <1>1, <2>1 DEF Reading
<1>3. x.p = a /\ x.s = <<>> /\ x.ptrs = 0 /\ x.ret = a /\ UnpackDomainName(msg, a) = NameFrom(msg)[x]
  BY <1>1 DEF UnpackDomainName
<1>4. a < e /\ e <= Len(msg)
  BY DEF NameAt
<1>5. CASE s = <<Dot>> /\ e = a + 1 /\ msg[a + 1] = 0
  <2>1. Over(msg, x)
    BY <1>3, <1>5 DEF Over
  <2>2. x.p < Len(msg)
    BY <1>3, <1>4
  <2>3. Outcome(msg, x) = [s |-> <<Dot>>, off |-> e]
    BY <1>3, <1>5, <2>2 DEF Outcome, Behind
  <2>. QED
    BY <1>2, <1>3, <1>5, <2>1, <2>3, NameFromIs
<1>6. CASE \E l \in L : l.at = a /\ l.name = s /\ l.end = e
  BY <1>6, UnpackIs
<1>7. CASE /\ e = a + 2
           /\ \E l \in L : /\ l.name = s /\ l.at < 16384 /\ l.end <= a
                           /\ msg[a + 1] = Pointer(l.at)[1] /\ msg[a + 2] = Pointer(l.at)[2]
  <2>1. PICK l \in L : /\ l.name = s /\ l.at < 16384
                       /\ msg[a + 1] = Pointer(l.at)[1] /\ msg[a + 2] = Pointer(l.at)[2]
    BY <1>7
  <2>2. l \in Loc /\ HasLabel(l, msg)
    BY DEF Sound
  <2>3. PICK t \in Nat : t = l.at
    BY <2>2, LocIs
  <2>4. PICK c \in Nat, d \in Nat : c = msg[a + 1] /\ d = msg[a + 2] /\ 192 <= c /\ c * 256 + d = 49152 + t
    <3>1. PICK c, d : c = Pointer(t)[1] /\ d = Pointer(t)[2]
      OBVIOUS
    <3>2. t < 16384
      BY <2>1, <2>3
    <3>3. Leads(c, d, t)
      BY <3>1, <3>2, PointerIs
    <3>. QED
      BY <2>1, <2>3, <3>1, <3>3, SMTT(30) DEF Leads
  <2>5. PICK n \in Nat : n = Cardinality(Dots(s)) /\ n > 0 /\ n <= MaxPtr
    <3>1. /\ Cardinality(Dots(l.name)) \in Nat /\ Cardinality(Dots(Rest(l))) \in Nat
          /\ Cardinality(Dots(Rest(l))) < Cardinality(Dots(l.name))
      BY <2>2, RestIs
    <3>. QED
      BY <2>1, <3>1 DEF Short
  <2>6. ~Over(msg, x)
    <3>1. c # 0 /\ ~(c < 64) /\ ~(c < 192)
      BY <2>4
    <3>2. ~(a >= Len(msg)) /\ ~(a + 1 >= Len(msg))
      BY <1>4, <1>7
    <3>3. 0 # MaxPtr
      BY <2>5, Limits
    <3>. QED
      BY <1>3, <2>4, <3>1, <3>2, <3>3 DEF Over
  <2>7. Target(msg, a) = t
    <3>1. At16(msg, a) = c * 256 + d
      BY <2>4 DEF At16
    <3>. QED
      BY <2>4, <3>1 DEF Target
  <2>8. PICK z : z = Turn(msg, x)
    OBVIOUS
  <2>9. z = [x EXCEPT !.p = t, !.ptrs = 1, !.ret = Behind(a + 2, 0, a)]
    <3>1. ~(msg[x.p + 1] < 64)
      BY <1>3, <2>4
    <3>2. Turn(msg, x) = AtPointer(msg, x)
      BY <3>1 DEF Turn
    <3>. QED
      BY <1>3, <2>7, <2>8, <3>2 DEF AtPointer
  <2>10. z \in Reading /\ NameFrom(msg)[x] = NameFrom(msg)[z]
    BY <1>2, <2>6, <2>8, TurnIs, NameFromIs
  <2>11. z.p = l.at /\ z.s = <<>> /\ z.ptrs = 1 /\ z.ret = e
    <3>1. Behind(a + 2, 0, a) = e
      BY <1>7 DEF Behind
    <3>. QED
      BY <1>1, <2>3, <2>9, <3>1
  <2>12. PICK N \in Nat : N = Len(l.name)
    BY <2>2, LocIs DEF Name
  <2>13. ReadsUpTo(N, L, msg)
    BY ReadsBack
  <2>14. Cardinality(Dots(l.name)) + z.ptrs <= MaxPtr + 1
    <3>1. n + 1 <= MaxPtr + 1
      BY <2>5, Limits
    <3>. QED
      BY <2>1, <2>5, <2>11, <3>1
  <2>15. NameFrom(msg)[z] = [s |-> z.s \o l.name, off |-> Behind(l.end, z.ptrs, z.ret)]
    <3>1. Len(l.name) <= N
      BY <2>12
    <3>. QED
      BY <2>10, <2>11, <2>13, <2>14, <3>1 DEF ReadsUpTo
  <2>16. z.s \o l.name = s /\ Behind(l.end, z.ptrs, z.ret) = e
    <3>1. <<>> \o s = s
      BY DEF Name
    <3>. QED
      BY <2>1, <2>11, <3>1 DEF Behind
  <2>. QED
    BY <1>3, <2>10, <2>15, <2>16
<1>. QED
  BY <1>5, <1>6, <1>7 DEF NameAt

(* A name of at most n characters that is cut off cannot be read.          *)
CutUpTo(n, L, c) ==
  \A l \in L, x \in Reading :
    Len(l.name) <= n /\ x.p = l.at /\ l.at <= Len(c) /\ Len(c) < l.end =>
      NameFrom(c)[x].off = Len(c)

(* Reading stops at the end of the message.                                *)
LEMMA Stops ==
  ASSUME NEW msg \in Seq(Byte), NEW x \in Reading, Over(msg, x),
         x.p >= Len(msg) \/ msg[x.p + 1] # 0
  PROVE  NameFrom(msg)[x].off = Len(msg)
<1>1. NameFrom(msg)[x] = Outcome(msg, x)
  BY NameFromIs
<1>2. ~(x.p < Len(msg) /\ msg[x.p + 1] = 0)
  BY DEF Reading
<1>3. Outcome(msg, x) = [s |-> <<>>, off |-> Len(msg)]
  BY <1>2 DEF Outcome
<1>. QED
  BY <1>1, <1>3

(* What was cut off of a place leaves nothing to be read.                  *)
LEMMA CutStops ==
  ASSUME NEW msg \in Seq(Byte), NEW L, Sound(L, msg), NEW c \in Seq(Byte), Extends(msg, c), NEW N \in Nat
  PROVE  CutUpTo(N, L, c)
<1>. DEFINE Good == {n \in 0..N : CutUpTo(n, L, c)}
<1>1. ASSUME NEW l \in L
      PROVE  l \in Loc /\ HasLabel(l, msg) /\ Len(l.name) \in Nat /\ Len(l.name) > 0
  <2>1. l \in Loc /\ HasLabel(l, msg)
    BY DEF Sound
  <2>2. PICK k \in Nat, n \in Nat : k = l.len /\ n = Len(l.name)
    BY <2>1, LocIs DEF Name
  <2>3. k + 1 <= n
    BY <2>1, <2>2 DEF HasLabel
  <2>. QED
    BY <2>1, <2>2, <2>3
<1>2. PICK T \in Nat : T = Len(c)
  OBVIOUS
<1>3. \A i \in 1..T : c[i] = msg[i]
  BY <1>2 DEF Extends
<1>4. 0 \in Good
  <2>1. \A l \in L : ~(Len(l.name) <= 0)
    BY <1>1
  <2>. QED
    BY <2>1 DEF CutUpTo
<1>5. ASSUME NEW n \in 1..N, n - 1 \in Good PROVE n \in Good
  <2>1. ASSUME NEW l \in L, NEW x \in Reading, Len(l.name) <= n, x.p = l.at, l.at <= T, T < l.end
        PROVE  NameFrom(c)[x].off = T
    <3>1. l \in Loc /\ HasLabel(l, msg)
      BY <1>1
    <3>2. PICK a \in Nat, k \in Nat, e \in Nat :
            a = l.at /\ k = l.len /\ e = l.end /\ 1 <= k /\ k <= 63
      BY <3>1, LocIs
    <3>3. msg[a + 1] = k /\ x.p = a /\ a <= T /\ T < e
      BY <2>1, <3>1, <3>2 DEF HasLabel
    <3>4. CASE a = T
      <4>1. Over(c, x)
        BY <1>2, <3>3, <3>4 DEF Over
      <4>2. x.p >= Len(c)
        BY <1>2, <3>3, <3>4
      <4>. QED
        BY <1>2, <4>1, <4>2, Stops
    <3>5. CASE a < T
      <4>1. c[a + 1] = k
        <5>1. a + 1 \in 1..T
          BY <3>5
        <5>. QED
          BY <1>3, <3>3, <5>1
      <4>2. CASE a + 1 + k > T
        <5>1. Over(c, x)
          BY <1>2, <3>2, <3>3, <4>1, <4>2 DEF Over
        <5>2. c[x.p + 1] # 0
          BY <3>2, <3>3, <4>1
        <5>. QED
          BY <1>2, <5>1, <5>2, Stops
      <4>3. CASE a + 1 + k <= T
        <5>1. ~Over(c, x)
          <6>1. ~(a >= T) /\ k # 0 /\ ~(a + 1 + k > T) /\ ~(k >= 64)
            <7>1. 1 <= k /\ k <= 63
              BY <3>2
            <7>. QED
              BY <3>5, <4>3, <7>1
          <6>. QED
            BY <1>2, <3>3, <4>1, <6>1 DEF Over
        <5>2. PICK y : y = Turn(c, x)
          OBVIOUS
        <5>3. y \in Reading /\ NameFrom(c)[x] = NameFrom(c)[y]
          BY <5>1, <5>2, TurnIs, NameFromIs
        <5>4. y.p = a + 1 + k
          <6>1. c[x.p + 1] < 64
            BY <3>2, <3>3, <4>1
          <6>2. y = PastLabel(c, x)
            BY <5>2, <6>1 DEF Turn
          <6>3. y.p = x.p + 1 + c[x.p + 1]
            BY <6>2 DEF PastLabel, Reading
          <6>. QED
            BY <3>3, <4>1, <6>3
        <5>5. CASE a + 1 + k = T
          <6>1. Over(c, y) /\ y.p >= Len(c)
            BY <1>2, <5>4, <5>5 DEF Over
          <6>. QED
            BY <1>2, <5>3, <6>1, Stops
        <5>6. ASSUME AtRoot(l, msg) PROVE a + 1 + k = T
          <6>1. e = a + k + 2
            BY <3>2, <5>6 DEF AtRoot
          <6>. QED
            BY <3>3, <4>3, <6>1
        <5>7. ASSUME NEW m \in L, Followed(l, m) PROVE NameFrom(c)[x].off = T
          <6>1. m.name = Rest(l) /\ m.end = e
            BY <3>2, <5>7 DEF Followed
          <6>2. m.at = a + 1 + k
            <7>1. m.at = a + k + 1
              BY <3>2, <5>7 DEF Followed
            <7>2. a + k + 1 = a + 1 + k
              OBVIOUS
            <7>. QED
              BY <7>1, <7>2
          <6>3. Len(m.name) <= n - 1
            <7>1. Rest(l) \in Name /\ Len(Rest(l)) < Len(l.name)
              BY <3>1, RestIs
            <7>2. PICK u \in Nat, v \in Nat : u = Len(Rest(l)) /\ v = Len(l.name)
              BY <1>1, <7>1 DEF Name
            <7>3. u < v /\ v <= n
              BY <2>1, <7>1, <7>2
            <7>4. u <= n - 1
              BY <7>3
            <7>. QED
              BY <6>1, <7>2, <7>4
          <6>4. CutUpTo(n - 1, L, c)
            BY <1>5
          <6>5. y.p = m.at /\ m.at <= Len(c) /\ Len(c) < m.end
            BY <1>2, <3>3, <4>3, <5>4, <6>1, <6>2
          <6>6. NameFrom(c)[y].off = Len(c)
            BY <5>3, <6>3, <6>4, <6>5 DEF CutUpTo
          <6>. QED
            BY <1>2, <5>3, <6>6
        <5>8. ASSUME NEW m \in L, Pointing(l, m, msg), a + 1 + k # T PROVE NameFrom(c)[x].off = T
          <6>1. e = a + k + 3 /\ msg[a + k + 2] = Pointer(m.at)[1] /\ m.at < 16384
            BY <3>2, <5>8 DEF Pointing
          <6>2. T = a + k + 2 /\ a + 1 + k + 1 = a + k + 2
            BY <3>3, <4>3, <5>8, <6>1
          <6>3. PICK d : d = msg[a + k + 2]
            OBVIOUS
          <6>4. d \in Nat /\ 192 <= d
            <7>1. m.at \in Nat
              BY <1>1, LocIs
            <7>2. Leads(Pointer(m.at)[1], Pointer(m.at)[2], m.at)
              BY <6>1, <7>1, PointerIs
            <7>. QED
              BY <6>1, <6>3, <7>2 DEF Leads
          <6>5. c[y.p + 1] = d
            <7>1. a + k + 2 \in 1..T
              BY <6>2
            <7>. QED
              BY <1>3, <5>4, <6>2, <6>3, <7>1
          <6>6. y.p + 1 >= Len(c)
            BY <1>2, <5>4, <6>2
          <6>7. d >= 64 /\ d # 0
            BY <6>4
          <6>8. Over(c, y)
            BY <6>5, <6>6, <6>7 DEF Over
          <6>. QED
            BY <1>2, <5>3, <6>5, <6>7, <6>8, Stops
        <5>. QED
          BY <5>5, <5>6, <5>7, <5>8 DEF Sound
      <4>. QED
        BY <4>2, <4>3
    <3>. QED
      BY <3>3, <3>4, <3>5
  <2>2. CutUpTo(n, L, c)
    BY <1>2, <2>1 DEF CutUpTo
  <2>. QED
    BY <2>2
<1>. HIDE DEF Good
<1>6. \A n \in 0..N : n \in Good
  BY <1>4, <1>5, Upwards
<1>7. N \in Good
  BY <1>6
<1>. QED
  BY <1>7 DEF Good

(* The places that end within the first n octets.                          *)
Within(L, n) == {l \in L : l.end <= n}

(* They are sound without what comes behind.                               *)
LEMMA WithinSound ==
  ASSUME NEW msg \in Seq(Byte), NEW L, Sound(L, msg), NEW c \in Seq(Byte), Extends(msg, c),
         NEW T \in Nat, T = Len(c), NEW K, K = Within(L, T)
  PROVE  Sound(K, c)
<1>1. ASSUME NEW l \in K
      PROVE  /\ l \in Loc /\ l.end <= T /\ HasLabel(l, msg)
             /\ AtRoot(l, msg) \/ \E m \in K : Followed(l, m) \/ Pointing(l, m, msg)
  <2>1. l \in L /\ l.end <= T
    BY DEF Within
  <2>2. l \in Loc /\ HasLabel(l, msg)
    BY <2>1 DEF Sound
  <2>3. CASE AtRoot(l, msg)
    BY <2>1, <2>2, <2>3
  <2>4. ASSUME NEW m \in L, Followed(l, m) \/ Pointing(l, m, msg) PROVE m \in K
    <3>1. PICK a \in Nat, k \in Nat, e \in Nat, f \in Nat :
            a = l.at /\ k = l.len /\ e = l.end /\ f = m.end
      <4>1. m \in Loc
        BY DEF Sound
      <4>. QED
        BY <2>2, <4>1, LocIs
    <3>2. a + k + 2 <= e /\ e <= T
      BY <2>1, <2>2, <3>1 DEF HasLabel
    <3>3. f = e \/ f <= a
      BY <2>4, <3>1 DEF Followed, Pointing
    <3>4. f <= T
      BY <3>2, <3>3
    <3>. QED
      BY <3>1, <3>4 DEF Within
  <2>. QED
    BY <2>1, <2>2, <2>3, <2>4 DEF Sound
<1>2. Sound(K, msg)
  BY <1>1 DEF Sound
<1>3. Kept(K, msg, c)
  <2>1. T <= Len(msg) /\ \A i \in 1..T : c[i] = msg[i]
    BY DEF Extends
  <2>2. ASSUME NEW l \in K, NEW i \in 1..Len(msg), i <= l.end PROVE c[i] = msg[i]
    <3>1. i \in 1..T
      BY <1>1, <2>2 DEF Loc
    <3>. QED
      BY <2>1, <3>1
  <2>. QED
    BY <1>1, <2>2 DEF Kept
<1>. QED
  BY <1>2, <1>3, KeptSound

(* What is read where a name was written: the name, or nothing if it was   *)
(* cut off.                                                                *)
ReadAs(c, a, s, e) ==
  /\ e <= Len(c) => UnpackDomainName(c, a) = [s |-> s, off |-> e]
  /\ e > Len(c) => UnpackDomainName(c, a).off = Len(c)

(* A name is read like this from the first octets of a message.            *)
LEMMA CutReads ==
  ASSUME NEW msg \in Seq(Byte), NEW L, Sound(L, msg), NEW c \in Seq(Byte), Extends(msg, c),
         NEW a \in Nat, a <= Len(c), NEW s \in Name, Short(s),
         NEW e \in Nat, NameAt(L, msg, a, s, e)
  PROVE  ReadAs(c, a, s, e)
<1>1. PICK T \in Nat : T = Len(c)
  OBVIOUS
<1>2. T <= Len(msg) /\ \A i \in 1..T : c[i] = msg[i]
  BY <1>1 DEF Extends
<1>3. a < e /\ e <= Len(msg) /\ a <= T
  BY <1>1 DEF NameAt
<1>4. PICK K : K = Within(L, T)
  OBVIOUS
<1>5. Sound(K, c)
  BY <1>1, <1>4, WithinSound
<1>6. PICK x : x = [p |-> a, s |-> <<>>, ptrs |-> 0, ret |-> a]
  OBVIOUS
<1>7. x \in Reading
  <2>1. 0 \in 0..MaxPtr /\ <<>> \in Seq(Byte)
    BY Limits
  <2>. QED
    BY <1>6, <2>1 DEF Reading
<1>8. x.p = a /\ UnpackDomainName(c, a) = NameFrom(c)[x]
  BY <1>6 DEF UnpackDomainName
<1>9. CASE s = <<Dot>> /\ e = a + 1 /\ msg[a + 1] = 0
  <2>1. CASE e <= T
    <3>1. a + 1 \in 1..T
      BY <1>9, <2>1
    <3>2. NameAt(K, c, a, s, e)
      BY <1>1, <1>2, <1>3, <1>9, <2>1, <3>1 DEF NameAt
    <3>. QED
      BY <1>1, <1>5, <2>1, <3>2, NameReads DEF ReadAs
  <2>2. CASE e > T
    <3>1. x.p >= Len(c)
      BY <1>1, <1>3, <1>8, <1>9, <2>2
    <3>2. Over(c, x)
      BY <3>1 DEF Over
    <3>. QED
      BY <1>1, <1>7, <1>8, <2>2, <3>1, <3>2, Stops DEF ReadAs
  <2>. QED
    BY <2>1, <2>2
<1>10. ASSUME NEW l \in L, l.at = a, l.name = s, l.end = e PROVE ReadAs(c, a, s, e)
  <2>1. CASE e <= T
    <3>1. l \in K
      BY <1>4, <1>10, <2>1 DEF Within
    <3>2. NameAt(K, c, a, s, e)
      BY <1>1, <1>3, <1>10, <2>1, <3>1 DEF NameAt
    <3>. QED
      BY <1>1, <1>5, <2>1, <3>2, NameReads DEF ReadAs
  <2>2. CASE e > T
    <3>1. PICK N \in Nat : N = Len(s)
      BY DEF Name
    <3>2. CutUpTo(N, L, c)
      BY CutStops
    <3>3. Len(l.name) <= N /\ x.p = l.at /\ l.at <= Len(c) /\ Len(c) < l.end
      BY <1>1, <1>3, <1>8, <1>10, <2>2, <3>1
    <3>4. NameFrom(c)[x].off = Len(c)
      BY <1>7, <3>2, <3>3 DEF CutUpTo
    <3>. QED
      BY <1>1, <1>8, <2>2, <3>4 DEF ReadAs
  <2>. QED
    BY <2>1, <2>2
<1>11. ASSUME e = a + 2,
              NEW l \in L, l.name = s, l.at < 16384, l.end <= a,
              msg[a + 1] = Pointer(l.at)[1], msg[a + 2] = Pointer(l.at)[2]
       PROVE  ReadAs(c, a, s, e)
  <2>1. l.at \in Nat /\ l.end \in Nat
    BY LocIs DEF Sound
  <2>2. CASE e <= T
    <3>1. a + 1 \in 1..T /\ a + 2 \in 1..T
      BY <1>11, <2>2
    <3>2. c[a + 1] = msg[a + 1] /\ c[a + 2] = msg[a + 2]
      BY <1>2, <3>1
    <3>3. l \in K
      BY <1>3, <1>4, <1>11, <2>1 DEF Within
    <3>4. NameAt(K, c, a, s, e)
      BY <1>1, <1>3, <1>11, <2>2, <3>2, <3>3 DEF NameAt
    <3>. QED
      BY <1>1, <1>5, <2>2, <3>4, NameReads DEF ReadAs
  <2>3. CASE e > T /\ a = T
    <3>1. x.p >= Len(c)
      BY <1>1, <1>8, <2>3
    <3>2. Over(c, x)
      BY <3>1 DEF Over
    <3>. QED
      BY <1>1, <1>7, <1>8, <2>3, <3>1, <3>2, Stops DEF ReadAs
  <2>4. CASE e > T /\ a # T
    <3>1. a + 1 = T
      BY <1>3, <1>11, <2>4
    <3>2. PICK d : d = msg[a + 1]
      OBVIOUS
    <3>3. d \in Nat /\ 192 <= d
      <4>1. Leads(Pointer(l.at)[1], Pointer(l.at)[2], l.at)
        BY <1>11, <2>1, PointerIs
      <4>. QED
        BY <1>11, <3>2, <4>1 DEF Leads
    <3>4. c[x.p + 1] = d
      <4>1. a + 1 \in 1..T
        BY <3>1
      <4>. QED
        BY <1>2, <1>8, <3>2, <4>1
    <3>5. x.p + 1 >= Len(c)
      BY <1>1, <1>8, <3>1
    <3>6. d >= 64 /\ d # 0
      BY <3>3
    <3>7. Over(c, x)
      BY <3>4, <3>5, <3>6 DEF Over
    <3>. QED
      BY <1>1, <1>7, <1>8, <2>4, <3>4, <3>6, <3>7, Stops DEF ReadAs
  <2>. QED
    BY <2>2, <2>3, <2>4
<1>. QED
  BY <1>9, <1>10, <1>11 DEF NameAt

(* Nothing is left to read at the end.                                     *)
LEMMA NothingLeft ==
  ASSUME NEW c \in Seq(Byte), NEW p \in Nat, p >= Len(c)
  PROVE  UnpackDomainName(c, p).off = Len(c)
<1>1. PICK x : x = [p |-> p, s |-> <<>>, ptrs |-> 0, ret |-> p]
  OBVIOUS
<1>2. x \in Reading
  <2>1. 0 \in 0..MaxPtr /\ <<>> \in Seq(Byte)
    BY Limits
  <2>. QED
    BY <1>1, <2>1 DEF Reading
<1>3. x.p >= Len(c) /\ UnpackDomainName(c, p) = NameFrom(c)[x]
  BY <1>1 DEF UnpackDomainName
<1>4. Over(c, x)
  BY <1>3 DEF Over
<1>. QED
  BY <1>2, <1>3, <1>4, Stops

-----------------------------------------------------------------------------
(* Reading a record.                                                       *)

(* The places of a record, as numbers.                                     *)
LEMMA PlacesOfRR ==
  ASSUME NEW M, NEW msg \in Seq(Byte), NEW a \in Nat, NEW r \in Record, NEW e \in Nat, NEW o \in Nat,
         NEW at \in [0..Len(r.names) -> Nat], RRParts(M, msg, a, r, e, o, at)
  PROVE  \E n \in 0..2, lp \in Nat, lq \in Nat, i \in Nat, j \in Nat :
           /\ n = Len(r.names) /\ lp = Len(r.pre) /\ lq = Len(r.post)
           /\ n = Layout[r.rt].names /\ lp = Layout[r.rt].pre /\ lq = Layout[r.rt].post
           /\ i = at[0] /\ j = at[n]
           /\ a < o /\ i = o + 10 + lp /\ i <= j /\ j + lq = e /\ e <= Len(msg)
<1>1. PICK n \in Nat, lp \in Nat, lq \in Nat : n = Len(r.names) /\ lp = Len(r.pre) /\ lq = Len(r.post)
  BY RecordIs
<1>2. n \in 0..2
  <2>1. n <= 2
    BY <1>1, RecordIs
  <2>. QED
    BY <2>1
<1>3. n = Layout[r.rt].names /\ lp = Layout[r.rt].pre /\ lq = Layout[r.rt].post
  BY <1>1, RecordIs
<1>4. PICK i \in Nat, j \in Nat : i = at[0] /\ j = at[n]
  <2>1. at \in [0..n -> Nat] /\ 0 \in 0..n /\ n \in 0..n
    BY <1>1
  <2>. QED
    BY <2>1
<1>5. /\ at[0] = o + 10 + Len(r.pre) /\ at[Len(r.names)] + Len(r.post) = e /\ e <= Len(msg)
      /\ at[0] <= at[Len(r.names)]
  <2>1. Len(r.names) \in 0..Len(r.names)
    BY <1>1
  <2>. QED
    BY <2>1, Zenon DEF RRParts
<1>6. a < o
  BY DEF RRParts, NameAt
<1>7. i = o + 10 + lp /\ i <= j /\ j + lq = e /\ e <= Len(msg)
  BY <1>1, <1>4, <1>5
<1>. QED
  BY <1>1, <1>2, <1>3, <1>4, <1>6, <1>7

(* The parts of Rdata behind a header at o: where the names start, the     *)
(* names, and where they end.                                              *)
RdataParts(c, o, rt, p0, n1, n2, ns, p) ==
  /\ p0 = o + 10 + Layout[rt].pre
  /\ n1 = UnpackDomainName(c, p0)
  /\ n2 = UnpackDomainName(c, n1.off)
  /\ ns = SubSeq(<<n1, n2>>, 1, Layout[rt].names)
  /\ p = IF ns = <<>> THEN p0 ELSE ns[Len(ns)].off

(* Rdata, put together from its parts.                                     *)
LEMMA RdataIs ==
  ASSUME NEW c, NEW o, NEW rt, NEW p0, NEW n1, NEW n2, NEW ns, NEW p,
         RdataParts(c, o, rt, p0, n1, n2, ns, p)
  PROVE  Rdata(c, o + 10, rt) =
           IF p0 > Len(c) THEN [off |-> -2, data |-> <<>>]
           ELSE IF p + Layout[rt].post > Len(c) THEN [off |-> Len(c), data |-> <<>>]
           ELSE [off  |-> p + Layout[rt].post,
                 data |-> <<SubSeq(c, o + 10 + 1, p0), [i \in DOMAIN ns |-> ns[i].s],
                            SubSeq(c, p + 1, p + Layout[rt].post)>>]
BY DEF Rdata, RdataParts

(* The first few of two.                                                   *)
LEMMA FirstOfTwo ==
  ASSUME NEW x, NEW y
  PROVE  /\ SubSeq(<<x, y>>, 1, 0) = <<>>
         /\ SubSeq(<<x, y>>, 1, 1) = <<x>>
         /\ SubSeq(<<x, y>>, 1, 2) = <<x, y>>
<1>1. PICK S : x \in S /\ y \in S
  <2>1. x \in {x, y} /\ y \in {x, y}
    OBVIOUS
  <2>. QED
    BY <2>1
<1>2. PICK s \in Seq(S) : s = <<x, y>> /\ Len(s) = 2 /\ s[1] = x /\ s[2] = y
  <2>1. <<x, y>> \in Seq(S) /\ Len(<<x, y>>) = 2 /\ <<x, y>>[1] = x /\ <<x, y>>[2] = y
    BY <1>1
  <2>. QED
    BY <2>1
<1>3. SubSeq(s, 1, 0) = <<>>
  OBVIOUS
<1>4. SubSeq(s, 1, 1) = <<x>>
  <2>1. PICK u : u = SubSeq(s, 1, 1)
    OBVIOUS
  <2>2. u \in Seq(S) /\ Len(u) = 1 /\ u[1] = x
    BY <1>2, <2>1
  <2>3. u = <<x>>
    BY <2>2
  <2>. QED
    BY <2>1, <2>3
<1>5. SubSeq(s, 1, 2) = <<x, y>>
  <2>1. PICK u : u = SubSeq(s, 1, 2)
    OBVIOUS
  <2>2. u \in Seq(S) /\ Len(u) = 2 /\ u[1] = x /\ u[2] = y
    BY <1>2, <2>1
  <2>3. u = <<x, y>>
    BY <2>2
  <2>. QED
    BY <2>1, <2>3
<1>. QED
  BY <1>2, <1>3, <1>4, <1>5

(* The names of the rdata are read, those that were not cut off.           *)
LEMMA RdataNames ==
  ASSUME NEW msg \in Seq(Byte), NEW L, Sound(L, msg), NEW c \in Seq(Byte), Extends(msg, c),
         NEW a \in Nat, NEW r \in Record, ShortIn(r), NEW e \in Nat, NEW o \in Nat,
         NEW at \in [0..Len(r.names) -> Nat], RRParts(L, msg, a, r, e, o, at), at[0] <= Len(c),
         NEW p0, NEW n1, NEW n2, NEW ns, NEW p, RdataParts(c, o, r.rt, p0, n1, n2, ns, p)
  PROVE  /\ p0 = at[0] /\ p \in Nat /\ p <= Len(c)
         /\ DOMAIN ns = 1..Len(r.names)
         /\ at[Len(r.names)] <= Len(c) =>
              p = at[Len(r.names)] /\ \A i \in 1..Len(r.names) : ns[i].s = r.names[i]
<1>1. PICK n \in 0..2, lp \in Nat, lq \in Nat, i \in Nat, j \in Nat :
        /\ n = Len(r.names) /\ lp = Len(r.pre) /\ lq = Len(r.post)
        /\ n = Layout[r.rt].names /\ lp = Layout[r.rt].pre /\ lq = Layout[r.rt].post
        /\ i = at[0] /\ j = at[n]
        /\ a < o /\ i = o + 10 + lp /\ i <= j /\ j + lq = e /\ e <= Len(msg)
  BY PlacesOfRR
<1>2. PICK T \in Nat : T = Len(c)
  OBVIOUS
<1>3. i <= T
  BY <1>1, <1>2
<1>4. p0 = i
  BY <1>1 DEF RdataParts
<1>5. /\ n1 = UnpackDomainName(c, i)
      /\ n2 = UnpackDomainName(c, n1.off)
      /\ ns = SubSeq(<<n1, n2>>, 1, n)
      /\ p = IF ns = <<>> THEN i ELSE ns[Len(ns)].off
  BY <1>1, <1>4 DEF RdataParts
<1>6. ASSUME NEW k \in 1..n, at[k - 1] \in Nat, at[k] \in Nat, at[k - 1] <= T
      PROVE  at[k - 1] < at[k] /\ r.names[k] \in Name /\ ReadAs(c, at[k - 1], r.names[k], at[k])
  <2>1. NameAt(L, msg, at[k - 1], r.names[k], at[k])
    BY <1>1 DEF RRParts, NamesAt
  <2>2. r.names[k] \in Name /\ Short(r.names[k])
    <3>1. PICK s \in Seq(Name) : s = r.names
      BY RecordIs
    <3>2. k \in 1..Len(s)
      BY <1>1, <3>1
    <3>3. s[k] \in Name
      BY <3>2
    <3>4. Short(r.names[k])
      BY <3>1, <3>2 DEF ShortIn
    <3>. QED
      BY <3>1, <3>3, <3>4
  <2>3. ReadAs(c, at[k - 1], r.names[k], at[k])
    BY <1>2, <1>6, <2>1, <2>2, CutReads
  <2>. QED
    BY <2>1, <2>2, <2>3 DEF NameAt
<1>7. at \in [0..n -> Nat]
  BY <1>1
<1>8. CASE n = 0
  <2>1. ns = <<>>
    BY <1>5, <1>8, FirstOfTwo
  <2>2. p = i /\ j = i
    BY <1>1, <1>5, <1>8, <2>1
  <2>. QED
    BY <1>1, <1>2, <1>3, <1>4, <1>8, <2>1, <2>2
<1>9. ASSUME 1 <= n
      PROVE  \E f \in Nat : /\ f = at[1] /\ i < f
                            /\ f <= T => n1 = [s |-> r.names[1], off |-> f]
                            /\ f > T => n1.off = T
  <2>1. 1 \in 1..n /\ 0 \in 0..n /\ 1 \in 0..n /\ 1 - 1 = 0
    BY <1>9
  <2>2. PICK f \in Nat : f = at[1]
    BY <1>7, <2>1
  <2>3. i < f /\ ReadAs(c, i, r.names[1], f)
    <3>1. at[1 - 1] = i
      BY <1>1, <2>1
    <3>2. at[1 - 1] \in Nat /\ at[1] \in Nat /\ at[1 - 1] <= T
      BY <1>3, <2>2, <3>1
    <3>. QED
      BY <1>6, <2>1, <2>2, <3>1, <3>2
  <2>. QED
    BY <1>2, <1>5, <2>2, <2>3 DEF ReadAs
<1>10. CASE n = 1
  <2>1. PICK f \in Nat : /\ f = at[1] /\ i < f
                         /\ f <= T => n1 = [s |-> r.names[1], off |-> f]
                         /\ f > T => n1.off = T
    BY <1>9, <1>10
  <2>2. ns = <<n1>>
    BY <1>5, <1>10, FirstOfTwo
  <2>3. p = n1.off /\ DOMAIN ns = 1..1 /\ ns[1] = n1 /\ j = f
    BY <1>1, <1>5, <1>10, <2>1, <2>2
  <2>4. CASE f <= T
    <3>1. n1.s = r.names[1] /\ n1.off = f
      BY <2>1, <2>4
    <3>2. p = f
      BY <2>3, <3>1
    <3>3. \A k \in 1..1 : ns[k].s = r.names[k]
      BY <2>3, <3>1
    <3>. QED
      BY <1>1, <1>2, <1>4, <1>10, <2>3, <2>4, <3>2, <3>3
  <2>5. CASE f > T
    <3>1. p = T
      BY <2>1, <2>3, <2>5
    <3>2. ~(at[Len(r.names)] <= Len(c))
      BY <1>1, <1>2, <2>3, <2>5
    <3>. QED
      BY <1>1, <1>2, <1>4, <1>10, <2>3, <3>1, <3>2
  <2>. QED
    BY <2>4, <2>5
<1>11. CASE n = 2
  <2>1. PICK f \in Nat : /\ f = at[1] /\ i < f
                         /\ f <= T => n1 = [s |-> r.names[1], off |-> f]
                         /\ f > T => n1.off = T
    BY <1>9, <1>11
  <2>2. ns = <<n1, n2>>
    BY <1>5, <1>11, FirstOfTwo
  <2>3. p = n2.off /\ DOMAIN ns = 1..2 /\ ns[1] = n1 /\ ns[2] = n2
    <3>1. Len(ns) = 2 /\ ns # <<>> /\ DOMAIN ns = 1..2 /\ ns[1] = n1 /\ ns[2] = n2
      BY <2>2
    <3>2. p = ns[Len(ns)].off
      BY <1>5, <3>1
    <3>. QED
      BY <3>1, <3>2
  <2>4. ASSUME f <= T
        PROVE  f < j /\ ReadAs(c, f, r.names[2], j)
    <3>1. 2 \in 1..n /\ 2 - 1 = 1 /\ j = at[2]
      BY <1>1, <1>11
    <3>2. at[2 - 1] \in Nat /\ at[2] \in Nat /\ at[2 - 1] <= T
      BY <2>1, <2>4, <3>1
    <3>. QED
      BY <1>6, <2>1, <3>1, <3>2
  <2>5. CASE f <= T /\ j <= T
    <3>1. n1.s = r.names[1] /\ n1.off = f
      BY <2>1, <2>5
    <3>2. n2 = [s |-> r.names[2], off |-> j]
      BY <1>2, <1>5, <2>4, <2>5, <3>1 DEF ReadAs
    <3>3. n2.s = r.names[2] /\ n2.off = j
      BY <3>2
    <3>4. \A k \in 1..2 : ns[k].s = r.names[k]
      BY <2>3, <3>1, <3>3
    <3>5. p = j
      BY <2>3, <3>3
    <3>. QED
      BY <1>1, <1>2, <1>4, <1>11, <2>3, <2>5, <3>4, <3>5
  <2>6. CASE f <= T /\ j > T
    <3>1. n1.off = f
      BY <2>1, <2>6
    <3>2. n2.off = T
      BY <1>2, <1>5, <2>4, <2>6, <3>1 DEF ReadAs
    <3>3. ~(at[Len(r.names)] <= Len(c))
      BY <1>1, <1>2, <2>6
    <3>. QED
      BY <1>1, <1>2, <1>4, <1>11, <2>3, <3>2, <3>3
  <2>7. CASE f > T
    <3>1. n2.off = T
      BY <1>2, <1>5, <2>1, <2>7, NothingLeft
    <3>2. f < j \/ j > T
      <4>1. NameAt(L, msg, at[2 - 1], r.names[2], at[2])
        <5>1. 2 \in 1..Len(r.names)
          BY <1>1, <1>11
        <5>. QED
          BY <5>1 DEF RRParts, NamesAt
      <4>2. at[2 - 1] = f /\ at[2] = j
        BY <1>1, <1>11, <2>1
      <4>. QED
        BY <4>1, <4>2 DEF NameAt
    <3>3. ~(at[Len(r.names)] <= Len(c))
      <4>1. j > T
        BY <2>7, <3>2
      <4>. QED
        BY <1>1, <1>2, <4>1
    <3>. QED
      BY <1>1, <1>2, <1>4, <1>11, <2>3, <3>1, <3>3
  <2>. QED
    BY <2>5, <2>6, <2>7
<1>. QED
  BY <1>8, <1>10, <1>11

Lies(s, c, b, e) == e = b + Len(s) /\ e <= Len(c) /\ \A k \in 1..Len(s) : c[b + k] = s[k]

(* Octets that are cut out where others were put in are those.             *)
LEMMA CutOut ==
  ASSUME NEW c \in Seq(Byte), NEW s \in Seq(Byte), NEW b \in Nat, NEW e \in Nat, Lies(s, c, b, e)
  PROVE  SubSeq(c, b + 1, e) = s
<1>1. PICK n \in Nat : n = Len(s)
  OBVIOUS
<1>2. e = b + n /\ e <= Len(c) /\ \A k \in 1..n : c[b + k] = s[k]
  BY <1>1 DEF Lies
<1>3. PICK u : u = SubSeq(c, b + 1, e)
  OBVIOUS
<1>4. u \in Seq(Byte) /\ Len(u) = n /\ \A k \in 1..n : u[k] = c[b + k]
  BY <1>2, <1>3
<1>5. \A k \in 1..n : u[k] = s[k]
  BY <1>2, <1>4
<1>6. u = s
  BY <1>1, <1>4, <1>5
<1>. QED
  BY <1>3, <1>6

NothingBehind(c, e) == Len(c) = e

(* The rdata of a record that is all there, and nothing behind it.         *)
LEMMA RdataWhole ==
  ASSUME NEW msg \in Seq(Byte), NEW L, Sound(L, msg), NEW c \in Seq(Byte), Extends(msg, c),
         NEW a \in Nat, NEW r \in Record, ShortIn(r), NEW e \in Nat, NEW o \in Nat,
         NEW at \in [0..Len(r.names) -> Nat], RRParts(L, msg, a, r, e, o, at), NothingBehind(c, e)
  PROVE  Rdata(c, o + 10, r.rt) = [off |-> e, data |-> <<r.pre, r.names, r.post>>]
<1>1. PICK n \in 0..2, lp \in Nat, lq \in Nat, i \in Nat, j \in Nat :
        /\ n = Len(r.names) /\ lp = Len(r.pre) /\ lq = Len(r.post)
        /\ n = Layout[r.rt].names /\ lp = Layout[r.rt].pre /\ lq = Layout[r.rt].post
        /\ i = at[0] /\ j = at[n]
        /\ a < o /\ i = o + 10 + lp /\ i <= j /\ j + lq = e /\ e <= Len(msg)
  BY PlacesOfRR
<1>2. PICK p0, n1, n2, ns, p : RdataParts(c, o, r.rt, p0, n1, n2, ns, p)
  BY DEF RdataParts
<1>0. PICK T \in Nat : T = Len(c) /\ o + 10 + lp <= T /\ j + lq = T
  <2>1. Len(c) = e
    BY DEF NothingBehind
  <2>. QED
    BY <1>1, <2>1, SMTT(30)
<1>3. at[0] <= Len(c) /\ at[Len(r.names)] <= Len(c)
  BY <1>0, <1>1, SMTT(30)
<1>4. /\ p0 = at[0] /\ DOMAIN ns = 1..Len(r.names)
      /\ p = at[Len(r.names)] /\ \A k \in 1..Len(r.names) : ns[k].s = r.names[k]
  <2>1. at[0] <= Len(c)
    BY <1>3
  <2>2. /\ p0 = at[0] /\ p \in Nat /\ p <= Len(c)
        /\ DOMAIN ns = 1..Len(r.names)
        /\ at[Len(r.names)] <= Len(c) =>
             p = at[Len(r.names)] /\ \A k \in 1..Len(r.names) : ns[k].s = r.names[k]
    BY <1>2, <2>1, RdataNames
  <2>. QED
    BY <1>3, <2>2
<1>5. p0 = i /\ p = j /\ DOMAIN ns = 1..n /\ \A k \in 1..n : ns[k].s = r.names[k]
  BY <1>1, <1>4
<1>6. Rdata(c, o + 10, r.rt) =
        [off  |-> j + lq,
         data |-> <<SubSeq(c, o + 10 + 1, i), [k \in DOMAIN ns |-> ns[k].s],
                    SubSeq(c, j + 1, j + lq)>>]
  <2>1. ~(i > Len(c)) /\ ~(j + lq > Len(c))
    BY <1>0, <1>1
  <2>2. lq = Layout[r.rt].post
    BY <1>1
  <2>3. Rdata(c, o + 10, r.rt) =
          IF p0 > Len(c) THEN [off |-> -2, data |-> <<>>]
          ELSE IF p + Layout[r.rt].post > Len(c) THEN [off |-> Len(c), data |-> <<>>]
          ELSE [off  |-> p + Layout[r.rt].post,
                data |-> <<SubSeq(c, o + 10 + 1, p0), [k \in DOMAIN ns |-> ns[k].s],
                           SubSeq(c, p + 1, p + Layout[r.rt].post)>>]
    BY <1>2, RdataIs, ZenonT(30)
  <2>. QED
    BY <1>5, <2>1, <2>2, <2>3
<1>7. \A k \in 1..Len(c) : c[k] = msg[k]
  BY DEF Extends
<1>8. SubSeq(c, o + 10 + 1, i) = r.pre
  <2>1. PICK b \in Nat : b = o + 10
    OBVIOUS
  <2>2. r.pre \in Seq(Byte)
    BY RecordIs
  <2>3. ASSUME NEW k \in 1..lp PROVE c[b + k] = r.pre[k]
    <3>1. b + k \in 1..Len(c)
      <4>1. b + k \in 1..T
        BY <1>0, <2>1
      <4>. QED
        BY <1>0, <4>1
    <3>2. \A x \in 1..Len(r.pre) : msg[o + 10 + x] = r.pre[x]
      BY DEF RRParts
    <3>3. msg[b + k] = r.pre[k]
      BY <1>1, <2>1, <3>2
    <3>. QED
      BY <1>7, <3>1, <3>3
  <2>4. Lies(r.pre, c, b, i)
    BY <1>0, <1>1, <2>1, <2>3 DEF Lies
  <2>. QED
    BY <2>1, <2>2, <2>4, CutOut
<1>9. SubSeq(c, j + 1, j + lq) = r.post
  <2>1. r.post \in Seq(Byte)
    BY RecordIs
  <2>2. ASSUME NEW k \in 1..lq PROVE c[j + k] = r.post[k]
    <3>1. j + k \in 1..Len(c)
      <4>1. j + k \in 1..T
        BY <1>0
      <4>. QED
        BY <1>0, <4>1
    <3>2. \A x \in 1..Len(r.post) : msg[at[Len(r.names)] + x] = r.post[x]
      BY DEF RRParts
    <3>3. msg[j + k] = r.post[k]
      BY <1>1, <3>2
    <3>. QED
      BY <1>7, <3>1, <3>3
  <2>3. PICK d \in Nat : d = j + lq
    OBVIOUS
  <2>4. d = j + Len(r.post) /\ d <= Len(c)
    BY <1>0, <1>1, <2>3
  <2>5. \A k \in 1..Len(r.post) : c[j + k] = r.post[k]
    BY <1>1, <2>2
  <2>6. Lies(r.post, c, j, d)
    BY <2>4, <2>5 DEF Lies
  <2>. QED
    BY <2>1, <2>3, <2>6, CutOut
<1>10. [k \in DOMAIN ns |-> ns[k].s] = r.names
  <2>1. PICK s \in Seq(Name) : s = r.names
    BY RecordIs
  <2>2. s = [k \in 1..n |-> s[k]]
    <3>1. s = [k \in 1..Len(s) |-> s[k]]
      OBVIOUS
    <3>2. n = Len(s)
      BY <1>1, <2>1
    <3>. QED
      BY <3>1, <3>2
  <2>3. [k \in DOMAIN ns |-> ns[k].s] = [k \in 1..n |-> s[k]]
    BY <1>5, <2>1
  <2>. QED
    BY <2>1, <2>2, <2>3
<1>. QED
  BY <1>1, <1>6, <1>8, <1>9, <1>10

(* What is cut off of the rdata leaves its end unreached.                  *)
LEMMA RdataCut ==
  ASSUME NEW msg \in Seq(Byte), NEW L, Sound(L, msg), NEW c \in Seq(Byte), Extends(msg, c),
         NEW a \in Nat, NEW r \in Record, ShortIn(r), NEW e \in Nat, NEW o \in Nat,
         NEW at \in [0..Len(r.names) -> Nat], RRParts(L, msg, a, r, e, o, at), Len(c) < e,
         NEW d, d = Rdata(c, o + 10, r.rt)
  PROVE  d.off = -2 \/ (d.off # -2 /\ d.off # e)
<1>1. PICK n \in 0..2, lp \in Nat, lq \in Nat, i \in Nat, j \in Nat :
        /\ n = Len(r.names) /\ lp = Len(r.pre) /\ lq = Len(r.post)
        /\ n = Layout[r.rt].names /\ lp = Layout[r.rt].pre /\ lq = Layout[r.rt].post
        /\ i = at[0] /\ j = at[n]
        /\ a < o /\ i = o + 10 + lp /\ i <= j /\ j + lq = e /\ e <= Len(msg)
  BY PlacesOfRR
<1>2. PICK p0, n1, n2, ns, p : RdataParts(c, o, r.rt, p0, n1, n2, ns, p)
  BY DEF RdataParts
<1>3. p0 = i
  BY <1>1, <1>2 DEF RdataParts
<1>4. d = IF i > Len(c) THEN [off |-> -2, data |-> <<>>]
          ELSE IF p + lq > Len(c) THEN [off |-> Len(c), data |-> <<>>]
          ELSE [off  |-> p + lq,
                data |-> <<SubSeq(c, o + 10 + 1, i), [k \in DOMAIN ns |-> ns[k].s],
                           SubSeq(c, p + 1, p + lq)>>]
  <2>1. lq = Layout[r.rt].post
    BY <1>1
  <2>2. Rdata(c, o + 10, r.rt) =
          IF p0 > Len(c) THEN [off |-> -2, data |-> <<>>]
          ELSE IF p + Layout[r.rt].post > Len(c) THEN [off |-> Len(c), data |-> <<>>]
          ELSE [off  |-> p + Layout[r.rt].post,
                data |-> <<SubSeq(c, o + 10 + 1, p0), [k \in DOMAIN ns |-> ns[k].s],
                           SubSeq(c, p + 1, p + Layout[r.rt].post)>>]
    BY <1>2, RdataIs
  <2>. QED
    BY <1>3, <2>1, <2>2
<1>5. CASE i > Len(c)
  BY <1>4, <1>5
<1>6. CASE i <= Len(c)
  <2>1. p \in Nat /\ p <= Len(c)
    <3>1. at[0] <= Len(c)
      BY <1>1, <1>6
    <3>. QED
      BY <1>2, <3>1, RdataNames
  <2>2. d.off = Len(c) \/ (p + lq <= Len(c) /\ d.off = p + lq)
    BY <1>4, <1>6, <2>1
  <2>3. Len(c) # -2 /\ p + lq # -2
    BY <2>1
  <2>. QED
    BY <2>1, <2>2, <2>3
<1>. QED
  BY <1>1, <1>5, <1>6

(* No two types have the same code.                                        *)
LEMMA CodesDiffer ==
  ASSUME NEW t \in DOMAIN Layout, NEW u \in DOMAIN Layout, Layout[t].code = Layout[u].code
  PROVE  t = u
<1>1. /\ Layout["A"].code = 1 /\ Layout["NS"].code = 2 /\ Layout["CNAME"].code = 5
      /\ Layout["SOA"].code = 6 /\ Layout["MX"].code = 15 /\ Layout["TXT"].code = 16
      /\ Layout["AAAA"].code = 28
  BY DEF Layout
<1>2. DOMAIN Layout = {"A", "NS", "CNAME", "SOA", "MX", "TXT", "AAAA"}
  BY DEF Layout
<1>. QED
  BY <1>1, <1>2

(* The smaller of two.                                                     *)
LEMMA MinOfTwo ==
  ASSUME NEW a \in Nat, NEW b \in Nat
  PROVE  /\ a <= b => Min({a, b}) = a
         /\ b <= a => Min({a, b}) = b
<1>1. PICK S : S = {a, b}
  OBVIOUS
<1>2. S \in SUBSET Nat /\ S # {}
  BY <1>1
<1>3. Min(S) \in S /\ \A k \in S : Min(S) <= k
  BY <1>2, MinIs
<1>4. PICK m : m = Min(S)
  OBVIOUS
<1>5. (m = a \/ m = b) /\ m <= a /\ m <= b
  BY <1>1, <1>3, <1>4
<1>6. (a <= b => m = a) /\ (b <= a => m = b)
  BY <1>5
<1>. QED
  BY <1>1, <1>4, <1>6

(* The header of a record is read, or what there is left ends before it    *)
(* does.                                                                   *)
LEMMA HeadReads ==
  ASSUME NEW msg \in Seq(Byte), NEW L, Sound(L, msg), NEW c \in Seq(Byte), Extends(msg, c),
         NEW a \in Nat, a < Len(c), NEW r \in Record, ShortIn(r), NEW e \in Nat, Small(e),
         NEW o \in Nat, NEW at \in [0..Len(r.names) -> Nat], RRParts(L, msg, a, r, e, o, at)
  PROVE  /\ o + 10 > Len(c) => Overruns(c, a)
         /\ o + 10 <= Len(c) =>
              /\ ~Overruns(c, a)
              /\ HeaderAt(c, a) =
                   [name |-> r.name, start |-> o + 10, types |-> {r.rt} \cap Known, end |-> e]
<1>1. PICK n \in 0..2, lp \in Nat, lq \in Nat, i \in Nat, j \in Nat :
        /\ n = Len(r.names) /\ lp = Len(r.pre) /\ lq = Len(r.post)
        /\ n = Layout[r.rt].names /\ lp = Layout[r.rt].pre /\ lq = Layout[r.rt].post
        /\ i = at[0] /\ j = at[n]
        /\ a < o /\ i = o + 10 + lp /\ i <= j /\ j + lq = e /\ e <= Len(msg)
  BY PlacesOfRR
<1>2. PICK T \in Nat : T = Len(c)
  OBVIOUS
<1>3. T <= Len(msg) /\ \A k \in 1..T : c[k] = msg[k]
  BY <1>2 DEF Extends
<1>4. ReadAs(c, a, r.name, o)
  <2>1. NameAt(L, msg, a, r.name, o) /\ Short(r.name) /\ r.name \in Name /\ a <= Len(c)
    BY RecordIs DEF RRParts, ShortIn
  <2>. QED
    BY <2>1, CutReads
<1>5. PICK u : u = UnpackDomainName(c, a)
  OBVIOUS
<1>6. o <= T => u = [s |-> r.name, off |-> o]
  BY <1>2, <1>4, <1>5 DEF ReadAs
<1>7. o > T => u.off = T
  BY <1>2, <1>4, <1>5 DEF ReadAs
<1>8. CASE o + 10 > T
  <2>1. u.off + 10 > T
    BY <1>6, <1>7, <1>8
  <2>. QED
    BY <1>2, <1>5, <1>8, <2>1 DEF Overruns
<1>9. CASE o + 10 <= T
  <2>1. u = [s |-> r.name, off |-> o] /\ u.off = o /\ u.s = r.name
    BY <1>6, <1>9
  <2>2. ~Overruns(c, a)
    BY <1>2, <1>5, <1>9, <2>1 DEF Overruns
  <2>3. PICK d \in Nat : d = Layout[r.rt].code
    <3>1. Layout[r.rt].code \in Byte
      BY RecordIs
    <3>. QED
      BY <3>1, ByteIs
  <2>4. At16(c, o) = d
    <3>1. o + 1 \in 1..T /\ o + 2 \in 1..T
      BY <1>9
    <3>2. c[o + 1] = msg[o + 1] /\ c[o + 2] = msg[o + 2]
      BY <1>3, <3>1
    <3>3. msg[o + 1] = 0 /\ msg[o + 2] = Layout[r.rt].code
      BY DEF RRParts
    <3>4. c[o + 1] = 0 /\ c[o + 2] = d
      BY <2>3, <3>2, <3>3
    <3>. QED
      BY <3>4 DEF At16
  <2>5. PICK q \in Nat : q = e - (o + 10) /\ q <= 65535 /\ o + 10 + q = e
    <3>1. o + 10 <= e
      <4>1. i = o + 10 + lp /\ i <= j /\ j + lq = e
        BY <1>1
      <4>. QED
        BY <4>1
    <3>2. e <= 65535
      BY DEF Small
    <3>3. e - (o + 10) \in Nat /\ o + 10 + (e - (o + 10)) = e /\ e - (o + 10) <= e
      BY <3>1
    <3>4. e - (o + 10) <= 65535
      BY <3>2, <3>3
    <3>. QED
      BY <3>3, <3>4
  <2>6. At16(c, o + 8) = q
    <3>1. o + 8 + 1 \in 1..T /\ o + 8 + 2 \in 1..T
      BY <1>9
    <3>2. At16(c, o + 8) = At16(msg, o + 8)
      BY <1>3, <3>1 DEF At16
    <3>3. Tells(msg, o + 8, e - (o + 10))
      BY DEF RRParts
    <3>4. At16(msg, o + 8) = q
      BY <2>5, <3>3 DEF Tells
    <3>. QED
      BY <3>2, <3>4
  <2>7. {t \in Known : Layout[t].code = d} = {r.rt} \cap Known
    <3>1. r.rt \in DOMAIN Layout
      BY RecordIs
    <3>2. \A t \in Known : t \in DOMAIN Layout
      BY DEF Known
    <3>3. \A t \in Known : Layout[t].code = Layout[r.rt].code => t = r.rt
      BY <3>1, <3>2, CodesDiffer
    <3>. QED
      BY <2>3, <3>3
  <2>8. HeaderAt(c, a) = [name |-> u.s, start |-> u.off + 10,
                          types |-> {t \in Known : Layout[t].code = At16(c, u.off)},
                          end |-> u.off + 10 + At16(c, u.off + 8)]
    BY <1>5 DEF HeaderAt
  <2>9. HeaderAt(c, a) = [name |-> r.name, start |-> o + 10, types |-> {r.rt} \cap Known, end |-> e]
    <3>1. {t \in Known : Layout[t].code = At16(c, u.off)} = {r.rt} \cap Known
      BY <2>1, <2>4, <2>7
    <3>2. u.off + 10 = o + 10 /\ u.s = r.name
      BY <2>1
    <3>3. u.off + 10 + At16(c, u.off + 8) = e
      BY <2>1, <2>5, <2>6
    <3>. QED
      BY <2>8, <3>1, <3>2, <3>3, Zenon
  <2>. QED
    BY <1>2, <1>9, <2>2, <2>9
<1>. QED
  BY <1>2, <1>8, <1>9

(* The parts of UnpackRR when the header is there.                         *)
RRReadParts(c, a, h, body, t, d) ==
  /\ h = HeaderAt(c, a)
  /\ body = SubSeq(c, 1, Min({h.end, Len(c)}))
  /\ t = CHOOSE x \in h.types : TRUE
  /\ d = Rdata(body, h.start, t)

(* UnpackRR, put together from its parts.                                  *)
LEMMA UnpackRRIs ==
  ASSUME NEW c, NEW a, a # Len(c), a # -1, ~Overruns(c, a),
         NEW h, NEW body, NEW t, NEW d, RRReadParts(c, a, h, body, t, d)
  PROVE  UnpackRR(c, a) =
           IF h.types = {} THEN NotFound
           ELSE IF d.off = -2 THEN Crash
           ELSE IF d.off # h.end THEN Bare(h.end)
           ELSE [off |-> h.end,
                 rr  |-> [rt |-> t, name |-> h.name, pre |-> d.data[1],
                          names |-> d.data[2], post |-> d.data[3]]]
BY DEF UnpackRR, RRReadParts

(* What UnpackRR makes of the first octets of a message at a record that   *)
(* goes to e.                                                              *)
ReadRRAs(x, r, e, T) ==
  \/ x = Crash
  \/ r.rt \notin Known /\ x = NotFound
  \/ r.rt \in Known /\ e > T /\ x = Bare(e)
  \/ r.rt \in Known /\ e <= T /\ x = [off |-> e, rr |-> r]

(* A record is read as it was written, or not at all.                      *)
LEMMA RRReads ==
  ASSUME NEW msg \in Seq(Byte), NEW L, Sound(L, msg), NEW c \in Seq(Byte), Extends(msg, c),
         NEW a \in Nat, a < Len(c), NEW r \in Record, ShortIn(r), NEW e \in Nat, Small(e),
         RRAt(L, msg, a, r, e)
  PROVE  ReadRRAs(UnpackRR(c, a), r, e, Len(c))
<1>1. PICK o \in Nat, at \in [0..Len(r.names) -> Nat] : RRParts(L, msg, a, r, e, o, at)
  BY DEF RRAt
<1>2. PICK T \in Nat : T = Len(c)
  OBVIOUS
<1>3. a # Len(c) /\ a # -1
  OBVIOUS
<1>4. CASE o + 10 > T
  <2>1. Overruns(c, a)
    BY <1>1, <1>2, <1>4, HeadReads
  <2>. QED
    BY <1>3, <2>1 DEF UnpackRR, ReadRRAs
<1>5. CASE o + 10 <= T
  <2>1. ~Overruns(c, a)
    BY <1>1, <1>2, <1>5, HeadReads
  <2>2. PICK h, body, t, d : RRReadParts(c, a, h, body, t, d)
    <3>1. PICK h : h = HeaderAt(c, a)
      OBVIOUS
    <3>2. PICK body : body = SubSeq(c, 1, Min({h.end, Len(c)}))
      OBVIOUS
    <3>3. PICK t : t = CHOOSE x \in h.types : TRUE
      OBVIOUS
    <3>4. PICK d : d = Rdata(body, h.start, t)
      OBVIOUS
    <3>. QED
      BY <3>1, <3>2, <3>3, <3>4, Zenon DEF RRReadParts
  <2>3. HeaderAt(c, a) = [name |-> r.name, start |-> o + 10, types |-> {r.rt} \cap Known, end |-> e]
    BY <1>1, <1>2, <1>5, HeadReads
  <2>4. h.name = r.name /\ h.start = o + 10 /\ h.types = {r.rt} \cap Known /\ h.end = e
    BY <2>2, <2>3 DEF RRReadParts
  <2>5. UnpackRR(c, a) =
          IF h.types = {} THEN NotFound
          ELSE IF d.off = -2 THEN Crash
          ELSE IF d.off # h.end THEN Bare(h.end)
          ELSE [off |-> h.end,
                rr  |-> [rt |-> t, name |-> h.name, pre |-> d.data[1],
                         names |-> d.data[2], post |-> d.data[3]]]
    BY <1>3, <2>1, <2>2, UnpackRRIs
  <2>6. CASE r.rt \notin Known
    <3>1. h.types = {}
      BY <2>4, <2>6
    <3>. QED
      BY <2>5, <2>6, <3>1 DEF ReadRRAs
  <2>7. CASE r.rt \in Known
    <3>1. h.types = {r.rt}
      BY <2>4, <2>7
    <3>2. t = r.rt
      BY <2>2, <3>1 DEF RRReadParts
    <3>3. d = Rdata(body, o + 10, r.rt) /\ body = SubSeq(c, 1, Min({e, T}))
      <4>1. d = Rdata(body, h.start, t) /\ body = SubSeq(c, 1, Min({h.end, Len(c)}))
        BY <2>2, Zenon DEF RRReadParts
      <4>. QED
        BY <1>2, <2>4, <3>2, <4>1, Zenon
    <3>4. h.types # {}
      BY <3>1
    <3>5. T <= Len(msg) /\ \A k \in 1..T : c[k] = msg[k]
      BY <1>2 DEF Extends
    <3>6. CASE e <= T
      <4>1. body = SubSeq(c, 1, e)
        BY <3>3, <3>6, MinOfTwo
      <4>2. body \in Seq(Byte) /\ Len(body) = e /\ \A k \in 1..e : body[k] = c[k]
        BY <1>2, <3>6, <4>1
      <4>3. Extends(msg, body) /\ NothingBehind(body, e)
        BY <3>5, <3>6, <4>2 DEF Extends, NothingBehind
      <4>4. d = [off |-> e, data |-> <<r.pre, r.names, r.post>>]
        <5>1. Rdata(body, o + 10, r.rt) = [off |-> e, data |-> <<r.pre, r.names, r.post>>]
          BY <1>1, <4>2, <4>3, RdataWhole
        <5>. QED
          BY <3>3, <5>1
      <4>5. /\ d.off = h.end /\ d.off # -2
            /\ d.data[1] = r.pre /\ d.data[2] = r.names /\ d.data[3] = r.post
        BY <2>4, <4>4
      <4>6. UnpackRR(c, a) = [off |-> h.end,
                              rr  |-> [rt |-> t, name |-> h.name, pre |-> d.data[1],
                                       names |-> d.data[2], post |-> d.data[3]]]
        BY <2>5, <3>4, <4>5
      <4>7. [rt |-> r.rt, name |-> r.name, pre |-> r.pre, names |-> r.names, post |-> r.post] = r
        <5>1. r \in [rt : DOMAIN Layout, name : Name, pre : Seq(Byte), names : Seq(Name), post : Seq(Byte)]
          BY DEF Record
        <5>. QED
          BY <5>1
      <4>8. UnpackRR(c, a) = [off |-> e, rr |-> r]
        BY <2>4, <3>2, <4>5, <4>6, <4>7
      <4>. QED
        BY <1>2, <2>7, <3>6, <4>8 DEF ReadRRAs
    <3>7. CASE e > T
      <4>1. body = SubSeq(c, 1, T)
        <5>1. T <= e
          BY <3>7
        <5>2. Min({e, T}) = T
          BY <5>1, MinOfTwo
        <5>. QED
          BY <3>3, <5>2
      <4>2. body \in Seq(Byte) /\ Len(body) = T /\ \A k \in 1..T : body[k] = c[k]
        BY <1>2, <4>1
      <4>3. Extends(msg, body) /\ Len(body) < e
        BY <3>5, <3>7, <4>2 DEF Extends
      <4>4. d.off = -2 \/ (d.off # -2 /\ d.off # e)
        <5>1. d = Rdata(body, o + 10, r.rt)
          BY <3>3
        <5>. QED
          BY <1>1, <4>2, <4>3, <5>1, RdataCut, SMTT(30)
      <4>5. UnpackRR(c, a) = Crash \/ UnpackRR(c, a) = Bare(e)
        BY <2>4, <2>5, <3>4, <4>4
      <4>. QED
        BY <1>2, <2>7, <3>7, <4>5 DEF ReadRRAs
    <3>. QED
      BY <3>6, <3>7
  <2>. QED
    BY <2>6, <2>7
<1>. QED
  BY <1>4, <1>5

(* Behind the end there is nothing to read.                                *)
LEMMA NoRR ==
  ASSUME NEW c \in Seq(Byte), NEW p \in Nat \cup {-1}, p = -1 \/ p >= Len(c)
  PROVE  UnpackRR(c, p) = IF p = Len(c) THEN NotFound ELSE Crash
<1>1. CASE p = Len(c)
  BY <1>1 DEF UnpackRR
<1>2. CASE p = -1
  BY <1>2 DEF UnpackRR
<1>3. CASE p # Len(c) /\ p # -1
  <2>1. p \in Nat /\ p >= Len(c)
    BY <1>3
  <2>2. UnpackDomainName(c, p).off = Len(c)
    BY <2>1, NothingLeft
  <2>3. Overruns(c, p)
    BY <2>2 DEF Overruns
  <2>. QED
    BY <1>3, <2>3 DEF UnpackRR
<1>. QED
  BY <1>1, <1>2, <1>3

-----------------------------------------------------------------------------
(* Reading a message.                                                      *)

(* How many records come before a section.                                 *)
Before(m, k) ==
  IF k = 1 THEN 0 ELSE IF k = 2 THEN Len(m.rrs[1]) ELSE Len(m.rrs[1]) + Len(m.rrs[2])

(* The records of the sections are those of the message.                   *)
LEMMA SectionsAre ==
  ASSUME NEW m \in Msgs, NEW k \in 1..3
  PROVE  /\ Before(m, k) \in Nat /\ Len(m.rrs[k]) \in Nat /\ Len(Records(m)) \in Nat
         /\ Before(m, k) + Len(m.rrs[k]) <= Len(Records(m))
         /\ k < 3 => Before(m, k + 1) = Before(m, k) + Len(m.rrs[k])
         /\ k = 3 => Before(m, k) + Len(m.rrs[k]) = Len(Records(m))
         /\ \A j \in 1..Len(m.rrs[k]) : Records(m)[Before(m, k) + j] = m.rrs[k][j]
<1>1. PICK a \in Seq(Record), b \in Seq(Record), c \in Seq(Record) :
        a = m.rrs[1] /\ b = m.rrs[2] /\ c = m.rrs[3]
  <2>1. 1 \in 1..3 /\ 2 \in 1..3 /\ 3 \in 1..3
    OBVIOUS
  <2>. QED
    BY <2>1, MessageIs
<1>2. PICK la \in Nat, lb \in Nat, lc \in Nat : la = Len(a) /\ lb = Len(b) /\ lc = Len(c)
  OBVIOUS
<1>3. PICK d : d = (a \o b) \o c
  OBVIOUS
<1>4. Records(m) = d
  BY <1>1, <1>3 DEF Records
<1>5. d \in Seq(Record) /\ Len(d) = la + lb + lc
  BY <1>2, <1>3
<1>6. /\ \A j \in 1..la : d[j] = a[j]
      /\ \A j \in 1..lb : d[la + j] = b[j]
      /\ \A j \in 1..lc : d[la + lb + j] = c[j]
  BY <1>2, <1>3
<1>7. CASE k = 1
  <2>1. Before(m, k) = 0 /\ Before(m, k + 1) = la /\ m.rrs[k] = a
    BY <1>1, <1>2, <1>7 DEF Before
  <2>2. \A j \in 1..la : d[0 + j] = a[j]
    BY <1>6
  <2>. QED
    BY <1>2, <1>4, <1>5, <1>7, <2>1, <2>2
<1>8. CASE k = 2
  <2>1. Before(m, k) = la /\ Before(m, k + 1) = la + lb /\ m.rrs[k] = b
    BY <1>1, <1>2, <1>8 DEF Before
  <2>2. Before(m, k) \in Nat /\ Len(m.rrs[k]) = lb /\ Len(Records(m)) = la + lb + lc
    BY <1>2, <1>4, <1>5, <2>1
  <2>3. \A j \in 1..Len(m.rrs[k]) : Records(m)[Before(m, k) + j] = m.rrs[k][j]
    BY <1>2, <1>4, <1>6, <2>1
  <2>4. la + lb <= la + lb + lc /\ la + lb + lc \in Nat
    OBVIOUS
  <2>. QED
    BY <1>8, <2>1, <2>2, <2>3, <2>4
<1>9. CASE k = 3
  <2>1. Before(m, k) = la + lb /\ m.rrs[k] = c
    BY <1>1, <1>2, <1>9 DEF Before
  <2>2. Before(m, k) \in Nat /\ Len(m.rrs[k]) = lc /\ Len(Records(m)) = la + lb + lc
    BY <1>2, <1>4, <1>5, <2>1
  <2>3. \A j \in 1..Len(m.rrs[k]) : Records(m)[Before(m, k) + j] = m.rrs[k][j]
    BY <1>2, <1>4, <1>6, <2>1
  <2>4. la + lb + lc <= la + lb + lc /\ la + lb + lc \in Nat
    OBVIOUS
  <2>. QED
    BY <1>9, <2>1, <2>2, <2>3, <2>4
<1>. QED
  BY <1>7, <1>8, <1>9

(* A message has at most as many records as octets.                        *)
LEMMA FewRecords ==
  ASSUME NEW m \in Msgs
  PROVE  Len(Records(m)) \in Nat /\ LenMsg(m) \in Nat /\ Len(Records(m)) <= LenMsg(m)
<1>1. PICK n \in Nat : n = Len(Records(m))
  BY MessageIs
<1>2. /\ \A i \in 0..n + 1 : Room(m, i) \in Nat
      /\ \A i \in 1..n : Room(m, i + 1) = Room(m, i) + LenRR(Records(m)[i])
      /\ \A i \in 0..n + 1 : Room(m, i) <= LenMsg(m)
      /\ LenMsg(m) \in Nat
  BY <1>1, RoomIs
<1>. DEFINE Good == {i \in 0..n : i <= Room(m, i + 1)}
<1>3. 0 \in Good
  <2>1. 1 \in 0..n + 1 /\ 0 \in 0..n /\ 0 + 1 = 1
    OBVIOUS
  <2>2. Room(m, 1) \in Nat
    BY <1>2, <2>1
  <2>. QED
    BY <2>1, <2>2
<1>4. ASSUME NEW i \in 1..n, i - 1 \in Good PROVE i \in Good
  <2>1. (i - 1) + 1 = i /\ i \in 0..n + 1 /\ i + 1 \in 0..n + 1
    OBVIOUS
  <2>2. i - 1 <= Room(m, i)
    BY <1>4, <2>1
  <2>3. PICK a \in Nat, b \in Nat : a = Room(m, i) /\ b = Room(m, i + 1)
    BY <1>2, <2>1
  <2>4. PICK c \in Nat : c = LenRR(Records(m)[i]) /\ 1 <= c
    <3>1. Records(m)[i] \in Record
      BY <1>1, MessageIs
    <3>. QED
      BY <3>1, LenRRIs
  <2>5. b = a + c
    BY <1>2, <2>3, <2>4
  <2>6. i <= b
    BY <2>2, <2>3, <2>4, <2>5
  <2>. QED
    BY <2>3, <2>6
<1>. HIDE DEF Good
<1>5. \A i \in 0..n : i \in Good
  BY <1>3, <1>4, Upwards
<1>6. n <= Room(m, n + 1)
  BY <1>5 DEF Good
<1>7. PICK a \in Nat, b \in Nat : a = Room(m, n + 1) /\ b = LenMsg(m) /\ a <= b
  <2>1. n + 1 \in 0..n + 1
    OBVIOUS
  <2>. QED
    BY <1>2, <2>1
<1>8. n <= b
  <2>1. n <= a
    BY <1>6, <1>7, Zenon
  <2>2. a <= b
    BY <1>7, Zenon
  <2>. QED
    BY <2>1, <2>2
<1>. QED
  BY <1>1, <1>2, <1>7, <1>8

(* What the question of a message is read as.                              *)
LEMMA QuestionReads ==
  ASSUME NEW msg \in Seq(Byte), NEW L, Sound(L, msg), NEW c \in Seq(Byte), Extends(msg, c),
         NEW a \in Nat, a <= Len(c), NEW s \in Name, Short(s), NEW e \in Nat, QuestionAt(L, msg, a, s, e),
         NEW n, n = UnpackDomainName(c, a)
  PROVE  /\ n.off \in Nat
         /\ e <= Len(c) => n.s = s /\ n.off + 4 = e
         /\ e > Len(c) => Len(c) < n.off + 4
<1>1. PICK o \in Nat : NameAt(L, msg, a, s, o) /\ e = o + 4
  BY DEF QuestionAt
<1>2. ReadAs(c, a, s, o)
  BY <1>1, CutReads
<1>3. PICK T \in Nat : T = Len(c)
  OBVIOUS
<1>4. o <= T => n = [s |-> s, off |-> o]
  BY <1>2, <1>3 DEF ReadAs
<1>5. o > T => n.off = T
  BY <1>2, <1>3 DEF ReadAs
<1>6. CASE o <= T
  <2>1. n.s = s /\ n.off = o
    BY <1>4, <1>6
  <2>. QED
    BY <1>1, <1>3, <2>1
<1>7. CASE o > T
  <2>1. n.off = T
    BY <1>5, <1>7
  <2>2. ~(e <= Len(c)) /\ T < T + 4
    BY <1>1, <1>3, <1>7
  <2>. QED
    BY <1>3, <2>1, <2>2
<1>. QED
  BY <1>6, <1>7

(* The octets c that came of a message m, written as msg.                  *)
Came(M, msg, at, m, c) ==
  /\ msg \in Seq(Byte) /\ Sound(M, msg) /\ Small(Len(msg))
  /\ at \in [0..Len(Records(m)) + 1 -> Nat]
  /\ Laid(M, msg, m, Len(Records(m)) + 1, at)
  /\ c \in Seq(Byte) /\ Extends(msg, c) /\ 12 <= Len(c)
  /\ Len(c) < Len(msg) => Datagram <= Len(c)

(* The counts of the header are those of the sections.                     *)
LEMMA CountIs ==
  ASSUME NEW m \in Msgs, Modest(m), NEW M, NEW msg, NEW at, NEW c, Came(M, msg, at, m, c),
         NEW k \in 1..3
  PROVE  At16(c, 4 + 2 * k) = Len(m.rrs[k])
<1>1. PICK n \in Nat : n = Len(m.rrs[k]) /\ n <= 65535
  <2>1. Before(m, k) + Len(m.rrs[k]) <= Len(Records(m)) /\ Before(m, k) \in Nat /\ Len(m.rrs[k]) \in Nat
    BY SectionsAre
  <2>2. PICK r \in Nat, l \in Nat : r = Len(Records(m)) /\ l = LenMsg(m) /\ r <= l
    BY FewRecords
  <2>3. PICK b \in Nat, n \in Nat : b = Before(m, k) /\ n = Len(m.rrs[k]) /\ b + n <= r
    BY <2>1, <2>2
  <2>4. r <= l /\ b + n <= r /\ l <= 65535
    <3>1. Small(l)
      BY <2>2, Zenon DEF Modest
    <3>2. l <= 65535
      BY <3>1 DEF Small
    <3>3. r <= l /\ b + n <= r
      BY <2>2, <2>3, Zenon
    <3>. QED
      BY <3>2, <3>3
  <2>5. n <= 65535
    BY <2>4
  <2>. QED
    BY <2>3, <2>5
<1>2. PICK h : h = Header(m)
  OBVIOUS
<1>3. \A i \in 1..12 : c[i] = h[i]
  <2>1. Extends(msg, h) /\ Extends(msg, c) /\ 12 <= Len(c) /\ Len(h) = 12 /\ c \in Seq(Byte)
    BY <1>2, HeaderIs DEF Came, Laid
  <2>. QED
    BY <2>1, SMTT(30) DEF Extends
<1>4. /\ \A i \in 1..2 : h[6 + i] = U16(Len(m.rrs[1]))[i]
      /\ \A i \in 1..2 : h[8 + i] = U16(Len(m.rrs[2]))[i]
      /\ \A i \in 1..2 : h[10 + i] = U16(Len(m.rrs[3]))[i]
  BY <1>2, HeaderParts
<1>5. PICK u : u = U16(n)
  OBVIOUS
<1>6. c[4 + 2 * k + 1] = u[1] /\ c[4 + 2 * k + 2] = u[2]
  <2>0. 1 \in 1..2 /\ 2 \in 1..2
    OBVIOUS
  <2>1. CASE k = 1
    <3>1. h[7] = u[1] /\ h[8] = u[2]
      BY <1>1, <1>4, <1>5, <2>0, <2>1
    <3>. QED
      BY <1>3, <2>1, <3>1
  <2>2. CASE k = 2
    <3>1. h[9] = u[1] /\ h[10] = u[2]
      BY <1>1, <1>4, <1>5, <2>0, <2>2
    <3>. QED
      BY <1>3, <2>2, <3>1
  <2>3. CASE k = 3
    <3>1. h[11] = u[1] /\ h[12] = u[2]
      BY <1>1, <1>4, <1>5, <2>0, <2>3
    <3>. QED
      BY <1>3, <2>3, <3>1
  <2>. QED
    BY <2>1, <2>2, <2>3
<1>7. u[1] * 256 + u[2] = n
  <2>1. 0 <= n /\ n <= 65535 => U16(n)[1] * 256 + U16(n)[2] = n
    BY U16Is
  <2>. QED
    BY <1>1, <1>5, <2>1
<1>8. At16(c, 4 + 2 * k) = n
  BY <1>6, <1>7 DEF At16
<1>. QED
  BY <1>1, <1>8

InSection(m, k, j) == k \in 1..3 /\ j \in 1..Len(m.rrs[k])

(* What is read where the record j of section k is.                        *)
LEMMA ItemReads ==
  ASSUME NEW m \in Msgs, Modest(m), NEW M, NEW msg, NEW at, NEW c, Came(M, msg, at, m, c),
         NEW k, NEW j, InSection(m, k, j)
  PROVE  \E i \in 1..Len(Records(m)), a \in Nat, e \in Nat :
           /\ m.rrs[k][j] = Records(m)[i] /\ m.rrs[k][j] \in Record
           /\ a = at[Before(m, k) + j] /\ e = at[Before(m, k) + (j + 1)]
           /\ a < e
           /\ Len(c) < e => Datagram <= Len(c)
           /\ a < Len(c) => ReadRRAs(UnpackRR(c, a), m.rrs[k][j], e, Len(c))
<1>1. PICK b \in Nat, l \in Nat, n \in Nat :
        b = Before(m, k) /\ l = Len(m.rrs[k]) /\ n = Len(Records(m)) /\ b + l <= n
  BY SectionsAre DEF InSection
<1>2. k \in 1..3 /\ j \in 1..Len(m.rrs[k]) /\ j \in 1..l
  BY <1>1 DEF InSection
<1>3. PICK i \in 1..n : i = b + j
  <2>1. b + j \in 1..n
    BY <1>1, <1>2
  <2>. QED
    BY <2>1
<1>4. PICK r : r = m.rrs[k][j]
  OBVIOUS
<1>5. r = Records(m)[i] /\ r \in Record
  <2>1. r = Records(m)[i]
    BY <1>1, <1>2, <1>3, <1>4, SectionsAre
  <2>2. PICK s \in Seq(Record) : s = Records(m)
    BY MessageIs
  <2>3. s[i] \in Record
    BY <1>1, <1>3, <2>2
  <2>. QED
    BY <2>1, <2>2, <2>3
<1>6. PICK a \in Nat, e \in Nat : a = at[i] /\ e = at[i + 1]
  <2>1. i \in 0..n + 1 /\ i + 1 \in 0..n + 1
    BY <1>3
  <2>2. at \in [0..n + 1 -> Nat]
    BY <1>1 DEF Came
  <2>. QED
    BY <2>1, <2>2
<1>7. a = at[Before(m, k) + j] /\ e = at[Before(m, k) + (j + 1)]
  <2>1. i + 1 = b + (j + 1)
    BY <1>2, <1>3
  <2>. QED
    BY <1>1, <1>3, <1>6, <2>1
<1>8. RRAt(M, msg, a, r, e)
  <2>1. Laid(M, msg, m, n + 1, at)
    BY <1>1 DEF Came
  <2>2. i \in 1..(n + 1) - 1
    BY <1>3
  <2>. QED
    BY <1>5, <1>6, <2>1, <2>2 DEF Laid
<1>9. PICK o \in Nat, w \in [0..Len(r.names) -> Nat] : RRParts(M, msg, a, r, e, o, w)
  BY <1>8 DEF RRAt
<1>10. msg \in Seq(Byte) /\ Sound(M, msg) /\ c \in Seq(Byte) /\ Extends(msg, c) /\ Small(Len(msg))
  BY DEF Came
<1>11. a < e /\ e <= Len(msg)
  <2>1. PICK x \in 0..2, lp \in Nat, lq \in Nat, y \in Nat, z \in Nat :
          /\ x = Len(r.names) /\ lp = Len(r.pre) /\ lq = Len(r.post)
          /\ x = Layout[r.rt].names /\ lp = Layout[r.rt].pre /\ lq = Layout[r.rt].post
          /\ y = w[0] /\ z = w[x]
          /\ a < o /\ y = o + 10 + lp /\ y <= z /\ z + lq = e /\ e <= Len(msg)
    <3>1. r \in Record /\ msg \in Seq(Byte)
      BY <1>5, <1>10
    <3>. QED
      BY <1>9, <3>1, PlacesOfRR
  <2>2. a < o /\ y = o + 10 + lp /\ y <= z /\ z + lq = e
    BY <2>1
  <2>3. a < e
    BY <2>2
  <2>. QED
    BY <2>1, <2>3
<1>12. PICK T \in Nat, E \in Nat : T = Len(c) /\ E = Len(msg)
  BY <1>10
<1>13. T < e => Datagram <= T
  <2>1. T < E => Datagram <= T
    BY <1>12 DEF Came
  <2>2. T < e => T < E
    BY <1>11, <1>12
  <2>. QED
    BY <2>1, <2>2
<1>14. Small(e)
  <2>1. E <= 65535 /\ e <= E
    BY <1>10, <1>11, <1>12 DEF Small
  <2>2. e <= 65535
    BY <2>1
  <2>. QED
    BY <2>2 DEF Small
<1>15. ShortIn(r)
  BY <1>1, <1>3, <1>5 DEF Modest
<1>16. a < Len(c) => ReadRRAs(UnpackRR(c, a), r, e, Len(c))
  BY <1>5, <1>8, <1>10, <1>14, <1>15, RRReads
<1>. QED
  BY <1>1, <1>3, <1>4, <1>5, <1>7, <1>11, <1>12, <1>13, <1>16

(* What the sections hold: records, and nothing for bare headers.          *)
Entry == Record \cup {<<>>}

Taken(m, g, ph) ==
  /\ g \in Seq(Seq(Entry)) /\ Len(g) \in 1..3
  /\ \A k \in 1..Len(g) : Len(g[k]) <= Len(m.rrs[k])
  /\ \A k \in 1..Len(g) : \A j \in 1..Len(g[k]) : g[k][j] \in {<<>>, m.rrs[k][j]}
  /\ ph = "end" => Len(g) = 3

(* All was read up to p, where the next record is.                         *)
InStep(m, at, c, g, q, p) ==
  /\ q = m.q
  /\ \A k \in 1..Len(g) : \A j \in 1..Len(g[k]) : g[k][j] = m.rrs[k][j]
  /\ \A k \in 1..Len(g) - 1 : Len(g[k]) = Len(m.rrs[k])
  /\ p = at[Before(m, Len(g)) + (Len(g[Len(g)]) + 1)] /\ p <= Len(c)

(* Nothing can be read any more: the message was cut off, or has a record  *)
(* of a type that is not known.                                            *)
Stuck(m, c, p) ==
  /\ p = -1 \/ p >= Len(c)
  /\ p <= Len(c) => Datagram <= Len(c) \/ \E k \in 1..Len(Records(m)) : Records(m)[k].rt \notin Known

(* What Unpack has made of the octets c of a message m.                    *)
Right(m, c, ph, g, q, p) ==
  \E M, msg, at :
    /\ Came(M, msg, at, m, c)
    /\ g = <<>> => ph = "read" /\ p = 12
    /\ g # <<>> =>
         /\ Taken(m, g, ph) /\ p \in Nat \cup {-1}
         /\ \/ InStep(m, at, c, g, q, p) /\ (ph = "end" => Len(g[3]) = Len(m.rrs[3]))
            \/ Stuck(m, c, p)

Asks(c, n, q, p) ==
  n = UnpackDomainName(c, 12) /\ q = n.s /\ p = Min({n.off + 4, Len(c)})

(* The question is read as it was sent, or nothing behind it.              *)
LEMMA RightQuestion ==
  ASSUME NEW m \in Msgs, Modest(m), NEW c, NEW q0, Right(m, c, "read", <<>>, q0, 12),
         NEW n, NEW q, NEW p, Asks(c, n, q, p)
  PROVE  Right(m, c, "read", <<<<>>>>, q, p)
<1>1. PICK M, msg, at : Came(M, msg, at, m, c)
  BY DEF Right
<1>2. PICK g : g = <<<<>>>>
  OBVIOUS
<1>3. g \in Seq(Seq(Entry)) /\ Len(g) = 1 /\ g[1] = <<>> /\ Len(g[1]) = 0
  BY <1>2
<1>4. g # <<>>
  BY <1>3
<1>5. Taken(m, g, "read")
  <2>1. 1 \in 1..3 /\ 0 <= Len(m.rrs[1])
    <3>1. 1 \in 1..3
      OBVIOUS
    <3>2. Len(m.rrs[1]) \in Nat
      BY <3>1, SectionsAre
    <3>. QED
      BY <3>1, <3>2
  <2>. QED
    BY <1>3, <2>1 DEF Taken
<1>6. PICK N \in Nat : N = Len(Records(m))
  BY SectionsAre
<1>7. PICK e \in Nat : e = at[1] /\ QuestionAt(M, msg, 12, m.q, e)
  <2>1. 1 \in 0..N + 1 /\ N + 1 >= 1
    OBVIOUS
  <2>2. at \in [0..N + 1 -> Nat] /\ Laid(M, msg, m, N + 1, at)
    BY <1>1, <1>6 DEF Came
  <2>3. QuestionAt(M, msg, 12, m.q, at[1])
    BY <2>1, <2>2 DEF Laid
  <2>. QED
    BY <2>1, <2>2, <2>3
<1>8. msg \in Seq(Byte) /\ Sound(M, msg) /\ c \in Seq(Byte) /\ Extends(msg, c) /\ 12 <= Len(c)
  BY <1>1 DEF Came
<1>9. PICK T \in Nat : T = Len(c)
  BY <1>8
<1>10. /\ n.off \in Nat
       /\ e <= T => n.s = m.q /\ n.off + 4 = e
       /\ e > T => T < n.off + 4
  <2>1. m.q \in Name /\ Short(m.q)
    BY MessageIs DEF Modest
  <2>2. n = UnpackDomainName(c, 12)
    BY DEF Asks
  <2>. QED
    BY <1>7, <1>8, <1>9, <2>1, <2>2, QuestionReads
<1>11. PICK o \in Nat : o = n.off + 4
  BY <1>10
<1>12. p = Min({o, T})
  BY <1>9, <1>11 DEF Asks
<1>13. CASE e <= T
  <2>1. p = e /\ q = m.q
    <3>1. o <= T /\ o = e
      BY <1>10, <1>11, <1>13
    <3>2. p = o
      BY <1>12, <3>1, MinOfTwo
    <3>. QED
      BY <1>10, <1>13, <3>1, <3>2 DEF Asks
  <2>2. Before(m, Len(g)) + (Len(g[Len(g)]) + 1) = 1
    <3>1. Before(m, 1) = 0
      BY DEF Before
    <3>. QED
      BY <1>3, <3>1
  <2>3. InStep(m, at, c, g, q, p)
    <3>1. p = at[Before(m, Len(g)) + (Len(g[Len(g)]) + 1)]
      BY <1>7, <2>1, <2>2
    <3>2. p <= Len(c)
      BY <1>9, <1>13, <2>1
    <3>3. \A k \in 1..Len(g) - 1 : Len(g[k]) = Len(m.rrs[k])
      BY <1>3
    <3>4. \A k \in 1..Len(g) : \A j \in 1..Len(g[k]) : g[k][j] = m.rrs[k][j]
      BY <1>3
    <3>. QED
      BY <2>1, <3>1, <3>2, <3>3, <3>4 DEF InStep
  <2>4. p \in Nat \cup {-1}
    BY <2>1
  <2>5. Right(m, c, "read", g, q, p)
    BY <1>1, <1>4, <1>5, <2>3, <2>4 DEF Right
  <2>. QED
    BY <1>2, <2>5
<1>14. CASE e > T
  <2>1. p = T
    <3>1. T <= o
      BY <1>10, <1>11, <1>14
    <3>. QED
      BY <1>12, <3>1, MinOfTwo
  <2>2. Datagram <= T
    <3>1. e <= Len(msg)
      BY <1>7 DEF QuestionAt
    <3>2. PICK E \in Nat : E = Len(msg)
      BY <1>8
    <3>3. T < E
      BY <1>14, <3>1, <3>2
    <3>. QED
      BY <1>1, <1>9, <3>2, <3>3 DEF Came
  <2>3. Stuck(m, c, p)
    BY <1>9, <2>1, <2>2 DEF Stuck
  <2>4. p \in Nat \cup {-1}
    BY <2>1
  <2>5. Right(m, c, "read", g, q, p)
    BY <1>1, <1>4, <1>5, <2>3, <2>4 DEF Right
  <2>. QED
    BY <1>2, <2>5
<1>. QED
  BY <1>13, <1>14

Appended(h, g, k, y) == h = [g EXCEPT ![k] = Append(@, y)]

(* An entry behind the others of a section.                                *)
LEMMA AppendedIs ==
  ASSUME NEW g \in Seq(Seq(Entry)), NEW k \in 1..Len(g), NEW y \in Entry, NEW h, Appended(h, g, k, y)
  PROVE  /\ h \in Seq(Seq(Entry)) /\ Len(h) = Len(g)
         /\ \A i \in 1..Len(g) : i # k => h[i] = g[i]
         /\ Len(h[k]) = Len(g[k]) + 1
         /\ \A j \in 1..Len(g[k]) : h[k][j] = g[k][j]
         /\ h[k][Len(g[k]) + 1] = y
<1>1. PICK s \in Seq(Entry) : s = g[k]
  OBVIOUS
<1>2. PICK t : t = Append(s, y)
  OBVIOUS
<1>3. /\ t \in Seq(Entry) /\ Len(t) = Len(s) + 1
      /\ \A j \in 1..Len(s) : t[j] = s[j]
      /\ t[Len(s) + 1] = y
  BY <1>2
<1>4. h = [g EXCEPT ![k] = t]
  BY <1>1, <1>2 DEF Appended
<1>5. h \in Seq(Seq(Entry)) /\ Len(h) = Len(g) /\ h[k] = t /\ \A i \in 1..Len(g) : i # k => h[i] = g[i]
  BY <1>3, <1>4
<1>. QED
  BY <1>1, <1>3, <1>5

AddsRR(c, g, p, k, x, h) ==
  /\ g # <<>> /\ k = Len(g) /\ Len(g[k]) < At16(c, 4 + 2 * k)
  /\ x = UnpackRR(c, p) /\ x.off >= 0
  /\ Appended(h, g, k, x.rr)

(* A record is read as it was sent, or its header alone.                   *)
LEMMA RightRR ==
  ASSUME NEW m \in Msgs, Modest(m), NEW c, NEW g, NEW q, NEW p, Right(m, c, "read", g, q, p),
         NEW k, NEW x, NEW h, AddsRR(c, g, p, k, x, h)
  PROVE  Right(m, c, "read", h, q, x.off)
<1>1. g # <<>> /\ k = Len(g) /\ x = UnpackRR(c, p) /\ x.off >= 0 /\ Appended(h, g, k, x.rr)
  BY DEF AddsRR
<1>2. PICK M, msg, at :
        /\ Came(M, msg, at, m, c)
        /\ Taken(m, g, "read") /\ p \in Nat \cup {-1}
        /\ InStep(m, at, c, g, q, p) \/ Stuck(m, c, p)
  BY <1>1 DEF Right
<1>3. g \in Seq(Seq(Entry)) /\ k \in 1..3 /\ k \in 1..Len(g)
  <2>1. g \in Seq(Seq(Entry)) /\ Len(g) \in 1..3
    BY <1>2 DEF Taken
  <2>. QED
    BY <1>1, <2>1
<1>4. c \in Seq(Byte)
  BY <1>2 DEF Came
<1>5. PICK T \in Nat : T = Len(c)
  BY <1>4
<1>6. PICK l \in Nat : l = Len(g[k])
  <2>1. g[k] \in Seq(Entry)
    BY <1>3
  <2>. QED
    BY <2>1
<1>7. PICK n \in Nat : n = Len(m.rrs[k]) /\ l < n
  <2>1. At16(c, 4 + 2 * k) = Len(m.rrs[k]) /\ Len(m.rrs[k]) \in Nat
    <3>1. k \in 1..3
      BY <1>3
    <3>2. Came(M, msg, at, m, c)
      BY <1>2
    <3>3. At16(c, 4 + 2 * k) = Len(m.rrs[k])
      BY <3>1, <3>2, CountIs
    <3>4. Len(m.rrs[k]) \in Nat
      BY <3>1, SectionsAre
    <3>. QED
      BY <3>3, <3>4
  <2>2. Len(g[k]) < At16(c, 4 + 2 * k)
    BY DEF AddsRR
  <2>. QED
    BY <1>6, <2>1, <2>2
<1>8. PICK j \in 1..n : j = l + 1
  <2>1. l + 1 \in 1..n
    BY <1>7
  <2>. QED
    BY <2>1
<1>9. PICK r : r = m.rrs[k][j]
  OBVIOUS
<1>10. PICK i \in 1..Len(Records(m)), a \in Nat, e \in Nat :
         /\ r = Records(m)[i] /\ r \in Record
         /\ a = at[Before(m, k) + j] /\ e = at[Before(m, k) + (j + 1)]
         /\ a < e
         /\ Len(c) < e => Datagram <= Len(c)
         /\ a < Len(c) => ReadRRAs(UnpackRR(c, a), r, e, Len(c))
  <2>1. InSection(m, k, j)
    BY <1>3, <1>7 DEF InSection
  <2>2. Came(M, msg, at, m, c)
    BY <1>2
  <2>3. PICK i \in 1..Len(Records(m)), a \in Nat, e \in Nat :
          /\ m.rrs[k][j] = Records(m)[i] /\ m.rrs[k][j] \in Record
          /\ a = at[Before(m, k) + j] /\ e = at[Before(m, k) + (j + 1)]
          /\ a < e
          /\ Len(c) < e => Datagram <= Len(c)
          /\ a < Len(c) => ReadRRAs(UnpackRR(c, a), m.rrs[k][j], e, Len(c))
    BY <2>1, <2>2, ItemReads
  <2>. QED
    BY <1>9, <2>3
<1>11. NotFound.off = -1 /\ Crash.off = -2
  BY DEF NotFound, Crash
<1>12. InStep(m, at, c, g, q, p)
  <2>1. ASSUME Stuck(m, c, p) PROVE FALSE
    <3>1. p = -1 \/ p >= Len(c)
      BY <2>1 DEF Stuck
    <3>2. x = NotFound \/ x = Crash
      BY <1>1, <1>2, <1>4, <3>1, NoRR
    <3>3. x.off = -1 \/ x.off = -2
      BY <1>11, <3>2
    <3>. QED
      BY <1>1, <3>3
  <2>. QED
    BY <1>2, <2>1
<1>13. p = a /\ a <= T
  <2>1. p = at[Before(m, k) + (l + 1)] /\ p <= T
    BY <1>1, <1>5, <1>6, <1>12 DEF InStep
  <2>. QED
    BY <1>8, <1>10, <2>1
<1>14. \/ e > T /\ x = Bare(e)
       \/ e <= T /\ x = [off |-> e, rr |-> r]
  <2>1. x # NotFound /\ x # Crash
    BY <1>1, <1>11
  <2>2. a # T
    <3>1. ASSUME p = Len(c) PROVE FALSE
      <4>1. x = NotFound
        BY <1>1, <3>1 DEF UnpackRR
      <4>. QED
        BY <2>1, <4>1
    <3>. QED
      BY <1>5, <1>13, <3>1
  <2>3. a < Len(c)
    BY <1>5, <1>13, <2>2
  <2>4. ReadRRAs(x, r, e, T)
    BY <1>1, <1>5, <1>10, <1>13, <2>3
  <2>. QED
    BY <2>1, <2>4 DEF ReadRRAs
<1>15. x.off = e /\ x.rr \in {<<>>, r} /\ (e <= T => x.rr = r)
  BY <1>14 DEF Bare
<1>16. PICK y \in Entry : y = x.rr
  BY <1>10, <1>15 DEF Entry
<1>17. /\ h \in Seq(Seq(Entry)) /\ Len(h) = k
       /\ \A b \in 1..k : b # k => h[b] = g[b]
       /\ Len(h[k]) = j
       /\ \A b \in 1..l : h[k][b] = g[k][b]
       /\ h[k][j] = y
  <2>1. Appended(h, g, k, y)
    BY <1>1, <1>16
  <2>2. /\ h \in Seq(Seq(Entry)) /\ Len(h) = Len(g)
        /\ \A b \in 1..Len(g) : b # k => h[b] = g[b]
        /\ Len(h[k]) = Len(g[k]) + 1
        /\ \A b \in 1..Len(g[k]) : h[k][b] = g[k][b]
        /\ h[k][Len(g[k]) + 1] = y
    BY <1>3, <2>1, AppendedIs
  <2>. QED
    BY <1>1, <1>6, <1>8, <2>2
<1>18. \A b \in 1..j : b \in 1..l \/ b = j
  BY <1>8
<1>19. Taken(m, h, "read")
  <2>1. ASSUME NEW b \in 1..k PROVE Len(h[b]) <= Len(m.rrs[b])
    <3>1. CASE b = k
      BY <1>7, <1>17, <3>1
    <3>2. CASE b # k
      <4>1. h[b] = g[b]
        BY <1>17, <3>2
      <4>2. Len(g[b]) <= Len(m.rrs[b])
        BY <1>1, <1>2 DEF Taken
      <4>. QED
        BY <4>1, <4>2
    <3>. QED
      BY <3>1, <3>2
  <2>2. ASSUME NEW b \in 1..k, NEW d \in 1..Len(h[b]) PROVE h[b][d] \in {<<>>, m.rrs[b][d]}
    <3>1. \A f \in 1..Len(g[b]) : g[b][f] \in {<<>>, m.rrs[b][f]}
      BY <1>1, <1>2 DEF Taken
    <3>2. CASE b = k
      <4>1. d \in 1..l \/ d = j
        BY <1>17, <1>18, <3>2
      <4>2. CASE d \in 1..l
        BY <1>6, <1>17, <3>1, <3>2, <4>2
      <4>3. CASE d = j
        BY <1>9, <1>15, <1>16, <1>17, <3>2, <4>3
      <4>. QED
        BY <4>1, <4>2, <4>3
    <3>3. CASE b # k
      <4>1. h[b] = g[b]
        BY <1>17, <3>3
      <4>. QED
        BY <3>1, <4>1
    <3>. QED
      BY <3>2, <3>3
  <2>. QED
    BY <1>3, <1>17, <2>1, <2>2 DEF Taken
<1>20. h # <<>>
  <2>1. Len(h) # 0
    BY <1>3, <1>17
  <2>. QED
    BY <2>1
<1>21. CASE e > T
  <2>1. Stuck(m, c, e)
    BY <1>5, <1>21 DEF Stuck
  <2>. QED
    BY <1>2, <1>15, <1>19, <1>20, <2>1 DEF Right
<1>22. CASE e <= T
  <2>1. y = r
    BY <1>15, <1>16, <1>22
  <2>2. ASSUME NEW b \in 1..k, NEW d \in 1..Len(h[b]) PROVE h[b][d] = m.rrs[b][d]
    <3>1. \A f \in 1..Len(g[b]) : g[b][f] = m.rrs[b][f]
      BY <1>1, <1>12 DEF InStep
    <3>2. CASE b = k
      <4>1. d \in 1..l \/ d = j
        BY <1>17, <1>18, <3>2
      <4>2. CASE d \in 1..l
        BY <1>6, <1>17, <3>1, <3>2, <4>2
      <4>3. CASE d = j
        BY <1>9, <1>17, <2>1, <3>2, <4>3
      <4>. QED
        BY <4>1, <4>2, <4>3
    <3>3. CASE b # k
      <4>1. h[b] = g[b]
        BY <1>17, <3>3
      <4>. QED
        BY <3>1, <4>1
    <3>. QED
      BY <3>2, <3>3
  <2>3. ASSUME NEW b \in 1..k - 1 PROVE Len(h[b]) = Len(m.rrs[b])
    <3>1. b \in 1..k /\ b # k
      BY <1>3
    <3>2. h[b] = g[b]
      BY <1>17, <3>1
    <3>3. Len(g[b]) = Len(m.rrs[b])
      BY <1>1, <1>12 DEF InStep
    <3>. QED
      BY <3>2, <3>3
  <2>4. e = at[Before(m, Len(h)) + (Len(h[Len(h)]) + 1)]
    BY <1>10, <1>17
  <2>5. q = m.q
    BY <1>12 DEF InStep
  <2>6. e <= Len(c)
    BY <1>5, <1>22
  <2>7. InStep(m, at, c, h, q, e)
    BY <1>17, <2>2, <2>3, <2>4, <2>5, <2>6 DEF InStep
  <2>. QED
    BY <1>2, <1>15, <1>19, <1>20, <2>7 DEF Right
<1>. QED
  BY <1>21, <1>22

Moves(c, g, p, k, h, o, ph) ==
  /\ g # <<>> /\ k = Len(g)
  /\ Len(g[k]) < At16(c, 4 + 2 * k) => UnpackRR(c, p) = NotFound
  /\ o = IF Len(g[k]) < At16(c, 4 + 2 * k) THEN -1 ELSE p
  /\ k = 3 => ph = "end" /\ h = g
  /\ k # 3 => ph = "read" /\ h = Append(g, <<>>)

(* A section is left complete, or nothing more is read.                    *)
LEMMA RightSection ==
  ASSUME NEW m \in Msgs, Modest(m), NEW c, NEW g, NEW q, NEW p, Right(m, c, "read", g, q, p),
         NEW k, NEW h, NEW o, NEW ph, Moves(c, g, p, k, h, o, ph)
  PROVE  Right(m, c, ph, h, q, o)
<1>1. /\ g # <<>> /\ k = Len(g)
      /\ Len(g[k]) < At16(c, 4 + 2 * k) => UnpackRR(c, p) = NotFound
      /\ o = IF Len(g[k]) < At16(c, 4 + 2 * k) THEN -1 ELSE p
      /\ k = 3 => ph = "end" /\ h = g
      /\ k # 3 => ph = "read" /\ h = Append(g, <<>>)
  BY DEF Moves
<1>2. PICK M, msg, at :
        /\ Came(M, msg, at, m, c)
        /\ Taken(m, g, "read") /\ p \in Nat \cup {-1}
        /\ InStep(m, at, c, g, q, p) \/ Stuck(m, c, p)
  BY <1>1 DEF Right
<1>3. g \in Seq(Seq(Entry)) /\ k \in 1..3 /\ k \in 1..Len(g)
  <2>1. g \in Seq(Seq(Entry)) /\ Len(g) \in 1..3
    BY <1>2 DEF Taken
  <2>. QED
    BY <1>1, <2>1
<1>4. c \in Seq(Byte)
  BY <1>2 DEF Came
<1>5. PICK T \in Nat : T = Len(c)
  BY <1>4
<1>6. PICK l \in Nat : l = Len(g[k])
  <2>1. g[k] \in Seq(Entry)
    BY <1>3
  <2>. QED
    BY <2>1
<1>7. PICK n \in Nat : n = Len(m.rrs[k]) /\ At16(c, 4 + 2 * k) = n /\ l <= n
  <2>1. k \in 1..3
    BY <1>3
  <2>2. Came(M, msg, at, m, c)
    BY <1>2
  <2>3. At16(c, 4 + 2 * k) = Len(m.rrs[k])
    BY <2>1, <2>2, CountIs
  <2>4. Len(m.rrs[k]) \in Nat
    BY <2>1, SectionsAre
  <2>5. Len(g[k]) <= Len(m.rrs[k])
    BY <1>1, <1>2, <1>3 DEF Taken
  <2>. QED
    BY <1>6, <2>3, <2>4, <2>5
<1>8. /\ h # <<>> /\ h \in Seq(Seq(Entry)) /\ Len(h) \in 1..3 /\ k <= Len(h)
      /\ \A b \in 1..k : h[b] = g[b]
      /\ k # 3 => Len(h) = k + 1 /\ h[k + 1] = <<>> /\ Len(h[k + 1]) = 0
      /\ k = 3 => h = g
      /\ ph = "end" => k = 3
  <2>1. CASE k = 3
    <3>1. h = g /\ ph = "end"
      BY <1>1, <2>1
    <3>2. Len(g) = 3
      BY <1>1, <2>1
    <3>3. h # <<>> /\ h \in Seq(Seq(Entry)) /\ \A b \in 1..k : h[b] = g[b]
      BY <1>1, <1>3, <3>1
    <3>4. Len(h) \in 1..3 /\ k <= Len(h)
      BY <2>1, <3>1, <3>2
    <3>. QED
      BY <2>1, <3>1, <3>3, <3>4
  <2>2. CASE k # 3
    <3>1. h = Append(g, <<>>) /\ ph = "read"
      BY <1>1, <2>2
    <3>2. <<>> \in Seq(Entry) /\ Len(<<>>) = 0
      OBVIOUS
    <3>3. /\ h \in Seq(Seq(Entry)) /\ Len(h) = Len(g) + 1
          /\ \A b \in 1..Len(g) : h[b] = g[b]
          /\ h[Len(g) + 1] = <<>>
      BY <1>3, <3>1, <3>2
    <3>4. /\ Len(h) = k + 1
          /\ \A b \in 1..k : h[b] = g[b]
          /\ h[k + 1] = <<>> /\ Len(h[k + 1]) = 0
      BY <1>1, <3>2, <3>3
    <3>5. Len(h) \in 1..3 /\ k <= Len(h) /\ h # <<>>
      BY <1>3, <2>2, <3>4
    <3>. QED
      BY <2>2, <3>1, <3>3, <3>4, <3>5
  <2>. QED
    BY <2>1, <2>2
<1>9. \A b \in 1..Len(h) : b \in 1..k \/ (k # 3 /\ b = k + 1 /\ h[b] = <<>> /\ Len(h[b]) = 0)
  <2>1. CASE k = 3
    <3>1. Len(h) = k
      BY <1>1, <1>8, <2>1
    <3>. QED
      BY <3>1
  <2>2. CASE k # 3
    <3>1. PICK w \in Nat : w = Len(h)
      BY <1>8
    <3>2. w = k + 1 /\ h[k + 1] = <<>> /\ Len(h[k + 1]) = 0
      BY <1>8, <2>2, <3>1
    <3>3. \A b \in 1..w : b \in 1..k \/ b = k + 1
      BY <1>3, <3>2
    <3>. QED
      BY <2>2, <3>1, <3>2, <3>3
  <2>. QED
    BY <2>1, <2>2
<1>10. Taken(m, h, ph)
  <2>1. ASSUME NEW b \in 1..Len(h) PROVE Len(h[b]) <= Len(m.rrs[b])
    <3>1. CASE b \in 1..k
      <4>1. h[b] = g[b]
        BY <1>8, <3>1
      <4>2. Len(g[b]) <= Len(m.rrs[b])
        BY <1>1, <1>2, <3>1 DEF Taken
      <4>. QED
        BY <4>1, <4>2
    <3>2. CASE ~(b \in 1..k)
      <4>1. b \in 1..3
        <5>1. PICK w \in 1..3 : w = Len(h)
          <6>1. Len(h) \in 1..3
            BY <1>8
          <6>. QED
            BY <6>1
        <5>2. b \in 1..w
          BY <5>1
        <5>. QED
          BY <5>1, <5>2
      <4>2. Len(m.rrs[b]) \in Nat
        BY <4>1, SectionsAre
      <4>3. Len(h[b]) = 0
        BY <1>9, <3>2
      <4>. QED
        BY <4>2, <4>3
    <3>. QED
      BY <3>1, <3>2
  <2>2. ASSUME NEW b \in 1..Len(h), NEW d \in 1..Len(h[b]) PROVE h[b][d] \in {<<>>, m.rrs[b][d]}
    <3>1. b \in 1..k
      BY <1>9
    <3>2. h[b] = g[b]
      BY <1>8, <3>1
    <3>3. \A f \in 1..Len(g[b]) : g[b][f] \in {<<>>, m.rrs[b][f]}
      BY <1>1, <1>2, <3>1 DEF Taken
    <3>. QED
      BY <3>2, <3>3
  <2>3. ph = "end" => Len(h) = 3
    BY <1>1, <1>8
  <2>. QED
    BY <1>8, <2>1, <2>2, <2>3 DEF Taken
<1>11. CASE l < n
  <2>1. o = -1 /\ UnpackRR(c, p) = NotFound
    BY <1>1, <1>6, <1>7, <1>11
  <2>2. NotFound # Crash
    BY DEF NotFound, Crash
  <2>3. Datagram <= Len(c) \/ \E b \in 1..Len(Records(m)) : Records(m)[b].rt \notin Known
    <3>1. CASE InStep(m, at, c, g, q, p)
      <4>1. PICK j \in 1..n : j = l + 1
        <5>1. l + 1 \in 1..n
          BY <1>11
        <5>. QED
          BY <5>1
      <4>2. InSection(m, k, j)
        BY <1>3, <1>7 DEF InSection
      <4>3. Came(M, msg, at, m, c)
        BY <1>2
      <4>4. PICK i \in 1..Len(Records(m)), a \in Nat, e \in Nat :
              /\ m.rrs[k][j] = Records(m)[i] /\ m.rrs[k][j] \in Record
              /\ a = at[Before(m, k) + j] /\ e = at[Before(m, k) + (j + 1)]
              /\ a < e
              /\ Len(c) < e => Datagram <= Len(c)
              /\ a < Len(c) => ReadRRAs(UnpackRR(c, a), m.rrs[k][j], e, Len(c))
        BY <4>2, <4>3, ItemReads
      <4>5. p = a /\ a <= T
        <5>1. p = at[Before(m, k) + (l + 1)] /\ p <= T
          BY <1>1, <1>5, <1>6, <3>1 DEF InStep
        <5>. QED
          BY <4>1, <4>4, <5>1
      <4>6. CASE a = T
        <5>1. Len(c) < e
          BY <1>5, <4>4, <4>6
        <5>. QED
          BY <4>4, <5>1
      <4>7. CASE a # T
        <5>1. a < Len(c)
          BY <1>5, <4>5, <4>7
        <5>2. ReadRRAs(NotFound, m.rrs[k][j], e, Len(c))
          BY <2>1, <4>4, <4>5, <5>1
        <5>3. NotFound # Bare(e) /\ NotFound # [off |-> e, rr |-> m.rrs[k][j]]
          BY DEF NotFound, Bare
        <5>4. m.rrs[k][j].rt \notin Known
          BY <2>2, <5>2, <5>3 DEF ReadRRAs
        <5>. QED
          BY <4>4, <5>4
      <4>. QED
        BY <4>6, <4>7
    <3>2. CASE Stuck(m, c, p)
      <4>1. p = -1 \/ p >= Len(c)
        BY <3>2 DEF Stuck
      <4>2. p = Len(c)
        <5>1. UnpackRR(c, p) = IF p = Len(c) THEN NotFound ELSE Crash
          BY <1>2, <1>4, <4>1, NoRR
        <5>. QED
          BY <2>1, <2>2, <5>1
      <4>3. p <= Len(c)
        BY <1>5, <4>2
      <4>. QED
        BY <3>2, <4>3 DEF Stuck
    <3>. QED
      BY <1>2, <3>1, <3>2
  <2>4. Stuck(m, c, o)
    BY <2>1, <2>3 DEF Stuck
  <2>5. o \in Nat \cup {-1}
    BY <2>1
  <2>. QED
    BY <1>2, <1>8, <1>10, <2>4, <2>5 DEF Right
<1>12. CASE ~(l < n)
  <2>1. o = p
    BY <1>1, <1>6, <1>7, <1>12
  <2>2. CASE Stuck(m, c, p)
    BY <1>2, <1>8, <1>10, <2>1, <2>2 DEF Right
  <2>3. CASE InStep(m, at, c, g, q, p)
    <3>1. l = n
      BY <1>7, <1>12
    <3>2. Len(g[k]) = Len(m.rrs[k])
      BY <1>6, <1>7, <3>1
    <3>3. ASSUME NEW b \in 1..Len(h), NEW d \in 1..Len(h[b]) PROVE h[b][d] = m.rrs[b][d]
      <4>1. b \in 1..k
        BY <1>9
      <4>2. h[b] = g[b]
        BY <1>8, <4>1
      <4>3. \A f \in 1..Len(g[b]) : g[b][f] = m.rrs[b][f]
        BY <1>1, <2>3, <4>1 DEF InStep
      <4>. QED
        BY <4>2, <4>3
    <3>4. ASSUME NEW b \in 1..Len(h) - 1 PROVE Len(h[b]) = Len(m.rrs[b])
      <4>1. b \in 1..k
        <5>1. b \in 1..Len(h) /\ b # Len(h)
          BY <1>8
        <5>. QED
          BY <1>8, <1>9, <5>1
      <4>2. h[b] = g[b]
        BY <1>8, <4>1
      <4>3. CASE b = k
        BY <3>2, <4>2, <4>3
      <4>4. CASE b # k
        <5>1. b \in 1..k - 1
          BY <1>3, <4>1, <4>4
        <5>2. Len(g[b]) = Len(m.rrs[b])
          BY <1>1, <2>3, <5>1 DEF InStep
        <5>. QED
          BY <4>2, <5>2
      <4>. QED
        BY <4>3, <4>4
    <3>5. p = at[Before(m, k) + (l + 1)] /\ p <= Len(c) /\ q = m.q
      BY <1>1, <1>6, <2>3 DEF InStep
    <3>6. p = at[Before(m, Len(h)) + (Len(h[Len(h)]) + 1)]
      <4>1. CASE k = 3
        BY <1>1, <1>6, <1>8, <3>5, <4>1
      <4>2. CASE k # 3
        <5>1. k < 3
          BY <1>3, <4>2
        <5>2. Before(m, k + 1) = Before(m, k) + Len(m.rrs[k]) /\ Before(m, k) \in Nat
          BY <1>3, <5>1, SectionsAre
        <5>3. Len(h) = k + 1 /\ Len(h[Len(h)]) = 0
          BY <1>8, <4>2
        <5>4. PICK b \in Nat, d \in Nat : b = Before(m, k) /\ d = Before(m, k + 1) /\ d = b + l
          BY <1>7, <3>1, <5>2
        <5>5. d + (0 + 1) = b + (l + 1)
          BY <5>4
        <5>. QED
          BY <3>5, <5>3, <5>4, <5>5
      <4>. QED
        BY <4>1, <4>2
    <3>7. InStep(m, at, c, h, q, o)
      BY <2>1, <3>3, <3>4, <3>5, <3>6 DEF InStep
    <3>8. ph = "end" => Len(h[3]) = Len(m.rrs[3])
      BY <1>8, <3>2
    <3>. QED
      BY <1>2, <1>8, <1>10, <2>1, <3>7, <3>8 DEF Right
  <2>. QED
    BY <1>2, <2>2, <2>3
<1>. QED
  BY <1>11, <1>12

(* Whatever Unpack does, what it has made of the datagram is right.        *)
ReadRight ==
  /\ phase = "pack" => got = <<>>
  /\ phase \in {"read", "end"} => Right(sent, out, phase, got, asked, off)

(* The first octets.                                                       *)
LEMMA FirstOf ==
  ASSUME NEW s \in Seq(Byte), NEW l \in Nat, l <= Len(s)
  PROVE  /\ SubSeq(s, 1, l) \in Seq(Byte) /\ Len(SubSeq(s, 1, l)) = l
         /\ \A i \in 1..l : SubSeq(s, 1, l)[i] = s[i]
<1>1. PICK u : u = SubSeq(s, 1, l)
  OBVIOUS
<1>2. u \in Seq(Byte) /\ Len(u) = l /\ \A i \in 1..l : u[i] = s[i]
  BY <1>1
<1>. QED
  BY <1>1, <1>2

(* The octets a buffer of Datagram octets takes of what was packed.        *)
LEMMA CutIs ==
  ASSUME NEW s \in Seq(Byte), NEW c, c = SubSeq(s, 1, Min({Len(s), Datagram})), Len(s) >= 12
  PROVE  /\ c \in Seq(Byte) /\ Extends(s, c) /\ 12 <= Len(c)
         /\ Len(c) < Len(s) => Datagram <= Len(c)
<1>1. PICK n \in Nat : n = Len(s) /\ n >= 12
  <2>1. Len(s) \in Nat
    OBVIOUS
  <2>. QED
    BY <2>1
<1>2. Datagram \in Nat /\ Datagram >= 12
  BY WireAssumption
<1>3. PICK l : l = Min({Len(s), Datagram})
  OBVIOUS
<1>4. l \in Nat /\ l <= n /\ 12 <= l /\ (l < n => Datagram <= l)
  <2>1. l = Min({n, Datagram})
    BY <1>1, <1>3, Zenon
  <2>2. CASE n <= Datagram
    <3>1. l = n
      BY <1>2, <2>1, <2>2, MinOfTwo
    <3>. QED
      BY <1>1, <3>1
  <2>3. CASE Datagram <= n
    <3>1. l = Datagram
      BY <1>2, <2>1, <2>3, MinOfTwo
    <3>. QED
      BY <1>1, <1>2, <2>3, <3>1
  <2>. QED
    BY <1>1, <1>2, <2>2, <2>3
<1>5. c \in Seq(Byte) /\ Len(c) = l /\ \A i \in 1..l : c[i] = s[i]
  <2>1. c = SubSeq(s, 1, l)
    BY <1>3, Zenon
  <2>2. l <= Len(s)
    BY <1>1, <1>4
  <2>. QED
    BY <1>4, <2>1, <2>2, FirstOf, ZenonT(30)
<1>6. Extends(s, c)
  <2>1. l <= n
    BY <1>4
  <2>. QED
    BY <1>1, <1>5, <2>1 DEF Extends
<1>. QED
  BY <1>1, <1>4, <1>5, <1>6

(* The datagram comes of the message that was packed.                      *)
LEMMA TransmitReads ==
  ASSUME ModestMessages, Fits, Told, ReadRight, Transmit
  PROVE  ReadRight'
<1>1. sent \in Msgs /\ phase = "pack" /\ got = <<>>
  BY DEF Fits, ReadRight, Transmit
<1>2. /\ item > Len(Records(sent))
      /\ out' = SubSeq(out, 1, Min({Len(out), Datagram}))
      /\ phase' = "read" /\ off' = 12 /\ sent' = sent /\ got' = got
  BY DEF Transmit
<1>3. PICK n \in Nat : n = Len(Records(sent))
  BY <1>1, MessageIs
<1>4. item \in 0..n + 1 /\ out \in Seq(Byte) /\ Len(out) <= Room(sent, item)
  BY <1>1, <1>3 DEF Fits, Written, Packer
<1>5. item = n + 1
  BY <1>2, <1>3, <1>4
<1>6. Small(Len(out))
  <2>1. /\ Room(sent, item) \in Nat /\ Room(sent, item) <= LenMsg(sent)
        /\ LenMsg(sent) \in Nat
    BY <1>1, <1>3, <1>4, RoomIs
  <2>2. Small(LenMsg(sent))
    BY <1>1 DEF ModestMessages, Modest
  <2>3. PICK a \in Nat : a = Len(out)
    BY <1>4
  <2>4. PICK c \in Nat : c = LenMsg(sent)
    BY <2>1, Zenon
  <2>5. PICK b \in Nat : b = Room(sent, item)
    BY <2>1, Zenon
  <2>6. a <= b /\ b <= c
    BY <1>4, <2>1, <2>3, <2>4, <2>5, Zenon
  <2>7. Small(c)
    BY <2>2, <2>4, Zenon
  <2>8. Small(a)
    BY <2>6, <2>7 DEF Small
  <2>. QED
    BY <2>3, <2>8, Zenon
<1>7. PICK M, at \in [0..Len(Records(sent)) + 1 -> Nat] :
        Holds(M, Written) /\ Laid(M, out, sent, item, at)
  BY <1>1 DEF Told
<1>8. Sound(M, out)
  BY <1>7 DEF Holds, Written
<1>9. Laid(M, out, sent, Len(Records(sent)) + 1, at)
  BY <1>3, <1>5, <1>7
<1>10. Len(out) >= 12
  <2>1. Extends(out, Header(sent)) /\ Len(Header(sent)) = 12
    BY <1>1, <1>9, HeaderIs DEF Laid
  <2>. QED
    BY <2>1 DEF Extends
<1>11. /\ out' \in Seq(Byte) /\ Extends(out, out') /\ 12 <= Len(out')
       /\ Len(out') < Len(out) => Datagram <= Len(out')
  BY <1>2, <1>4, <1>10, CutIs
<1>12. Came(M, out, at, sent, out')
  BY <1>4, <1>6, <1>7, <1>8, <1>9, <1>11 DEF Came
<1>13. Right(sent, out', "read", <<>>, asked', 12)
  BY <1>12 DEF Right
<1>. QED
  BY <1>1, <1>2, <1>13 DEF ReadRight

(* Every step of Unpack leaves it right.                                   *)
LEMMA ReadRightStep ==
  ASSUME ModestMessages
  PROVE  Fits /\ Told /\ ReadRight /\ [Next]_vars => ReadRight'
<1>. SUFFICES ASSUME Fits, Told, ReadRight, [Next]_vars PROVE ReadRight'
  OBVIOUS
<1>1. sent \in Msgs /\ Modest(sent)
  BY DEF Fits, ModestMessages
<1>2. CASE Pack
  <2>1. phase = "pack" /\ got = <<>> /\ got' = got /\ phase' \in {"pack", "error"}
    BY <1>2 DEF Pack, ReadRight
  <2>. QED
    BY <2>1 DEF ReadRight
<1>3. CASE Transmit
  BY <1>3, TransmitReads
<1>4. CASE ReadQuestion
  <2>1. Right(sent, out, "read", <<>>, asked, off)
    BY <1>4 DEF ReadQuestion, ReadRight
  <2>2. off = 12
    BY <2>1 DEF Right
  <2>3. PICK n : n = UnpackDomainName(out, 12)
    OBVIOUS
  <2>4. \/ phase' = "panic"
        \/ /\ off' = Min({n.off + 4, Len(out)}) /\ asked' = n.s /\ got' = <<<<>>>>
           /\ phase' = "read"
    BY <1>4, <2>2, <2>3 DEF ReadQuestion
  <2>5. sent' = sent /\ out' = out
    BY <1>4 DEF ReadQuestion
  <2>6. CASE phase' = "panic"
    BY <2>6 DEF ReadRight
  <2>7. CASE phase' # "panic"
    <3>1. /\ off' = Min({n.off + 4, Len(out)}) /\ asked' = n.s /\ got' = <<<<>>>>
          /\ phase' = "read"
      BY <2>4, <2>7
    <3>2. Asks(out, n, asked', off')
      BY <2>3, <3>1 DEF Asks
    <3>3. Right(sent, out, "read", <<>>, asked, 12)
      BY <2>1, <2>2
    <3>4. Right(sent, out, "read", <<<<>>>>, asked', off')
      BY <1>1, <3>2, <3>3, RightQuestion
    <3>. QED
      BY <2>5, <3>1, <3>4 DEF ReadRight
  <2>. QED
    BY <2>6, <2>7
<1>5. CASE ReadRR
  <2>1. Right(sent, out, "read", got, asked, off)
    BY <1>5 DEF ReadRR, ReadRight
  <2>2. PICK x : x = UnpackRR(out, off)
    OBVIOUS
  <2>3. PICK k : k = Len(got)
    OBVIOUS
  <2>4. /\ got # <<>> /\ Len(got[k]) < At16(out, 4 + 2 * k) /\ x.off >= 0 /\ off' = x.off
        /\ got' = [got EXCEPT ![k] = Append(got[k], x.rr)]
        /\ sent' = sent /\ out' = out /\ asked' = asked /\ phase' = "read"
    BY <1>5, <2>2, <2>3 DEF ReadRR, Count, Section
  <2>5. Appended(got', got, k, x.rr)
    BY <2>4 DEF Appended
  <2>6. AddsRR(out, got, off, k, x, got')
    BY <2>2, <2>3, <2>4, <2>5 DEF AddsRR
  <2>7. Right(sent, out, "read", got', asked, x.off)
    BY <1>1, <2>1, <2>6, RightRR
  <2>. QED
    BY <2>4, <2>7 DEF ReadRight
<1>6. CASE NextSection
  <2>1. Right(sent, out, "read", got, asked, off)
    BY <1>6 DEF NextSection, ReadRight
  <2>2. PICK k : k = Len(got)
    OBVIOUS
  <2>3. /\ got # <<>>
        /\ Len(got[k]) < At16(out, 4 + 2 * k) => UnpackRR(out, off) = NotFound
        /\ off' = IF Len(got[k]) < At16(out, 4 + 2 * k) THEN -1 ELSE off
        /\ k = 3 => phase' = "end" /\ got' = got
        /\ k # 3 => phase' = "read" /\ got' = Append(got, <<>>)
        /\ sent' = sent /\ out' = out /\ asked' = asked
    BY <1>6, <2>2 DEF NextSection, Count, Section
  <2>4. Moves(out, got, off, k, got', off', phase')
    BY <2>2, <2>3 DEF Moves
  <2>5. Right(sent, out, phase', got', asked, off')
    BY <1>1, <2>1, <2>4, RightSection
  <2>6. phase' # "pack"
    BY <2>3
  <2>. QED
    BY <2>3, <2>5, <2>6 DEF ReadRight
<1>7. CASE Panic
  BY <1>7 DEF Panic, ReadRight
<1>8. CASE UNCHANGED vars
  BY <1>8 DEF ReadRight, vars
<1>. QED
  BY <1>2, <1>3, <1>4, <1>5, <1>6, <1>7, <1>8 DEF Next

(* Equal in every place, two messages' sections are equal.                 *)
LEMMA SectionsEqual ==
  ASSUME NEW m \in Msgs, NEW g \in Seq(Seq(Entry)), Len(g) = 3,
         \A k \in 1..3 : Len(g[k]) = Len(m.rrs[k]),
         \A k \in 1..3 : \A j \in 1..Len(g[k]) : g[k][j] = m.rrs[k][j]
  PROVE  g = m.rrs
<1>1. m.rrs \in Seq(Seq(Record)) /\ Len(m.rrs) = 3
  BY MessagesAssumption
<1>2. ASSUME NEW k \in 1..3 PROVE g[k] = m.rrs[k]
  <2>1. g[k] \in Seq(Entry) /\ m.rrs[k] \in Seq(Record)
    BY <1>1
  <2>2. PICK a \in Seq(Entry), b \in Seq(Record) : a = g[k] /\ b = m.rrs[k]
    BY <2>1
  <2>3. Len(a) = Len(b) /\ \A j \in 1..Len(a) : a[j] = b[j]
    BY <2>2
  <2>4. a = b
    BY <2>3, SMTT(30)
  <2>. QED
    BY <2>2, <2>4
<1>3. PICK r \in Seq(Seq(Record)) : r = m.rrs
  BY <1>1
<1>4. Len(g) = 3 /\ Len(r) = 3 /\ \A k \in 1..3 : g[k] = r[k]
  BY <1>1, <1>2, <1>3
<1>5. g = r
  <2>1. g = [k \in 1..3 |-> g[k]] /\ r = [k \in 1..3 |-> r[k]]
    BY <1>4
  <2>2. PICK a, b : a = g /\ b = r
    OBVIOUS
  <2>3. a = [k \in 1..3 |-> a[k]] /\ b = [k \in 1..3 |-> b[k]] /\ \A k \in 1..3 : a[k] = b[k]
    BY <1>4, <2>1, <2>2
  <2>4. a = b
    BY <2>3
  <2>. QED
    BY <2>2, <2>4
<1>. QED
  BY <1>3, <1>5

(* What is right is what Decoded says.                                     *)
LEMMA RightDecodes == Fits /\ ReadRight => Decoded
<1>. SUFFICES ASSUME Fits, ReadRight PROVE Decoded
  OBVIOUS
<1>1. sent \in Msgs
  BY DEF Fits
<1>2. ASSUME phase \in {"read", "end"}, NEW k \in DOMAIN got, NEW j \in DOMAIN got[k]
      PROVE  got[k][j] \in {<<>>, sent.rrs[k][j]}
  <2>1. got # <<>>
    BY <1>2
  <2>2. Taken(sent, got, phase)
    BY <1>2, <2>1 DEF ReadRight, Right
  <2>3. got \in Seq(Seq(Entry))
    BY <2>2 DEF Taken
  <2>4. k \in 1..Len(got)
    BY <2>3
  <2>5. got[k] \in Seq(Entry)
    BY <2>3, <2>4
  <2>6. j \in 1..Len(got[k])
    BY <2>5
  <2>. QED
    BY <2>2, <2>4, <2>6 DEF Taken
<1>3. ASSUME phase = "end", \A r \in Range(Records(sent)) : r.rt \in Known,
             off <= Len(out), Len(out) < Datagram
      PROVE  asked = sent.q /\ got = sent.rrs
  <2>1. Right(sent, out, "end", got, asked, off)
    BY <1>3 DEF ReadRight
  <2>2. got # <<>>
    BY <2>1 DEF Right
  <2>3. PICK M, msg, at :
          /\ Came(M, msg, at, sent, out)
          /\ Taken(sent, got, "end")
          /\ (InStep(sent, at, out, got, asked, off) /\ Len(got[3]) = Len(sent.rrs[3]))
             \/ Stuck(sent, out, off)
    BY <2>1, <2>2 DEF Right
  <2>4. got \in Seq(Seq(Entry)) /\ Len(got) = 3
    BY <2>3 DEF Taken
  <2>5. ~Stuck(sent, out, off)
    <3>1. ASSUME NEW k \in 1..Len(Records(sent)) PROVE Records(sent)[k].rt \in Known
      <4>1. Records(sent) \in Seq(Record)
        BY <1>1, MessageIs
      <4>2. Records(sent)[k] \in Range(Records(sent))
        BY <4>1 DEF Range
      <4>. QED
        BY <1>3, <4>2
    <3>2. ~(Datagram <= Len(out))
      <4>1. PICK d \in Nat, l \in Nat : d = Datagram /\ l = Len(out)
        BY <2>3, WireAssumption DEF Came
      <4>2. l < d
        BY <1>3, <4>1
      <4>3. ~(d <= l)
        BY <4>2
      <4>. QED
        BY <4>1, <4>3
    <3>. QED
      BY <1>3, <3>1, <3>2 DEF Stuck
  <2>6. InStep(sent, at, out, got, asked, off) /\ Len(got[3]) = Len(sent.rrs[3])
    BY <2>3, <2>5
  <2>7. /\ asked = sent.q
        /\ \A k \in 1..3 : \A j \in 1..Len(got[k]) : got[k][j] = sent.rrs[k][j]
        /\ \A k \in 1..3 - 1 : Len(got[k]) = Len(sent.rrs[k])
    BY <2>4, <2>6 DEF InStep
  <2>8. \A k \in 1..3 : Len(got[k]) = Len(sent.rrs[k])
    BY <2>6, <2>7
  <2>9. got = sent.rrs
    BY <1>1, <2>4, <2>7, <2>8, SectionsEqual
  <2>. QED
    BY <2>7, <2>9
<1>. QED
  BY <1>2, <1>3 DEF Decoded

(* Before anything is read, nothing was read wrong.                        *)
LEMMA ReadRightInit == Init => ReadRight
BY DEF Init, ReadRight

(* Whatever messages are sent and wherever the datagram is cut off: the    *)
(* records that were read are those that were sent, in their places, with  *)
(* a bare header for one that was cut; and what comes whole and has no     *)
(* record of an unknown type is read whole.                                *)
THEOREM WireDecoded ==
  ASSUME OrdinaryNames, ModestMessages
  PROVE  Spec => []Decoded
<1>1. Fits /\ Told /\ ReadRight /\ [Next]_vars => ReadRight'
  BY ReadRightStep
<1>2. Spec => []Told
  BY WireTold
<1>3. Spec => []ReadRight
  BY <1>1, <1>2, ReadRightInit, WireFits, PTL DEF Spec
<1>. QED
  BY <1>3, RightDecodes, WireFits, PTL

=============================================================================
