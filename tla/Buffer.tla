------------------------------- MODULE Buffer -------------------------------
(***************************************************************************)
(* The octet buffer of models/buffer.go on the accessors of                *)
(* models/binary.go: integers of 1 to 8 octets in both byte orders,        *)
(* variable-length integers and strings, written at WritePos and read at   *)
(* ReadPos.  The DNS code uses the big-endian ones.                        *)
(*                                                                         *)
(* A value is the set of its bits that are set, bit 0 the lowest, so that  *)
(* values have all the 64 bits of the code; an octet is a set of bits 0 to *)
(* 7.  A signed value is its two's complement, a float its bits.  Data is  *)
(* as long as its array: where it is shorter, Take, ReadBytes and          *)
(* ReadString end only with the array, since they slice Data.              *)
(***************************************************************************)
EXTENDS Integers, Sequences, FiniteSets, FiniteSetsExt, SequencesExt

CONSTANTS
  Values,    \* the values to be written
  Strings,   \* the strings to be written: sequences of octets
  Room,      \* the length of an empty buffer
  Foreign,   \* what a buffer may hold that somebody else has filled
  MaxItems   \* bound of the model: items in a buffer

Word == 0..63
Octet == SUBSET (0..7)

ASSUME BufferAssumption ==
  /\ Values \subseteq SUBSET Word
  /\ Strings \subseteq Seq(Octet)
  /\ Room \in Nat
  /\ Foreign \subseteq Seq(Octet) \ {<<>>}
  /\ MaxItems \in Nat

VARIABLES
  data,      \* Data
  readPos,   \* ReadPos
  writePos,  \* WritePos
  written,   \* history: the items that were written, in order, and where
  got,       \* history: what was read, in order
  panicked   \* a slice or an index was out of range, or the buffer full

vars == <<data, readPos, writePos, written, got, panicked>>

-----------------------------------------------------------------------------
(* Shifts, and the lowest k bits.                                          *)
Shr(v, k) == {i - k : i \in {j \in v : j >= k}}
Shl(v, k) == {i + k : i \in v} \cap Word
Low(v, k) == {i \in v : i < k}

(* How far octet j of n is shifted.                                        *)
Place(j, n, order) == 8 * (IF order = "LE" THEN j - 1 ELSE n - j)

\* Mutation: the octets are put down in the order of the machine.
PutUintLE(v, n, order) == [j \in 1..n |-> Low(Shr(v, 8 * (j - 1)), 8)]

(* PutUint16LE to PutUint64BE.                                             *)
PutUint(v, n, order) == [j \in 1..n |-> Low(Shr(v, Place(j, n, order)), 8)]

(* GetUint16LE to GetUint64BE.                                             *)
GetUint(b, n, order) == UNION {Shl(b[j], Place(j, n, order)) : j \in 1..n}

\* Mutation: the last octet is not counted.
UvarintSizeShort(x) == Min({i \in 0..10 : Shr(x, 7 * i) = {}})

(* How often a value can be shifted by 7 before it is below 0x80, plus 1.  *)
UvarintSize(x) == Min({i \in 1..10 : Shr(x, 7 * i) = {}})

(* Small negative values become small odd ones.                            *)
Zigzag(x) == LET twice == Shl(x, 1) IN IF 63 \in x THEN Word \ twice ELSE twice

Unzigzag(ux) == LET half == Shr(ux, 1) IN IF 0 \in ux THEN Word \ half ELSE half

VarintSize(x) == UvarintSize(Zigzag(x))

(* binary.PutUvarint: seven bits to an octet, the lowest first; the top    *)
(* bit of an octet says that more follow.                                  *)
PutUvarint(v) ==
  LET last == IF v = {} THEN 0 ELSE Max(v) \div 7
  IN  [j \in 1..last + 1 |->
         Low(Shr(v, 7 * (j - 1)), 7) \cup IF j <= last THEN {7} ELSE {}]

(* binary.Uvarint on at most 11 octets: the value and the octets it took;  *)
(* none if the buffer ends before it, and less than none if it has more    *)
(* than 64 bits.                                                           *)
GetUvarint(b) ==
  LET ends == {j \in DOMAIN b : 7 \notin b[j]}
      n == Min(ends)
  IN  IF ends = {} THEN [v |-> {}, n |-> 0]
      ELSE IF n > 10 \/ (n = 10 /\ ~b[n] \subseteq {0}) THEN [v |-> {}, n |-> -n]
      ELSE [v |-> UNION {Shl(b[j] \ {7}, 7 * (j - 1)) : j \in 1..n}, n |-> n]

-----------------------------------------------------------------------------
(* The items a buffer can hold: integers of a fixed width, variable-length *)
(* ones and strings.                                                       *)
Fixed == [op : {"uint"}, n : 1..8, order : {"LE", "BE"}]
Variable == [op : {"uvarint", "varint"}]
Text == [op : {"bytes"}]

(* The widest value the methods for n octets take.                         *)
Width(n) == CASE n = 1 -> 8 [] n = 2 -> 16 [] n \in {3, 4} -> 32 [] OTHER -> 64

Encoded(k, x) ==
  CASE k.op = "uint"    -> PutUint(x, k.n, k.order)
    [] k.op = "uvarint" -> PutUvarint(x)
    [] k.op = "varint"  -> PutUvarint(Zigzag(x))
    [] k.op = "bytes"   -> x

Overwritten(p, b) ==
  [i \in DOMAIN data |-> IF i \in p + 1..p + Len(b) THEN b[i - p] ELSE data[i]]

Left == Len(data) - writePos

Init ==
  /\ data \in {[i \in 1..Room |-> {}]} \cup Foreign
  /\ readPos = 0
  /\ writePos = IF data \in Foreign THEN Len(data) ELSE 0
  /\ written = <<>>
  /\ got = <<>>
  /\ panicked = FALSE

(* The item fits.                                                          *)
Put(k, x) ==
  /\ Len(Encoded(k, x)) <= Left
  /\ data' = Overwritten(writePos, Encoded(k, x))
  /\ writePos' = writePos + Len(Encoded(k, x))
  /\ written' = Append(written, [kind |-> k, x |-> x, at |-> writePos])
  /\ UNCHANGED <<readPos, got, panicked>>

(* It does not, and the method panics.  What was written of it until then  *)
(* stays: nothing, if the index of the last octet is tried first.          *)
Overflow(k, x, part) ==
  /\ Len(Encoded(k, x)) > Left
  /\ data' = Overwritten(writePos, SubSeq(Encoded(k, x), 1, part))
  /\ panicked' = TRUE
  /\ UNCHANGED <<readPos, written, got>>

(* A buffer that was made to be written.                                   *)
Own == writePos = 0 \/ written # <<>>

Writable == Own /\ ~panicked /\ Len(written) < MaxItems

(* WriteUint8 to WriteUintLE, signed and floating ones included.  Those of *)
(* 3, 5, 6 and 7 octets are written octet by octet.                        *)
WriteUint(k, v) ==
  /\ Writable
  /\ v \subseteq 0..Width(k.n) - 1
  /\ \/ Put(k, v)
     \/ Overflow(k, v, IF k.n \in {3, 5, 6, 7} THEN Left ELSE 0) /\ UNCHANGED writePos

WriteUvarint(k, v) ==
  /\ Writable
  /\ Put(k, v) \/ (Overflow(k, v, Left) /\ UNCHANGED writePos)

(* Write: as much as fits, and ErrBufferFull if that is not all.           *)
Write(s) ==
  /\ Writable
  /\ Put([op |-> "bytes"], SubSeq(s, 1, Min({Len(s), Left})))

(* WriteBytes and WriteString: the same, but a panic.                      *)
WriteBytes(s) ==
  /\ Writable
  /\ Overflow([op |-> "bytes"], s, Left)
  /\ writePos' = Len(data)

(* Take: the caller gets the place and fills it.                           *)
Take(s) ==
  /\ Writable
  /\ Put([op |-> "bytes"], s) \/ (Overflow([op |-> "bytes"], s, 0) /\ UNCHANGED writePos)

(* What a method that reads an item of a kind finds: the value and how far *)
(* it moves.                                                               *)
Found(k, n) ==
  LET b  == SubSeq(data, readPos + 1, Len(data))
      uv == GetUvarint(b)
  IN  CASE k.op = "uint"    -> [v |-> GetUint(b, k.n, k.order), n |-> k.n]
        [] k.op = "uvarint" -> uv
        [] k.op = "varint"  -> [v |-> Unzigzag(uv.v), n |-> uv.n]
        [] k.op = "bytes"   -> [v |-> SubSeq(b, 1, n), n |-> n]

(* ReadUint8 to ReadUintLE, ReadUvarint, ReadVarint, ReadBytes and         *)
(* ReadString.  Behind a value that was too long ReadPos moves back.       *)
ReadItem(k, n) ==
  /\ ~panicked
  /\ Len(got) < MaxItems
  /\ IF readPos < 0 \/ (k.op \notin {"uvarint", "varint"} /\ readPos + n > Len(data))
     THEN panicked' = TRUE /\ UNCHANGED <<readPos, got>>
     ELSE /\ readPos' = readPos + Found(k, n).n
          /\ got' = Append(got, [kind |-> k, x |-> Found(k, n).v, n |-> Found(k, n).n])
          /\ UNCHANGED panicked
  /\ UNCHANGED <<data, writePos, written>>

(* Read: as much as there is, without an error.                            *)
Read(n) == ReadItem([op |-> "bytes"], Min({n, Len(data) - readPos}))

(* The reader of a message reads what its writer has written, in order;    *)
(* that of foreign data anything.                                          *)
ReadNext ==
  /\ Own
  /\ Len(got) < Len(written)
  /\ LET w == written[Len(got) + 1] IN ReadItem(w.kind, Len(Encoded(w.kind, w.x)))

ReadForeign ==
  /\ ~Own
  /\ \/ \E k \in Fixed : ReadItem(k, k.n)
     \/ \E k \in Variable : ReadItem(k, 0)
     \/ \E s \in Strings : ReadItem([op |-> "bytes"], Len(s)) \/ Read(Len(s))

Next ==
  \/ \E v \in Values : \/ \E k \in Fixed : WriteUint(k, v)
                       \/ \E k \in Variable : WriteUvarint(k, v)
  \/ \E s \in Strings : Write(s) \/ WriteBytes(s) \/ Take(s)
  \/ ReadNext
  \/ ReadForeign

Spec == Init /\ [][Next]_vars

-----------------------------------------------------------------------------
(* What of a value survives: of an integer of n octets the lowest 8 * n    *)
(* bits, so that a negative one of 3, 5, 6 or 7 octets comes back positive.*)
Kept(w) == IF w.kind.op = "uint" THEN Low(w.x, 8 * w.kind.n) ELSE w.x

(* Whatever is written before and after it, and also when only a part of a *)
(* later one did fit: an item is read back as it was written.              *)
ReadBack ==
  Own => \A k \in DOMAIN got : got[k].x = Kept(written[k])

(* How many octets the code says an item takes, and where the item of a    *)
(* number begins; behind the last one that is WritePos.                    *)
Taken(k, x) ==
  CASE k.op = "uint"    -> k.n
    [] k.op = "uvarint" -> UvarintSize(x)
    [] k.op = "varint"  -> VarintSize(x)
    [] k.op = "bytes"   -> Len(x)

Begin(k) == IF k \in DOMAIN written THEN written[k].at ELSE writePos

(* UvarintSize and VarintSize tell how many octets a value takes, and the  *)
(* constants added to WritePos and ReadPos are what the accessors use: the *)
(* items of a buffer lie end to end, and what is read from a foreign one   *)
(* never takes more octets to write again.                                 *)
SizesTold ==
  /\ Own /\ ~panicked =>
       /\ Begin(1) = 0
       /\ \A k \in DOMAIN written :
            Begin(k + 1) = Begin(k) + Taken(written[k].kind, written[k].x)
  /\ \A k \in DOMAIN got :
       got[k].n > 0 => Taken(got[k].kind, got[k].x) <= got[k].n
=============================================================================
