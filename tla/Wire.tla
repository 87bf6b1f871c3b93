-------------------------------- MODULE Wire --------------------------------
(***************************************************************************)
(* The wire format of models/dns.go and models/rrs.go: PackBuffer, which   *)
(* writes a message one item at a time, and Unpack, which reads one.  A    *)
(* behaviour packs one message, carries it in a datagram and unpacks it.   *)
(*                                                                         *)
(* An octet is a number.  A name is the sequence of its characters, each   *)
(* label followed by a dot, as the strings of the code are.  Ids, flags,   *)
(* classes and times to live have fixed places and a fixed value, 0.       *)
(* Offsets count from 0, as in the code; sequences count from 1.           *)
(***************************************************************************)
EXTENDS Integers, Sequences, FiniteSets, FiniteSetsExt, SequencesExt

CONSTANTS
  Msgs,       \* the messages to be sent
  MaxPtr,     \* 10: how many pointers UnpackDomainName follows
  MaxOffset,  \* maxCompressionOffset, 2^14
  Datagram    \* 512: the length of the buffer a datagram is read into

VARIABLES
  sent,   \* the message: question, the three sections, Compress
  phase,  \* "pack", "read", "end", "error" or "panic"
  out,    \* the octets written so far; the datagram, once it is read
  comp,   \* the map compression: offsets of the names written so far
  item,   \* how many items have been packed
  off,    \* where Unpack reads on
  asked,  \* the question Unpack has read
  got     \* the records Unpack has read, by section

vars == <<sent, phase, out, comp, item, off, asked, got>>

Dot == 46
Backslash == 92

(* What the rdata of each type consists of: octets, names, octets.  TXT    *)
(* stands for every type UnpackRR does not know; this code never packs     *)
(* one, other senders do.                                                  *)
Layout ==
  [A     |-> [code |-> 1,  pre |-> 0, names |-> 0, post |-> 4],
   NS    |-> [code |-> 2,  pre |-> 0, names |-> 1, post |-> 0],
   CNAME |-> [code |-> 5,  pre |-> 0, names |-> 1, post |-> 0],
   SOA   |-> [code |-> 6,  pre |-> 0, names |-> 2, post |-> 20],
   MX    |-> [code |-> 15, pre |-> 2, names |-> 1, post |-> 0],
   TXT   |-> [code |-> 16, pre |-> 0, names |-> 0, post |-> 1],
   AAAA  |-> [code |-> 28, pre |-> 0, names |-> 0, post |-> 16]]

Known == DOMAIN Layout \ {"TXT"}

Byte == 0..255

Name == Seq(Byte)

(* A record; the parts of its rdata are those of its type.                 *)
Record ==
  {r \in [rt : DOMAIN Layout, name : Name, pre : Seq(Byte), names : Seq(Name), post : Seq(Byte)] :
     /\ Len(r.pre) = Layout[r.rt].pre
     /\ Len(r.names) = Layout[r.rt].names
     /\ Len(r.post) = Layout[r.rt].post}

ASSUME WireAssumption ==
  /\ MaxPtr \in Nat
  /\ MaxOffset \in 1..16384
  /\ Datagram \in Nat
  /\ Datagram >= 12

(* A message has a question and three sections.                            *)
ASSUME MessagesAssumption ==
  \A m \in Msgs : /\ m \in [q : Name, rrs : Seq(Seq(Record)), compress : BOOLEAN]
                  /\ Len(m.rrs) = 3

(* A number as two octets; what does not fit is cut off.                   *)
U16(n) == <<(n \div 256) % 256, n % 256>>

At16(msg, p) == msg[p + 1] * 256 + msg[p + 2]

(* A pointer is an offset with its two highest bits set.                   *)
Pointer(t) == U16(49152 + t)

Target(msg, p) == At16(msg, p) - 49152

Zeros(n) == [i \in 1..n |-> 0]

-----------------------------------------------------------------------------
(* Packing.  A packer's state is the octets, the map and whether there was *)
(* no error.                                                               *)

(* Where the labels of a name start, and where the label that starts at b  *)
(* has its dot.                                                            *)
Starts(s) == {b \in 1..Len(s) : b = 1 \/ s[b - 1] = Dot}

DotAfter(s, b) == Min({i \in b..Len(s) : s[i] = Dot})

Suffix(s, b) == SubSeq(s, b, Len(s))

(* Only the first label may be empty: two dots in a row are an error.      *)
Legal(s) ==
  /\ s[Len(s)] = Dot
  /\ \A b \in Starts(s) : DotAfter(s, b) - b \in (IF b = 1 THEN 0 ELSE 1)..63

\* Mutation: every label is put down at the offset of the name.
PlaceOfName(b, p) == Len(p.msg)

(* Where the label at b of a name is written.                              *)
PlaceOf(b, p) == Len(p.msg) + b - 1

(* Every label trades its dot for an octet with its length.  The first     *)
(* suffix that was written before is replaced by a pointer, and the        *)
(* suffixes in front of it are added to the map.  An escaped dot is a dot: *)
(* escapedDot is never set.  The empty name leaves no octet at all.        *)
PackDomainName(s, compress, p) ==
  LET hits  == {b \in Starts(s) : compress /\ Suffix(s, b) \in DOMAIN p.comp}
      stop  == IF hits = {} THEN Len(s) + 1 ELSE Min(hits)
      fresh == {b \in Starts(s) : compress /\ b < stop /\ PlaceOf(b, p) < MaxOffset}
      wire  == [i \in 1..stop - 1 |->
                  IF i \in Starts(s) THEN DotAfter(s, i) - i ELSE s[i - 1]]
      tail  == IF hits = {} THEN <<0>> ELSE Pointer(p.comp[Suffix(s, stop)])
      known == [x \in DOMAIN p.comp \cup {Suffix(s, b) : b \in fresh} |->
                  IF x \in DOMAIN p.comp THEN p.comp[x] ELSE PlaceOf(Len(s) - Len(x) + 1, p)]
  IN  IF s = <<>> THEN p
      ELSE IF s = <<Dot>> THEN [p EXCEPT !.msg = Append(@, 0)]
      ELSE IF ~Legal(s) THEN [p EXCEPT !.ok = FALSE]
      ELSE [p EXCEPT !.msg = @ \o wire \o tail, !.comp = known]

(* Where the name at p ends, as rawSetRdlength looks for it: at most at the *)
(* end of the message.                                                     *)
NameEnd(msg, p) ==
  LET end[i \in 0..Len(msg)] ==
        LET c    == msg[i + 1]
            next == IF c < 64 THEN i + 1 + c ELSE i + 1
        IN  IF i = Len(msg) THEN i
            ELSE IF c = 0 THEN i + 1
            ELSE IF c >= 192 THEN i + 2
            ELSE IF next > Len(msg) THEN Len(msg) ELSE end[next]
  IN  end[p]

(* The length of what follows the header of the record that starts there.  *)
(* One that does not fit is not put in.                                    *)
RawSetRdlength(msg, start) ==
  LET p == NameEnd(msg, start) + 8
      n == Len(msg) - (p + 2)
  IN  IF n > 65535 THEN msg ELSE [msg EXCEPT ![p + 1] = U16(n)[1], ![p + 2] = U16(n)[2]]

(* The length the pack method of the type puts in first.                   *)
FirstRdlength(rt) == CASE rt = "A" -> 4 [] rt = "AAAA" -> 8 [] OTHER -> 0

PackRR(r, compress, p) ==
  LET owner == PackDomainName(r.name, compress, p)
      head  == [owner EXCEPT !.msg = @ \o U16(Layout[r.rt].code) \o Zeros(6)
                                       \o U16(FirstRdlength(r.rt)) \o r.pre]
      body[k \in 0..Len(r.names)] ==
        IF k = 0 THEN head ELSE PackDomainName(r.names[k], compress, body[k - 1])
      whole == [body[Len(r.names)] EXCEPT !.msg = @ \o r.post]
  IN  IF whole.ok THEN [whole EXCEPT !.msg = RawSetRdlength(@, Len(p.msg))]
      ELSE whole

PackQuestion(s, compress, p) ==
  LET name == PackDomainName(s, compress, p)
  IN  [name EXCEPT !.msg = @ \o Zeros(4)]

(* What the names in the rdata of a record take.                           *)
LenNames(r) ==
  LET sum[k \in 0..Len(r.names)] ==
        IF k = 0 THEN 0 ELSE sum[k - 1] + Len(r.names[k]) + 1
  IN  sum[Len(r.names)]

\* Mutation: the preference is forgotten.
LenRRNoPreference(r) == Len(r.name) + 1 + 10 + LenNames(r) + Len(r.post)

(* The length of a record, without compression.                            *)
LenRR(r) == Len(r.name) + 1 + 10 + Len(r.pre) + LenNames(r) + Len(r.post)

Records(m) == m.rrs[1] \o m.rrs[2] \o m.rrs[3]

(* Len up to each record; Compress is FALSE whenever it is called.         *)
LenUpTo(m) ==
  LET upTo[k \in 0..Len(Records(m))] ==
        IF k = 0 THEN 12 + Len(m.q) + 1 + 2 + 2
        ELSE upTo[k - 1] + LenRR(Records(m)[k])
  IN  upTo

LenMsg(m) == LenUpTo(m)[Len(Records(m))]

Header(m) == Zeros(4) \o U16(1) \o U16(Len(m.rrs[1])) \o U16(Len(m.rrs[2])) \o U16(Len(m.rrs[3]))

Init ==
  /\ sent \in Msgs
  /\ phase = "pack"
  /\ out = Header(sent)
  /\ comp = [s \in {} |-> 0]
  /\ item = 0
  /\ off = 0
  /\ asked = <<>>
  /\ got = <<>>

(* An error ends PackBuffer with no message; its callers do not look at    *)
(* the error.                                                              *)
Pack ==
  /\ phase = "pack"
  /\ item <= Len(Records(sent))
  /\ LET p == [msg |-> out, comp |-> comp, ok |-> TRUE]
         w == IF item = 0 THEN PackQuestion(sent.q, sent.compress, p)
              ELSE PackRR(Records(sent)[item], sent.compress, p)
     IN  IF w.ok
         THEN /\ out' = w.msg
              /\ comp' = w.comp
              /\ item' = item + 1
              /\ UNCHANGED phase
         ELSE /\ out' = <<>>
              /\ phase' = "error"
              /\ UNCHANGED <<comp, item>>
  /\ UNCHANGED <<sent, off, asked, got>>

(* The datagram is read into a buffer that may be too short for it.        *)
Transmit ==
  /\ phase = "pack"
  /\ item > Len(Records(sent))
  /\ out' = SubSeq(out, 1, Min({Len(out), Datagram}))
  /\ phase' = "read"
  /\ off' = 12
  /\ UNCHANGED <<sent, comp, item, asked, got>>

-----------------------------------------------------------------------------
(* Unpacking.                                                              *)

(* How a character of a label is written in a name.                        *)
Escaped(b) ==
  CASE b \in {Dot, 40, 41, 59, 32, 64, 34, Backslash} -> <<Backslash, b>>
    [] b = 9  -> <<Backslash, 116>>
    [] b = 13 -> <<Backslash, 114>>
    [] b \notin 32..126 \cup {9, 13} ->
         <<Backslash, 48 + (b \div 100), 48 + ((b \div 10) % 10), 48 + (b % 10)>>
    [] OTHER -> <<b>>

\* Mutation: reading goes on behind the last pointer.
BehindLast(p, ptrs, ret) == p

(* Where reading goes on after the name: behind its first pointer.         *)
Behind(p, ptrs, ret) == IF ptrs = 0 THEN p ELSE ret

(* The loop of UnpackDomainName: it is at p, has read the characters s and *)
(* followed ptrs pointers, and reading will go on at ret.                  *)
Reading == [p : Nat, s : Seq(Byte), ptrs : 0..MaxPtr, ret : Nat]

(* The c characters behind p, and the dot of the label.                    *)
LabelAt(msg, p, c) ==
  LET read[j \in 0..c] == IF j = 0 THEN <<>> ELSE read[j - 1] \o Escaped(msg[p + j])
  IN  Append(read[c], Dot)

NameFrom(msg) ==
  LET bad == [s |-> <<>>, off |-> Len(msg)]
      from[x \in Reading] ==
        LET c == msg[x.p + 1]
        IN  IF x.p >= Len(msg) THEN bad
            ELSE IF c = 0
            THEN [s |-> IF x.s = <<>> THEN <<Dot>> ELSE x.s,
                  off |-> Behind(x.p + 1, x.ptrs, x.ret)]
            ELSE IF c < 64
            THEN IF x.p + 1 + c > Len(msg) THEN bad
                 ELSE from[[x EXCEPT !.p = @ + 1 + c, !.s = @ \o LabelAt(msg, x.p + 1, c)]]
            ELSE IF c < 192 \/ x.p + 1 >= Len(msg) \/ x.ptrs = MaxPtr THEN bad
            ELSE from[[x EXCEPT !.p = Target(msg, x.p), !.ptrs = @ + 1,
                                !.ret = Behind(x.p + 2, x.ptrs, x.ret)]]
  IN  from

UnpackDomainName(msg, p) == NameFrom(msg)[[p |-> p, s |-> <<>>, ptrs |-> 0, ret |-> p]]

(* The outcomes of UnpackRR: an index out of range, a type it does not     *)
(* know (also when nothing is left to read), a record, or a bare header,   *)
(* which none of the readers of a message looks at.                        *)
Crash == [rr |-> <<>>, off |-> -2]

NotFound == [rr |-> <<>>, off |-> -1]

Bare(end) == [rr |-> <<>>, off |-> end]

(* The rdata of a record.  What is cut off leaves the end unreached.       *)
Rdata(msg, start, rt) ==
  LET l  == Layout[rt]
      p0 == start + l.pre
      n1 == UnpackDomainName(msg, p0)
      n2 == UnpackDomainName(msg, n1.off)
      ns == SubSeq(<<n1, n2>>, 1, l.names)
      p  == IF ns = <<>> THEN p0 ELSE ns[Len(ns)].off
  IN  IF p0 > Len(msg) THEN [off |-> -2, data |-> <<>>]
      ELSE IF p + l.post > Len(msg) THEN [off |-> Len(msg), data |-> <<>>]
      ELSE [off  |-> p + l.post,
            data |-> <<SubSeq(msg, start + 1, p0), [i \in DOMAIN ns |-> ns[i].s],
                       SubSeq(msg, p + 1, p + l.post)>>]

(* The header of a record: owner, type and the extent of the rdata.        *)
HeaderAt(msg, p) ==
  LET n == UnpackDomainName(msg, p)
  IN  [name |-> n.s, start |-> n.off + 10,
       types |-> {t \in Known : Layout[t].code = At16(msg, n.off)},
       end |-> n.off + 10 + At16(msg, n.off + 8)]

Overruns(msg, p) == UnpackDomainName(msg, p).off + 10 > Len(msg)

UnpackRR(msg, p) ==
  IF p = Len(msg) THEN NotFound
  ELSE IF p = -1 \/ Overruns(msg, p) THEN Crash
  ELSE LET h    == HeaderAt(msg, p)
           body == SubSeq(msg, 1, Min({h.end, Len(msg)}))
           t    == CHOOSE x \in h.types : TRUE
           d    == Rdata(body, h.start, t)
       IN  IF h.types = {} THEN NotFound
           ELSE IF d.off = -2 THEN Crash
           ELSE IF d.off # h.end THEN Bare(h.end)
           ELSE [off |-> h.end,
                 rr  |-> [rt |-> t, name |-> h.name, pre |-> d.data[1],
                          names |-> d.data[2], post |-> d.data[3]]]

(* The question.  A name that cannot be read leaves nothing to read.       *)
ReadQuestion ==
  /\ phase = "read"
  /\ got = <<>>
  /\ LET n == UnpackDomainName(out, off) IN
     IF n.off < Len(out) /\ n.off + 4 > Len(out) /\ n.off + 2 # Len(out)
     THEN /\ phase' = "panic"
          /\ UNCHANGED <<off, asked, got>>
     ELSE /\ off' = Min({n.off + 4, Len(out)})
          /\ asked' = n.s
          /\ got' = <<<<>>>>
          /\ UNCHANGED phase
  /\ UNCHANGED <<sent, out, comp, item>>

(* How many records the header promises for a section.                     *)
Count(k) == At16(out, 4 + 2 * k)

Section == Len(got)

(* One turn of unpackRRslice.                                              *)
ReadRR ==
  /\ phase = "read"
  /\ got # <<>>
  /\ Len(got[Section]) < Count(Section)
  /\ LET r == UnpackRR(out, off) IN
     /\ r.off >= 0
     /\ off' = r.off
     /\ got' = [got EXCEPT ![Section] = Append(@, r.rr)]
  /\ UNCHANGED <<sent, phase, out, comp, item, asked>>

(* The section is complete, or UnpackRR gave up on it; Unpack goes on with *)
(* the next one, at the offset -1 in the second case.                      *)
NextSection ==
  /\ phase = "read"
  /\ got # <<>>
  /\ LET r == UnpackRR(out, off)
         more == Len(got[Section]) < Count(Section)
     IN  /\ more => r = NotFound
         /\ off' = IF more THEN -1 ELSE off
  /\ IF Section = 3 THEN phase' = "end" /\ UNCHANGED got
                    ELSE got' = Append(got, <<>>) /\ UNCHANGED phase
  /\ UNCHANGED <<sent, out, comp, item, asked>>

(* An index out of range: nothing recovers, and the process ends.          *)
Panic ==
  /\ phase = "read"
  /\ got # <<>>
  /\ Len(got[Section]) < Count(Section)
  /\ UnpackRR(out, off) = Crash
  /\ phase' = "panic"
  /\ UNCHANGED <<sent, out, comp, item, off, asked, got>>

Next == Pack \/ Transmit \/ ReadQuestion \/ ReadRR \/ NextSection \/ Panic

Spec == Init /\ [][Next]_vars

-----------------------------------------------------------------------------
(* What the theorems of WireProofs suppose of the messages.                *)

Dots(s) == {i \in 1..Len(s) : s[i] = Dot}

(* Names whose characters need no escape, but for the dots: what the       *)
(* program makes of ordinary host names.                                   *)
Plain(s) ==
  \/ s = <<Dot>>
  \/ /\ s # <<>>
     /\ s[1] # Dot
     /\ \A i \in 1..Len(s) : s[i] = Dot \/ Escaped(s[i]) = <<s[i]>>

(* A name in the compression map can be read at its place: a chain of      *)
(* pointers, from each label to the next, is not too long to follow.       *)
Few(s) == Cardinality(Dots(s)) <= MaxPtr + 1

(* A name can be read wherever it stands: it may be one more pointer.      *)
Short(s) == Cardinality(Dots(s)) <= MaxPtr

(* What a field of two octets can tell.                                    *)
Small(n) == n <= 65535

PlainIn(r) == Plain(r.name) /\ \A k \in 1..Len(r.names) : Plain(r.names[k])

FewIn(r) == Few(r.name) /\ \A k \in 1..Len(r.names) : Few(r.names[k])

ShortIn(r) == Short(r.name) /\ \A k \in 1..Len(r.names) : Short(r.names[k])

PlainMessage(m) == Plain(m.q) /\ \A k \in 1..Len(Records(m)) : PlainIn(Records(m)[k])

OrdinaryMessage(m) ==
  /\ PlainMessage(m)
  /\ Few(m.q) /\ \A k \in 1..Len(Records(m)) : FewIn(Records(m)[k])

Modest(m) ==
  /\ Short(m.q)
  /\ \A k \in 1..Len(Records(m)) : ShortIn(Records(m)[k])
  /\ Small(LenMsg(m))

OrdinaryNames == \A m \in Msgs : OrdinaryMessage(m)

ModestMessages == \A m \in Msgs : Modest(m)

-----------------------------------------------------------------------------
(* The compression map tells the truth at every moment: at the offset it   *)
(* has for a name, the octets written so far read as that name, pointers   *)
(* to earlier names and all.  One wrong offset corrupts a name packed much *)
(* later.                                                                  *)
CompressionSound ==
  phase = "pack" =>
    \A s \in DOMAIN comp : UnpackDomainName(out, comp[s]).s = s

(* The buffer PackBuffer makes from Len has room for whatever is packed:   *)
(* no step packs more than the lengths of its items, compressed or not.    *)
BufferSuffices == phase = "pack" => Len(out) <= LenMsg(sent)

(* Whatever becomes of a datagram that is cut short or that has records of *)
(* an unknown type: the records that were read are those that were sent,   *)
(* in their places, with a bare header for one that was cut.  And a        *)
(* message that comes whole and has no such records is read whole.         *)
Decoded ==
  /\ phase \in {"read", "end"} =>
       \A k \in DOMAIN got :
         \A j \in DOMAIN got[k] : got[k][j] \in {<<>>, sent.rrs[k][j]}
  /\ phase = "end" /\ (\A r \in Range(Records(sent)) : r.rt \in Known)
       /\ off <= Len(out) /\ Len(out) < Datagram =>
       asked = sent.q /\ got = sent.rrs

(* "Except for escaped dots (\.), which are normal dots": a label with a   *)
(* dot of its own comes back as it was.                                    *)
EscapedDotsKept == phase = "end" => asked = sent.q

(* "if off == -1 { //return ErrRdata }": a record of a type that is not    *)
(* known is an error of the message and not the end of the process.        *)
UnknownTypesSurvived == phase # "panic"
=============================================================================
