------------------------------- MODULE MCWire -------------------------------
(***************************************************************************)
(* Messages for module Wire: names that share suffixes, the root, and      *)
(* every type of record, in every section.                                 *)
(***************************************************************************)
EXTENDS Wire

dot   == <<46>>
a     == <<97, 46>>
ba    == <<98, 46, 97, 46>>
cba   == <<99, 46, 98, 46, 97, 46>>
dcba  == <<100, 46>> \o cba
xyba  == <<120, 121, 46>> \o ba

A(n, x)     == [rt |-> "A", name |-> n, pre |-> <<>>, names |-> <<>>, post |-> <<x, 0, 2, 1>>]
AAAA(n)     == [rt |-> "AAAA", name |-> n, pre |-> <<>>, names |-> <<>>, post |-> Zeros(15) \o <<1>>]
NS(n, d)    == [rt |-> "NS", name |-> n, pre |-> <<>>, names |-> <<d>>, post |-> <<>>]
CNAME(n, d) == [rt |-> "CNAME", name |-> n, pre |-> <<>>, names |-> <<d>>, post |-> <<>>]
MX(n, d)    == [rt |-> "MX", name |-> n, pre |-> <<0, 10>>, names |-> <<d>>, post |-> <<>>]
SOA(n, d)   == [rt |-> "SOA", name |-> n, pre |-> <<>>, names |-> <<d, cba>>, post |-> Zeros(20)]
TXT(n)      == [rt |-> "TXT", name |-> n, pre |-> <<>>, names |-> <<>>, post |-> <<7>>]

Reply(q, an, ns, ex, c) == [q |-> q, rrs |-> <<an, ns, ex>>, compress |-> c]

Answers == {<<>>, <<A(cba, 192)>>, <<CNAME(cba, xyba), A(xyba, 10)>>, <<MX(ba, dot)>>,
            <<AAAA(cba), AAAA(ba)>>, <<TXT(a)>>}
Authorities == {<<>>, <<NS(ba, dcba), NS(ba, xyba)>>, <<SOA(dot, a)>>, <<NS(dot, a)>>}
Additionals == {<<>>, <<A(dcba, 0), A(xyba, 63)>>, <<AAAA(xyba), TXT(dot)>>}

(* A label of 64 octets cannot be packed.                                  *)
TooLong == [i \in 1..65 |-> IF i = 65 THEN 46 ELSE 97]

MCMsgs ==
  {Reply(q, an, ns, ex, c) : q \in {dot, cba}, an \in Answers, ns \in Authorities,
                             ex \in Additionals, c \in BOOLEAN}
    \cup {Reply(TooLong, <<>>, <<>>, <<>>, FALSE)}

(* The messages of run wire are among those the theorems are about.        *)
ASSUME MessagesAreOrdinary == \A m \in MCMsgs : OrdinaryMessage(m) /\ Modest(m)

(* The name with the labels "a.b" and "c", as UnpackDomainName writes it.  *)
EscapedMsgs == {Reply(<<97, 92, 46, 98, 46, 99, 46>>, an, ns, <<>>, FALSE) :
                  an \in Answers, ns \in Authorities}

(* An answer of another type, and nameservers with it.                     *)
TextMsgs == {Reply(q, <<TXT(ba)>>, ns, ex, FALSE) :
               q \in {ba, cba}, ns \in Authorities, ex \in Additionals}
=============================================================================
