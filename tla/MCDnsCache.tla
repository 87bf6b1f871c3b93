----------------------------- MODULE MCDnsCache -----------------------------
(***************************************************************************)
(* Instance of Bootstrap, and with it of DnsCache, for TLC.  Zone z. is    *)
(* delegated to the nameservers n. and m., alone or together, with and     *)
(* without addresses; h.z. is an ordinary host; o. is a root server that   *)
(* root.z names without an A line, and gives as an alias of n.             *)
(***************************************************************************)
EXTENDS Bootstrap

MCNames == {".", "z.", "n.", "m.", "h.z.", "o."}
MCParent == [x \in MCNames |-> IF x = "h.z." THEN "z." ELSE "."]
MCAddrs == {"ip1", "ip2"}

MCHintA == [x \in {"n."} |-> {"ip1", "ip2"}]
MCHintNS == [x \in {"."} |-> {"n.", "o."}]
MCHintCN == [x \in {"o."} |-> "n."]

AofM == [rt |-> "A", name |-> "m.", data |-> "ip2"]
AofN == [rt |-> "A", name |-> "n.", data |-> "ip2"]
AofM1 == [rt |-> "A", name |-> "m.", data |-> "ip1"]
AofH == [rt |-> "A", name |-> "h.z.", data |-> "ip1"]
NSn  == [rt |-> "NS", name |-> "z.", data |-> "n."]
NSm  == [rt |-> "NS", name |-> "z.", data |-> "m."]
NSo  == [rt |-> "NS", name |-> "z.", data |-> "o."]
NSz  == [rt |-> "NS", name |-> "z.", data |-> "z."]
CNm  == [rt |-> "CNAME", name |-> "m.", data |-> "n."]
CNh  == [rt |-> "CNAME", name |-> "h.z.", data |-> "m."]
SOAz == [rt |-> "SOA", name |-> "z.", data |-> "n."]

Reply(rrs) == [q |-> "h.z.", t |-> "A", rrs |-> rrs]

MCMessages ==
  {Reply(rrs) : rrs \in
     { {NSm, AofM, AofH},        \* a referral with glue and a host
       {NSm, NSo},               \* without glue: m. loses its addresses
       {NSn, AofN, AofM1},       \* an address that only ExistA can admit
       {CNm, CNh},               \* aliases of a server and of a host
       {CNm, NSm},
       {SOAz, NSm},
       {NSz, AofH} }}

Permuted == {[x \in Threads |-> IF x = i THEN j ELSE IF x = j THEN i ELSE x] :
               i, j \in Threads}

MCHintAAAA == [x \in {"n."} |-> {"ip2"}]

MCWritten == MCNames \cup {"N.", "O."}
MCLower == [w \in MCWritten |-> CASE w = "N." -> "n." [] w = "O." -> "o." [] OTHER -> w]

Ln(k, n, d) == [kind |-> k, name |-> n, data |-> d]

(* Lines in two orders, with capitals and repetitions, and a last line     *)
(* that counts or does not; two files that cannot be loaded.               *)
MCFiles ==
  {[lines |-> <<Ln("NS", ".", "N."), Ln("A", "N.", "ip1"), Ln("AAAA", "n.", "ip2"),
                Ln("CNAME", "o.", "m."), Ln("NS", ".", "n."), Ln("A", "n.", "ip2"),
                Ln("MX", "z.", "n."), Ln("NS", ".", "o."), Ln("CNAME", "O.", "n.")>>,
    ended |-> TRUE],
   [lines |-> <<Ln("CNAME", "o.", "n."), Ln("A", "n.", "ip2"), Ln("A", "n.", "ip1"),
                Ln("NS", ".", "O."), Ln("AAAA", "N.", "ip2"), Ln("NS", ".", "n."),
                Ln("NS", "z.", "m.")>>,
    ended |-> FALSE],
   [lines |-> <<Ln("A", "n.", "ip1"), [kind |-> "short"]>>, ended |-> TRUE],
   [lines |-> <<Ln("NS", ".", "n."), Ln("NS", "n.", "N.")>>, ended |-> TRUE]}
=============================================================================
