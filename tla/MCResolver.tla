----------------------------- MODULE MCResolver -----------------------------
(***************************************************************************)
(* Instances of Resolver for TLC.  The root zone is served by r., whose    *)
(* address root.z gives; zone z. by s.; h.z. is a host and a.z. an alias   *)
(* of it; zone y. may have its server in z., and z. its own in y.          *)
(* The worlds differ in what the servers reply.                            *)
(***************************************************************************)
EXTENDS Resolver

MCNames == {".", "r.", "o.", "z.", "s.", "h.z.", "a.z.", "t.", "y.", "s.y.", "s.z."}
MCParent == [x \in MCNames |->
               CASE x \in {"h.z.", "a.z.", "s.z."} -> "z."
                 [] x = "s.y." -> "y."
                 [] OTHER -> "."]
MCAddrs == {"root", "root2", "srv", "host"}
MCHintA == [x \in {"r."} |-> {"root"}]
MCTwoRoots == [x \in {"r."} |-> {"root", "root2"}]
MCHintNS == [x \in {"."} |-> {"r."}]
MCHintsWithO == [x \in {"."} |-> {"r.", "o."}]
MCNoAAAA == Empty
MCNoHintCN == Empty
MCHintAAAA == [x \in {"r."} |-> {"root2"}]

NSz  == [rt |-> "NS", name |-> "z.", data |-> "s."]
AofS == [rt |-> "A", name |-> "s.", data |-> "srv"]
AofH == [rt |-> "A", name |-> "h.z.", data |-> "host"]
CNa  == [rt |-> "CNAME", name |-> "a.z.", data |-> "h.z."]
MXh  == [rt |-> "MX", name |-> "z.", data |-> "h.z."]
MXa  == [rt |-> "MX", name |-> "z.", data |-> "a.z."]
SOAz == [rt |-> "SOA", name |-> "z.", data |-> "s."]

Host  == [q |-> "h.z.", t |-> "A"]
Alias == [q |-> "a.z.", t |-> "A"]
Serv  == [q |-> "s.", t |-> "A"]

Asks == [q : MCNames, t : QTypes, to : MCAddrs]

Of(a) == [q |-> a.q, t |-> a.t]

World(Says(_)) ==
  [a \in Asks |-> {[q |-> a.q, t |-> a.t, rrs |-> rrs] : rrs \in Says(a)}]

Roots == {"root", "root2"}

(* Nameservers that answer: s. for the zone, with the alias alone so that  *)
(* its target must be asked for, and r. with a referral.                   *)
Zone(a) == CASE Of(a) = Host  -> {{AofH}}
             [] Of(a) = Alias -> {{CNa}}
             [] OTHER -> {}

(* With the address of s. in the referral.                                 *)
GlueSays(a) == CASE a.to = "srv" -> Zone(a)
                 [] a.to \in Roots /\ Of(a) \in {Host, Alias} -> {{NSz, AofS}}
                 [] OTHER -> {}
GlueWorld == World(GlueSays)

(* The root may also know the alias and its target.                        *)
PairSays(a) == IF a.to \in Roots /\ Of(a) = Alias
               THEN {{NSz, AofS}, {CNa, AofH}} ELSE GlueSays(a)
PairWorld == World(PairSays)

(* Without: the address of s. must be asked for.                           *)
BareSays(a) == CASE a.to = "srv" -> Zone(a)
                 [] a.to \in Roots /\ Of(a) \in {Host, Alias} -> {{NSz}}
                 [] a.to \in Roots /\ Of(a) = Serv -> {{AofS}}
                 [] OTHER -> {}
BareWorld == World(BareSays)

(* Now with, now without.                                                  *)
MixedWorld == [a \in Asks |-> GlueWorld[a] \cup BareWorld[a]]

(* Nameservers that may also deny.                                         *)
DenySays(a) == IF BareSays(a) = {} THEN {} ELSE BareSays(a) \cup {{SOAz}}
DenyWorld == World(DenySays)

(* Nameservers that are aliases, of each other even, or whose addresses    *)
(* are to be asked for in each other's zone, and a reply with a loop of    *)
(* aliases for the name itself.                                            *)
NSr(z, v) == [rt |-> "NS", name |-> z, data |-> v]
CNr(n, v) == [rt |-> "CNAME", name |-> n, data |-> v]
Ar(n) == [rt |-> "A", name |-> n, data |-> "srv"]

TangledSays(a) ==
  CASE a.t # "A" \/ a.to = "host" -> {}
    [] a.to = "srv" -> IF a.q \in {"s.y.", "s.z."} THEN {{Ar(a.q)}} ELSE Zone(a)
    [] a.to = "root2" /\ a.q \notin {"s.", "t."} -> {}
    [] a.q = "h.z." -> {{NSr("z.", "s."), CNr("s.", "t."), Ar("t.")},
                        {NSr("z.", "s."), CNr("s.", "t.")},
                        {NSr("z.", "s."), NSr("z.", "t."), CNr("s.", "t."), CNr("t.", "s.")},
                        {NSr("z.", "s.y.")}, {SOAz},
                        {CNr("h.z.", "a.z."), CNr("a.z.", "h.z.")}}
    [] a.q \in {"s.", "t."} -> {{Ar(a.q)}, {CNr("s.", "t."), Ar("t.")}, {SOAz}}
    [] a.q = "s.y." -> {{NSr("y.", "s.z.")}, {NSr("y.", "s.z."), Ar("s.z.")}}
    [] a.q = "s.z." -> {{NSr("z.", "s.y.")}}
    [] OTHER -> {}
TangledWorld == World(TangledSays)
TangledMessages == UNION {TangledWorld[a] : a \in Asks}

(* The mail servers of the zone, a question of a type without a table, one *)
(* of a type root.z answers, and one for the address of o., a root server  *)
(* that root.z names without an address.                                   *)
Mail == [q |-> "z.", t |-> "MX"]
KindsAsked == [c \in Clients |->
                 CASE c = "txt"  -> [q |-> "h.z.", t |-> "TXT"]
                   [] c = "aaaa" -> [q |-> "r.", t |-> "AAAA"]
                   [] c = "mx"   -> Mail
                   [] OTHER      -> [q |-> "o.", t |-> "A"]]
KindsSays(a) == CASE a.t = "TXT" -> {{NSz, AofS}}
                  [] Of(a) = Mail -> IF a.to \in Roots THEN {{NSz, AofS}} ELSE {{MXh, MXa}}
                  [] OTHER -> GlueSays(a)
KindsWorld == World(KindsSays)

GlueMessages == UNION {GlueWorld[a] : a \in Asks}
PairMessages == UNION {PairWorld[a] : a \in Asks}
BareMessages == UNION {BareWorld[a] : a \in Asks}
MixedMessages == UNION {MixedWorld[a] : a \in Asks}
KindsMessages == UNION {KindsWorld[a] : a \in Asks}
DenyMessages == UNION {DenyWorld[a] : a \in Asks}

HostAsked == [c \in Clients |-> Host]
HostAlias == [c \in Clients |-> IF c = "c1" THEN Host ELSE Alias]
=============================================================================
