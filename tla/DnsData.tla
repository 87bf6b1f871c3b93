------------------------------ MODULE DnsData ------------------------------
(***************************************************************************)
(* Names, resource records and decoded messages, and the pure functions    *)
(* the server applies to them: the DataSet accessors of                    *)
(* models/recursion.go and the record selection of models/server.go.       *)
(*                                                                         *)
(* A decoded message is the question it echoes and the SET of its records. *)
(* The three sections are merged because the server treats them alike      *)
(* (DataSet.fromMsg and every loop of serve visit Answer, Ns and Extra in  *)
(* turn), and their order is dropped.                                      *)
(***************************************************************************)
EXTENDS Naturals, Sequences, FiniteSets

CONSTANTS
  Names,    \* domain names, in lower case and with the final dot
  Root,     \* the name "."
  Parent,   \* Parent[n]: n without its first label
  Addrs,    \* network addresses
  Messages  \* the decoded replies the environment may send

(* Question types.  "TXT" stands for every type the server has no table    *)
(* for.                                                                    *)
QTypes == {"A", "AAAA", "NS", "MX", "TXT"}

Question == [q : Names, t : QTypes]

RR == [rt : {"A", "AAAA"}, name : Names, data : Addrs]
        \cup [rt : {"NS", "MX", "CNAME", "SOA"}, name : Names, data : Names]

Message == [q : Names, t : QTypes, rrs : SUBSET RR]

RRof(rrs, rt) == {r \in rrs : r.rt = rt}

DataOf(rrs, rt, n) == {r.data : r \in {x \in rrs : x.rt = rt /\ x.name = n}}

(* One owner has one alias.  (DataSet_Cname takes the first of them.)      *)
OneAliasEach(m) ==
  \A r, s \in RRof(m.rrs, "CNAME") : r.name = s.name => r = s

ASSUME NamesAssumption ==
  /\ Root \in Names
  /\ Parent \in [Names -> Names]

ASSUME MessagesAssumption ==
  /\ Messages \subseteq Message
  /\ \A m \in Messages : OneAliasEach(m)

-----------------------------------------------------------------------------
(* Selection of records by serve.                                          *)

(* A reply without any record, or with a start-of-authority record in any  *)
(* section, says that there is no answer.                                  *)
Negative(m) == m.rrs = {} \/ RRof(m.rrs, "SOA") # {}

(* The delegation records a message carries, by zone.                      *)
LocalNS(m) == [z \in {r.name : r \in RRof(m.rrs, "NS")} |->
                 DataOf(m.rrs, "NS", z)]

(* The nameservers a message names.                                        *)
ServersIn(m) == {r.data : r \in RRof(m.rrs, "NS")}

\* Mutation: no record is compared.
SelfServedUnchecked(m) == FALSE

(* A zone delegated to the name of the zone itself.                        *)
SelfServed(m) == \E r \in RRof(m.rrs, "NS") : r.name = r.data

-----------------------------------------------------------------------------
(* The accessors of a DataSet.                                             *)

(* The name a chain of aliases that starts at q ends with.                 *)
EndOf(chain, q) == IF chain = <<>> THEN q ELSE chain[Len(chain)].data

(* Each alias starts where the one before it ends, the first at q.         *)
IsChain(chain, q) ==
  \A k \in 1..Len(chain) :
    chain[k].name = IF k = 1 THEN q ELSE chain[k - 1].data

(* The chains of aliases in a data set that start at q and lead as far as  *)
(* they can: exactly one, or none if the aliases lead into a loop.         *)
AliasChains(rrs, q) ==
  LET cn == RRof(rrs, "CNAME")
  IN  {s \in UNION {[1..k -> cn] : k \in 0..Cardinality(cn)} :
         /\ IsChain(s, q)
         /\ \A r \in cn : r.name # EndOf(s, q)}

(* The aliases of a data set from q on.  The code recurses along them, and *)
(* in a loop without end: that is for the caller to model.                 *)
DataSet_Cname(rrs, q) ==
  IF AliasChains(rrs, q) = {} THEN <<>>
  ELSE CHOOSE s \in AliasChains(rrs, q) : TRUE

(* The records of one type that a data set holds for a name.               *)
DataSetRR(rrs, t, q) == {r \in rrs : r.rt = t /\ r.name = q}
=============================================================================
