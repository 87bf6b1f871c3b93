------------------------------ MODULE DnsCache ------------------------------
(***************************************************************************)
(* The record cache Dsmap of models/storage.go and the four goroutines     *)
(* `serve` of models/server.go that fill it from the replies of upstream   *)
(* servers.                                                                *)
(*                                                                         *)
(* Each of the three maps that serve uses has a lock of its own and every  *)
(* accessor takes it for one entry, so a goroutine works through a reply   *)
(* in many steps: it asks ExistA about one record at a time, then writes   *)
(* one address entry, one delegation or one alias at a time.  A step here  *)
(* is one critical section.                                                *)
(***************************************************************************)
EXTENDS DnsData, Functions

CONSTANTS
  Threads,  \* the goroutines running serve
  HintA,    \* Asets after LoadConfig: the A lines of root.z
  HintNS,   \* NSsets after LoadConfig: the NS lines of root.z
  HintCN,   \* CNsets after LoadConfig: the CNAME lines of root.z
  NoMsg     \* the thread is waiting in ReadMsgUDP

ASSUME HintsAssumption ==
  /\ DOMAIN HintA \subseteq Names
  /\ HintA \in [DOMAIN HintA -> SUBSET Addrs]
  /\ DOMAIN HintNS \subseteq Names
  /\ HintNS \in [DOMAIN HintNS -> SUBSET Names]
  /\ DOMAIN HintCN \subseteq Names
  /\ HintCN \in [DOMAIN HintCN -> Names]
  \* AddNS panics on such a line
  /\ \A z \in DOMAIN HintNS : z \notin HintNS[z]

ASSUME NoMsgAssumption == NoMsg \notin Messages

VARIABLES
  asets,   \* Asets: addresses by name; a name may have an empty entry
  nssets,  \* NSsets: nameservers by zone
  cnsets,  \* CNsets: alias target by name
  msg,     \* msg[i]: the reply thread i is working through, or NoMsg
  todo,    \* todo[i]: the CNAME and A records thread i has yet to screen
  localA,  \* localA[i], localNS[i], localCN[i]: the maps of serve; an
  localNS, \*   entry leaves them when it has been written to the cache
  localCN,
  up,      \* FALSE once a panic has ended the process
  named    \* history: every nameserver named by a reply taken in so far

stores == <<asets, nssets, cnsets>>
threads == <<msg, todo, localA, localNS, localCN, up, named>>
cacheVars == <<stores, threads>>

-----------------------------------------------------------------------------
(* Go maps: a map is a function whose domain is the set of its keys.       *)

Empty == [k \in {} |-> {}]

Put(f, k, v) == [x \in DOMAIN f \cup {k} |-> IF x = k THEN v ELSE f[x]]

Delete(f, k) == Restrict(f, DOMAIN f \ {k})

(* The entry of a key, or the zero value of a list.                        *)
Entry(f, k) == IF k \in DOMAIN f THEN f[k] ELSE {}

HintServers == UNION {HintNS[z] : z \in DOMAIN HintNS}

-----------------------------------------------------------------------------

(* No thread has read anything yet.                                        *)
Idle ==
  /\ msg = [i \in Threads |-> NoMsg]
  /\ todo = [i \in Threads |-> {}]
  /\ localA = [i \in Threads |-> Empty]
  /\ localNS = [i \in Threads |-> Empty]
  /\ localCN = [i \in Threads |-> Empty]
  /\ up = TRUE
  /\ named = {}

CacheInit ==
  /\ asets = HintA
  /\ nssets = HintNS
  /\ cnsets = HintCN
  /\ Idle

(* A negative reply is read and forgotten.                                 *)
Ignore(i, m) ==
  /\ up
  /\ msg[i] = NoMsg
  /\ Negative(m)
  /\ UNCHANGED cacheVars

\* Mutation: the nameservers get no entry in the local map.
ParseNoEntries(i, m) ==
  /\ up
  /\ msg[i] = NoMsg
  /\ ~Negative(m)
  /\ ~SelfServed(m)
  /\ msg' = [msg EXCEPT ![i] = m]
  /\ todo' = [todo EXCEPT ![i] = RRof(m.rrs, "CNAME") \cup RRof(m.rrs, "A")]
  /\ localA' = [localA EXCEPT ![i] = Empty]
  /\ localNS' = [localNS EXCEPT ![i] = LocalNS(m)]
  /\ localCN' = [localCN EXCEPT ![i] = Empty]
  /\ named' = named \cup ServersIn(m)
  /\ UNCHANGED <<stores, up>>

(* Every nameserver the reply names gets an entry in the local address     *)
(* map, so that its addresses will be let in.                              *)
Parse(i, m) ==
  /\ up
  /\ msg[i] = NoMsg
  /\ ~Negative(m)
  /\ ~SelfServed(m)
  /\ msg' = [msg EXCEPT ![i] = m]
  /\ todo' = [todo EXCEPT ![i] = RRof(m.rrs, "CNAME") \cup RRof(m.rrs, "A")]
  /\ localA' = [localA EXCEPT ![i] = [v \in ServersIn(m) |-> {}]]
  /\ localNS' = [localNS EXCEPT ![i] = LocalNS(m)]
  /\ localCN' = [localCN EXCEPT ![i] = Empty]
  /\ named' = named \cup ServersIn(m)
  /\ UNCHANGED <<stores, up>>

(* panic("add ns"): the whole process ends.                                *)
Panic(i, m) ==
  /\ up
  /\ msg[i] = NoMsg
  /\ ~Negative(m)
  /\ SelfServed(m)
  /\ up' = FALSE
  /\ UNCHANGED <<stores, msg, todo, localA, localNS, localCN, named>>

\* Mutation: no screening.
AdmittedAlways(i, n) == TRUE

(* ExistA, or an entry of the local map: the address of this name may be   *)
(* cached.                                                                 *)
Admitted(i, n) == n \in DOMAIN asets \cup DOMAIN localA[i]

ScreenCNAME(i, r) ==
  /\ up
  /\ r \in RRof(todo[i], "CNAME")
  /\ todo' = [todo EXCEPT ![i] = @ \ {r}]
  /\ localCN' = IF Admitted(i, r.name)
                THEN [localCN EXCEPT ![i] = Put(@, r.name, r.data)]
                ELSE localCN
  /\ UNCHANGED <<stores, msg, localA, localNS, up, named>>

\* Mutation: the owner's name is stored for the address.
ScreenAName(i, r) ==
  /\ up
  /\ RRof(todo[i], "CNAME") = {}
  /\ r \in RRof(todo[i], "A")
  /\ todo' = [todo EXCEPT ![i] = @ \ {r}]
  /\ localA' = IF Admitted(i, r.name)
               THEN [localA EXCEPT ![i] =
                       Put(@, r.name, Entry(@, r.name) \cup {r.name})]
               ELSE localA
  /\ UNCHANGED <<stores, msg, localNS, localCN, up, named>>

ScreenA(i, r) ==
  /\ up
  /\ RRof(todo[i], "CNAME") = {}
  /\ r \in RRof(todo[i], "A")
  /\ todo' = [todo EXCEPT ![i] = @ \ {r}]
  /\ localA' = IF Admitted(i, r.name)
               THEN [localA EXCEPT ![i] =
                       Put(@, r.name, Entry(@, r.name) \cup {r.data})]
               ELSE localA
  /\ UNCHANGED <<stores, msg, localNS, localCN, up, named>>

\* Mutation: a list without addresses removes the entry.
StoreADropping(i, n) ==
  /\ up
  /\ msg[i] # NoMsg
  /\ todo[i] = {}
  /\ n \in DOMAIN localA[i]
  /\ asets' = IF localA[i][n] = {} THEN Delete(asets, n)
                                  ELSE Put(asets, n, localA[i][n])
  /\ localA' = [localA EXCEPT ![i] = Delete(@, n)]
  /\ UNCHANGED <<nssets, cnsets, msg, todo, localNS, localCN, up, named>>

\* Mutation: the addresses are added one to another, as AddA does.
StoreAMerging(i, n) ==
  /\ up
  /\ msg[i] # NoMsg
  /\ todo[i] = {}
  /\ n \in DOMAIN localA[i]
  /\ asets' = Put(asets, n, Entry(asets, n) \cup localA[i][n])
  /\ localA' = [localA EXCEPT ![i] = Delete(@, n)]
  /\ UNCHANGED <<nssets, cnsets, msg, todo, localNS, localCN, up, named>>

(* SetA replaces the entry, whatever it held.  The order in which Go       *)
(* visits the keys of a map is arbitrary.                                  *)
StoreA(i, n) ==
  /\ up
  /\ msg[i] # NoMsg
  /\ todo[i] = {}
  /\ n \in DOMAIN localA[i]
  /\ asets' = Put(asets, n, localA[i][n])
  /\ localA' = [localA EXCEPT ![i] = Delete(@, n)]
  /\ UNCHANGED <<nssets, cnsets, msg, todo, localNS, localCN, up, named>>

\* Mutation: delegations are stored before the addresses.
StoreNSEarly(i, z) ==
  /\ up
  /\ todo[i] = {}
  /\ z \in DOMAIN localNS[i]
  /\ nssets' = Put(nssets, z, localNS[i][z])
  /\ localNS' = [localNS EXCEPT ![i] = Delete(@, z)]
  /\ UNCHANGED <<asets, cnsets, msg, todo, localA, localCN, up, named>>

\* Mutation: the servers are added one to another, as AddNS does.
StoreNSMerging(i, z) ==
  /\ up
  /\ todo[i] = {}
  /\ DOMAIN localA[i] = {}
  /\ z \in DOMAIN localNS[i]
  /\ nssets' = Put(nssets, z, Entry(nssets, z) \cup localNS[i][z])
  /\ localNS' = [localNS EXCEPT ![i] = Delete(@, z)]
  /\ UNCHANGED <<asets, cnsets, msg, todo, localA, localCN, up, named>>

(* SetOriNS panics if the zone is its own server; otherwise it replaces    *)
(* the delegation as a whole, inside one critical section.                 *)
StoreNS(i, z) ==
  /\ up
  /\ todo[i] = {}
  /\ DOMAIN localA[i] = {}
  /\ z \in DOMAIN localNS[i]
  /\ IF z \in localNS[i][z]
     THEN up' = FALSE /\ UNCHANGED <<nssets, localNS>>
     ELSE /\ up' = TRUE
          /\ nssets' = Put(nssets, z, localNS[i][z])
          /\ localNS' = [localNS EXCEPT ![i] = Delete(@, z)]
  /\ UNCHANGED <<asets, cnsets, msg, todo, localA, localCN, named>>

\* Mutation: aliases are stored before the addresses.
StoreCNAMEEarly(i, n) ==
  /\ up
  /\ todo[i] = {}
  /\ n \in DOMAIN localCN[i]
  /\ cnsets' = Put(cnsets, n, localCN[i][n])
  /\ localCN' = [localCN EXCEPT ![i] = Delete(@, n)]
  /\ UNCHANGED <<asets, nssets, msg, todo, localA, localNS, up, named>>

StoreCNAME(i, n) ==
  /\ up
  /\ todo[i] = {}
  /\ DOMAIN localA[i] = {}
  /\ DOMAIN localNS[i] = {}
  /\ n \in DOMAIN localCN[i]
  /\ cnsets' = Put(cnsets, n, localCN[i][n])
  /\ localCN' = [localCN EXCEPT ![i] = Delete(@, n)]
  /\ UNCHANGED <<asets, nssets, msg, todo, localA, localNS, up, named>>

\* Mutation: the thread is done before the local maps are stored.
FinishEarly(i) ==
  /\ up
  /\ msg[i] # NoMsg
  /\ todo[i] = {}
  /\ msg' = [msg EXCEPT ![i] = NoMsg]
  /\ UNCHANGED <<stores, todo, localA, localNS, localCN, up, named>>

(* Everything is in the cache: the thread wakes the requests that wait for *)
(* this reply (not part of the cache) and reads the next one.              *)
Finish(i) ==
  /\ up
  /\ msg[i] # NoMsg
  /\ todo[i] = {}
  /\ DOMAIN localA[i] = {}
  /\ DOMAIN localNS[i] = {}
  /\ DOMAIN localCN[i] = {}
  /\ msg' = [msg EXCEPT ![i] = NoMsg]
  /\ UNCHANGED <<stores, todo, localA, localNS, localCN, up, named>>

(* Another goroutine brings the process down: Doit, when it follows a loop *)
(* of aliases in a reply until its stack is full.                          *)
Crash ==
  /\ up
  /\ up' = FALSE
  /\ UNCHANGED <<stores, msg, todo, localA, localNS, localCN, named>>

Receive(i, m) == Ignore(i, m) \/ Parse(i, m) \/ Panic(i, m)

Work(i) ==
  \/ \E r \in RRof(todo[i], "CNAME") : ScreenCNAME(i, r)
  \/ \E r \in RRof(todo[i], "A") : ScreenA(i, r)
  \/ \E n \in DOMAIN localA[i] : StoreA(i, n)
  \/ \E z \in DOMAIN localNS[i] : StoreNS(i, z)
  \/ \E n \in DOMAIN localCN[i] : StoreCNAME(i, n)

CacheNext ==
  \/ \E i \in Threads :
       \/ \E m \in Messages : Receive(i, m)
       \/ Work(i)
       \/ Finish(i)
  \/ Crash

CacheSpec == CacheInit /\ [][CacheNext]_cacheVars

-----------------------------------------------------------------------------
(* A map from names to S, and one such map for every thread.               *)
IsMap(f, S) == /\ DOMAIN f \in SUBSET Names
               /\ f \in [DOMAIN f -> S]

AreLocalMaps(f, S) == /\ f = [i \in Threads |-> f[i]]
                      /\ \A i \in Threads : IsMap(f[i], S)

(* Type correctness of the cache and of the threads' local maps.           *)
CacheTypeOK ==
  /\ IsMap(asets, SUBSET Addrs)
  /\ IsMap(nssets, SUBSET Names)
  /\ IsMap(cnsets, Names)
  /\ msg \in [Threads -> Messages \cup {NoMsg}]
  /\ todo \in [Threads -> SUBSET RR]
  /\ up \in BOOLEAN
  /\ AreLocalMaps(localA, SUBSET Addrs)
  /\ AreLocalMaps(localNS, SUBSET Names)
  /\ AreLocalMaps(localCN, Names)
  /\ named \subseteq Names

(* Every nameserver the cache names has an address entry, empty or not, so *)
(* that ExistA will let its address in when a reply brings it; only the    *)
(* servers root.z names without an A line may lack one.                    *)
ServersAdmitted ==
  \A z \in DOMAIN nssets :
    nssets[z] \subseteq DOMAIN asets \cup HintServers

(* An alias is kept only for a name with an address entry, unless root.z   *)
(* has it, and by the time another goroutine can see the alias it can see  *)
(* the entry.                                                              *)
AliasesAdmitted == DOMAIN cnsets \subseteq DOMAIN asets \cup DOMAIN HintCN

(* Addresses are cached for nameservers only: no reply can fill the cache  *)
(* with ordinary hosts, however replies interleave.                        *)
OnlyServersAdmitted == DOMAIN asets \subseteq DOMAIN HintA \cup named

(* A delegation in the cache is the one of a single reply, or of root.z:   *)
(* two goroutines that store delegations of the same zone never leave a    *)
(* mixture behind.                                                         *)
WholeDelegation ==
  \A z \in DOMAIN nssets :
    \/ z \in DOMAIN HintNS /\ nssets[z] = HintNS[z]
    \/ \E m \in Messages : /\ z \in DOMAIN LocalNS(m)
                           /\ nssets[z] = LocalNS(m)[z]

(* The records of all replies.                                             *)
Received == UNION {m.rrs : m \in Messages}

(* The addresses the cache holds for a name are those root.z gives for it, *)
(* or some of those a single reply gives for this very name: no address is *)
(* filed under another name, and threads that store addresses of the same  *)
(* server never mix them.  Only some of them, because ExistA may come to   *)
(* admit the name between two records of the reply.                        *)
AddressesOfOneReply ==
  \A n \in DOMAIN asets :
    \/ asets[n] \subseteq Entry(HintA, n)
    \/ \E m \in Messages : asets[n] \subseteq DataOf(m.rrs, "A", n)

(* What a thread is about to store is safe to store: a delegation names    *)
(* servers that have an entry in the cache or will have one first, is that *)
(* of one reply, and is never one at which SetOriNS would end the process  *)
(* with a panic of its own; an alias belongs to such a name; and an        *)
(* address entry belongs to a name ExistA accepted or the reply gives as a *)
(* server.                                                                 *)
LocalsSafe ==
  \A i \in Threads :
    /\ \A z \in DOMAIN localNS[i] :
         /\ z \notin localNS[i][z]
         /\ localNS[i][z] \subseteq DOMAIN asets \cup DOMAIN localA[i]
         /\ \E m \in Messages : /\ z \in DOMAIN LocalNS(m)
                                /\ localNS[i][z] = LocalNS(m)[z]
    /\ DOMAIN localCN[i] \subseteq DOMAIN asets \cup DOMAIN localA[i]
    /\ DOMAIN localA[i] \subseteq DOMAIN asets \cup named

(* No address entry ever disappears.  serve consults ExistA under a lock   *)
(* it has released by the time it acts on the answer; that is sound only   *)
(* because the answer "exists" is never revoked.                           *)
AdmissionStable == [][DOMAIN asets \subseteq DOMAIN asets']_cacheVars
=============================================================================
