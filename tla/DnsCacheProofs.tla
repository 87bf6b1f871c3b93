--------------------------- MODULE DnsCacheProofs ---------------------------
(***************************************************************************)
(* What the accessors of a data set return, for every data set, and the    *)
(* safety of the record cache, for any number of threads, any hints        *)
(* and any set of replies.                                                 *)
(*                                                                         *)
(* None of the cache invariants is inductive alone: each rests on what     *)
(* the threads still hold in their local maps (LocalsSafe).  CacheInv is   *)
(* their conjunction, and it is inductive.                                 *)
(***************************************************************************)
EXTENDS DnsCache, TLAPS

-----------------------------------------------------------------------------
(* Data sets.                                                              *)

(* The records of a data set.                                              *)
LEMMA RecordsOf ==
  ASSUME NEW rrs \in SUBSET RR, NEW n
  PROVE  /\ DataOf(rrs, "NS", n) \subseteq Names
         /\ DataOf(rrs, "A", n) \subseteq Addrs
         /\ \A t : DataSetRR(rrs, t, n) \subseteq RR
BY DEF DataOf, DataSetRR, RR

(* The aliases a data set gives for a name are a chain of its records.     *)
LEMMA AliasChain ==
  ASSUME NEW rrs \in SUBSET RR, NEW q
  PROVE  /\ DataSet_Cname(rrs, q) \in Seq(RRof(rrs, "CNAME"))
         /\ IsChain(DataSet_Cname(rrs, q), q)
<1>1. ASSUME NEW s \in AliasChains(rrs, q)
      PROVE  s \in Seq(RRof(rrs, "CNAME")) /\ IsChain(s, q)
  <2>1. /\ s \in UNION {[1..k -> RRof(rrs, "CNAME")] :
                          k \in 0..Cardinality(RRof(rrs, "CNAME"))}
        /\ IsChain(s, q)
    BY <1>1, Zenon DEF AliasChains
  <2>2. PICK k \in 0..Cardinality(RRof(rrs, "CNAME")) : s \in [1..k -> RRof(rrs, "CNAME")]
    BY <2>1, Zenon
  <2>3. k \in Nat
    OBVIOUS
  <2>. QED
    BY <2>1, <2>2, <2>3
<1>2. <<>> \in Seq(RRof(rrs, "CNAME")) /\ IsChain(<<>>, q)
  BY DEF IsChain
<1>. QED
  BY <1>1, <1>2 DEF DataSet_Cname

(* The aliases are CNAME records, and the name they end with is a name.    *)
LEMMA AliasTypes ==
  ASSUME NEW rrs \in SUBSET RR, NEW q \in Names
  PROVE  /\ DataSet_Cname(rrs, q) \in Seq(RR)
         /\ EndOf(DataSet_Cname(rrs, q), q) \in Names
<1>. DEFINE chain == DataSet_Cname(rrs, q)
<1>1. chain \in Seq(RRof(rrs, "CNAME"))
  BY AliasChain
<1>2. RRof(rrs, "CNAME") \subseteq RR /\ \A r \in RRof(rrs, "CNAME") : r.data \in Names
  BY DEF RRof, RR
<1>3. chain \in Seq(RR)
  BY <1>1, <1>2
<1>4. EndOf(chain, q) \in Names
  <2>1. CASE chain = <<>>
    BY <2>1 DEF EndOf
  <2>2. CASE chain # <<>>
    <3>1. Len(chain) \in DOMAIN chain /\ chain[Len(chain)] \in RRof(rrs, "CNAME")
      BY <1>1, <2>2
    <3>. QED
      BY <3>1, <1>2, <2>2 DEF EndOf
  <2>. QED
    BY <2>1, <2>2
<1>. QED
  BY <1>3, <1>4

-----------------------------------------------------------------------------
(* The cache.                                                              *)

Maps(S) == UNION {[D -> S] : D \in SUBSET Names}

(* CacheTypeOK in the form the proofs use.                                 *)
CacheTyped ==
  /\ asets \in Maps(SUBSET Addrs)
  /\ nssets \in Maps(SUBSET Names)
  /\ cnsets \in Maps(Names)
  /\ msg \in [Threads -> Messages \cup {NoMsg}]
  /\ todo \in [Threads -> SUBSET RR]
  /\ localA \in [Threads -> Maps(SUBSET Addrs)]
  /\ localNS \in [Threads -> Maps(SUBSET Names)]
  /\ localCN \in [Threads -> Maps(Names)]
  /\ up \in BOOLEAN
  /\ named \subseteq Names

CacheInv ==
  /\ CacheTyped
  /\ ServersAdmitted
  /\ AliasesAdmitted
  /\ OnlyServersAdmitted
  /\ WholeDelegation
  /\ LocalsSafe

-----------------------------------------------------------------------------
(* How a function becomes a member of Maps(S).                             *)
LEMMA MapIntro ==
  ASSUME NEW S, NEW f, DOMAIN f \in SUBSET Names, f \in [DOMAIN f -> S]
  PROVE  f \in Maps(S)
BY DEF Maps

(* What a member of Maps(S) is.                                            *)
LEMMA MapElim ==
  ASSUME NEW S, NEW f \in Maps(S)
  PROVE  DOMAIN f \subseteq Names /\ f \in [DOMAIN f -> S]
BY DEF Maps

(* Maps(S) is the set of what IsMap describes.                             *)
LEMMA MapsAreMaps ==
  ASSUME NEW S, NEW f
  PROVE  f \in Maps(S) <=> IsMap(f, S)
BY DEF Maps, IsMap

(* The same for the local maps of all threads.                             *)
LEMMA LocalMaps ==
  ASSUME NEW S, NEW f
  PROVE  f \in [Threads -> Maps(S)] <=> AreLocalMaps(f, S)
BY MapsAreMaps DEF AreLocalMaps

(* CacheTyped says with sets of maps what CacheTypeOK says without.        *)
LEMMA CacheTypedEq == CacheTyped <=> CacheTypeOK
BY MapsAreMaps, LocalMaps DEF CacheTyped, CacheTypeOK

(* What the deletion of a key does to a map.                               *)
LEMMA DeleteKey ==
  ASSUME NEW f, NEW k
  PROVE  /\ DOMAIN Delete(f, k) = DOMAIN f \ {k}
         /\ \A x \in DOMAIN f \ {k} : Delete(f, k)[x] = f[x]
BY DEF Delete, Restrict

(* A map without one of its keys is a map.                                 *)
LEMMA DeleteMap ==
  ASSUME NEW S, NEW f \in Maps(S), NEW k
  PROVE  /\ Delete(f, k) \in Maps(S)
         /\ DOMAIN Delete(f, k) = DOMAIN f \ {k}
         /\ \A x \in DOMAIN f \ {k} : Delete(f, k)[x] = f[x]
BY MapIntro, MapElim DEF Delete, Restrict

(* The map that make returns is a map to anything.                         *)
LEMMA EmptyMap == ASSUME NEW S PROVE Empty \in Maps(S) /\ DOMAIN Empty = {}
BY MapIntro DEF Empty

(* The records serve selects from a reply have the types it expects.       *)
LEMMA RecordTypes ==
  ASSUME NEW m \in Messages
  PROVE  /\ m.rrs \subseteq RR
         /\ ServersIn(m) \subseteq Names
         /\ LocalNS(m) \in Maps(SUBSET Names)
<1>1. m.rrs \subseteq RR
  BY MessagesAssumption DEF Message
<1>2. \A r \in RRof(m.rrs, "NS") : r.name \in Names /\ r.data \in Names
  BY <1>1 DEF RRof, RR
<1>3. \A z : DataOf(m.rrs, "NS", z) \subseteq ServersIn(m)
  BY DEF DataOf, ServersIn, RRof
<1>. QED
  BY <1>1, <1>2, <1>3, MapIntro DEF ServersIn, LocalNS

(* A reply in which no zone is its own server delegates no zone to its own *)
(* name, and every server it delegates to is one it names.                 *)
LEMMA LocalNSSound ==
  ASSUME NEW m \in Messages, ~SelfServed(m), NEW z \in DOMAIN LocalNS(m)
  PROVE  z \notin LocalNS(m)[z] /\ LocalNS(m)[z] \subseteq ServersIn(m)
BY DEF LocalNS, SelfServed, ServersIn, DataOf, RRof

-----------------------------------------------------------------------------
(* After LoadConfig the invariant holds.                                   *)
LEMMA CacheInitInv == CacheInit => CacheInv
<1>. SUFFICES ASSUME CacheInit PROVE CacheInv
  OBVIOUS
<1>1. CacheTyped
  BY HintsAssumption, EmptyMap, MapIntro DEF CacheInit, Idle, CacheTyped
<1>2. /\ ServersAdmitted
      /\ AliasesAdmitted
      /\ OnlyServersAdmitted
      /\ WholeDelegation
  BY HintsAssumption, EmptyMap
  DEF CacheInit, ServersAdmitted, HintServers,
      AliasesAdmitted, OnlyServersAdmitted, WholeDelegation
<1>3. LocalsSafe
  BY EmptyMap DEF CacheInit, Idle, LocalsSafe
<1>. QED
  BY <1>1, <1>2, <1>3 DEF CacheInv

(* A reply is taken in: only the local maps of the thread change.          *)
LEMMA ParseInv ==
  ASSUME CacheInv, NEW i \in Threads, NEW m \in Messages, Parse(i, m)
  PROVE  CacheInv'
<1>. USE DEF CacheInv
<1>1. m.rrs \subseteq RR /\ ServersIn(m) \subseteq Names /\ LocalNS(m) \in Maps(SUBSET Names)
  BY RecordTypes
<1>2. CacheTyped'
  <2>1. RRof(m.rrs, "CNAME") \cup RRof(m.rrs, "A") \subseteq RR
    BY <1>1 DEF RRof
  <2>2. [v \in ServersIn(m) |-> {}] \in Maps(SUBSET Addrs)
    BY <1>1, MapIntro
  <2>3. /\ localA' \in [Threads -> Maps(SUBSET Addrs)]
        /\ localNS' \in [Threads -> Maps(SUBSET Names)]
        /\ localCN' \in [Threads -> Maps(Names)]
    BY <1>1, <2>2, EmptyMap DEF Parse, CacheTyped
  <2>. QED
    BY <1>1, <2>1, <2>3 DEF Parse, CacheTyped, stores
<1>3. /\ ServersAdmitted'
      /\ AliasesAdmitted'
      /\ WholeDelegation'
      /\ OnlyServersAdmitted'
  BY DEF Parse, stores, ServersAdmitted, AliasesAdmitted,
         WholeDelegation, OnlyServersAdmitted
<1>4. LocalsSafe'
  <2>. SUFFICES ASSUME NEW j \in Threads
       PROVE /\ \A z \in DOMAIN localNS'[j] :
                  /\ z \notin localNS'[j][z]
                  /\ localNS'[j][z] \subseteq DOMAIN asets' \cup DOMAIN localA'[j]
                  /\ \E l \in Messages : /\ z \in DOMAIN LocalNS(l)
                                         /\ localNS'[j][z] = LocalNS(l)[z]
             /\ DOMAIN localCN'[j] \subseteq DOMAIN asets' \cup DOMAIN localA'[j]
             /\ DOMAIN localA'[j] \subseteq DOMAIN asets' \cup named'
    BY DEF LocalsSafe
  <2>1. CASE j = i
    BY <2>1, LocalNSSound, EmptyMap DEF Parse, stores, CacheTyped, LocalsSafe
  <2>2. CASE j # i
    BY <2>2 DEF Parse, stores, CacheTyped, LocalsSafe
  <2>. QED
    BY <2>1, <2>2
<1>. QED
  BY <1>2, <1>3, <1>4

(* A CNAME record passes or fails the screening.                           *)
LEMMA ScreenCNAMEInv ==
  ASSUME CacheInv, NEW i \in Threads, NEW r, ScreenCNAME(i, r)
  PROVE  CacheInv'
<1>. USE DEF CacheInv
<1>1. r \in RR /\ r.name \in Names /\ r.data \in Names
  BY DEF ScreenCNAME, CacheTyped, RRof, RR
<1>2. /\ Put(localCN[i], r.name, r.data) \in Maps(Names)
      /\ DOMAIN Put(localCN[i], r.name, r.data) = DOMAIN localCN[i] \cup {r.name}
  <2>1. localCN[i] \in Maps(Names)
    BY DEF CacheTyped
  <2>. QED
    BY <1>1, <2>1, MapIntro, MapElim DEF Put
<1>3. CacheTyped'
  BY <1>2 DEF ScreenCNAME, CacheTyped, stores
<1>4. /\ ServersAdmitted'
      /\ AliasesAdmitted'
      /\ WholeDelegation'
      /\ OnlyServersAdmitted'
  BY DEF ScreenCNAME, stores, ServersAdmitted,
         AliasesAdmitted, WholeDelegation, OnlyServersAdmitted
<1>5. \A j \in Threads : DOMAIN localCN'[j] \subseteq DOMAIN asets \cup DOMAIN localA[j]
  BY <1>2 DEF ScreenCNAME, Admitted, CacheTyped, LocalsSafe
<1>6. LocalsSafe'
  BY <1>5 DEF ScreenCNAME, stores, LocalsSafe
<1>. QED
  BY <1>3, <1>4, <1>6

(* An A record passes or fails the screening.                              *)
LEMMA ScreenAInv ==
  ASSUME CacheInv, NEW i \in Threads, NEW r, ScreenA(i, r)
  PROVE  CacheInv'
<1>. USE DEF CacheInv
<1>. DEFINE addrs == Entry(localA[i], r.name) \cup {r.data}
            new == Put(localA[i], r.name, addrs)
<1>1. r \in RR /\ r.name \in Names /\ r.data \in Addrs
  BY DEF ScreenA, CacheTyped, RRof, RR
<1>2. addrs \in SUBSET Addrs
  BY <1>1, MapElim DEF CacheTyped, Entry
<1>3. new \in Maps(SUBSET Addrs) /\ DOMAIN new = DOMAIN localA[i] \cup {r.name}
  <2>1. localA[i] \in Maps(SUBSET Addrs)
    BY DEF CacheTyped
  <2>. HIDE DEF addrs
  <2>. QED
    BY <1>1, <1>2, <2>1, MapIntro, MapElim DEF Put
<1>. HIDE DEF addrs
<1>4. localA' = IF Admitted(i, r.name) THEN [localA EXCEPT ![i] = new] ELSE localA
  BY DEF ScreenA, addrs, CacheTyped
<1>. HIDE DEF new
<1>5. CacheTyped'
  BY <1>3, <1>4 DEF ScreenA, CacheTyped, stores
<1>6. /\ ServersAdmitted'
      /\ AliasesAdmitted'
      /\ WholeDelegation'
      /\ OnlyServersAdmitted'
  BY DEF ScreenA, stores, ServersAdmitted,
         AliasesAdmitted, WholeDelegation, OnlyServersAdmitted
<1>7. \A j \in Threads :
        /\ DOMAIN localA[j] \subseteq DOMAIN localA'[j]
        /\ DOMAIN localA'[j] \subseteq DOMAIN localA[j] \cup DOMAIN asets
  BY <1>3, <1>4 DEF Admitted, CacheTyped
<1>8. LocalsSafe'
  BY <1>7 DEF ScreenA, stores, LocalsSafe
<1>. QED
  BY <1>5, <1>6, <1>8

(* SetA: the entry moves from the local map to the cache, so whatever was  *)
(* admitted stays admitted.                                                *)
LEMMA StoreAInv ==
  ASSUME CacheInv, NEW i \in Threads, NEW n \in DOMAIN localA[i], StoreA(i, n)
  PROVE  CacheInv'
<1>. USE DEF CacheInv
<1>. DEFINE rest == Delete(localA[i], n)
<1>1. n \in Names /\ localA[i][n] \in SUBSET Addrs
  BY MapElim DEF CacheTyped
<1>2. asets' \in Maps(SUBSET Addrs) /\ DOMAIN asets' = DOMAIN asets \cup {n}
  <2>1. asets \in Maps(SUBSET Addrs) /\ asets' = Put(asets, n, localA[i][n])
    BY DEF StoreA, CacheTyped
  <2>. QED
    BY <1>1, <2>1, MapIntro, MapElim DEF Put
<1>3. rest \in Maps(SUBSET Addrs) /\ DOMAIN rest = DOMAIN localA[i] \ {n}
  <2>1. localA[i] \in Maps(SUBSET Addrs)
    BY DEF CacheTyped
  <2>. QED
    BY <2>1, DeleteMap, Zenon
<1>4. localA' = [localA EXCEPT ![i] = rest]
  BY DEF StoreA, CacheTyped
<1>. HIDE DEF rest
<1>5. CacheTyped'
  BY <1>2, <1>3, <1>4 DEF StoreA, CacheTyped
<1>6. \A j \in Threads :
        /\ DOMAIN asets \cup DOMAIN localA[j] \subseteq DOMAIN asets' \cup DOMAIN localA'[j]
        /\ DOMAIN localA'[j] \subseteq DOMAIN localA[j]
  BY <1>2, <1>3, <1>4 DEF CacheTyped
<1>7. /\ ServersAdmitted'
      /\ AliasesAdmitted'
      /\ WholeDelegation'
  BY <1>2 DEF StoreA, ServersAdmitted, AliasesAdmitted, WholeDelegation
<1>8. OnlyServersAdmitted'
  BY <1>2 DEF StoreA, OnlyServersAdmitted, LocalsSafe
<1>9. LocalsSafe'
  BY <1>2, <1>6 DEF StoreA, LocalsSafe
<1>. QED
  BY <1>5, <1>7, <1>8, <1>9

(* SetOriNS: by now every server of the delegation has an entry.  It does  *)
(* not panic, because no zone among those serve holds is its own server.   *)
LEMMA StoreNSInv ==
  ASSUME CacheInv, NEW i \in Threads, NEW z \in DOMAIN localNS[i], StoreNS(i, z)
  PROVE  CacheInv'
<1>. USE DEF CacheInv
<1>0. /\ up' = TRUE
      /\ nssets' = Put(nssets, z, localNS[i][z])
      /\ localNS' = [localNS EXCEPT ![i] = Delete(@, z)]
      /\ UNCHANGED <<asets, cnsets, msg, todo, localA, localCN, named>>
      /\ DOMAIN localA[i] = {}
  BY DEF StoreNS, LocalsSafe
<1>. DEFINE rest == Delete(localNS[i], z)
<1>1. z \in Names /\ localNS[i][z] \in SUBSET Names
  BY MapElim DEF CacheTyped
<1>2. /\ nssets' \in Maps(SUBSET Names)
      /\ DOMAIN nssets' = DOMAIN nssets \cup {z}
      /\ nssets'[z] = localNS[i][z]
      /\ \A x \in DOMAIN nssets : x # z => nssets'[x] = nssets[x]
  <2>1. nssets \in Maps(SUBSET Names) /\ nssets' = Put(nssets, z, localNS[i][z])
    BY <1>0 DEF CacheTyped
  <2>. QED
    BY <1>1, <2>1, MapIntro, MapElim DEF Put
<1>3. /\ rest \in Maps(SUBSET Names)
      /\ DOMAIN rest = DOMAIN localNS[i] \ {z}
      /\ \A x \in DOMAIN rest : rest[x] = localNS[i][x]
  <2>1. localNS[i] \in Maps(SUBSET Names)
    BY DEF CacheTyped
  <2>. QED
    BY <2>1, DeleteMap, Zenon
<1>4. localNS' = [localNS EXCEPT ![i] = rest]
  BY <1>0 DEF CacheTyped
<1>. HIDE DEF rest
<1>5. CacheTyped'
  BY <1>2, <1>3, <1>4, <1>0 DEF CacheTyped
<1>6. WholeDelegation'
  BY <1>2 DEF WholeDelegation, LocalsSafe
<1>7. ServersAdmitted'
  BY <1>0, <1>2 DEF ServersAdmitted, LocalsSafe
<1>8. AliasesAdmitted' /\ OnlyServersAdmitted'
  BY <1>0 DEF AliasesAdmitted, OnlyServersAdmitted
<1>9. LocalsSafe'
  BY <1>0, <1>3, <1>4 DEF LocalsSafe, CacheTyped
<1>. QED
  BY <1>5, <1>6, <1>7, <1>8, <1>9

(* SetOriCNAME: by now the owner of the alias has an entry.                *)
LEMMA StoreCNAMEInv ==
  ASSUME CacheInv, NEW i \in Threads, NEW n \in DOMAIN localCN[i], StoreCNAME(i, n)
  PROVE  CacheInv'
<1>. USE DEF CacheInv
<1>. DEFINE rest == Delete(localCN[i], n)
<1>1. n \in Names /\ localCN[i][n] \in Names
  BY MapElim DEF CacheTyped
<1>2. cnsets' \in Maps(Names) /\ DOMAIN cnsets' = DOMAIN cnsets \cup {n}
  <2>1. cnsets \in Maps(Names) /\ cnsets' = Put(cnsets, n, localCN[i][n])
    BY DEF StoreCNAME, CacheTyped
  <2>. QED
    BY <1>1, <2>1, MapIntro, MapElim DEF Put
<1>3. rest \in Maps(Names) /\ DOMAIN rest = DOMAIN localCN[i] \ {n}
  BY DeleteMap DEF CacheTyped
<1>4. localCN' = [localCN EXCEPT ![i] = rest]
  BY DEF StoreCNAME, CacheTyped
<1>. HIDE DEF rest
<1>5. CacheTyped'
  BY <1>2, <1>3, <1>4 DEF StoreCNAME, CacheTyped
<1>6. /\ ServersAdmitted'
      /\ WholeDelegation'
      /\ OnlyServersAdmitted'
  BY DEF StoreCNAME, ServersAdmitted, WholeDelegation, OnlyServersAdmitted
<1>7. AliasesAdmitted'
  BY <1>2 DEF StoreCNAME, AliasesAdmitted, LocalsSafe
<1>8. LocalsSafe'
  BY <1>3, <1>4 DEF StoreCNAME, LocalsSafe, CacheTyped
<1>. QED
  BY <1>5, <1>6, <1>7, <1>8

(* The steps that leave the cache and the local maps alone.                *)
LEMMA QuietInv ==
  ASSUME CacheInv,
         UNCHANGED <<stores, localA, localNS, localCN, todo, named>>,
         msg' \in [Threads -> Messages \cup {NoMsg}], up' \in BOOLEAN
  PROVE  CacheInv'
BY DEF CacheInv, CacheTyped, stores, ServersAdmitted,
       AliasesAdmitted, OnlyServersAdmitted, WholeDelegation, LocalsSafe

(* Every step preserves the invariant.                                     *)
LEMMA CacheNextInv == CacheInv /\ [CacheNext]_cacheVars => CacheInv'
<1>. SUFFICES ASSUME CacheInv, [CacheNext]_cacheVars PROVE CacheInv'
  OBVIOUS
<1>1. CASE UNCHANGED cacheVars
  BY <1>1, QuietInv DEF cacheVars, stores, threads, CacheInv, CacheTyped
<1>2. ASSUME NEW i \in Threads, NEW m \in Messages, Receive(i, m)
      PROVE  CacheInv'
  <2>1. CASE Ignore(i, m)
    BY <2>1, QuietInv DEF Ignore, cacheVars, stores, threads, CacheInv, CacheTyped
  <2>2. CASE Parse(i, m)
    BY <2>2, ParseInv
  <2>3. CASE Panic(i, m)
    BY <2>3, QuietInv DEF Panic, stores, CacheInv, CacheTyped
  <2>. QED
    BY <1>2, <2>1, <2>2, <2>3 DEF Receive
<1>3. ASSUME NEW i \in Threads, Work(i)
      PROVE  CacheInv'
  BY <1>3, ScreenCNAMEInv, ScreenAInv, StoreAInv, StoreNSInv, StoreCNAMEInv DEF Work
<1>4. ASSUME NEW i \in Threads, Finish(i)
      PROVE  CacheInv'
  BY <1>4, QuietInv DEF Finish, stores, CacheInv, CacheTyped
<1>5. CASE Crash
  BY <1>5, QuietInv DEF Crash, stores, CacheInv, CacheTyped
<1>. QED
  BY <1>1, <1>2, <1>3, <1>4, <1>5 DEF CacheNext

-----------------------------------------------------------------------------
(* The inductive invariant holds in every state of the cache.              *)
THEOREM CacheInvariance == CacheSpec => []CacheInv
BY CacheInitInv, CacheNextInv, PTL DEF CacheSpec

(* Every map of the cache and of serve keeps its type.                     *)
THEOREM CacheTypeCorrect == CacheSpec => []CacheTypeOK
<1>1. CacheInv => CacheTypeOK
  BY CacheTypedEq DEF CacheInv
<1>. QED
  BY <1>1, CacheInvariance, PTL

(* Every server and every alias that a reader of the cache can see has an  *)
(* address entry by then, and nothing but servers has one.                 *)
THEOREM CacheAdmission ==
  CacheSpec => [](ServersAdmitted /\ AliasesAdmitted /\ OnlyServersAdmitted)
<1>1. CacheInv => ServersAdmitted /\ AliasesAdmitted /\ OnlyServersAdmitted
  BY DEF CacheInv
<1>. QED
  BY <1>1, CacheInvariance, PTL

(* Concurrent stores never mix the delegations of two replies.             *)
THEOREM CacheWholeDelegation == CacheSpec => []WholeDelegation
<1>1. CacheInv => WholeDelegation
  BY DEF CacheInv
<1>. QED
  BY <1>1, CacheInvariance, PTL

(* What a goroutine is about to store would be safe to store at any time.  *)
THEOREM CacheLocalsSafe == CacheSpec => []LocalsSafe
<1>1. CacheInv => LocalsSafe
  BY DEF CacheInv
<1>. QED
  BY <1>1, CacheInvariance, PTL

(* No step of any thread revokes an answer "exists" of ExistA.             *)
THEOREM CacheAdmissionStable == CacheSpec => AdmissionStable
<1>1. CacheNext => DOMAIN asets \subseteq DOMAIN asets'
  BY DEF CacheNext, Receive, Work, Ignore, Parse, Panic, ScreenCNAME, ScreenA,
         StoreA, StoreNS, StoreCNAME, Finish, Crash, stores, cacheVars, Put
<1>. QED
  BY <1>1, PTL DEF CacheSpec, AdmissionStable
-----------------------------------------------------------------------------
(* Where addresses come from: what is in the cache, and on the way to it,  *)
(* what a thread has yet to screen and what it has let in, all of it from  *)
(* the reply the thread is at.                                             *)
AddressesHeld ==
  /\ AddressesOfOneReply
  /\ \A i \in Threads : msg[i] # NoMsg =>
       /\ todo[i] \subseteq msg[i].rrs
       /\ \A n \in DOMAIN localA[i] : localA[i][n] \subseteq DataOf(msg[i].rrs, "A", n)

(* Every step of a thread keeps it; SetA replaces the whole entry.         *)
LEMMA AddressesStep ==
  ASSUME CacheTyped, AddressesHeld, [CacheNext]_cacheVars
  PROVE  AddressesHeld'
<1>. USE DEF AddressesHeld
<1>1. ASSUME UNCHANGED <<asets, todo, localA>>,
             \A i \in Threads : msg'[i] \in {msg[i], NoMsg}
      PROVE  AddressesHeld'
  BY <1>1 DEF AddressesOfOneReply
<1>2. ASSUME NEW i \in Threads, NEW m \in Messages, Receive(i, m)
      PROVE  AddressesHeld'
  <2>1. CASE Parse(i, m)
    <3>1. /\ msg' = [msg EXCEPT ![i] = m]
          /\ todo' = [todo EXCEPT ![i] = RRof(m.rrs, "CNAME") \cup RRof(m.rrs, "A")]
          /\ localA' = [localA EXCEPT ![i] = [v \in ServersIn(m) |-> {}]]
          /\ asets' = asets
      BY <2>1 DEF Parse, stores
    <3>2. RRof(m.rrs, "CNAME") \cup RRof(m.rrs, "A") \subseteq m.rrs
      BY DEF RRof
    <3>3. AddressesOfOneReply'
      BY <3>1 DEF AddressesOfOneReply
    <3>. QED
      BY <3>1, <3>2, <3>3 DEF CacheTyped
  <2>2. CASE Ignore(i, m) \/ Panic(i, m)
    BY <1>1, <2>2 DEF Ignore, Panic, cacheVars, stores, threads
  <2>. QED
    BY <1>2, <2>1, <2>2 DEF Receive
<1>3. ASSUME NEW i \in Threads, NEW r, ScreenCNAME(i, r)
      PROVE  AddressesHeld'
  <2>1. /\ UNCHANGED <<asets, msg, localA>>
        /\ todo' = [todo EXCEPT ![i] = @ \ {r}]
    BY <1>3 DEF ScreenCNAME, stores
  <2>2. AddressesOfOneReply'
    BY <2>1 DEF AddressesOfOneReply
  <2>. QED
    BY <2>1, <2>2 DEF CacheTyped
<1>4. ASSUME NEW i \in Threads, NEW r, ScreenA(i, r)
      PROVE  AddressesHeld'
  <2>1. /\ UNCHANGED <<asets, msg>>
        /\ todo' = [todo EXCEPT ![i] = @ \ {r}]
        /\ r \in todo[i] /\ r.rt = "A"
    BY <1>4 DEF ScreenA, stores, RRof
  <2>2. AddressesOfOneReply'
    BY <2>1 DEF AddressesOfOneReply
  <2>3. ASSUME msg[i] # NoMsg, NEW n \in DOMAIN localA'[i]
        PROVE  localA'[i][n] \subseteq DataOf(msg[i].rrs, "A", n)
    <3>1. CASE localA' = localA
      BY <2>3, <3>1
    <3>2. CASE localA' = [localA EXCEPT ![i] =
                            Put(@, r.name, Entry(@, r.name) \cup {r.data})]
      <4>1. localA'[i] = Put(localA[i], r.name, Entry(localA[i], r.name) \cup {r.data})
        BY <3>2 DEF CacheTyped
      <4>2. r.data \in DataOf(msg[i].rrs, "A", r.name)
        BY <2>1, <2>3 DEF DataOf
      <4>3. Entry(localA[i], r.name) \subseteq DataOf(msg[i].rrs, "A", r.name)
        BY <2>3 DEF Entry
      <4>. QED
        BY <2>3, <4>1, <4>2, <4>3 DEF Put
    <3>. QED
      BY <1>4, <3>1, <3>2 DEF ScreenA
  <2>4. \A j \in Threads \ {i} : localA'[j] = localA[j]
    BY <1>4 DEF ScreenA, CacheTyped
  <2>. QED
    BY <2>1, <2>2, <2>3, <2>4 DEF CacheTyped
<1>5. ASSUME NEW i \in Threads, NEW n \in DOMAIN localA[i], StoreA(i, n)
      PROVE  AddressesHeld'
  <2>1. /\ UNCHANGED <<msg, todo>>
        /\ msg[i] # NoMsg
        /\ asets' = Put(asets, n, localA[i][n])
        /\ localA' = [localA EXCEPT ![i] = Delete(@, n)]
    BY <1>5 DEF StoreA
  <2>2. localA[i][n] \subseteq DataOf(msg[i].rrs, "A", n) /\ msg[i] \in Messages
    BY <2>1 DEF CacheTyped
  <2>3. AddressesOfOneReply'
    BY <2>1, <2>2 DEF AddressesOfOneReply, Put
  <2>4. localA'[i] = Delete(localA[i], n) /\ \A j \in Threads \ {i} : localA'[j] = localA[j]
    BY <2>1 DEF CacheTyped
  <2>5. \A j \in Threads : /\ DOMAIN localA'[j] \subseteq DOMAIN localA[j]
                           /\ \A x \in DOMAIN localA'[j] : localA'[j][x] = localA[j][x]
    <3>1. /\ DOMAIN Delete(localA[i], n) \subseteq DOMAIN localA[i]
          /\ \A x \in DOMAIN Delete(localA[i], n) : Delete(localA[i], n)[x] = localA[i][x]
      BY DEF Delete, Restrict
    <3>. QED
      BY <2>4, <3>1
  <2>. QED
    BY <2>1, <2>3, <2>5
<1>6. ASSUME NEW i \in Threads, \/ \E z \in DOMAIN localNS[i] : StoreNS(i, z)
                                \/ \E n \in DOMAIN localCN[i] : StoreCNAME(i, n)
                                \/ Finish(i)
      PROVE  AddressesHeld'
  <2>1. UNCHANGED <<asets, todo, localA>>
    BY <1>6 DEF StoreNS, StoreCNAME, Finish, stores
  <2>2. msg' = msg \/ msg' = [msg EXCEPT ![i] = NoMsg]
    BY <1>6 DEF StoreNS, StoreCNAME, Finish
  <2>3. \A j \in Threads : msg'[j] \in {msg[j], NoMsg}
    BY <2>2 DEF CacheTyped
  <2>. QED
    BY <1>1, <2>1, <2>3
<1>7. CASE UNCHANGED cacheVars
  BY <1>1, <1>7 DEF cacheVars, stores, threads
<1>8. CASE Crash
  BY <1>1, <1>8 DEF Crash, stores
<1>. QED
  BY <1>2, <1>3, <1>4, <1>5, <1>6, <1>7, <1>8 DEF CacheNext, Work, RRof

(* No address is filed under a name no record gave it for, and threads     *)
(* never mix the addresses of two replies, whatever the replies and        *)
(* however many threads there are.                                         *)
THEOREM CacheAddressesOfOneReply == CacheSpec => []AddressesOfOneReply
<1>1. CacheInit => AddressesHeld
  BY DEF CacheInit, Idle, AddressesHeld, AddressesOfOneReply, Entry
<1>2. CacheInv /\ AddressesHeld /\ [CacheNext]_cacheVars => AddressesHeld'
  BY AddressesStep DEF CacheInv
<1>3. AddressesHeld => AddressesOfOneReply
  BY DEF AddressesHeld
<1>. QED
  BY <1>1, <1>2, <1>3, CacheInvariance, PTL DEF CacheSpec

=============================================================================
