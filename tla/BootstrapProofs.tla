--------------------------- MODULE BootstrapProofs ---------------------------
(***************************************************************************)
(* LoadConfig leaves behind what root.z says, for any file, and the serve  *)
(* goroutines that InitServer starts implement module DnsCache, so that    *)
(* what is proved of the cache holds of the process from its start.        *)
(*                                                                         *)
(* The inductive invariant says that after each line the maps are what the *)
(* lines so far say, and that the cache invariant holds from the end of    *)
(* the file on.                                                            *)
(***************************************************************************)
EXTENDS Bootstrap, DnsCacheProofs

(* LoadConfig is at line pos and no goroutine has done anything.           *)
Loading ==
  /\ asets = Listed(file, pos - 1, "A")
  /\ aaaasets = Listed(file, pos - 1, "AAAA")
  /\ nssets = Listed(file, pos - 1, "NS")
  /\ cnsets = Aliases(file, pos - 1)
  /\ started = {}
  /\ up => Idle
  /\ msg = [i \in Threads |-> NoMsg]

(* LoadConfig is done.                                                     *)
Loaded ==
  /\ pos = LinesRead(file) + 1
  /\ CacheInv
  /\ aaaasets = HintAAAA
  /\ started = {} => asets = HintA /\ nssets = HintNS /\ cnsets = HintCN

BootInv ==
  /\ file \in Files
  /\ pos \in 1..LinesRead(file) + 1
  /\ started \subseteq Threads
  /\ \A k \in 1..pos - 1 : ~Bad(file.lines[k])
  /\ stage \in {"load", "listen", "up"}
  /\ IF stage = "load" THEN Loading ELSE Loaded

(* What LoadConfig reads are lines of the file.                            *)
LEMMA LinesTyped ==
  ASSUME NEW f \in Files
  PROVE  /\ LinesRead(f) \in Nat
         /\ \A k \in 1..LinesRead(f) : f.lines[k] \in FileLine
BY FilesAssumption DEF LinesRead, File

(* The owner of a line that is not too short is a name.                    *)
LEMMA OwnerTyped ==
  ASSUME NEW l \in FileLine, l.kind # "short"
  PROVE  Lower[l.name] \in Names
BY FilesAssumption DEF FileLine

-----------------------------------------------------------------------------
(* One line more: it is one of those of its type and owner ...             *)
LEMMA LineHere ==
  ASSUME NEW f, NEW k \in Nat, NEW t, NEW n,
         f.lines[k + 1].kind = t, Lower[f.lines[k + 1].name] = n
  PROVE  LinesFor(f, k + 1, t, n) = LinesFor(f, k, t, n) \cup {k + 1}
<1>1. 1..k + 1 = (1..k) \cup {k + 1}
  OBVIOUS
<1>. QED
  BY <1>1 DEF LinesFor

(* ... and not of the others.                                              *)
LEMMA LineElsewhere ==
  ASSUME NEW f, NEW k \in Nat, NEW t, NEW n,
         f.lines[k + 1].kind # t \/ Lower[f.lines[k + 1].name] # n
  PROVE  LinesFor(f, k + 1, t, n) = LinesFor(f, k, t, n)
<1>1. 1..k + 1 = (1..k) \cup {k + 1}
  OBVIOUS
<1>. QED
  BY <1>1 DEF LinesFor

(* A line of another type changes nothing.                                 *)
LEMMA OtherKind ==
  ASSUME NEW f, NEW k \in Nat, NEW t, f.lines[k + 1].kind # t
  PROVE  /\ OwnersIn(f, k + 1, t) = OwnersIn(f, k, t)
         /\ Listed(f, k + 1, t) = Listed(f, k, t)
<1>1. \A n : LinesFor(f, k + 1, t, n) = LinesFor(f, k, t, n)
  BY LineElsewhere
<1>2. OwnersIn(f, k + 1, t) = OwnersIn(f, k, t)
  BY <1>1 DEF OwnersIn
<1>3. Listed(f, k + 1, t) = Listed(f, k, t)
  BY <1>1, <1>2 DEF Listed
<1>. QED
  BY <1>2, <1>3

(* The same for aliases.                                                   *)
LEMMA OtherAliases ==
  ASSUME NEW f, NEW k \in Nat, f.lines[k + 1].kind # "CNAME"
  PROVE  Aliases(f, k + 1) = Aliases(f, k)
<1>1. \A n : LinesFor(f, k + 1, "CNAME", n) = LinesFor(f, k, "CNAME", n)
  BY LineElsewhere
<1>2. \A n : LastFor(f, k + 1, n) = LastFor(f, k, n)
  BY <1>1 DEF LastFor
<1>3. OwnersIn(f, k + 1, "CNAME") = OwnersIn(f, k, "CNAME")
  BY <1>1 DEF OwnersIn
<1>. QED
  BY <1>2, <1>3 DEF Aliases

(* A line adds its owner.                                                  *)
LEMMA OwnersStep ==
  ASSUME NEW f, NEW k \in Nat, NEW t, f.lines[k + 1].kind = t,
         Lower[f.lines[k + 1].name] \in Names
  PROVE  OwnersIn(f, k + 1, t) = OwnersIn(f, k, t) \cup {Lower[f.lines[k + 1].name]}
<1>1. \A n : LinesFor(f, k, t, n) \subseteq LinesFor(f, k + 1, t, n)
  BY LineHere, LineElsewhere
<1>2. \A n : n # Lower[f.lines[k + 1].name] => LinesFor(f, k + 1, t, n) = LinesFor(f, k, t, n)
  BY LineElsewhere
<1>3. k + 1 \in LinesFor(f, k + 1, t, Lower[f.lines[k + 1].name])
  BY LineHere
<1>. QED
  BY <1>1, <1>2, <1>3 DEF OwnersIn

(* What AddA, AddAAAA and AddNS do is what a line of their type says.      *)
LEMMA ListedStep ==
  ASSUME NEW f, NEW k \in Nat, NEW t, f.lines[k + 1].kind = t,
         Lower[f.lines[k + 1].name] \in Names
  PROVE  LET n == Lower[f.lines[k + 1].name]
         IN  Listed(f, k + 1, t) =
               Put(Listed(f, k, t), n,
                   Entry(Listed(f, k, t), n) \cup {Datum(f.lines[k + 1])})
<1>. DEFINE n == Lower[f.lines[k + 1].name]
            old == Listed(f, k, t)
            new == Entry(old, n) \cup {Datum(f.lines[k + 1])}
            Data(j, x) == {Datum(f.lines[i]) : i \in LinesFor(f, j, t, x)}
<1>1. DOMAIN old = OwnersIn(f, k, t) /\ \A x \in DOMAIN old : old[x] = Data(k, x)
  BY DEF Listed
<1>2. OwnersIn(f, k + 1, t) = DOMAIN old \cup {n}
  BY <1>1, OwnersStep
<1>3. \A x : x # n => Data(k + 1, x) = Data(k, x)
  BY LineElsewhere
<1>4. Data(k + 1, n) = Data(k, n) \cup {Datum(f.lines[k + 1])}
  <2>1. LinesFor(f, k + 1, t, n) = LinesFor(f, k, t, n) \cup {k + 1}
    BY LineHere
  <2>. QED
    BY <2>1
<1>5. Entry(old, n) = Data(k, n)
  <2>1. CASE n \in DOMAIN old
    BY <1>1, <2>1 DEF Entry
  <2>2. CASE n \notin DOMAIN old
    <3>1. LinesFor(f, k, t, n) = {}
      BY <1>1, <2>2 DEF OwnersIn
    <3>. QED
      BY <2>2, <3>1 DEF Entry
  <2>. QED
    BY <2>1, <2>2
<1>6. Listed(f, k + 1, t) = [x \in DOMAIN old \cup {n} |-> Data(k + 1, x)]
  BY <1>2 DEF Listed
<1>7. \A x \in DOMAIN old \cup {n} :
        Data(k + 1, x) = IF x = n THEN new ELSE old[x]
  BY <1>1, <1>3, <1>4, <1>5
<1>. HIDE DEF Data, new, old, n
<1>8. Listed(f, k + 1, t) = Put(old, n, new)
  BY <1>6, <1>7 DEF Put
<1>. QED
  BY <1>8 DEF new, old, n

(* What SetOriCNAME does is what a CNAME line says.                        *)
LEMMA AliasesStep ==
  ASSUME NEW f, NEW k \in Nat, f.lines[k + 1].kind = "CNAME",
         Lower[f.lines[k + 1].name] \in Names
  PROVE  Aliases(f, k + 1) =
           Put(Aliases(f, k), Lower[f.lines[k + 1].name], Datum(f.lines[k + 1]))
<1>. DEFINE n == Lower[f.lines[k + 1].name]
            owners == OwnersIn(f, k, "CNAME")
<1>1. OwnersIn(f, k + 1, "CNAME") = owners \cup {n}
  BY OwnersStep
<1>2. LastFor(f, k + 1, n) = k + 1
  <2>1. LinesFor(f, k + 1, "CNAME", n) = LinesFor(f, k, "CNAME", n) \cup {k + 1}
    BY LineHere
  <2>2. LinesFor(f, k, "CNAME", n) \subseteq 1..k
    BY DEF LinesFor
  <2>. QED
    BY <2>1, <2>2 DEF LastFor
<1>3. \A x : x # n => LastFor(f, k + 1, x) = LastFor(f, k, x)
  BY LineElsewhere DEF LastFor
<1>4. DOMAIN Aliases(f, k) = owners
  BY DEF Aliases
<1>. QED
  BY <1>1, <1>2, <1>3, <1>4 DEF Aliases, Put

-----------------------------------------------------------------------------
(* Before the first line the maps are empty, as InitDS makes them.         *)
LEMMA BootInitInv == BootInit => BootInv
<1>. SUFFICES ASSUME BootInit PROVE BootInv
  OBVIOUS
<1>1. \A t, n : LinesFor(file, 0, t, n) = {}
  BY DEF LinesFor
<1>2. \A t : OwnersIn(file, 0, t) = {}
  BY <1>1 DEF OwnersIn
<1>3. /\ \A t : Listed(file, 0, t) = Empty
      /\ Aliases(file, 0) = Empty
  BY <1>2 DEF Listed, Aliases, Empty
<1>4. Loading
  BY <1>3 DEF BootInit, Idle, Loading
<1>5. file \in Files /\ LinesRead(file) \in Nat
  BY LinesTyped DEF BootInit
<1>. QED
  BY <1>4, <1>5 DEF BootInit, BootInv

(* A line that LoadConfig can read adds to the maps what it says.          *)
LEMMA ReadLineInv ==
  ASSUME BootInv, AddRecord \/ SetAlias \/ PassOver
  PROVE  BootInv'
<1>. DEFINE k == pos - 1
            n == Lower[Line.name]
            Plus(old, new, t) == new = IF Line.kind = t THEN Added(old) ELSE old
<1>1. /\ k \in Nat /\ pos = k + 1 /\ pos \in 1..LinesRead(file)
      /\ Line \in FileLine /\ Line = file.lines[k + 1]
  BY LinesTyped DEF BootInv, AddRecord, SetAlias, PassOver, Reading, Line
<1>2. ~Bad(Line) /\ Line.kind \in {"A", "AAAA", "NS", "CNAME", "MX"}
  BY DEF AddRecord, SetAlias, PassOver, Bad
<1>3. n \in Names
  BY <1>1, <1>2, OwnerTyped
<1>4. /\ UNCHANGED <<file, stage, started, threads>> /\ pos' = pos + 1 /\ stage = "load"
  BY DEF AddRecord, SetAlias, PassOver, Reading, cacheVars
<1>5. Loading
  BY <1>4 DEF BootInv
<1>6. ASSUME NEW t, NEW old, NEW new, old = Listed(file, k, t), Plus(old, new, t)
      PROVE  new = Listed(file, pos, t)
  <2>1. CASE Line.kind = t
    <3>1. Listed(file, pos, t) = Put(Listed(file, k, t), n,
                                     Entry(Listed(file, k, t), n) \cup {Datum(Line)})
      BY <1>1, <1>3, <2>1, ListedStep
    <3>. QED
      BY <1>6, <2>1, <3>1 DEF Added
  <2>2. CASE Line.kind # t
    <3>1. Listed(file, pos, t) = Listed(file, k, t)
      BY <1>1, <2>2, OtherKind
    <3>. QED
      BY <1>6, <2>2, <3>1
  <2>. QED
    BY <2>1, <2>2
<1>7. Plus(asets, asets', "A") /\ Plus(aaaasets, aaaasets', "AAAA") /\ Plus(nssets, nssets', "NS")
  BY <1>2 DEF AddRecord, SetAlias, PassOver, cacheVars, stores
<1>8. cnsets' = Aliases(file, pos)
  <2>1. cnsets = Aliases(file, k)
    BY <1>5 DEF Loading
  <2>2. CASE SetAlias
    <3>1. Line.kind = "CNAME" /\ cnsets' = Put(cnsets, n, Datum(Line))
      BY <2>2 DEF SetAlias
    <3>. QED
      BY <1>1, <1>3, <2>1, <3>1, AliasesStep
  <2>3. CASE AddRecord \/ PassOver
    <3>1. Line.kind # "CNAME" /\ cnsets' = cnsets
      BY <2>3 DEF AddRecord, PassOver, cacheVars, stores
    <3>. QED
      BY <1>1, <2>1, <3>1, OtherAliases
  <2>. QED
    BY <2>2, <2>3
<1>9. /\ asets' = Listed(file, pos, "A")
      /\ aaaasets' = Listed(file, pos, "AAAA")
      /\ nssets' = Listed(file, pos, "NS")
  <2>. HIDE DEF Plus
  <2>. QED
    BY <1>5, <1>6, <1>7 DEF Loading
<1>10. Loading'
  <2>1. pos' - 1 = pos
    BY <1>1, <1>4
  <2>. QED
    BY <1>4, <1>5, <1>8, <1>9, <2>1 DEF Loading, Idle, threads
<1>11. \A j \in 1..pos' - 1 : ~Bad(file'.lines[j])
  <2>1. \A j \in 1..pos' - 1 : j \in 1..pos - 1 \/ j = pos
    BY <1>1, <1>4
  <2>. QED
    BY <1>2, <1>4, <2>1 DEF BootInv, Line
<1>12. pos' \in 1..LinesRead(file') + 1
  BY <1>1, <1>4, LinesTyped DEF BootInv
<1>. QED
  BY <1>4, <1>10, <1>11, <1>12 DEF BootInv

(* At the end of the file the maps are the hints.                          *)
LEMMA EndOfFileInv ==
  ASSUME BootInv, EndOfFile
  PROVE  /\ BootInv'
         /\ asets = HintA /\ nssets = HintNS /\ cnsets = HintCN
<1>1. Loading /\ stage = "load" /\ up
  BY DEF BootInv, EndOfFile
<1>2. pos = LinesRead(file) + 1 /\ pos - 1 = LinesRead(file)
  BY LinesTyped DEF BootInv, EndOfFile
<1>3. Says(file, LinesRead(file)) = Hints
  BY <1>2, FilesAssumption DEF BootInv
<1>4. /\ asets = HintA /\ nssets = HintNS /\ cnsets = HintCN /\ aaaasets = HintAAAA
  BY <1>1, <1>2, <1>3 DEF Loading, Says, Hints
<1>5. CacheInv
  BY <1>1, <1>4, CacheInitInv DEF Loading, CacheInit
<1>6. CacheInv'
  BY <1>5, CacheNextInv DEF EndOfFile
<1>7. Loaded'
  BY <1>2, <1>4, <1>6 DEF EndOfFile, Loaded, cacheVars, stores
<1>. QED
  BY <1>4, <1>7 DEF BootInv, EndOfFile

(* A step of the cache after LoadConfig.                                   *)
LEMMA LoadedInv ==
  ASSUME BootInv, stage # "load", [CacheNext]_cacheVars, UNCHANGED <<aaaasets, file, pos>>,
         stage' \in {"listen", "up"}, started \subseteq started', started' \subseteq Threads,
         started = {} => UNCHANGED cacheVars
  PROVE  BootInv'
<1>1. CacheInv'
  BY CacheNextInv DEF BootInv, Loaded
<1>2. Loaded'
  BY <1>1 DEF BootInv, Loaded, cacheVars, stores
<1>. QED
  BY <1>2 DEF BootInv

(* Every step preserves the invariant.                                     *)
LEMMA BootNextInv == BootInv /\ [BootNext]_bootVars => BootInv'
<1>. SUFFICES ASSUME BootInv, [BootNext]_bootVars PROVE BootInv'
  OBVIOUS
<1>1. CASE AddRecord \/ SetAlias \/ PassOver
  BY <1>1, ReadLineInv
<1>2. CASE BadLine
  BY <1>2 DEF BadLine, Reading, BootInv, Crash, Loading, boot, stores
<1>3. CASE EndOfFile
  BY <1>3, EndOfFileInv
<1>4. CASE Listening
  BY <1>4, LoadedInv DEF Listening, BootInv
<1>5. ASSUME NEW i \in Threads, OpenSocket(i) PROVE BootInv'
  BY <1>5, LoadedInv DEF OpenSocket, BootInv
<1>6. ASSUME NEW i \in Threads, Serving(i) PROVE BootInv'
  <2>1. CacheNext /\ i \in started /\ UNCHANGED <<aaaasets, boot>>
    BY <1>6 DEF Serving, CacheNext
  <2>2. stage # "load"
    BY <2>1 DEF BootInv, Loading
  <2>. QED
    BY <2>1, <2>2, LoadedInv DEF boot, BootInv
<1>7. CASE UNCHANGED bootVars
  <2>1. CASE stage = "load"
    BY <1>7, <2>1 DEF bootVars, boot, cacheVars, stores, threads, BootInv, Loading, Idle
  <2>2. CASE stage # "load"
    BY <1>7, <2>2, LoadedInv DEF bootVars, boot, BootInv
  <2>. QED
    BY <2>1, <2>2
<1>. QED
  BY <1>1, <1>2, <1>3, <1>4, <1>5, <1>6, <1>7 DEF BootNext

-----------------------------------------------------------------------------
(* The inductive invariant holds in every state.                           *)
THEOREM BootInvariance == BootSpec => []BootInv
BY BootInitInv, BootNextInv, PTL DEF BootSpec

(* Whatever root.z holds and in whatever order, LoadConfig puts into the   *)
(* empty maps what it says, and no goroutine serves before.                *)
THEOREM BootLoads == BootSpec => []LoadedBeforeServing
<1>1. BootInv => LoadedBeforeServing
  BY DEF BootInv, Loading, Loaded, LoadedBeforeServing
<1>. QED
  BY <1>1, BootInvariance, PTL

(* From the moment LoadConfig is done, the aliases and servers the process *)
(* shows have address entries, and only servers have them.                 *)
THEOREM BootAdmission ==
  BootSpec => [](stage # "load" => ServersAdmitted /\ AliasesAdmitted /\ OnlyServersAdmitted)
<1>1. BootInv => (stage # "load" => ServersAdmitted /\ AliasesAdmitted /\ OnlyServersAdmitted)
  BY DEF BootInv, Loaded, CacheInv
<1>. QED
  BY <1>1, BootInvariance, PTL

(* No goroutine ever sees a delegation that is half read from root.z or    *)
(* mixed from two replies.                                                 *)
THEOREM BootWholeDelegation == BootSpec => []WholeDelegationSeen
<1>1. \A m : Served!LocalNS(m) = LocalNS(m)
  BY DEF LocalNS, DataOf, RRof, Served!LocalNS, Served!DataOf, Served!RRof
<1>2. BootInv => WholeDelegationSeen
  <2>1. stage = "load" => WholeDelegationSeen
    BY DEF Seen, WholeDelegationSeen, Served!WholeDelegation
  <2>2. stage # "load" /\ CacheInv => WholeDelegationSeen
    BY <1>1 DEF Seen, CacheInv, WholeDelegation, WholeDelegationSeen, Served!WholeDelegation
  <2>. QED
    BY <2>1, <2>2 DEF BootInv, Loaded
<1>. QED
  BY <1>2, BootInvariance, PTL

-----------------------------------------------------------------------------
(* Once LoadConfig is done, the goroutines see the maps as they are, and   *)
(* their steps are those of module DnsCache.                               *)
LEMMA ServingServed ==
  ASSUME stage # "load", stage' = stage, NEW i \in Threads, Serving(i)
  PROVE  Served!CacheNext
<1>1. /\ Seen(asets, HintA) = asets /\ Seen(asets, HintA)' = asets'
      /\ Seen(nssets, HintNS) = nssets /\ Seen(nssets, HintNS)' = nssets'
      /\ Seen(cnsets, HintCN) = cnsets /\ Seen(cnsets, HintCN)' = cnsets'
  BY DEF Seen
<1>. USE DEF stores, threads, cacheVars, Served!stores, Served!threads, Served!cacheVars
<1>2. ASSUME NEW m \in Messages, Receive(i, m) PROVE Served!Receive(i, m)
  <2>1. /\ Served!Negative(m) = Negative(m)
        /\ Served!SelfServed(m) = SelfServed(m)
        /\ Served!LocalNS(m) = LocalNS(m)
        /\ Served!ServersIn(m) = ServersIn(m)
        /\ Served!Empty = Empty
        /\ Served!RRof(m.rrs, "CNAME") = RRof(m.rrs, "CNAME")
        /\ Served!RRof(m.rrs, "A") = RRof(m.rrs, "A")
    BY DEF Negative, SelfServed, LocalNS, ServersIn, DataOf, RRof, Empty,
       Served!Negative, Served!SelfServed, Served!LocalNS, Served!ServersIn,
       Served!DataOf, Served!RRof, Served!Empty
  <2>2. Ignore(i, m) => Served!Ignore(i, m)
    BY <1>1, <2>1 DEF Ignore, Served!Ignore
  <2>3. Parse(i, m) => Served!Parse(i, m)
    BY <1>1, <2>1 DEF Parse, Served!Parse
  <2>4. Panic(i, m) => Served!Panic(i, m)
    BY <1>1, <2>1 DEF Panic, Served!Panic
  <2>. QED
    BY <1>2, <2>2, <2>3, <2>4 DEF Receive, Served!Receive
<1>3. ASSUME Work(i) PROVE Served!Work(i)
  <2>1. /\ \A s, t : Served!RRof(s, t) = RRof(s, t)
        /\ \A f, k, v : Served!Put(f, k, v) = Put(f, k, v)
        /\ \A f, k : Served!Delete(f, k) = Delete(f, k)
        /\ \A f, k : Served!Entry(f, k) = Entry(f, k)
    BY DEF RRof, Put, Delete, Entry, Restrict, Served!RRof, Served!Put, Served!Delete,
       Served!Entry, Served!Restrict
  <2>2. \A n : Served!Admitted(i, n) = Admitted(i, n)
    BY <1>1 DEF Admitted, Served!Admitted
  <2>3. ASSUME NEW r PROVE ScreenCNAME(i, r) => Served!ScreenCNAME(i, r)
    BY <1>1, <2>1, <2>2 DEF ScreenCNAME, Served!ScreenCNAME
  <2>4. ASSUME NEW r PROVE ScreenA(i, r) => Served!ScreenA(i, r)
    BY <1>1, <2>1, <2>2 DEF ScreenA, Served!ScreenA
  <2>5. ASSUME NEW n PROVE StoreA(i, n) => Served!StoreA(i, n)
    BY <1>1, <2>1 DEF StoreA, Served!StoreA
  <2>6. ASSUME NEW z PROVE StoreNS(i, z) => Served!StoreNS(i, z)
    BY <1>1, <2>1 DEF StoreNS, Served!StoreNS
  <2>7. ASSUME NEW n PROVE StoreCNAME(i, n) => Served!StoreCNAME(i, n)
    BY <1>1, <2>1 DEF StoreCNAME, Served!StoreCNAME
  <2>. QED
    BY <1>3, <2>1, <2>3, <2>4, <2>5, <2>6, <2>7 DEF Work, Served!Work
<1>4. ASSUME Finish(i) PROVE Served!Finish(i)
  BY <1>1, <1>4 DEF Finish, stores, Served!Finish, Served!stores
<1>. QED
  BY <1>2, <1>3, <1>4 DEF Serving, Served!CacheNext

(* Every step of the start and of the goroutines it starts is a step of    *)
(* the cache or leaves what the goroutines can see of it alone.            *)
THEOREM BootUsesCache == BootSpec => ServedSpec
<1>1. BootInit => Served!CacheInit
  BY DEF BootInit, Seen, Idle, Empty, Served!CacheInit, Served!Idle, Served!Empty
<1>2. ASSUME BootInv, [BootNext]_bootVars
      PROVE  [Served!CacheNext]_(Served!cacheVars)
  <2>1. ASSUME UNCHANGED threads, UNCHANGED stage, stage = "load" \/ UNCHANGED stores
        PROVE  UNCHANGED Served!cacheVars
    BY <2>1 DEF threads, stores, Seen, Served!cacheVars, Served!stores, Served!threads
  <2>2. CASE AddRecord \/ SetAlias \/ PassOver
    BY <2>1, <2>2 DEF AddRecord, SetAlias, PassOver, Reading, cacheVars
  <2>3. CASE BadLine
    BY <2>3 DEF BadLine, Reading, Crash, boot, Seen, Served!CacheNext, Served!Crash, Served!stores
  <2>4. CASE EndOfFile
    <3>1. asets = HintA /\ nssets = HintNS /\ cnsets = HintCN /\ UNCHANGED cacheVars
      BY <1>2, <2>4, EndOfFileInv DEF EndOfFile
    <3>. QED
      BY <3>1 DEF cacheVars, stores, threads, Seen, Served!cacheVars, Served!stores, Served!threads
  <2>5. CASE Listening
    BY <2>5 DEF Listening, cacheVars, stores, threads, Seen, Served!cacheVars,
       Served!stores, Served!threads
  <2>6. ASSUME NEW i \in Threads, OpenSocket(i) PROVE UNCHANGED Served!cacheVars
    BY <2>1, <2>6 DEF OpenSocket, cacheVars
  <2>7. ASSUME NEW i \in Threads, Serving(i) PROVE Served!CacheNext
    <3>1. stage # "load" /\ stage' = stage
      BY <1>2, <2>7 DEF Serving, BootInv, Loading, boot
    <3>. QED
      BY <2>7, <3>1, ServingServed
  <2>8. CASE UNCHANGED bootVars
    BY <2>1, <2>8 DEF bootVars, cacheVars, boot
  <2>. QED
    BY <1>2, <2>2, <2>3, <2>4, <2>5, <2>6, <2>7, <2>8 DEF BootNext
<1>. QED
  BY <1>1, <1>2, BootInvariance, PTL DEF BootSpec, ServedSpec, Served!CacheSpec
=============================================================================
