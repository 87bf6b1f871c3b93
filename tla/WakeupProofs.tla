----------------------------- MODULE WakeupProofs -----------------------------
(***************************************************************************)
(* The wake-up of waiting requests, for any number of clients, threads and *)
(* names and whatever the nameservers reply: a request wakes only after    *)
(* the reply has been stored, and none is left asleep for want of a        *)
(* wake-up.                                                                *)
(***************************************************************************)
EXTENDS ResolverProofs

-----------------------------------------------------------------------------
(* The members of a bag to which one is added.                             *)
LEMMA MembersAdded ==
  ASSUME NEW B, NEW x
  PROVE  DOMAIN BagAdd(B, x) = DOMAIN B \cup {x}
BY DEF BagAdd

(* The members of a bag from which one is removed: that one may stay.      *)
LEMMA MembersRemoved ==
  ASSUME NEW B, NEW x
  PROVE  /\ DOMAIN B \ {x} \subseteq DOMAIN BagRemove(B, x)
         /\ DOMAIN BagRemove(B, x) \subseteq DOMAIN B
BY DEF BagRemove

(* The members of a bag in which one gives way to another.                 *)
LEMMA MembersReplaced ==
  ASSUME NEW B, NEW x, NEW e
  PROVE  /\ e \in DOMAIN BagAdd(BagRemove(B, x), e)
         /\ DOMAIN B \ {x} \subseteq DOMAIN BagAdd(BagRemove(B, x), e)
         /\ DOMAIN BagAdd(BagRemove(B, x), e) \subseteq DOMAIN B \cup {e}
<1>1. DOMAIN BagAdd(BagRemove(B, x), e) = DOMAIN BagRemove(B, x) \cup {e}
  BY MembersAdded
<1>. QED
  BY <1>1, MembersRemoved

(* The members of the union of two bags.                                   *)
LEMMA MembersJoined ==
  ASSUME NEW B, NEW C
  PROVE  DOMAIN (B (+) C) = DOMAIN B \cup DOMAIN C
BY DEF (+)

(* The goroutines Wake starts, one for each waiting request.               *)
LEMMA MembersWoken ==
  ASSUME NEW key, NEW ds
  PROVE  DOMAIN Woken(key, ds) = {Started(n, ds) : n \in DOMAIN Waiting(key)}
BY DEF Woken

-----------------------------------------------------------------------------
(* What a thread holds of its reply: each server the reply names and each  *)
(* zone it delegates is in the cache or still in the thread's local map.   *)
RepliesHeld ==
  \A i \in Threads : msg[i] # NoMsg =>
    /\ ServersIn(msg[i]) \subseteq DOMAIN asets \cup DOMAIN localA[i]
    /\ DOMAIN LocalNS(msg[i]) \subseteq DOMAIN nssets \cup DOMAIN localNS[i]

(* No entry of the cache ever disappears.                                  *)
LEMMA EntriesStay ==
  ASSUME [CacheNext]_cacheVars
  PROVE  DOMAIN asets \subseteq DOMAIN asets' /\ DOMAIN nssets \subseteq DOMAIN nssets'
BY DEF CacheNext, Receive, Work, Ignore, Parse, Panic, ScreenCNAME, ScreenA,
       StoreA, StoreNS, StoreCNAME, Finish, Crash, stores, cacheVars, Put

(* A thread gives up an entry of a local map only when it is stored.       *)
LEMMA HeldStep ==
  ASSUME CacheTyped, RepliesHeld, [CacheNext]_cacheVars
  PROVE  RepliesHeld'
<1>0. CASE UNCHANGED cacheVars \/ Crash
  BY <1>0 DEF RepliesHeld, cacheVars, stores, threads, Crash
<1>1. ASSUME NEW i \in Threads, NEW m \in Messages, Receive(i, m) PROVE RepliesHeld'
  <2>1. CASE Ignore(i, m) \/ Panic(i, m)
    BY <2>1 DEF Ignore, Panic, cacheVars, stores, threads, RepliesHeld
  <2>2. CASE Parse(i, m)
    BY <2>2 DEF Parse, stores, RepliesHeld, CacheTyped
  <2>. QED
    BY <1>1, <2>1, <2>2 DEF Receive
<1>2. ASSUME NEW i \in Threads, Work(i) PROVE RepliesHeld'
  <2>1. ASSUME NEW r, ScreenCNAME(i, r) PROVE RepliesHeld'
    BY <2>1 DEF ScreenCNAME, stores, RepliesHeld
  <2>2. ASSUME NEW r, ScreenA(i, r) PROVE RepliesHeld'
    BY <2>2 DEF ScreenA, stores, RepliesHeld, CacheTyped, Put
  <2>3. ASSUME NEW n, StoreA(i, n) PROVE RepliesHeld'
    <3>1. DOMAIN Delete(localA[i], n) = DOMAIN localA[i] \ {n}
      BY DeleteKey
    <3>2. DOMAIN asets' = DOMAIN asets \cup {n}
      BY <2>3 DEF StoreA, Put
    <3>. QED
      BY <2>3, <3>1, <3>2 DEF StoreA, RepliesHeld, CacheTyped
  <2>4. ASSUME NEW z, StoreNS(i, z) PROVE RepliesHeld'
    <3>1. CASE z \in localNS[i][z]
      BY <2>4, <3>1 DEF StoreNS, RepliesHeld
    <3>2. CASE z \notin localNS[i][z]
      <4>1. DOMAIN Delete(localNS[i], z) = DOMAIN localNS[i] \ {z}
        BY DeleteKey
      <4>2. DOMAIN nssets' = DOMAIN nssets \cup {z}
        BY <2>4, <3>2 DEF StoreNS, Put
      <4>. QED
        BY <2>4, <3>2, <4>1, <4>2 DEF StoreNS, RepliesHeld, CacheTyped
    <3>. QED
      BY <3>1, <3>2
  <2>5. ASSUME NEW n, StoreCNAME(i, n) PROVE RepliesHeld'
    BY <2>5 DEF StoreCNAME, RepliesHeld
  <2>. QED
    BY <1>2, <2>1, <2>2, <2>3, <2>4, <2>5 DEF Work
<1>3. ASSUME NEW i \in Threads, Finish(i) PROVE RepliesHeld'
  BY <1>3 DEF Finish, stores, RepliesHeld, CacheTyped
<1>. QED
  BY <1>0, <1>1, <1>2, <1>3 DEF CacheNext

-----------------------------------------------------------------------------
(* The steps with which Doit goes on with its request: it keeps the data   *)
(* set, the client, what the request was made for and the question it is   *)
(* for.                                                                    *)
GoesOn(d) ==
  \/ Search(d)
  \/ Walk(d)
  \/ \E v \in LookedUp(d) : FollowAlias(d, v) \/ NoAlias(d, v)
  \/ FindAddresses(d)

(* It ends with one goroutine in the place of another: same data set, same *)
(* client, and the same request or the request one turn on.                *)
LEMMA GoingOn ==
  ASSUME NEW d \in Task, GoesOn(d)
  PROVE  \E e :
           /\ doits' = BagAdd(BagRemove(doits, d), e)
           /\ e.ds = d.ds
           /\ e.node.req = d.node.req
           /\ e.node.last = d.node.last
           /\ e.node.made = d.node.made
           /\ e.node = d.node \/ (Trying(d) /\ e.node = Advanced(d))
           /\ UNCHANGED <<cacheVars, intake, tails, table, rest>>
<1>1. CASE Search(d)
  <2>. DEFINE n  == Advanced(d)
              ns == DataOf(d.ds, "NS", n.q) \ {n.q}
              e  == [d EXCEPT !.node = n, !.at = n.q, !.ns = ns, !.left = ns,
                              !.pc = IF ns = {} THEN "walk" ELSE "addrs"]
  <2>1. n.req = d.node.req /\ n.last = d.node.last /\ n.made = d.node.made
    BY <1>1, TryingNode DEF Search
  <2>2. doits' = BagAdd(BagRemove(doits, d), e)
    BY <1>1 DEF Search
  <2>3. e.node = n /\ e.ds = d.ds
    BY DEF Task
  <2>. HIDE DEF n, e
  <2>. QED
    BY <1>1, <2>1, <2>2, <2>3 DEF Search, n
<1>2. CASE Walk(d)
  <2>. DEFINE ns == ZoneServers(d)
              e  == IF ns # {} THEN [d EXCEPT !.pc = "addrs", !.ns = ns, !.left = ns]
                               ELSE [d EXCEPT !.at = Parent[@]]
  <2>1. doits' = BagAdd(BagRemove(doits, d), e)
    BY <1>2 DEF Walk
  <2>2. e.node = d.node /\ e.ds = d.ds
    BY DEF Task
  <2>. HIDE DEF e
  <2>. QED
    BY <1>2, <2>1, <2>2 DEF Walk
<1>3. ASSUME NEW v, FollowAlias(d, v)
      PROVE  \E e : /\ doits' = BagAdd(BagRemove(doits, d), e)
                    /\ e.node = d.node /\ e.ds = d.ds
  <2>. DEFINE e == [d EXCEPT !.pc = "alias", !.at = cnsets[v], !.left = RestOf(d, v)]
  <2>1. doits' = BagAdd(BagRemove(doits, d), e)
    BY <1>3 DEF FollowAlias
  <2>2. e.node = d.node /\ e.ds = d.ds
    BY DEF Task
  <2>. HIDE DEF e
  <2>. QED
    BY <2>1, <2>2
<1>4. ASSUME NEW v, NoAlias(d, v)
      PROVE  \E e : /\ doits' = BagAdd(BagRemove(doits, d), e)
                    /\ e.node = d.node /\ e.ds = d.ds
  <2>. DEFINE here == DataOf(d.ds, "A", v)
              on   == [d EXCEPT !.left = RestOf(d, v)]
              e    == IF here # {} THEN [on EXCEPT !.pc = "addrs", !.ips = @ \cup here]
                                   ELSE [on EXCEPT !.pc = "geta", !.at = v]
  <2>1. doits' = BagAdd(BagRemove(doits, d), e)
    BY <1>4 DEF NoAlias
  <2>2. e.node = d.node /\ e.ds = d.ds
    BY DEF Task
  <2>. HIDE DEF e
  <2>. QED
    BY <2>1, <2>2
<1>5. ASSUME FindAddresses(d)
      PROVE  \E e : /\ doits' = BagAdd(BagRemove(doits, d), e)
                    /\ e.node = d.node /\ e.ds = d.ds
  <2>. DEFINE e == [d EXCEPT !.pc = "addrs", !.ips = @ \cup Entry(asets, d.at)]
  <2>1. doits' = BagAdd(BagRemove(doits, d), e)
    BY <1>5 DEF FindAddresses
  <2>2. e.node = d.node /\ e.ds = d.ds
    BY DEF Task
  <2>. HIDE DEF e
  <2>. QED
    BY <2>1, <2>2
<1>6. ASSUME NEW v, FollowAlias(d, v) \/ NoAlias(d, v) \/ FindAddresses(d)
      PROVE  UNCHANGED <<cacheVars, intake, tails, table, rest>>
  BY <1>6 DEF FollowAlias, NoAlias, FindAddresses
<1>. QED
  BY <1>1, <1>2, <1>3, <1>4, <1>5, <1>6 DEF GoesOn

(* A step of Doit that does not go on takes the request from the           *)
(* goroutine, unless it ends the process.                                  *)
LEMMA DoitEither ==
  ASSUME NEW d, Doit(d)
  PROVE  \/ GoesOn(d)
         \/ Overflow(d)
         \/ /\ doits' = BagRemove(doits, d)
            /\ GiveUp(d) \/ AnswerClient(d) \/ AskServer(d) \/ Lost(d) \/ Register(d)
BY DEF Doit, GoesOn, GiveUp, AnswerClient, AskServer, Lost, Register

(* Where the data set of a goroutine comes from: it had it before, it has  *)
(* none, or a thread that is done with a reply has just woken it.          *)
LEMMA DataSets ==
  ASSUME RequestsTypeOK, [Next]_vars, NEW e \in DOMAIN doits'
  PROVE  \/ e.ds = {}
         \/ \E d \in DOMAIN doits : e.ds = d.ds
         \/ \E i \in Threads : Finish(i) /\ e.ds = msg[i].rrs
<1>1. ASSUME NEW c \in Clients, Refuse(c) \/ Accept(c) PROVE e \in DOMAIN doits
  BY <1>1 DEF Refuse, Accept, work
<1>2. ASSUME NEW n \in sending, Enqueue(n) PROVE e \in DOMAIN doits
  BY <1>2 DEF Enqueue, work
<1>3. CASE Worker
  <2>1. DOMAIN doits' = DOMAIN doits \cup {Started(Head(chan), {})}
    BY <1>3, MembersAdded DEF Worker
  <2>. QED
    BY <2>1 DEF Started
<1>4. ASSUME NEW d \in BagToSet(doits), Doit(d)
      PROVE  \E b \in DOMAIN doits : e.ds = b.ds
  <2>1. d \in Task /\ d \in DOMAIN doits
    BY DEF RequestsTypeOK, IsBagOf, BagToSet
  <2>2. CASE GoesOn(d)
    <3>1. PICK f : doits' = BagAdd(BagRemove(doits, d), f) /\ f.ds = d.ds
      BY <2>1, <2>2, GoingOn
    <3>2. DOMAIN doits' \subseteq DOMAIN doits \cup {f}
      BY <3>1, MembersReplaced
    <3>. QED
      BY <2>1, <3>1, <3>2
  <2>3. CASE doits' = BagRemove(doits, d)
    BY <2>3, MembersRemoved
  <2>4. CASE Overflow(d)
    BY <2>4 DEF Overflow, work
  <2>. QED
    BY <1>4, <2>2, <2>3, <2>4, DoitEither
<1>5. ASSUME NEW s \in BagToSet(tails), Finishing(s)
      PROVE  e.ds = {} \/ e \in DOMAIN doits
  <2>1. CASE Send(s)
    BY <2>1 DEF Send
  <2>2. ASSUME NEW v, SeekServer(s, v)
        PROVE  e.ds = {} \/ e \in DOMAIN doits
    <3>1. PICK n : doits' = BagAdd(doits, Started(n, {}))
      BY <2>2 DEF SeekServer
    <3>2. DOMAIN doits' = DOMAIN doits \cup {Started(n, {})}
      BY <3>1, MembersAdded
    <3>. QED
      BY <3>2 DEF Started
  <2>. QED
    BY <1>5, <2>1, <2>2 DEF Finishing
<1>6. ASSUME NEW i \in Threads, Serve(i)
      PROVE  e \in DOMAIN doits \/ (Finish(i) /\ e.ds = msg[i].rrs)
  <2>1. CASE Wake(i)
    <3>1. PICK key : doits' = doits (+) Woken(key, msg[i].rrs)
      BY <2>1 DEF Wake
    <3>2. DOMAIN doits' = DOMAIN doits \cup DOMAIN Woken(key, msg[i].rrs)
      BY <3>1, MembersJoined
    <3>3. DOMAIN Woken(key, msg[i].rrs) = {Started(n, msg[i].rrs) : n \in DOMAIN Waiting(key)}
      BY MembersWoken
    <3>. QED
      BY <2>1, <3>2, <3>3 DEF Wake, Started
  <2>. QED
    BY <1>6, <2>1 DEF Serve, Deliver, Store, work
<1>7. CASE UNCHANGED vars
  BY <1>7 DEF vars, work
<1>8. ASSUME NEW a \in asks, Lose(a) PROVE e \in DOMAIN doits
  BY <1>8 DEF Lose, work
<1>9. CASE e \in DOMAIN doits
  BY <1>9
<1>. QED
  BY <1>1, <1>2, <1>3, <1>4, <1>5, <1>6, <1>7, <1>8, <1>9 DEF Next, System

(* What a woken goroutine holds stays in the cache, and what a thread has  *)
(* stored when it is done is all of its reply.                             *)
LEMMA WokenStep ==
  ASSUME RequestsTypeOK, RepliesHeld, WokenAfterStore, [Next]_vars
  PROVE  WokenAfterStore'
<1>. DEFINE Stored(ds) == /\ ServersIn([rrs |-> ds]) \subseteq DOMAIN asets'
                          /\ DOMAIN LocalNS([rrs |-> ds]) \subseteq DOMAIN nssets'
<1>. SUFFICES ASSUME NEW e \in DOMAIN doits' PROVE Stored(e.ds)
  BY DEF WokenAfterStore
<1>1. DOMAIN asets \subseteq DOMAIN asets' /\ DOMAIN nssets \subseteq DOMAIN nssets'
  BY CacheStep, EntriesStay
<1>2. CASE e.ds = {}
  BY <1>2 DEF ServersIn, LocalNS, RRof
<1>3. ASSUME NEW d \in DOMAIN doits, e.ds = d.ds PROVE Stored(e.ds)
  BY <1>1, <1>3 DEF WokenAfterStore
<1>4. ASSUME NEW i \in Threads, Finish(i), e.ds = msg[i].rrs PROVE Stored(e.ds)
  <2>1. /\ ServersIn(msg[i]) \subseteq DOMAIN asets
        /\ DOMAIN LocalNS(msg[i]) \subseteq DOMAIN nssets
    BY <1>4 DEF Finish, RepliesHeld
  <2>2. /\ ServersIn([rrs |-> e.ds]) = ServersIn(msg[i])
        /\ DOMAIN LocalNS([rrs |-> e.ds]) = DOMAIN LocalNS(msg[i])
    BY <1>4 DEF ServersIn, LocalNS
  <2>. QED
    BY <1>1, <2>1, <2>2
<1>. QED
  BY <1>2, <1>3, <1>4, DataSets

(* A request that a reply has woken finds the servers and the zones of     *)
(* that reply in the cache, on whatever thread it came and whatever other  *)
(* threads have stored since: Doit need not wait for the cache.            *)
THEOREM ResolverWokenAfterStore == Spec => []WokenAfterStore
<1>. DEFINE Inv == RepliesHeld /\ WokenAfterStore
<1>1. Init => Inv
  BY DEF Init, CacheInit, Idle, RepliesHeld, WokenAfterStore, EmptyBag, SetToBag
<1>2. ResolverInv /\ Inv /\ [Next]_vars => Inv'
  BY CacheStep, HeldStep, WokenStep DEF ResolverInv, CacheInv
<1>3. Inv => WokenAfterStore
  OBVIOUS
<1>. HIDE DEF Inv
<1>. QED
  BY <1>1, <1>2, <1>3, ResolverInvariance, PTL DEF Spec

-----------------------------------------------------------------------------
(* An answer has some record.                                              *)
LEMMA AnswersNotEmpty ==
  ASSUME NEW n, NEW ds, NEW rrs \in AnswersTo(n, ds)
  PROVE  rrs # {}
BY DEF AnswersTo

(* The questions something will happen about, part by part.                *)
AskKeys == {[q |-> a.q, t |-> a.t] : a \in asks}
MsgKey(i) == [q |-> msg[i].q, t |-> msg[i].t]
MsgKeys == {MsgKey(i) : i \in {j \in Threads : msg[j] # NoMsg}}
TailKeys == {s.key : s \in DOMAIN tails}
LookupKeys == {d.node.last : d \in {e \in DOMAIN doits : e.node.made = "lookup"}}

(* Stirring, by the places where questions stir.                           *)
LEMMA StirringParts ==
  Stirring = AskKeys \cup MsgKeys \cup TailKeys \cup LookupKeys \cup forsaken
BY DEF Stirring, AskKeys, MsgKey, MsgKeys, TailKeys, LookupKeys

(* What a step of Doit does to the questions that stir.                    *)
LEMMA DoitStirs ==
  ASSUME CacheTypeOK, RequestsTypeOK, NEW d \in DOMAIN doits, Doit(d),
         NEW k \in Question, k \in Stirring
  PROVE  \/ k \in Stirring'
         \/ Overflow(d)
         \/ Register(d) /\ d.node.made = "lookup" /\ k = d.node.last
<1>0. d \in Task /\ d.node \in Node
  BY DEF RequestsTypeOK, IsBagOf, Task
<1>. SUFFICES ASSUME ~Overflow(d)
              PROVE  \/ k \in Stirring'
                     \/ Register(d) /\ d.node.made = "lookup" /\ k = d.node.last
  OBVIOUS
<1>1. k \notin LookupKeys => k \in Stirring'
  <2>1. asks \subseteq asks' /\ msg' = msg /\ forsaken \subseteq forsaken'
    BY DEF Doit, GiveUp, AnswerClient, AskServer, Search, Walk, Lost,
       FollowAlias, NoAlias, FindAddresses, Register, rest, cacheVars, threads, Forsake
  <2>2. DOMAIN tails \subseteq DOMAIN tails'
    <3>1. tails' = tails \/ \E s : tails' = BagAdd(tails, s)
      BY DEF Doit, GiveUp, AnswerClient, AskServer, Search, Walk, Lost,
         FollowAlias, NoAlias, FindAddresses, Register
    <3>2. ASSUME NEW s, tails' = BagAdd(tails, s) PROVE DOMAIN tails \subseteq DOMAIN tails'
      <4>1. DOMAIN tails' = DOMAIN tails \cup {s}
        BY <3>2, MembersAdded
      <4>. QED
        BY <4>1
    <3>. QED
      BY <3>1, <3>2
  <2>. QED
    BY <2>1, <2>2, StirringParts DEF Stirring, AskKeys, MsgKey, MsgKeys, TailKeys
<1>2. ASSUME NEW b \in DOMAIN doits, b # d, b.node.made = "lookup", k = b.node.last
      PROVE  k \in Stirring'
  <2>1. b \in DOMAIN doits'
    <3>1. CASE GoesOn(d)
      <4>1. PICK e : doits' = BagAdd(BagRemove(doits, d), e)
        BY <1>0, <3>1, GoingOn
      <4>. QED
        BY <1>2, <4>1, MembersReplaced
    <3>2. CASE doits' = BagRemove(doits, d)
      BY <1>2, <3>2, MembersRemoved
    <3>. QED
      BY <3>1, <3>2, DoitEither
  <2>. QED
    BY <1>2, <2>1 DEF Stirring
<1>3. CASE d.node.made = "lookup" /\ k = d.node.last
  <2>1. CASE GoesOn(d)
    <3>1. PICK e : /\ doits' = BagAdd(BagRemove(doits, d), e)
                   /\ e.node.last = d.node.last
                   /\ e.node.made = d.node.made
      BY <1>0, <2>1, GoingOn
    <3>2. e \in DOMAIN doits'
      BY <3>1, MembersReplaced
    <3>. QED
      BY <1>3, <3>1, <3>2 DEF Stirring
  <2>2. CASE GiveUp(d) \/ Lost(d)
    <3>1. k \in forsaken'
      BY <1>3, <2>2 DEF GiveUp, Lost, Forsake
    <3>. QED
      BY <3>1 DEF Stirring
  <2>3. CASE AnswerClient(d)
    <3>1. Advanced(d).made = "lookup" /\ Advanced(d).last = k
      BY <1>0, <1>3, <2>3, TryingNode DEF AnswerClient
    <3>2. k \in forsaken'
      BY <2>3, <3>1 DEF AnswerClient, Forsake
    <3>. QED
      BY <3>2 DEF Stirring
  <2>4. CASE AskServer(d)
    <3>1. Advanced(d).last = k
      BY <1>0, <1>3, <2>4, TryingNode DEF AskServer
    <3>2. PICK rrs \in AnswersTo(Advanced(d), d.ds) :
            asks' = asks \cup {[q |-> k.q, t |-> k.t, to |-> r.data] : r \in rrs}
      BY <2>4, <3>1 DEF AskServer
    <3>3. PICK r \in rrs : TRUE
      BY AnswersNotEmpty
    <3>4. [q |-> k.q, t |-> k.t, to |-> r.data] \in asks'
      BY <3>2, <3>3
    <3>5. k = [q |-> k.q, t |-> k.t]
      BY DEF Question
    <3>6. k \in AskKeys'
      BY <3>4, <3>5 DEF AskKeys
    <3>. QED
      BY <3>6 DEF Stirring, AskKeys
  <2>5. CASE Register(d)
    BY <1>3, <2>5
  <2>. QED
    BY <2>1, <2>2, <2>3, <2>4, <2>5, DoitEither
<1>. QED
  BY <1>1, <1>2, <1>3 DEF LookupKeys

(* A question that stirs goes on to do so, unless a lookup that is for it  *)
(* is handed over to a table, or its reply is taken to the requests that   *)
(* wait for it.                                                            *)
LEMMA StirringStep ==
  ASSUME CacheTypeOK, RequestsTypeOK, [Next]_vars, up',
         NEW k \in Question, k \in Stirring
  PROVE  \/ k \in Stirring'
         \/ \E d \in DOMAIN doits :
              Register(d) /\ d.node.made = "lookup" /\ k = d.node.last
         \/ \E i \in Threads : Wake(i) /\ k = MsgKey(i)
<1>1. ASSUME NEW c \in Clients, Refuse(c) \/ Accept(c) PROVE k \in Stirring'
  BY <1>1 DEF Refuse, Accept, cacheVars, threads, work, rest, Stirring
<1>2. ASSUME NEW n \in sending, Enqueue(n) PROVE k \in Stirring'
  BY <1>2 DEF Enqueue, cacheVars, threads, work, rest, Stirring
<1>3. CASE Worker
  <2>1. DOMAIN doits' = DOMAIN doits \cup {Started(Head(chan), {})}
    BY <1>3, MembersAdded DEF Worker
  <2>. QED
    BY <1>3, <2>1 DEF Worker, cacheVars, threads, rest, Stirring
<1>4. ASSUME NEW d \in BagToSet(doits), Doit(d)
      PROVE  \/ k \in Stirring'
             \/ /\ d \in DOMAIN doits /\ Register(d)
                /\ d.node.made = "lookup" /\ k = d.node.last
  BY <1>4, DoitStirs DEF BagToSet, Overflow, Crash
<1>5. ASSUME NEW s \in BagToSet(tails), Finishing(s) PROVE k \in Stirring'
  <2>1. s \in TailTask
    BY DEF RequestsTypeOK, IsBagOf, BagToSet
  <2>2. CASE Send(s)
    <3>1. DOMAIN tails \ {s} \subseteq DOMAIN tails' /\ asks \subseteq asks'
      BY <2>2, MembersRemoved DEF Send
    <3>2. k = s.key => k \in Stirring'
      <4>1. PICK x : [q |-> s.key.q, t |-> s.key.t, to |-> x] \in asks'
        BY <2>2 DEF Send
      <4>2. [q |-> s.key.q, t |-> s.key.t] = s.key
        BY <2>1 DEF TailTask, Question
      <4>. QED
        BY <4>1, <4>2 DEF Stirring
    <3>. QED
      BY <2>2, <3>1, <3>2 DEF Send, intake, cacheVars, threads, Stirring
  <2>3. ASSUME NEW v, SeekServer(s, v) PROVE k \in Stirring'
    <3>1. PICK n : /\ n.last = s.key
                   /\ n.made = "lookup"
                   /\ doits' = BagAdd(doits, Started(n, {}))
      BY <2>3 DEF SeekServer
    <3>2. DOMAIN doits' = DOMAIN doits \cup {Started(n, {})}
      BY <3>1, MembersAdded
    <3>3. DOMAIN tails \ {s} \subseteq DOMAIN tails'
      <4>1. CASE s.left = {v}
        BY <2>3, <4>1, MembersRemoved DEF SeekServer
      <4>2. CASE s.left # {v}
        BY <2>3, <4>2, MembersReplaced DEF SeekServer
      <4>. QED
        BY <4>1, <4>2
    <3>4. Started(n, {}).node.last = s.key /\ Started(n, {}).node.made = "lookup"
      BY <3>1 DEF Started
    <3>. QED
      BY <2>3, <3>2, <3>3, <3>4 DEF SeekServer, intake, cacheVars, threads, Stirring
  <2>. QED
    BY <1>5, <2>2, <2>3 DEF Finishing
<1>6. ASSUME NEW i \in Threads, NEW a \in asks, NEW m \in Upstream[a], Deliver(i, a, m)
      PROVE  k \in Stirring'
  <2>1. [q |-> m.q, t |-> m.t] = [q |-> a.q, t |-> a.t] /\ m # NoMsg
    BY ResolverAssumption, RepliesAreMessages, NoMsgAssumption DEF RequestsTypeOK
  <2>2. UNCHANGED <<tails, doits>> /\ forsaken \subseteq forsaken' /\ asks \ {a} \subseteq asks'
    BY <1>6 DEF Deliver, work
  <2>3. CASE Ignore(i, m)
    <3>1. [q |-> m.q, t |-> m.t] \in forsaken' /\ msg' = msg
      BY <1>6, <2>3 DEF Deliver, Ignore, cacheVars, threads
    <3>. QED
      BY <2>1, <2>2, <3>1 DEF Stirring
  <2>4. CASE Parse(i, m)
    <3>1. msg[i] = NoMsg /\ msg'[i] = m /\ \A j \in Threads \ {i} : msg'[j] = msg[j]
      BY <2>4 DEF Parse, CacheTypeOK
    <3>. QED
      BY <2>1, <2>2, <3>1 DEF Stirring
  <2>5. CASE Panic(i, m)
    BY <2>5 DEF Panic
  <2>. QED
    BY <1>6, <2>3, <2>4, <2>5 DEF Deliver, Receive
<1>7. ASSUME NEW i \in Threads, Store(i) PROVE k \in Stirring'
  <2>1. msg' = msg
    BY <1>7 DEF Store, Work, ScreenCNAME, ScreenA, StoreA, StoreNS, StoreCNAME, stores
  <2>. QED
    BY <1>7, <2>1 DEF Store, work, rest, Stirring
<1>8. ASSUME NEW i \in Threads, Wake(i) PROVE k \in Stirring' \/ k = MsgKey(i)
  <2>1. PICK key : doits' = doits (+) Woken(key, msg[i].rrs)
    BY <1>8 DEF Wake
  <2>2. DOMAIN doits' = DOMAIN doits \cup DOMAIN Woken(key, msg[i].rrs)
    BY <2>1, MembersJoined
  <2>3. \A j \in Threads \ {i} : msg'[j] = msg[j]
    BY <1>8 DEF Wake, Finish, CacheTypeOK
  <2>. QED
    BY <1>8, <2>2, <2>3 DEF Wake, rest, MsgKey, Stirring
<1>9. CASE UNCHANGED vars
  BY <1>9 DEF vars, work, rest, cacheVars, threads, Stirring
<1>10. ASSUME NEW a \in asks, Lose(a) PROVE k \in Stirring'
  <2>1. /\ asks' = asks \ {a}
        /\ forsaken' = forsaken \cup {[q |-> a.q, t |-> a.t]}
        /\ UNCHANGED <<msg, doits, tails>>
    BY <1>10 DEF Lose, cacheVars, threads, work
  <2>. QED
    BY <2>1 DEF Stirring
<1>. QED
  BY <1>1, <1>2, <1>3, <1>4, <1>5, <1>6, <1>7, <1>8, <1>9, <1>10 DEF Next, System, Serve

(* The steps that change a table.                                          *)
LEMMA TableSteps ==
  ASSUME [Next]_vars
  PROVE  \/ table' = table
         \/ \E d \in DOMAIN doits : Register(d)
         \/ \E s \in DOMAIN tails : \E v \in s.left : SeekServer(s, v)
         \/ \E i \in Threads : Wake(i)
<1>1. ASSUME NEW c \in Clients, Refuse(c) \/ Accept(c) PROVE table' = table
  BY <1>1 DEF Refuse, Accept, work
<1>2. ASSUME NEW n \in sending, Enqueue(n) PROVE table' = table
  BY <1>2 DEF Enqueue, work
<1>3. CASE Worker
  BY <1>3 DEF Worker
<1>4. ASSUME NEW d \in BagToSet(doits), Doit(d)
      PROVE  table' = table \/ (d \in DOMAIN doits /\ Register(d))
  BY <1>4 DEF BagToSet, Doit, GiveUp, Overflow, AnswerClient, AskServer, Search, Walk,
     Lost, FollowAlias, NoAlias, FindAddresses, work
<1>5. ASSUME NEW s \in BagToSet(tails), Finishing(s)
      PROVE  table' = table \/ (s \in DOMAIN tails /\ \E v \in s.left : SeekServer(s, v))
  BY <1>5 DEF BagToSet, Finishing, Send
<1>6. ASSUME NEW i \in Threads, Serve(i) PROVE table' = table \/ Wake(i)
  BY <1>6 DEF Serve, Deliver, Store, work
<1>7. CASE UNCHANGED vars
  BY <1>7 DEF vars, work
<1>8. ASSUME NEW a \in asks, Lose(a) PROVE table' = table
  BY <1>8 DEF Lose, work
<1>. QED
  BY <1>1, <1>2, <1>3, <1>4, <1>5, <1>6, <1>7, <1>8 DEF Next, System

(* What AddQuestion leaves of a table, and what it adds.                   *)
LEMMA AddedQuestion ==
  ASSUME NEW n
  PROVE  /\ DOMAIN table \subseteq DOMAIN AddQuestion(n)
         /\ \A key \in DOMAIN table : DOMAIN table[key] \subseteq DOMAIN AddQuestion(n)[key]
         /\ \A key \in DOMAIN AddQuestion(n) : \A m \in DOMAIN AddQuestion(n)[key] :
              (key \in DOMAIN table /\ m \in DOMAIN table[key]) \/ m = n
         /\ Tracked(KeyOf(n)) => /\ KeyOf(n) \in DOMAIN AddQuestion(n)
                                 /\ n \in DOMAIN AddQuestion(n)[KeyOf(n)]
<1>. DEFINE own == KeyOf(n)
            new == BagAdd(Waiting(own), n)
<1>1. DOMAIN EmptyBag = {}
  BY DEF EmptyBag, SetToBag
<1>2. DOMAIN new = DOMAIN Waiting(own) \cup {n}
  BY MembersAdded
<1>3. own \in DOMAIN table => Waiting(own) = table[own]
  BY DEF Waiting
<1>4. own \notin DOMAIN table => DOMAIN Waiting(own) = {}
  BY <1>1 DEF Waiting
<1>. HIDE DEF own, new
<1>5. /\ DOMAIN Put(table, own, new) = DOMAIN table \cup {own}
      /\ \A key \in DOMAIN table \cup {own} :
           Put(table, own, new)[key] = IF key = own THEN new ELSE table[key]
  BY DEF Put
<1>6. AddQuestion(n) = IF Tracked(own) THEN Put(table, own, new) ELSE table
  BY DEF AddQuestion, own, new
<1>. QED
  BY <1>2, <1>3, <1>4, <1>5, <1>6 DEF own

(* A set of questions that is asleep after a step was so before it, and no *)
(* client's request has come to wait for one of them.                      *)
LEMMA AsleepStep ==
  ASSUME CacheTypeOK, RequestsTypeOK, [Next]_vars, up',
         NEW keys \in SUBSET DOMAIN table', Asleep(keys)'
  PROVE  /\ Asleep(keys \cap DOMAIN table)
         /\ \A key \in keys : \A n \in DOMAIN table'[key] :
              n.made = "query" => key \in DOMAIN table /\ n \in DOMAIN table[key]
<1>0. keys \subseteq Question
  BY RequestsStep DEF RequestsTypeOK, IsTable
<1>1. /\ keys \cap Stirring' = {}
      /\ \A key \in DOMAIN table' \ keys : \A n \in DOMAIN table'[key] :
           n.made = "lookup" => n.last \notin keys
  BY DEF Asleep
<1>2. \A d \in DOMAIN doits : Register(d) =>
        /\ d.node.made = "lookup" => d.node.last \notin keys
        /\ KeyOf(d.node) \notin keys
  <2>. SUFFICES ASSUME NEW d \in DOMAIN doits, Register(d)
                PROVE  /\ d.node.made = "lookup" => d.node.last \notin keys
                       /\ KeyOf(d.node) \notin keys
    OBVIOUS
  <2>1. d.node \in Node
    BY DEF RequestsTypeOK, IsBagOf, Task
  <2>2. KeyOf(d.node) \notin keys
    <3>1. PICK s : s.key = KeyOf(d.node) /\ tails' = BagAdd(tails, s)
      BY DEF Register
    <3>2. DOMAIN tails' = DOMAIN tails \cup {s}
      BY <3>1, MembersAdded
    <3>. QED
      BY <1>1, <3>1, <3>2 DEF Stirring
  <2>3. CASE Tracked(KeyOf(d.node))
    <3>1. KeyOf(d.node) \in DOMAIN table' /\ d.node \in DOMAIN table'[KeyOf(d.node)]
      BY <2>3, AddedQuestion DEF Register
    <3>. QED
      BY <1>1, <2>2, <3>1
  <2>4. CASE ~Tracked(KeyOf(d.node))
    <3>1. d.node.made # "lookup"
      BY <2>1, <2>4 DEF Node, Tracked, KeyOf
    <3>. QED
      BY <2>2, <3>1
  <2>. QED
    BY <2>3, <2>4
<1>3. \A i \in Threads : Wake(i) =>
        /\ DOMAIN table' = DOMAIN table \ {MsgKey(i)}
        /\ \A key \in DOMAIN table' : table'[key] = table[key]
        /\ MsgKey(i) \notin keys
        /\ \A n \in DOMAIN Waiting(MsgKey(i)) : n.made = "lookup" => n.last \in Stirring'
  <2>. SUFFICES ASSUME NEW i \in Threads, Wake(i)
                PROVE  /\ DOMAIN table' = DOMAIN table \ {MsgKey(i)}
                       /\ \A key \in DOMAIN table' : table'[key] = table[key]
                       /\ MsgKey(i) \notin keys
                       /\ \A n \in DOMAIN Waiting(MsgKey(i)) :
                            n.made = "lookup" => n.last \in Stirring'
    OBVIOUS
  <2>1. /\ doits' = doits (+) Woken(MsgKey(i), msg[i].rrs)
        /\ table' = Delete(table, MsgKey(i))
    BY DEF Wake, MsgKey
  <2>2. /\ DOMAIN table' = DOMAIN table \ {MsgKey(i)}
        /\ \A key \in DOMAIN table' : table'[key] = table[key]
    BY <2>1, DeleteKey
  <2>3. DOMAIN doits' = DOMAIN doits \cup DOMAIN Woken(MsgKey(i), msg[i].rrs)
    BY <2>1, MembersJoined
  <2>4. DOMAIN Woken(MsgKey(i), msg[i].rrs)
          = {Started(n, msg[i].rrs) : n \in DOMAIN Waiting(MsgKey(i))}
    BY MembersWoken
  <2>5. ASSUME NEW n \in DOMAIN Waiting(MsgKey(i)), n.made = "lookup"
        PROVE  n.last \in Stirring'
    <3>1. Started(n, msg[i].rrs) \in DOMAIN doits' /\ Started(n, msg[i].rrs).node = n
      BY <2>3, <2>4 DEF Started
    <3>. QED
      BY <2>5, <3>1 DEF Stirring
  <2>. QED
    BY <2>1, <2>2, <2>5
<1>4. keys \cap Stirring = {}
  BY <1>0, <1>1, <1>2, <1>3, StirringStep
<1>5. ASSUME NEW s \in DOMAIN tails, NEW v \in s.left, SeekServer(s, v)
      PROVE  \E m : m.made = "lookup" /\ table' = AddQuestion(m)
  BY <1>5 DEF SeekServer
<1>6. ASSUME NEW key \in DOMAIN table \ keys, NEW n \in DOMAIN table[key],
             n.made = "lookup"
      PROVE  n.last \notin keys
  <2>1. ASSUME NEW m, table' = AddQuestion(m) PROVE n.last \notin keys
    <3>1. key \in DOMAIN table' /\ n \in DOMAIN table'[key]
      BY <2>1, AddedQuestion
    <3>. QED
      BY <1>1, <1>6, <3>1
  <2>2. ASSUME NEW i \in Threads, Wake(i) PROVE n.last \notin keys
    <3>1. CASE key = MsgKey(i)
      BY <1>1, <1>3, <1>6, <2>2, <3>1 DEF Waiting
    <3>2. CASE key # MsgKey(i)
      <4>1. key \in DOMAIN table' /\ table'[key] = table[key]
        BY <1>3, <2>2, <3>2
      <4>. QED
        BY <1>1, <1>6, <4>1
    <3>. QED
      BY <3>1, <3>2
  <2>. QED
    BY <1>1, <1>5, <1>6, <2>1, <2>2, TableSteps DEF Register
<1>7. ASSUME NEW key \in keys, NEW n \in DOMAIN table'[key], n.made = "query"
      PROVE  key \in DOMAIN table /\ n \in DOMAIN table[key]
  <2>1. ASSUME NEW d \in DOMAIN doits, Register(d)
        PROVE  key \in DOMAIN table /\ n \in DOMAIN table[key]
    <3>1. KeyOf(n) = key
      BY RequestsStep DEF RequestsTypeOK, IsTable, IsBagOf
    <3>2. (key \in DOMAIN table /\ n \in DOMAIN table[key]) \/ n = d.node
      BY <2>1, AddedQuestion DEF Register
    <3>. QED
      BY <1>2, <2>1, <3>1, <3>2
  <2>2. ASSUME NEW m, m.made = "lookup", table' = AddQuestion(m)
        PROVE  key \in DOMAIN table /\ n \in DOMAIN table[key]
    BY <1>7, <2>2, AddedQuestion
  <2>3. ASSUME NEW i \in Threads, Wake(i)
        PROVE  key \in DOMAIN table /\ n \in DOMAIN table[key]
    BY <1>3, <2>3
  <2>. QED
    BY <1>5, <1>7, <2>1, <2>2, <2>3, TableSteps
<1>. QED
  BY <1>4, <1>6, <1>7 DEF Asleep

(* The process does not come back once a panic has ended it.               *)
LEMMA DownForGood ==
  ASSUME RequestsTypeOK, [Next]_vars, up'
  PROVE  up
BY CacheStep DEF CacheNext, Receive, Work, Ignore, Parse, Panic, ScreenCNAME,
   ScreenA, StoreA, StoreNS, StoreCNAME, Finish, Crash, cacheVars, threads

(* No client's request is left asleep for want of a wake-up: as long as    *)
(* the process lives, some goroutine, some thread or some question under   *)
(* way leads to it, unless a question was lost or denied, or a lookup      *)
(* found no address or told a client what it found.  It holds whatever     *)
(* RNPool.Get returns, and with questions and replies that get lost.       *)
THEOREM ResolverNoLostWakeup == Spec => []NoLostWakeup
<1>1. Init => NoLostWakeup
  BY DEF Init, NoLostWakeup, Empty
<1>2. ASSUME ResolverInv, NoLostWakeup, [Next]_vars PROVE NoLostWakeup'
  <2>1. CacheTypeOK /\ RequestsTypeOK /\ RequestsTypeOK'
    BY <1>2, CacheTypedEq, RequestsStep DEF ResolverInv, CacheInv
  <2>2. ASSUME up', NEW keys \in SUBSET DOMAIN table', Asleep(keys)',
               NEW key \in keys, NEW n \in DOMAIN table'[key]
        PROVE  n.made = "lookup"
    <3>1. Asleep(keys \cap DOMAIN table)
      BY <1>2, <2>1, <2>2, AsleepStep
    <3>2. n.made = "query" => key \in DOMAIN table /\ n \in DOMAIN table[key]
      BY <1>2, <2>1, <2>2, AsleepStep
    <3>3. up
      BY <1>2, <2>1, <2>2, DownForGood
    <3>4. n.made \in {"query", "lookup"}
      BY <2>1, <2>2 DEF RequestsTypeOK, IsTable, IsBagOf, Node, Fields
    <3>. QED
      BY <1>2, <3>1, <3>2, <3>3, <3>4 DEF NoLostWakeup
  <2>. QED
    BY <2>2 DEF NoLostWakeup
<1>. QED
  BY <1>1, <1>2, ResolverInvariance, PTL DEF Spec
=============================================================================
