--------------------------- MODULE ResolverProofs ---------------------------
(***************************************************************************)
(* Type correctness of the resolver, and that it uses the cache as module  *)
(* DnsCache says: every step of the resolver is a step of the cache or     *)
(* leaves it alone, so that whatever is proved of the cache holds of the   *)
(* resolver, for any number of clients, threads and names and whatever the *)
(* nameservers reply.                                                      *)
(***************************************************************************)
EXTENDS Resolver, DnsCacheProofs

(* The requests a table may keep under a key.                              *)
Waiter(key) == {n \in Node : KeyOf(n) = key}

(* The inductive invariant: the cache's, and the types of all requests.    *)
ResolverInv == CacheInv /\ RequestsTypeOK

-----------------------------------------------------------------------------
(* Bags of goroutines and of requests.                                     *)
LEMMA BagAdded ==
  ASSUME NEW S, NEW B, IsBagOf(B, S), NEW x \in S
  PROVE  IsBagOf(BagAdd(B, x), S)
BY DEF IsBagOf, IsABag, BagAdd

(* Removing a member leaves a bag over the same set.                       *)
LEMMA BagRemoved ==
  ASSUME NEW S, NEW B, IsBagOf(B, S), NEW x
  PROVE  IsBagOf(BagRemove(B, x), S)
<1>1. CASE x \notin DOMAIN B
  BY <1>1 DEF BagRemove
<1>2. CASE x \in DOMAIN B /\ B[x] = 1
  BY <1>2 DEF IsBagOf, IsABag, BagRemove
<1>3. CASE x \in DOMAIN B /\ B[x] # 1
  BY <1>3 DEF IsBagOf, IsABag, BagRemove
<1>. QED
  BY <1>1, <1>2, <1>3

(* The union of two bags over a set is a bag over it.                      *)
LEMMA BagJoined ==
  ASSUME NEW S, NEW B, IsBagOf(B, S), NEW C, IsBagOf(C, S)
  PROVE  IsBagOf(B (+) C, S)
BY DEF IsBagOf, IsABag, (+)

(* The empty bag is a bag over any set.                                    *)
LEMMA NoBag == ASSUME NEW S PROVE IsBagOf(EmptyBag, S)
BY DEF IsBagOf, IsABag, EmptyBag, SetToBag

-----------------------------------------------------------------------------
(* A request that Doit has taken up again is still a request.              *)
LEMMA AdvancedNode ==
  ASSUME NEW d \in Task, d.pc = "begin", ~Exhausted(d)
  PROVE  /\ Advanced(d) \in Node
         /\ Advanced(d).made = d.node.made
         /\ Advanced(d).req = d.node.req
         /\ Advanced(d).last = d.node.last
         /\ Advanced(d).t = d.node.t
<1>1. d.node \in Node /\ d.ds \in SUBSET RR
  BY DEF Task
<1>2. d.node.q \in Names /\ d.node.cns \in Seq(RR) /\ d.node.way \in Seq(RR) /\ d.node.retrys \in 0..MaxRetrys + 1
  BY <1>1 DEF Node, Fields
<1>. DEFINE aliases == DataSet_Cname(d.ds, d.node.q)
<1>3. aliases \in Seq(RR) /\ EndOf(aliases, d.node.q) \in Names
  BY <1>1, <1>2, AliasTypes
<1>4. d.node.cns \o aliases \in Seq(RR) /\ d.node.way \o aliases \in Seq(RR)
  BY <1>2, <1>3
<1>5. d.node.retrys + 1 \in 0..MaxRetrys + 1
  BY <1>2, ResolverAssumption DEF Exhausted
<1>6. Advanced(d) = [d.node EXCEPT !.retrys = @ + 1, !.q = EndOf(aliases, @),
                                   !.cns = @ \o aliases, !.way = @ \o aliases]
  BY DEF Advanced
<1>. HIDE DEF aliases
<1>. QED
  BY <1>1, <1>3, <1>4, <1>5, <1>6 DEF Node, Fields

-----------------------------------------------------------------------------
(* Requests in tables, in goroutines and in the pool.                      *)
LEMMA WaitingBag ==
  ASSUME IsTable(table), NEW key
  PROVE  IsBagOf(Waiting(key), Waiter(key))
BY NoBag DEF IsTable, Waiting, Waiter

(* AddQuestion leaves a table.                                             *)
LEMMA Tabled ==
  ASSUME IsTable(table), NEW n \in Node
  PROVE  IsTable(AddQuestion(n))
<1>. DEFINE key == KeyOf(n)
<1>1. key \in Question
  BY DEF KeyOf, Node, Fields, Question
<1>2. IsBagOf(BagAdd(Waiting(key), n), Waiter(key))
  BY WaitingBag, BagAdded DEF Waiter
<1>3. CASE Tracked(key)
  BY <1>1, <1>2, <1>3 DEF AddQuestion, IsTable, Put, Waiter
<1>4. CASE ~Tracked(key)
  BY <1>4 DEF AddQuestion
<1>. QED
  BY <1>3, <1>4

(* The table without one of its questions is a table.                      *)
LEMMA TakenOut ==
  ASSUME IsTable(table), NEW key
  PROVE  IsTable(Delete(table, key))
<1>1. /\ DOMAIN Delete(table, key) \subseteq DOMAIN table
      /\ \A k \in DOMAIN Delete(table, key) : Delete(table, key)[k] = table[k]
  BY DeleteKey
<1>. QED
  BY <1>1 DEF IsTable

(* What a new Doit goroutine holds is a task.                              *)
LEMMA StartedTask ==
  ASSUME NEW n \in Node, NEW ds \in SUBSET RR
  PROVE  Started(n, ds) \in Task
BY DEF Started, Task, Node, Fields

(* The goroutines that Wake starts are tasks.                              *)
LEMMA WokenBag ==
  ASSUME IsTable(table), NEW key, NEW ds \in SUBSET RR
  PROVE  IsBagOf(Woken(key, ds), Task)
<1>1. IsBagOf(Waiting(key), Waiter(key))
  BY WaitingBag
<1>2. \A n \in DOMAIN Waiting(key) : n \in Node /\ Started(n, ds) \in Task /\ Started(n, ds).node = n
  BY <1>1, StartedTask DEF IsBagOf, Waiter, Started
<1>. QED
  BY <1>1, <1>2 DEF Woken, IsBagOf, IsABag

(* RNPool.Put leaves the pool well formed.                                 *)
LEMMA PutBackPool ==
  ASSUME IsBagOf(pool, Leftover), NEW n \in Node, PutBack(n)
  PROVE  IsBagOf(pool', Leftover)
<1>1. [req |-> n.req, last |-> n.last, retrys |-> n.retrys, cns |-> n.cns] \in Leftover
  BY DEF Node, Fields, Leftover
<1>. QED
  BY <1>1, BagAdded DEF PutBack

(* RNPool.Get leaves the pool well formed and returns a leftover.          *)
LEMMA DrawnPool ==
  ASSUME IsBagOf(pool, Leftover), NEW old \in Drawable
  PROVE  /\ old \in Leftover
         /\ IsBagOf(BagRemove(pool, old), Leftover)
<1>1. Blank \in Leftover
  BY ResolverAssumption DEF Blank, Leftover
<1>. QED
  BY <1>1, BagRemoved DEF Drawable, BagToSet, IsBagOf

(* A query that is dropped has a fate all the same.                        *)
LEMMA AbandonFate ==
  ASSUME RequestsTypeOK, NEW n
  PROVE  Abandon(n) \in [Clients -> {"idle", "refused", "live", "answered", "abandoned"}]
BY DEF RequestsTypeOK, Abandon

(* What is forsaken is a question.                                         *)
LEMMA ForsakeType ==
  ASSUME RequestsTypeOK, NEW n \in Node
  PROVE  Forsake(n) \subseteq Question
BY DEF RequestsTypeOK, Forsake, Node, Fields

(* The answers to a request are records, with the addresses a request for  *)
(* the address of a nameserver was after.                                  *)
LEMMA AnswerTypes ==
  ASSUME CacheTypeOK, NEW n \in Node, NEW ds \in SUBSET RR
  PROVE  \A rrs \in AnswersTo(n, ds) :
           /\ rrs \subseteq RR
           /\ \A r \in rrs : r.rt \in {n.t, "A"}
<1>1. \A x : /\ Entry(asets, x) \subseteq Addrs
             /\ Entry(nssets, x) \subseteq Names
             /\ Entry(HintAAAA, x) \subseteq Addrs
  BY ResolverAssumption DEF CacheTypeOK, IsMap, Entry
<1>2. n.q \in Names /\ n.t \in QTypes
  BY DEF Node, Fields
<1>3. /\ Cached(n.t, n.q) \subseteq RR
      /\ \A r \in Cached(n.t, n.q) : r.rt \in {n.t, "A"}
  BY <1>1, <1>2 DEF Cached, RR, QTypes
<1>4. DataSetRR(ds, n.t, n.q) \subseteq RR /\ \A r \in DataSetRR(ds, n.t, n.q) : r.rt = n.t
  BY DEF DataSetRR
<1>. QED
  BY <1>3, <1>4 DEF AnswersTo

-----------------------------------------------------------------------------
(* Each step of the resolver keeps the types of the requests.              *)
LEMMA RequestsInit == Init => RequestsTypeOK
BY NoBag DEF Init, RequestsTypeOK, IsTable, Empty

(* A step that changes none of the resolver's own variables.               *)
LEMMA UnchangedTypes ==
  ASSUME RequestsTypeOK, UNCHANGED <<intake, work, rest>>
  PROVE  RequestsTypeOK'
BY DEF RequestsTypeOK, intake, work, rest, IsTable, IsBagOf, IsABag

(* recursion refuses a query or takes it in.                               *)
LEMMA IntakeTypes ==
  ASSUME RequestsTypeOK, NEW c \in Clients, Refuse(c) \/ Accept(c)
  PROVE  RequestsTypeOK'
<1>. USE DEF RequestsTypeOK
<1>1. CASE Refuse(c)
  BY <1>1 DEF Refuse, work, rest
<1>2. CASE Accept(c)
  <2>1. PICK old \in Drawable :
          /\ Drawn(old)
          /\ sending' = sending \cup
               {[req |-> c, last |-> old.last,
                 q |-> QuestionOf[c].q, t |-> QuestionOf[c].t,
                 retrys |-> old.retrys, cns |-> old.cns,
                 made |-> "query", way |-> <<>>]}
    BY <1>2 DEF Accept
  <2>2. old \in Leftover /\ IsBagOf(pool', Leftover)
    BY <2>1, DrawnPool DEF Drawn
  <2>3. [req |-> c, last |-> old.last, q |-> QuestionOf[c].q, t |-> QuestionOf[c].t,
         retrys |-> old.retrys, cns |-> old.cns, made |-> "query", way |-> <<>>] \in Node
    BY <2>2, ResolverAssumption DEF Node, Fields, Leftover, Question
  <2>4. fate' \in [Clients -> {"idle", "refused", "live", "answered", "abandoned"}]
    BY <1>2 DEF Accept
  <2>5. /\ UNCHANGED <<chan, doits, tails, table, asks, replies, strays, forsaken>>
        /\ sending' \subseteq Node
    BY <1>2, <2>1, <2>3 DEF Accept, work
  <2>. QED
    BY <2>2, <2>4, <2>5 DEF IsTable, IsBagOf
<1>. QED
  BY <1>1, <1>2

(* The goroutine of recursion sends its request on RNChan.                 *)
LEMMA EnqueueTypes ==
  ASSUME RequestsTypeOK, NEW n \in sending, Enqueue(n)
  PROVE  RequestsTypeOK'
<1>. USE DEF RequestsTypeOK
<1>1. chan' \in Seq(Node) /\ sending' \subseteq Node
  BY DEF Enqueue
<1>. QED
  BY <1>1 DEF Enqueue, work, rest

(* Worker takes a request from RNChan and starts Doit.                     *)
LEMMA WorkerTypes ==
  ASSUME RequestsTypeOK, Worker
  PROVE  RequestsTypeOK'
<1>. USE DEF RequestsTypeOK
<1>1. Head(chan) \in Node /\ Tail(chan) \in Seq(Node)
  BY DEF Worker
<1>2. IsBagOf(doits', Task)
  BY <1>1, StartedTask, BagAdded DEF Worker
<1>. QED
  BY <1>1, <1>2 DEF Worker, rest

-----------------------------------------------------------------------------
(* Doit.                                                                   *)
LEMMA GiveUpTypes ==
  ASSUME RequestsTypeOK, NEW d \in Task, GiveUp(d)
  PROVE  RequestsTypeOK'
<1>. USE DEF RequestsTypeOK
<1>. DEFINE spent == [d.node EXCEPT !.retrys = MaxRetrys + 1]
<1>0. d.node \in Fields /\ d.node \in Node
  BY DEF Task, Node
<1>1. spent \in Node
  <2>1. MaxRetrys + 1 \in 0..MaxRetrys + 1
    BY ResolverAssumption
  <2>2. spent \in Fields /\ spent.req = d.node.req /\ spent.t = d.node.t /\ spent.last = d.node.last
        /\ spent.made = d.node.made
    BY <1>0, <2>1 DEF Fields
  <2>. QED
    BY <1>0, <2>2 DEF Node
<1>. HIDE DEF spent
<1>2. IsBagOf(pool', Leftover)
  BY <1>1, PutBackPool DEF GiveUp, spent
<1>3. IsBagOf(doits', Task)
  BY BagRemoved DEF GiveUp
<1>. QED
  BY <1>0, <1>2, <1>3, AbandonFate, ForsakeType DEF GiveUp

(* The request that got this far goes on as a request.                     *)
LEMMA TryingNode ==
  ASSUME NEW d \in Task, Trying(d)
  PROVE  /\ Advanced(d) \in Node
         /\ Advanced(d).made = d.node.made
         /\ Advanced(d).req = d.node.req
         /\ Advanced(d).last = d.node.last
         /\ Advanced(d).t = d.node.t
BY AdvancedNode DEF Trying

(* Doit answers a client.                                                  *)
LEMMA AnswerClientTypes ==
  ASSUME CacheTypeOK, RequestsTypeOK, NEW d \in Task, AnswerClient(d)
  PROVE  RequestsTypeOK'
<1>. USE DEF RequestsTypeOK
<1>. DEFINE n == Advanced(d)
<1>1. n \in Node /\ n.req = d.node.req /\ d.node \in Node /\ d.ds \in SUBSET RR
  BY TryingNode DEF AnswerClient, Task
<1>2. n.req \in Clients /\ n.cns \in Seq(RR) /\ n.way \in Seq(RR)
  BY <1>1 DEF AnswerClient, Node, Fields
<1>3. PICK rrs \in AnswersTo(n, d.ds) : Tell(n, rrs)
  BY DEF AnswerClient
<1>4. rrs \in SUBSET RR
  BY <1>1, <1>3, AnswerTypes
<1>5. IsBagOf(pool', Leftover) /\ IsBagOf(doits', Task)
  BY <1>1, PutBackPool, BagRemoved DEF AnswerClient
<1>6. forsaken' \subseteq Question
  BY <1>1, ForsakeType DEF AnswerClient
<1>7. /\ fate' = Settled(n)
      /\ UNCHANGED <<sending, chan, tails, table, asks>>
  BY DEF AnswerClient
<1>. HIDE DEF n
<1>8. /\ replies' \in [Clients -> Seq([cns : Seq(RR), way : Seq(RR), rrs : SUBSET RR])]
      /\ strays' \subseteq [to : Clients, cns : Seq(RR), rrs : SUBSET RR]
  <2>1. CASE n.made = "query"
    <3>. DEFINE told == [cns |-> n.cns, way |-> n.way, rrs |-> rrs]
                Told == [cns : Seq(RR), way : Seq(RR), rrs : SUBSET RR]
    <3>1. told \in Told
      BY <1>2, <1>4
    <3>2. replies' = [replies EXCEPT ![n.req] = Append(@, told)] /\ strays' = strays
      BY <1>3, <2>1 DEF Tell
    <3>3. replies \in [Clients -> Seq(Told)]
      OBVIOUS
    <3>. HIDE DEF told, Told
    <3>4. replies' \in [Clients -> Seq(Told)]
      BY <1>2, <3>1, <3>2, <3>3
    <3>. QED
      BY <3>2, <3>4 DEF Told
  <2>2. CASE n.made # "query"
    <3>. DEFINE told == [to |-> n.req, cns |-> n.cns, rrs |-> rrs]
    <3>1. strays' = strays \cup {told} /\ replies' = replies
      BY <1>3, <2>2 DEF Tell
    <3>2. told \in [to : Clients, cns : Seq(RR), rrs : SUBSET RR]
      BY <1>2, <1>4
    <3>. HIDE DEF told
    <3>. QED
      BY <3>1, <3>2
  <2>. QED
    BY <2>1, <2>2
<1>9. fate' \in [Clients -> {"idle", "refused", "live", "answered", "abandoned"}]
  BY <1>7 DEF Settled
<1>. QED
  BY <1>5, <1>6, <1>7, <1>8, <1>9

(* Doit asks the servers whose addresses it has found.                     *)
LEMMA AskServerTypes ==
  ASSUME CacheTypeOK, RequestsTypeOK, NEW d \in Task, AskServer(d)
  PROVE  RequestsTypeOK'
<1>. USE DEF RequestsTypeOK
<1>1. Advanced(d) \in Node /\ Advanced(d).req = NoReq /\ d.ds \in SUBSET RR
  BY TryingNode DEF AskServer, Task
<1>2. Advanced(d).last \in Question /\ Advanced(d).t = "A"
  BY <1>1, ResolverAssumption DEF Node, Fields
<1>3. PICK rrs \in AnswersTo(Advanced(d), d.ds) :
        asks' = asks \cup {[q |-> Advanced(d).last.q, t |-> Advanced(d).last.t,
                            to |-> r.data] : r \in rrs}
  BY DEF AskServer
<1>4. \A r \in rrs : r.data \in Addrs
  <2>1. rrs \subseteq RR /\ \A r \in rrs : r.rt = "A"
    BY <1>1, <1>2, <1>3, AnswerTypes
  <2>. QED
    BY <2>1 DEF RR
<1>5. asks' \subseteq Ask
  BY <1>2, <1>3, <1>4 DEF Ask, Question
<1>6. IsBagOf(pool', Leftover) /\ IsBagOf(doits', Task)
  BY <1>1, PutBackPool, BagRemoved DEF AskServer
<1>. QED
  BY <1>5, <1>6 DEF AskServer, intake

(* The steps in which a goroutine goes on with its request.                *)
LEMMA StepTypes ==
  ASSUME RequestsTypeOK, NEW d, NEW e \in Task,
         doits' = BagAdd(BagRemove(doits, d), e),
         UNCHANGED <<intake, tails, table, rest>>
  PROVE  RequestsTypeOK'
<1>. USE DEF RequestsTypeOK
<1>1. IsBagOf(doits', Task)
  BY BagAdded, BagRemoved
<1>. QED
  BY <1>1 DEF intake, rest

(* Doit looks for nameservers in the data set.                             *)
LEMMA SearchTypes ==
  ASSUME RequestsTypeOK, NEW d \in Task, Search(d)
  PROVE  RequestsTypeOK'
<1>. DEFINE n  == Advanced(d)
            ns == DataOf(d.ds, "NS", n.q) \ {n.q}
            e  == [d EXCEPT !.node = n, !.at = n.q, !.ns = ns, !.left = ns,
                            !.pc = IF ns = {} THEN "walk" ELSE "addrs"]
<1>1. n \in Node /\ d.ds \in SUBSET RR
  BY TryingNode DEF Search, Task
<1>2. n.q \in Names /\ ns \in SUBSET Names
  BY <1>1, RecordsOf DEF Node, Fields
<1>3. doits' = BagAdd(BagRemove(doits, d), e) /\ UNCHANGED <<intake, tails, table, rest>>
  BY DEF Search
<1>. HIDE DEF n, ns
<1>4. e \in Task
  BY <1>1, <1>2 DEF Task
<1>. HIDE DEF e
<1>. QED
  BY <1>3, <1>4, StepTypes

(* Doit looks for nameservers in the cache, zone by zone.                  *)
LEMMA WalkTypes ==
  ASSUME CacheTypeOK, RequestsTypeOK, NEW d \in Task, Walk(d)
  PROVE  RequestsTypeOK'
<1>. DEFINE ns == ZoneServers(d)
            e  == IF ns # {} THEN [d EXCEPT !.pc = "addrs", !.ns = ns, !.left = ns]
                             ELSE [d EXCEPT !.at = Parent[@]]
<1>1. ns \in SUBSET Names
  BY DEF ZoneServers, Entry, CacheTypeOK, IsMap
<1>2. doits' = BagAdd(BagRemove(doits, d), e) /\ UNCHANGED <<intake, tails, table, rest>>
  BY DEF Walk
<1>. HIDE DEF ns
<1>3. e \in Task
  BY <1>1, NamesAssumption DEF Task
<1>. HIDE DEF e
<1>. QED
  BY <1>2, <1>3, StepTypes

(* Doit reaches the root and finds nothing.                                *)
LEMMA LostTypes ==
  ASSUME RequestsTypeOK, NEW d \in Task, Lost(d)
  PROVE  RequestsTypeOK'
<1>. USE DEF RequestsTypeOK
<1>1. d.node \in Node /\ IsBagOf(doits', Task)
  BY BagRemoved DEF Lost, Task
<1>. QED
  BY <1>1, AbandonFate, ForsakeType DEF Lost

(* What is left of the nameservers while one is looked up.                 *)
LEMMA LookedUpTypes ==
  ASSUME NEW d \in Task, NEW v \in LookedUp(d)
  PROVE  v \in Names /\ RestOf(d, v) \subseteq Names
BY DEF LookedUp, RestOf, Task

(* Doit follows one alias of a nameserver.                                 *)
LEMMA FollowAliasTypes ==
  ASSUME CacheTypeOK, RequestsTypeOK, NEW d \in Task, NEW v, FollowAlias(d, v)
  PROVE  RequestsTypeOK'
<1>. DEFINE e == [d EXCEPT !.pc = "alias", !.at = cnsets[v], !.left = RestOf(d, v)]
<1>1. cnsets[v] \in Names /\ RestOf(d, v) \subseteq Names
  BY LookedUpTypes DEF FollowAlias, CacheTypeOK, IsMap
<1>2. doits' = BagAdd(BagRemove(doits, d), e) /\ UNCHANGED <<intake, tails, table, rest>>
  BY DEF FollowAlias
<1>3. e \in Task
  BY <1>1 DEF Task
<1>. HIDE DEF e
<1>. QED
  BY <1>2, <1>3, StepTypes

(* Doit has found the name whose addresses it wants.                       *)
LEMMA NoAliasTypes ==
  ASSUME RequestsTypeOK, NEW d \in Task, NEW v, NoAlias(d, v)
  PROVE  RequestsTypeOK'
<1>. DEFINE here == DataOf(d.ds, "A", v)
            on   == [d EXCEPT !.left = RestOf(d, v)]
            e    == IF here # {} THEN [on EXCEPT !.pc = "addrs", !.ips = @ \cup here]
                                 ELSE [on EXCEPT !.pc = "geta", !.at = v]
<1>1. here \subseteq Addrs
  BY RecordsOf DEF Task
<1>2. v \in Names /\ RestOf(d, v) \subseteq Names
  BY LookedUpTypes DEF NoAlias
<1>3. doits' = BagAdd(BagRemove(doits, d), e) /\ UNCHANGED <<intake, tails, table, rest>>
  BY DEF NoAlias
<1>. HIDE DEF here
<1>4. e \in Task
  BY <1>1, <1>2 DEF Task
<1>. HIDE DEF e
<1>. QED
  BY <1>3, <1>4, StepTypes

(* Doit takes the addresses of one nameserver from the cache.              *)
LEMMA FindAddressesTypes ==
  ASSUME CacheTypeOK, RequestsTypeOK, NEW d \in Task, FindAddresses(d)
  PROVE  RequestsTypeOK'
<1>. DEFINE ips == Entry(asets, d.at)
            e   == [d EXCEPT !.pc = "addrs", !.ips = @ \cup ips]
<1>1. ips \subseteq Addrs
  BY DEF Entry, CacheTypeOK, IsMap
<1>2. doits' = BagAdd(BagRemove(doits, d), e) /\ UNCHANGED <<intake, tails, table, rest>>
  BY DEF FindAddresses
<1>. HIDE DEF ips
<1>3. e \in Task
  BY <1>1 DEF Task
<1>. HIDE DEF e
<1>. QED
  BY <1>2, <1>3, StepTypes

(* Doit hands its request over to AddQuestion.                             *)
LEMMA RegisterTypes ==
  ASSUME RequestsTypeOK, NEW d \in Task, Register(d)
  PROVE  RequestsTypeOK'
<1>. USE DEF RequestsTypeOK
<1>1. d.node \in Node /\ IsBagOf(doits', Task) /\ IsTable(table')
  BY BagRemoved, Tabled DEF Register, Task
<1>2. [key |-> KeyOf(d.node), ips |-> d.ips,
       left |-> IF d.ips = {} THEN d.ns ELSE {}] \in TailTask
  BY <1>1 DEF TailTask, Task, KeyOf, Node, Fields, Question
<1>3. IsBagOf(tails', TailTask)
  BY <1>2, BagAdded DEF Register
<1>4. fate' \in [Clients -> {"idle", "refused", "live", "answered", "abandoned"}]
  BY AbandonFate DEF Register
<1>. QED
  BY <1>1, <1>3, <1>4 DEF Register, rest

-----------------------------------------------------------------------------
(* The goroutines that have handed their request over.                     *)
LEMMA SendTypes ==
  ASSUME RequestsTypeOK, NEW s \in TailTask, Send(s)
  PROVE  RequestsTypeOK'
<1>. USE DEF RequestsTypeOK
<1>1. asks' \subseteq Ask
  BY DEF Send, TailTask, Ask, Question
<1>2. IsBagOf(tails', TailTask)
  BY BagRemoved DEF Send
<1>. QED
  BY <1>1, <1>2 DEF Send, intake

(* Doit makes a request for the address of a nameserver.                   *)
LEMMA SeekServerTypes ==
  ASSUME RequestsTypeOK, NEW s \in TailTask, NEW v \in s.left, SeekServer(s, v)
  PROVE  RequestsTypeOK'
<1>. USE DEF RequestsTypeOK
<1>. DEFINE Lookup(old) == [req |-> old.req, last |-> s.key, q |-> v, t |-> "A",
                            retrys |-> old.retrys, cns |-> old.cns,
                            made |-> "lookup", way |-> <<>>]
<1>1. PICK old \in Drawable :
        /\ Drawn(old)
        /\ table' = AddQuestion(Lookup(old))
        /\ doits' = BagAdd(doits, Started(Lookup(old), {}))
  BY DEF SeekServer
<1>2. old \in Leftover /\ IsBagOf(pool', Leftover)
  BY <1>1, DrawnPool DEF Drawn
<1>3. Lookup(old) \in Node
  BY <1>2, ResolverAssumption DEF Node, Fields, Leftover, TailTask, QTypes
<1>. HIDE DEF Lookup
<1>4. IsTable(table')
  BY <1>1, <1>3, Tabled
<1>5. IsBagOf(doits', Task)
  BY <1>1, <1>3, StartedTask, BagAdded
<1>6. IsBagOf(tails', TailTask)
  <2>1. [s EXCEPT !.left = @ \ {v}] \in TailTask
    BY DEF TailTask
  <2>. QED
    BY <2>1, BagAdded, BagRemoved DEF SeekServer
<1>. QED
  BY <1>2, <1>4, <1>5, <1>6 DEF SeekServer, intake

-----------------------------------------------------------------------------
(* The serve threads, and the cache behind them.                           *)

(* What nameservers reply to the questions under way are messages.         *)
LEMMA RepliesAreMessages ==
  ASSUME RequestsTypeOK, NEW a \in asks
  PROVE  Upstream[a] \subseteq Messages
BY ResolverAssumption DEF RequestsTypeOK

(* A serve thread reads a reply.                                           *)
LEMMA DeliverTypes ==
  ASSUME RequestsTypeOK, NEW i \in Threads, NEW a \in asks, NEW m \in Upstream[a],
         Deliver(i, a, m)
  PROVE  RequestsTypeOK'
<1>. USE DEF RequestsTypeOK
<1>1. m \in Message
  BY RepliesAreMessages, MessagesAssumption
<1>2. forsaken' \subseteq Question
  BY <1>1 DEF Deliver, Message, Question
<1>3. asks' \subseteq Ask
  BY DEF Deliver
<1>. QED
  BY <1>2, <1>3 DEF Deliver, intake, work, IsTable

(* A question is lost.                                                     *)
LEMMA LoseTypes ==
  ASSUME RequestsTypeOK, NEW a \in asks, Lose(a)
  PROVE  RequestsTypeOK'
<1>. USE DEF RequestsTypeOK
<1>1. forsaken' \subseteq Question /\ asks' \subseteq Ask
  BY DEF Lose, Ask, Question
<1>. QED
  BY <1>1 DEF Lose, intake, work, IsTable

(* A serve thread wakes the requests that wait for its reply.              *)
LEMMA WakeTypes ==
  ASSUME CacheTypeOK, RequestsTypeOK, NEW i \in Threads, Wake(i)
  PROVE  RequestsTypeOK'
<1>. USE DEF RequestsTypeOK
<1>. DEFINE key == [q |-> msg[i].q, t |-> msg[i].t]
<1>1. msg[i].rrs \in SUBSET RR
  BY MessagesAssumption DEF Wake, Finish, CacheTypeOK, Message
<1>2. doits' = doits (+) Woken(key, msg[i].rrs) /\ table' = Delete(table, key)
  BY DEF Wake
<1>. HIDE DEF key
<1>3. IsBagOf(doits', Task) /\ IsTable(table')
  BY <1>1, <1>2, WokenBag, BagJoined, TakenOut
<1>. QED
  BY <1>3 DEF Wake, intake, rest

(* Every step of the resolver is one of the cache or leaves it alone.      *)
LEMMA CacheStep ==
  ASSUME RequestsTypeOK, [Next]_vars
  PROVE  [CacheNext]_cacheVars
<1>1. ASSUME NEW i \in Threads, Serve(i) PROVE CacheNext
  <2>1. ASSUME NEW a \in asks, NEW m \in Upstream[a], Deliver(i, a, m)
        PROVE  CacheNext
    BY <2>1, RepliesAreMessages DEF Deliver, CacheNext
  <2>2. CASE Store(i)
    BY <2>2 DEF Store, CacheNext
  <2>3. CASE Wake(i)
    BY <2>3 DEF Wake, CacheNext
  <2>. QED
    BY <1>1, <2>1, <2>2, <2>3 DEF Serve
<1>2. ASSUME NEW c \in Clients, Refuse(c) \/ Accept(c) PROVE UNCHANGED cacheVars
  BY <1>2 DEF Refuse, Accept
<1>3. ASSUME NEW d, Doit(d) PROVE Crash \/ UNCHANGED cacheVars
  BY <1>3 DEF Doit, GiveUp, Overflow, AnswerClient, AskServer, Search, Walk, Lost,
     FollowAlias, NoAlias, FindAddresses, Register
<1>4. ASSUME NEW s, Finishing(s) PROVE UNCHANGED cacheVars
  BY <1>4 DEF Finishing, Send, SeekServer
<1>5. ASSUME NEW n \in sending, Enqueue(n) PROVE UNCHANGED cacheVars
  BY <1>5 DEF Enqueue
<1>6. CASE Worker
  BY <1>6 DEF Worker
<1>7. CASE UNCHANGED vars
  BY <1>7 DEF vars
<1>8. ASSUME NEW a \in asks, Lose(a) PROVE UNCHANGED cacheVars
  BY <1>8 DEF Lose
<1>. QED
  BY <1>1, <1>2, <1>3, <1>4, <1>5, <1>6, <1>7, <1>8 DEF Next, System, CacheNext

(* Every step of the resolver preserves the types of its requests.         *)
LEMMA RequestsStep ==
  ASSUME CacheTypeOK, RequestsTypeOK, [Next]_vars
  PROVE  RequestsTypeOK'
<1>1. ASSUME NEW c \in Clients, Refuse(c) \/ Accept(c) PROVE RequestsTypeOK'
  BY <1>1, IntakeTypes
<1>2. ASSUME NEW n \in sending, Enqueue(n) PROVE RequestsTypeOK'
  BY <1>2, EnqueueTypes
<1>3. CASE Worker
  BY <1>3, WorkerTypes
<1>4. ASSUME NEW d \in BagToSet(doits), Doit(d) PROVE RequestsTypeOK'
  <2>1. d \in Task
    BY DEF RequestsTypeOK, IsBagOf, BagToSet
  <2>2. CASE Overflow(d)
    BY <2>2, UnchangedTypes DEF Overflow
  <2>. QED
    BY <1>4, <2>1, <2>2, GiveUpTypes, AnswerClientTypes, AskServerTypes, SearchTypes,
       WalkTypes, LostTypes, FollowAliasTypes, NoAliasTypes, FindAddressesTypes,
       RegisterTypes DEF Doit
<1>5. ASSUME NEW s \in BagToSet(tails), Finishing(s) PROVE RequestsTypeOK'
  <2>1. s \in TailTask
    BY DEF RequestsTypeOK, IsBagOf, BagToSet
  <2>. QED
    BY <1>5, <2>1, SendTypes, SeekServerTypes DEF Finishing
<1>6. ASSUME NEW i \in Threads, Serve(i) PROVE RequestsTypeOK'
  <2>1. CASE Store(i)
    BY <2>1, UnchangedTypes DEF Store
  <2>. QED
    BY <1>6, <2>1, DeliverTypes, WakeTypes DEF Serve
<1>7. CASE UNCHANGED vars
  BY <1>7, UnchangedTypes DEF vars
<1>8. ASSUME NEW a \in asks, Lose(a) PROVE RequestsTypeOK'
  BY <1>8, LoseTypes
<1>. QED
  BY <1>1, <1>2, <1>3, <1>4, <1>5, <1>6, <1>7, <1>8 DEF Next, System

-----------------------------------------------------------------------------
(* The inductive invariant holds in every state of the resolver.           *)
THEOREM ResolverInvariance == Spec => []ResolverInv
<1>1. Init => ResolverInv
  BY CacheInitInv, RequestsInit DEF Init, ResolverInv
<1>2. ResolverInv /\ [Next]_vars => ResolverInv'
  BY CacheTypedEq, CacheStep, CacheNextInv, RequestsStep DEF ResolverInv, CacheInv
<1>. QED
  BY <1>1, <1>2, PTL DEF Spec

(* Requests, tables, goroutines and questions under way keep their types:  *)
(* a request for an address never goes without the question it is for, and *)
(* a table never keeps a request under another question.                   *)
THEOREM ResolverTypeCorrect == Spec => []TypeOK
<1>1. ResolverInv => TypeOK
  BY CacheTypedEq DEF ResolverInv, CacheInv, TypeOK
<1>. QED
  BY <1>1, ResolverInvariance, PTL

(* The resolver drives the cache as module DnsCache allows: the goroutines *)
(* of Doit write nothing into it, and the threads store only replies that  *)
(* nameservers gave.                                                       *)
THEOREM ResolverUsesCache == Spec => CacheSpec
<1>1. Init => CacheInit
  BY DEF Init
<1>2. ResolverInv /\ [Next]_vars => [CacheNext]_cacheVars
  BY CacheStep DEF ResolverInv
<1>. QED
  BY <1>1, <1>2, ResolverInvariance, PTL DEF Spec, CacheSpec

(* So the cache of a running resolver admits every server it names,        *)
(* aliases only of such names, and no addresses but theirs.                *)
THEOREM ResolverAdmission ==
  Spec => [](ServersAdmitted /\ AliasesAdmitted /\ OnlyServersAdmitted)
BY ResolverUsesCache, CacheAdmission, PTL
=============================================================================
