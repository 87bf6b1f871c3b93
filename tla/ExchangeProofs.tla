---------------------------- MODULE ExchangeProofs ----------------------------
(***************************************************************************)
(* The resolver implements module Exchange: the request made for a query   *)
(* tells its client at most once, and what it tells answers the question   *)
(* of the query, for any number of clients, threads and names, whatever    *)
(* the nameservers reply and whatever RNPool returns.                      *)
(***************************************************************************)
EXTENDS PlaceProofs, SequenceTheorems

-----------------------------------------------------------------------------
(* Chains of aliases.                                                      *)

(* A chain that goes on where another one ends makes one chain with it.    *)
LEMMA ChainJoined ==
  ASSUME NEW S, NEW a \in Seq(S), NEW b \in Seq(S), NEW q,
         IsChain(a, q), IsChain(b, EndOf(a, q))
  PROVE  /\ a \o b \in Seq(S)
         /\ IsChain(a \o b, q)
         /\ EndOf(a \o b, q) = EndOf(b, EndOf(a, q))
<1>1. /\ a \o b \in Seq(S)
      /\ Len(a \o b) = Len(a) + Len(b)
      /\ \A k \in 1..Len(a) : (a \o b)[k] = a[k]
      /\ \A k \in (Len(a) + 1)..(Len(a) + Len(b)) : (a \o b)[k] = b[k - Len(a)]
  OBVIOUS
<1>2. /\ a = <<>> <=> Len(a) = 0
      /\ b = <<>> <=> Len(b) = 0
      /\ a \o b = <<>> <=> Len(a) + Len(b) = 0
  BY <1>1
<1>3. EndOf(a \o b, q) = EndOf(b, EndOf(a, q))
  <2>1. CASE Len(b) = 0
    <3>1. a \o b = a
      BY <1>2, <2>1
    <3>. QED
      BY <1>2, <2>1, <3>1 DEF EndOf
  <2>2. CASE Len(b) # 0
    <3>1. (a \o b)[Len(a) + Len(b)] = b[Len(b)]
      BY <1>1, <2>2
    <3>. QED
      BY <1>1, <1>2, <2>2, <3>1 DEF EndOf
  <2>. QED
    BY <2>1, <2>2
<1>4. ASSUME NEW k \in 1..Len(a \o b)
      PROVE  (a \o b)[k].name = IF k = 1 THEN q ELSE (a \o b)[k - 1].data
  <2>1. CASE k <= Len(a)
    BY <1>1, <2>1 DEF IsChain
  <2>2. CASE k = Len(a) + 1
    <3>1. (a \o b)[k] = b[1] /\ b[1].name = EndOf(a, q)
      BY <1>1, <2>2 DEF IsChain
    <3>2. CASE Len(a) = 0
      BY <1>2, <2>2, <3>1, <3>2 DEF EndOf
    <3>3. CASE Len(a) # 0
      BY <1>1, <1>2, <2>2, <3>1, <3>3 DEF EndOf
    <3>. QED
      BY <3>2, <3>3
  <2>3. CASE k > Len(a) + 1
    BY <1>1, <2>3 DEF IsChain
  <2>. QED
    BY <1>1, <2>1, <2>2, <2>3
<1>. QED
  BY <1>1, <1>3, <1>4 DEF IsChain

-----------------------------------------------------------------------------
(* What goroutines hold.                                                   *)

(* Data sets come from replies.                                            *)
DataGiven == \A d \in DOMAIN doits : d.ds \subseteq Received

(* The request made for a query is for the type the client asked for, and  *)
(* has come from the client's name to its own along aliases that it keeps  *)
(* behind whatever it had when it came out of the pool.                    *)
OwnQuestion(n) ==
  n.made = "query" =>
    /\ n.req \in Clients
    /\ n.t = QuestionOf[n.req].t
    /\ n.way \in Seq(RRof(Received, "CNAME"))
    /\ IsChain(n.way, QuestionOf[n.req].q)
    /\ n.q = EndOf(n.way, QuestionOf[n.req].q)
    /\ \E old \in Seq(RR) : n.cns = old \o n.way

(* A request that recursion has just made for a query.                     *)
NewQuery(n) ==
  /\ n.made = "query"
  /\ n.req \in Clients
  /\ n.q = QuestionOf[n.req].q
  /\ n.t = QuestionOf[n.req].t
  /\ n.way = <<>>
  /\ n.cns \in Seq(RR)

(* All requests, wherever they are.                                        *)
NodesOf(f) == UNION {DOMAIN f[key] : key \in DOMAIN f}

Requests ==
  sending \cup {chan[k] : k \in DOMAIN chan}
          \cup {d.node : d \in DOMAIN doits} \cup NodesOf(table)

(* The requests of a table to which AddQuestion has added one.             *)
LEMMA NodesTabled ==
  ASSUME NEW n
  PROVE  NodesOf(AddQuestion(n)) \subseteq NodesOf(table) \cup {n}
<1>. DEFINE key == KeyOf(n)
<1>1. DOMAIN EmptyBag = {}
  BY DEF EmptyBag, SetToBag
<1>2. DOMAIN BagAdd(Waiting(key), n) = DOMAIN Waiting(key) \cup {n}
  BY MembersAdded
<1>3. DOMAIN Waiting(key) \subseteq NodesOf(table)
  BY <1>1 DEF Waiting, NodesOf
<1>. HIDE DEF key
<1>4. NodesOf(Put(table, key, BagAdd(Waiting(key), n))) \subseteq NodesOf(table) \cup {n}
  BY <1>2, <1>3 DEF NodesOf, Put
<1>. QED
  BY <1>4 DEF AddQuestion, key

(* The requests of a table without one of its questions.                   *)
LEMMA NodesDeleted ==
  ASSUME NEW key
  PROVE  /\ NodesOf(Delete(table, key)) \subseteq NodesOf(table)
         /\ DOMAIN Waiting(key) \subseteq NodesOf(table)
<1>1. DOMAIN EmptyBag = {}
  BY DEF EmptyBag, SetToBag
<1>2. DOMAIN Waiting(key) \subseteq NodesOf(table)
  BY <1>1 DEF NodesOf, Waiting
<1>3. /\ DOMAIN Delete(table, key) \subseteq DOMAIN table
      /\ \A k \in DOMAIN Delete(table, key) : Delete(table, key)[k] = table[k]
  BY DeleteKey
<1>. QED
  BY <1>2, <1>3 DEF NodesOf

(* Where a request comes from: it was there before, it is that of a query, *)
(* Doit has followed aliases for it, or it is for a nameserver's address.  *)
LEMMA Origins ==
  ASSUME RequestsTypeOK, [Next]_vars, NEW n \in Requests'
  PROVE  \/ n \in Requests
         \/ NewQuery(n)
         \/ \E d \in DOMAIN doits : Trying(d) /\ n = Advanced(d)
         \/ n.made = "lookup"
<1>1. ASSUME NEW c \in Clients, Refuse(c) \/ Accept(c)
      PROVE  n \in Requests \/ NewQuery(n)
  <2>1. CASE Refuse(c)
    BY <2>1 DEF Refuse, work, Requests
  <2>2. CASE Accept(c)
    <3>1. PICK old \in Drawable :
            /\ Drawn(old)
            /\ sending' = sending \cup
                 {[req |-> c, last |-> old.last,
                   q |-> QuestionOf[c].q, t |-> QuestionOf[c].t,
                   retrys |-> old.retrys, cns |-> old.cns,
                   made |-> "query", way |-> <<>>]}
      BY <2>2 DEF Accept
    <3>2. old.cns \in Seq(RR)
      BY DrawnPool DEF RequestsTypeOK, Leftover
    <3>3. n \in sending' => n \in sending \/ NewQuery(n)
      BY <3>1, <3>2 DEF NewQuery
    <3>4. UNCHANGED <<chan, doits, table>>
      BY <2>2 DEF Accept, work
    <3>. QED
      BY <3>3, <3>4 DEF Requests
  <2>. QED
    BY <1>1, <2>1, <2>2
<1>2. ASSUME NEW m \in sending, Enqueue(m) PROVE n \in Requests
  <2>1. chan \in Seq(Node) /\ m \in Node
    BY DEF RequestsTypeOK
  <2>2. {chan'[k] : k \in DOMAIN chan'} \subseteq {chan[k] : k \in DOMAIN chan} \cup {m}
    BY <1>2, <2>1 DEF Enqueue
  <2>. QED
    BY <1>2, <2>2 DEF Enqueue, work, Requests
<1>3. CASE Worker
  <2>1. chan \in Seq(Node) /\ chan # <<>>
    BY <1>3 DEF Worker, RequestsTypeOK
  <2>2. Head(chan) = chan[1] /\ 1 \in DOMAIN chan
    BY <2>1
  <2>3. {chan'[k] : k \in DOMAIN chan'} \subseteq {chan[k] : k \in DOMAIN chan}
    BY <1>3, <2>1 DEF Worker
  <2>4. DOMAIN doits' = DOMAIN doits \cup {Started(Head(chan), {})}
    BY <1>3, MembersAdded DEF Worker
  <2>5. {d.node : d \in DOMAIN doits'} \subseteq {d.node : d \in DOMAIN doits} \cup {Head(chan)}
    BY <2>4 DEF Started
  <2>. QED
    BY <1>3, <2>2, <2>3, <2>5 DEF Worker, Requests
<1>4. ASSUME NEW d \in BagToSet(doits), Doit(d)
      PROVE  n \in Requests \/ (Trying(d) /\ n = Advanced(d))
  <2>1. d \in Task /\ d \in DOMAIN doits
    BY DEF RequestsTypeOK, IsBagOf, BagToSet
  <2>2. CASE GoesOn(d)
    <3>1. PICK e : /\ doits' = BagAdd(BagRemove(doits, d), e)
                   /\ e.node = d.node \/ (Trying(d) /\ e.node = Advanced(d))
                   /\ UNCHANGED <<intake, table>>
      BY <2>1, <2>2, GoingOn
    <3>2. DOMAIN doits' \subseteq DOMAIN doits \cup {e}
      BY <3>1, MembersReplaced
    <3>. QED
      BY <2>1, <3>1, <3>2 DEF Requests, intake
  <2>3. CASE GiveUp(d) \/ AnswerClient(d) \/ AskServer(d) \/ Lost(d)
    <3>1. doits' = BagRemove(doits, d) /\ UNCHANGED <<sending, chan, table>>
      BY <2>3 DEF GiveUp, AnswerClient, AskServer, Lost, intake
    <3>2. DOMAIN doits' \subseteq DOMAIN doits
      BY <3>1, MembersRemoved
    <3>. QED
      BY <3>1, <3>2 DEF Requests
  <2>4. CASE Register(d)
    <3>1. DOMAIN doits' \subseteq DOMAIN doits
      BY <2>4, MembersRemoved DEF Register
    <3>2. NodesOf(table') \subseteq NodesOf(table) \cup {d.node}
      BY <2>4, NodesTabled DEF Register
    <3>. QED
      BY <2>1, <2>4, <3>1, <3>2 DEF Register, Requests
  <2>5. CASE Overflow(d)
    BY <2>5 DEF Overflow, intake, work, Requests
  <2>. QED
    BY <1>4, <2>2, <2>3, <2>4, <2>5, DoitEither
<1>5. ASSUME NEW s, Finishing(s) PROVE n \in Requests \/ n.made = "lookup"
  <2>1. CASE Send(s)
    BY <2>1 DEF Send, intake, Requests
  <2>2. ASSUME NEW v, SeekServer(s, v) PROVE n \in Requests \/ n.made = "lookup"
    <3>1. PICK m : /\ m.made = "lookup"
                   /\ table' = AddQuestion(m)
                   /\ doits' = BagAdd(doits, Started(m, {}))
      BY <2>2 DEF SeekServer
    <3>2. NodesOf(table') \subseteq NodesOf(table) \cup {m}
      BY <3>1, NodesTabled
    <3>3. DOMAIN doits' = DOMAIN doits \cup {Started(m, {})}
      BY <3>1, MembersAdded
    <3>4. {d.node : d \in DOMAIN doits'} \subseteq {d.node : d \in DOMAIN doits} \cup {m}
      BY <3>3 DEF Started
    <3>. QED
      BY <2>2, <3>1, <3>2, <3>4 DEF SeekServer, intake, Requests
  <2>. QED
    BY <1>5, <2>1, <2>2 DEF Finishing
<1>6. ASSUME NEW i \in Threads, Serve(i) PROVE n \in Requests
  <2>1. CASE Wake(i)
    <3>1. PICK key : /\ doits' = doits (+) Woken(key, msg[i].rrs)
                     /\ table' = Delete(table, key)
      BY <2>1 DEF Wake
    <3>2. DOMAIN doits' = DOMAIN doits \cup DOMAIN Woken(key, msg[i].rrs)
      BY <3>1, MembersJoined
    <3>3. DOMAIN Woken(key, msg[i].rrs) = {Started(m, msg[i].rrs) : m \in DOMAIN Waiting(key)}
      BY MembersWoken
    <3>4. {d.node : d \in DOMAIN doits'} \subseteq {d.node : d \in DOMAIN doits} \cup DOMAIN Waiting(key)
      BY <3>2, <3>3 DEF Started
    <3>. QED
      BY <2>1, <3>1, <3>4, NodesDeleted DEF Wake, intake, Requests
  <2>. QED
    BY <1>6, <2>1 DEF Serve, Deliver, Store, work, intake, Requests
<1>7. CASE UNCHANGED vars
  BY <1>7 DEF vars, work, intake, Requests
<1>8. ASSUME NEW a \in asks, Lose(a) PROVE n \in Requests
  BY <1>8 DEF Lose, work, intake, Requests
<1>. QED
  BY <1>1, <1>2, <1>3, <1>4, <1>5, <1>6, <1>7, <1>8 DEF Next, System, BagToSet

(* Every step keeps the data sets to records of replies.                   *)
LEMMA DataGivenStep ==
  ASSUME CacheTyped, RequestsTypeOK, DataGiven, [Next]_vars
  PROVE  DataGiven'
<1>1. ASSUME NEW e \in DOMAIN doits'
      PROVE  e.ds \subseteq Received
  <2>1. CASE \E i \in Threads : Finish(i) /\ e.ds = msg[i].rrs
    <3>1. PICK i \in Threads : Finish(i) /\ e.ds = msg[i].rrs
      BY <2>1
    <3>2. msg[i] \in Messages
      BY <3>1 DEF Finish, CacheTyped
    <3>. QED
      BY <3>1, <3>2 DEF Received
  <2>. QED
    BY <1>1, <2>1, DataSets DEF DataGiven
<1>. QED
  BY <1>1 DEF DataGiven

(* Following the aliases of a data set keeps a request to its question.    *)
LEMMA AdvancedOwn ==
  ASSUME NEW d \in Task, Trying(d), d.ds \subseteq Received, OwnQuestion(d.node)
  PROVE  OwnQuestion(Advanced(d))
<1>. DEFINE n == Advanced(d)
            aliases == DataSet_Cname(d.ds, d.node.q)
            S == RRof(Received, "CNAME")
            Q == QuestionOf[d.node.req].q
<1>1. SUFFICES ASSUME d.node.made = "query"
               PROVE  OwnQuestion(n)
  BY TryingNode DEF OwnQuestion
<1>2. /\ n.made = "query"
      /\ n.req = d.node.req
      /\ n.t = d.node.t
      /\ n.cns = d.node.cns \o aliases
      /\ n.way = d.node.way \o aliases
      /\ n.q = EndOf(aliases, d.node.q)
  BY <1>1, TryingNode DEF Advanced, Task, Node, Fields
<1>3. aliases \in Seq(RRof(d.ds, "CNAME")) /\ IsChain(aliases, d.node.q)
  BY AliasChain DEF Task
<1>4. RRof(d.ds, "CNAME") \subseteq S /\ RRof(d.ds, "CNAME") \subseteq RR
  BY DEF RRof, Task
<1>5. aliases \in Seq(S) /\ aliases \in Seq(RR)
  BY <1>3, <1>4
<1>6. /\ d.node.req \in Clients
      /\ d.node.t = QuestionOf[d.node.req].t
      /\ d.node.way \in Seq(S)
      /\ IsChain(d.node.way, Q)
      /\ d.node.q = EndOf(d.node.way, Q)
  BY <1>1 DEF OwnQuestion
<1>7. PICK old \in Seq(RR) : d.node.cns = old \o d.node.way
  BY <1>1 DEF OwnQuestion
<1>8. d.node.way \in Seq(RR)
  BY DEF Task, Node, Fields
<1>. HIDE DEF aliases, S, Q
<1>9. /\ d.node.way \o aliases \in Seq(S)
      /\ IsChain(d.node.way \o aliases, Q)
      /\ EndOf(d.node.way \o aliases, Q) = EndOf(aliases, d.node.q)
  BY <1>3, <1>5, <1>6, ChainJoined
<1>10. (old \o d.node.way) \o aliases = old \o (d.node.way \o aliases)
  <2>. DEFINE way == d.node.way
  <2>1. old \in Seq(RR) /\ way \in Seq(RR) /\ aliases \in Seq(RR)
    BY <1>5, <1>7, <1>8
  <2>. HIDE DEF way
  <2>2. (old \o way) \o aliases = old \o (way \o aliases)
    BY <2>1, ConcatAssociative
  <2>. QED
    BY <2>2 DEF way
<1>. HIDE DEF n
<1>11. \E o \in Seq(RR) : n.cns = o \o n.way
  BY <1>2, <1>7, <1>10
<1>. QED
  BY <1>2, <1>6, <1>9, <1>11 DEF OwnQuestion, S, Q

(* So does every step.                                                     *)
LEMMA OwnStep ==
  ASSUME RequestsTypeOK, DataGiven, [Next]_vars,
         \A n \in Requests : OwnQuestion(n)
  PROVE  \A n \in Requests' : OwnQuestion(n)
<1>1. SUFFICES ASSUME NEW n \in Requests'
               PROVE  OwnQuestion(n)
  OBVIOUS
<1>2. CASE NewQuery(n)
  <2>1. n.cns = n.cns \o n.way
    BY <1>2 DEF NewQuery
  <2>. QED
    BY <1>2, <2>1 DEF NewQuery, OwnQuestion, IsChain, EndOf
<1>3. CASE \E d \in DOMAIN doits : Trying(d) /\ n = Advanced(d)
  <2>1. PICK d \in DOMAIN doits : Trying(d) /\ n = Advanced(d)
    BY <1>3
  <2>2. d \in Task /\ d.node \in Requests /\ d.ds \subseteq Received
    BY DEF RequestsTypeOK, IsBagOf, Requests, DataGiven
  <2>. QED
    BY <2>1, <2>2, AdvancedOwn
<1>4. CASE n.made = "lookup"
  BY <1>4 DEF OwnQuestion
<1>. QED
  BY <1>2, <1>3, <1>4, Origins

-----------------------------------------------------------------------------
(* The answer.  What Doit finds in the data set or in the cache answers    *)
(* the question of the request.                                            *)
LEMMA AnswerRight ==
  ASSUME CacheTypeOK, AddressesOfOneReply, WholeDelegation,
         NEW n \in Node, n.made = "query", OwnQuestion(n),
         NEW ds \in SUBSET RR, ds \subseteq Received, NEW rrs \in AnswersTo(n, ds)
  PROVE  IsAnswer(n.req, [cns |-> n.cns, way |-> n.way, rrs |-> rrs])
<1>. DEFINE Q == QuestionOf[n.req]
            Right(x) == x.name = n.q /\ Answering(x, n.t)
<1>1. rrs # {}
  BY AnswersNotEmpty
<1>2. /\ IsChain(n.way, Q.q)
      /\ \A k \in DOMAIN n.way : n.way[k] \in RRof(Received, "CNAME")
      /\ Len(n.cns) <= Len(n.way) => n.cns = n.way
  <2>1. PICK old \in Seq(RR) : n.cns = old \o n.way
    BY DEF OwnQuestion
  <2>2. n.way \in Seq(RR) /\ n.way \in Seq(RRof(Received, "CNAME"))
    BY DEF OwnQuestion, Node, Fields
  <2>3. ASSUME Len(n.cns) <= Len(n.way) PROVE n.cns = n.way
    <3>1. Len(n.cns) = Len(old) + Len(n.way)
      BY <2>1, <2>2
    <3>2. old = <<>>
      BY <2>1, <2>2, <2>3, <3>1
    <3>. QED
      BY <2>1, <2>2, <3>2
  <2>. QED
    BY <2>2, <2>3 DEF OwnQuestion
<1>3. \A x \in DataSetRR(ds, n.t, n.q) : Right(x)
  BY DEF DataSetRR, Answering
<1>4. \A x \in Cached(n.t, n.q) : Right(x)
  <2>1. CASE n.t = "A"
    <3>1. SUFFICES ASSUME NEW a \in Entry(asets, n.q)
                   PROVE  Right([rt |-> "A", name |-> n.q, data |-> a])
      BY <2>1 DEF Cached
    <3>2. n.q \in DOMAIN asets /\ a \in asets[n.q]
      BY <3>1 DEF Entry
    <3>3. CASE a \in Entry(HintA, n.q)
      BY <2>1, <3>3 DEF Answering
    <3>4. ASSUME NEW m \in Messages, a \in DataOf(m.rrs, "A", n.q)
          PROVE  [rt |-> "A", name |-> n.q, data |-> a] \in Received
      <4>1. PICK r \in m.rrs : r.rt = "A" /\ r.name = n.q /\ r.data = a
        BY <3>4 DEF DataOf
      <4>2. r \in RR
        BY MessagesAssumption DEF Message
      <4>3. r = [rt |-> "A", name |-> n.q, data |-> a]
        BY <4>1, <4>2 DEF RR
      <4>. QED
        BY <4>3 DEF Received
    <3>. QED
      BY <2>1, <3>2, <3>3, <3>4 DEF AddressesOfOneReply, Answering
  <2>2. CASE n.t = "NS"
    <3>1. SUFFICES ASSUME NEW a \in Entry(nssets, n.q)
                   PROVE  Right([rt |-> "NS", name |-> n.q, data |-> a])
      BY <2>2 DEF Cached
    <3>2. n.q \in DOMAIN nssets /\ a \in nssets[n.q]
      BY <3>1 DEF Entry
    <3>3. CASE n.q \in DOMAIN HintNS /\ nssets[n.q] = HintNS[n.q]
      BY <2>2, <3>2, <3>3 DEF Entry, Answering
    <3>4. ASSUME NEW m \in Messages, n.q \in DOMAIN LocalNS(m), a \in LocalNS(m)[n.q]
          PROVE  [rt |-> "NS", name |-> n.q, data |-> a] \in Received
      <4>0. a \in DataOf(m.rrs, "NS", n.q)
        BY <3>4 DEF LocalNS
      <4>1. PICK r \in m.rrs : r.rt = "NS" /\ r.name = n.q /\ r.data = a
        BY <4>0 DEF DataOf
      <4>2. r \in RR
        BY MessagesAssumption DEF Message
      <4>3. r = [rt |-> "NS", name |-> n.q, data |-> a]
        BY <4>1, <4>2 DEF RR
      <4>. QED
        BY <4>3 DEF Received
    <3>. QED
      BY <2>2, <3>2, <3>3, <3>4 DEF WholeDelegation, Answering
  <2>3. CASE n.t = "AAAA"
    BY <2>3 DEF Cached, Answering
  <2>4. CASE n.t \notin {"A", "NS", "AAAA"}
    BY <2>4 DEF Cached
  <2>. QED
    BY <2>1, <2>2, <2>3, <2>4
<1>5. \A x \in rrs : x \in DataSetRR(ds, n.t, n.q) \/ x \in Cached(n.t, n.q)
  BY DEF AnswersTo
<1>6. \A x \in rrs : Right(x)
  BY <1>3, <1>4, <1>5
<1>7. n.t = Q.t /\ n.q = EndOf(n.way, Q.q)
  BY DEF OwnQuestion
<1>. QED
  BY <1>1, <1>2, <1>6, <1>7 DEF IsAnswer

-----------------------------------------------------------------------------
(* What clients have been told.                                            *)

(* Only clients whose query is settled have been told anything by the      *)
(* request made for it, and that was right.                                *)
ToldInv ==
  /\ DataGiven
  /\ \A n \in Requests : OwnQuestion(n)
  /\ \A c \in Clients : fate[c] # "answered" => replies[c] = <<>>
  /\ AnswersRight

(* What a step may do to a query: let it in or refuse it, answer it, or    *)
(* drop it.                                                                *)
LEMMA FateSteps ==
  ASSUME RequestsTypeOK, [Next]_vars
  PROVE  \/ \E c \in Clients : Refuse(c) \/ Accept(c)
         \/ \E d \in DOMAIN doits : AnswerClient(d)
         \/ /\ replies' = replies
            /\ \/ fate' = fate
               \/ \E c \in Clients : /\ fate[c] = "live"
                                     /\ fate' = [fate EXCEPT ![c] = "abandoned"]
<1>1. ASSUME NEW n \in Node
      PROVE  \/ Abandon(n) = fate
             \/ \E c \in Clients : /\ fate[c] = "live"
                                   /\ Abandon(n) = [fate EXCEPT ![c] = "abandoned"]
  BY DEF Abandon, Node
<1>2. ASSUME NEW d \in DOMAIN doits, Doit(d), ~AnswerClient(d)
      PROVE  replies' = replies /\ (fate' = fate \/ fate' = Abandon(d.node))
  BY <1>2 DEF Doit, GiveUp, Overflow, AskServer, Search, Walk, Lost, FollowAlias, NoAlias,
              FindAddresses, Register, intake, rest
<1>3. \A d \in DOMAIN doits : d.node \in Node
  BY DEF RequestsTypeOK, IsBagOf, Task
<1>4. ASSUME NEW s \in DOMAIN tails, Finishing(s)
      PROVE  replies' = replies /\ fate' = fate
  BY <1>4 DEF Finishing, Send, SeekServer, intake
<1>5. ASSUME NEW i \in Threads, Serve(i)
      PROVE  replies' = replies /\ fate' = fate
  BY <1>5 DEF Serve, Deliver, Store, Wake, intake, rest
<1>6. ASSUME Worker \/ \E n \in sending : Enqueue(n)
      PROVE  replies' = replies /\ fate' = fate
  BY <1>6 DEF Worker, Enqueue, rest
<1>7. ASSUME NEW a \in asks, Lose(a)
      PROVE  replies' = replies /\ fate' = fate
  BY <1>7 DEF Lose, intake
<1>8. CASE UNCHANGED vars
  BY <1>8 DEF vars, intake, rest
<1>. QED
  BY <1>1, <1>2, <1>3, <1>4, <1>5, <1>6, <1>7, <1>8 DEF Next, System, BagToSet

(* A goroutine that answers its own client has the request of a client     *)
(* that lives.                                                             *)
LEMMA AnsweredAlive ==
  ASSUME RequestsTypeOK, NEW d \in DOMAIN doits, AnswerClient(d), d.node.made = "query",
         \A c \in Clients : Placed(c)
  PROVE  d.node.req \in Clients /\ fate[d.node.req] = "live"
<1>1. d.node.req \in Clients
  BY DEF RequestsTypeOK, IsBagOf, Task, Node
<1>2. doits' = BagRemove(doits, d) /\ UNCHANGED <<sending, chan>>
  BY DEF AnswerClient
<1>3. IsOf(d.node, d.node.req)
  BY DEF IsOf
<1>. QED
  BY <1>1, <1>2, <1>3, Dropped

(* The reply to client c that a step of the resolver adds.                 *)
Answered(c, r) ==
  /\ fate[c] = "live"
  /\ fate' = [fate EXCEPT ![c] = "answered"]
  /\ replies' = [replies EXCEPT ![c] = Append(@, r)]
  /\ IsAnswer(c, r)

(* A request answers the client it was made for, and rightly, or does not  *)
(* touch what clients are told by the requests made for them.              *)
LEMMA AnswerStep ==
  ASSUME CacheTypeOK, RequestsTypeOK, AddressesOfOneReply, WholeDelegation,
         ToldInv, \A c \in Clients : Placed(c), NEW d \in DOMAIN doits, AnswerClient(d)
  PROVE  \/ replies' = replies /\ fate' = fate
         \/ \E c \in Clients : \E r : Answered(c, r)
<1>. DEFINE n == Advanced(d)
<1>1. d \in Task /\ d.node \in Requests /\ d.ds \subseteq Received /\ d.ds \in SUBSET RR
  BY DEF RequestsTypeOK, IsBagOf, Requests, ToldInv, DataGiven, Task
<1>2. Trying(d)
  BY DEF AnswerClient
<1>3. /\ n \in Node /\ n.req = d.node.req /\ n.made = d.node.made
      /\ OwnQuestion(n)
  BY <1>1, <1>2, TryingNode, AdvancedOwn DEF ToldInv
<1>4. PICK rrs \in AnswersTo(n, d.ds) : Tell(n, rrs)
  BY DEF AnswerClient
<1>5. fate' = Settled(n)
  BY DEF AnswerClient
<1>6. CASE d.node.made = "query"
  <2>. DEFINE r == [cns |-> n.cns, way |-> n.way, rrs |-> rrs]
  <2>1. n.req \in Clients /\ fate[n.req] = "live"
    BY <1>3, <1>6, AnsweredAlive
  <2>. HIDE DEF n
  <2>2. IsAnswer(n.req, r)
    BY <1>1, <1>3, <1>4, <1>6, AnswerRight
  <2>3. replies' = [replies EXCEPT ![n.req] = Append(@, r)]
    BY <1>3, <1>4, <1>6 DEF Tell
  <2>4. fate' = [fate EXCEPT ![n.req] = "answered"]
    BY <1>3, <1>5, <1>6, <2>1 DEF Settled
  <2>5. Answered(n.req, r)
    BY <2>1, <2>2, <2>3, <2>4 DEF Answered
  <2>. QED
    BY <2>1, <2>5
<1>7. CASE d.node.made # "query"
  BY <1>3, <1>4, <1>5, <1>7 DEF Tell, Settled
<1>. QED
  BY <1>6, <1>7

(* An answer that is right leaves what clients were told right.            *)
LEMMA AnsweredRight ==
  ASSUME RequestsTypeOK, ToldInv, NEW c \in Clients, NEW r, Answered(c, r)
  PROVE  /\ replies[c] = <<>>
         /\ Len(replies'[c]) = 1 /\ replies'[c][1] = r
         /\ \A b \in Clients : fate'[b] # "answered" => replies'[b] = <<>>
         /\ AnswersRight'
<1>1. /\ fate \in [Clients -> {"idle", "refused", "live", "answered", "abandoned"}]
      /\ DOMAIN replies = Clients
  BY DEF RequestsTypeOK
<1>2. replies[c] = <<>>
  BY DEF Answered, ToldInv
<1>3. /\ replies'[c] = Append(<<>>, r)
      /\ \A b \in Clients \ {c} : replies'[b] = replies[b] /\ fate'[b] = fate[b]
      /\ fate'[c] = "answered"
  BY <1>1, <1>2 DEF Answered
<1>4. Len(replies'[c]) = 1 /\ replies'[c][1] = r /\ DOMAIN replies'[c] = {1}
  BY <1>3
<1>5. \A b \in Clients : fate'[b] # "answered" => replies'[b] = <<>>
  BY <1>3 DEF ToldInv
<1>6. ASSUME NEW b \in Clients, NEW k \in DOMAIN replies'[b]
      PROVE  IsAnswer(b, replies'[b][k])
  <2>1. CASE b = c
    BY <1>4, <1>6, <2>1 DEF Answered
  <2>2. CASE b # c
    BY <1>3, <1>6, <2>2 DEF ToldInv, AnswersRight
  <2>. QED
    BY <2>1, <2>2
<1>7. AnswersRight'
  BY <1>6 DEF AnswersRight, IsAnswer, Answering
<1>. QED
  BY <1>2, <1>4, <1>5, <1>7

(* Each step keeps it.                                                     *)
LEMMA ToldStep ==
  ASSUME CacheTyped, CacheTypeOK, RequestsTypeOK, AddressesOfOneReply,
         WholeDelegation, PlaceInv, ToldInv, [Next]_vars
  PROVE  ToldInv'
<1>1. DataGiven' /\ \A n \in Requests' : OwnQuestion(n)
  BY DataGivenStep, OwnStep DEF ToldInv
<1>2. fate \in [Clients -> {"idle", "refused", "live", "answered", "abandoned"}]
  BY DEF RequestsTypeOK
<1>3. ASSUME replies' = replies,
             \A b \in Clients : fate[b] = "answered" => fate'[b] = "answered"
      PROVE  (\A c \in Clients : fate'[c] # "answered" => replies'[c] = <<>>) /\ AnswersRight'
  BY <1>3 DEF ToldInv, AnswersRight, IsAnswer, Answering
<1>4. (\A c \in Clients : fate'[c] # "answered" => replies'[c] = <<>>) /\ AnswersRight'
  <2>1. ASSUME NEW c \in Clients, Refuse(c) \/ Accept(c)
        PROVE  /\ replies' = replies
               /\ \A b \in Clients : fate[b] = "answered" => fate'[b] = "answered"
    BY <1>2, <2>1 DEF Refuse, Accept, rest
  <2>2. CASE \E d \in DOMAIN doits : AnswerClient(d)
    BY <1>3, <2>2, AnswerStep, AnsweredRight DEF PlaceInv
  <2>3. CASE /\ replies' = replies
             /\ \/ fate' = fate
                \/ \E c \in Clients : /\ fate[c] = "live"
                                      /\ fate' = [fate EXCEPT ![c] = "abandoned"]
    BY <1>2, <1>3, <2>3
  <2>. QED
    BY <1>3, <2>1, <2>2, <2>3, FateSteps
<1>. QED
  BY <1>1, <1>4 DEF ToldInv, OwnQuestion

(* It holds at the start.                                                  *)
LEMMA ToldInit == Init => ToldInv
BY DEF Init, ToldInv, DataGiven, Requests, NodesOf, EmptyBag, SetToBag, Empty, AnswersRight

(* With the invariants it rests on, it holds in every state.               *)
LEMMA ToldInvariance ==
  Spec => [](ToldInv /\ PlaceInv /\ ResolverInv /\ AddressesOfOneReply)
<1>1. ResolverInv => CacheTyped /\ CacheTypeOK /\ RequestsTypeOK /\ WholeDelegation
  BY CacheTypedEq DEF ResolverInv, CacheInv
<1>2. ToldInv /\ PlaceInv /\ ResolverInv /\ AddressesOfOneReply /\ [Next]_vars => ToldInv'
  BY <1>1, ToldStep
<1>. QED
  BY <1>2, ToldInit, ResolverInvariance, PlaceInvariance, ResolverUsesCache,
     CacheAddressesOfOneReply, PTL DEF Spec

(* Nothing a client is told by the request made for its query is anything  *)
(* but an answer to its own question: whatever the node had in it when it  *)
(* came out of RNPool, and whatever was written into the cache meanwhile.  *)
THEOREM ResolverAnswersRight == Spec => []AnswersRight
<1>1. ToldInv => AnswersRight
  BY DEF ToldInv
<1>. QED
  BY <1>1, ToldInvariance, PTL

-----------------------------------------------------------------------------
(* The refinement.                                                         *)
(* The initial states of the resolver are those of module Exchange.        *)
LEMMA ExchangeInit == Init => Exch!Init
BY DEF Init, Exch!Init

(* A query that is let in or refused is a query of module Exchange.        *)
LEMMA QueryMaps ==
  ASSUME RequestsTypeOK, NEW c \in Clients, Refuse(c) \/ Accept(c)
  PROVE  Exch!Query(c)
<1>1. fate \in [Clients -> {"idle", "refused", "live", "answered", "abandoned"}]
  BY DEF RequestsTypeOK
<1>2. /\ fate[c] = "idle"
      /\ fate' = [fate EXCEPT ![c] = "refused"] \/ fate' = [fate EXCEPT ![c] = "live"]
      /\ replies' = replies
  BY DEF Refuse, Accept, rest
<1>. QED
  BY <1>1, <1>2 DEF Exch!Query

(* A reply that is written is a reply of module Exchange.                  *)
LEMMA ReplyMaps ==
  ASSUME RequestsTypeOK, ToldInv, NEW c \in Clients, NEW r, Answered(c, r)
  PROVE  Exch!Reply(c)
<1>1. /\ fate \in [Clients -> {"idle", "refused", "live", "answered", "abandoned"}]
      /\ DOMAIN replies = Clients
  BY DEF RequestsTypeOK
<1>2. replies[c] = <<>> /\ Len(replies'[c]) = 1 /\ replies'[c][1] = r
  BY AnsweredRight
<1>3. replies' = [replies EXCEPT ![c] = replies'[c]]
  BY <1>1 DEF Answered
<1>4. \A b \in Clients : fate'[b] # "idle" <=> fate[b] # "idle"
  BY <1>1 DEF Answered
<1>5. IsAnswer(c, replies'[c][1]) /\ fate[c] # "idle"
  BY <1>2 DEF Answered
<1>. QED
  BY <1>2, <1>3, <1>4, <1>5 DEF Exch!Reply

(* Any other step is none of module Exchange.                              *)
LEMMA ExchangeStep ==
  ASSUME CacheTypeOK, RequestsTypeOK, AddressesOfOneReply,
         WholeDelegation, PlaceInv, ToldInv, [Next]_vars
  PROVE  [Exch!Next]_(Exch!exchangeVars)
<1>1. fate \in [Clients -> {"idle", "refused", "live", "answered", "abandoned"}]
  BY DEF RequestsTypeOK
<1>2. CASE \E c \in Clients : Refuse(c) \/ Accept(c)
  BY <1>2, QueryMaps DEF Exch!Next
<1>3. CASE \E c \in Clients : \E r : Answered(c, r)
  BY <1>3, ReplyMaps DEF Exch!Next
<1>4. CASE /\ replies' = replies
           /\ \/ fate' = fate
              \/ \E c \in Clients : /\ fate[c] = "live"
                                    /\ fate' = [fate EXCEPT ![c] = "abandoned"]
  <2>1. \A c \in Clients : fate'[c] # "idle" <=> fate[c] # "idle"
    BY <1>1, <1>4
  <2>. QED
    BY <1>4, <2>1 DEF Exch!exchangeVars
<1>5. CASE \E d \in DOMAIN doits : AnswerClient(d)
  BY <1>3, <1>4, <1>5, AnswerStep DEF PlaceInv
<1>. QED
  BY <1>2, <1>4, <1>5, FateSteps

(* Each query gets one right answer from the request made for it, or none, *)
(* however goroutines, threads and replies interleave: the resolver        *)
(* implements module Exchange.                                             *)
THEOREM ResolverExchange == Spec => ExchangeSpec
<1>1. ResolverInv => CacheTypeOK /\ RequestsTypeOK /\ WholeDelegation
  BY CacheTypedEq DEF ResolverInv, CacheInv
<1>2. ToldInv /\ PlaceInv /\ ResolverInv /\ AddressesOfOneReply /\ [Next]_vars
        => [Exch!Next]_(Exch!exchangeVars)
  BY <1>1, ExchangeStep
<1>. QED
  BY <1>2, ExchangeInit, ToldInvariance, PTL DEF Spec, ExchangeSpec, Exch!Spec
=============================================================================
