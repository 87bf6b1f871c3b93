------------------------------ MODULE Resolver ------------------------------
(***************************************************************************)
(* The recursive resolver: from a query read on port 53 (recursion of      *)
(* models/models.go), through the channel RNChan and the Worker, to the    *)
(* Doit goroutines of models/recursion.go, the tables of waiting requests  *)
(* (ReqA, ReqNS, ReqAAAA, ReqMX) and the serve threads, which fill the     *)
(* cache of module DnsCache and wake the requests that wait for a reply.   *)
(*                                                                         *)
(* A step is one critical section or one channel operation; what a         *)
(* goroutine does between two of them on data of its own belongs to the    *)
(* step before.  The network is the set of questions under way to some     *)
(* nameserver: one that is never read, or never answered, is lost in a     *)
(* step of its own when Lossy is TRUE; replies come in any order, and      *)
(* again and again when Duplicates is TRUE.                                *)
(***************************************************************************)
EXTENDS DnsCache, Bags, BagsExt

CONSTANTS
  Clients,      \* datagrams with a query
  QuestionOf,   \* the question of each of them
  Upstream,     \* Upstream[a]: the replies a nameserver may give to ask a
  HintAAAA,     \* AAAAAsets after LoadConfig; nothing writes it later
  MaxRetrys,    \* 30: how often Doit may work on one request
  ChanCap,      \* 100: the capacity of RNChan
  MaxLookups,   \* bound of the model: requests for addresses at one time
  Duplicates,   \* TRUE if a reply may be delivered again
  Lossy,        \* TRUE if a question or its reply may be lost
  Recycle,      \* TRUE if RNPool.Get may return a node that was Put
  NoReq,        \* a nil Req
  NoLast        \* an empty LastName

Ask == [q : Names, t : QTypes, to : Addrs]

ASSUME ResolverAssumption ==
  /\ QuestionOf \in [Clients -> Question]
  /\ Upstream \in [Ask -> SUBSET Messages]
  \* Doit takes the question from the reply, and nameservers echo it
  /\ \A a \in Ask : \A m \in Upstream[a] : m.q = a.q /\ m.t = a.t
  /\ DOMAIN HintAAAA \subseteq Names
  /\ HintAAAA \in [DOMAIN HintAAAA -> SUBSET Addrs]
  /\ MaxRetrys \in Nat \ {0}
  /\ ChanCap \in Nat \ {0}
  /\ MaxLookups \in Nat
  /\ Duplicates \in BOOLEAN
  /\ Lossy \in BOOLEAN
  /\ Recycle \in BOOLEAN
  /\ NoReq \notin Clients
  /\ NoLast \notin Question

VARIABLES
  fate,      \* history: what has become of each client's query
  sending,   \* requests of goroutines that are about to send on RNChan
  chan,      \* RNChan
  doits,     \* bag of the Doit goroutines that hold a request
  tails,     \* bag of the Doit goroutines that have handed theirs over to
             \*   AddQuestion and have yet to ask, or to look for addresses
  table,     \* ReqA, ReqNS, ReqAAAA and ReqMX: bags of requests by question
  pool,      \* bag of what RNPool holds
  asks,      \* questions under way
  replies,   \* replies[c]: what c has been told by the request made for it
  strays,    \* what clients have been told by requests made for something
             \*   else
  forsaken   \* history: questions that were lost, that a negative reply
             \*   came for, or that a lookup of a nameserver's address was
             \*   to send and will not

intake == <<fate, sending, chan>>
work == <<doits, tails, table>>
rest == <<pool, asks, replies, strays, forsaken>>
vars == <<cacheVars, intake, work, rest>>

-----------------------------------------------------------------------------
(* A RequestNode.  req stands for Req and Addr, last for LastName and      *)
(* LastType; Conn is always set and TPoint is never read.  retrys stops    *)
(* counting when the limit is exceeded: one more makes no difference.  Two *)
(* fields are history: made, what the node was drawn from the pool for,    *)
(* and way, the aliases that Doit has followed with it since.              *)
Fields == [req : Clients \cup {NoReq}, last : Question \cup {NoLast},
           q : Names, t : QTypes, retrys : 0..MaxRetrys + 1, cns : Seq(RR),
           made : {"query", "lookup"}, way : Seq(RR)]

(* The request made for a query has a client; one made for the address of  *)
(* a nameserver knows the question it is for.                              *)
Node == {n \in Fields : IF n.made = "query" THEN n.req \in Clients
                                           ELSE n.t = "A" /\ n.last \in Question}

(* What RNPool.Get returns, of the fields its callers do not set: those of *)
(* a zero RequestNode, or those of a request that was put back.            *)
Blank == [req |-> NoReq, last |-> NoLast, retrys |-> 0, cns |-> <<>>]

Drawable == {Blank} \cup BagToSet(pool)

PutBack(n) ==
  pool' = IF Recycle
          THEN BagAdd(pool, [req |-> n.req, last |-> n.last,
                             retrys |-> n.retrys, cns |-> n.cns])
          ELSE pool

Drawn(old) == pool' = BagRemove(pool, old)

KeyOf(n) == [q |-> n.q, t |-> n.t]

(* AddQuestion has no table for other types and forgets the request.       *)
Tracked(key) == key.t \in {"A", "AAAA", "NS", "MX"}

Waiting(key) == IF key \in DOMAIN table THEN table[key] ELSE EmptyBag

\* Mutation: requests of every type are kept.
AddQuestionAll(n) == Put(table, KeyOf(n), BagAdd(Waiting(KeyOf(n)), n))

AddQuestion(n) ==
  IF Tracked(KeyOf(n))
  THEN Put(table, KeyOf(n), BagAdd(Waiting(KeyOf(n)), n))
  ELSE table

HasQuestion(key) == key \in DOMAIN table

(* A goroutine that runs Doit: the request it holds, the data set of the   *)
(* reply that woke it ({} for nil), and where it is.                       *)
Started(n, ds) ==
  [node |-> n, ds |-> ds, pc |-> "begin", at |-> n.q,
   ns |-> {}, left |-> {}, ips |-> {}]

(* The client of a request that is dropped.                                *)
Abandon(n) ==
  IF n.made = "query" /\ fate[n.req] = "live"
  THEN [fate EXCEPT ![n.req] = "abandoned"]
  ELSE fate

(* The question a lookup was for will not be sent by it.                   *)
Forsake(n) == IF n.made = "lookup" THEN forsaken \cup {n.last} ELSE forsaken

-----------------------------------------------------------------------------
Init ==
  /\ CacheInit
  /\ fate = [c \in Clients |-> "idle"]
  /\ sending = {}
  /\ chan = <<>>
  /\ doits = EmptyBag
  /\ tails = EmptyBag
  /\ table = Empty
  /\ pool = EmptyBag
  /\ asks = {}
  /\ replies = [c \in Clients |-> <<>>]
  /\ strays = {}
  /\ forsaken = {}

-----------------------------------------------------------------------------
(* Intake: recursion and Worker.                                           *)

(* The question is pending: the query is dropped and nothing is sent.      *)
Refuse(c) ==
  /\ up
  /\ fate[c] = "idle"
  /\ HasQuestion(QuestionOf[c])
  /\ fate' = [fate EXCEPT ![c] = "refused"]
  /\ UNCHANGED <<cacheVars, sending, chan, work, rest>>

(* A node is drawn from the pool; LastName, LastType, Retrys and Cns are   *)
(* left as they are.                                                       *)
Accept(c) ==
  /\ up
  /\ fate[c] = "idle"
  /\ ~HasQuestion(QuestionOf[c])
  /\ \E old \in Drawable :
       /\ Drawn(old)
       /\ sending' = sending \cup
            {[req |-> c, last |-> old.last,
              q |-> QuestionOf[c].q, t |-> QuestionOf[c].t,
              retrys |-> old.retrys, cns |-> old.cns,
              made |-> "query", way |-> <<>>]}
  /\ fate' = [fate EXCEPT ![c] = "live"]
  /\ UNCHANGED <<cacheVars, chan, work, asks, replies, strays, forsaken>>

Enqueue(n) ==
  /\ up
  /\ n \in sending
  /\ Len(chan) < ChanCap
  /\ chan' = Append(chan, n)
  /\ sending' = sending \ {n}
  /\ UNCHANGED <<cacheVars, fate, work, rest>>

Worker ==
  /\ up
  /\ chan # <<>>
  /\ doits' = BagAdd(doits, Started(Head(chan), {}))
  /\ chan' = Tail(chan)
  /\ UNCHANGED <<cacheVars, fate, sending, tails, table, rest>>

-----------------------------------------------------------------------------
(* Doit.                                                                   *)

\* Mutation: the aliases are followed and not kept for the answer.
AdvancedUntold(d) ==
  LET aliases == DataSet_Cname(d.ds, d.node.q)
  IN  [d.node EXCEPT !.retrys = @ + 1, !.q = EndOf(aliases, @),
                     !.way = @ \o aliases]

(* The request after Doit has counted it and followed the aliases of the   *)
(* data set.                                                               *)
Advanced(d) ==
  LET aliases == DataSet_Cname(d.ds, d.node.q)
  IN  [d.node EXCEPT !.retrys = @ + 1,
                     !.q = EndOf(aliases, @),
                     !.cns = @ \o aliases,
                     !.way = @ \o aliases]

Cached(t, n) ==
  CASE t = "A"    -> {[rt |-> "A", name |-> n, data |-> x] : x \in Entry(asets, n)}
    [] t = "NS"   -> {[rt |-> "NS", name |-> n, data |-> x] : x \in Entry(nssets, n)}
    \* AddAAAA_str gives these records the type A
    [] t = "AAAA" -> {[rt |-> "A", name |-> n, data |-> x] : x \in Entry(HintAAAA, n)}
    [] OTHER      -> {}

(* The records Doit may answer with: those of the data set, or else those  *)
(* of the cache.  DataSet_MX returns one record only.                      *)
AnswersTo(n, ds) ==
  LET here == IF Tracked(KeyOf(n)) THEN DataSetRR(ds, n.t, n.q) ELSE {}
      all  == IF here # {} THEN here ELSE Cached(n.t, n.q)
  IN  IF n.t = "MX" THEN {{r} : r \in all} ELSE {all} \ {{}}

Exhausted(d) == d.pc = "begin" /\ d.node.retrys >= MaxRetrys

\* Mutation: the request is kept in the table.
GiveUpKeeping(d) ==
  /\ up
  /\ Exhausted(d)
  /\ table' = AddQuestion(d.node)
  /\ doits' = BagRemove(doits, d)
  /\ UNCHANGED <<cacheVars, intake, tails, rest>>

(* More than MaxRetrys: the request goes back to the pool without a word.  *)
GiveUp(d) ==
  /\ up
  /\ Exhausted(d)
  /\ PutBack([d.node EXCEPT !.retrys = MaxRetrys + 1])
  /\ doits' = BagRemove(doits, d)
  /\ fate' = Abandon(d.node)
  /\ forsaken' = Forsake(d.node)
  /\ UNCHANGED <<cacheVars, sending, chan, tails, table, asks, replies, strays>>

(* Aliases in the data set that lead into a loop.                          *)
Looping(d) == AliasChains(d.ds, d.node.q) = {}

(* DataSet_Cname follows them until the stack of the goroutine is full,    *)
(* and that ends the process.                                              *)
Overflow(d) ==
  /\ d.pc = "begin"
  /\ ~Exhausted(d)
  /\ Looping(d)
  /\ Crash
  /\ UNCHANGED <<intake, work, rest>>

(* Doit gets as far as looking for an answer.                              *)
Trying(d) == up /\ d.pc = "begin" /\ ~Exhausted(d) /\ ~Looping(d)

(* What a client is told, by the request n made for it or by another.      *)
Tell(n, rrs) ==
  IF n.made = "query"
  THEN /\ replies' = [replies EXCEPT ![n.req] =
                        Append(@, [cns |-> n.cns, way |-> n.way, rrs |-> rrs])]
       /\ UNCHANGED strays
  ELSE /\ strays' = strays \cup {[to |-> n.req, cns |-> n.cns, rrs |-> rrs]}
       /\ UNCHANGED replies

Settled(n) ==
  IF n.made = "query" /\ fate[n.req] = "live"
  THEN [fate EXCEPT ![n.req] = "answered"]
  ELSE fate

\* Mutation: the answer is put into the cache.
AnswerAndCache(d) ==
  /\ Trying(d)
  /\ d.node.req # NoReq
  /\ LET n == Advanced(d) IN
     /\ \E rrs \in AnswersTo(n, d.ds) :
          /\ Tell(n, rrs)
          /\ asets' = Put(asets, n.q, {r.data : r \in rrs})
     /\ PutBack(n)
     /\ fate' = Settled(n)
     /\ forsaken' = Forsake(n)
  /\ doits' = BagRemove(doits, d)
  /\ UNCHANGED <<nssets, cnsets, threads, sending, chan, tails, table, asks>>

(* Over for a request with a client, be it the one it was made for or one  *)
(* that a node from the pool came with.  The reply has the question of     *)
(* Req.                                                                    *)
AnswerClient(d) ==
  /\ Trying(d)
  /\ d.node.req # NoReq
  /\ LET n == Advanced(d) IN
     /\ \E rrs \in AnswersTo(n, d.ds) : Tell(n, rrs)
     /\ PutBack(n)
     /\ fate' = Settled(n)
     /\ forsaken' = Forsake(n)
  /\ doits' = BagRemove(doits, d)
  /\ UNCHANGED <<cacheVars, sending, chan, tails, table, asks>>

\* Mutation: the servers found are asked for their own name.
AskServerItself(d) ==
  /\ Trying(d)
  /\ d.node.req = NoReq
  /\ LET n == Advanced(d) IN
     /\ \E rrs \in AnswersTo(n, d.ds) :
          asks' = asks \cup {[q |-> n.q, t |-> n.t, to |-> r.data] : r \in rrs}
     /\ PutBack(n)
  /\ doits' = BagRemove(doits, d)
  /\ UNCHANGED <<cacheVars, intake, tails, table, replies, strays, forsaken>>

(* Over for the address of a nameserver: the question that needed it is    *)
(* put to every address found.                                             *)
AskServer(d) ==
  /\ Trying(d)
  /\ d.node.req = NoReq
  /\ LET n == Advanced(d) IN
     /\ \E rrs \in AnswersTo(n, d.ds) :
          asks' = asks \cup {[q |-> n.last.q, t |-> n.last.t, to |-> r.data] : r \in rrs}
     /\ PutBack(n)
  /\ doits' = BagRemove(doits, d)
  /\ UNCHANGED <<cacheVars, intake, tails, table, replies, strays, forsaken>>

(* No answer: the nameservers are those the data set gives for the name,   *)
(* or those of the closest zone that has any in the cache.                 *)
Search(d) ==
  /\ Trying(d)
  /\ LET n  == Advanced(d)
         ns == DataOf(d.ds, "NS", n.q) \ {n.q}
     IN  /\ AnswersTo(n, d.ds) = {}
         /\ doits' = BagAdd(BagRemove(doits, d),
                      [d EXCEPT !.node = n, !.at = n.q, !.ns = ns, !.left = ns,
                                !.pc = IF ns = {} THEN "walk" ELSE "addrs"])
  /\ UNCHANGED <<cacheVars, intake, tails, table, rest>>

(* GetOriNS of one zone on the way to the root.  Servers that include the  *)
(* name in question are of no use.                                         *)
ZoneServers(d) ==
  LET ns == Entry(nssets, d.at) IN IF d.node.q \in ns THEN {} ELSE ns

Walk(d) ==
  /\ up
  /\ d.pc = "walk"
  /\ ZoneServers(d) # {} \/ d.at # Root
  /\ LET ns == ZoneServers(d) IN
     doits' = BagAdd(BagRemove(doits, d),
       IF ns # {} THEN [d EXCEPT !.pc = "addrs", !.ns = ns, !.left = ns]
                  ELSE [d EXCEPT !.at = Parent[@]])
  /\ UNCHANGED <<cacheVars, intake, tails, table, rest>>

(* ". ns not found": the goroutine returns and the request is gone.        *)
Lost(d) ==
  /\ up
  /\ d.pc = "walk"
  /\ ZoneServers(d) = {}
  /\ d.at = Root
  /\ doits' = BagRemove(doits, d)
  /\ fate' = Abandon(d.node)
  /\ forsaken' = Forsake(d.node)
  /\ UNCHANGED <<cacheVars, sending, chan, tails, table, pool, asks, replies, strays>>

(* get_cnames and GetA take their locks for one name at a time.  The names *)
(* Doit may look up next: a nameserver, or where the alias of one led.     *)
LookedUp(d) ==
  CASE d.pc = "addrs" -> d.left
    [] d.pc = "alias" -> {d.at}
    [] OTHER          -> {}

RestOf(d, v) == IF d.pc = "addrs" THEN d.left \ {v} ELSE d.left

\* Mutation: the name looked up stays the same.
FollowAliasInPlace(d, v) ==
  /\ up
  /\ v \in LookedUp(d)
  /\ v \in DOMAIN cnsets
  /\ doits' = BagAdd(BagRemove(doits, d),
       [d EXCEPT !.pc = "alias", !.at = v, !.left = RestOf(d, v)])
  /\ UNCHANGED <<cacheVars, intake, tails, table, rest>>

(* get_cnames, one alias on.  On a loop it never returns.                  *)
FollowAlias(d, v) ==
  /\ up
  /\ v \in LookedUp(d)
  /\ v \in DOMAIN cnsets
  /\ doits' = BagAdd(BagRemove(doits, d),
       [d EXCEPT !.pc = "alias", !.at = cnsets[v], !.left = RestOf(d, v)])
  /\ UNCHANGED <<cacheVars, intake, tails, table, rest>>

(* No alias, or none any more: the data set may have addresses of the      *)
(* nameserver, or else GetA is to be asked for them.                       *)
NoAlias(d, v) ==
  /\ up
  /\ v \in LookedUp(d)
  /\ v \notin DOMAIN cnsets
  /\ LET here == DataOf(d.ds, "A", v)
         on   == [d EXCEPT !.left = RestOf(d, v)]
     IN  doits' = BagAdd(BagRemove(doits, d),
           IF here # {} THEN [on EXCEPT !.pc = "addrs", !.ips = @ \cup here]
                        ELSE [on EXCEPT !.pc = "geta", !.at = v])
  /\ UNCHANGED <<cacheVars, intake, tails, table, rest>>

(* GetA.                                                                   *)
FindAddresses(d) ==
  /\ up
  /\ d.pc = "geta"
  /\ doits' = BagAdd(BagRemove(doits, d),
       [d EXCEPT !.pc = "addrs", !.ips = @ \cup Entry(asets, d.at)])
  /\ UNCHANGED <<cacheVars, intake, tails, table, rest>>

(* AddQuestion: from here on the request belongs to the table, before any  *)
(* question has been sent.                                                 *)
Register(d) ==
  /\ up
  /\ d.pc = "addrs"
  /\ d.left = {}
  /\ table' = AddQuestion(d.node)
  /\ fate' = IF Tracked(KeyOf(d.node)) THEN fate ELSE Abandon(d.node)
  /\ tails' = BagAdd(tails, [key |-> KeyOf(d.node), ips |-> d.ips,
                             left |-> IF d.ips = {} THEN d.ns ELSE {}])
  /\ doits' = BagRemove(doits, d)
  /\ UNCHANGED <<cacheVars, sending, chan, rest>>


(* Request2.                                                               *)
Send(s) ==
  /\ up
  /\ s.ips # {}
  /\ asks' = asks \cup {[q |-> s.key.q, t |-> s.key.t, to |-> x] : x \in s.ips}
  /\ tails' = BagRemove(tails, s)
  /\ UNCHANGED <<cacheVars, intake, doits, table, pool, replies, strays, forsaken>>

\* Mutation: the request is added to the table and nobody works on it.
SeekServerIdly(s, v) ==
  /\ up
  /\ v \in s.left
  /\ table' = AddQuestion([req |-> NoReq, last |-> s.key, q |-> v, t |-> "A",
                           retrys |-> 0, cns |-> <<>>, made |-> "lookup", way |-> <<>>])
  /\ tails' = BagRemove(tails, s)
  /\ UNCHANGED <<cacheVars, intake, doits, rest>>

(* The requests for addresses in the tables.  The code sets no limit.      *)
Lookups ==
  SumFunction([key \in DOMAIN table |->
    BagCardinality(Restrict(table[key], {n \in DOMAIN table[key] : n.made = "lookup"}))])

(* A request for the address of one nameserver: it is added to the table   *)
(* and, a second copy of it, given to a goroutine of its own.  Req, Addr,  *)
(* Retrys and Cns are left as they came from the pool.                     *)
SeekServer(s, v) ==
  /\ up
  /\ v \in s.left
  /\ Lookups < MaxLookups
  /\ \E old \in Drawable :
       /\ Drawn(old)
       /\ LET n == [req |-> old.req, last |-> s.key, q |-> v, t |-> "A",
                    retrys |-> old.retrys, cns |-> old.cns,
                    made |-> "lookup", way |-> <<>>]
          IN  /\ table' = AddQuestion(n)
              /\ doits' = BagAdd(doits, Started(n, {}))
  /\ tails' = LET others == BagRemove(tails, s)
              IN  IF s.left = {v} THEN others
                  ELSE BagAdd(others, [s EXCEPT !.left = @ \ {v}])
  /\ UNCHANGED <<cacheVars, intake, asks, replies, strays, forsaken>>

-----------------------------------------------------------------------------
(* The network: a question, or the reply to it, gets lost.                 *)
Lose(a) ==
  /\ Lossy
  /\ a \in asks
  /\ asks' = asks \ {a}
  /\ forsaken' = forsaken \cup {[q |-> a.q, t |-> a.t]}
  /\ UNCHANGED <<cacheVars, intake, work, pool, replies, strays>>

(* The serve threads.                                                      *)

(* Thread i reads a reply.                                                 *)
Deliver(i, a, m) ==
  /\ a \in asks
  /\ m \in Upstream[a]
  /\ Receive(i, m)
  /\ asks' = IF Duplicates THEN asks ELSE asks \ {a}
  /\ forsaken' = IF Negative(m) THEN forsaken \cup {[q |-> m.q, t |-> m.t]}
                                ELSE forsaken
  /\ UNCHANGED <<intake, work, pool, replies, strays>>

Store(i) == Work(i) /\ UNCHANGED <<intake, work, rest>>

(* The goroutines for the requests that wait for a question, each with the *)
(* data set of the reply.                                                  *)
Woken(key, ds) ==
  [d \in {Started(n, ds) : n \in DOMAIN Waiting(key)} |-> Waiting(key)[d.node]]

\* Mutation: the requests stay in the table.
WakeKeeping(i) ==
  /\ Finish(i)
  /\ LET key == [q |-> msg[i].q, t |-> msg[i].t]
     IN  doits' = doits (+) Woken(key, msg[i].rrs)
  /\ UNCHANGED <<intake, tails, table, rest>>

(* All requests that wait for the question of the reply are taken out of   *)
(* the table, and each gets a goroutine and the data set of the reply.     *)
Wake(i) ==
  /\ Finish(i)
  /\ LET key == [q |-> msg[i].q, t |-> msg[i].t]
     IN  /\ doits' = doits (+) Woken(key, msg[i].rrs)
         /\ table' = Delete(table, key)
  /\ UNCHANGED <<intake, tails, rest>>

-----------------------------------------------------------------------------
Doit(d) ==
  \/ GiveUp(d)
  \/ Overflow(d)
  \/ AnswerClient(d)
  \/ AskServer(d)
  \/ Search(d)
  \/ Walk(d)
  \/ Lost(d)
  \/ \E v \in LookedUp(d) : FollowAlias(d, v) \/ NoAlias(d, v)
  \/ FindAddresses(d)
  \/ Register(d)

Finishing(s) == Send(s) \/ \E v \in s.left : SeekServer(s, v)

Serve(i) ==
  \/ \E a \in asks : \E m \in Upstream[a] : Deliver(i, a, m)
  \/ Store(i)
  \/ Wake(i)

(* Everything but the arrival of new queries and the loss of datagrams.    *)
System ==
  \/ \E n \in sending : Enqueue(n)
  \/ Worker
  \/ \E d \in BagToSet(doits) : Doit(d)
  \/ \E s \in BagToSet(tails) : Finishing(s)
  \/ \E i \in Threads : Serve(i)

Next ==
  \/ \E c \in Clients : Refuse(c) \/ Accept(c)
  \/ \E a \in asks : Lose(a)
  \/ System

Spec == Init /\ [][Next]_vars

(* Fairness: the scheduler runs some goroutine that can run, and a         *)
(* question under way is answered in the end.  Nothing obliges a client    *)
(* to ask.                                                                 *)
FairSpec == Spec /\ WF_vars(System)

-----------------------------------------------------------------------------
(* Type correctness of the resolver's own state.                           *)
IsBagOf(B, S) == IsABag(B) /\ DOMAIN B \subseteq S

Task == [node : Node, ds : SUBSET RR, pc : {"begin", "walk", "addrs", "alias", "geta"},
         at : Names, ns : SUBSET Names, left : SUBSET Names, ips : SUBSET Addrs]

TailTask == [key : Question, ips : SUBSET Addrs, left : SUBSET Names]

Leftover == [req : Clients \cup {NoReq}, last : Question \cup {NoLast},
             retrys : 0..MaxRetrys + 1, cns : Seq(RR)]

(* The tables keep a request under its own question.                       *)
IsTable(f) ==
  /\ DOMAIN f \subseteq {key \in Question : Tracked(key)}
  /\ \A key \in DOMAIN f : IsBagOf(f[key], {n \in Node : KeyOf(n) = key})

RequestsTypeOK ==
  /\ fate \in [Clients -> {"idle", "refused", "live", "answered", "abandoned"}]
  /\ sending \subseteq Node
  /\ chan \in Seq(Node)
  /\ IsBagOf(doits, Task)
  /\ IsBagOf(tails, TailTask)
  /\ IsTable(table)
  /\ IsBagOf(pool, Leftover)
  /\ asks \subseteq Ask
  /\ replies \in [Clients -> Seq([cns : Seq(RR), way : Seq(RR), rrs : SUBSET RR])]
  /\ strays \subseteq [to : Clients, cns : Seq(RR), rrs : SUBSET RR]
  /\ forsaken \subseteq Question

TypeOK == CacheTypeOK /\ RequestsTypeOK

-----------------------------------------------------------------------------
(* The copies of the members of S that a bag holds, told apart by number.  *)
Copies(B, S) == UNION {{x} \X (1..B[x]) : x \in S \cap DOMAIN B}

(* The request made for the query of c.                                    *)
IsOf(n, c) == n.made = "query" /\ n.req = c

(* Where copies of it are: with a goroutine that wants to send it, in the  *)
(* channel, with a Doit goroutine, or in a table.                          *)
Places(c) ==
  LET Mine(ns) == {n \in ns : IsOf(n, c)}
  IN  ({"sending"} \X Mine(sending))
        \cup ({"chan"} \X {i \in DOMAIN chan : IsOf(chan[i], c)})
        \cup ({"doits"} \X Copies(doits, {d \in DOMAIN doits : IsOf(d.node, c)}))
        \cup ({"table"} \X UNION {{key} \X Copies(table[key], Mine(DOMAIN table[key])) :
                                    key \in DOMAIN table})

(* A query that was let in and not yet settled is in exactly one place,    *)
(* and one that was answered or dropped is nowhere: handing a request from *)
(* goroutine to table and from table to goroutine neither loses nor copies *)
(* it, so that it answers its client once.                                 *)
OnePlace ==
  \A c \in Clients :
    IF fate[c] = "live" THEN \E p \in Places(c) : Places(c) = {p}
                        ELSE Places(c) = {}

(* The questions about which something will still happen: one that is      *)
(* under way to a server, that a thread has a reply to, that a goroutine   *)
(* is about to send, or for which a goroutine looks up the address of a    *)
(* server.  The forsaken ones are set apart: nothing will wake them.       *)
Stirring ==
  {[q |-> a.q, t |-> a.t] : a \in asks}
    \cup {[q |-> msg[i].q, t |-> msg[i].t] : i \in {j \in Threads : msg[j] # NoMsg}}
    \cup {s.key : s \in DOMAIN tails}
    \cup {d.node.last : d \in {e \in DOMAIN doits : e.node.made = "lookup"}}
    \cup forsaken

(* Some questions of the tables to which nothing leads: nothing stirs for  *)
(* them, and no other question has a lookup waiting that is for them.      *)
Asleep(keys) ==
  /\ keys \cap Stirring = {}
  /\ \A key \in DOMAIN table \ keys : \A n \in DOMAIN table[key] :
       n.made = "lookup" => n.last \notin keys

(* No lost wake-up: while the process lives, a client's request that waits *)
(* is only ever stranded by a negative reply, by the loss of a question,   *)
(* or by a lookup that found no address or told a client what it found.    *)
(* AddQuestion comes before the first send, so no reply can slip by.       *)
NoLostWakeup ==
  up => \A keys \in SUBSET DOMAIN table :
          Asleep(keys) =>
            \A key \in keys : \A n \in DOMAIN table[key] : n.made = "lookup"

(* A request that a reply has woken finds in the cache what the reply      *)
(* brought: its zones are delegated and its servers have an entry, because *)
(* serve stores everything before it starts the goroutines.                *)
WokenAfterStore ==
  \A d \in DOMAIN doits :
    /\ ServersIn([rrs |-> d.ds]) \subseteq DOMAIN asets
    /\ DOMAIN LocalNS([rrs |-> d.ds]) \subseteq DOMAIN nssets

(* A record that answers a question of type t, from some reply or from the *)
(* hints.  The hints answer a question for an AAAA record with records     *)
(* that say they are of type A, because AddAAAA_str gives them this type.  *)
Answering(x, t) ==
  \/ /\ x.rt = t
     /\ \/ x \in Received
        \/ t = "A" /\ x.data \in Entry(HintA, x.name)
        \/ t = "NS" /\ x.data \in Entry(HintNS, x.name)
  \/ t = "AAAA" /\ x.rt = "A" /\ x.data \in Entry(HintAAAA, x.name)

(* What a correct answer to a client is: aliases from replies lead, one    *)
(* after the other, from the name it asked for to the name its records     *)
(* have, the records answer a question of its type, and, if the request    *)
(* had no aliases when it came out of the pool, the client is told just    *)
(* these aliases.                                                          *)
IsAnswer(c, r) ==
  /\ r.rrs # {}
  /\ IsChain(r.way, QuestionOf[c].q)
  /\ \A k \in DOMAIN r.way : r.way[k] \in RRof(Received, "CNAME")
  /\ \A x \in r.rrs : /\ x.name = EndOf(r.way, QuestionOf[c].q)
                      /\ Answering(x, QuestionOf[c].t)
  /\ Len(r.cns) <= Len(r.way) => r.cns = r.way

(* Whatever a client is told by its own request answers its own question.  *)
AnswersRight == \A c \in Clients : \A k \in DOMAIN replies[c] : IsAnswer(c, replies[c][k])

(* The resolver is an implementation of module Exchange: each query gets   *)
(* one right answer from the request made for it, or none.                 *)
Exch == INSTANCE Exchange WITH
          asked <- {c \in Clients : fate[c] # "idle"},
          told  <- replies

ExchangeSpec == Exch!Spec

(* A client is answered by the request made for its query and by no other: *)
(* the request Doit makes for the address of a nameserver is a new one, as *)
(* the line `var rn RequestNode`, left there as a comment, made it.        *)
OnlyOwnAnswers == strays = {}

(* A client is told records of the type it asked for.                      *)
TypesAsAsked ==
  \A c \in Clients : \A k \in DOMAIN replies[c] :
    \A x \in replies[c][k].rrs : x.rt = QuestionOf[c].t

(* In a network that answers, every query that was let in is answered: no  *)
(* goroutine, table or channel keeps it for ever.                          *)
EventuallyAnswered ==
  \A c \in Clients : (fate[c] = "live") ~> (fate[c] = "answered")

(* The same where replies are so many that a request may run into          *)
(* MaxRetrys: then the query is dropped, but it does not hang.             *)
EventuallySettled ==
  \A c \in Clients : (fate[c] = "live") ~> (fate[c] \in {"answered", "abandoned"})

(* The closest zone the cache has nameservers for, of those whose servers  *)
(* do not include the name itself; it is where Doit would ask for it.      *)
AboveIn(n, k) ==
  LET above[j \in 0..k] == IF j = 0 THEN n ELSE Parent[above[j - 1]] IN above[k]

Fertile(n, z) == Entry(nssets, z) # {} /\ n \notin Entry(nssets, z)

ZoneOf(n) ==
  LET ks == {k \in 0..Cardinality(Names) : Fertile(n, AboveIn(n, k))}
  IN  IF ks = {} THEN Root ELSE AboveIn(n, CHOOSE k \in ks : \A j \in ks : k <= j)

(* Nameservers in a circle: some zones have no server with an address, and *)
(* the addresses of their servers are to be asked for in these zones.      *)
Circular ==
  \E zones \in (SUBSET DOMAIN nssets) \ {{}} :
    \A z \in zones : \A v \in nssets[z] :
      Entry(asets, v) = {} /\ ZoneOf(v) \in zones

(* Aliases in a circle.                                                    *)
Looped ==
  \E names \in (SUBSET DOMAIN cnsets) \ {{}} : \A n \in names : cnsets[n] \in names

(* In a network that answers, four things can make a query hang: a denial, *)
(* nameservers in a circle, aliases of the cache in a circle, and the end  *)
(* of the process.  While none of them comes up, every query is answered,  *)
(* whatever the replies are and in whatever order they come.               *)
AnsweredUnlessCircular ==
  [](up /\ forsaken = {} /\ ~Circular /\ ~Looped) => EventuallyAnswered

(* What the sweeper in the comment of MInit was for, and TPoint is stamped *)
(* for: no question stays in the tables for ever, to shut out every later  *)
(* query for it.                                                           *)
QuestionsReleased ==
  \A key \in Question : (key \in DOMAIN table) ~> (key \notin DOMAIN table)
=============================================================================
