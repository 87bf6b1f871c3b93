------------------------------ MODULE PlaceProofs ------------------------------
(***************************************************************************)
(* Where the request of a client is: in one place while it lives, and      *)
(* nowhere before and after, for any number of clients, threads and names  *)
(* and whatever the nameservers reply.                                     *)
(***************************************************************************)
EXTENDS WakeupProofs

(* The request made for a client's query, and the tasks of Doit with it.   *)
NodesFor(c) == {n \in Node : IsOf(n, c)}
TasksFor(c) == {d \in Task : IsOf(d.node, c)}

(* A bag without a member in M, and one with a single member in M, once.   *)
Free(B, M) == DOMAIN B \cap M = {}
Sole(B, M) == \E x \in M : DOMAIN B \cap M = {x} /\ B[x] = 1

-----------------------------------------------------------------------------
(* Adding to a bag.                                                        *)
LEMMA AddedOther ==
  ASSUME NEW B, NEW M, NEW x, x \notin M
  PROVE  /\ Free(B, M) => Free(BagAdd(B, x), M)
         /\ Sole(B, M) => Sole(BagAdd(B, x), M)
<1>1. DOMAIN BagAdd(B, x) = DOMAIN B \cup {x}
  BY MembersAdded
<1>2. \A y \in DOMAIN B \ {x} : BagAdd(B, x)[y] = B[y]
  BY DEF BagAdd
<1>. QED
  BY <1>1, <1>2 DEF Free, Sole

(* A member of M that is put into a bag without any is the only one.       *)
LEMMA AddedOwn ==
  ASSUME NEW B, NEW M, NEW x \in M, Free(B, M)
  PROVE  Sole(BagAdd(B, x), M)
<1>1. DOMAIN BagAdd(B, x) = DOMAIN B \cup {x}
  BY MembersAdded
<1>2. BagAdd(B, x)[x] = 1
  BY DEF BagAdd, Free
<1>. QED
  BY <1>1, <1>2 DEF Free, Sole

(* Removing from a bag.                                                    *)
LEMMA RemovedOther ==
  ASSUME NEW B, NEW M, NEW x, x \notin M
  PROVE  /\ Free(B, M) => Free(BagRemove(B, x), M)
         /\ Sole(B, M) => Sole(BagRemove(B, x), M)
<1>1. /\ DOMAIN B \ {x} \subseteq DOMAIN BagRemove(B, x)
      /\ DOMAIN BagRemove(B, x) \subseteq DOMAIN B
  BY MembersRemoved
<1>2. \A y \in DOMAIN B \ {x} : BagRemove(B, x)[y] = B[y]
  BY DEF BagRemove
<1>. QED
  BY <1>1, <1>2 DEF Free, Sole

(* Taking the only member of M out leaves none.                            *)
LEMMA RemovedOwn ==
  ASSUME NEW B, NEW M, NEW x \in M, x \in DOMAIN B, Sole(B, M)
  PROVE  Free(BagRemove(B, x), M)
<1>1. B[x] = 1 /\ DOMAIN B \cap M = {x}
  BY DEF Sole
<1>2. DOMAIN BagRemove(B, x) = DOMAIN B \ {x}
  BY <1>1 DEF BagRemove
<1>. QED
  BY <1>1, <1>2 DEF Free

(* Joining two bags.                                                       *)
LEMMA JoinedBags ==
  ASSUME NEW B, NEW C, NEW M
  PROVE  /\ Free(B, M) /\ Free(C, M) => Free(B (+) C, M)
         /\ Sole(B, M) /\ Free(C, M) => Sole(B (+) C, M)
         /\ Free(B, M) /\ Sole(C, M) => Sole(B (+) C, M)
<1>1. DOMAIN (B (+) C) = DOMAIN B \cup DOMAIN C
  BY MembersJoined
<1>2. \A x \in DOMAIN B \ DOMAIN C : (B (+) C)[x] = B[x] + 0
  BY DEF (+)
<1>3. \A x \in DOMAIN C \ DOMAIN B : (B (+) C)[x] = 0 + C[x]
  BY DEF (+)
<1>4. CASE Free(B, M) /\ Free(C, M)
  BY <1>1, <1>4 DEF Free, Sole
<1>5. CASE Sole(B, M) /\ Free(C, M)
  BY <1>1, <1>2, <1>5 DEF Free, Sole
<1>6. CASE Free(B, M) /\ Sole(C, M)
  BY <1>1, <1>3, <1>6 DEF Free, Sole
<1>. QED
  BY <1>4, <1>5, <1>6

-----------------------------------------------------------------------------
(* The requests of a client in each of the four places: none, or just one. *)
SendFree(c) == sending \cap NodesFor(c) = {}
SendSole(c) == \E n \in NodesFor(c) : sending \cap NodesFor(c) = {n}
ChanFree(c) == \A k \in DOMAIN chan : ~IsOf(chan[k], c)
ChanSole(c) == \E k \in DOMAIN chan : \A j \in DOMAIN chan : IsOf(chan[j], c) <=> j = k
DoitFree(c) == Free(doits, TasksFor(c))
DoitSole(c) == Sole(doits, TasksFor(c))
TableFree(c) == \A key \in DOMAIN table : Free(table[key], NodesFor(c))
TableSole(c) ==
  \E key \in DOMAIN table :
    /\ Sole(table[key], NodesFor(c))
    /\ \A k \in DOMAIN table \ {key} : Free(table[k], NodesFor(c))

Absent(c) == SendFree(c) /\ ChanFree(c) /\ DoitFree(c) /\ TableFree(c)
InSend(c) == SendSole(c) /\ ChanFree(c) /\ DoitFree(c) /\ TableFree(c)
InChan(c) == SendFree(c) /\ ChanSole(c) /\ DoitFree(c) /\ TableFree(c)
InDoit(c) == SendFree(c) /\ ChanFree(c) /\ DoitSole(c) /\ TableFree(c)
InTable(c) == SendFree(c) /\ ChanFree(c) /\ DoitFree(c) /\ TableSole(c)

(* A live request is in one of them, and any other in none.                *)
Placed(c) ==
  IF fate[c] = "live" THEN InSend(c) \/ InChan(c) \/ InDoit(c) \/ InTable(c)
                      ELSE Absent(c)

(* A step that leaves the requests of a client where they are.             *)
LEMMA Unmoved ==
  ASSUME NEW c, Placed(c), fate'[c] = "live" <=> fate[c] = "live",
         SendFree(c) => SendFree(c)', SendSole(c) => SendSole(c)',
         ChanFree(c) => ChanFree(c)', ChanSole(c) => ChanSole(c)',
         DoitFree(c) => DoitFree(c)', DoitSole(c) => DoitSole(c)',
         TableFree(c) => TableFree(c)', TableSole(c) => TableSole(c)'
  PROVE  Placed(c)'
BY DEF Placed, Absent, InSend, InChan, InDoit, InTable

(* Requests elsewhere are not disturbed where nothing changes.             *)
LEMMA SendQuiet ==
  ASSUME NEW c, sending' = sending
  PROVE  (SendFree(c) => SendFree(c)') /\ (SendSole(c) => SendSole(c)')
BY DEF SendFree, SendSole

(* The same for the channel,                                               *)
LEMMA ChanQuiet ==
  ASSUME NEW c, chan' = chan
  PROVE  (ChanFree(c) => ChanFree(c)') /\ (ChanSole(c) => ChanSole(c)')
BY DEF ChanFree, ChanSole

(* for the goroutines                                                      *)
LEMMA DoitQuiet ==
  ASSUME NEW c, doits' = doits
  PROVE  (DoitFree(c) => DoitFree(c)') /\ (DoitSole(c) => DoitSole(c)')
BY DEF DoitFree, DoitSole

(* and for the tables.                                                     *)
LEMMA TableQuiet ==
  ASSUME NEW c, table' = table
  PROVE  (TableFree(c) => TableFree(c)') /\ (TableSole(c) => TableSole(c)')
BY DEF TableFree, TableSole

-----------------------------------------------------------------------------
(* What AddQuestion makes of a table, when the request is tracked.         *)
LEMMA AddedTable ==
  ASSUME NEW n, Tracked(KeyOf(n)), table' = AddQuestion(n)
  PROVE  /\ DOMAIN table' = DOMAIN table \cup {KeyOf(n)}
         /\ table'[KeyOf(n)] = BagAdd(Waiting(KeyOf(n)), n)
         /\ \A k \in DOMAIN table \ {KeyOf(n)} : table'[k] = table[k]
BY DEF AddQuestion, Put

(* A question without a table entry has no request waiting.                *)
LEMMA WaitingIn ==
  ASSUME NEW key, NEW M
  PROVE  /\ key \in DOMAIN table => Waiting(key) = table[key]
         /\ key \notin DOMAIN table => Free(Waiting(key), M)
<1>1. DOMAIN EmptyBag = {}
  BY DEF EmptyBag, SetToBag
<1>. QED
  BY <1>1 DEF Waiting, Free

(* Adding another's request to a table leaves a client's where it is.      *)
LEMMA TableOther ==
  ASSUME NEW c, NEW n, n \notin NodesFor(c), table' = AddQuestion(n)
  PROVE  (TableFree(c) => TableFree(c)') /\ (TableSole(c) => TableSole(c)')
<1>. DEFINE key == KeyOf(n)
            M   == NodesFor(c)
<1>1. CASE ~Tracked(key)
  BY <1>1, TableQuiet DEF AddQuestion
<1>2. CASE Tracked(key)
  <2>1. /\ DOMAIN table' = DOMAIN table \cup {key}
        /\ table'[key] = BagAdd(Waiting(key), n)
        /\ \A k \in DOMAIN table \ {key} : table'[k] = table[k]
    BY <1>2, AddedTable
  <2>2. /\ Free(Waiting(key), M) => Free(table'[key], M)
        /\ Sole(Waiting(key), M) => Sole(table'[key], M)
    BY <2>1, AddedOther
  <2>3. /\ key \in DOMAIN table => Waiting(key) = table[key]
        /\ key \notin DOMAIN table => Free(Waiting(key), M)
    BY WaitingIn
  <2>. HIDE DEF key, M
  <2>4. ASSUME TableFree(c) PROVE TableFree(c)'
    <3>1. \A k \in DOMAIN table : Free(table[k], M)
      BY <2>4 DEF TableFree, M
    <3>2. \A k \in DOMAIN table' : Free(table'[k], M)
      BY <2>1, <2>2, <2>3, <3>1
    <3>. QED
      BY <3>2 DEF TableFree, M
  <2>5. ASSUME TableSole(c) PROVE TableSole(c)'
    <3>1. PICK k \in DOMAIN table :
            Sole(table[k], M) /\ \A l \in DOMAIN table \ {k} : Free(table[l], M)
      BY <2>5 DEF TableSole, M
    <3>2. /\ k \in DOMAIN table'
          /\ Sole(table'[k], M)
          /\ \A l \in DOMAIN table' \ {k} : Free(table'[l], M)
      BY <2>1, <2>2, <2>3, <3>1
    <3>. QED
      BY <3>2 DEF TableSole, M
  <2>. QED
    BY <2>4, <2>5
<1>. QED
  BY <1>1, <1>2

(* A client's request that AddQuestion puts into a table is there once.    *)
LEMMA TableOwn ==
  ASSUME NEW c, NEW n \in NodesFor(c), Tracked(KeyOf(n)), TableFree(c),
         table' = AddQuestion(n)
  PROVE  TableSole(c)'
<1>. DEFINE key == KeyOf(n)
            M   == NodesFor(c)
<1>1. /\ DOMAIN table' = DOMAIN table \cup {key}
      /\ table'[key] = BagAdd(Waiting(key), n)
      /\ \A k \in DOMAIN table \ {key} : table'[k] = table[k]
  BY AddedTable
<1>2. Free(Waiting(key), M)
  BY WaitingIn DEF TableFree
<1>3. Sole(table'[key], M)
  BY <1>1, <1>2, AddedOwn
<1>. QED
  BY <1>1, <1>3 DEF TableFree, TableSole

(* The requests of a question that are taken out of the table are no       *)
(* longer in it; the others are.                                           *)
LEMMA TableTaken ==
  ASSUME NEW c, NEW key, table' = Delete(table, key)
  PROVE  /\ TableFree(c) => TableFree(c)' /\ Free(Waiting(key), NodesFor(c))
         /\ TableSole(c) => \/ TableSole(c)' /\ Free(Waiting(key), NodesFor(c))
                            \/ TableFree(c)' /\ Sole(Waiting(key), NodesFor(c))
<1>. DEFINE M == NodesFor(c)
<1>1. /\ DOMAIN table' = DOMAIN table \ {key}
      /\ \A k \in DOMAIN table' : table'[k] = table[k]
  BY DeleteKey
<1>2. /\ key \in DOMAIN table => Waiting(key) = table[key]
      /\ key \notin DOMAIN table => Free(Waiting(key), M)
  BY WaitingIn
<1>. HIDE DEF M
<1>3. ASSUME TableFree(c) PROVE TableFree(c)' /\ Free(Waiting(key), M)
  BY <1>1, <1>2, <1>3 DEF TableFree, M
<1>4. ASSUME TableSole(c)
      PROVE  \/ TableSole(c)' /\ Free(Waiting(key), M)
             \/ TableFree(c)' /\ Sole(Waiting(key), M)
  <2>1. PICK k \in DOMAIN table :
          Sole(table[k], M) /\ \A l \in DOMAIN table \ {k} : Free(table[l], M)
    BY <1>4 DEF TableSole, M
  <2>2. CASE k = key
    <3>1. \A l \in DOMAIN table' : Free(table'[l], M)
      BY <1>1, <2>1, <2>2
    <3>. QED
      BY <1>2, <2>1, <2>2, <3>1 DEF TableFree, M
  <2>3. CASE k # key
    <3>1. /\ k \in DOMAIN table'
          /\ Sole(table'[k], M)
          /\ \A l \in DOMAIN table' \ {k} : Free(table'[l], M)
      BY <1>1, <2>1, <2>3
    <3>2. Free(Waiting(key), M)
      BY <1>2, <2>1, <2>3
    <3>. QED
      BY <3>1, <3>2 DEF TableSole, M
  <2>. QED
    BY <2>2, <2>3
<1>. QED
  BY <1>3, <1>4 DEF M

(* The goroutines that Wake starts hold the requests that waited.          *)
LEMMA WokenOf ==
  ASSUME NEW c, NEW key, NEW ds \in SUBSET RR
  PROVE  /\ Free(Waiting(key), NodesFor(c)) => Free(Woken(key, ds), TasksFor(c))
         /\ Sole(Waiting(key), NodesFor(c)) => Sole(Woken(key, ds), TasksFor(c))
<1>1. DOMAIN Woken(key, ds) = {Started(n, ds) : n \in DOMAIN Waiting(key)}
  BY MembersWoken
<1>2. \A n : Started(n, ds).node = n
  BY DEF Started
<1>3. \A n \in Node : Started(n, ds) \in Task
  BY StartedTask
<1>4. \A d \in DOMAIN Woken(key, ds) : Woken(key, ds)[d] = Waiting(key)[d.node]
  BY DEF Woken
<1>5. \A d \in TasksFor(c) : d.node \in NodesFor(c)
  BY DEF TasksFor, NodesFor, Task
<1>6. \A n \in NodesFor(c) : Started(n, ds) \in TasksFor(c)
  BY <1>2, <1>3 DEF TasksFor, NodesFor
<1>7. ASSUME Free(Waiting(key), NodesFor(c))
      PROVE  Free(Woken(key, ds), TasksFor(c))
  BY <1>1, <1>2, <1>5, <1>7 DEF Free
<1>8. ASSUME Sole(Waiting(key), NodesFor(c))
      PROVE  Sole(Woken(key, ds), TasksFor(c))
  <2>1. PICK n \in NodesFor(c) :
          DOMAIN Waiting(key) \cap NodesFor(c) = {n} /\ Waiting(key)[n] = 1
    BY <1>8 DEF Sole
  <2>2. Started(n, ds) \in DOMAIN Woken(key, ds)
    BY <1>1, <2>1
  <2>3. Woken(key, ds)[Started(n, ds)] = 1
    BY <1>2, <1>4, <2>1, <2>2
  <2>4. DOMAIN Woken(key, ds) \cap TasksFor(c) = {Started(n, ds)}
    BY <1>1, <1>2, <1>5, <1>6, <2>1
  <2>. QED
    BY <1>6, <2>1, <2>3, <2>4 DEF Sole
<1>. QED
  BY <1>7, <1>8

-----------------------------------------------------------------------------
(* recursion: a query that is let in is with one goroutine.                *)
LEMMA IntakePlaces ==
  ASSUME RequestsTypeOK, RequestsTypeOK',
         NEW c \in Clients, Refuse(c) \/ Accept(c), NEW b \in Clients, Placed(b)
  PROVE  Placed(b)'
<1>. USE ChanQuiet, DoitQuiet, TableQuiet
<1>1. CASE Refuse(c)
  <2>1. fate'[b] = "live" <=> fate[b] = "live"
    BY <1>1 DEF Refuse, RequestsTypeOK
  <2>2. UNCHANGED <<sending, chan, doits, table>>
    BY <1>1 DEF Refuse, work
  <2>. QED
    BY <2>1, <2>2, SendQuiet, Unmoved
<1>2. CASE Accept(c)
  <2>1. PICK n : /\ sending' = sending \cup {n}
                 /\ n.made = "query" /\ n.req = c
    BY <1>2 DEF Accept
  <2>2. UNCHANGED <<chan, doits, table>>
    BY <1>2 DEF Accept, work
  <2>3. n \in Node /\ IsOf(n, c) /\ \A a \in Clients \ {c} : ~IsOf(n, a)
    BY <2>1 DEF RequestsTypeOK, IsOf
  <2>4. CASE b = c
    <3>1. Absent(b) /\ fate'[b] = "live"
      BY <1>2, <2>4 DEF Accept, Placed, RequestsTypeOK
    <3>2. SendSole(b)'
      BY <2>1, <2>3, <2>4, <3>1 DEF Absent, SendFree, SendSole, NodesFor
    <3>. QED
      BY <2>2, <3>1, <3>2 DEF Absent, Placed, InSend
  <2>5. CASE b # c
    <3>1. sending' \cap NodesFor(b) = sending \cap NodesFor(b)
      BY <2>1, <2>3, <2>5 DEF NodesFor
    <3>2. (SendFree(b) => SendFree(b)') /\ (SendSole(b) => SendSole(b)')
      BY <3>1 DEF SendFree, SendSole
    <3>3. fate'[b] = fate[b]
      BY <1>2, <2>5 DEF Accept, RequestsTypeOK
    <3>. QED
      BY <2>2, <3>2, <3>3, Unmoved
  <2>. QED
    BY <2>4, <2>5
<1>. QED
  BY <1>1, <1>2

(* A request goes from the goroutine of recursion into RNChan.             *)
LEMMA EnqueuePlaces ==
  ASSUME RequestsTypeOK, NEW n \in sending, Enqueue(n), NEW b \in Clients, Placed(b)
  PROVE  Placed(b)'
<1>1. /\ n \in Node /\ chan \in Seq(Node)
      /\ chan' = Append(chan, n) /\ sending' = sending \ {n}
      /\ UNCHANGED <<fate, doits, table>>
  BY DEF Enqueue, RequestsTypeOK, work
<1>2. /\ DOMAIN chan' = DOMAIN chan \cup {Len(chan) + 1}
      /\ Len(chan) + 1 \notin DOMAIN chan
      /\ chan'[Len(chan) + 1] = n
      /\ \A k \in DOMAIN chan : chan'[k] = chan[k]
  BY <1>1
<1>3. CASE IsOf(n, b)
  <2>1. n \in NodesFor(b)
    BY <1>1, <1>3 DEF NodesFor
  <2>2. InSend(b) /\ fate[b] = "live"
    BY <2>1 DEF Placed, Absent, InSend, InChan, InDoit, InTable, SendFree
  <2>3. SendFree(b)'
    BY <1>1, <2>1, <2>2 DEF InSend, SendSole, SendFree
  <2>4. ChanSole(b)'
    BY <1>2, <1>3, <2>2 DEF InSend, ChanFree, ChanSole
  <2>. QED
    BY <1>1, <2>2, <2>3, <2>4, DoitQuiet, TableQuiet DEF InSend, InChan, Placed
<1>4. CASE ~IsOf(n, b)
  <2>1. sending' \cap NodesFor(b) = sending \cap NodesFor(b)
    BY <1>1, <1>4 DEF NodesFor
  <2>2. (SendFree(b) => SendFree(b)') /\ (SendSole(b) => SendSole(b)')
    BY <2>1 DEF SendFree, SendSole
  <2>3. (ChanFree(b) => ChanFree(b)') /\ (ChanSole(b) => ChanSole(b)')
    BY <1>2, <1>4 DEF ChanFree, ChanSole
  <2>. QED
    BY <1>1, <2>2, <2>3, DoitQuiet, TableQuiet, Unmoved
<1>. QED
  BY <1>3, <1>4

(* A request goes from RNChan to a Doit goroutine.                         *)
LEMMA WorkerPlaces ==
  ASSUME RequestsTypeOK, Worker, NEW b \in Clients, Placed(b)
  PROVE  Placed(b)'
<1>. DEFINE n == chan[1]
            d == Started(n, {})
<1>1. /\ chan \in Seq(Node) /\ chan # <<>> /\ n \in Node
      /\ doits' = BagAdd(doits, d) /\ chan' = Tail(chan)
      /\ UNCHANGED <<fate, sending, table>>
  BY DEF Worker, RequestsTypeOK
<1>2. /\ 1 \in DOMAIN chan
      /\ \A k : k \in DOMAIN chan' <=> k \in Nat /\ k # 0 /\ k + 1 \in DOMAIN chan
      /\ \A k \in DOMAIN chan' : chan'[k] = chan[k + 1]
      /\ \A k \in DOMAIN chan : k = 1 \/ k - 1 \in DOMAIN chan'
      /\ \A k \in DOMAIN chan : k \in Nat
  BY <1>1
<1>3. d \in Task /\ d.node = n
  BY <1>1, StartedTask DEF Started
<1>. HIDE DEF d
<1>4. CASE IsOf(n, b)
  <2>1. d \in TasksFor(b)
    BY <1>3, <1>4 DEF TasksFor
  <2>2. InChan(b) /\ fate[b] = "live"
    BY <1>2, <1>4 DEF Placed, Absent, InSend, InChan, InDoit, InTable, ChanFree
  <2>3. ChanFree(b)'
    BY <1>2, <1>4, <2>2 DEF InChan, ChanSole, ChanFree
  <2>4. DoitSole(b)'
    BY <1>1, <2>1, <2>2, AddedOwn DEF InChan, DoitFree, DoitSole
  <2>. QED
    BY <1>1, <2>2, <2>3, <2>4, SendQuiet, TableQuiet DEF InChan, InDoit, Placed
<1>5. CASE ~IsOf(n, b)
  <2>1. d \notin TasksFor(b)
    BY <1>3, <1>5 DEF TasksFor
  <2>2. (DoitFree(b) => DoitFree(b)') /\ (DoitSole(b) => DoitSole(b)')
    BY <1>1, <2>1, AddedOther DEF DoitFree, DoitSole
  <2>3. ChanFree(b) => ChanFree(b)'
    BY <1>2 DEF ChanFree
  <2>4. ChanSole(b) => ChanSole(b)'
    <3>. SUFFICES ASSUME ChanSole(b) PROVE ChanSole(b)'
      OBVIOUS
    <3>1. PICK k \in DOMAIN chan : \A j \in DOMAIN chan : IsOf(chan[j], b) <=> j = k
      BY DEF ChanSole
    <3>2. k # 1 /\ k - 1 \in DOMAIN chan'
      BY <1>2, <1>5, <3>1
    <3>3. \A j \in DOMAIN chan' : IsOf(chan'[j], b) <=> j = k - 1
      BY <1>2, <3>1
    <3>. QED
      BY <3>2, <3>3 DEF ChanSole
  <2>. QED
    BY <1>1, <2>2, <2>3, <2>4, SendQuiet, TableQuiet, Unmoved
<1>. QED
  BY <1>4, <1>5

-----------------------------------------------------------------------------
(* Doit goes on with a request: it stays where it is.                      *)
LEMMA GoesOnPlaces ==
  ASSUME RequestsTypeOK, RequestsTypeOK', NEW d \in DOMAIN doits, GoesOn(d),
         NEW b \in Clients, Placed(b)
  PROVE  Placed(b)'
<1>1. d \in Task
  BY DEF RequestsTypeOK, IsBagOf
<1>2. PICK e : /\ doits' = BagAdd(BagRemove(doits, d), e)
               /\ IsOf(e.node, b) <=> IsOf(d.node, b)
               /\ UNCHANGED <<intake, table>>
  BY <1>1, GoingOn DEF IsOf
<1>3. e \in Task
  <2>1. e \in DOMAIN doits'
    BY <1>2, MembersReplaced
  <2>. QED
    BY <2>1 DEF RequestsTypeOK, IsBagOf
<1>4. (DoitFree(b) => DoitFree(b)') /\ (DoitSole(b) => DoitSole(b)')
  <2>1. CASE IsOf(d.node, b)
    <3>1. d \in TasksFor(b) /\ e \in TasksFor(b)
      BY <1>1, <1>2, <1>3, <2>1 DEF TasksFor
    <3>2. ~DoitFree(b)
      BY <3>1 DEF DoitFree, Free
    <3>3. ASSUME DoitSole(b) PROVE DoitSole(b)'
      <4>1. Free(BagRemove(doits, d), TasksFor(b))
        BY <3>1, <3>3, RemovedOwn DEF DoitSole
      <4>. QED
        BY <1>2, <3>1, <4>1, AddedOwn DEF DoitSole
    <3>. QED
      BY <3>2, <3>3
  <2>2. CASE ~IsOf(d.node, b)
    <3>1. d \notin TasksFor(b) /\ e \notin TasksFor(b)
      BY <1>2, <2>2 DEF TasksFor
    <3>2. /\ DoitFree(b) => Free(BagRemove(doits, d), TasksFor(b))
          /\ DoitSole(b) => Sole(BagRemove(doits, d), TasksFor(b))
      BY <3>1, RemovedOther DEF DoitFree, DoitSole
    <3>3. /\ Free(BagRemove(doits, d), TasksFor(b)) => DoitFree(b)'
          /\ Sole(BagRemove(doits, d), TasksFor(b)) => DoitSole(b)'
      BY <1>2, <3>1, AddedOther DEF DoitFree, DoitSole
    <3>. QED
      BY <3>2, <3>3
  <2>. QED
    BY <2>1, <2>2
<1>. QED
  BY <1>2, <1>4, SendQuiet, ChanQuiet, TableQuiet, Unmoved DEF intake

(* The request of a goroutine that drops it is no longer anywhere; the     *)
(* others stay where they are.                                             *)
LEMMA Dropped ==
  ASSUME RequestsTypeOK, NEW d \in DOMAIN doits, NEW b \in Clients, Placed(b),
         doits' = BagRemove(doits, d), UNCHANGED <<sending, chan>>
  PROVE  /\ IsOf(d.node, b) => /\ fate[b] = "live"
                               /\ InDoit(b)
                               /\ table' = table => Absent(b)'
                               /\ TableSole(b)' => InTable(b)'
         /\ ~IsOf(d.node, b) => /\ DoitFree(b) => DoitFree(b)'
                                /\ DoitSole(b) => DoitSole(b)'
<1>1. d \in Task
  BY DEF RequestsTypeOK, IsBagOf
<1>2. ASSUME IsOf(d.node, b)
      PROVE  /\ fate[b] = "live" /\ InDoit(b)
             /\ SendFree(b)' /\ ChanFree(b)' /\ DoitFree(b)'
  <2>1. d \in TasksFor(b)
    BY <1>1, <1>2 DEF TasksFor
  <2>2. ~DoitFree(b)
    BY <2>1 DEF DoitFree, Free
  <2>3. fate[b] = "live" /\ InDoit(b)
    BY <2>2 DEF Placed, Absent, InSend, InChan, InDoit, InTable
  <2>4. DoitFree(b)'
    BY <2>1, <2>3, RemovedOwn DEF InDoit, DoitSole, DoitFree
  <2>. QED
    BY <2>3, <2>4, SendQuiet, ChanQuiet DEF InDoit
<1>3. ASSUME ~IsOf(d.node, b)
      PROVE  (DoitFree(b) => DoitFree(b)') /\ (DoitSole(b) => DoitSole(b)')
  <2>1. d \notin TasksFor(b)
    BY <1>3 DEF TasksFor
  <2>. QED
    BY <2>1, RemovedOther DEF DoitFree, DoitSole
<1>4. ASSUME IsOf(d.node, b), table' = table PROVE Absent(b)'
  BY <1>2, <1>4, TableQuiet DEF InDoit, Absent
<1>5. ASSUME IsOf(d.node, b), TableSole(b)' PROVE InTable(b)'
  BY <1>2, <1>5 DEF InTable
<1>. QED
  BY <1>2, <1>3, <1>4, <1>5

(* Doit is through with a request: it has answered its client, asked a     *)
(* server, or given up.                                                    *)
LEMMA EndPlaces ==
  ASSUME RequestsTypeOK, NEW d \in DOMAIN doits,
         GiveUp(d) \/ AnswerClient(d) \/ AskServer(d) \/ Lost(d),
         NEW b \in Clients, Placed(b)
  PROVE  Placed(b)'
<1>1. doits' = BagRemove(doits, d) /\ UNCHANGED <<sending, chan, table>>
  BY DEF GiveUp, AnswerClient, AskServer, Lost, intake
<1>2. d \in Task
  BY DEF RequestsTypeOK, IsBagOf
<1>3. CASE IsOf(d.node, b)
  <2>1. fate[b] = "live" /\ Absent(b)'
    BY <1>1, <1>3, Dropped
  <2>2. fate'[b] # "live"
    <3>1. CASE GiveUp(d) \/ Lost(d)
      BY <1>3, <2>1, <3>1 DEF GiveUp, Lost, Abandon, IsOf, RequestsTypeOK
    <3>2. CASE AnswerClient(d)
      <4>1. IsOf(Advanced(d), b)
        BY <1>2, <1>3, <3>2, TryingNode DEF AnswerClient, IsOf
      <4>2. fate' = Settled(Advanced(d))
        BY <3>2 DEF AnswerClient
      <4>. QED
        BY <2>1, <4>1, <4>2 DEF Settled, IsOf, RequestsTypeOK
    <3>3. CASE AskServer(d)
      BY <1>3, <3>3, ResolverAssumption DEF AskServer, IsOf
    <3>. QED
      BY <3>1, <3>2, <3>3
  <2>. QED
    BY <2>1, <2>2 DEF Placed
<1>4. CASE ~IsOf(d.node, b)
  <2>1. (DoitFree(b) => DoitFree(b)') /\ (DoitSole(b) => DoitSole(b)')
    BY <1>1, <1>4, Dropped
  <2>2. fate'[b] = fate[b]
    <3>1. CASE GiveUp(d) \/ Lost(d)
      BY <1>4, <3>1 DEF GiveUp, Lost, Abandon, IsOf, RequestsTypeOK
    <3>2. CASE AnswerClient(d)
      <4>1. ~IsOf(Advanced(d), b)
        BY <1>2, <1>4, <3>2, TryingNode DEF AnswerClient, IsOf
      <4>2. fate' = Settled(Advanced(d))
        BY <3>2 DEF AnswerClient
      <4>. QED
        BY <4>1, <4>2 DEF Settled, IsOf, RequestsTypeOK
    <3>3. CASE AskServer(d)
      BY <3>3 DEF AskServer, intake
    <3>. QED
      BY <3>1, <3>2, <3>3
  <2>. QED
    BY <1>1, <2>1, <2>2, SendQuiet, ChanQuiet, TableQuiet, Unmoved
<1>. QED
  BY <1>3, <1>4

(* Doit hands a request over to AddQuestion: it goes from the goroutine to *)
(* a table, or, when there is no table for its type, is dropped.           *)
LEMMA RegisterPlaces ==
  ASSUME RequestsTypeOK, NEW d \in DOMAIN doits, Register(d), NEW b \in Clients, Placed(b)
  PROVE  Placed(b)'
<1>1. /\ doits' = BagRemove(doits, d) /\ UNCHANGED <<sending, chan>>
      /\ table' = AddQuestion(d.node)
      /\ fate' = IF Tracked(KeyOf(d.node)) THEN fate ELSE Abandon(d.node)
  BY DEF Register
<1>2. d \in Task /\ d.node \in Node
  BY DEF RequestsTypeOK, IsBagOf, Task
<1>3. CASE IsOf(d.node, b)
  <2>1. d.node \in NodesFor(b)
    BY <1>2, <1>3 DEF NodesFor
  <2>2. CASE Tracked(KeyOf(d.node))
    <3>1. fate[b] = "live" /\ TableFree(b)
      BY <1>1, <1>3, Dropped DEF InDoit
    <3>2. TableSole(b)'
      BY <1>1, <2>1, <2>2, <3>1, TableOwn
    <3>3. InTable(b)'
      BY <1>1, <1>3, <3>2, Dropped
    <3>. QED
      BY <1>1, <2>2, <3>1, <3>3 DEF Placed
  <2>3. CASE ~Tracked(KeyOf(d.node))
    <3>1. table' = table
      BY <1>1, <2>3 DEF AddQuestion
    <3>2. fate[b] = "live" /\ Absent(b)'
      BY <1>1, <1>3, <3>1, Dropped
    <3>3. fate'[b] # "live"
      BY <1>1, <1>3, <2>3, <3>2 DEF Abandon, IsOf, RequestsTypeOK
    <3>. QED
      BY <3>2, <3>3 DEF Placed
  <2>. QED
    BY <2>2, <2>3
<1>4. CASE ~IsOf(d.node, b)
  <2>1. (DoitFree(b) => DoitFree(b)') /\ (DoitSole(b) => DoitSole(b)')
    BY <1>1, <1>4, Dropped
  <2>2. (TableFree(b) => TableFree(b)') /\ (TableSole(b) => TableSole(b)')
    BY <1>1, <1>4, TableOther DEF NodesFor
  <2>3. fate'[b] = fate[b]
    BY <1>1, <1>4 DEF Abandon, IsOf, RequestsTypeOK
  <2>. QED
    BY <1>1, <2>1, <2>2, <2>3, SendQuiet, ChanQuiet, Unmoved
<1>. QED
  BY <1>3, <1>4

-----------------------------------------------------------------------------
(* The goroutines that have handed their request over: the ones they make  *)
(* for addresses belong to no client.                                      *)
LEMMA FinishingPlaces ==
  ASSUME RequestsTypeOK, NEW s, Finishing(s), NEW b \in Clients, Placed(b)
  PROVE  Placed(b)'
<1>1. CASE Send(s)
  <2>1. UNCHANGED <<fate, sending, chan, doits, table>>
    BY <1>1 DEF Send, intake
  <2>. QED
    BY <2>1, SendQuiet, ChanQuiet, DoitQuiet, TableQuiet, Unmoved
<1>2. ASSUME NEW v, SeekServer(s, v) PROVE Placed(b)'
  <2>1. PICK n : /\ n.made = "lookup"
                 /\ table' = AddQuestion(n)
                 /\ doits' = BagAdd(doits, Started(n, {}))
    BY <1>2 DEF SeekServer
  <2>2. UNCHANGED <<fate, sending, chan>>
    BY <1>2 DEF SeekServer, intake
  <2>3. n \notin NodesFor(b) /\ Started(n, {}) \notin TasksFor(b)
    BY <2>1 DEF NodesFor, TasksFor, IsOf, Started
  <2>4. (DoitFree(b) => DoitFree(b)') /\ (DoitSole(b) => DoitSole(b)')
    BY <2>1, <2>3, AddedOther DEF DoitFree, DoitSole
  <2>5. (TableFree(b) => TableFree(b)') /\ (TableSole(b) => TableSole(b)')
    BY <2>1, <2>3, TableOther
  <2>. QED
    BY <2>2, <2>4, <2>5, SendQuiet, ChanQuiet, Unmoved
<1>. QED
  BY <1>1, <1>2 DEF Finishing

(* The serve threads: Wake takes requests from a table to goroutines.      *)
LEMMA ServePlaces ==
  ASSUME CacheTypeOK, RequestsTypeOK, NEW i \in Threads, Serve(i),
         NEW b \in Clients, Placed(b)
  PROVE  Placed(b)'
<1>1. CASE Wake(i)
  <2>1. PICK key : /\ doits' = doits (+) Woken(key, msg[i].rrs)
                   /\ table' = Delete(table, key)
    BY <1>1 DEF Wake
  <2>2. UNCHANGED <<fate, sending, chan>>
    BY <1>1 DEF Wake, intake
  <2>3. msg[i].rrs \in SUBSET RR
    BY <1>1, MessagesAssumption DEF Wake, Finish, CacheTypeOK, Message
  <2>. DEFINE W == Woken(key, msg[i].rrs)
  <2>4. /\ Free(Waiting(key), NodesFor(b)) => Free(W, TasksFor(b))
        /\ Sole(Waiting(key), NodesFor(b)) => Sole(W, TasksFor(b))
    BY <2>3, WokenOf
  <2>5. /\ Free(doits, TasksFor(b)) /\ Free(W, TasksFor(b)) => DoitFree(b)'
        /\ Sole(doits, TasksFor(b)) /\ Free(W, TasksFor(b)) => DoitSole(b)'
        /\ Free(doits, TasksFor(b)) /\ Sole(W, TasksFor(b)) => DoitSole(b)'
    BY <2>1, JoinedBags DEF DoitFree, DoitSole
  <2>. HIDE DEF W
  <2>6. /\ TableFree(b) => TableFree(b)' /\ Free(Waiting(key), NodesFor(b))
        /\ TableSole(b) => \/ TableSole(b)' /\ Free(Waiting(key), NodesFor(b))
                           \/ TableFree(b)' /\ Sole(Waiting(key), NodesFor(b))
    BY <2>1, TableTaken
  <2>7. CASE TableFree(b)
    <3>1. (DoitFree(b) => DoitFree(b)') /\ (DoitSole(b) => DoitSole(b)')
      BY <2>4, <2>5, <2>6, <2>7 DEF DoitFree, DoitSole
    <3>2. TableFree(b)'
      BY <2>6, <2>7
    <3>3. ~TableSole(b)
      BY <2>7 DEF TableFree, TableSole, Free, Sole
    <3>. QED
      BY <2>2, <3>1, <3>2, <3>3, SendQuiet, ChanQuiet, Unmoved
  <2>8. CASE ~TableFree(b)
    <3>1. fate[b] = "live" /\ InTable(b)
      BY <2>8 DEF Placed, Absent, InSend, InChan, InDoit, InTable
    <3>2. SendFree(b)' /\ ChanFree(b)'
      BY <2>2, <3>1, SendQuiet, ChanQuiet DEF InTable
    <3>3. CASE TableSole(b)' /\ Free(Waiting(key), NodesFor(b))
      BY <2>2, <2>4, <2>5, <3>1, <3>2, <3>3 DEF InTable, DoitFree, Placed
    <3>4. CASE TableFree(b)' /\ Sole(Waiting(key), NodesFor(b))
      BY <2>2, <2>4, <2>5, <3>1, <3>2, <3>4 DEF InTable, InDoit, DoitFree, Placed
    <3>. QED
      BY <2>6, <3>1, <3>3, <3>4 DEF InTable
  <2>. QED
    BY <2>7, <2>8
<1>2. CASE Store(i) \/ \E a \in asks : \E m \in Upstream[a] : Deliver(i, a, m)
  <2>1. UNCHANGED <<fate, sending, chan, doits, table>>
    BY <1>2 DEF Store, Deliver, intake, work
  <2>. QED
    BY <2>1, SendQuiet, ChanQuiet, DoitQuiet, TableQuiet, Unmoved
<1>. QED
  BY <1>1, <1>2 DEF Serve

(* Every step of the resolver leaves each client's request in one place.   *)
LEMMA PlacedStep ==
  ASSUME CacheTypeOK, RequestsTypeOK, RequestsTypeOK', [Next]_vars,
         NEW b \in Clients, Placed(b)
  PROVE  Placed(b)'
<1>1. ASSUME NEW c \in Clients, Refuse(c) \/ Accept(c) PROVE Placed(b)'
  BY <1>1, IntakePlaces
<1>2. ASSUME NEW n \in sending, Enqueue(n) PROVE Placed(b)'
  BY <1>2, EnqueuePlaces
<1>3. CASE Worker
  BY <1>3, WorkerPlaces
<1>4. ASSUME NEW d \in BagToSet(doits), Doit(d) PROVE Placed(b)'
  <2>1. d \in DOMAIN doits
    BY DEF BagToSet
  <2>2. CASE Overflow(d)
    <3>1. UNCHANGED <<fate, sending, chan, doits, table>>
      BY <2>2 DEF Overflow, intake, work
    <3>. QED
      BY <3>1, SendQuiet, ChanQuiet, DoitQuiet, TableQuiet, Unmoved
  <2>. QED
    BY <1>4, <2>1, <2>2, DoitEither, GoesOnPlaces, EndPlaces, RegisterPlaces
<1>5. ASSUME NEW s \in BagToSet(tails), Finishing(s) PROVE Placed(b)'
  BY <1>5, FinishingPlaces
<1>6. ASSUME NEW i \in Threads, Serve(i) PROVE Placed(b)'
  BY <1>6, ServePlaces
<1>7. CASE UNCHANGED vars
  <2>1. UNCHANGED <<fate, sending, chan, doits, table>>
    BY <1>7 DEF vars, intake, work
  <2>. QED
    BY <2>1, SendQuiet, ChanQuiet, DoitQuiet, TableQuiet, Unmoved
<1>8. ASSUME NEW a \in asks, Lose(a) PROVE Placed(b)'
  <2>1. UNCHANGED <<fate, sending, chan, doits, table>>
    BY <1>8 DEF Lose, intake, work
  <2>. QED
    BY <2>1, SendQuiet, ChanQuiet, DoitQuiet, TableQuiet, Unmoved
<1>. QED
  BY <1>1, <1>2, <1>3, <1>4, <1>5, <1>6, <1>7, <1>8 DEF Next, System

(* The inductive invariant of the requests' places.                        *)
PlaceInv == \A c \in Clients : Placed(c)

(* Every query's request is placed in every state.                         *)
LEMMA PlaceInvariance == Spec => []PlaceInv
<1>1. Init => PlaceInv
  BY DEF Init, PlaceInv, Placed, Absent, SendFree, ChanFree, DoitFree, TableFree, Free,
         EmptyBag, SetToBag, Empty
<1>2. ASSUME ResolverInv, PlaceInv, [Next]_vars PROVE PlaceInv'
  <2>1. CacheTypeOK /\ RequestsTypeOK /\ RequestsTypeOK'
    BY <1>2, CacheTypedEq, RequestsStep DEF ResolverInv, CacheInv
  <2>. QED
    BY <1>2, <2>1, PlacedStep DEF PlaceInv
<1>. QED
  BY <1>1, <1>2, ResolverInvariance, PTL DEF Spec

-----------------------------------------------------------------------------
(* The copies a bag holds of a set that it has no member of, or one.       *)
LEMMA CopiesCounted ==
  ASSUME NEW B, NEW M, NEW S, S = DOMAIN B \cap M
  PROVE  /\ Free(B, M) => Copies(B, S) = {}
         /\ Sole(B, M) => \E x : Copies(B, S) = {x}
<1>1. ASSUME Free(B, M) PROVE Copies(B, S) = {}
  BY <1>1 DEF Free, Copies
<1>2. ASSUME Sole(B, M) PROVE \E x : Copies(B, S) = {x}
  <2>1. PICK x \in M : S = {x} /\ x \in DOMAIN B /\ B[x] = 1
    BY <1>2 DEF Sole
  <2>2. S \cap DOMAIN B = {x} /\ 1..B[x] = {1}
    BY <2>1
  <2>3. Copies(B, S) = {x} \X {1}
    BY <2>2 DEF Copies
  <2>4. {x} \X {1} = {<<x, 1>>}
    OBVIOUS
  <2>. QED
    BY <2>3, <2>4
<1>. QED
  BY <1>1, <1>2

(* The places of a client's request, by the four of them.                  *)
PlacesSend(c) == {n \in sending : IsOf(n, c)}
PlacesChan(c) == {k \in DOMAIN chan : IsOf(chan[k], c)}
PlacesDoit(c) == Copies(doits, {d \in DOMAIN doits : IsOf(d.node, c)})
PlacesTable(c) ==
  UNION {{key} \X Copies(table[key], {n \in DOMAIN table[key] : IsOf(n, c)}) :
           key \in DOMAIN table}

(* The four parts of Places are empty, or have one member, as the          *)
(* predicates say.                                                         *)
LEMMA PlacesCounted ==
  ASSUME RequestsTypeOK, NEW c
  PROVE  /\ SendFree(c) => PlacesSend(c) = {}
         /\ SendSole(c) => \E x : PlacesSend(c) = {x}
         /\ ChanFree(c) => PlacesChan(c) = {}
         /\ ChanSole(c) => \E x : PlacesChan(c) = {x}
         /\ DoitFree(c) => PlacesDoit(c) = {}
         /\ DoitSole(c) => \E x : PlacesDoit(c) = {x}
         /\ TableFree(c) => PlacesTable(c) = {}
         /\ TableSole(c) => \E x : PlacesTable(c) = {x}
<1>1. PlacesSend(c) = sending \cap NodesFor(c)
  BY DEF PlacesSend, NodesFor, RequestsTypeOK
<1>2. (SendFree(c) => PlacesSend(c) = {}) /\ (SendSole(c) => \E x : PlacesSend(c) = {x})
  BY <1>1 DEF SendFree, SendSole
<1>3. (ChanFree(c) => PlacesChan(c) = {}) /\ (ChanSole(c) => \E x : PlacesChan(c) = {x})
  BY DEF PlacesChan, ChanFree, ChanSole
<1>4. {d \in DOMAIN doits : IsOf(d.node, c)} = DOMAIN doits \cap TasksFor(c)
  BY DEF TasksFor, RequestsTypeOK, IsBagOf
<1>5. (DoitFree(c) => PlacesDoit(c) = {}) /\ (DoitSole(c) => \E x : PlacesDoit(c) = {x})
  BY <1>4, CopiesCounted DEF PlacesDoit, DoitFree, DoitSole
<1>. DEFINE Mine(key) == Copies(table[key], {n \in DOMAIN table[key] : IsOf(n, c)})
<1>6. ASSUME NEW key \in DOMAIN table
      PROVE  /\ Free(table[key], NodesFor(c)) => Mine(key) = {}
             /\ Sole(table[key], NodesFor(c)) => \E x : Mine(key) = {x}
  <2>1. {n \in DOMAIN table[key] : IsOf(n, c)} = DOMAIN table[key] \cap NodesFor(c)
    BY DEF NodesFor, RequestsTypeOK, IsTable, IsBagOf
  <2>. QED
    BY <2>1, CopiesCounted
<1>7. PlacesTable(c) = UNION {{key} \X Mine(key) : key \in DOMAIN table}
  BY DEF PlacesTable
<1>. HIDE DEF Mine
<1>8. ASSUME TableFree(c) PROVE PlacesTable(c) = {}
  <2>1. \A key \in DOMAIN table : {key} \X Mine(key) = {}
    BY <1>6, <1>8 DEF TableFree
  <2>. QED
    BY <1>7, <2>1
<1>9. ASSUME TableSole(c) PROVE \E x : PlacesTable(c) = {x}
  <2>1. PICK key \in DOMAIN table :
          /\ Sole(table[key], NodesFor(c))
          /\ \A k \in DOMAIN table \ {key} : Free(table[k], NodesFor(c))
    BY <1>9 DEF TableSole
  <2>2. PICK x : Mine(key) = {x}
    BY <1>6, <2>1
  <2>3. {key} \X Mine(key) = {<<key, x>>}
    BY <2>2
  <2>4. \A k \in DOMAIN table \ {key} : {k} \X Mine(k) = {}
    BY <1>6, <2>1
  <2>5. PlacesTable(c) = {<<key, x>>}
    BY <1>7, <2>3, <2>4
  <2>. QED
    BY <2>5
<1>. QED
  BY <1>2, <1>3, <1>5, <1>8, <1>9

(* A request that is in one of the four places is in one place.            *)
LEMMA PlacedOnce ==
  ASSUME RequestsTypeOK, NEW c, Placed(c)
  PROVE  IF fate[c] = "live" THEN \E p \in Places(c) : Places(c) = {p}
                             ELSE Places(c) = {}
<1>1. Places(c) = ({"sending"} \X PlacesSend(c)) \cup ({"chan"} \X PlacesChan(c))
                    \cup ({"doits"} \X PlacesDoit(c)) \cup ({"table"} \X PlacesTable(c))
  BY DEF Places, PlacesSend, PlacesChan, PlacesDoit, PlacesTable
<1>2. \A tag : {tag} \X {} = {} /\ \A x : {tag} \X {x} = {<<tag, x>>}
  OBVIOUS
<1>3. ASSUME fate[c] = "live" PROVE \E p : Places(c) = {p}
  <2>1. CASE InSend(c)
    <3>1. PICK x : PlacesSend(c) = {x}
      BY <2>1, PlacesCounted DEF InSend
    <3>2. PlacesChan(c) = {} /\ PlacesDoit(c) = {} /\ PlacesTable(c) = {}
      BY <2>1, PlacesCounted DEF InSend
    <3>3. Places(c) = {<<"sending", x>>}
      BY <1>1, <1>2, <3>1, <3>2
    <3>. QED
      BY <3>3
  <2>2. CASE InChan(c)
    <3>1. PICK x : PlacesChan(c) = {x}
      BY <2>2, PlacesCounted DEF InChan
    <3>2. PlacesSend(c) = {} /\ PlacesDoit(c) = {} /\ PlacesTable(c) = {}
      BY <2>2, PlacesCounted DEF InChan
    <3>3. Places(c) = {<<"chan", x>>}
      BY <1>1, <1>2, <3>1, <3>2
    <3>. QED
      BY <3>3
  <2>3. CASE InDoit(c)
    <3>1. PICK x : PlacesDoit(c) = {x}
      BY <2>3, PlacesCounted DEF InDoit
    <3>2. PlacesSend(c) = {} /\ PlacesChan(c) = {} /\ PlacesTable(c) = {}
      BY <2>3, PlacesCounted DEF InDoit
    <3>3. Places(c) = {<<"doits", x>>}
      BY <1>1, <1>2, <3>1, <3>2
    <3>. QED
      BY <3>3
  <2>4. CASE InTable(c)
    <3>1. PICK x : PlacesTable(c) = {x}
      BY <2>4, PlacesCounted DEF InTable
    <3>2. PlacesSend(c) = {} /\ PlacesChan(c) = {} /\ PlacesDoit(c) = {}
      BY <2>4, PlacesCounted DEF InTable
    <3>3. Places(c) = {<<"table", x>>}
      BY <1>1, <1>2, <3>1, <3>2
    <3>. QED
      BY <3>3
  <2>. QED
    BY <1>3, <2>1, <2>2, <2>3, <2>4 DEF Placed
<1>4. ASSUME fate[c] # "live" PROVE Places(c) = {}
  BY <1>1, <1>2, <1>4, PlacesCounted DEF Placed, Absent
<1>. QED
  BY <1>3, <1>4

(* However goroutines, threads and the channel hand it on, the request     *)
(* made for a query is never lost while it lives and never copied: it is   *)
(* in one place, and in none once it has been answered or dropped.  It     *)
(* holds whatever RNPool.Get returns, because a request goes back to the   *)
(* pool from a goroutine that has it to itself.                            *)
THEOREM ResolverOnePlace == Spec => []OnePlace
<1>1. ResolverInv /\ PlaceInv => OnePlace
  BY PlacedOnce DEF ResolverInv, PlaceInv, OnePlace
<1>. QED
  BY <1>1, ResolverInvariance, PlaceInvariance, PTL
=============================================================================
