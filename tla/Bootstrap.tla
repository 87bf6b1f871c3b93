------------------------------ MODULE Bootstrap ------------------------------
(***************************************************************************)
(* The start of the process: MInit of models/models.go.  LoadConfig of     *)
(* models/io.go reads root.z line by line into the maps of Dsmap with the  *)
(* Add functions of models/storage.go; then InitServer of models/server.go *)
(* opens the sockets one after the other and starts a serve goroutine for  *)
(* each, so that the first goroutines handle replies while the last are    *)
(* still to come.                                                          *)
(*                                                                         *)
(* Module DnsCache starts from a cache with the hints in it.  Here the     *)
(* maps are empty at first, and LoadConfig puts the hints into them.       *)
(***************************************************************************)
EXTENDS DnsCache, Sequences

CONSTANTS
  Files,    \* what may be in root.z; a missing file is one without lines
  Written,  \* names as they are written in it
  Lower,    \* strings.ToLower
  HintAAAA  \* AAAAAsets after LoadConfig

(* A line by its fourth field.  "MX" stands for every type that LoadConfig *)
(* passes over and "short" for a line of less than five fields.            *)
FileLine == [kind : {"A", "AAAA"}, name : Written, data : Addrs]
              \cup [kind : {"NS", "CNAME", "MX"}, name : Written, data : Written]
              \cup [kind : {"short"}]

(* ended is FALSE when no newline follows the last line.                   *)
File == {f \in [lines : Seq(FileLine), ended : BOOLEAN] : f.ended \/ f.lines # <<>>}

(* ReadString returns the rest of a last line without a newline together   *)
(* with io.EOF, and LoadConfig looks at the error first.                   *)
LinesRead(f) == IF f.ended THEN Len(f.lines) ELSE Len(f.lines) - 1

Datum(l) == IF l.kind \in {"A", "AAAA"} THEN l.data ELSE Lower[l.data]

(* strs[4] of a short line is out of range, and AddNS panics.              *)
Bad(l) == l.kind = "short" \/ (l.kind = "NS" /\ Lower[l.name] = Datum(l))

-----------------------------------------------------------------------------
(* What the first k lines of a file say.                                   *)
LinesFor(f, k, kind, n) ==
  {j \in 1..k : f.lines[j].kind = kind /\ Lower[f.lines[j].name] = n}

OwnersIn(f, k, kind) == {n \in Names : LinesFor(f, k, kind, n) # {}}

Listed(f, k, kind) ==
  [n \in OwnersIn(f, k, kind) |->
     {Datum(f.lines[j]) : j \in LinesFor(f, k, kind, n)}]

(* A name has one alias: that of the last line.                            *)
LastFor(f, k, n) ==
  CHOOSE j \in LinesFor(f, k, "CNAME", n) :
    \A i \in LinesFor(f, k, "CNAME", n) : i <= j

Aliases(f, k) ==
  [n \in OwnersIn(f, k, "CNAME") |-> Datum(f.lines[LastFor(f, k, n)])]

Says(f, k) == [A    |-> Listed(f, k, "A"),
               AAAA |-> Listed(f, k, "AAAA"),
               NS   |-> Listed(f, k, "NS"),
               CN   |-> Aliases(f, k)]

Hints == [A |-> HintA, AAAA |-> HintAAAA, NS |-> HintNS, CN |-> HintCN]

ASSUME FilesAssumption ==
  /\ Files \subseteq File
  /\ Lower \in [Written -> Names]
  \* the hints are what each file says that can be loaded
  /\ \A f \in Files :
       (\A k \in 1..LinesRead(f) : ~Bad(f.lines[k])) => Says(f, LinesRead(f)) = Hints

VARIABLES
  aaaasets, \* AAAAAsets
  file,     \* root.z
  pos,      \* the line LoadConfig reads next
  stage,    \* where MInit is: in LoadConfig, in InitServer, or past it
  started   \* the threads InitServer has started

boot == <<file, pos, stage, started>>
bootVars == <<cacheVars, aaaasets, boot>>

(* InitDS makes the maps.                                                  *)
BootInit ==
  /\ asets = Empty
  /\ nssets = Empty
  /\ cnsets = Empty
  /\ aaaasets = Empty
  /\ Idle
  /\ file \in Files
  /\ pos = 1
  /\ stage = "load"
  /\ started = {}

-----------------------------------------------------------------------------
(* LoadConfig.                                                             *)

Line == file.lines[pos]

Reading == up /\ stage = "load" /\ pos <= LinesRead(file)

(* AddA_str, AddAAAA_str and AddNS: what is in the list already is not     *)
(* added again.                                                            *)
Added(f) == LET n == Lower[Line.name] IN Put(f, n, Entry(f, n) \cup {Datum(Line)})

AddRecord ==
  /\ Reading
  /\ Line.kind \in {"A", "AAAA", "NS"}
  /\ ~Bad(Line)
  /\ asets' = IF Line.kind = "A" THEN Added(asets) ELSE asets
  /\ aaaasets' = IF Line.kind = "AAAA" THEN Added(aaaasets) ELSE aaaasets
  /\ nssets' = IF Line.kind = "NS" THEN Added(nssets) ELSE nssets
  /\ pos' = pos + 1
  /\ UNCHANGED <<cnsets, threads, file, stage, started>>

\* Mutation: the first alias of a name stays.
SetAliasOnce ==
  /\ Reading
  /\ Line.kind = "CNAME"
  /\ cnsets' = IF Lower[Line.name] \in DOMAIN cnsets THEN cnsets
               ELSE Put(cnsets, Lower[Line.name], Datum(Line))
  /\ pos' = pos + 1
  /\ UNCHANGED <<asets, nssets, aaaasets, threads, file, stage, started>>

(* SetOriCNAME: a later alias of a name replaces the earlier one.          *)
SetAlias ==
  /\ Reading
  /\ Line.kind = "CNAME"
  /\ cnsets' = Put(cnsets, Lower[Line.name], Datum(Line))
  /\ pos' = pos + 1
  /\ UNCHANGED <<asets, nssets, aaaasets, threads, file, stage, started>>

PassOver ==
  /\ Reading
  /\ Line.kind = "MX"
  /\ pos' = pos + 1
  /\ UNCHANGED <<cacheVars, aaaasets, file, stage, started>>

BadLine ==
  /\ Reading
  /\ Bad(Line)
  /\ Crash
  /\ UNCHANGED <<aaaasets, boot>>

EndOfFile ==
  /\ up
  /\ stage = "load"
  /\ pos > LinesRead(file)
  /\ stage' = "listen"
  /\ UNCHANGED <<cacheVars, aaaasets, file, pos, started>>

\* Mutation: the sockets are opened while LoadConfig still reads.
OpenSocketEarly(i) ==
  /\ up
  /\ stage # "up"
  /\ i \notin started
  /\ started' = started \cup {i}
  /\ UNCHANGED <<cacheVars, aaaasets, file, pos, stage>>

(* InitServer.                                                             *)
OpenSocket(i) ==
  /\ up
  /\ stage = "listen"
  /\ i \notin started
  /\ started' = started \cup {i}
  /\ UNCHANGED <<cacheVars, aaaasets, file, pos, stage>>

(* The loop ends with the last socket, or with the first that cannot be    *)
(* opened.                                                                 *)
Listening ==
  /\ up
  /\ stage = "listen"
  /\ stage' = "up"
  /\ UNCHANGED <<cacheVars, aaaasets, file, pos, started>>

(* The goroutines at work.                                                 *)
Serving(i) ==
  /\ i \in started
  /\ \/ \E m \in Messages : Receive(i, m)
     \/ Work(i)
     \/ Finish(i)
  /\ UNCHANGED <<aaaasets, boot>>

BootNext ==
  \/ AddRecord
  \/ SetAlias
  \/ PassOver
  \/ BadLine
  \/ EndOfFile
  \/ Listening
  \/ \E i \in Threads : OpenSocket(i) \/ Serving(i)

BootSpec == BootInit /\ [][BootNext]_bootVars

-----------------------------------------------------------------------------
(* Whatever the order of the lines, however names are written and however  *)
(* often a line is repeated, LoadConfig puts into the maps what the file   *)
(* says, and is done with it before any goroutine looks at them.           *)
LoadedBeforeServing ==
  IF stage = "load" THEN started = {} /\ msg = [i \in Threads |-> NoMsg]
  ELSE /\ aaaasets = HintAAAA
       /\ started = {} => asets = HintA /\ nssets = HintNS /\ cnsets = HintCN

(* The cache as the goroutines can see it: the maps, once LoadConfig is    *)
(* done with them.                                                         *)
Seen(map, hint) == IF stage = "load" THEN hint ELSE map

Served == INSTANCE DnsCache WITH
            asets  <- Seen(asets, HintA),
            nssets <- Seen(nssets, HintNS),
            cnsets <- Seen(cnsets, HintCN)

(* The process from its start on is an implementation of module DnsCache:  *)
(* what is filled line by line, and then by goroutines of which the first  *)
(* work while the last are yet to be started, is to them a cache that      *)
(* begins with the hints.                                                  *)
ServedSpec == Served!CacheSpec

(* A delegation that the goroutines can see is the one of a single reply,  *)
(* or all that root.z gives for the zone: no goroutine ever looks at a     *)
(* delegation LoadConfig is not done with, and two that store delegations  *)
(* of the same zone never leave a mixture behind.                          *)
WholeDelegationSeen == Served!WholeDelegation
=============================================================================
