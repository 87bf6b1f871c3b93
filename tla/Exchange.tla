------------------------------ MODULE Exchange ------------------------------
(***************************************************************************)
(* What the resolver promises its clients.  A query may be asked, and then *)
(* it is answered once, with an answer to the question it asked, or never: *)
(* UDP and the resolver's own limits excuse silence, but not a second      *)
(* reply and not somebody else's answer.                                   *)
(***************************************************************************)
EXTENDS Naturals, Sequences

CONSTANTS
  Clients,
  IsAnswer(_, _)  \* IsAnswer(c, r): r answers the question of query c

VARIABLES
  asked,  \* the queries made so far
  told    \* told[c]: the replies to query c, one after the other

exchangeVars == <<asked, told>>

Init ==
  /\ asked = {}
  /\ told = [c \in Clients |-> <<>>]

Query(c) ==
  /\ c \notin asked
  /\ asked' = asked \cup {c}
  /\ UNCHANGED told

Reply(c) ==
  /\ c \in asked
  /\ told[c] = <<>>
  /\ Len(told'[c]) = 1
  /\ IsAnswer(c, told'[c][1])
  /\ told' = [told EXCEPT ![c] = told'[c]]
  /\ UNCHANGED asked

Next == \E c \in Clients : Query(c) \/ Reply(c)

Spec == Init /\ [][Next]_exchangeVars
=============================================================================
