------------------------------ MODULE MCBuffer ------------------------------
(***************************************************************************)
(* Values at the edges of octets, of seven-bit groups and of words.        *)
(***************************************************************************)
EXTENDS Buffer

MCValues == {{}, 0..6, {7}, {0, 13}, {14}, 0..15, {1, 23}, 0..31, {2, 34}, {4, 63}, 1..63, 0..63}

More == 0..7
MCStrings == {<<>>, <<{1}>>, <<{}, {0}, {7}, More>>}

(* A value of 64 bits, one that is too long, one without an end, one with  *)
(* more octets than it needs.                                              *)
MCForeign ==
  {[i \in 1..10 |-> IF i = 10 THEN {0} ELSE More],
   <<{3}>> \o [i \in 1..10 |-> IF i = 10 THEN {1} ELSE {7}],
   [i \in 1..11 |-> IF i = 11 THEN {} ELSE {7}],
   <<{2, 7}, {7}, {}, {0, 7}, {5, 7}>>}
=============================================================================
