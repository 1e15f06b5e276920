---------------------------- MODULE KeepsNewest ----------------------------
(***************************************************************************)
(* What the queues of a terminal session promise: of the things made one   *)
(* after the other some arrive, each once, and none after a newer one.     *)
(***************************************************************************)
EXTENDS Integers, Sequences

VARIABLES
  made,    \* number of things made, which are 1 .. made
  came     \* those that arrived, in the order they did

vars == <<made, came>>

Increasing(s) == \A i, j \in 1 .. Len(s) : i < j => s[i] < s[j]

Init == made = 0 /\ came = <<>>

Make == made' = made + 1 /\ came' = came

\* Some more arrive.
Arrive ==
  /\ made' = made
  /\ Len(came) <= Len(came') /\ \A i \in 1 .. Len(came) : came'[i] = came[i]
  /\ Increasing(came') /\ \A i \in 1 .. Len(came') : came'[i] \in 1 .. made

Next == Make \/ Arrive

Spec == Init /\ [][Next]_vars
=============================================================================
