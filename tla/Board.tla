-------------------------------- MODULE Board --------------------------------
(***************************************************************************)
(* What a subscriber may rely on, whatever happens to the agent: on every  *)
(* topic of a service the checks only move forward, and a topic moves to a *)
(* check only when all topics before it have got there.                    *)
(***************************************************************************)
EXTENDS Naturals

CONSTANTS Services, Topics   \* topics are numbered in the order of a check

VARIABLE board   \* per service and topic, the check it shows, 0 if none

Init == board = [s \in Services |-> [t \in Topics |-> 0]]

Show(s, t) ==
  /\ board'[s][t] > board[s][t]
  /\ \A u \in Topics : u < t => board[s][u] >= board'[s][t]
  /\ board' = [board EXCEPT ![s][t] = board'[s][t]]

Next == \E s \in Services, t \in Topics : Show(s, t)

Spec == Init /\ [][Next]_board
=============================================================================
