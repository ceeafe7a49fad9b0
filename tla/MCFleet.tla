------------------------------- MODULE MCFleet -------------------------------
(***************************************************************************)
(* Small fleets: nodes whose sanitised ids are equal or continue each      *)
(* other, and one with two services that sanitise alike.                   *)
(***************************************************************************)
EXTENDS Fleet

MCCharacters == {"a", "b", "c", "_", " ", "/", "unknown"}
MCKept == {"a", "b", "c", "_", "unknown"}
MCBlank == {" "}

\* a b and a/b sanitise alike, c is apart from both.
AsBlank == <<"a", " ", "b">>
AsSlash == <<"a", "/", "b">>
Other   == <<"c">>

MCNodes == {AsBlank, AsSlash, Other}
MCHosted ==
  [n \in MCNodes |-> IF n = Other THEN {<<"a", " ", "b">>, <<"a", "_", "b">>} ELSE {<<" ", "a", "/", "b">>}]

MCCycles == [n \in MCNodes |-> IF n = Other THEN 2 ELSE 1]

MCFields == <<"current_version", "check_status">>
MCOptional == {"current_version"}
MCEntities == <<"update">>

\* The node a with the service b_c, the node a_b with the service c.
Short == <<"a">>
Long  == <<"a", "_", "b">>
MCJoinedNodes == {Short, Long}
MCJoinedHosted ==
  [n \in MCJoinedNodes |-> IF n = Short THEN {<<"b", "_", "c">>} ELSE {<<"c">>}]
MCJoinedCycles == [n \in MCJoinedNodes |-> 1]
=============================================================================
