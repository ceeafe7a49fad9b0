---------------------------- MODULE MCPublisher ----------------------------
(***************************************************************************)
(* Small instances of Publisher, against Board.                            *)
(***************************************************************************)
EXTENDS PublisherInvariant

CONSTANTS a, b   \* two services

Full(s)  == [service |-> s, empty |-> {}]
Blank(s) == [service |-> s, empty |-> {latest_version, latest_version_url}]

\* No check, two services, and a service that is listed twice (two containers
\* of one compose service name).
MCBatches == {<<>>, <<Blank(a), Full(b)>>, <<Full(a), Blank(a)>>}

\* One service, with and without a latest version.
MCOneBatch == {<<Full(a)>>, <<Blank(a)>>}

MCConfigs == {[retain |-> TRUE, ha |-> TRUE], [retain |-> FALSE, ha |-> FALSE]}
MCPlainConfigs == {[retain |-> r, ha |-> FALSE] : r \in BOOLEAN}
=============================================================================
