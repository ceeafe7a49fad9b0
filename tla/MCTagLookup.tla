----------------------------- MODULE MCTagLookup -----------------------------
(***************************************************************************)
(* Images with every combination of host, port, path, tag and digest, and  *)
(* every text of up to five words and separators; three pages, each with   *)
(* a next link written in every way, alone or beside one other link.       *)
(***************************************************************************)
EXTENDS TagLookup

MCWords  == {"docker.io", "index.docker.io", "GHCR.io", "ghcr.io", "quay.io", "localhost",
             "library", "org", "app", "1.2", "5000"}
MCDotted == {"docker.io", "index.docker.io", "GHCR.io", "ghcr.io", "quay.io"}
MCLower  == [w \in MCWords \cup {Colon, Space} |-> IF w = "GHCR.io" THEN "ghcr.io" ELSE w]

MCHosts == {<<>>} \cup {<<h>> : h \in MCDotted \cup {"localhost"}}
           \cup {<<h, Colon, "5000">> : h \in {"localhost", "docker.io", "app"}}
MCPaths == {<<"app">>, <<"org", "app">>, <<"library", "app">>, <<"library">>, <<"org", "org", "app">>}

MCImages ==
  [host : MCHosts, path : MCPaths, tag : {"", "1.2", "app"}, digest : {"", "1.2"}]

MCOthers ==
  UNION {[1 .. n -> {"app", "ghcr.io", "library", Slash, Colon, At, Space}] : n \in 0 .. 5}

LinkTo(p, f, r, e) == [to |-> p, form |-> f, rel |-> r, exact |-> e]

NextLinks(p) ==
  IF p = 3 THEN {}
  ELSE {LinkTo(p + 1, f, "next", e) :
          f \in {"absolute", "rooted", "astray", "cut", "invalid"}, e \in BOOLEAN}

OtherLinks ==
  <<{LinkTo(3, "rooted", "last", TRUE), LinkTo(1, "invalid", "first", TRUE)},
    {LinkTo(1, "rooted", "prev", TRUE), LinkTo(3, "astray", "last", TRUE)},
    {LinkTo(2, "rooted", "prev", TRUE), LinkTo(1, "cut", "first", TRUE)}>>

MCHeaders ==
  [p \in 1 .. 3 |->
     {<<<<l>>>> : l \in NextLinks(p)}
     \cup UNION {{<<<<l, m>>>>, <<<<m, l>>>>, <<<<l>>, <<m>>>>, <<<<m>>, <<l>>>>} :
                  l \in NextLinks(p), m \in OtherLinks[p]}
     \cup (IF p = 3 THEN {<<>>} \cup {<<<<m>>>> : m \in OtherLinks[p]} ELSE {})]

MCUsual ==
  [p \in 1 .. 3 |->
     IF p < 3 THEN <<<<LinkTo(p + 1, "rooted", "next", TRUE)>>>>
     ELSE <<>>]
MCProbe == [host |-> <<>>, path |-> <<"app">>, tag |-> "1.2", digest |-> ""]
=============================================================================
