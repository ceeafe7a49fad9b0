------------------------------ MODULE TagLookup ------------------------------
(***************************************************************************)
(* The way from a container to the tags of its image: the collector takes  *)
(* the image text apart, the resolver finds the repository in it and walks *)
(* through the pages of its tag list (listTags).  RegistryClient has the   *)
(* tokens and failures of that walk, with a registry that sends the Link   *)
(* headers of the distribution API; here a registry may send others.       *)
(***************************************************************************)
EXTENDS ImageReference, Pagination

CONSTANTS
  Images,    \* what references are made of: host, path, tag, digest
  Others,    \* texts that no image is written as
  Headers,   \* per page, the sequences of Link fields it may come with
  Usual,     \* the fields that registries do send, of each page
  Probe      \* the image that is looked up with all the others

\* A word is free of separators.  A host may have a port behind a colon; an image
\* without host has <<>>, one without tag or digest "".
Word == STRING \ {Colon, Slash, At, Space}
ImageFields == {"host", "path", "tag", "digest"}

Links(fields) == UNION {{f[i] : i \in DOMAIN f} : f \in {fields[k] : k \in DOMAIN fields}}

\* Docker's rule for a reference is that the first part is a host exactly if it
\* looks like one.  What the fields of a page say is true: links are meant to lead
\* where their relations say.
ASSUME LookupAssumption ==
  /\ \A i \in Images :
       /\ DOMAIN i = ImageFields
       /\ i.host \in Seq(Word \cup {Colon})
       /\ \A k \in DOMAIN i.host : Lower[i.host[k]] \in Word \cup {Colon}
       /\ i.path \in Seq(Word) /\ i.path # <<>>
       /\ {i.tag, i.digest} \subseteq Word
       /\ IF i.host = <<>> THEN i.path[1] \notin Dotted \cup {"localhost"}
                           ELSE isRegistryHost(i.host)
  /\ Others \subseteq Seq(STRING)
  /\ Probe \in Images
  /\ LastPage \in Nat \ {0}
  /\ Headers \in [Pages -> SUBSET Seq(Seq(Link))]
  /\ Usual \in [Pages -> Seq(Seq(Link))] /\ \A p \in Pages : Usual[p] \in Headers[p]
  /\ \A p \in Pages : \A h \in Headers[p] :
       /\ \A k \in DOMAIN h : h[k] # <<>>
       /\ \A l \in Links(h) :
            l.to = [next |-> p + 1, prev |-> p - 1, first |-> 1, last |-> LastPage][l.rel]
       /\ p < LastPage => \E l \in Links(h) : l.rel = "next"

VARIABLES
  image,         \* the image of a container, <<>> for a text that is none
  text,          \* how the docker API writes it
  observation,   \* what the collector finds: name, tag, artifact
  reference,     \* what the resolver finds, and the link it publishes
  header,        \* the Link fields of each page of the registry
  nextURL,       \* what is asked for next: a page, or a place that is none
  visited,       \* the pages whose tags were collected
  pc             \* "collect", "resolve", "ask", "listed", "unsupported", "error"

container == <<image, text>>
vars == <<container, observation, reference, header, nextURL, visited, pc>>

Written(i) ==
  (IF i.host = <<>> THEN <<>> ELSE Append(i.host, Slash))
  \o [k \in 1 .. 2 * Len(i.path) - 1 |-> IF k % 2 = 1 THEN i.path[(k + 1) \div 2] ELSE Slash]
  \o (IF i.tag = "" THEN <<>> ELSE <<Colon, i.tag>>)
  \o (IF i.digest = "" THEN <<>> ELSE <<At, "sha256", Colon, i.digest>>)

\* Every way the first n pages of a registry may come with Link fields.
WithPage(hs, p) == {Append(h, f) : h \in hs, f \in Headers[p]}
Registries[n \in 0 .. LastPage] ==
  IF n = 0 THEN {<<>>} ELSE WithPage(Registries[n - 1], n)

-----------------------------------------------------------------------------
\* Headers do not depend on the text: one image meets all of them.
Init ==
  /\ \/ image \in Images /\ text = Written(image) /\ header = Usual
     \/ image = <<>> /\ text \in Others /\ header = Usual
     \/ image = Probe /\ text = Written(image) /\ header \in Registries[LastPage]
  /\ observation = <<>>
  /\ reference = <<>>
  /\ nextURL = None
  /\ visited = {}
  /\ pc = "collect"

Collect ==
  /\ pc = "collect"
  /\ LET cut == parseImageReference(text)
     IN  observation' = [name |-> cut.name, tag |-> cut.tag,
                         artifact |-> shortArtifactName(cut.name)]
  /\ pc' = "resolve"
  /\ UNCHANGED <<container, reference, header, nextURL, visited>>

\* The resolver gets the text as the collector got it, as artifact_ref.
Resolve ==
  /\ pc = "resolve"
  /\ LET ref == parseRegistryReference(text)
     IN  /\ reference' = [registry |-> ref.registry, repository |-> ref.repository,
                          link |-> buildLatestVersionURL(ref)]
         /\ IF ref = Unsupported THEN pc' = "unsupported" /\ UNCHANGED nextURL
                                 ELSE pc' = "ask" /\ nextURL' = URL(1)
  /\ UNCHANGED <<container, observation, header, visited>>

\* A page answers: its tags are collected, its fields say what comes next.
Page ==
  /\ pc = "ask"
  /\ nextURL.found
  /\ visited' = visited \cup {nextURL.page}
  /\ nextURL' = linkNextURL(GetLink(header[nextURL.page]))
  /\ pc' = IF nextURL' = None THEN "listed" ELSE "ask"
  /\ UNCHANGED <<container, observation, reference, header>>

\* A place that is no tag list answers with an error, or with something that
\* cannot be decoded; or with a JSON object, which is taken for a last page without
\* tags.
NoPage ==
  /\ pc = "ask"
  /\ ~ nextURL.found
  /\ \/ pc' = "error" /\ UNCHANGED nextURL
     \/ pc' = "listed" /\ nextURL' = None
  /\ UNCHANGED <<container, observation, reference, header, visited>>

Next == Collect \/ Resolve \/ Page \/ NoPage

\* A request is answered, or ended by the timeout of the client.
Spec == Init /\ [][Next]_vars /\ WF_vars(Page \/ NoPage)

-----------------------------------------------------------------------------
\* The text is cut where the tag begins, by both of them: whatever the text, the
\* name in front of the tag is the one that is looked up; and the tag of an
\* image, with port, digest or without either, is its tag and never part of a
\* port or digest, the artifact the last part of its path (collector.go:398,
\* resolver.go:288).
CutsAgree ==
  /\ pc \in {"ask", "listed"} =>
       IsSuffix(splitRegistryHost(observation.name).repository, reference.repository)
  /\ pc # "collect" /\ image # <<>> =>
       /\ observation.tag = IF image.tag = "" THEN <<>> ELSE <<image.tag>>
       /\ observation.artifact = <<Last(image.path)>>

\* The host and path an image really has, by Docker's rules for short names.
Canonical(i) ==
  LET host == [k \in DOMAIN i.host |-> Lower[i.host[k]]]
  IN  IF host \in DockerHub
      THEN [host |-> <<"docker.io">>,
            path |-> IF Len(i.path) = 1 THEN <<"library">> \o i.path ELSE i.path]
      ELSE [host |-> host, path |-> i.path]

PathText(path) ==
  [k \in 1 .. 2 * Len(path) - 1 |-> IF k % 2 = 1 THEN path[(k + 1) \div 2] ELSE Slash]

\* The tags are asked for in the registry and repository the image is from, and
\* an image from elsewhere is never looked up in another registry under the
\* same name; the link beside the latest version leads to the page of that
\* repository (parseRegistryReference, resolver.go:238-286; resolver.go:183-207).
AskedWhereItIs ==
  pc \in {"ask", "listed", "unsupported"} /\ image # <<>> =>
    LET c == Canonical(image)
    IN  /\ pc # "unsupported" <=> c.host \in {<<"docker.io">>, <<"ghcr.io">>}
        /\ pc # "unsupported" =>
             <<reference.registry>> = c.host /\ reference.repository = PathText(c.path)
        /\ reference.registry = "docker.io" =>
             reference.repository =
               (IF reference.link.page = "_" THEN <<"library", Slash>> ELSE <<>>)
               \o reference.link.name

\* The fields have a next link that the code does not see.
Unseen(h) ==
  \E k \in DOMAIN h : \E i \in DOMAIN h[k] :
    h[k][i].rel = "next" /\ (k > 1 \/ ~ h[k][i].exact)

\* It sees a next link, but takes the target of the first one, which is invalid,
\* leads to no page, or past the next one.
Misled(h) ==
  /\ h # <<>>
  /\ \E i \in DOMAIN h[1] : Says(h[1][i])
  /\ h[1][1].form \in {"astray", "invalid"} \/ h[1][1].rel = "last"

\* No page is left out: a listing that returns has every page, unless the next
\* link of a page it visited was not seen, since it is not worded rel="next" or
\* stands in a second field, or was taken together with a first target that is
\* invalid, astray or that of the last page.  Nothing else shortens the list: a
\* target cut at a semicolon or a link back in front of the next one may keep the
\* walk from ending, but lose no page (linkNextURL, resolver.go:475).
OnlyMisreadShortens ==
  pc = "listed" =>
    visited = Pages \/ \E p \in visited : Unseen(header[p]) \/ Misled(header[p])

\* If the code sees a next link, it is the first one, with its whole cursor.
Understood(h) ==
  (\E i \in DOMAIN h : Says(h[i])) => Says(h[1]) /\ h[1].form # "cut"

Understandable == \A p \in Pages : Understood(GetLink(header[p]))

\* The walk ends as long as a next link that is seen comes first in its field and
\* keeps its cursor: of several links the code takes the target of the first and
\* the relation of any (resolver.go:481-486), so a link back in front of the next
\* one would send it back and forth for ever, and so would a target cut at a
\* semicolon (the loop of listTags, resolver.go:346).
UnderstoodListingEnds == pc = "ask" /\ Understandable ~> pc \in {"listed", "error"}
=============================================================================
