---------------------------- MODULE ImageReference ----------------------------
(***************************************************************************)
(* From the image text of a container to the repository that is asked for  *)
(* its tags and the page that is linked: the collector cuts the tag off    *)
(* (collector.go), the resolver finds registry and repository in the same  *)
(* text (resolver.go).  A text is a sequence of words and separators.      *)
(***************************************************************************)
EXTENDS Integers, Sequences, FiniteSetsExt, SequencesExt

CONSTANTS
  Dotted,    \* the words with a dot inside, which only host names have
  Lower      \* words to words, what strings.ToLower makes of them

Colon == ":"
Slash == "/"
At    == "@"
Space == " "

LastIndex(t, c) == Max({0} \cup {i \in DOMAIN t : t[i] = c})
IndexOf(t, c)   == Min({Len(t) + 1} \cup {i \in DOMAIN t : t[i] = c})

TrimSpace(t) ==
  LET ink == {i \in DOMAIN t : t[i] # Space}
  IN  IF ink = {} THEN <<>> ELSE SubSeq(t, Min(ink), Max(ink))

WithoutDigest(t) == SubSeq(t, 1, IndexOf(t, At) - 1)

\* Mutant: every colon is taken for that of a tag.
parseAtAnyColon(value) ==
  LET t     == WithoutDigest(TrimSpace(value))
      colon == LastIndex(t, Colon)
  IN  IF colon > 0
      THEN [name |-> SubSeq(t, 1, colon - 1), tag |-> SubSeq(t, colon + 1, Len(t))]
      ELSE [name |-> t, tag |-> <<>>]

\* A colon behind the last slash is that of the tag, else that of a port.
parseImageReference(value) ==
  LET t     == WithoutDigest(TrimSpace(value))
      colon == LastIndex(t, Colon)
  IN  IF colon > LastIndex(t, Slash)
      THEN [name |-> SubSeq(t, 1, colon - 1), tag |-> SubSeq(t, colon + 1, Len(t))]
      ELSE [name |-> t, tag |-> <<>>]

shortArtifactName(value) ==
  LET t     == TrimSpace(value)
      v     == IF t # <<>> /\ Last(t) = Slash THEN Front(t) ELSE t
      slash == LastIndex(v, Slash)
  IN  IF slash \in 1 .. Len(v) - 1 THEN SubSeq(v, slash + 1, Len(v)) ELSE v

\* The resolver's own cut of the same text.
normalizeImageReference(value) ==
  LET t     == WithoutDigest(TrimSpace(value))
      colon == LastIndex(t, Colon)
  IN  IF colon > LastIndex(t, Slash) THEN SubSeq(t, 1, colon - 1) ELSE t

isRegistryHost(part) ==
  part = <<"localhost">> \/ \E i \in DOMAIN part : part[i] \in Dotted \cup {Colon}

\* The first part is the registry only if it looks like a host.
splitRegistryHost(t) ==
  LET slash == IndexOf(t, Slash)
      first == SubSeq(t, 1, slash - 1)
  IN  IF slash <= Len(t) /\ isRegistryHost(first)
      THEN [host |-> [i \in DOMAIN first |-> Lower[first[i]]],
            repository |-> SubSeq(t, slash + 1, Len(t))]
      ELSE [host |-> <<"docker.io">>, repository |-> t]

DockerHub == {<<>>, <<"docker.io">>, <<"index.docker.io">>, <<"registry-1.docker.io">>}

resolveRegistryHost(host) ==
  LET h == TrimSpace(host)
  IN  IF h \in DockerHub THEN "docker.io"
      ELSE IF h = <<"ghcr.io">> THEN "ghcr.io" ELSE "unsupported"

Unsupported == [registry |-> "unsupported", repository |-> <<>>]

\* Mutant: an official image is asked for without library.
parseWithoutLibrary(value) ==
  LET parts    == splitRegistryHost(normalizeImageReference(value))
      registry == resolveRegistryHost(parts.host)
  IN  IF parts.repository = <<>> \/ registry = "unsupported" THEN Unsupported
      ELSE [registry |-> registry, repository |-> parts.repository]

\* An image of Docker Hub without a slash is an official one.
parseRegistryReference(value) ==
  LET parts    == splitRegistryHost(normalizeImageReference(value))
      registry == resolveRegistryHost(parts.host)
      official == registry = "docker.io" /\ LastIndex(parts.repository, Slash) = 0
  IN  IF parts.repository = <<>> \/ registry = "unsupported" THEN Unsupported
      ELSE [registry |-> registry,
            repository |-> (IF official THEN <<"library", Slash>> ELSE <<>>) \o parts.repository]

NoLink == [page |-> "none", name |-> <<>>]

\* Docker Hub has pages of their own for official images, GHCR has no page.
buildLatestVersionURL(ref) ==
  IF ref.registry # "docker.io" THEN NoLink
  ELSE IF IsPrefix(<<"library", Slash>>, ref.repository) /\ Len(ref.repository) > 2
  THEN [page |-> "_", name |-> SubSeq(ref.repository, 3, Len(ref.repository))]
  ELSE [page |-> "r", name |-> ref.repository]
=============================================================================
