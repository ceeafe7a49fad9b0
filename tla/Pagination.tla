------------------------------ MODULE Pagination ------------------------------
(***************************************************************************)
(* Where linkNextURL (resolver.go) goes next: several links in any order,  *)
(* in one Link field or in fields of their own, relations in any spelling  *)
(* of HTTP, targets of any form.  Every link has a relation, as RFC 8288   *)
(* demands.                                                                *)
(***************************************************************************)
EXTENDS Integers, Sequences

CONSTANT LastPage   \* pages are numbered 1 .. LastPage

Pages == 1 .. LastPage

\* A link: the page it is meant to lead to, how its target is written, its
\* relation, and whether that is written rel="next" to the letter if it is next
\* (it may have no quotes, capitals, blanks around =, or other relations in the
\* same quotes).  The target may be absolute or rooted; "astray" if it leads to no
\* page when it is read as the code does, since it is relative or has a semicolon
\* in its path; "cut" if it has one in front of its cursor, which is a tag and has
\* none; "invalid" if url.Parse refuses it.
Link == [to : Pages, form : {"absolute", "rooted", "astray", "cut", "invalid"},
         rel : {"next", "prev", "first", "last"}, exact : BOOLEAN]

URL(p)    == [found |-> TRUE, page |-> p]
Elsewhere == [found |-> FALSE, page |-> 0]   \* a URL that is not the tag list
None      == [found |-> TRUE, page |-> 0]    \* the empty string

\* Mutant: a target without host is not resolved.
ResolveAbsoluteOnly(link) == IF link.form = "absolute" THEN URL(link.to) ELSE None

\* A target ends at the first semicolon of the field, even one inside it: without
\* its cursor the list begins again.  It is resolved against the host alone, not
\* against the URL that was asked for: a relative one loses its path.  The base is
\* one of two constants, which url.Parse accepts.
ResolveReference(link) ==
  CASE link.form = "invalid" -> None
    [] link.form = "astray"  -> Elsewhere
    [] link.form = "cut"     -> URL(1)
    [] OTHER                 -> URL(link.to)

\* Of several fields, the first one is read.
GetLink(fields) == IF fields = <<>> THEN <<>> ELSE fields[1]

\* What the code looks for is rel="next", letter for letter.
Says(link) == link.rel = "next" /\ link.exact

\* Mutant: the relation is not looked at.
linkFirstURL(h) == IF h = <<>> THEN None ELSE ResolveReference(h[1])

\* The text behind the first semicolon has rel="next" somewhere, perhaps of a
\* later link; the target is the text before it.
linkNextURL(h) ==
  IF \E i \in DOMAIN h : Says(h[i]) THEN ResolveReference(h[1]) ELSE None
=============================================================================
