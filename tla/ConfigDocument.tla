--------------------------- MODULE ConfigDocument ---------------------------
(***************************************************************************)
(* The parser for the YAML subset of a config file (config_file.go).  The  *)
(* code walks the lines with three mutually recursive functions; here each *)
(* pending call of parseConfigMap or parseConfigList is a frame of a stack.*)
(* What the parser should make of a document is defined apart from it, by  *)
(* the indentation of the lines alone.                                     *)
(*                                                                         *)
(* A line is a record: its indentation, what kind of text it holds, and    *)
(* the key and value of that text.  JSON documents go to encoding/json.    *)
(* Startup has the document read, and makes a configuration of it.         *)
(***************************************************************************)
EXTENDS ConfigValues

CONSTANTS
  Keys,       \* the keys of mapping entries
  Nothing     \* a key or value that is empty after trimming

\* "bare" is text that is neither a list item nor has a colon; "tab" is text
\* with a tab inside, and "long" any line, whatever is in it, that has no end
\* within the 64 KiB a bufio.Scanner takes.
Forms == {"entry", "item", "bare", "blank", "comment", "tab", "long"}
Quotes == {"none", "single", "double"}
\* A scalar is a text between quotes that may be missing.
Scalar == [open : Quotes, word : Text, close : Quotes]
RawLine == [indent : Nat, form : Forms, key : Keys \cup {Nothing},
            value : Scalar \cup {Nothing}]

\* An item has a value: its text is trimmed and begins with "- ".
IsDocument(doc) ==
  doc \in Seq(RawLine) /\ \A i \in DOMAIN doc : doc[i].form = "item" => doc[i].value # Nothing

ASSUME DocumentAssumption ==
  /\ Nothing \notin Keys
  /\ Nothing \notin Scalar

VARIABLES
  document,   \* the bytes of the file, as lines
  lines,      \* the lines that carry something, each with its number
  next,       \* index in lines of the line looked at
  stack,      \* the pending calls: kind, indentation and path of their block
  values,     \* what was parsed so far, by path
  status,     \* "read", "parsing", "ok" or "error"
  faulty      \* the line number an error names, 0 if it names none

documentVars == <<document, lines, next, stack, values, status, faulty>>

-----------------------------------------------------------------------------
\* The whole document is trimmed first: blank lines at its start are gone, so
\* they do not count as lines, and the first line loses its indentation.
TrimDocument(doc) ==
  LET written == {i \in DOMAIN doc : doc[i].form # "blank"}
      rest    == SubSeq(doc, Min(written), Len(doc))
  IN  IF written = {} THEN <<>> ELSE <<[rest[1] EXCEPT !.indent = 0]>> \o Tail(rest)

\* The lines that keep the scanner from going on.
Unscanned(doc) == {i \in DOMAIN doc : doc[i].form \in {"tab", "long"}}

\* The lines of a document that is scanned to its end.
tokenizeConfigLines(doc) ==
  LET Number(i) == [number |-> i, indent |-> doc[i].indent, form |-> doc[i].form,
                    key |-> doc[i].key, value |-> doc[i].value]
  IN  FlattenSeq([i \in DOMAIN doc |->
                    IF doc[i].form \in {"blank", "comment"} THEN <<>> ELSE <<Number(i)>>])

\* One pair of matching quotes is taken off.
parseScalarValue(raw) ==
  IF raw.open = raw.close THEN [raw EXCEPT !.open = "none", !.close = "none"] ELSE raw

-----------------------------------------------------------------------------
Mapping   == [kind |-> "map", items |-> <<>>]
EmptyList == [kind |-> "list", items |-> <<>>]

\* The call made for the block that starts at line i; path leads to the block.
parseConfigBlock(i, path) ==
  [kind |-> IF lines[i].form = "item" THEN "list" ELSE "map",
   indent |-> lines[i].indent, path |-> path]

\* A map with one entry put into it.
Put(map, key, value) == [k \in DOMAIN map \cup {key} |-> IF k = key THEN value ELSE map[k]]

EmptyBlock(i) == IF lines[i].form = "item" THEN EmptyList ELSE Mapping

Top  == Last(stack)
Line == lines[next]
Path == Append(Top.path, Line.key)

Fail(number) ==
  /\ status' = "error"
  /\ faulty' = number
  /\ UNCHANGED <<document, next, stack, values>>

Unread(doc) ==
  /\ document = doc
  /\ lines = <<>>
  /\ next = 1
  /\ stack = <<>>
  /\ values = << >>
  /\ status = "read"
  /\ faulty = 0

\* The number named for the first line that is not scanned.
ScanError(doc) ==
  LET i == Min(Unscanned(doc)) IN IF doc[i].form = "tab" THEN i ELSE 0

\* A tab anywhere, even in a comment, refuses the document, and so does a line
\* that is too long: of these the first one counts, and only a tab has its line
\* named.
RefuseScan ==
  /\ status = "read"
  /\ LET doc == TrimDocument(document)
     IN  Unscanned(doc) # {} /\ Fail(ScanError(doc))
  /\ UNCHANGED lines

\* A document without lines is an empty mapping.
AcceptEmpty ==
  /\ status = "read"
  /\ LET doc == TrimDocument(document)
     IN  Unscanned(doc) = {} /\ tokenizeConfigLines(doc) = <<>>
  /\ status' = "ok"
  /\ values' = [p \in {<<>>} |-> Mapping]
  /\ UNCHANGED <<document, lines, next, stack, faulty>>

\* The first line opens the top-level block at its own indentation.
OpenDocument ==
  /\ status = "read"
  /\ LET doc == TrimDocument(document)
     IN  Unscanned(doc) = {} /\ lines' = tokenizeConfigLines(doc)
  /\ lines' # <<>>
  /\ status' = "parsing"
  /\ stack' = <<parseConfigBlock(1, <<>>)'>>
  /\ values' = [p \in {<<>>} |-> EmptyBlock(1)']
  /\ UNCHANGED <<document, next, faulty>>

-----------------------------------------------------------------------------
Parsing == status = "parsing" /\ stack # <<>>
HasLine == next <= Len(lines)

\* Mutant: a deeper line is taken as a line of the block.
InBlockOrDeeper == Parsing /\ HasLine /\ Line.indent >= Top.indent

\* A line of the block on top of the stack.
InBlock == Parsing /\ HasLine /\ Line.indent = Top.indent

\* A mapping entry with a key its block does not have yet.
IsEntry ==
  /\ InBlock
  /\ Top.kind = "map"
  /\ Line.form = "entry"
  /\ Line.key # Nothing
  /\ Path \notin DOMAIN values

TakeScalar ==
  /\ IsEntry
  /\ Line.value # Nothing
  /\ values' = Put(values, Path,
                   [kind |-> "scalar", items |-> <<parseScalarValue(Line.value)>>])
  /\ next' = next + 1
  /\ UNCHANGED <<document, lines, stack, status, faulty>>

DeeperFollows == next < Len(lines) /\ lines[next + 1].indent > Line.indent

\* An entry without a value: the deeper lines after it are its value.
OpenBlock ==
  /\ IsEntry
  /\ Line.value = Nothing
  /\ DeeperFollows
  /\ stack' = Append(stack, parseConfigBlock(next + 1, Path))
  /\ values' = Put(values, Path, EmptyBlock(next + 1))
  /\ next' = next + 1
  /\ UNCHANGED <<document, lines, status, faulty>>

IsItem == InBlock /\ Top.kind = "list" /\ Line.form = "item"

\* An item always has a value: its text is trimmed and begins with "- ".
TakeItem ==
  /\ IsItem
  /\ values' = [values EXCEPT ![Top.path].items =
                  Append(@, parseScalarValue(Line.value))]
  /\ next' = next + 1
  /\ UNCHANGED <<document, lines, stack, status, faulty>>

\* A line at or right of the block that the block cannot take: too deep, an
\* item in a mapping or an entry in a list, no colon, no key, a repeated key,
\* or a key whose value block is missing.
RefuseLine ==
  /\ Parsing
  /\ HasLine
  /\ Line.indent >= Top.indent
  /\ ~ IsItem
  /\ ~ (IsEntry /\ (Line.value = Nothing => DeeperFollows))
  /\ Fail(Line.number)
  /\ UNCHANGED lines

\* Mutant: a shallower line closes all blocks down to the top-level one.
CloseAll ==
  /\ Parsing
  /\ HasLine => Line.indent < Top.indent
  /\ stack' = IF Len(stack) > 1 THEN <<stack[1]>> ELSE <<>>
  /\ UNCHANGED <<document, lines, next, values, status, faulty>>

\* The block ends at a shallower line or at the end: the call returns, and its
\* caller looks at the same line.
CloseBlock ==
  /\ Parsing
  /\ HasLine => Line.indent < Top.indent
  /\ stack' = Front(stack)
  /\ UNCHANGED <<document, lines, next, values, status, faulty>>

Returned == status = "parsing" /\ stack = <<>>

RefuseTrailing ==
  /\ Returned
  /\ HasLine
  /\ Fail(Line.number)
  /\ UNCHANGED lines

\* The error names no line.
RefuseTopLevelList ==
  /\ Returned
  /\ ~ HasLine
  /\ values[<<>>].kind # "map"
  /\ Fail(0)
  /\ UNCHANGED lines

Accept ==
  /\ Returned
  /\ ~ HasLine
  /\ values[<<>>].kind = "map"
  /\ status' = "ok"
  /\ UNCHANGED <<document, lines, next, stack, values, faulty>>

Parse ==
  \/ RefuseScan
  \/ AcceptEmpty
  \/ OpenDocument
  \/ TakeScalar
  \/ OpenBlock
  \/ TakeItem
  \/ RefuseLine
  \/ CloseBlock
  \/ RefuseTrailing
  \/ RefuseTopLevelList
  \/ Accept

-----------------------------------------------------------------------------
(***************************************************************************)
(* What indentation says of the lines ls, without a parser.                *)
(***************************************************************************)
Opens(l) == l.form = "entry" /\ l.value = Nothing

\* The line whose block line i belongs to: the last shallower one before it.
ParentLine(ls, i) == Max({0} \cup {j \in 1 .. i - 1 : ls[j].indent < ls[i].indent})

Siblings(ls, i) ==
  {j \in DOMAIN ls : /\ ParentLine(ls, j) = ParentLine(ls, i)
                     /\ ls[j].indent = ls[i].indent}

\* Line i continues what the lines before it began.
Fits(ls, i) ==
  LET elder == {j \in Siblings(ls, i) : j < i}
  IN  /\ ls[i].form = "item" \/ (ls[i].form = "entry" /\ ls[i].key # Nothing)
      /\ i > 1 /\ ~ Opens(ls[i - 1]) => elder # {}
      /\ \A j \in elder : /\ ls[j].form = ls[i].form
                          /\ ls[i].form = "entry" => ls[j].key # ls[i].key
      /\ Opens(ls[i]) => i < Len(ls) /\ ls[i + 1].indent > ls[i].indent

Misfits(ls) == {i \in DOMAIN ls : ~ Fits(ls, i)}
IsListed(ls) == ls # <<>> /\ ls[1].form = "item"

\* The keys that lead to each line, its own one included.
LinePaths(ls) ==
  LET path[j \in 0 .. Len(ls)] ==
        IF j = 0 THEN <<>> ELSE Append(path[ParentLine(ls, j)], ls[j].key)
  IN  path

\* The keys that lead to the block of line i.
BlockPath(ls, i) == LinePaths(ls)[ParentLine(ls, i)]

\* The items of the block of line i among the first n lines, and all of them.
ItemsAmong(ls, i, n) ==
  FlattenSeq([j \in 1 .. n |-> IF j \in Siblings(ls, i) THEN <<parseScalarValue(ls[j].value)>>
                               ELSE <<>>])
ItemsOf(ls, i) == ItemsAmong(ls, i, Len(ls))

NodeAt(ls, i) ==
  IF ls[i].form = "item" THEN [kind |-> "list", items |-> ItemsOf(ls, i)]
  ELSE IF ~ Opens(ls[i]) THEN [kind |-> "scalar", items |-> <<parseScalarValue(ls[i].value)>>]
  ELSE Mapping

PathOf(ls, i) ==
  IF ls[i].form = "item" THEN BlockPath(ls, i) ELSE Append(BlockPath(ls, i), ls[i].key)

\* A key that opens a list is described by the items, not by itself.
Meaning(ls) ==
  {<<<<>>, Mapping>>} \cup
  {<<PathOf(ls, i), NodeAt(ls, i)>> :
     i \in {j \in DOMAIN ls : Opens(ls[j]) => ls[j + 1].form # "item"}}

-----------------------------------------------------------------------------
\* The code's own lines and the document's, for a document that was trimmed.
Written == tokenizeConfigLines(TrimDocument(document))

\* A document is accepted only when every line fits what its indentation says,
\* and then the parser's tree is the one the indentation describes: a dedent of
\* several levels ends in the right block (parseConfigMap, config_file.go:404).
TreeIsIndentation ==
  status = "ok" =>
    /\ Misfits(Written) = {} /\ ~ IsListed(Written)
    /\ {<<p, values[p]>> : p \in DOMAIN values} = Meaning(Written)

\* A document is refused for the first line that cannot be scanned, which is named
\* if it has a tab but not if it is too long (tokenizeConfigLines,
\* config_file.go:331, 349); if all can, only for a line that does not fit, and the
\* error names the first such line (the returns of parseConfigBlock, Map and List),
\* or for being a list, and then it names none.
BlamesFirstMisfit ==
  status = "error" =>
    LET doc == TrimDocument(document)
    IN  IF Unscanned(doc) # {} THEN faulty = ScanError(doc)
        ELSE IF Misfits(Written) = {} THEN faulty = 0 /\ IsListed(Written)
        ELSE faulty = Written[Min(Misfits(Written))].number

-----------------------------------------------------------------------------
(***************************************************************************)
(* What the parser knows at each place, from which the two follow.         *)
(***************************************************************************)
LineRecord == [number : Nat, indent : Nat, form : Forms, key : Keys \cup {Nothing},
               value : Scalar \cup {Nothing}]

DocumentType ==
  /\ IsDocument(document)
  /\ status \in {"read", "parsing", "ok", "error"}
  /\ lines \in Seq(LineRecord)
  /\ \A i \in DOMAIN lines : lines[i].form = "item" => lines[i].value # Nothing
  /\ next \in 1 .. Len(lines) + 1
  /\ status = "read" => next = 1
  /\ stack \in Seq([kind : {"map", "list"}, indent : Nat, path : Seq(Keys \cup {Nothing})])

Done == 1 .. next - 1

\* Line start[k] is the first of the k-th pending block: the line above it opened
\* the block, and no line since then has left it.
Pending(start) ==
  \A k \in DOMAIN stack :
    LET s == start[k]
    IN  /\ s <= next
        /\ stack[k] = parseConfigBlock(s, BlockPath(lines, s))
        /\ ParentLine(lines, s) = s - 1
        /\ IF k = 1 THEN s = 1
           ELSE s > 1 /\ Opens(lines[s - 1]) /\ lines[s - 1].indent = stack[k - 1].indent
        /\ \A j \in 1 .. k - 1 : stack[j].indent < stack[k].indent
        /\ \A i \in s .. next - 1 : lines[i].indent >= stack[k].indent

\* The lines since the last one of the block on top are deeper than the line
\* looked at; without a block all lines are.
Dedents(start) ==
  HasLine =>
    \A j \in Done :
      \/ Line.indent < lines[j].indent
      \/ /\ stack # <<>>
         /\ j >= start[Len(stack)] => \E i \in j .. next - 1 : lines[i].indent <= Top.indent

\* A key without a value is followed by its block.
Opened(start) ==
  next > 1 /\ Opens(lines[next - 1]) => stack # <<>> /\ start[Len(stack)] = next

\* The lines of a block are as deep as its first one, below the key it belongs to.
Nested ==
  \A i \in Done :
    LET p == ParentLine(lines, i)
    IN  (p = 0 \/ Opens(lines[p])) /\ lines[i].indent = lines[p + 1].indent

\* What was parsed so far: each entry, and 0 for the document, has a path of its
\* own, and the value of what was read of it.
Entries == {0} \cup {i \in Done : lines[i].form = "entry"}

ValueSoFar(i) ==
  IF i # 0 /\ ~ Opens(lines[i])
  THEN [kind |-> "scalar", items |-> <<parseScalarValue(lines[i].value)>>]
  ELSE IF lines[i + 1].form = "item"
  THEN [kind |-> "list", items |-> ItemsAmong(lines, i + 1, next - 1)]
  ELSE Mapping

TreeSoFar ==
  LET path == LinePaths(lines)
  IN  /\ DOMAIN values = {path[i] : i \in Entries}
      /\ \A i, j \in Entries : path[i] = path[j] => i = j
      /\ \A i \in Entries : values[path[i]] = ValueSoFar(i)

AtLine ==
  /\ lines = Written /\ lines # <<>>
  /\ next = 1 => stack # <<>>
  /\ \A i \in Done : Fits(lines, i)
  /\ Nested
  /\ TreeSoFar
  /\ \E start \in [DOMAIN stack -> DOMAIN lines] :
       Pending(start) /\ Dedents(start) /\ Opened(start)

ParserInv ==
  /\ DocumentType
  /\ status = "parsing" => Unscanned(TrimDocument(document)) = {} /\ AtLine
  /\ TreeIsIndentation
  /\ BlamesFirstMisfit
=============================================================================
