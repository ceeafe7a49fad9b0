# A verification project for up2date

up2date is an agent that watches the software of one node and tells an MQTT
broker what it found: a *collector* takes a snapshot (containers of a Docker
host, or packages of a package manager), a *resolver* compares it with what is
available (OCI registries, Homebrew), a *publisher* writes the result to MQTT
topics, and an *orchestrator* repeats this until a signal arrives.  This
directory holds TLA+ models of these parts, the TLC configurations that check
them, and proofs of the most important facts.  Source lines below are those of
the Go files.

## 1. Inventory

| Part | State it keeps | Operations | Interacts through |
|---|---|---|---|
| `publisher/mqtt/publisher.go` | settings only | `Publish(checks)`: per check six field topics, then four Home Assistant config topics | one connection per call |
| `publisher/mqtt/client.go` | the connection | `Dial` (TCP, CONNECT, CONNACK), `Publish` (QoS 0), `Close` | TCP, deadlines |
| `orchestrator/orchestrator.go`, `cmd/up2date/main.go` | goroutines, tickers, wait group, context | `Run`, `loop`, `runJob`; signals; exit code | calls collector, resolver, publishers in turn |
| `resolver/docker` (registry client) | token, next URL, tag set of a listing | `listTags`, `fetchToken`, `request` | HTTP with a registry |
| `resolver/docker` (verdicts) | tag lists of one run | `Resolve`, `determineResolution`, version parsing | snapshot in, checks out |
| `collector/docker` | settings, HTTP client | `Collect`, `shouldExclude`, `detectVersion`, `buildObservation` | HTTP with the Docker API |
| `collector/ospackage` | settings | `Collect`, one process per package | `dpkg-query`, `brew` |
| `resolver/brewformula`, `resolver/none` | caches of one run | `Resolve`, up to two processes per formula | `brew` |
| `common/model` | none | `NewSnapshot` (sorts), `NewCheckResult` | |
| `orchestrator/config.go`, `config_file.go`, `build.go` | none | `Load` from the environment, `LoadFromFile` from the YAML subset or JSON, `Build` with the constructors of the parts | `main.run` |

What is hard about it:

* **Partial failure.** A publication is up to ten packets per check and can end
  after any of them; a listing is many requests; a package run many processes.
* **Delivery.** QoS 0: `Publish` returning nil says nothing about arrival.
  Every call has a connection of its own, so packets of two calls can overtake
  each other.
* **Change underneath.** Containers, tags and packages change between the
  question of the collector and those of the resolver.
* **Shutdown.** The context is looked at in some places (dial, HTTP, exec) and
  not in others (writes); resolvers turn a cancellation into `error` checks.
* **Termination.** Deadlines exist for MQTT and single HTTP requests, not for
  package manager commands, and not for a whole listing.
* **Two parsers for one thing.** Collector and resolver each decide what a
  version is and where an image text is cut; environment and file each decide
  what a configuration is; the package manager is normalised twice; the
  configuration file has a parser of its own, three mutually recursive functions
  over indented lines.
* **Shared names.** Agents share one broker without knowing of each other; what
  keeps their topics apart is how node ids and service names are put into them.

What makes each part correct is stated in section 3, with its runs; the hazards
are listed line by line in `PROJECT.json`.

## 2. The modules

| Module | Models | Notes |
|---|---|---|
| `Publisher` | `Publish` and the MQTT client | the core; broker and network are environment actions |
| `PublisherInvariant` | | the strengthened invariants of `Publisher` (`Backing`, `Delivery`, `ClearsAreRetained`), and the mapping to `Board` |
| `Board` | | abstract: what a subscriber may rely on |
| `TopicNames` | `fieldTopic`, `sanitizeTopicSegment`, discovery topics | pure operators over sequences of characters |
| `Fleet` | many agents and one broker | composes `Publish`, as a whole, with `TopicNames` and services that come and go |
| `MqttFraming` | the lengths in a packet | writer and reader digit by digit; proved about, not run |
| `Orchestrator` | `Run`, `loop`, `runJob`, `main.run` | any number of jobs and publishers |
| `TagListing` | | abstract: what the resolver needs of a listing |
| `RegistryClient` | `listTags`, `fetchToken`, `request` | implements `TagListing` |
| `ImageReference` | `parseImageReference`, `parseRegistryReference`, `buildLatestVersionURL` | pure operators: one image text, cut by collector and resolver |
| `Pagination` | `linkNextURL` | pure operators over Link headers |
| `TagLookup` | from a container's image to the pages of its tags | composes the two above; a registry with any Link headers |
| `DockerVersions` | parsing, comparison, `determineResolution` | pure operators |
| `DockerCollector` | `Collect`'s selection, naming, ordering | pure operators over a set of containers |
| `DockerJob` | a run of the docker job | composes `DockerCollector`, `DockerVersions` and a listing as `TagListing` promises it |
| `PackageJob` | package collector with `none` and `brew_formula` | |
| `ConfigDocument` | the parser of the YAML subset | state and steps of the parser, the recursion as a stack of frames |
| `ConfigValues` | texts, numbers, defaults, resolver types | shared by the next two |
| `ConfigEnv`, `ConfigFile` | `Load`, `LoadFromFile` | pure operators |
| `Startup` | `main.run` up to the running orchestrator, `Build`, the `New` functions | composes `ConfigEnv`, `ConfigFile` and the steps of `ConfigDocument` |
| `MC...` | | instances for TLC |
| `PublisherProofs` | | theorems about `Publisher` and `MqttFraming` |
| `FleetProofs`, `OrchestratorProofs`, `RegistryClientProofs`, `DockerJobProofs`, `PackageJobProofs` | | theorems about the module each is named after |
| `StartupProofs` | | theorems about `Startup` and, within it, the parser of `ConfigDocument`; that environment and file agree |
| `TagLookupProofs` | | theorems about `TagLookup`, with lemmas about `ImageReference` and `Pagination` |

### How state and actions correspond to the code

**Publisher.** `pc` is the place in `Publish`: before `Dial`'s TCP connect, in
the handshake, in the loops over checks and topics (`check`, `step`), or outside
(`idle`); `down` is a process that is not running.  One action is one packet:
`WritePacket` is one `Client.Publish` that returns nil, together with the loop
control behind it (`Advance`).  A connection is named by the number of the call
that opened it; `wire[c]` holds what was written to it and not yet processed by
the broker, `live` the last message the broker distributed on a topic, `kept`
the retained one.  Payloads are abstracted to a *stamp*, the number of the check
they come from, because the properties ask whether values belong together, not
what they say.  `clearRetained` is a packet that is empty and retained, whatever
the `retain` setting.  `Deliver` and `Break` are the network and the broker;
`Stop`, `Restart` and `Cancel` are what happens to the process, `Restart` with
other settings perhaps.

**Fleet.** One `Write` is one topic of one check, as in `Publisher`, but what is
written arrives at once: the question here is not when packets arrive but whose
topics they are.  `present[n]` is what a collector would find, changed by
`Change` between and during cycles; `Publish(n)` hands it over in any order,
`Fail(n)` ends a call anywhere.  A blank optional field clears its topic.  A
topic is a record of the kind, which stands for the constant parts (entity type
and suffix), and a path of characters; `Joint` is the underscore that both
replaces characters and joins node and service.

**MqttFraming.** The packet is any; there is nothing to bound, so this module
has theorems and no run.  `WriteDigit` is one turn of the loop of
`encodeRemainingLength`, the `Read...` actions one turn of `readPacket`'s.  The
broker's reader is not in the repository; `readPacket`, which reads packets of
the same standard, stands for it.

**Orchestrator.** `at[j]` is where job `j` is: in one of the calls of `runJob`,
in the `select` of `loop` (`wait`), or without goroutine (`idle`).  `tick[j]` is
the one slot of the ticker's channel.  `main` follows `Run`.  What collectors
and resolvers compute is one bit (is there anything to publish); `tainted[j]`
says that `Resolve` ran under a cancelled context, so that its checks may be
errors made up by the shutdown.  With `-once` the same steps return to `Run`
(`EndRun`).

**RegistryClient.** `pc` is the request under way.  `cursor` stands for
`nextURL`: with the pagination of the distribution API a Link names the last tag
of its page.  `Page(last)` is a response up to tag `last` and what the loop does
with it; `Unauthorized` and `TokenGranted` are the 401 branch; `RequestFails` is
every other outcome.  `steady` and `seen` are history variables shared with
`TagListing`.

**ImageReference, Pagination, TagLookup.** An image text is a sequence of words
and separators.  `Images` are written the way Docker writes references, `Others`
are arbitrary texts.  `Collect` cuts as the collector does, `Resolve` as the
resolver does, `Page` and `NoPage` are the turns of the loop of `listTags`.
`RegistryClient` has a registry that sends Link headers as the distribution API
words them, with tokens and failures; here requests succeed, but a page comes
with any Link fields that are true of it: `next`, `prev`, `first` and `last` in
any order, in one field or two.  `exact` says whether a next link is written
`rel="next"` to the letter, which is all the code looks for; HTTP allows it
without quotes, in capitals, with blanks around the equals sign or with other
relations between the quotes.  A target is absolute or rooted, or it is `invalid`
(`url.Parse` refuses it, and the listing ends as if complete), `astray` (relative,
or with a semicolon in its path: the code resolves it against the host alone, and
ends it at the first semicolon) or `cut` (a semicolon in front of its cursor: the
list begins again).  `nextURL` is a page, nothing, or a place that is no tag list
(`Elsewhere`).  Such a place answers with an error or with something that cannot
be decoded, which fails the listing, or with a JSON object without tags, which
the code takes for a last page (`NoPage`).

**DockerVersions, DockerCollector, DockerJob.** A version text is a record of
what the regular expression takes apart (`v`, the numbers, the suffix); texts
that do not match are words.  `Parses` differs from `parseVersionTag` by the
range of an `int`, as in the code.  Go's sort is unstable, so
`determineResolution` is the set of the resolutions it may return, and
`Snapshots` a set of orders.  `DockerJob` has one action per branch of the loop
in `Resolve`: `Unsupported`, `AskForTags` with `ListingAnswers` or
`ListingFails`, `FromCache`.

**PackageJob.** One action is one process started for the package manager.
Versions are numbers in the order of their release.

**ConfigDocument.** A line is a record of its indentation, its form and its key
and value.  A frame of `stack` is a pending call of `parseConfigMap` or
`parseConfigList`; `next` is the shared index, `values` the nodes built so far,
by path.  Each action is one branch of the two loops; `CloseBlock` is the return
of a call.  `TrimDocument` is `strings.TrimSpace` of the whole text, which takes
blank lines and the indentation of the first line away: a document whose first
line is indented is read as if that line began at the margin.  A line can
keep the scanner from going on (`Unscanned`): by a tab, which is named in the
error, or by its length, as a `bufio.Scanner` ends at a line beyond 64 KiB, and
that error names no line (`RefuseScan`, `ScanError`).  In the list loop
the branch for a deeper line after an item without a value is never reached, as
an item that is trimmed and begins with "- " has one.  The module has no
specification of its own: `Startup` begins with the document `Unread` and takes
the steps `Parse` (`ParseFile`).

**ConfigValues, ConfigEnv, ConfigFile, Startup.** A text is a word with two
flags, whether it is padded and whether it is in capitals, so that `TrimSpace`
and `ToLower` do what they do; numbers, durations and URLs are tables from words
to what the standard library makes of them.  Numbers have two: `Numbers` for
`strconv.Atoi`, and `Wholes` for JSON numbers, which may be written `8883.0` or
`1e3` as well (`Whole`).  A refusal is named after the
setting it is about, and refusals are in the order of the code.  A document
gives a node for each path of keys, so that YAML and JSON are the same to
`ConfigFile`: a JSON document is given as nodes, a YAML file as lines, and
`Parsed` makes nodes of what the parser found.  `Startup` takes the source
`main.run` takes, parses if it is YAML, then builds.  `DocumentOf` says, apart
from the code, which document means the same as an environment: one node for
each variable that is set, and the mappings around it.  `YamlOf` writes a
document as lines, a line for each path in the order `PathOrder`, and `LinesOf`
is the two together.  `IsEnvironment` is what an environment can be.

## 3. Runs

All bounds are constants of the `.cfg` files.

| Run | Instance | Shows |
|---|---|---|
| `publisher` | two services, two calls, three batches (none, two services, one service twice), two settings, 1.9 million states | `VerdictIsBacked`: no service is ever shown with a verdict newer than the values behind it; `NoOldNews`: no topic goes back; `SuccessIsWhole`: nil plus a drained connection means all topics are there; `ImplementsBoard` (refinement) |
| `publisher_overlap` | one service, two calls whose connections may overlap | `BlankIsBlankForEveryone`, `CallReturns` |
| `fleet` | three nodes, two whose ids sanitise alike, one with two services that sanitise alike; up to two cycles | `FieldsAreOwn`: no node shows in the fields of another; `StaleMeansGone`: what is left behind is of services that are gone; `EntityHasState`; `ApartNodesKeepDevices` |
| `fleet_devices` | two nodes whose ids continue each other | **violated**: `ServicesOnTheirDevice`, see section 6 |
| `orchestrator` | two jobs, two publishers, once or continuously | shutdown and failure properties, `SignalEndsProcess`, `LoopGoesOn` |
| `registry_client` | three tags, two listings, two expiries, all kinds of registry | `ImplementsTagListing` (refinement), `Collected`; `ListingEnds`: a listing ends if the registry accepts its own tokens, and after a cancellation in any case |
| `registry_refuses` | a registry that rejects its tokens | **violated**: `ListingReturns`, see section 6 |
| `tag_lookup` | 300 images, all texts of up to five words and separators; for one image, three pages with all headers of up to two links | `CutsAgree`: both parsers cut at the same place, and that is the tag; `AskedWhereItIs`: the right repository is asked and linked; `OnlyMisreadShortens`: which headers shorten a list, and that no others do; `UnderstoodListingEnds` |
| `docker_job` | four hosts of three or four containers, five tags, two changes of the registry | `VerdictsAreTrue`, `SameImageSameVerdict`, `VerdictIsAboutReported`, `EveryWatchedOnce` |
| `docker_opt_in` | two hosts with containers that opt in | **violated**: `OptInNeedsWatchLabel`, see section 6 |
| `package_job` | two packages, three versions, two runs | `AllOrNothing`, `LatestIsNewer`, `CurrentUnlessTouched` |
| `startup` | a working configuration with up to two settings changed, from environment, JSON and YAML; odd JSON documents; every YAML file of three lines of any form, of four lines that make structure | `RunnableJob`, `ResolverFitsManager`; `SourcesAgree`: environment and file mean the same; `TreeIsIndentation`: the tree is what indentation says; `BlamesFirstMisfit`: an error names the right line, or none for a line that is too long or a list |

Why the bounds are enough to be interesting: two calls are needed for a call
that is cut short followed by another one, and two checks for one that stops in
the middle of a batch; a batch that lists a service twice covers several
containers of one compose service.  Three tags give listings of up to three
pages, with a token that expires between any two.  Hosts are chosen so that
every rule of `detectVersion`, `serviceName` and `shouldExclude` decides for
some container: tag and label disagree, a digest without tag, a moving tag, a
number beyond `int`, another registry.  In `package_job`, three versions allow
an upgrade and a release between any two questions.  The ids of `fleet` are
chosen so that sanitised forms coincide, and those of `fleet_devices` so that
one continues the other.  Three lines and three indentations allow a return over
two blocks at once; the fourth line comes behind it.  Two settings at a time are
enough to meet the pairs the code looks at together (collector and manager,
password and user, switch and alias).

`VerdictsAreTrue` also has the reverse: the latest version beside a `current`
verdict is no older tag unless the deployed one is not in the list.
`SourcesAgree` compares only what both sources can say (`Comparable`): a file
cannot name a resolver nor use the alias of the Home Assistant switch, does not
need a publisher type, and takes a blank value or a padded password another way
than the environment does.  Nor does a YAML line hold every text: `SourcesAgree`
and its theorem are about texts without line breaks and tabs, on lines below
64 KiB.

`EveryWatchedOnce` is about failures, not about interleaving: the snapshot is a
value that nobody else changes, but each of its observations may leave the loop
of `Resolve` early, by one of three branches.

Deadlock is checked in `Publisher`, in `RegistryClient` and in `Startup`, where
every state before the end (`Over`) has a next step, so that neither the parser
nor what follows gets stuck on any document.  It is not checked where the system
does stop: a process that has exited (`Orchestrator`), a listing that has
returned (`TagLookup`), runs that have used up their bound (`DockerJob`,
`PackageJob`, `Fleet`).

### Assumptions on the environment

* The network delivers a prefix of what was written to a connection, in order.
* With `Overlap = FALSE` the broker has finished with an older connection (it
  processed or lost its packets) before the next call connects.  The interval
  between two runs makes this the normal case, and `VerdictIsBacked`,
  `SuccessIsWhole` and `NoOldNews` depend on it; `publisher_overlap` drops it.
* A registry lists tags in order and names the last one of a page in its Link.
  `TagLookup` drops the second half.
* In `TagLookup`, links are true: they are meant to lead where their relations
  say, every link has a relation, as RFC 8288 demands, and each page but the last
  has a next link somewhere.  A place that is no tag list sends no Link.
  `strings.ToLower` makes words of words.
* In `Fleet`, node ids are different, and a packet that is written arrives.
  `Change` is bounded by the cycles: changes behind the last one are not seen.
* Packages are not downgraded; the administrator is otherwise unrestricted.

### Fairness

* `Publisher`: only deadlines fire for certain: the dial timeout, the deadline
  of the handshake (client.go:72) and of each write (client.go:39-43).  Neither
  answers of the broker nor deliveries are assumed.
* `RegistryClient`: a request that was sent ends, because the HTTP client has a
  timeout of 20 seconds; which way it ends is left open.  `ListingEnds` is about
  registries that accept the tokens they hand out and do not let tokens expire
  for ever (`MaxExpiries`), or a cancelled context.
* `TagLookup`: requests are answered or ended by the timeout of the HTTP client
  (weak fairness of `Page \/ NoPage`); cutting texts waits for nothing.
* `Orchestrator`: `Run` proceeds, tickers tick, and a run step is certain to end
  only when the context is cancelled, since exec and HTTP calls are bound to it.
  A package manager that hangs has no deadline, so nothing is assumed of an
  uncancelled step.  That a cancelled command ends is slightly more than
  `exec.CommandContext` promises: it kills the process it started, but without a
  `WaitDelay` it waits for the output pipe to close, which a grandchild could hold
  open beyond the signal; the model takes it that none does.  `select` chooses at
  random, hence strong fairness for its cancelled case.  `LoopGoesOn` says that
  another run comes; runs of a job cannot pile up, as its loop is one goroutine.

## 4. Proved

Checked by TLAPS for every value of the constants under the `ASSUME`s of the
modules (at least one job and one publisher; batches are sequences of checks;
counters are natural numbers).

* **OrchestratorProofs.** `NoShutdownVerdicts`, `NothingCutShort`,
  `OnceExitTellsAll` and `FailureEndsNothing`, for any number of jobs and
  publishers.  The properties are not inductive.  `IInv` adds what they rest on:
  checks can be tainted only if the context is cancelled (`Taint`), so that
  `Dials`, which needs a live context, cannot send them; with `-once` there is
  at most one job in a run, and all before it succeeded (`Once`); the exit code
  agrees with the outcomes, and a process without `-once` leaves `Run` only
  after a cancellation and with all jobs idle (`Exits`).
* **RegistryClientProofs.** `Collected` is inductive together with types and the
  link between `pc` and `answer` (`Busy`); from it, `Refinement`:
  `RegistryClient` implements `TagListing`.  The last page maps to the answer,
  an error to an error, every other step of the client to a stutter.
* **PublisherProofs.** First without any assumption on connections: types and
  the position of a call within its batch and its sequence of topics
  (`Position`, which the write of a packet needs), and
  `BlankIsBlankForEveryone`, from the fact that every blank packet under way is a
  retained one (`ClearsAreRetained`): packets of overlapping calls may arrive in
  any order, since each delivery settles both values of its topic at once.
  Then with `~ Overlap`: `Backing` is an invariant, by the argument of section 5,
  for any number of services, calls, checks and settings; from it
  `VerdictIsBacked` (from `Staircase` alone), `NoOldNews` (from `Newer`, since
  only a delivery changes what the broker has) and `BoardImplemented`: what the
  broker has implements `Board`, a delivery being a `Show` or a stutter.
  `SuccessIsWhole` needs more than `Backing`, which says what is not ahead but
  not what has come: `Delivery` adds that what is under way was written by the
  current call (`OwnPackets`), and that each packet it has written for the last
  check of a service is under way or at the broker, unless the connection broke
  (`NothingMissing`).
  Last, `MqttFraming`: `Lockstep` is inductive, as what was read and what is
  still to be written make up the length.  From it `LengthArrives`;
  `TopicEndsRight` is arithmetic of two bytes.  For packets of every length.
* **DockerJobProofs.** `VerdictsAreTrue`, `SameImageSameVerdict`,
  `VerdictIsAboutReported` and `EveryWatchedOnce`, for any hosts, version texts,
  number of runs and changes of the registry.  Lemmas on `DockerVersions` come
  first: the comparison of versions of one length is an order, and whatever list
  an unstable sort leaves, the resolutions of one version against one list of
  tags have the same status and the same numbers (`ResolutionUnique`), which are
  true of that list (`ResolutionTrue`).  The invariant of a run, `RunInv`, says
  that the snapshot is one of those of the containers taken (`SnapshotOfTaken`),
  that a cached list has every tag that was there throughout its listing and
  none that never was (`CacheIsHonest`), and that each check follows from its
  observation and a list that is still cached (`ChecksFollow`), so that two
  checks of one repository follow from the same list.
  `EveryWatchedOnce` rests on `NamesAssumption`: names of containers are unique
  on a host.
* **StartupProofs.** The parser first, for documents of any length, depth and
  content.  `TreeIsIndentation` and `BlamesFirstMisfit` describe the result by
  the lines that enclose a line, which no frame of the parser names.  `ParserInv`
  closes that gap: a document that is parsed was scanned to its end; each
  pending frame has the line it began with, right below the line that opened it,
  and no line since then is shallower (`Pending`); a key without a value is
  followed by its block (`Opened`); lines left behind are deeper than the one
  looked at or end with the block on top (`Dedents`); lines of one block are
  equally deep (`Nested`); every line read so far fits; and the tree so far has
  a node for each of them, under the path of the lines that enclose it, and no
  other (`TreeSoFar`). From there, a dedent over any number of blocks returns to
  the block that indentation says.
  `RunnableJob` and `ResolverFitsManager` follow from the order of refusals:
  what the chain of checks of a source did not refuse, `Build` can rely on
  (`StartInv` keeps the loaded configuration and the job beside what they are
  computed from).

  `SourcesAgree` compares two programs, `Load` over an environment and
  `LoadFromFile` over the document that says the same, for every environment: each
  of the twenty settings both read is set or not, to any text that is not blank,
  and the package names are a list of any length.  The proof has three parts.  *The file is
  understood*: the lines of `LinesOf` fit (`YamlUnderstood`), as each path of the
  order comes after the mapping it is in, with nothing shallower than itself in
  between (`PathNesting`); so the parser does not refuse them, for by `BlamesFirstMisfit`
  it would have to blame one, and by `TreeIsIndentation` the tree is the
  one of their indentation, which is `DocumentOf` again.  *The settings are the
  same*: each reader of the file, on the node at the path of a variable, returns
  what the reader of the environment returns for the variable (`TextRead`,
  `NamesRead`, `HomeAssistantRead`, together `SettingsRead` and `SameSettings`;
  the Home Assistant settings agree in what they mean, not in how they are kept),
  and no key of such a document is unknown (`NoUnknownKeys`).  *The job is the
  same*: the two chains of refusals differ in length and order, so it is shown
  that one refuses exactly if the other does (`SameRefusal`), but for a document
  without an MQTT section, which is refused at once where the environment is
  refused by `Build` for want of a host; and `Build` makes the same of both
  configurations (`SameJob`).  `SourceInv` carries the source through the run:
  which input the process was started with, that the parser had ended when the
  file was taken, and that the process exits for a refusal only.

  All this is for any inputs; the assumptions say that the tables of numbers and
  durations hold integers, that the marks `Unset`, `Malformed` and `Nothing` are
  none of the values they stand beside, that inputs have their fields, with an
  environment (`IsEnvironment`) among them, that the known keys are keys
  (`SourcesAssumption`), and that names are in an order without repetition.
* **TagLookupProofs.** `OnlyMisreadShortens` for any number of pages and any true
  Link headers.  It is not inductive: `Walk` adds that the pages in front of the
  one asked for have been visited unless a link was misread on the way, as a link
  leads one page on, back, or to the last page (`NextPage`).  Then
  `CutsAgree` and `AskedWhereItIs`, for images whose host, path, tag and digest
  are any texts Docker accepts.  Both are about one step from a text to what is
  found in it (`Finds`), so the work is in the lemmas: where the first and last
  separators of a text made of parts stand (`IndexIs`, `LastIndexIs`, `Marks`),
  what is left after a cut (`ImageIsCut`, `HostIsSplit`), and what that is looked
  up as (`LookedUp`, `LinkLeads`).  `LookupAssumption` says what Docker accepts:
  parts are free of separators but for the colon of a port, and the first part is
  a host exactly if it looks like one.
* **PackageJobProofs.** `AllOrNothing`, `LatestIsNewer` and
  `CurrentUnlessTouched`, for any number of packages, versions and runs.  `IInv`
  adds how far a run is (`Progress`) and what time does to an observation
  (`Aging`): it is never newer than what is installed, unless the package was
  removed, and just that if nothing was touched; so brew's answer of a later
  moment can be set beside it.
* **FleetProofs.** Lemmas on names first: `FieldTopicsApart` and
  `DiscoveryTopicsApart` say when two topics are equal, for any node ids and
  service names, from what `sanitizeTopicSegment` returns.  Then the invariant
  of a fleet of any size: `TypeOK`, `Position` (where a call is in its batch),
  `NotAhead` (no topic shows a cycle that has not begun), `FieldsAreOwn`,
  `Progress` (what the call under way has written), `EntityHasState`.
  `StaleMeansGone` and `ApartNodesKeepDevices` need what `Progress` knows at the
  end of a cycle.

Model-checked only:

* liveness (`CallReturns`, `SignalEndsProcess`, `LoopGoesOn`, `ListingReturns`,
  `ListingEnds`, `UnderstoodListingEnds`), which needs `ENABLED` and is beyond
  the prover;
* the three disagreements of section 6, which are violated.

Two things limit how the proofs are written.  The library's induction theorems
take an operator as a parameter, which the provers cannot instantiate: a fact
about all numbers is proved from the least element of the set where it fails
(`LeastNumber`), and what a recursive function computes from its values at the
numbers below (`RegistriesExist`, `RegistryHeaders`).  And the modules proved
about have no RECURSIVE operator.

## 5. Why a torn publication stays honest

The fields of a check are written before its verdict, its verdict before its
discovery topics, and a call that fails is not resumed: the next one starts over
with newer checks.  So what the broker has of one service is a *staircase*: a
topic that is written later never shows a newer check (`Staircase`).  For this
to be preserved by a delivery, whatever a packet follows must have arrived
before it or be ahead of it (`NoGap`), which holds because a connection loses a
suffix, never the middle; and no packet may be older than what is there
(`Newer`), which holds because stamps grow and only one connection has packets
(`OneWire`, `InOrder`).  A call starts with the first packet of its first check
(`FirstPacket`), so nothing can be missing before it.  `Backing` is the
conjunction.

## 6. Disagreements found

* `registry_refuses`: `listTags` (resolver.go:352-362) answers a 401 with a new
  token and asks again, without limit.  A registry that hands out a token and
  then rejects it, as Docker Hub does for repositories that do not exist or are
  private, keeps the job in that loop until a signal.  README.md:316 promises a
  check with `error`.
* `docker_opt_in`: with `watch_by_default: false`, a container with
  `up2date.enable=true` is watched as well (collector.go:32-35); README.md:150
  and README.md:303 say that only `up2date.watch=true` does.
* `fleet_devices`: discovery topics join node and service with an underscore
  (publisher.go:224), which both may contain.  The node `a` with the service
  `b_c` and the node `a_b` with the service `c` take an entity from each other;
  README.md:203 promises all services of a node under its device.
  `ApartNodesKeepDevices` is what does hold.

## 7. Not modelled

* The flag bytes of CONNECT and the payloads of discovery topics but for the
  topics they point to.
* JSON: documents are decoded by `encoding/json`, so are the answers of
  registries and Docker; the output of package managers.  They are modelled by
  their outcomes (usable or not).
* The challenge header of a 401 (`parseBearerChallenge`), by whether it yields a
  token.
* What characters make a number, a duration or a URL: tables in `MCStartup`.  In
  Link headers, by how a link is written: which texts `url.Parse` refuses, and
  parameters with semicolons, commas or `rel="next"` inside a quoted value.
* The wording of errors; logging; timestamps; the Docker image and the examples.

Nothing promises, and no property says, that an explicit resolver fits the
collector: `UP2DATE_RESOLVER_TYPE=docker` beside the package collector is
accepted.  The example for macOS in README.md:266-276 sets the package manager
to `MQTT_HOST`, with which the process exits (config.go:113); that is a slip of
the example and has no run.

## 8. Plan

Every invariant, action property and refinement that a run shows to hold is
proved; liveness is what stays with TLC.  `SourcesAgree` speaks of YAML that is
written in one way, two blanks for each level and all values in double quotes;
what other layouts mean is said by `TreeIsIndentation`.  A theorem that the tree
depends on the order of indentations only, not on their widths, would join the
two for every layout.

An agent composed of orchestrator, resolver and publisher would add nothing:
`NoShutdownVerdicts` and `NothingCutShort` say what reaches a publisher,
`SuccessIsWhole` what becomes of it.
