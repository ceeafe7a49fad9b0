------------------------------ MODULE Startup ------------------------------
(***************************************************************************)
(* From the start of the process to a running orchestrator: main.run picks *)
(* the source of the configuration, loads it and builds the one job of it  *)
(* with the constructors of collector, resolver and publisher (main.go,    *)
(* build.go and the New functions of the parts).  A YAML file goes through *)
(* the parser of ConfigDocument line by line.                              *)
(***************************************************************************)
EXTENDS ConfigEnv, ConfigFile, ConfigDocument

CONSTANTS
  Inputs,     \* what a process may be started with, a sequence of sets
  Urls,       \* the endpoints that are not empty: begins with a slash or not,
              \* and scheme, host and path as url.Parse finds them
  NameOrder   \* package names in the order of sort.Strings

\* flag and variable: the two ways to name a file; json is the document as
\* encoding/json decodes it, Malformed if there is none or the file cannot be
\* read, and Unset for a YAML file, whose lines are yaml; hostname is Unset if
\* it cannot be found.
InputFields == {"flag", "variable", "json", "yaml", "env", "hostname"}

\* A YAML file has lines, and package names are sorted in one order.
ASSUME StartupAssumption ==
  /\ \A k \in DOMAIN Inputs : \A i \in Inputs[k] :
       /\ DOMAIN i = InputFields
       /\ IsDocument(i.yaml)
  /\ NameOrder \in Seq(STRING) /\ IsInjective(NameOrder)

VARIABLES
  pc,       \* "start", "loaded", "running" or "exit"
  input,    \* what the process was started with
  loaded,   \* the configuration that was loaded
  job,      \* the job the orchestrator runs
  refusal   \* what made the process exit

own  == <<pc, input, loaded, job, refusal>>
vars == <<own, documentVars>>

-----------------------------------------------------------------------------
(***************************************************************************)
(* The constructors.                                                       *)
(***************************************************************************)
Socket(path) == [scheme |-> "unix", target |-> path]

\* Where the docker collector connects to; Malformed if the endpoint is none.
resolveEndpoint(raw) ==
  LET t   == TrimSpace(raw)
      url == Urls[t.word]
  IN  IF t = Empty THEN Socket("/var/run/docker.sock")
      ELSE IF url.slash THEN Socket(url.path)
      ELSE IF url.scheme = "unix"
      THEN IF url.host = "" /\ url.path # "" THEN Socket(url.path) ELSE Malformed
      ELSE IF url.scheme \in {"tcp", "http", "https"} /\ url.host # "" /\ url.path \in {"", "/"}
      THEN [scheme |-> url.scheme, target |-> url.host]
      ELSE Malformed

\* The package manager asked, written apart from the resolver's derivation.
normalizeManager(t) ==
  LET m == TrimSpace(ToLower(t)) IN IF m = Empty THEN Plain("dpkg") ELSE m

newVersionLookup(manager) ==
  LET m == normalizeManager(manager)
  IN  IF m = Plain("dpkg") THEN "dpkg"
      ELSE IF m \in {Plain("brew"), Plain("homebrew")} THEN "brew"
      ELSE Malformed

\* Names are distinct and sorted.
normalizeNames(texts) ==
  LET kept == {NonBlankItems(texts)[i].word : i \in DOMAIN NonBlankItems(texts)}
  IN  FlattenSeq([k \in DOMAIN NameOrder |->
                    IF NameOrder[k] \in kept THEN <<NameOrder[k]>> ELSE <<>>])

PublisherRefuses(c) ==
  \/ c.host = Empty
  \/ c.password # Empty /\ c.username = Empty
  \/ c.connectTimeout # Empty /\ PositiveDuration(c.connectTimeout) = Malformed

NewCollector(c) ==
  IF c.collector = Plain("docker")
  THEN [lookup |-> "docker", names |-> <<>>, endpoint |-> resolveEndpoint(c.endpoint),
        includeStopped |-> Default(c.includeStopped, TRUE),
        watchByDefault |-> Default(c.watchByDefault, TRUE)]
  ELSE [lookup |-> newVersionLookup(c.manager), names |-> normalizeNames(c.names),
        endpoint |-> Unset, includeStopped |-> Unset, watchByDefault |-> Unset]

CollectorRefuses(c) ==
  IF c.collector = Plain("docker") THEN resolveEndpoint(c.endpoint) = Malformed
  ELSE newVersionLookup(c.manager) = Malformed \/ normalizeNames(c.names) = <<>>

NewPublisher(c) ==
  [host |-> c.host, username |-> c.username, password |-> c.password,
   port |-> IF c.port = 0 THEN 1883 ELSE c.port,
   topicPrefix |-> firstNonEmpty(c.topicPrefix, Plain("up2date")),
   clientIDPrefix |-> firstNonEmpty(c.clientIDPrefix, Plain("up2date")),
   connectTimeout |-> IF c.connectTimeout = Empty THEN 10
                      ELSE PositiveDuration(c.connectTimeout),
   retain |-> Default(c.retain, TRUE),
   haEnabled |-> IF c.homeAssistant = Unset THEN FALSE ELSE c.homeAssistant.enabled,
   haDiscoveryPrefix |-> IF c.homeAssistant = Unset THEN Plain("homeassistant")
                         ELSE firstNonEmpty(c.homeAssistant.prefix, Plain("homeassistant"))]

NewResolver(c) ==
  IF c.resolver.word \in {"docker", "docker_hub"} THEN "docker" ELSE c.resolver.word

BuildRefusal(c) ==
  FirstRefusal(Refuse("build collector", CollectorRefuses(c))
               \o Refuse("build publisher", PublisherRefuses(c)))

Build(c) ==
  [node |-> c.node, name |-> c.job, interval |-> c.interval,
   collector |-> NewCollector(c), resolver |-> NewResolver(c),
   publisher |-> NewPublisher(c)]

-----------------------------------------------------------------------------
Init ==
  /\ pc = "start"
  /\ \E k \in DOMAIN Inputs : input \in Inputs[k]
  /\ loaded = Unset
  /\ job = Unset
  /\ refusal = "none"
  /\ Unread(input.yaml)

\* The flag comes before the variable; without either the environment is read.
ConfigPath == firstNonEmpty(TrimSpace(input.flag), TrimSpace(input.variable))

\* A scalar as a text; with a stray quote it is another one.
TextOf(scalar) ==
  IF scalar.open = "none" /\ scalar.close = "none" THEN scalar.word
  ELSE [scalar.word EXCEPT !.word = "stray quote"]

\* What the parser made of a YAML file, as nodes of a document.
Parsed ==
  [p \in DOMAIN values |->
     LET texts == [i \in DOMAIN values[p].items |-> TextOf(values[p].items[i])]
     IN  [kind |-> IF values[p].kind = "scalar" THEN "string" ELSE values[p].kind,
          text |-> IF values[p].kind = "scalar" THEN texts[1] ELSE Empty,
          items |-> texts]]

Nodes == IF input.json # Unset THEN input.json ELSE IF status = "ok" THEN Parsed ELSE Malformed

FromFile ==
  IF Nodes = Malformed THEN [refusal |-> "document", config |-> Unset]
  ELSE buildConfigFromDocument(Nodes, input.hostname)

FromEnv == Load(input.env, input.hostname)

Take(result) ==
  /\ pc = "start"
  /\ IF result.refusal = "none" THEN pc' = "loaded" /\ loaded' = result.config
                                ELSE pc' = "exit" /\ UNCHANGED loaded
  /\ refusal' = result.refusal
  /\ UNCHANGED <<input, job, documentVars>>

\* The parser takes a step.
ParseFile ==
  /\ pc = "start"
  /\ ConfigPath # Empty /\ input.json = Unset
  /\ Parse
  /\ UNCHANGED own

LoadFile ==
  /\ ConfigPath # Empty
  /\ input.json = Unset => status \in {"ok", "error"}
  /\ Take(FromFile)

LoadEnvironment == ConfigPath = Empty /\ Take(FromEnv)

BuildFails ==
  /\ pc = "loaded"
  /\ BuildRefusal(loaded) # "none"
  /\ pc' = "exit"
  /\ refusal' = BuildRefusal(loaded)
  /\ UNCHANGED <<input, loaded, job, documentVars>>

BuildSucceeds ==
  /\ pc = "loaded"
  /\ BuildRefusal(loaded) = "none"
  /\ pc' = "running"
  /\ job' = Build(loaded)
  /\ UNCHANGED <<input, loaded, refusal, documentVars>>

\* Everywhere else there is a next step: neither the parser nor what follows
\* gets stuck.
Over == pc \in {"running", "exit"} /\ UNCHANGED vars

Next == ParseFile \/ LoadFile \/ LoadEnvironment \/ BuildFails \/ BuildSucceeds \/ Over

Spec == Init /\ [][Next]_vars

-----------------------------------------------------------------------------
(***************************************************************************)
(* The document that says the same as an environment, for the settings     *)
(* both have: the key of every variable, with the variable's text.         *)
(***************************************************************************)
KeyOf ==
  [NODE_ID |-> <<"node_id">>, JOB_NAME |-> <<"job_name">>, INTERVAL |-> <<"interval">>,
   COLLECTOR_TYPE |-> <<"collector", "type">>,
   COLLECTOR_DOCKER_ENDPOINT |-> Docker("endpoint"),
   COLLECTOR_DOCKER_INCLUDE_STOPPED |-> Docker("include_stopped"),
   COLLECTOR_DOCKER_WATCH_BY_DEFAULT |-> Docker("watch_by_default"),
   COLLECTOR_PACKAGE_MANAGER |-> Package("manager"),
   COLLECTOR_PACKAGE_NAMES |-> Package("names"),
   PUBLISHER_TYPE |-> <<"publisher", "type">>,
   PUBLISHER_MQTT_HOST |-> MQTT("host"),
   PUBLISHER_MQTT_PORT |-> MQTT("port"),
   PUBLISHER_MQTT_USERNAME |-> MQTT("username"),
   PUBLISHER_MQTT_PASSWORD |-> MQTT("password"),
   PUBLISHER_MQTT_TOPIC_PREFIX |-> MQTT("topic_prefix"),
   PUBLISHER_MQTT_CLIENT_ID_PREFIX |-> MQTT("client_id_prefix"),
   PUBLISHER_MQTT_CONNECT_TIMEOUT |-> MQTT("connect_timeout"),
   PUBLISHER_MQTT_RETAIN |-> MQTT("retain"),
   PUBLISHER_MQTT_HOMEASSISTANT_ENABLED |-> Append(HomeAssistant, "enabled"),
   PUBLISHER_MQTT_HOMEASSISTANT_DISCOVERY_PREFIX |-> Append(HomeAssistant, "discovery_prefix")]

Leaf(v, value) ==
  IF v = "COLLECTOR_PACKAGE_NAMES"
  THEN [kind |-> "list", text |-> Empty, items |-> value]
  ELSE [kind |-> "string", text |-> value, items |-> <<value>>]

DocumentOf(env) ==
  LET given    == {v \in DOMAIN KeyOf : env[v] # Unset}
      mappings == {<<>>} \cup UNION {{SubSeq(KeyOf[v], 1, n) : n \in 1 .. Len(KeyOf[v]) - 1} :
                                     v \in given}
      VariableAt(p) == CHOOSE v \in given : KeyOf[v] = p
  IN  [p \in mappings \cup {KeyOf[v] : v \in given} |->
         IF p \in mappings THEN [kind |-> "map", text |-> Empty, items |-> <<>>]
         ELSE Leaf(VariableAt(p), env[VariableAt(p)])]

\* The paths of a document, each mapping before what is in it.
PathOrder ==
  <<<<"node_id">>, <<"job_name">>, <<"interval">>,
    <<"collector">>, <<"collector", "type">>,
    <<"collector", "docker">>, Docker("endpoint"), Docker("include_stopped"),
    Docker("watch_by_default"),
    <<"collector", "package">>, Package("manager"), Package("names"),
    <<"publisher">>, <<"publisher", "type">>,
    <<"publisher", "mqtt">>, MQTT("host"), MQTT("port"), MQTT("username"), MQTT("password"),
    MQTT("topic_prefix"), MQTT("client_id_prefix"), MQTT("connect_timeout"), MQTT("retain"),
    HomeAssistant, Append(HomeAssistant, "enabled"), Append(HomeAssistant, "discovery_prefix")>>

\* A document as YAML: two more blanks for each level, all values in quotes.  A
\* text stands for one that a line can carry: it has no line break, no tab, and
\* less than the 64 KiB of a line.
YamlLine(level, form, key, value) ==
  [indent |-> 2 * level, form |-> form, key |-> key, value |-> value]
InQuotes(text) == [open |-> "double", word |-> text, close |-> "double"]

NodeLines(p, node) ==
  <<YamlLine(Len(p) - 1, "entry", p[Len(p)],
             IF node.kind = "string" THEN InQuotes(node.text) ELSE Nothing)>>
  \o (IF node.kind # "list" THEN <<>>
      ELSE [k \in DOMAIN node.items |->
              YamlLine(Len(p), "item", Nothing, InQuotes(node.items[k]))])

YamlOf(doc) ==
  FlattenSeq([k \in DOMAIN PathOrder |->
                IF PathOrder[k] \in DOMAIN doc
                THEN NodeLines(PathOrder[k], doc[PathOrder[k]]) ELSE <<>>])

LinesOf(env) == YamlOf(DocumentOf(env))

\* An environment gives a text or nothing for each variable, the package names
\* as at least one part between commas.
IsEnvironment(env) ==
  /\ DOMAIN env = DOMAIN KeyOf \cup {"RESOLVER_TYPE", "PUBLISHER_MQTT_HOMEASSISTANT"}
  /\ \A v \in DOMAIN env \ {"COLLECTOR_PACKAGE_NAMES"} : env[v] \in Text \cup {Unset}
  /\ env["COLLECTOR_PACKAGE_NAMES"] \in (Seq(Text) \ {<<>>}) \cup {Unset}

\* What is missing or malformed is no document, and the keys the program knows
\* are keys.
ASSUME SourcesAssumption ==
  /\ \A k \in DOMAIN Inputs : \A i \in Inputs[k] :
       /\ IsEnvironment(i.env) /\ i.hostname \in Text \cup {Unset}
       /\ DocumentOf(i.env) \notin {Unset, Malformed}
  /\ \A k \in DOMAIN PathOrder : \A n \in DOMAIN PathOrder[k] : PathOrder[k][n] \in Keys

\* What a file cannot say, or says in another way: an explicit resolver, the
\* alias of the Home Assistant switch, no publisher type, a blank value, and a
\* password with white space around it.
Comparable(env) ==
  /\ env["RESOLVER_TYPE"] = Unset /\ env["PUBLISHER_MQTT_HOMEASSISTANT"] = Unset
  /\ env["PUBLISHER_TYPE"] # Unset
  /\ \A v \in DOMAIN env \ {"COLLECTOR_PACKAGE_NAMES"} :
       env[v] # Unset => TrimSpace(env[v]) # Empty
  /\ env["PUBLISHER_MQTT_PASSWORD"] # Unset => ~ env["PUBLISHER_MQTT_PASSWORD"].padded

-----------------------------------------------------------------------------
\* What runs can run: the ticker gets a positive interval (time.NewTicker
\* panics otherwise, orchestrator.go:82), the publisher a host, a timeout and no
\* password without a user, the collector something to look at, once each.
RunnableJob ==
  pc = "running" =>
    /\ job.interval \in Nat \ {0}
    /\ job.node # Unset /\ job.name # Empty
    /\ job.publisher.host # Empty
    /\ job.publisher.connectTimeout \in Nat \ {0}
    /\ job.publisher.password # Empty => job.publisher.username # Empty
    /\ Malformed \notin {job.publisher.port, job.publisher.retain, job.publisher.haEnabled}
    /\ job.collector.endpoint # Malformed
    /\ job.collector.lookup # "docker" =>
         job.collector.names # <<>> /\ IsInjective(job.collector.names)

\* The resolver named on purpose, if any; only the environment can.
ExplicitResolver ==
  /\ ConfigPath = Empty
  /\ TrimSpace(ToLower(Setting(input.env, "RESOLVER_TYPE"))) \notin {Empty, Plain("auto")}

ResolverOf == [docker |-> "docker", brew |-> "brew_formula", dpkg |-> "none"]

ManagerGiven ==
  IF ConfigPath # Empty THEN FileConfig(Nodes, input.hostname).manager
  ELSE EnvConfig(input.env, input.hostname).manager

\* Two functions in two packages read the package manager: the resolver derived
\* from it is always the one for the manager that is asked, and no manager the
\* collector knows is refused for want of a resolver (config.go:261,
\* collector.go of ospackage:112).
ResolverFitsManager ==
  ~ ExplicitResolver =>
    /\ pc = "running" => job.resolver = ResolverOf[job.collector.lookup]
    /\ pc = "exit" /\ refusal = "resolver" => newVersionLookup(ManagerGiven) = Malformed

\* The job a source leads to; Malformed if the process exits.
JobFrom(source) ==
  IF source.refusal # "none" \/ BuildRefusal(source.config) # "none"
  THEN Malformed ELSE Build(source.config)

\* The same settings mean the same job, or the same refusal to start, whether
\* they come from the environment or from a file, as long as their texts can stand
\* on a line of YAML (Load, LoadFromFile).
SourcesAgree ==
  /\ Comparable(input.env) /\ ConfigPath # Empty
  /\ input.json = DocumentOf(input.env) \/ (input.json = Unset /\ document = LinesOf(input.env))
  => /\ pc = "running" => job = JobFrom(FromEnv)
     /\ pc = "exit" => JobFrom(FromEnv) = Malformed
=============================================================================
