----------------------------- MODULE MCStartup -----------------------------
(***************************************************************************)
(* Environments and documents that differ from a working one in up to two  *)
(* settings, the latter as JSON and as YAML, and all short YAML files.     *)
(***************************************************************************)
EXTENDS Startup

MCNumbers   == ("0" :> 0) @@ ("8883" :> 8883)
MCWholes    == ("8883" :> 8883) @@ ("1e3" :> 1000)
MCDurations == ("0s" :> 0) @@ ("-1m" :> -60) @@ ("1m" :> 60) @@ ("5m" :> 300)
MCNameOrder == <<"go", "samba">>

Url(w, slash, scheme, host, path) ==
  w :> [slash |-> slash, scheme |-> scheme, host |-> host, path |-> path]

MCUrls ==
  Url("/run/d.sock", TRUE, "", "", "/run/d.sock")
  @@ Url("unix:///run/d.sock", FALSE, "unix", "", "/run/d.sock")
  @@ Url("unix://run", FALSE, "unix", "run", "")
  @@ Url("tcp://proxy:2375", FALSE, "tcp", "proxy:2375", "")
  @@ Url("https://proxy/v1", FALSE, "https", "proxy", "/v1")
  @@ Url("proxy:2375", FALSE, "proxy", "", "")

Cased(w)  == [Plain(w) EXCEPT !.cased = TRUE]
Padded(w) == [Plain(w) EXCEPT !.padded = TRUE]

Switches == {Plain("true"), [Cased("off") EXCEPT !.padded = TRUE], Plain("2"), Empty}

\* The values tried for each variable besides the base environment's.
Tried ==
  ("NODE_ID" :> {Unset, Padded("")})
  @@ ("JOB_NAME" :> {Padded("nightly")})
  @@ ("INTERVAL" :> {Padded("5m"), Plain("0s"), Plain("-1m"), Plain("5"), Empty})
  @@ ("COLLECTOR_TYPE" :> {Unset, Plain("docker"), Cased("docker"), Padded("package")})
  @@ ("COLLECTOR_DOCKER_ENDPOINT" :> {Padded(w) : w \in DOMAIN MCUrls})
  @@ ("COLLECTOR_DOCKER_INCLUDE_STOPPED" :> Switches)
  @@ ("COLLECTOR_DOCKER_WATCH_BY_DEFAULT" :> Switches)
  @@ ("COLLECTOR_PACKAGE_MANAGER" :>
        {Empty, Plain("brew"), Plain("dpkg"), Padded("dpkg"), [Cased("homebrew") EXCEPT !.padded = TRUE],
         Plain("apt")})
  @@ ("COLLECTOR_PACKAGE_NAMES" :>
        {Unset, <<Padded("")>>, <<Plain("samba"), Padded("go"), Plain("samba"), Empty>>})
  @@ ("RESOLVER_TYPE" :> {Plain("auto"), Cased("docker_hub"), Plain("none"), Plain("apt")})
  @@ ("PUBLISHER_TYPE" :> {Unset, Plain("http")})
  @@ ("PUBLISHER_MQTT_HOST" :> {Unset, Padded("broker")})
  @@ ("PUBLISHER_MQTT_PORT" :> {Plain("8883"), Padded("8883"), Plain("0"), Plain("x"), Empty})
  @@ ("PUBLISHER_MQTT_USERNAME" :> {Plain("user"), Padded("")})
  @@ ("PUBLISHER_MQTT_PASSWORD" :> {Plain("secret"), Padded("secret")})
  @@ ("PUBLISHER_MQTT_TOPIC_PREFIX" :> {Plain("versions")})
  @@ ("PUBLISHER_MQTT_CLIENT_ID_PREFIX" :> {Plain("agent")})
  @@ ("PUBLISHER_MQTT_CONNECT_TIMEOUT" :> {Plain("5m"), Plain("0s"), Plain("5")})
  @@ ("PUBLISHER_MQTT_RETAIN" :> Switches)
  @@ ("PUBLISHER_MQTT_HOMEASSISTANT_ENABLED" :> Switches)
  @@ ("PUBLISHER_MQTT_HOMEASSISTANT" :> {Plain("true"), Plain("2")})
  @@ ("PUBLISHER_MQTT_HOMEASSISTANT_DISCOVERY_PREFIX" :> {Plain("ha")})

Variables == DOMAIN Tried

Base ==
  ("NODE_ID" :> Plain("node")) @@ ("COLLECTOR_TYPE" :> Plain("package"))
  @@ ("COLLECTOR_PACKAGE_NAMES" :> <<Plain("samba")>>)
  @@ ("PUBLISHER_TYPE" :> Plain("mqtt")) @@ ("PUBLISHER_MQTT_HOST" :> Plain("mqtt"))
  @@ [v \in Variables |-> Unset]

Changed(env, v) == {(v :> value) @@ env : value \in Tried[v]}

Environments ==
  {Base} \cup UNION {Changed(Base, v) : v \in Variables}
  \cup UNION {UNION {Changed(env, w) : env \in Changed(Base, v)} :
                v, w \in Variables}

Start(path, json, yaml, env) ==
  [flag |-> path, variable |-> Empty, json |-> json, yaml |-> yaml, env |-> env,
   hostname |-> Plain("host")]

FromYaml(yaml, env) == Start(Plain("up2date.yml"), Unset, yaml, env)

Node(kind, w) == [kind |-> kind, text |-> Plain(w), items |-> <<Plain(w)>>]
Odd == {Node("string", "true"), Node("bool", "false"), Node("number", "8883"),
        Node("number", "1e3"), Node("number", "1.5"), Node("map", ""), Node("other", "")}

OddPaths ==
  {<<"node_id">>, <<"interval">>, <<"resolver">>, <<"unknown">>, Append(Collector, "type"),
   Append(Collector, "unknown"), Package("manager"), Package("names"), <<"publisher", "type">>,
   MQTT("port"), MQTT("retain"), MQTT("password"), HomeAssistant,
   Append(HomeAssistant, "enabled"), Append(HomeAssistant, "unknown")}

\* The base document with one node that no text of the environment gives.
OddDocuments ==
  {(p :> n) @@ (IF Len(p) = 4 THEN (HomeAssistant :> Node("map", "")) ELSE <<>>) @@ DocumentOf(Base) :
     p \in OddPaths, n \in Odd}

\* Short YAML files: all of up to three lines of any form, and all of four lines
\* of the forms that make structure.
Torn == [open |-> "double", word |-> Plain("x"), close |-> "single"]
Bare == [open |-> "none", word |-> Plain("docker"), close |-> "none"]

RawText(i, f, k, w) == [indent |-> i, form |-> f, key |-> k, value |-> w]

Structure ==
  {RawText(i, "entry", k, Nothing) : i \in 0 .. 2, k \in {"collector", "type"}}
  \cup {RawText(i, "entry", "type", Bare) : i \in 0 .. 2}
  \cup {RawText(i, "item", Nothing, InQuotes(Plain("go"))) : i \in 0 .. 2}

Oddities ==
  {RawText(i, "bare", Nothing, Nothing) : i \in 0 .. 1}
  \cup {RawText(0, "entry", Nothing, Bare), RawText(1, "entry", "type", Torn),
         RawText(1, "entry", "collector", Bare)}
  \cup {RawText(0, f, Nothing, Nothing) : f \in {"blank", "comment", "tab", "long"}}

ShortFiles(n) == IF n < 4 THEN [1 .. n -> Structure \cup Oddities] ELSE [1 .. n -> Structure]

MCInputs == <<
  {Start(Empty, Malformed, <<>>, env) : env \in Environments},
  {Start(Padded("up2date.json"), DocumentOf(env), <<>>, env) : env \in Environments},
  {FromYaml(LinesOf(env), env) : env \in Environments},
  {FromYaml(doc, Base) : doc \in UNION {ShortFiles(n) : n \in 0 .. 2}},
  {FromYaml(doc, Base) : doc \in ShortFiles(3)},
  {FromYaml(doc, Base) : doc \in ShortFiles(4)},
  {Start(Plain("up2date.json"), doc, <<>>, Base) : doc \in OddDocuments \cup {Malformed}},
  {[flag |-> Padded(""), variable |-> Plain("up2date.json"), json |-> DocumentOf(Base),
          yaml |-> <<>>, env |-> env, hostname |-> h] :
           env \in Changed(Base, "NODE_ID"), h \in {Plain("host"), Unset}},
  {[Start(Empty, Malformed, <<>>, env) EXCEPT !.hostname = Unset] : env \in Changed(Base, "NODE_ID")}>>

MCKeys   == STRING
=============================================================================
