----------------------------- MODULE ConfigFile -----------------------------
(***************************************************************************)
(* LoadFromFile: the configuration from a parsed document, YAML or JSON    *)
(* (config_file.go).  A document gives a node for each path of keys: a     *)
(* mapping; a string, whose items are its parts between commas; a list of  *)
(* strings; a boolean or number as it is written in JSON; or another.      *)
(***************************************************************************)
EXTENDS ConfigValues

\* Reading the node at a path: Unset if it is missing, Malformed if it is not
\* of one of the kinds, else what Read makes of it.
Optional(doc, path, kinds, Read(_)) ==
  IF path \notin DOMAIN doc THEN Unset
  ELSE IF doc[path].kind \notin kinds THEN Malformed ELSE Read(doc[path])

optionalMapValue(doc, path) == Optional(doc, path, {"map"}, LAMBDA n : n.kind)

\* Mutant: strings are taken with the white space around them.
stringAsWritten(doc, path) == Optional(doc, path, {"string"}, LAMBDA n : n.text)

optionalStringValue(doc, path) ==
  Optional(doc, path, {"string"}, LAMBDA n : TrimSpace(n.text))

optionalStringSliceValue(doc, path) ==
  Optional(doc, path, {"string", "list"}, LAMBDA n : NonBlankItems(n.items))

optionalBoolPointerValue(doc, path) ==
  Optional(doc, path, {"string", "bool"}, LAMBDA n : parseBooleanValue(n.text))

\* A JSON number has to be whole, however it is written.
Whole(t) == IF t.word \in DOMAIN Wholes THEN Wholes[t.word] ELSE Malformed

optionalIntValue(doc, path) ==
  Default(Optional(doc, path, {"string", "number"},
                   LAMBDA n : IF n.kind = "number" THEN Whole(n.text)
                              ELSE Atoi(TrimSpace(n.text))), 0)

String(doc, path) == Default(optionalStringValue(doc, path), Empty)

\* A mapping must not have other keys than these.
validateKeys(what, doc, path, allowed) ==
  Refuse(what, \E p \in DOMAIN doc : /\ Len(p) = Len(path) + 1
                                     /\ IsPrefix(path, p)
                                     /\ Last(p) \notin allowed)

Collector  == <<"collector">>
Docker(k)  == <<"collector", "docker", k>>
Package(k) == <<"collector", "package", k>>
MQTT(k)    == <<"publisher", "mqtt", k>>
HomeAssistant == MQTT("homeassistant")

\* The value of homeassistant is a boolean or a mapping.
HomeAssistantValue(doc) ==
  LET enabled == optionalBoolPointerValue(doc, Append(HomeAssistant, "enabled"))
  IN  IF HomeAssistant \notin DOMAIN doc THEN Unset
      ELSE IF doc[HomeAssistant].kind = "map"
      THEN [enabled |-> Default(enabled, FALSE),
            prefix |-> String(doc, Append(HomeAssistant, "discovery_prefix"))]
      ELSE [enabled |-> optionalBoolPointerValue(doc, HomeAssistant), prefix |-> Empty]

-----------------------------------------------------------------------------
FileConfig(doc, hostname) ==
  LET type     == String(doc, Append(Collector, "type"))
      isDocker == type = Plain("docker")
      manager  == IF isDocker THEN Empty ELSE String(doc, Package("manager"))
      Switch(k) == IF isDocker THEN optionalBoolPointerValue(doc, Docker(k)) ELSE Unset
      interval == optionalStringValue(doc, <<"interval">>)
      nodeID   == String(doc, <<"node_id">>)
  IN  [node |-> IF nodeID = Empty THEN hostname ELSE nodeID,
       job |-> firstNonEmpty(String(doc, <<"job_name">>), type),
       interval |-> IF interval = Unset THEN defaultInterval
                    ELSE IF interval = Malformed THEN Malformed
                    ELSE PositiveDuration(interval),
       collector |-> type,
       endpoint |-> IF isDocker THEN String(doc, Docker("endpoint")) ELSE Empty,
       includeStopped |-> Switch("include_stopped"),
       watchByDefault |-> Switch("watch_by_default"),
       manager |-> manager,
       names |-> IF isDocker THEN <<>>
                 ELSE Default(optionalStringSliceValue(doc, Package("names")), <<>>),
       resolver |-> IF manager = Malformed THEN Empty
                    ELSE defaultResolverTypeForCollector(type, manager),
       publisher |-> firstNonEmpty(String(doc, <<"publisher", "type">>), Plain("mqtt")),
       host |-> String(doc, MQTT("host")),
       port |-> optionalIntValue(doc, MQTT("port")),
       username |-> String(doc, MQTT("username")),
       password |-> String(doc, MQTT("password")),
       topicPrefix |-> String(doc, MQTT("topic_prefix")),
       clientIDPrefix |-> String(doc, MQTT("client_id_prefix")),
       connectTimeout |-> String(doc, MQTT("connect_timeout")),
       retain |-> optionalBoolPointerValue(doc, MQTT("retain")),
       homeAssistant |-> HomeAssistantValue(doc)]

CollectorRefusals(doc, c) ==
  IF c.collector = Plain("docker")
  THEN Refuse("docker", optionalMapValue(doc, <<"collector", "docker">>) = Malformed)
       \o validateKeys("docker", doc, <<"collector", "docker">>,
                       {"endpoint", "include_stopped", "watch_by_default"})
       \o Refuse("docker", Malformed \in {c.endpoint, c.includeStopped, c.watchByDefault})
  ELSE Refuse("package", optionalMapValue(doc, <<"collector", "package">>) = Malformed)
       \o validateKeys("package", doc, <<"collector", "package">>, {"manager", "names"})
       \o Refuse("package", Malformed \in {c.manager, c.names})

PublisherRefusals(doc, c) ==
  Refuse("publisher", optionalMapValue(doc, <<"publisher">>) \in {Unset, Malformed})
  \o validateKeys("publisher", doc, <<"publisher">>, {"mqtt", "type"})
  \o Refuse("publisher.type", c.publisher # Plain("mqtt"))
  \o Refuse("mqtt", optionalMapValue(doc, <<"publisher", "mqtt">>) \in {Unset, Malformed})
  \o validateKeys("mqtt", doc, <<"publisher", "mqtt">>,
                  {"client_id_prefix", "connect_timeout", "host", "homeassistant",
                   "password", "port", "retain", "topic_prefix", "username"})
  \o Refuse("mqtt", Malformed \in {c.host, c.username, c.password, c.topicPrefix,
                                   c.clientIDPrefix, c.connectTimeout})
  \o Refuse("port", c.port = Malformed)
  \o Refuse("retain", c.retain = Malformed)
  \o validateKeys("homeassistant", doc, HomeAssistant, {"discovery_prefix", "enabled"})
  \o Refuse("homeassistant", /\ c.homeAssistant # Unset
                             /\ Malformed \in {c.homeAssistant.enabled, c.homeAssistant.prefix})

\* What LoadFromFile refuses, in the order it looks.
FileRefusal(doc, hostname) ==
  LET c == FileConfig(doc, hostname)
  IN  FirstRefusal(
        Refuse("resolver key", <<"resolver">> \in DOMAIN doc)
        \o validateKeys("config", doc, <<>>,
                        {"collector", "interval", "job_name", "node_id", "publisher"})
        \o Refuse("node_id", c.node \in {Unset, Malformed})
        \o Refuse("interval", c.interval = Malformed)
        \o Refuse("collector", optionalMapValue(doc, Collector) \in {Unset, Malformed})
        \o validateKeys("collector", doc, Collector, {"docker", "package", "type"})
        \o Refuse("collector.type", c.collector \in {Empty, Malformed})
        \o Refuse("job_name", c.job = Malformed)
        \o Refuse("collector.type", c.collector \notin {Plain("docker"), Plain("package")})
        \o CollectorRefusals(doc, c)
        \o Refuse("resolver", c.resolver = Empty)
        \o PublisherRefusals(doc, c))

buildConfigFromDocument(doc, hostname) ==
  [refusal |-> FileRefusal(doc, hostname), config |-> FileConfig(doc, hostname)]
=============================================================================
