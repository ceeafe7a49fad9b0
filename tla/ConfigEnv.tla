------------------------------ MODULE ConfigEnv ------------------------------
(***************************************************************************)
(* Load: the configuration from environment variables (config.go).  env    *)
(* gives for every variable, named without its prefix UP2DATE_, a text or  *)
(* Unset; COLLECTOR_PACKAGE_NAMES is given as its parts between commas.    *)
(***************************************************************************)
EXTENDS ConfigValues

Getenv(env, name) == IF env[name] = Unset THEN Empty ELSE env[name]
Setting(env, name) == TrimSpace(Getenv(env, name))

loadDuration(env, name) ==
  IF Setting(env, name) = Empty THEN defaultInterval
  ELSE PositiveDuration(Setting(env, name))

loadOptionalInt(env, name) ==
  IF Setting(env, name) = Empty THEN 0 ELSE Atoi(Setting(env, name))

\* A variable that is set to nothing is not a boolean.
loadOptionalBool(env, name) ==
  IF env[name] = Unset THEN Unset ELSE parseBooleanValue(env[name])

loadOptionalCSV(env, name) ==
  IF env[name] = Unset THEN <<>> ELSE NonBlankItems(env[name])

resolveResolverType(explicit, type, manager) ==
  LET value == TrimSpace(ToLower(explicit))
  IN  IF value \in {Empty, Plain("auto")}
      THEN defaultResolverTypeForCollector(type, manager) ELSE value

\* The second variable is looked at only if the first is not set.
HomeAssistantEnabled(env) ==
  IF env["PUBLISHER_MQTT_HOMEASSISTANT_ENABLED"] # Unset
  THEN loadOptionalBool(env, "PUBLISHER_MQTT_HOMEASSISTANT_ENABLED")
  ELSE loadOptionalBool(env, "PUBLISHER_MQTT_HOMEASSISTANT")

\* Home Assistant settings exist only if it is enabled or a prefix is given.
HomeAssistantConfig(env) ==
  LET enabled == HomeAssistantEnabled(env)
      prefix  == Setting(env, "PUBLISHER_MQTT_HOMEASSISTANT_DISCOVERY_PREFIX")
  IN  IF enabled = TRUE \/ prefix # Empty
      THEN [enabled |-> Default(enabled, FALSE), prefix |-> prefix] ELSE Unset

EnvConfig(env, hostname) ==
  LET type     == Setting(env, "COLLECTOR_TYPE")
      isDocker == type = Plain("docker")
      manager  == IF isDocker THEN Empty ELSE Setting(env, "COLLECTOR_PACKAGE_MANAGER")
      Docker(name) == IF isDocker THEN loadOptionalBool(env, name) ELSE Unset
  IN  [node |-> IF Setting(env, "NODE_ID") = Empty THEN hostname
                ELSE Setting(env, "NODE_ID"),
       job |-> firstNonEmpty(Setting(env, "JOB_NAME"), type),
       interval |-> loadDuration(env, "INTERVAL"),
       collector |-> type,
       endpoint |-> IF isDocker THEN Setting(env, "COLLECTOR_DOCKER_ENDPOINT") ELSE Empty,
       includeStopped |-> Docker("COLLECTOR_DOCKER_INCLUDE_STOPPED"),
       watchByDefault |-> Docker("COLLECTOR_DOCKER_WATCH_BY_DEFAULT"),
       manager |-> manager,
       names |-> IF isDocker THEN <<>> ELSE loadOptionalCSV(env, "COLLECTOR_PACKAGE_NAMES"),
       resolver |-> resolveResolverType(Setting(env, "RESOLVER_TYPE"), type, manager),
       publisher |-> Setting(env, "PUBLISHER_TYPE"),
       host |-> Setting(env, "PUBLISHER_MQTT_HOST"),
       port |-> loadOptionalInt(env, "PUBLISHER_MQTT_PORT"),
       username |-> Setting(env, "PUBLISHER_MQTT_USERNAME"),
       password |-> Getenv(env, "PUBLISHER_MQTT_PASSWORD"),
       topicPrefix |-> Setting(env, "PUBLISHER_MQTT_TOPIC_PREFIX"),
       clientIDPrefix |-> Setting(env, "PUBLISHER_MQTT_CLIENT_ID_PREFIX"),
       connectTimeout |-> Setting(env, "PUBLISHER_MQTT_CONNECT_TIMEOUT"),
       retain |-> loadOptionalBool(env, "PUBLISHER_MQTT_RETAIN"),
       homeAssistant |-> HomeAssistantConfig(env)]

\* What Load refuses, in the order it looks.
EnvRefusal(env, hostname) ==
  LET c == EnvConfig(env, hostname)
  IN  FirstRefusal(
        Refuse("node_id", c.node = Unset)
        \o Refuse("collector.type", c.collector = Empty)
        \o Refuse("publisher.type", c.publisher = Empty)
        \o Refuse("interval", c.interval = Malformed)
        \o Refuse("include_stopped", c.includeStopped = Malformed)
        \o Refuse("watch_by_default", c.watchByDefault = Malformed)
        \o Refuse("collector.type", c.collector \notin {Plain("docker"), Plain("package")})
        \o Refuse("resolver", c.resolver = Empty)
        \o Refuse("resolver", c.resolver \notin
                    {Plain(w) : w \in {"brew_formula", "docker", "docker_hub", "none"}})
        \o Refuse("publisher.type", c.publisher # Plain("mqtt"))
        \o Refuse("port", c.port = Malformed)
        \o Refuse("retain", c.retain = Malformed)
        \o Refuse("homeassistant", HomeAssistantEnabled(env) = Malformed))

Load(env, hostname) ==
  [refusal |-> EnvRefusal(env, hostname), config |-> EnvConfig(env, hostname)]
=============================================================================
