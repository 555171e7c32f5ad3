------------------------- MODULE ConfigurationFile -------------------------
(***************************************************************************)
(* pgexporter.conf: its keys, what the reader makes of the text of each,   *)
(* and which of them are copied, transferred, compared and set. Nothing    *)
(* here changes; Configuration says what happens to a structure read.      *)
(***************************************************************************)
EXTENDS Naturals, Sequences

----------------------------------------------------------------------------
(* The keys of the file and the conversion of each.                        *)

NetworkKeys ==
    [ host |-> "string", metrics |-> "int", metrics_cache_max_size |-> "bytes",
      metrics_cache_max_age |-> "time", metrics_query_timeout |-> "time" ]

BridgeKeys ==
    [ bridge |-> "int", bridge_endpoints |-> "endpoints", bridge_cache_max_size |-> "bytes",
      bridge_cache_max_age |-> "time", bridge_json |-> "int",
      bridge_json_cache_max_size |-> "bytes", management |-> "int", console |-> "int" ]

HistoryKeys ==
    [ history |-> "int", history_interval |-> "time", history_retention |-> "time",
      history_backend |-> "sqlite", history_path |-> "string",
      history_cert_file |-> "string", history_key_file |-> "string",
      history_ca_file |-> "string", bridge_history |-> "int" ]

BridgeHistoryKeys ==
    [ bridge_history_interval |-> "time", bridge_history_retention |-> "time",
      bridge_history_backend |-> "sqlite", bridge_history_path |-> "string",
      alerts |-> "bool", cache |-> "bool", alerts_path |-> "string", tls |-> "bool" ]

TlsKeys ==
    [ tls_ca_file |-> "string", tls_cert_file |-> "string", tls_key_file |-> "string",
      metrics_ca_file |-> "string", metrics_cert_file |-> "string",
      metrics_key_file |-> "string" ]

LoggingKeys ==
    [ blocking_timeout |-> "time", pidfile |-> "string", update_process_title |-> "title",
      log_type |-> "enum", log_level |-> "enum", log_path |-> "string",
      log_rotation_size |-> "bytes", log_rotation_age |-> "time" ]

SystemKeys ==
    [ log_line_prefix |-> "string", log_mode |-> "enum", unix_socket_dir |-> "dir",
      ev_backend |-> "backend", keep_alive |-> "bool", nodelay |-> "bool",
      non_blocking |-> "bool", backlog |-> "int", hugepage |-> "lenient" ]

MetricKeys ==
    [ metrics_path |-> "string", extensions |-> "string", collectors |-> "string",
      exclude_collectors |-> "string" ]

\* The keys of a server's section.
ServerKeys ==
    [ host |-> "string", port |-> "int", user |-> "string", type |-> "enum",
      tls |-> "tlsmode", tls_ca_file |-> "string", tls_cert_file |-> "string",
      tls_key_file |-> "string", data_dir |-> "string", wal_dir |-> "string",
      extensions |-> "string" ]

KeyTables ==
    { NetworkKeys, BridgeKeys, HistoryKeys, BridgeHistoryKeys, TlsKeys, LoggingKeys,
      SystemKeys, MetricKeys }

Key     == UNION {DOMAIN t : t \in KeyTables}

\* Each key is in one of the tables.
GlobalKeys == [k \in Key |-> (CHOOSE t \in KeyTables : k \in DOMAIN t)[k]]

SKey    == DOMAIN ServerKeys

\* What the structure holds besides the keys: users, admins, metric definitions.
Loaded  == {"users", "admins", "prometheus", "metric_names", "alert_definitions"}

Field   == Key \cup Loaded

\* Texts: two proper values, one no conversion accepts, nothing. Values: those, what
\* pgexporter_init_configuration sets, 0, and the -1 of a failed enumeration.
Text    == {"a", "b", "bad", "empty"}
Value   == {"a", "b", "default", "zero", "invalid"}

\* What the file reader stores for a text; a key that is absent keeps its default.
Stored(kind, text) ==
    IF text \in {"a", "b"} /\ kind # "sqlite" THEN text
    ELSE CASE kind = "string" /\ text = "bad"  -> "b"
           [] kind = "enum"                    -> "invalid"
           [] kind = "dir" /\ text = "bad"     -> "invalid"        \* not a directory
           [] kind = "lenient"                 -> "a"
           [] OTHER                            -> "default"

StoredOrAbsent(kind, text) == IF text = "absent" THEN "default" ELSE Stored(kind, text)

ReadServer(s) == [k \in SKey |-> StoredOrAbsent(ServerKeys[k], s[k])]

\* pgexporter_read_configuration into a structure just initialised.
ReadFile(f) ==
    [ g       |-> [k \in Field |->
                     IF k \in Key THEN StoredOrAbsent(GlobalKeys[k], f.g[k]) ELSE "default"],
      servers |-> [i \in DOMAIN f.servers |-> ReadServer(f.servers[i])] ]

\* A file that starts: the required keys, certificates for both ports, alerts.
StartFile ==
    [ g       |-> [k \in Key |->
                     IF k \in {"host", "unix_socket_dir", "metrics", "alerts", "log_line_prefix",
                               "metrics_cert_file", "metrics_key_file", "history_cert_file",
                               "history_key_file"} THEN "a" ELSE "absent"],
      servers |-> << [k \in SKey |->
                        IF k \in {"host", "port", "user", "type"} THEN "a" ELSE "absent"] >>,
      users   |-> "a",
      names   |-> "distinct" ]

\* What is read from it.
AtStart == ReadFile(StartFile)

----------------------------------------------------------------------------
(* Which keys a transfer compares and writes, in its order.                *)

\* Fault: the size of the cache is not compared.
RestartKeysWithoutCache ==
    { "host", "metrics", "management", "console", "history", "bridge", "bridge_json",
      "bridge_history", "log_type", "unix_socket_dir", "pidfile", "ev_backend",
      "hugepage" }

\* check_restart_required.
RestartKeys ==
    { "host", "metrics", "management", "console", "history", "bridge", "bridge_json",
      "bridge_history", "log_type", "unix_socket_dir", "pidfile", "ev_backend",
      "hugepage", "metrics_cache_max_size" }

\* The logging keys move together, and only when one of the first four differs.
LogTriggers == {"log_path", "log_rotation_size", "log_rotation_age", "log_mode"}
LogGroup    == LogTriggers \cup {"log_line_prefix"}

\* Fault: the users are left out, the collectors are left out.
NotTransferredUsers      == {"history_cert_file", "history_key_file", "history_ca_file",
                             "extensions", "users"}
NotTransferredCollectors == {"history_cert_file", "history_key_file", "history_ca_file",
                             "extensions", "collectors"}

\* Keys that transfer_configuration does not touch.
NotTransferred == {"history_cert_file", "history_key_file", "history_ca_file", "extensions"}

\* What is transferred after the servers and the users.
MetricsKeys == {"admins", "metrics_path", "prometheus", "metric_names"}
AlertKeys   == {"alerts_path", "alert_definitions", "bridge_endpoints"}
ValueKeys   == Field \ (MetricsKeys \cup AlertKeys \cup {"users"})

Blocks == {"values", "clear_servers", "servers", "clear_users", "users", "metrics", "alerts"}

After(b) ==
    CASE b = "values"        -> "clear_servers"
      [] b = "clear_servers" -> "servers"
      [] b = "servers"       -> "clear_users"
      [] b = "clear_users"   -> "users"
      [] b = "users"         -> "metrics"
      [] b = "metrics"       -> "alerts"
      [] b = "alerts"        -> "answer"

BlockKeys(b) ==
    CASE b = "values"  -> ValueKeys
      [] b = "users"   -> {"users"}
      [] b = "metrics" -> MetricsKeys
      [] b = "alerts"  -> AlertKeys
      [] OTHER         -> {}

\* The lists of users and admins are zeroed before they are filled again.
Cleared(b) == CASE b = "clear_users" -> {"users"} [] b = "users" -> {"admins"} [] OTHER -> {}

\* What a reload leaves behind compared with a restart on the same files: the
\* certificates of the history port and the extensions stay, the alert definitions
\* are gone, a changed log_line_prefix waits for another change of the log.
NotLikeRestart ==
    {"history_cert_file", "history_key_file", "history_ca_file", "extensions"} \cup
    {"log_line_prefix", "alert_definitions"}

\* What the main process acted on once, when it started: the sockets it listens on,
\* the pid file, the event backend, the memory of the cache.
BoundAtStart ==
    { "host", "metrics", "management", "console", "history", "bridge", "bridge_json",
      "bridge_history", "unix_socket_dir", "pidfile", "ev_backend", "hugepage",
      "metrics_cache_max_size" }

----------------------------------------------------------------------------
(* Which keys "conf set" copies, in its order, and which it knows.         *)

\* Fault: the alerts switch is not copied.
NotCopiedAlerts == {"history_cert_file", "history_key_file", "history_ca_file",
                    "metric_names", "alerts"}

\* copy_configuration_values: everything but the certificates of the history port
\* and the names of the metrics.
NotCopied == {"history_cert_file", "history_key_file", "history_ca_file", "metric_names"}

CopyBlocks == {"copy_values", "copy_servers", "copy_users", "copy_metrics", "copy_alerts"}

AfterCopy(b) ==
    CASE b = "copy_values"  -> "copy_servers"
      [] b = "copy_servers" -> "copy_users"
      [] b = "copy_users"   -> "copy_metrics"
      [] b = "copy_metrics" -> "copy_alerts"
      [] b = "copy_alerts"  -> "validate"

\* What is copied after the servers.
CopyUsers   == {"users", "admins"}
CopyMetrics == {"prometheus"}
CopyAlerts  == {"alert_definitions", "bridge_endpoints", "metrics_path"}
CopyValues  == Field \ (CopyUsers \cup CopyMetrics \cup CopyAlerts)

CopyKeys(b) ==
    CASE b = "copy_values"  -> CopyValues
      [] b = "copy_users"   -> CopyUsers
      [] b = "copy_metrics" -> CopyMetrics
      [] b = "copy_alerts"  -> CopyAlerts
      [] OTHER              -> {}

SetNetworkKeys ==
    { "host", "metrics", "metrics_cache_max_size", "metrics_cache_max_age",
      "metrics_query_timeout", "metrics_path", "console", "bridge" }
SetBridgeKeys ==
    { "bridge_endpoints", "bridge_cache_max_size", "bridge_cache_max_age",
      "bridge_json", "bridge_json_cache_max_size", "history", "history_interval",
      "history_retention" }
SetHistoryKeys ==
    { "history_backend", "history_path", "bridge_history", "bridge_history_interval",
      "bridge_history_retention", "bridge_history_backend", "bridge_history_path",
      "management", "cache", "tls" }
SetTlsKeys ==
    { "tls_ca_file", "tls_cert_file", "tls_key_file", "metrics_ca_file",
      "metrics_cert_file", "metrics_key_file", "blocking_timeout", "pidfile",
      "update_process_title" }
SetLoggingKeys ==
    { "log_type", "log_level", "log_path", "log_rotation_size", "log_rotation_age",
      "log_line_prefix", "log_mode", "unix_socket_dir", "ev_backend", "keep_alive",
      "nodelay", "non_blocking" }
SetSystemKeys == { "backlog", "hugepage" }

SettableKeys ==
    SetNetworkKeys \cup SetBridgeKeys \cup SetHistoryKeys \cup SetTlsKeys
        \cup SetLoggingKeys \cup SetSystemKeys
SettableServerKeys == SKey \ {"extensions"}

\* Keys for which an empty text means 0 here and the default in the file.
ZeroWhenEmpty == {"bridge_cache_max_size", "bridge_cache_max_age",
                  "bridge_json_cache_max_size"}

=============================================================================
