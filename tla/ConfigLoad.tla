----------------------------- MODULE ConfigLoad -----------------------------
(***************************************************************************)
(* How a configuration comes about: the YAML file or the defaults, then    *)
(* environment variables, then the --env overrides of the command line,    *)
(* then validation; and the values the commands derive from it.            *)
(*                                                                         *)
(* A setting is <<section, field>>, its value the text it was given: a     *)
(* word, or a number with a unit.  An environment variable is named by the *)
(* setting it is for; some settings have a second variable, the name       *)
(* clickhouse-backup gave it.                                              *)
(***************************************************************************)
EXTENDS Integers, Sequences, FiniteSets, SequencesExt

(* The settings of each section, by type. *)
GeneralFields ==
    [level |-> {"log_level"},
     format |-> {"log_format"},
     bool |-> {"disable_progress_bar", "use_resumable_state"},
     int |-> {"backups_to_keep_local", "backups_to_keep_remote", "upload_concurrency",
              "download_concurrency", "upload_max_bytes_per_second",
              "download_max_bytes_per_second", "object_disk_server_side_copy_concurrency",
              "retries_on_failure", "retries_jitter", "remote_cache_ttl_secs",
              "clean_broken_min_age_secs"},
     str |-> {"retries_pause"},
     dur |-> {"progress_heartbeat_interval"}]

ClickHouseFields ==
    [str |-> {"host", "username", "password", "data_path", "config_dir", "tls_key", "tls_cert",
              "tls_ca", "restore_schema_on_cluster", "restore_distributed_cluster",
              "freeze_by_part_where", "restart_command", "default_replica_path",
              "default_replica_name", "timeout"},
     int |-> {"port", "check_replicas_before_attach_timeout", "max_connections",
              "deferred_freeze_ttl_secs"},
     bool |-> {"secure", "skip_verify", "sync_replicated_tables", "check_replicas_before_attach",
               "strict_replica_sync", "check_parts_columns", "restore_as_attach",
               "attach_table_require_complete", "zk_check_strict", "replace_uuid_macro",
               "log_sql_queries", "ignore_not_exists_error_during_freeze", "freeze_by_part",
               "backup_mutations", "debug", "rbac_backup_always", "config_backup_always",
               "named_collections_backup_always"},
     dur |-> {"mutation_wait_timeout"},
     rbac |-> {"rbac_resolve_conflicts"},
     list |-> {"skip_tables", "skip_table_engines", "skip_disks", "skip_disk_types"}]

S3Fields ==
    [str |-> {"bucket", "region", "endpoint", "prefix", "access_key", "secret_key",
              "assume_role_arn", "acl", "storage_class", "sse", "sse_kms_key_id",
              "object_disk_path"},
     bool |-> {"force_path_style", "disable_ssl", "disable_cert_verification",
               "allow_object_disk_streaming", "debug"},
     int |-> {"max_parts_count", "chunk_size", "concurrency", "copy_min_bytes_per_second",
              "sdk_max_attempts"},
     dur |-> {"request_timeout", "stalled_stream_grace_period"}]

BackupFields ==
    [str |-> {"tables", "retries_duration"},
     bool |-> {"allow_empty_backups", "strict_projection_gate"},
     compression |-> {"compression"},
     int |-> {"compression_level", "upload_concurrency", "download_concurrency",
              "object_disk_copy_concurrency", "upload_max_bytes_per_second",
              "download_max_bytes_per_second", "retries_on_failure", "streaming_upload_threshold"},
     float |-> {"retries_jitter"},
     list |-> {"skip_projections"}]

RetentionFields == [int |-> {"backups_to_keep_local", "backups_to_keep_remote"}]

WatchFields ==
    [bool |-> {"enabled", "delete_local_after_upload"},
     dur |-> {"watch_interval", "full_interval"},
     str |-> {"name_template", "tables", "retry_interval"},
     int |-> {"max_consecutive_errors"}]

ApiFields ==
    [str |-> {"listen", "integration_tables_host", "username", "password", "certificate_file",
              "private_key_file", "ca_cert_file"},
     bool |-> {"enable_metrics", "create_integration_tables", "secure", "allow_parallel",
               "complete_resumable_after_restart", "watch_is_main_process"}]

Sections == [general |-> GeneralFields, clickhouse |-> ClickHouseFields, s3 |-> S3Fields,
             backup |-> BackupFields, retention |-> RetentionFields, watch |-> WatchFields, api |-> ApiFields]
Fields == UNION {{s} \X UNION {Sections[s][t] : t \in DOMAIN Sections[s]} : s \in DOMAIN Sections}
Type(k) == CHOOSE t \in DOMAIN Sections[k[1]] : k[2] \in Sections[k[1]][t]

(* The settings apply_env_overlay has a variable for. *)
GeneralEnv == {"log_level", "log_format", "backups_to_keep_local", "backups_to_keep_remote",
    "upload_concurrency", "download_concurrency", "retries_on_failure", "retries_pause",
    "progress_heartbeat_interval", "remote_cache_ttl_secs",
    "object_disk_server_side_copy_concurrency", "clean_broken_min_age_secs"}
ClickHouseEnv == {"host", "port", "username", "password", "data_path", "secure", "skip_verify",
    "tls_key", "tls_cert", "tls_ca", "sync_replicated_tables",
    "check_replicas_before_attach_timeout", "strict_replica_sync", "attach_table_require_complete",
    "zk_check_strict", "replace_uuid_macro", "max_connections", "timeout", "config_dir", "debug",
    "skip_table_engines", "skip_disks", "skip_disk_types", "skip_tables", "freeze_by_part",
    "freeze_by_part_where"}
S3Env == {"bucket", "region", "endpoint", "prefix", "access_key", "secret_key", "assume_role_arn",
    "force_path_style", "acl", "storage_class", "sse", "sse_kms_key_id", "disable_ssl",
    "disable_cert_verification", "concurrency", "object_disk_path", "chunk_size",
    "max_parts_count", "debug", "request_timeout", "copy_min_bytes_per_second",
    "stalled_stream_grace_period", "sdk_max_attempts", "allow_object_disk_streaming"}
BackupEnv == {"compression", "upload_concurrency", "download_concurrency",
    "object_disk_copy_concurrency", "retries_on_failure", "retries_duration", "tables",
    "skip_projections", "strict_projection_gate", "streaming_upload_threshold",
    "allow_empty_backups"}
ApiEnv == {"listen", "secure", "username", "password", "create_integration_tables"}
WatchEnv == {"watch_interval", "full_interval", "enabled", "max_consecutive_errors"}

HasEnv == ({"general"} \X GeneralEnv) \cup ({"clickhouse"} \X ClickHouseEnv) \cup ({"s3"} \X S3Env)
          \cup ({"backup"} \X BackupEnv) \cup ({"api"} \X ApiEnv) \cup ({"watch"} \X WatchEnv)
HasAlias == {<<"general", "log_level">>, <<"general", "backups_to_keep_local">>,
    <<"general", "backups_to_keep_remote">>, <<"general", "progress_heartbeat_interval">>,
    <<"s3", "prefix">>, <<"backup", "upload_concurrency">>, <<"backup", "download_concurrency">>}

-----------------------------------------------------------------------------
(* Texts and what parses. *)

Absent == [word |-> "", n |-> 0, unit |-> "absent"]
Word(w) == [word |-> w, n |-> 0, unit |-> "none"]
Num(n) == [word |-> "", n |-> n, unit |-> ""]
Dur(n, unit) == [word |-> "", n |-> n, unit |-> unit]
Wide(bits) == [word |-> "", n |-> bits, unit |-> "wide"]   \* 2^bits: a number beyond TLC's own integers
IsNum(t) == t.unit = ""
IsDur(t) == t.unit \in {"", "s", "m", "h"} /\ t.n >= 0   \* parse_duration_secs takes a bare number as seconds
parse_duration_secs(t) ==
    t.n * (CASE t.unit = "h" -> 3600 [] t.unit = "m" -> 60 [] OTHER -> 1)
Signed == ({"general", "retention"} \X {"backups_to_keep_local", "backups_to_keep_remote"})
          \cup {<<"backup", "retries_jitter">>}   \* a float, here in hundredths
(* What an integer of the field's type has room for. *)
Long == {"upload_max_bytes_per_second", "download_max_bytes_per_second", "remote_cache_ttl_secs",
         "clean_broken_min_age_secs", "check_replicas_before_attach_timeout", "deferred_freeze_ttl_secs",
         "chunk_size", "copy_min_bytes_per_second", "streaming_upload_threshold"}
Bits(k) == CASE k[2] = "port" -> 16 [] k \in Signed -> 31 [] k[2] \in Long -> 64 [] OTHER -> 32
InRange(k, t) ==
    \/ IsNum(t) /\ (t.n >= 0 \/ k \in Signed) /\ (Bits(k) = 16 => t.n < 2^16)
    \/ t.unit = "wide" /\ (t.n < Bits(k) \/ Type(k) = "float")
Parses(k, t) ==
    CASE Type(k) = "bool" -> t.word \in {"true", "false"}
      [] Type(k) \in {"int", "float"} -> InRange(k, t)
      [] OTHER -> TRUE

(* The defaults of a section that the file does not have (impl Default).   *)
(* A text no command computes with is the word "default".                  *)
OnByDefault == {"use_resumable_state", "check_replicas_before_attach", "strict_replica_sync",
    "attach_table_require_complete", "zk_check_strict", "log_sql_queries",
    "ignore_not_exists_error_during_freeze", "backup_mutations", "strict_projection_gate",
    "delete_local_after_upload", "enable_metrics", "create_integration_tables",
    "complete_resumable_after_restart"}
NamedByDefault == {"host", "data_path", "config_dir", "restart_command", "default_replica_path",
    "default_replica_name", "skip_tables", "bucket", "region", "prefix", "storage_class",
    "tables", "name_template", "listen"}
DefaultOfType(k) ==
    CASE Type(k) = "bool" -> Word(IF k[2] \in OnByDefault THEN "true" ELSE "false")
      [] Type(k) \in {"int", "float"} -> Num(0)
      [] OTHER -> Word(IF k[2] \in NamedByDefault /\ k # <<"watch", "tables">> THEN "default" ELSE "")
GeneralDefault ==
    [log_level |-> Word("info"), log_format |-> Word("text"), backups_to_keep_remote |-> Num(7),
     upload_concurrency |-> Num(4), download_concurrency |-> Num(4),
     object_disk_server_side_copy_concurrency |-> Num(32), retries_on_failure |-> Num(3),
     retries_pause |-> Dur(5, "s"), retries_jitter |-> Num(30), remote_cache_ttl_secs |-> Num(300),
     progress_heartbeat_interval |-> Dur(30, "s"), clean_broken_min_age_secs |-> Num(3600)]
ClickHouseDefault ==
    [port |-> Num(8123), username |-> Word("default"), max_connections |-> Num(1),
     check_replicas_before_attach_timeout |-> Num(30), mutation_wait_timeout |-> Dur(5, "m"),
     deferred_freeze_ttl_secs |-> Num(86400), rbac_resolve_conflicts |-> Word("recreate"),
     timeout |-> Dur(5, "m")]
S3Default ==
    [max_parts_count |-> Num(10000), concurrency |-> Num(1), request_timeout |-> Dur(60, "s"),
     copy_min_bytes_per_second |-> Num(1048576), stalled_stream_grace_period |-> Dur(5, "s"),
     sdk_max_attempts |-> Num(2)]
BackupDefault ==
    [compression |-> Word("lz4"), compression_level |-> Num(1), upload_concurrency |-> Num(4),
     download_concurrency |-> Num(4), object_disk_copy_concurrency |-> Num(8),
     retries_on_failure |-> Num(5), retries_jitter |-> Num(10),
     streaming_upload_threshold |-> Num(268435456)]
WatchDefault ==
    [watch_interval |-> Dur(1, "h"), full_interval |-> Dur(24, "h"),
     max_consecutive_errors |-> Num(5), retry_interval |-> Dur(5, "m")]
Defaults == [general |-> GeneralDefault, clickhouse |-> ClickHouseDefault, s3 |-> S3Default,
             backup |-> BackupDefault, watch |-> WatchDefault]
Default(k) ==
    IF k[1] \in DOMAIN Defaults /\ k[2] \in DOMAIN Defaults[k[1]]
    THEN Defaults[k[1]][k[2]] ELSE DefaultOfType(k)

(* The default of a setting that a section of the file leaves out (serde). *)
SyncReplicated == <<"clickhouse", "sync_replicated_tables">>
SectionDefault(k) == IF k = SyncReplicated THEN Word("true") ELSE Default(k)

-----------------------------------------------------------------------------
(* Loading.  A case c is what one start of the program finds: which of the *)
(* three ways to name a file were used (c.given), the files that exist     *)
(* with their settings (c.files), the environment variables by their own   *)
(* name and by their alias, as functions of the settings given, and the    *)
(* sequence of --env overrides, each <<setting, text>>.                    *)

Given(layer, k) == IF k \in DOMAIN layer THEN layer[k] ELSE Absent

(* Only a file named with -c must exist; a missing file otherwise means    *)
(* the defaults.                                                           *)
resolve_config_path(c) ==
    CASE "flag" \in c.given -> "flag"
      [] "flag" \notin c.given /\ "env" \in c.given -> "env"
      [] c.given = {"goenv"} -> "goenv"
      [] c.given = {} /\ "etc" \notin DOMAIN c.files /\ "goetc" \in DOMAIN c.files -> "goetc"
      [] OTHER -> "etc"
PathError(c) == "flag" \in c.given /\ "flag" \notin DOMAIN c.files
FileSettings(c) ==
    IF resolve_config_path(c) \in DOMAIN c.files THEN c.files[resolve_config_path(c)] ELSE <<>>

(* The file is parsed as a whole: one value of a wrong type refuses it. *)
FileError(c) == \E k \in DOMAIN FileSettings(c) : ~Parses(k, FileSettings(c)[k])
HasSection(c, section) == \E j \in DOMAIN FileSettings(c) : j[1] = section
FromFile(c, k) ==
    CASE k \in DOMAIN FileSettings(c) -> FileSettings(c)[k]
      [] k \notin DOMAIN FileSettings(c) /\ HasSection(c, k[1]) -> SectionDefault(k)
      [] OTHER -> Default(k)

(* The alias counts only when the variable itself is not set at all; a text *)
(* that does not parse is ignored with a warning.                           *)
\* Mutant: the alias wins over the variable itself.
EnvTextAliasFirst(c, k) ==
    CASE k \in HasAlias /\ k \in DOMAIN c.alias -> c.alias[k]
      [] k \in HasEnv -> Given(c.own, k)
      [] OTHER -> Absent
EnvText(c, k) ==
    CASE k \notin HasEnv -> Absent
      [] k \in DOMAIN c.own -> c.own[k]
      [] k \in HasAlias -> Given(c.alias, k)
      [] OTHER -> Absent
apply_env_overlay(c, k) ==
    LET t == EnvText(c, k) IN
    CASE t = Absent \/ ~Parses(k, t) -> FromFile(c, k)
      [] k = <<"clickhouse", "port">> /\ t = Num(9000) -> Num(8123)
      [] OTHER -> t

Settable(k) == k \in Fields \ {<<"clickhouse", "deferred_freeze_ttl_secs">>}
set_field_error(o) == ~Settable(o[1]) \/ ~Parses(o[1], o[2])
CliError(c) == \E i \in DOMAIN c.cli : set_field_error(c.cli[i])
apply_cli_env_overrides(c, k) ==
    LET mine == SelectSeq(c.cli, LAMBDA o : o[1] = k) IN
    IF mine = <<>> THEN apply_env_overlay(c, k) ELSE Last(mine)[2]

(* The configuration as validate and the commands read it. *)
Value(c, section, field) == apply_cli_env_overrides(c, <<section, field>>)
Count(c, section, field) ==
    LET v == Value(c, section, field) IN IF v.unit = "wide" THEN 2147483647 ELSE v.n
Secs(c, section, field) == parse_duration_secs(Value(c, section, field))

\* Mutant: the fallback of general is not checked.
PositiveOwn == {<<"s3", "concurrency">>, <<"clickhouse", "max_connections">>,
                <<"backup", "object_disk_copy_concurrency">>, <<"s3", "max_parts_count">>}
Positive == {<<"general", "upload_concurrency">>, <<"general", "download_concurrency">>,
             <<"s3", "concurrency">>, <<"clickhouse", "max_connections">>,
             <<"backup", "object_disk_copy_concurrency">>,
             <<"general", "object_disk_server_side_copy_concurrency">>,
             <<"s3", "max_parts_count">>}
MaxPartsCount == 10000
(* Durations with an upper limit in seconds; 0 disables. *)
DeadlineLimit == [k \in {<<"general", "progress_heartbeat_interval">>, <<"s3", "request_timeout">>,
                         <<"s3", "stalled_stream_grace_period">>}
                    |-> IF k[2] = "request_timeout" THEN 86400 ELSE 3600]
ValidCounts(c) ==
    /\ \A k \in Positive : Count(c, k[1], k[2]) > 0
    /\ Count(c, "s3", "max_parts_count") <= MaxPartsCount
    /\ Count(c, "s3", "sdk_max_attempts") \in 1..10
    /\ Count(c, "clickhouse", "deferred_freeze_ttl_secs") >= 3600
ValidDeadlines(c) ==
    \A k \in DOMAIN DeadlineLimit :
        IsDur(Value(c, k[1], k[2])) /\ Secs(c, k[1], k[2]) <= DeadlineLimit[k]
ValidIntervals(c) ==
    /\ \A k \in {<<"clickhouse", "mutation_wait_timeout">>, <<"watch", "watch_interval">>,
                  <<"watch", "full_interval">>} : IsDur(Value(c, k[1], k[2]))
    /\ Secs(c, "watch", "full_interval") > Secs(c, "watch", "watch_interval")
ValidWords(c) ==
    LET compression == Value(c, "backup", "compression").word
        compressionLevel == Count(c, "backup", "compression_level")
    IN  /\ Value(c, "general", "log_level").word
              \in {"debug", "info", "warning", "warn", "error", "trace"}
        /\ Value(c, "general", "log_format").word \in {"text", "json"}
        /\ compression \in {"lz4", "zstd", "gzip", "none"}
        /\ compression = "zstd" => compressionLevel <= 22
        /\ compression = "gzip" => compressionLevel <= 9
        /\ Value(c, "clickhouse", "rbac_resolve_conflicts").word \in {"recreate", "ignore", "fail"}
        /\ (Value(c, "api", "username") = Word("")) = (Value(c, "api", "password") = Word(""))
validate(c) == ValidCounts(c) /\ ValidDeadlines(c) /\ ValidIntervals(c) /\ ValidWords(c)

load_inner(c) == ~PathError(c) /\ ~FileError(c) /\ ~CliError(c) /\ validate(c)

-----------------------------------------------------------------------------
(* What the commands derive: a setting of the narrower section when it is  *)
(* set (not 0), else the one of general.                                   *)
Prefer(c, section, field) ==
    IF Count(c, section, field) # 0 THEN Count(c, section, field) ELSE Count(c, "general", field)
effective_upload_concurrency(c) == Prefer(c, "backup", "upload_concurrency")
effective_download_concurrency(c) == Prefer(c, "backup", "download_concurrency")
effective_upload_rate_limit(c) == Prefer(c, "backup", "upload_max_bytes_per_second")
effective_download_rate_limit(c) == Prefer(c, "backup", "download_max_bytes_per_second")
effective_retention_local(c) == Prefer(c, "retention", "backups_to_keep_local")
effective_retention_remote(c) == Prefer(c, "retention", "backups_to_keep_remote")
effective_retries(c) ==
    LET pause == Value(c, "backup", "retries_duration")
        general == Value(c, "general", "retries_pause")
    IN  [retries |-> Prefer(c, "backup", "retries_on_failure"),
         delay |-> IF pause # Word("")
                   THEN IF IsDur(pause) THEN parse_duration_secs(pause) ELSE 10
                   ELSE IF IsDur(general) THEN parse_duration_secs(general) ELSE 5,
         jitter |-> IF Count(c, "backup", "retries_jitter") > 0     \* in hundredths: general's is a percentage
                    THEN Count(c, "backup", "retries_jitter") ELSE Count(c, "general", "retries_jitter")]

-----------------------------------------------------------------------------
(* Properties of one case. *)

(* What a setting should be: of the texts given for it that parse, the one *)
(* of the highest rank (default, file, environment, --env in the order     *)
(* typed); an unreadable own variable still hides its alias.  Only the     *)
(* settings of HasEnv have a variable, and sync_replicated_tables has two  *)
(* defaults.                                                               *)
Ranked(c, k) ==
    {<<0, IF k = SyncReplicated THEN Word(IF HasSection(c, "clickhouse") THEN "true" ELSE "false") ELSE Default(k)>>}
    \cup (IF k \in DOMAIN FileSettings(c) THEN {<<1, FileSettings(c)[k]>>} ELSE {})
    \cup (IF k \in HasAlias /\ k \notin DOMAIN c.own /\ k \in DOMAIN c.alias THEN {<<2, c.alias[k]>>} ELSE {})
    \cup (IF k \in HasEnv /\ k \in DOMAIN c.own
          THEN {<<3, IF k = <<"clickhouse", "port">> /\ c.own[k] = Num(9000) THEN Num(8123) ELSE c.own[k]>>}
          ELSE {})
    \cup {<<3 + i, c.cli[i][2]>> : i \in {j \in DOMAIN c.cli : c.cli[j][1] = k}}
Expected(c, k) ==
    LET readable == {r \in Ranked(c, k) : r[1] = 0 \/ Parses(k, r[2])} IN
    (CHOOSE r \in readable : \A q \in readable : q[1] <= r[1])[2]
InForce(c, k) == load_inner(c) => Value(c, k[1], k[2]) = Expected(c, k)

(* The default that docs/configuration.md lists is the value of a setting  *)
(* that nobody gives.                                                      *)
DefaultAsListed(c, k) ==
    load_inner(c) /\ k \notin DOMAIN FileSettings(c) /\ k \notin DOMAIN c.own \cup DOMAIN c.alias
        /\ (\A i \in DOMAIN c.cli : c.cli[i][1] # k)
      => Value(c, k[1], k[2]) = SectionDefault(k)

(* A readable variable for a setting is in force over the file. *)
VariableHeeded(c, k) ==
    load_inner(c) /\ k \in DOMAIN c.own /\ Parses(k, c.own[k]) /\ (\A i \in DOMAIN c.cli : c.cli[i][1] # k)
      => Value(c, k[1], k[2]) = c.own[k] \/ k = <<"clickhouse", "port">>

(* What the operations rely on without checking again: semaphores with at  *)
(* least one permit, a part count S3 takes, a full interval longer than    *)
(* the incremental one, deadlines below a day, a pair of API credentials.  *)
Reliable(c) ==
    load_inner(c) =>
        /\ effective_upload_concurrency(c) >= 1 /\ effective_download_concurrency(c) >= 1
        /\ Count(c, "clickhouse", "max_connections") >= 1
        /\ Count(c, "backup", "object_disk_copy_concurrency") >= 1
        /\ Count(c, "general", "object_disk_server_side_copy_concurrency") >= 1
        /\ Count(c, "s3", "max_parts_count") \in 1..10000
        /\ Secs(c, "watch", "watch_interval") < Secs(c, "watch", "full_interval")
        /\ Secs(c, "s3", "request_timeout") <= 86400
        /\ Value(c, "api", "username") # Word("") => Value(c, "api", "password") # Word("")
        /\ effective_retries(c).retries >= 0 /\ effective_retries(c).delay >= 0
        /\ effective_upload_rate_limit(c) >= 0 /\ effective_download_rate_limit(c) >= 0

=============================================================================
