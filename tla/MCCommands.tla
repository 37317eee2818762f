----------------------------- MODULE MCCommands -----------------------------
(***************************************************************************)
(* Instance for TLC: two processes and two backups, and beside them the    *)
(* pure algorithms (configuration, renaming of tables), checked on every   *)
(* input of a small set: `input' holds the one a behaviour is about.       *)
(***************************************************************************)
EXTENDS Cli, Remap

VARIABLE input

NoInput == [of |-> "cli"]
MCNames == {"a", "b"}
Plain == [given |-> {}, files |-> <<>>, own |-> <<>>, alias |-> <<>>, cli |-> <<>>]
WithKeep(k) == [Plain EXCEPT !.cli = <<<<<<"retention", "backups_to_keep_local">>, Num(k)>>>>]
MCConfigs == <<Plain, WithKeep(-1), WithKeep(1), [Plain EXCEPT !.given = {"flag"}]>>

Cmd(op, loc, raw, del) == [op |-> op, loc |-> loc, raw |-> raw, del |-> del]
Plainly(ops, raws) == {Cmd(op, "local", raw, FALSE) : op \in ops, raw \in raws}
CommandSet == 
    Plainly({"create", "create_remote"}, {"a", "latest", NoName})
    \cup Plainly({"upload", "download", "restore", "restore_remote"}, {"a", "latest", "previous"})
    \cup {Cmd("upload", "local", "a", TRUE)}
    \cup {Cmd("delete", loc, raw, FALSE) : loc \in {"local", "remote"}, raw \in {"a", "latest"}}
    \cup {Cmd("clean_broken", loc, NoName, FALSE) : loc \in {"local", "remote"}}
    \cup Plainly({"clean", "list", "tables", "print-config"}, {NoName}) \cup Plainly({"release-deferred"}, {"latest", Bad})
FewCommands == Plainly({"create_remote"}, {"a", "b"}) \cup {Cmd("delete", "local", "latest", FALSE)}

Two(x, y) == [n \in MCNames |-> IF n = "a" THEN x ELSE y]
MCStores == {[local |-> Two(Whole(1), Whole(2)), remote |-> Two(Gone, Whole(2)), held |-> {"a"}],
             [local |-> Two(Gone, Partial), remote |-> Two(Whole(2), Whole(1)), held |-> {}]}
OneStores == {[local |-> Two(Whole(1), Gone), remote |-> Two(Gone, Gone), held |-> {}]}

(* Every setting, given or not, readable or not, in each of its layers. *)
Texts(k) ==
    CASE Type(k) = "bool" -> <<Word("true"), Word("false"), Word("yes"), Word("1")>>
      [] Type(k) \in {"int", "float"} ->
            <<Num(9000), Num(5), IF k \in Signed THEN Word("x") ELSE Num(-1),
              IF k[2] = "port" THEN Num(65536) ELSE Wide(32)>>
      [] Type(k) = "level" -> <<Word("debug"), Word("warn"), Word("loud"), Word("")>>
      [] Type(k) = "format" -> <<Word("json"), Word("text"), Word("xml"), Word("")>>
      [] Type(k) = "compression" -> <<Word("zstd"), Word("none"), Word("xz"), Word("")>>
      [] Type(k) = "rbac" -> <<Word("fail"), Word("ignore"), Word("x"), Word("")>>
      [] Type(k) = "dur" -> <<IF k[2] = "full_interval" THEN Dur(2, "h") ELSE Dur(40, "s"),
                              Dur(61, "m"), Word("soon"), Dur(0, "s")>>
      [] OTHER -> <<Word("x"), Word("y"), Word(""), Num(1)>>
Or(k, given, text) == IF given THEN [j \in {k} |-> text] ELSE <<>>

(* The file gives the setting, or only another one of its section (5). *)
Neighbour(k) == CHOOSE j \in Fields \ {k} : j[1] = k[1] /\ Type(j) \in {"str", "int"}
InFile(k, file) ==
    CASE file = 0 -> <<>>
      [] file = 5 -> Neighbour(k) :> Default(Neighbour(k))
      [] OTHER -> k :> Texts(k)[file]
LayerCases(k) ==
    {[given |-> {"flag"}, files |-> [f \in {"flag"} |-> InFile(k, file)],
      own |-> Or(k, own > 0, Texts(k)[IF own = 0 THEN 1 ELSE own]),
      alias |-> Or(k, alias, Texts(k)[2]),
      cli |-> [i \in DOMAIN cli |-> <<k, Texts(k)[cli[i]]>>]] :
        file \in {0, 1, 3, 4, 5}, own \in {0, 2, 3, 4}, alias \in {k \in HasAlias, FALSE},
        cli \in {<<>>, <<1>>, <<2, 1>>, <<1, 3>>, <<4>>}}

(* Settings that validation or a command reads together. *)
Pair(j, k, s, t) == [Plain EXCEPT !.given = {"flag"}, !.files = [f \in {"flag"} |-> j :> s @@ k :> t]]
PairCases(j, k, ss, ts) == {Pair(j, k, s, t) : s \in ss, t \in ts}
Counts == {Num(0), Num(1)}
CrossCases ==
    UNION {PairCases(<<"general", f>>, <<"backup", f>>, Counts, Counts) :
             f \in {"upload_concurrency", "download_concurrency"}}
    \cup PairCases(<<"clickhouse", "max_connections">>, <<"backup", "object_disk_copy_concurrency">>, Counts, Counts)
    \cup PairCases(<<"s3", "concurrency">>, <<"general", "object_disk_server_side_copy_concurrency">>, Counts, Counts)
    \cup PairCases(<<"watch", "watch_interval">>, <<"watch", "full_interval">>,
            {Dur(1, "h"), Dur(3600, "s"), Num(60)}, {Dur(60, "m"), Num(3601), Dur(1, "m"), Dur(0, "h")})
    \cup PairCases(<<"api", "username">>, <<"api", "password">>, {Word(""), Word("u")}, {Word(""), Word("p")})
    \cup PairCases(<<"backup", "compression">>, <<"backup", "compression_level">>,
            {Word("zstd"), Word("gzip"), Word("lz4")}, {Num(9), Num(10), Num(22), Num(23)})
    \cup PairCases(<<"s3", "max_parts_count">>, <<"s3", "request_timeout">>,
            {Num(0), Num(10000), Num(10001)}, {Dur(0, "s"), Dur(24, "h"), Dur(1441, "m")})

(* Which file is read: it tells its own name as the S3 bucket. *)
Bucket == <<"s3", "bucket">>
PathCases ==
    {[Plain EXCEPT !.given = g, !.files = [f \in fs |-> Bucket :> Word(f)]] :
        g \in SUBSET {"flag", "env", "goenv"}, fs \in SUBSET {"flag", "env", "goenv", "etc", "goetc"}}

ConfigInputs ==
    [of : {"layers"}, k : Fields] \cup {[of |-> "cross", c |-> c] : c \in CrossCases}
    \cup {[of |-> "path", c |-> c] : c \in PathCases}

(* CREATE statements: the name quoted or not, a UUID, a column with a      *)
(* default text, an engine and a comment; and the flags that rename.       *)
Src == <<"db", "t">>
NameTokens(a, n) ==
    CASE a.quote = "bare" -> QName(Bare, n[1], n[2])
      [] a.quote = "backtick" -> QName(Backtick, n[1], n[2])
      [] OTHER -> <<Bare(n[1]), Keyword("."), Backtick(n[2])>>
Optional(b, s) == IF b THEN s ELSE <<>>
Separated(s) == IF s = <<>> THEN <<>> ELSE
    [i \in 1..(2 * Len(s) - 1) |-> IF i % 2 = 1 THEN s[(i + 1) \div 2] ELSE Keyword(",")]
EngineArgs(a) ==
    CASE a.engine = "ReplicatedMergeTree" /\ ~a.short -> <<a.zk, Literal("{replica}")>>
      [] a.engine = "Distributed" -> <<Literal(a.cluster), Literal(a.to[1]), Literal(a.to[2])>>
      [] OTHER -> <<>>
Render(a) ==
    <<Keyword("CREATE TABLE")>> \o Optional(a.ine, <<Keyword("IF NOT EXISTS")>>) \o NameTokens(a, a.name)
    \o Optional(a.on # "", <<Keyword("ON CLUSTER"), Literal(a.on)>>)
    \o Optional(a.uuid, <<Keyword("UUID"), Literal("u")>>)
    \o <<Keyword("("), Backtick(a.column)>> \o Optional(a.text, <<Keyword("DEFAULT"), Literal("x")>>)
    \o <<Keyword(")"), Keyword("ENGINE ="), Keyword(a.engine), Keyword("(")>> \o Separated(EngineArgs(a))
    \o <<Keyword(")")>> \o Optional(a.text, <<Keyword("COMMENT"), Literal("y")>>)
OldPath(macro) == Path(IF macro THEN <<"/old", "{uuid}">> ELSE <<"/old">>)
Engines ==
    {[engine |-> "MergeTree", short |-> FALSE, zk |-> OldPath(FALSE), to |-> Src]}
    \cup {[engine |-> "ReplicatedMergeTree", short |-> short, zk |-> OldPath(m), to |-> Src] : short, m \in BOOLEAN}
    \cup {[engine |-> "Distributed", short |-> FALSE, zk |-> OldPath(FALSE), to |-> to] : to \in {Src, <<"db", "local">>}}
Statements ==
    {[name |-> Src, on |-> "", quote |-> q, ine |-> ine, uuid |-> uuid, column |-> col, text |-> text,
      cluster |-> "c1"] @@ e :
        q \in {"bare", "backtick", "mixed"}, ine \in BOOLEAN, uuid \in BOOLEAN,
        col \in {"id", "ReplicatedLog"}, text \in BOOLEAN, e \in Engines}

(* The statements the rewriting is made for: a name quoted as a whole, no  *)
(* other use of the word Replicated, no literal behind an engine without   *)
(* arguments, and no reference to another table that is renamed too.       *)
NoDecoy(a) == a.column # "ReplicatedLog" /\ ~(a.engine = "ReplicatedMergeTree" /\ a.short /\ a.text)
Ordinary(a, rc) ==
    /\ a.quote # "mixed" /\ NoDecoy(a)
    /\ a.engine = "Distributed" /\ a.to # Src => remap_table_key(rc, a.to) = a.to
To(n) == [from |-> <<>>, to |-> n]
From(m, n) == [from |-> m, to |-> n]
Flags ==
    {RemapConfig(as, pattern, dbs) :
        as \in {<<>>, <<To(<<"new", "t2">>)>>, <<From(Src, <<"db", "t2">>), Blank>>, <<From(Src, <<"x">>)>>},
        pattern \in {<<>>, Src, <<"db", "*">>, <<"db", "?">>},
        dbs \in {<<>>, <<From(<<"db">>, <<"copy">>)>>, <<From(<<"db">>, <<>>)>>}}
Renamings == {f.value : f \in {g \in Flags : ~g.error}}

(* default_replica_path, replace_uuid_macro and the UUID of the manifest. *)
Templates == {<<"{database}", "{table}">>, <<"{uuid}">>}
Macros == [template : Templates, macro : BOOLEAN, recorded : {"", "u"}]
DdlInputs == {[of |-> "ddl", a |-> a, rc |-> rc, dist |-> d, on |-> on, m |-> m] :
                a \in Statements, rc \in Renamings, d \in {"", "c2"}, on \in {"", "c3"}, m \in Macros}
DatabaseStatement(q, ine, db, on) ==
    <<Keyword("CREATE DATABASE")>> \o Optional(ine, <<Keyword("IF NOT EXISTS")>>) \o <<Token(q, db, <<>>)>>
    \o Optional(on # "", <<Keyword("ON CLUSTER"), Literal(on)>>) \o <<Keyword("ENGINE ="), Keyword("Atomic")>>
DatabaseInputs == [of : {"database"}, q : {"bare", "backtick"}, ine : BOOLEAN, dst : {"db", "copy"}, on : {"", "c3"}]
ViewStatement(head, q, ine, name, on) ==
    <<Keyword(head)>> \o Optional(ine, <<Keyword("IF NOT EXISTS")>>) \o NameTokens([quote |-> q], name)
    \o Optional(on # "", <<Keyword("ON CLUSTER"), Literal(on)>>) \o <<Keyword("AS SELECT")>>
ViewInputs ==
    [of : {"view"}, q : {"bare", "backtick"}, ine : BOOLEAN, rc : Renamings, on : {"", "c3"},
     head : {"CREATE VIEW", "CREATE MATERIALIZED VIEW", "CREATE LIVE VIEW", "CREATE WINDOW VIEW", "CREATE DICTIONARY"}]

Recorded(m, path) ==
    IF m.macro /\ m.recorded # "" THEN Path(Substitute(path.of, "{uuid}", m.recorded)) ELSE path
Renamed(a, dst, dist, on, m) ==
    [a EXCEPT !.name = dst, !.ine = TRUE, !.on = on,
              !.uuid = a.uuid /\ dst = Src,
              !.zk = Recorded(m, IF dst = Src THEN @ ELSE ZkPath(m.template, dst[1], dst[2])),
              !.cluster = IF dist = "" THEN @ ELSE dist,
              !.to = IF @ = Src THEN dst ELSE @]
CreateSent(in, dist, on) ==
    TableDdl(Render(in.a), Src, remap_table_key(in.rc, Src), in.m.template, dist, on, in.m.macro, in.m.recorded)

Init ==
    /\ CliInit
    /\ \/ input = NoInput
       \/ /\ store = CHOOSE s \in Stores : TRUE
          /\ input \in ConfigInputs \cup DdlInputs \cup DatabaseInputs \cup ViewInputs
Next == input = NoInput /\ CliNext /\ UNCHANGED input
Spec == Init /\ [][Next]_<<cliVars, input>> /\ \A p \in Proc : WF_cliVars(CliStep(p))

-----------------------------------------------------------------------------
(* A value given for a setting is in force whenever the program starts,    *)
(* unless a stronger layer gives another: --env over the environment over  *)
(* the file over the default, and the file is the first of the fallback    *)
(* chain (Config::load_inner, resolve_config_path).  The environment       *)
(* counts for the settings that have a variable, and the default of        *)
(* sync_replicated_tables is the one of its place: EnvComplete and         *)
(* DefaultsAsListed below are what the repository says instead.            *)
ConfigPrecedence ==
    /\ input.of = "layers" => \A c \in LayerCases(input.k) : InForce(c, input.k)
    /\ input.of = "path" =>
         LET used == Value(input.c, "s3", "bucket").word
             chain == <<"flag", "env", "goenv", "etc", "goetc">>
             named(i) == chain[i] \in input.c.given \/ (i > 3 /\ chain[i] \in DOMAIN input.c.files)
         IN  load_inner(input.c) =>
               \/ /\ used \in DOMAIN input.c.files
                  /\ \E i \in 1..5 : chain[i] = used /\ named(i) /\ \A j \in 1..(i - 1) : ~named(j)
               \/ used = "default" /\ "flag" \notin input.c.given

(* apply_env_overlay: "Every config parameter can be overridden via an      *)
(* environment variable".                                                  *)
EnvComplete == input.of = "layers" => \A c \in LayerCases(input.k) : VariableHeeded(c, input.k)

(* docs/configuration.md lists one default for each setting. *)
DefaultsAsListed == input.of = "layers" => \A c \in LayerCases(input.k) : DefaultAsListed(c, input.k)

(* A configuration that validation accepts is one the operations can work  *)
(* with: no semaphore without permits, no part count S3 refuses, no        *)
(* full backup due before the next incremental one (Config::validate).     *)
ConfigUsable ==
    /\ input.of = "layers" => \A c \in LayerCases(input.k) : Reliable(c)
    /\ input.of = "cross" => Reliable(input.c)

(* A restore under other names creates exactly the renamed table: its name *)
(* is the one the flags give, --as before -m, its UUID is gone, its        *)
(* replica path is default_replica_path with the new names, and with the   *)
(* UUID the manifest recorded for {uuid} under replace_uuid_macro; nothing *)
(* else differs, and the replica conflict check reads that same path       *)
(* (create_tables, create_ddl_objects, create_databases).  Claimed of      *)
(* Ordinary statements only: RemapFollows, RemapQuoted and RemapTexts      *)
(* below fail on the others, and RemapOwnPath on paths without the names.  *)
(* ON CLUSTER never reaches a live or window view.                         *)
RemapExact ==
    /\ input.of = "ddl" /\ Ordinary(input.a, input.rc) =>
         LET dst == remap_table_key(input.rc, Src)
             ddl == CreateSent(input, input.dist, input.on)
             wanted == Renamed(input.a, dst, input.dist, input.on, input.m)
             replicated == input.a.engine = "ReplicatedMergeTree" /\ ~input.a.short
         IN  /\ ddl = Render(wanted)
             /\ dst = CASE input.rc.rename_as # <<>> -> input.rc.rename_as[1].to
                        [] input.rc.rename_as = <<>> /\ DOMAIN input.rc.database_mapping # {} -> <<"copy", "t">>
                        [] OTHER -> Src
             /\ ConflictPath(ddl, input.m.recorded) =
                  IF replicated THEN Recorded([input.m EXCEPT !.macro = TRUE], wanted.zk).of ELSE <<>>
    /\ input.of = "view" =>
         LET dst == remap_table_key(input.rc, Src) IN
         ObjectDdl(ViewStatement(input.head, input.q, input.ine, Src, ""), Src, dst, <<>>, input.on)
           = ViewStatement(input.head, input.q, TRUE, dst, IF input.head \in Clustered THEN input.on ELSE "")
    /\ input.of = "database" =>
         DatabaseDdl(DatabaseStatement(input.q, input.ine, "db", ""), "db", input.dst, input.on)
           = DatabaseStatement(input.q, TRUE, input.dst, input.on)

(* create_tables: the statement is rewritten first "so that                *)
(* resolve_zk_conflict() parses the remapped ZK path (not the source       *)
(* table's path)", whose replica it would otherwise drop.                  *)
RemapOwnPath ==
    input.of = "ddl" /\ Ordinary(input.a, input.rc) /\ remap_table_key(input.rc, Src) # Src =>
        LET path == ConflictPath(CreateSent(input, "", ""), input.m.recorded)
            source == Substitute(ZkPath(input.m.template, "db", "t").of, "{uuid}", input.m.recorded)
        IN  path = <<>> \/ path # source

(* Step 4 of rewrite_create_table_ddl, "Update Distributed engine           *)
(* database/table references": no reference to a table that the flags      *)
(* rename is left in a rewritten statement.                                *)
RemapFollows ==
    input.of = "ddl" /\ input.a.quote # "mixed" /\ input.a.engine = "Distributed" =>
        LET ddl == CreateSent(input, "", "") IN
        LET i == find_distributed_engine(ddl) IN
        <<ddl[i + 4].text, ddl[i + 6].text>> = remap_table_key(input.rc, input.a.to)

(* The rename reaches every name ClickHouse prints, db.`my-table` included. *)
RemapQuoted ==
    input.of = "ddl" /\ input.a.quote = "mixed" =>
        ~Mentions(CreateSent(input, "", ""), NameTokens(input.a, Src)) \/ remap_table_key(input.rc, Src) = Src

(* Only the replica path changes: no other text of the table does. *)
RemapTexts ==
    input.of = "ddl" =>
        \A w \in {"x", "y"} :
            Mentions(Render(input.a), <<Literal(w)>>) => Mentions(CreateSent(input, "", ""), <<Literal(w)>>)
=============================================================================
