-------------------------------- MODULE Remap --------------------------------
(***************************************************************************)
(* Restoring under other names: what --as and -m map a table to, and the   *)
(* rewriting of its CREATE statement, which works on the text.  The text   *)
(* is a sequence of tokens: keywords, symbols, plain and backtick-quoted   *)
(* identifiers, and string literals.                                       *)
(***************************************************************************)
LOCAL INSTANCE Naturals
LOCAL INSTANCE Sequences
LOCAL INSTANCE SequencesExt
LOCAL INSTANCE FiniteSetsExt

Token(kind, text, of) == [kind |-> kind, text |-> text, of |-> of]
Keyword(w) == Token("keyword", w, <<>>)
Bare(n) == Token("bare", n, <<>>)
Backtick(n) == Token("backtick", n, <<>>)
Literal(w) == Token("literal", w, <<>>)
IsSym(t, s) == t = Keyword(s)

(* A replica path is a literal with parts, some of them macros. *)
Path(parts) == Token("literal", "zk", parts)
Substitute(parts, macro, value) == [i \in DOMAIN parts |-> IF parts[i] = macro THEN value ELSE parts[i]]
ZkPath(template, db, table) == Path(Substitute(Substitute(template, "{database}", db), "{table}", table))

(* Positions of the text where P holds, and the first one after i (0: none). *)
First(ddl, i, P(_)) ==
    LET at == {j \in (i + 1)..Len(ddl) : P(j)} IN IF at = {} THEN 0 ELSE Min(at)
HasAt(ddl, i, s) == i + Len(s) - 1 <= Len(ddl) /\ SubSeq(ddl, i, i + Len(s) - 1) = s
replacen(ddl, from, to) ==
    LET i == First(ddl, 0, LAMBDA j : HasAt(ddl, j, from)) IN
    IF i = 0 THEN ddl
    ELSE SubSeq(ddl, 1, i - 1) \o to \o SubSeq(ddl, i + Len(from), Len(ddl))
Mentions(ddl, s) == First(ddl, 0, LAMBDA j : HasAt(ddl, j, s)) # 0
QName(Q(_), db, table) == <<Q(db), Keyword("."), Q(table)>>

-----------------------------------------------------------------------------
(* The flags.  A name in a mapping is the sequence of its dot-separated    *)
(* parts, a mapping a sequence of [from, to] pairs, some possibly blank.   *)

Blank == [from |-> <<>>, to |-> <<>>]
Pairs(items) == SelectSeq(items, LAMBDA x : x # Blank)
Err == [error |-> TRUE]
Ok(v) == [error |-> FALSE, value |-> v]

parse_table_mapping(items) ==
    IF Pairs(items) = <<>> \/ \E i \in DOMAIN Pairs(items) :
                                Len(Pairs(items)[i].from) # 2 \/ Len(Pairs(items)[i].to) # 2
    THEN Err ELSE Ok(Pairs(items))

(* A later pair for the same database replaces an earlier one. *)
parse_database_mapping(items) ==
    LET ps == Pairs(items)
        last(db) == Max({i \in DOMAIN ps : ps[i].from = db})
    IN  IF \E i \in DOMAIN ps : ps[i].from = <<>> \/ ps[i].to = <<>> THEN Err
        ELSE Ok([db \in {ps[i].from[1] : i \in DOMAIN ps} |-> ps[last(<<db>>)].to[1]])

(* --as with a ":" is a mapping; without, it renames the one table of -t. *)
RemapConfig(as, pattern, dbs) ==
    LET tables == CASE as = <<>> -> Ok(<<>>)
                    [] as # <<>> /\ as[1].from # <<>> -> parse_table_mapping(as)
                    [] OTHER -> IF Len(pattern) # 2 \/ {"*", "?"} \cap {pattern[1], pattern[2]} # {}
                                   \/ Len(as[1].to) # 2
                                THEN Err ELSE Ok(<<[from |-> pattern, to |-> as[1].to]>>)
        databases == parse_database_mapping(dbs)
    IN  IF tables.error \/ databases.error THEN Err
        ELSE Ok([rename_as |-> tables.value, database_mapping |-> databases.value])

remap_table_key(rc, key) ==
    LET hit == First(rc.rename_as, 0, LAMBDA j : rc.rename_as[j].from = key) IN
    CASE hit # 0 -> rc.rename_as[hit].to
      [] hit = 0 /\ key[1] \in DOMAIN rc.database_mapping -> <<rc.database_mapping[key[1]], key[2]>>
      [] OTHER -> key

-----------------------------------------------------------------------------
(* Rewriting. *)

(* The quoted form anywhere is preferred to the plain one; a name with one *)
(* part quoted and one not is neither.                                     *)
rewrite_table_name(ddl, src, dst) ==
    IF Mentions(ddl, QName(Backtick, src[1], src[2]))
    THEN replacen(ddl, QName(Backtick, src[1], src[2]), QName(Backtick, dst[1], dst[2]))
    ELSE replacen(ddl, QName(Bare, src[1], src[2]), QName(Bare, dst[1], dst[2]))

remove_uuid_clause(ddl) ==
    LET i == First(ddl, 0, LAMBDA j : IsSym(ddl[j], "UUID") /\ j < Len(ddl) /\ ddl[j + 1].kind = "literal")
    IN  IF i = 0 THEN ddl ELSE SubSeq(ddl, 1, i - 1) \o SubSeq(ddl, i + 2, Len(ddl))

(* The first text with "Replicated" in it, the first "(" after that and    *)
(* the first literal after that: nothing says they belong together.        *)
SaysReplicated(t) == t.text \in {"ReplicatedMergeTree", "ReplicatedLog"}
EngineParen(ddl) ==
    LET i == First(ddl, 0, LAMBDA j : SaysReplicated(ddl[j])) IN
    IF i = 0 THEN 0 ELSE First(ddl, i, LAMBDA j : IsSym(ddl[j], "("))
LiteralAfter(ddl, i) == IF i = 0 THEN 0 ELSE First(ddl, i, LAMBDA j : ddl[j].kind = "literal")
rewrite_replicated_zk_path(ddl, dst, template) ==
    LET i == LiteralAfter(ddl, EngineParen(ddl)) IN
    IF i = 0 THEN ddl ELSE [ddl EXCEPT ![i] = ZkPath(template, dst[1], dst[2])]
parse_replicated_params(ddl) ==
    LET paren == EngineParen(ddl)
        path == LiteralAfter(ddl, paren)
        replica == LiteralAfter(ddl, path)
    IN  IF replica = 0 \/ IsSym(ddl[paren + 1], ")") THEN <<>> ELSE <<ddl[path], ddl[replica]>>

(* The database and table of Distributed(cluster, database, table[, key]), *)
(* when they are the table that is being renamed.                          *)
find_distributed_engine(ddl) ==
    First(ddl, 0, LAMBDA j : ddl[j].text = "Distributed" /\ j < Len(ddl) /\ IsSym(ddl[j + 1], "("))
strip_quotes(t) == IF t.kind = "backtick" THEN "quoted" ELSE t.text   \* backticks are not stripped
Named(t, n) == [t EXCEPT !.kind = IF @ = "literal" THEN @ ELSE "bare", !.text = n]
rewrite_distributed_engine(ddl, src, dst) ==
    LET i == find_distributed_engine(ddl) IN
    IF i = 0 \/ strip_quotes(ddl[i + 4]) # src[1] \/ strip_quotes(ddl[i + 6]) # src[2] THEN ddl
    ELSE [ddl EXCEPT ![i + 4] = Named(@, dst[1]), ![i + 6] = Named(@, dst[2])]

\* Mutant: the renamed table keeps the replica path of its source.
rewrite_create_table_ddl_path(ddl, src, dst, template) ==
    rewrite_distributed_engine(remove_uuid_clause(rewrite_table_name(ddl, src, dst)), src, dst)
rewrite_create_table_ddl(ddl, src, dst, template) ==
    LET renamed == remove_uuid_clause(rewrite_table_name(ddl, src, dst)) IN
    rewrite_distributed_engine(rewrite_replicated_zk_path(renamed, dst, template), src, dst)

rewrite_create_database_ddl(ddl, src, dst) ==
    IF Mentions(ddl, <<Backtick(src)>>)
    THEN [i \in DOMAIN ddl |-> IF ddl[i] = Backtick(src) THEN Backtick(dst) ELSE ddl[i]]
    ELSE LET head == First(ddl, 0, LAMBDA j : IsSym(ddl[j], "CREATE DATABASE"))
             at == IF head # 0 /\ IsSym(ddl[head + 1], "IF NOT EXISTS") THEN head + 2 ELSE head + 1
         IN  IF head = 0 \/ ddl[at] # Bare(src) THEN ddl ELSE [ddl EXCEPT ![at] = Bare(dst)]

(* The first literal after "Distributed(" is taken for the cluster. *)
rewrite_distributed_cluster(ddl, cluster) ==
    LET i == find_distributed_engine(ddl)
        arg == IF i = 0 THEN 0 ELSE LiteralAfter(ddl, i)
    IN  IF arg = 0 THEN ddl ELSE [ddl EXCEPT ![arg] = Literal(cluster)]

(* The first of the words that the text has gets the clause, wherever. *)
InsertAfter(ddl, words) ==
    LET hit == First(words, 0, LAMBDA k : Mentions(ddl, <<Keyword(words[k])>>)) IN
    IF hit = 0 \/ Mentions(ddl, <<Keyword("IF NOT EXISTS")>>) THEN ddl
    ELSE InsertAt(ddl, First(ddl, 0, LAMBDA j : IsSym(ddl[j], words[hit])) + 1, Keyword("IF NOT EXISTS"))
ensure_if_not_exists_database(ddl) == InsertAfter(ddl, <<"CREATE DATABASE">>)
ensure_if_not_exists_table(ddl) ==
    InsertAfter(ddl, <<"CREATE MATERIALIZED VIEW", "CREATE LIVE VIEW", "CREATE WINDOW VIEW", "CREATE TABLE",
                       "CREATE VIEW", "CREATE DICTIONARY">>)

(* A plain identifier is skipped together with the dot after it, and then  *)
(* the name is taken to end if a quoted one follows.                       *)
skip_object_name(ddl, i) ==
    LET dotted == i + 2 <= Len(ddl) /\ IsSym(ddl[i + 1], ".") IN
    CASE ~dotted -> 1
      [] dotted /\ ddl[i].kind = "bare" /\ ddl[i + 2].kind = "backtick" -> 2
      [] OTHER -> 3
Clustered == {"CREATE TABLE", "CREATE MATERIALIZED VIEW", "CREATE VIEW", "CREATE DICTIONARY", "CREATE DATABASE"}
add_on_cluster_clause(ddl, cluster) ==
    LET name == IF IsSym(ddl[2], "IF NOT EXISTS") THEN 3 ELSE 2
        end == name + skip_object_name(ddl, name)
    IN  IF Mentions(ddl, <<Keyword("ON CLUSTER")>>) \/ ddl[1].text \notin Clustered THEN ddl
        ELSE SubSeq(ddl, 1, end - 1) \o <<Keyword("ON CLUSTER"), Literal(cluster)>> \o SubSeq(ddl, end, Len(ddl))

(* The first literal of the parameters of ENGINE = Replicated...: unlike    *)
(* the rewriting of the path, this one starts from the engine clause.      *)
replicated_zk_path_span(ddl) ==
    LET e == First(ddl, 0, LAMBDA j : IsSym(ddl[j], "ENGINE =")) IN
    IF e = 0 \/ ~SaysReplicated(ddl[e + 1]) \/ ~IsSym(ddl[e + 2], "(") THEN 0
    ELSE LET i == First(ddl, e + 2, LAMBDA j : ddl[j].kind = "literal" \/ IsSym(ddl[j], ")")) IN
         IF i = 0 \/ ddl[i].kind # "literal" THEN 0 ELSE i
replace_uuid_macro(ddl, uuid) ==
    LET i == replicated_zk_path_span(ddl) IN
    IF uuid = "" \/ i = 0 THEN ddl ELSE [ddl EXCEPT ![i].of = Substitute(@, "{uuid}", uuid)]

(* What create_tables sends to ClickHouse: `macro' is the setting           *)
(* replace_uuid_macro and `uuid' what the manifest recorded ("": nothing). *)
TableDdl(ddl, src, dst, template, distributed, cluster, macro, uuid) ==
    LET renamed == ensure_if_not_exists_table(
                       IF src = dst THEN ddl ELSE rewrite_create_table_ddl(ddl, src, dst, template))
        spread == IF distributed = "" THEN renamed ELSE rewrite_distributed_cluster(renamed, distributed)
        placed == IF cluster = "" THEN spread ELSE add_on_cluster_clause(spread, cluster)
    IN  IF macro THEN replace_uuid_macro(placed, uuid) ELSE placed

(* The path at which resolve_zk_conflict looks for a replica to drop: {uuid} *)
(* stands for the recorded UUID also when the statement keeps it.          *)
ConflictPath(ddl, uuid) ==
    LET params == parse_replicated_params(ddl) IN
    IF params = <<>> THEN <<>>
    ELSE IF uuid = "" THEN params[1].of ELSE Substitute(params[1].of, "{uuid}", uuid)

(* What create_ddl_objects sends for a view or a dictionary. *)
ObjectDdl(ddl, src, dst, template, cluster) ==
    LET made == ensure_if_not_exists_table(
                    IF src = dst THEN ddl ELSE rewrite_create_table_ddl(ddl, src, dst, template))
    IN  IF cluster = "" THEN made ELSE add_on_cluster_clause(made, cluster)
DatabaseDdl(ddl, src, dst, cluster) ==
    LET made == ensure_if_not_exists_database(IF src = dst THEN ddl ELSE rewrite_create_database_ddl(ddl, src, dst))
    IN  IF cluster = "" THEN made ELSE add_on_cluster_clause(made, cluster)
=============================================================================
