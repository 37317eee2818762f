----------------------------- MODULE MCRestore -----------------------------
(* Small instances of Restore for TLC. *)
EXTENDS Restore

CONSTANTS t1, t2, t3, q, v1, v2

Cmd(rm, resume, kind, sel) == [rm |-> rm, resume |-> resume, kind |-> kind, sel |-> sel]

\* t1 is a ReplacingMergeTree, t2 a plain MergeTree whose block numbers are out of reach of
\* the names an attach gives.
MCBlocks == [t \in Tables |-> IF t = t1 THEN {2, 3} ELSE IF t = t2 THEN {8} ELSE {1}]
LowBlocks == [t \in Tables |-> {1, 2}]
MCNeeds == [o \in Objects |-> IF o = v1 THEN {v2} ELSE IF o = v2 THEN {q} ELSE {}]
MCLosable == {{}, {<<t1, 3>>}, {<<t2, 8>>}}
NoLosable == {{}}

\* The first restore is plain or resumable; what follows an interrupted or finished one is
\* the same command with --resume.  Tables that hold other data are dropped first, by a
\* restore no other follows; a schema-only restore may be followed by a data-only one.
MCFollows(prev, c, dirty) ==
    /\ dirty = c.rm
    /\ prev.sel # {} => ~prev.rm /\ (\/ c = [prev EXCEPT !.resume = TRUE]
                                     \/ prev.kind = "schema" /\ c.kind = "data")

FullCommands == {Cmd(rm, resume, "full", Tables) : rm \in BOOLEAN, resume \in BOOLEAN}
ResumeCommands == {Cmd(FALSE, TRUE, "full", Tables)}
KindCommands == {Cmd(FALSE, TRUE, k, Tables) : k \in {"schema", "data"}}
AllCommands == FullCommands \cup KindCommands
SubsetCommands == {Cmd(TRUE, FALSE, "full", {t1})}
RmThenResume == {Cmd(TRUE, FALSE, "full", Tables), Cmd(FALSE, TRUE, "full", Tables)}
AnyOrder(prev, c, dirty) == dirty => c.rm
=============================================================================
