------------------------------ MODULE MCServer ------------------------------
(* Instances of Server. *)
EXTENDS Server

CONSTANTS l1, l2, r1, r2

Of(kinds) == kinds \X {"a"}
MCRequests == [s \in {"quiet", "batch", "reload", "restart"} |->
    CASE s = "quiet" -> Of({"create", "upload", "delete_local", "clean_broken_local", "clean"})
      [] s = "batch" -> Of({"create_remote", "delete_remote"}) \cup {<<"create", "latest">>}
      [] s = "reload" -> Of({"create_remote", "delete_remote", "clean_broken_remote"})
      [] s = "restart" -> Of({"create_remote", "restore_remote", "download", "restore"})]
ResumeRequests == [s \in {"restart"} |-> {"create_remote"} \X {"a", "b"}]
MCBatch == <<<<"create", "b">>, <<"upload", "b">>>>
=============================================================================
