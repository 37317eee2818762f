CONSTANTS
    b1 = b1  b2 = b2  t1 = t1  t2 = t2
    o1 = o1  o2 = o2  o3 = o3  server = server  cli = cli
    NoOp = NoOp  Nobody = Nobody
    Backup = {b1, b2}
    Table = {t1}
    S3Table = {t1}
    Op = {o1, o2, o3}
    Proc = {server, cli}
    ProcOf <- MCProcOfAll
    Killable = {o1, o2}
    Cancellable = {o1, o2}
    Kinds = {"create", "upload", "release", "delete", "clean", "clean_broken"}
    UnnamedClean = TRUE
    Budgets <- MCBudgets
SPECIFICATION Spec
INVARIANT CopyPinned
INVARIANT NothingStranded
INVARIANT OwnerIsRunning
INVARIANT RecordedStaysFrozen
SYMMETRY MCSymmetryServer
CHECK_DEADLOCK FALSE
