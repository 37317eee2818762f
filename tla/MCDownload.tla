----------------------------- MODULE MCDownload -----------------------------
EXTENDS Download
CONSTANTS b1, b2, p1, p2
\* An incremental chain: b2 shares p1 with b1.
MCPartsOf == [b \in Backups |-> IF b = b1 THEN {p1, p2} ELSE {p1}]
\* b2 comes from a release that recorded no CRC64.
MCNoCrc == (Backups \ {b1}) \X Parts
\* b2 is published twice.
MCVersions == [b \in Backups |-> IF b = b1 THEN 1 ELSE 2]
\* Every name is published twice.
MCVersionsAll == [b \in Backups |-> 2]
=============================================================================
