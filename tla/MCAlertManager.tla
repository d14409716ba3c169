--------------------------- MODULE MCAlertManager ---------------------------
(* Small instances of AlertManager for TLC.                                *)
EXTENDS AlertManager

CONSTANTS Slash, Data, Disk   \* mount points "/" and "/data", a block device

Quiet == [cpu |-> FALSE, ram |-> FALSE, root |-> FALSE, temp |-> FALSE,
          full |-> {}, failed |-> {}]

HighCpu == [Quiet EXCEPT !.cpu = TRUE]
Hot     == [Quiet EXCEPT !.temp = TRUE]
Failing == [Quiet EXCEPT !.failed = {Disk}]

\* DATA_PARTITIONS names "/" as well as "/data".
FullRoot  == [Quiet EXCEPT !.root = TRUE, !.full = {Slash}]
FullDisks == [Quiet EXCEPT !.root = TRUE, !.full = {Slash, Data}]

CpuOrDisks  == {Quiet, HighCpu, FullRoot, FullDisks}
MoreSamples == {Quiet, Hot, Failing}
=============================================================================
