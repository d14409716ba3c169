------------------------------ MODULE MCMonitor ------------------------------
(* Small instances of Monitor for TLC.                                     *)
EXTENDS Monitor

CONSTANT Slash   \* the mount point "/"

Quiet == [cpu |-> FALSE, ram |-> FALSE, root |-> FALSE, temp |-> FALSE,
          full |-> {}, failed |-> {}]

QuietOnly   == {Quiet}
RamSamples  == {Quiet, [Quiet EXCEPT !.ram = TRUE]}
NoShifts    == {}
BackOrForth == {-1, 1}
=============================================================================
