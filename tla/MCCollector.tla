---------------------------- MODULE MCCollector ----------------------------
(* Small instances of Collector for TLC.                                   *)
EXTENDS Collector

CONSTANTS sda, data   \* a disk, a partition

\* The settings left unset, but for what has no default.
Plain == [number |-> [n \in Numbers |-> Unset], credentials |-> TRUE,
          recipients |-> TRUE, dataPartitions |-> {data}]

Set(n, v) == [Plain EXCEPT !.number[n] = v, !.dataPartitions = {}]

\* Two to run with, and what may be wrong with others.
EnvironmentsTried ==
  {Plain, Set("webPort", 70000), Set("checkInterval", Garbage),
   Set("diskInterval", -1), Set("heartbeatHour", 24), Set("smtpPort", Garbage),
   [Plain EXCEPT !.recipients = FALSE]}

Hot == [kind |-> "temp", chip |-> "coretemp", label |-> "core", value |-> 1]
NoProbe == [kind |-> "temp", chip |-> "nct", label |-> "temp1", value |-> -55]
Outputs == {{Hot, NoProbe}}
=============================================================================
