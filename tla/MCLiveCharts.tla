---------------------------- MODULE MCLiveCharts ----------------------------
(* Small instances of LiveCharts for TLC.                                  *)
EXTENDS LiveCharts, TLC

CONSTANTS cpu, netrx, s1, s2, MaxValue

\* Only the CPU has an alarm; the network rate is of no account.
CpuCritical == [x \in {cpu} |-> 2]
CpuSnapshots ==
  {[at |-> t, value |-> (cpu :> v @@ netrx :> 1)] : t \in 1..MaxUpdates, v \in 1..MaxValue}
=============================================================================
