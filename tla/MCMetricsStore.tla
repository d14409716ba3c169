--------------------------- MODULE MCMetricsStore ---------------------------
(* Small instances of MetricsStore for TLC.                                *)
EXTENDS MetricsStore

CONSTANTS
  c1, c2,         \* two HTTP handlers
  cpu, ram,       \* two series
  package, board  \* two temperature sensors

OneOrder == {<<package, board>>}
=============================================================================
