-------------------------- MODULE MCManagementPage --------------------------
(* Small instances of ManagementPage for TLC.                              *)
EXTENDS ManagementPage, TLC

CONSTANTS
  c1, c2,                 \* requests under way
  nginx, mysql,           \* services; the page first shows mysql as well
  sshd, recidive,         \* jails
  attacker                \* a banned address

FirstServices == [s \in {nginx, mysql} |-> s = nginx]
Alike         == Permutations({c1, c2})
FirstBans     == {<<attacker, sshd>>}
=============================================================================
