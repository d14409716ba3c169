SPECIFICATION Spec
CONSTANTS
  nginx = nginx
  mysql = mysql
  sshd = sshd
  recidive = recidive
  attacker = attacker
  c1 = c1
  c2 = c2
  Calls = {c1, c2}
  Services = {nginx}
  Jails = {sshd, recidive}
  IPs = {attacker}
  SshdJail = sshd
  MockServices <- FirstServices
  MockBans <- FirstBans
INVARIANTS TypeOK
PROPERTIES  ActionsTrue
SYMMETRY Alike
