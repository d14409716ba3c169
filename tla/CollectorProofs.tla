--------------------------- MODULE CollectorProofs ---------------------------
(***************************************************************************)
(* What holds of startup and collection for every environment, host and    *)
(* width of the counters.                                                  *)
(***************************************************************************)
EXTENDS Collector, TLAPS, FiniteSetTheorems

-----------------------------------------------------------------------------
(* The settings a running process has                                      *)

\* What main has read of the environment, as far as it has come.
ConfigInv ==
  /\ env \in Environments
  /\ phase \in {"build", "tickers", "check", "loop"} =>
       ~Rejected /\ cfg = [n \in Numbers |-> ParseOrZero(n)]
  /\ Running => cfg["checkInterval"] > 0 /\ cfg["diskInterval"] > 0

\* What main reads of an environment depends on nothing else.
LEMMA EnvDecides ==
  ASSUME UNCHANGED env
  PROVE  /\ Rejected' <=> Rejected
         /\ \A n : ParseOrZero(n)' = ParseOrZero(n)
  BY DEF Rejected, ParseOrZero, GetEnv

LEMMA InitConfigInv == CollectorInit => ConfigInv
  BY DEF CollectorInit, Init, ConfigInv, Running

LEMMA NextConfigInv == ConfigInv /\ [Next]_vars => ConfigInv'
<1> SUFFICES ASSUME ConfigInv, [Next]_vars PROVE ConfigInv'
  OBVIOUS
<1> USE DEF ConfigInv, Running
<1>1. CASE UNCHANGED startupVars
  BY <1>1, EnvDecides DEF startupVars
<1>2. CASE LoadConfig
  BY <1>2, EnvDecides DEF LoadConfig
<1>3. CASE Build
  BY <1>3, EnvDecides DEF Build
<1>4. CASE CreateTickers
  BY <1>4, EnvDecides DEF CreateTickers
<1>5. CASE Listen
  BY <1>5, EnvDecides DEF Listen
<1>6. CASE EnterLoop
  BY <1>6, EnvDecides DEF EnterLoop
<1>7. CASE Crash \/ Restart
  BY <1>7, EnvDecides DEF Crash, Restart
<1>8. CASE EditEnvironment
  BY <1>8 DEF EditEnvironment, Up
<1>9. ASSUME NEW d, PlugDisk(d) PROVE ConfigInv'
  BY <1>9, EnvDecides DEF PlugDisk
<1> QED
  BY <1>1, <1>2, <1>3, <1>4, <1>5, <1>6, <1>7, <1>8, <1>9
     DEF Next, Boot, Reboot, Collect, Host, Begin, ReadSensors, ReadDisks, QueryDisk,
         TryPath, TakeHealth, DisksQueried, ReadNet, NetUnreadable, Return, Tick,
         Traffic, InterfaceVanishes, DiskFails, SwapDisk, vars

\* However the environment was edited and the process died: a process that runs
\* its checks has positive intervals, an hour of the day, credentials and
\* somebody to mail to (config.go:92-116, main.go:33-35, 59-60).
THEOREM RunningIsConfigured == Spec => []RunsConfigured
<1>1. ConfigInv => RunsConfigured
  BY DEF ConfigInv, RunsConfigured, Running, Rejected, Numbers
<1> QED
  BY <1>1, InitConfigInv, NextConfigInv, PTL DEF Spec
-----------------------------------------------------------------------------
(* The network rate                                                        *)

\* The remainder of a number that exceeds the width at most once.
LEMMA Wrapped ==
  ASSUME NEW n \in Int, NEW w \in Nat \ {0}
  PROVE  /\ 0 <= n /\ n < w => n % w = n
         /\ -w <= n /\ n < 0 => n % w = n + w
         /\ w <= n /\ n < 2 * w => n % w = n - w
  OBVIOUS

\* The rate is filled in at the end.  The baseline is the reading the histories
\* begin at; until an interface vanishes, the counter differs from it by the bytes
\* moved, or by one width less.
BaselineInv ==
  /\ counter \in 0..(Wrap - 1)
  /\ moved \in 0..(Wrap - 1)
  /\ clock \in Nat
  /\ stats.net = NoRate \/ at = "done"
  /\ baseline = NoBaseline <=> since = NeverRead
  /\ baseline # NoBaseline =>
       /\ baseline.counter \in 0..(Wrap - 1)
       /\ baseline.time = since
       /\ since \in 0..clock
       /\ ~vanished => \/ counter = baseline.counter + moved
                       \/ counter = baseline.counter + moved - Wrap

\* Taking the health of a disk leaves the other fields of the snapshot alone.
LEMMA HealthLeaves ==
  ASSUME NEW run, TakeHealth(run)
  PROVE  stats'.net = stats.net /\ stats'.cpuTemp = stats.cpuTemp /\ DOMAIN stats' = DOMAIN stats
<1> DEFINE health == [e \in Queried \cup {device} |->
                        IF e = device THEN QuerySmartHealth(Output(run)) ELSE stats.smart[e]]
<1>1. stats' = [stats EXCEPT !.smart = health]
  BY DEF TakeHealth
<1> HIDE DEF health
<1> QED
  BY <1>1

LEMMA InitBaselineInv == CollectorInit => BaselineInv
  BY CollectorAssumption DEF CollectorInit, BaselineInv, NoStats

LEMMA NextBaselineInv == BaselineInv /\ [Next]_vars => BaselineInv'
<1> SUFFICES ASSUME BaselineInv, [Next]_vars PROVE BaselineInv'
  OBVIOUS
<1> USE CollectorAssumption DEF BaselineInv
<1>1. CASE UNCHANGED collectorVars
  BY <1>1 DEF collectorVars, hostVars, historyVars
<1>2. CASE Begin
  BY <1>2 DEF Begin, Goes, hostVars, historyVars
<1>3. ASSUME NEW out, ReadSensors(out) PROVE BaselineInv'
  BY <1>3 DEF ReadSensors, Goes, hostVars, historyVars
<1>4. ASSUME NEW unreadable, ReadDisks(unreadable) PROVE BaselineInv'
  BY <1>4 DEF ReadDisks, Goes, hostVars, historyVars
<1>5. ASSUME NEW d, QueryDisk(d) PROVE BaselineInv'
  BY <1>5 DEF QueryDisk, Goes, hostVars, historyVars
<1>14. ASSUME NEW run, TryPath(run) \/ TakeHealth(run) PROVE BaselineInv'
  <2>1. UNCHANGED <<hostVars, baseline, historyVars>> /\ at # "done"
    BY <1>14 DEF TryPath, TakeHealth, Goes
  <2>2. stats'.net = stats.net
    BY <1>14, HealthLeaves DEF TryPath
  <2> QED
    BY <2>1, <2>2 DEF hostVars, historyVars
<1>6. CASE DisksQueried \/ NetUnreadable
  BY <1>6 DEF DisksQueried, NetUnreadable, Goes, hostVars, historyVars
<1>7. CASE ReadNet
  BY <1>7 DEF ReadNet, Goes, hostVars, NoBaseline, NeverRead
<1>8. CASE Return
  BY <1>8 DEF Return, Goes, hostVars, historyVars, NoStats
<1>9. CASE Tick
  BY <1>9 DEF Tick, historyVars
<1>10. CASE Traffic
  <2>1. counter' = IF counter + 1 < Wrap THEN counter + 1 ELSE counter + 1 - Wrap
    <3>1. counter \in 0..(Wrap - 1) /\ Wrap \in Nat \ {0} /\ counter' = (counter + 1) % Wrap
      BY <1>10 DEF Traffic
    <3> DEFINE n == counter + 1
    <3>2. n \in Int /\ 0 <= n /\ n <= Wrap /\ Wrap < 2 * Wrap
      BY <3>1
    <3> HIDE DEF n
    <3>3. /\ 0 <= n /\ n < Wrap => n % Wrap = n
          /\ Wrap <= n /\ n < 2 * Wrap => n % Wrap = n - Wrap
      BY <3>1, <3>2, Wrapped, Zenon
    <3>4. n < Wrap => n % Wrap = n
      BY <3>2, <3>3
    <3>5. ~(n < Wrap) => n % Wrap = n - Wrap
      BY <3>1, <3>2, <3>3
    <3> QED
      BY <3>1, <3>4, <3>5 DEF n
  <2>2. moved' = IF since = NeverRead \/ vanished THEN 0 ELSE moved + 1
    BY <1>10 DEF Traffic
  <2>3. UNCHANGED <<stats, at, clock, baseline, since, vanished>> /\ moved + 1 < Wrap
    BY <1>10 DEF Traffic
  <2>4. counter' \in 0..(Wrap - 1) /\ moved' \in 0..(Wrap - 1)
    BY <2>1, <2>2, <2>3
  <2>5. ASSUME baseline # NoBaseline, ~vanished
        PROVE  \/ counter' = baseline.counter + moved'
               \/ counter' = baseline.counter + moved' - Wrap
    BY <2>1, <2>2, <2>3, <2>5
  <2> QED
    BY <2>3, <2>4, <2>5
<1>11. CASE InterfaceVanishes
  BY <1>11 DEF InterfaceVanishes
<1>12. ASSUME NEW d, DiskFails(d) \/ SwapDisk(d) PROVE BaselineInv'
  BY <1>12 DEF DiskFails, SwapDisk, historyVars
<1>13. CASE Reboot
  BY <1>13 DEF Reboot, NoStats
<1> QED
  BY <1>1, <1>2, <1>3, <1>4, <1>5, <1>6, <1>7, <1>8, <1>9, <1>10, <1>11, <1>12, <1>13,
     <1>14 DEF Next, Boot, Collect, Host, vars

\* The rate is that of the bytes moved, at whatever width the counters wrap and
\* whatever readings failed, unless an interface vanished (checker.go:410-431).
THEOREM RateIsTrue == Spec => RateTrue
<1> DEFINE True == at = "net" /\ at' = "done" /\ stats'.net # NoRate /\ ~vanished
                   => stats'.net = [bytes |-> moved, over |-> clock - since]
<1>1. BaselineInv /\ [Next]_vars => [True]_vars
  <2> SUFFICES ASSUME BaselineInv, Next, at = "net", at' = "done",
                      stats'.net # NoRate, ~vanished
               PROVE  stats'.net = [bytes |-> moved, over |-> clock - since]
    OBVIOUS
  <2> USE DEF BaselineInv
  <2>1. ReadNet \/ NetUnreadable
    BY DEF Next, Boot, Collect, Host, Begin, ReadSensors, ReadDisks, QueryDisk,
           TryPath, TakeHealth, DisksQueried, Return, Tick, Traffic, InterfaceVanishes, DiskFails,
           SwapDisk, Reboot, Goes, collectorVars
  <2>2. CASE NetUnreadable
    BY <2>2 DEF NetUnreadable
  <2>3. CASE ReadNet
    <3>1. stats'.net = RateSince(baseline)
      BY <2>3 DEF ReadNet
    <3>2. baseline # NoBaseline /\ stats'.net =
            [bytes |-> (counter - baseline.counter) % Wrap, over |-> clock - since]
      BY <3>1 DEF RateSince
    <3>3. (counter - baseline.counter) % Wrap = moved
      <4> DEFINE n == counter - baseline.counter
      <4>1. /\ n \in Int /\ Wrap \in Nat \ {0} /\ moved \in 0..(Wrap - 1)
            /\ n = moved \/ n = moved - Wrap
        BY <3>2, CollectorAssumption
      <4> HIDE DEF n
      <4>2. n % Wrap = moved
        BY <4>1, Wrapped
      <4> QED
        BY <4>2 DEF n
    <3> QED
      BY <3>2, <3>3
  <2> QED
    BY <2>1, <2>2, <2>3
<1> QED
  BY <1>1, InitBaselineInv, NextBaselineInv, PTL DEF Spec, RateTrue
-----------------------------------------------------------------------------
(* The snapshot                                                            *)

\* Collect is under way only in a process that runs its checks, or did when it
\* died; what it has passed is complete; no verdict of a disk was printed that is not
\* taken, and the disk being queried has none so far.
SnapshotInv ==
  /\ phase \in {"load", "build", "tickers", "fatal", "panicked"} => at = "idle"
  /\ sick \subseteq failing
  /\ at # "idle" => failing \subseteq failed
  /\ at \in {"idle", "sensors", "disks"} => stats.smart = <<>>
  /\ at \in {"smart", "/usr/sbin", "PATH", "net", "done"} => DOMAIN stats.disks = partitions
  /\ at \in {"/usr/sbin", "PATH"} => device \notin Queried
  /\ at \in {"net", "done"} => Queried = smartDevices
  /\ judged \subseteq Queried
  /\ \A d \in Queried :
       /\ d \in sick \cap judged => stats.smart[d] = "FAILED"
       /\ stats.smart[d] = "FAILED" => d \in failed

LEMMA InitSnapshotInv == CollectorInit => SnapshotInv
  BY DEF CollectorInit, Init, SnapshotInv, NoStats, Queried

\* What a run says of a disk: a failing one is never said to have passed, and only a
\* failing one to have failed.  A verdict is printed only with a text.
LEMMA RunsAreTrue ==
  ASSUME NEW d, NEW run \in Runs(d)
  PROVE  /\ QuerySmartHealth(Output(run)) = "FAILED" => d \in failing
         /\ d \in failing /\ Words[run.text] # {} => QuerySmartHealth(Output(run)) = "FAILED"
         /\ Output(run) = "silent" => Words[run.text] = {}
<1>1. CASE run \in [text : {"silent", "other"}, error : BOOLEAN]
  BY <1>1 DEF QuerySmartHealth, Output, Words
<1>2. CASE d \in failing /\ run = [text |-> "failed", error |-> TRUE]
  BY <1>2 DEF QuerySmartHealth, Output, Words
<1>3. CASE d \notin failing /\ run \in {[text |-> "passed", error |-> FALSE],
                                      [text |-> "marginal", error |-> TRUE]}
  BY <1>3 DEF QuerySmartHealth, Output, Words
<1> QED
  BY <1>1, <1>2, <1>3 DEF Runs

LEMMA NextSnapshotInv == SnapshotInv /\ [Next]_vars => SnapshotInv'
<1> SUFFICES ASSUME SnapshotInv, [Next]_vars PROVE SnapshotInv'
  OBVIOUS
<1> USE DEF SnapshotInv, Queried
<1>1. CASE Boot
  BY <1>1 DEF Boot, LoadConfig, Build, CreateTickers, collectorVars, hostVars, diskHistory
<1>2. CASE Reboot
  BY <1>2 DEF Reboot, Restart, NoStats
<1>3. CASE Begin
  BY <1>3 DEF Begin, Goes, startupVars, hostVars, Running
<1>4. ASSUME NEW out, ReadSensors(out) PROVE SnapshotInv'
  BY <1>4 DEF ReadSensors, Goes, startupVars, hostVars, diskHistory, Running
<1>5. ASSUME NEW unreadable, ReadDisks(unreadable) PROVE SnapshotInv'
  BY <1>5 DEF ReadDisks, Goes, startupVars, hostVars, diskHistory, Running
<1>6. ASSUME NEW d, QueryDisk(d) PROVE SnapshotInv'
  BY <1>6 DEF QueryDisk, Goes, startupVars, hostVars, diskHistory, Running
<1>7. ASSUME NEW run \in Runs(device), TryPath(run) PROVE SnapshotInv'
  <2>1. judged' = judged
    BY <1>7, RunsAreTrue DEF TryPath
  <2> QED
    BY <1>7, <2>1 DEF TryPath, Goes, startupVars, hostVars, Running
<1>8. ASSUME NEW run \in Runs(device), TakeHealth(run) PROVE SnapshotInv'
  <2> DEFINE health == QuerySmartHealth(Output(run))
  <2>1. /\ at \in {"/usr/sbin", "PATH"} /\ at' = "smart" /\ Running
        /\ UNCHANGED <<phase, partitions, failing, sick, failed>>
        /\ stats'.disks = stats.disks
        /\ stats'.smart = [e \in Queried \cup {device} |->
                             IF e = device THEN health ELSE stats.smart[e]]
        /\ judged' = IF Words[run.text] = {} THEN judged ELSE judged \cup {device}
    BY <1>8 DEF TakeHealth, Goes, startupVars, hostVars
  <2>2. /\ health = "FAILED" => device \in failing
        /\ device \in failing /\ Words[run.text] # {} => health = "FAILED"
    BY RunsAreTrue
  <2> HIDE DEF health
  <2>3. device \notin Queried /\ device \notin judged
    BY <2>1
  <2>4. ASSUME NEW d \in DOMAIN stats'.smart
        PROVE  /\ d \in sick' \cap judged' => stats'.smart[d] = "FAILED"
               /\ stats'.smart[d] = "FAILED" => d \in failed'
    <3>1. CASE d = device
      BY <2>1, <2>2, <2>3, <3>1
    <3>2. CASE d # device
      BY <2>1, <2>4, <3>2
    <3> QED
      BY <3>1, <3>2
  <2>5. judged' \subseteq DOMAIN stats'.smart
    BY <2>1
  <2> QED
    BY <2>1, <2>4, <2>5 DEF Running
<1>9. CASE DisksQueried \/ NetUnreadable
  BY <1>9 DEF DisksQueried, NetUnreadable, Goes, startupVars, hostVars, diskHistory, Running
<1>10. CASE ReadNet
  BY <1>10 DEF ReadNet, Goes, startupVars, hostVars, diskHistory, Running
<1>11. CASE Return
  BY <1>11 DEF Return, Goes, EnterLoop, startupVars, hostVars, NoStats, Running
<1>12. CASE (Listen \/ Crash \/ EditEnvironment) /\ UNCHANGED collectorVars
  BY <1>12 DEF Listen, Crash, EditEnvironment, collectorVars, hostVars, diskHistory, Up
<1>13. CASE Tick \/ Traffic \/ InterfaceVanishes
  BY <1>13 DEF Tick, Traffic, InterfaceVanishes, startupVars, diskHistory
<1>14. ASSUME NEW d, DiskFails(d) PROVE SnapshotInv'
  BY <1>14 DEF DiskFails, startupVars
<1>15. ASSUME NEW d, SwapDisk(d) PROVE SnapshotInv'
  BY <1>15 DEF SwapDisk, PlugDisk
<1>16. CASE UNCHANGED vars
  BY <1>16 DEF vars, startupVars, collectorVars, hostVars, diskHistory
<1> QED
  BY <1>1, <1>2, <1>3, <1>4, <1>5, <1>6, <1>7, <1>8, <1>9, <1>10, <1>11, <1>12,
     <1>13, <1>14, <1>15, <1>16 DEF Next, Collect, Host

\* Every snapshot covers the partitions of the settings and the disks found at
\* startup (checker.go:191-210).
THEOREM SnapshotsComplete == Spec => []SnapshotComplete
<1>1. SnapshotInv => SnapshotComplete
  BY DEF SnapshotInv, SnapshotComplete, Queried
<1> QED
  BY <1>1, InitSnapshotInv, NextSnapshotInv, PTL DEF Spec

\* A disk that fails throughout a collection is reported as FAILED if smartctl, run
\* under either path, printed a verdict of it, though it exits with an error
\* (checker.go:450-471).
THEOREM FailuresReported == Spec => []FailingReported
<1>1. SnapshotInv => FailingReported
  BY DEF SnapshotInv, FailingReported
<1> QED
  BY <1>1, InitSnapshotInv, NextSnapshotInv, PTL DEF Spec

\* No disk is reported as FAILED that was not failing at some time in the collection,
\* whatever smartctl prints of disks that are well, gone or unknown to it
\* (checker.go:433-448).
THEOREM ReportedWereFailing == Spec => []NoFalseFailure
<1>1. SnapshotInv => NoFalseFailure
  BY DEF SnapshotInv, NoFalseFailure
<1> QED
  BY <1>1, InitSnapshotInv, NextSnapshotInv, PTL DEF Spec
-----------------------------------------------------------------------------
(* Types                                                                   *)

\* A finite set of integers has a greatest: otherwise take a smallest set that has
\* none, and remove one of its elements.
LEMMA GreatestExists ==
  ASSUME NEW S, S \subseteq Int, IsFiniteSet(S), S # {}
  PROVE  \E m \in S : \A n \in S : m >= n
<1> DEFINE Bad == {T \in FiniteSubsetsOf(S) : T # {} /\ ~ \E m \in T : \A n \in T : m >= n}
<1> SUFFICES ASSUME ~ \E m \in S : \A n \in S : m >= n PROVE FALSE
  OBVIOUS
<1>1. S \in Bad
  BY FS_FiniteSubsetsOfFinite
<1>2. PICK T \in Bad : \A U \in Bad : ~ (<<U, T>> \in StrictSubsetOrdering(S))
  BY <1>1, FS_StrictSubsetOrderingWellFounded, WFMin, Zenon
<1>3. T \subseteq S /\ T # {} /\ ~ \E m \in T : \A n \in T : m >= n
  BY FS_FiniteSubsetsOfFinite
<1>4. PICK x \in T : TRUE
  BY <1>3
<1> DEFINE U == T \ {x}
<1>5. U \in FiniteSubsetsOf(S) /\ <<U, T>> \in StrictSubsetOrdering(S)
  BY <1>3, <1>4, FS_FiniteSubsetsOfFinite DEF StrictSubsetOrdering
<1>6. U \notin Bad
  BY <1>2, <1>5
<1>7. CASE U = {}
  BY <1>3, <1>4, <1>7
<1>8. CASE U # {}
  <2>1. PICK m \in U : \A n \in U : m >= n
    BY <1>5, <1>6, <1>8
  <2>2. m \in T /\ m \in Int /\ x \in Int /\ \A n \in T : n \in Int /\ (n = x \/ m >= n)
    BY <1>3, <1>4, <2>1
  <2>3. CASE m >= x
    BY <1>3, <2>2, <2>3
  <2>4. CASE ~(m >= x)
    <3>1. \A n \in T : x >= n
      BY <2>2, <2>4
    <3> QED
      BY <1>3, <1>4, <3>1
  <2> QED
    BY <2>3, <2>4
<1> QED
  BY <1>7, <1>8

\* The CPU temperature is the greatest of the readings that name the CPU, or 0.
LEMMA CpuTempIs ==
  ASSUME NEW out \in SensorOutputs
  PROVE  CPUTempCelsius(out) \in Nat
<1> DEFINE R == {u \in Usable(out) : u.kind = "temp" /\ NamesCpu(u)}
           f == [r \in R |-> r.value]
           V == {r.value : r \in R}
<1>1. out \in SUBSET Readings /\ IsFiniteSet(out)
  BY CollectorAssumption
<1>2. R \in SUBSET out
  BY DEF Usable
<1>3. IsFiniteSet(R)
  BY <1>1, <1>2, FS_Subset, Zenon
<1>4. V \subseteq Int
  BY <1>1, <1>2 DEF Readings
<1>5. f \in Surjection(R, V)
  BY DEF Surjection
<1> HIDE DEF f, V, R
<1>6. IsFiniteSet(V)
  BY <1>3, <1>5, FS_Surjection, Zenon
<1>7. IsFiniteSet({0} \cup V) /\ {0} \cup V \subseteq Int /\ {0} \cup V # {}
  <2>1. IsFiniteSet(V \cup {0})
    BY <1>6, FS_AddElement, Zenon
  <2>2. V \cup {0} = {0} \cup V
    OBVIOUS
  <2> QED
    BY <1>4, <2>1, <2>2
<1> DEFINE W == {0} \cup V
<1>8. 0 \in W
  OBVIOUS
<1>9. \E m \in W : \A n \in W : m >= n
  BY <1>7, GreatestExists, Zenon
<1>10. Max(W) \in W /\ Max(W) >= 0 /\ Max(W) \in Int
  BY <1>7, <1>8, <1>9 DEF Max
<1>11. CPUTempCelsius(out) = Max(W)
  BY DEF CPUTempCelsius, V, R
<1> QED
  BY <1>10, <1>11

\* The types, the fields a snapshot has from the beginning, and the disk queried.
TypeInv ==
  /\ TypeOK
  /\ DOMAIN stats = {"cpuTemp", "hwmon", "disks", "smart", "net"}
  /\ at \in {"/usr/sbin", "PATH"} => device \in Devices

LEMMA RateTyped ==
  ASSUME BaselineInv
  PROVE  RateSince(baseline) \in [bytes : 0..(Wrap - 1), over : Nat]
<1>1. CASE baseline = NoBaseline \/ clock = baseline.time
  BY <1>1, CollectorAssumption DEF RateSince, NoRate
<1>2. CASE ~(baseline = NoBaseline \/ clock = baseline.time)
  <2> DEFINE d == counter - baseline.counter
             t == clock - baseline.time
  <2>1. d \in Int /\ t \in Nat
    BY <1>2 DEF BaselineInv
  <2>2. RateSince(baseline) = [bytes |-> d % Wrap, over |-> t]
    BY <1>2 DEF RateSince
  <2> HIDE DEF d, t
  <2>3. d % Wrap \in 0..(Wrap - 1)
    BY <2>1, CollectorAssumption
  <2> QED
    BY <2>1, <2>2, <2>3
<1> QED
  BY <1>1, <1>2

LEMMA InitTypeInv == CollectorInit => TypeInv
  BY CollectorAssumption
     DEF CollectorInit, Init, TypeInv, TypeOK, NoStats, NoRate, NeverRead

LEMMA NextTypeInv == BaselineInv /\ TypeInv /\ [Next]_vars => TypeInv'
<1> SUFFICES ASSUME BaselineInv, TypeInv, [Next]_vars PROVE TypeInv'
  OBVIOUS
<1> USE DEF TypeInv, TypeOK
<1>1. CASE Boot
  BY <1>1 DEF Boot, LoadConfig, Build, CreateTickers, collectorVars, hostVars, diskHistory, historyVars
<1>2. CASE Reboot
  BY <1>2, CollectorAssumption DEF Reboot, Restart, NoStats, NoRate
<1>3. CASE Begin
  BY <1>3 DEF Begin, Goes, startupVars, hostVars, diskHistory, historyVars
<1>4. ASSUME NEW out \in SensorOutputs, ReadSensors(out) PROVE TypeInv'
  <2>1. /\ stats'.cpuTemp = CPUTempCelsius(out) /\ stats'.net = stats.net
        /\ DOMAIN stats' = DOMAIN stats
        /\ at' = "disks" /\ UNCHANGED <<startupVars, device, hostVars, baseline, diskHistory, historyVars>>
    BY <1>4 DEF ReadSensors, Goes
  <2> QED
    BY <2>1, CpuTempIs DEF startupVars, hostVars, diskHistory, historyVars
<1>5. ASSUME NEW unreadable, ReadDisks(unreadable) PROVE TypeInv'
  BY <1>5 DEF ReadDisks, Goes, startupVars, hostVars, diskHistory, historyVars
<1>15. ASSUME NEW run, TryPath(run) \/ TakeHealth(run) PROVE TypeInv'
  <2>1. /\ UNCHANGED <<startupVars, hostVars, baseline, sick, failed, historyVars>>
        /\ stats'.cpuTemp = stats.cpuTemp /\ stats'.net = stats.net
        /\ DOMAIN stats' = DOMAIN stats
    BY <1>15, HealthLeaves DEF TryPath, TakeHealth, Goes
  <2>2. /\ at \in {"/usr/sbin", "PATH"} /\ device \in Devices
        /\ at' \in {"smart", "PATH"}
        /\ at' = "PATH" => device' = device
        /\ device' \in {device, NoDevice}
        /\ judged' \subseteq judged \cup {device}
    BY <1>15 DEF TryPath, TakeHealth, Goes
  <2> QED
    BY <2>1, <2>2 DEF startupVars, hostVars, historyVars
<1>6. ASSUME NEW d \in smartDevices, QueryDisk(d) PROVE TypeInv'
  BY <1>6 DEF QueryDisk, Goes, startupVars, hostVars, diskHistory, historyVars
<1>7. CASE DisksQueried \/ NetUnreadable
  BY <1>7 DEF DisksQueried, NetUnreadable, Goes, startupVars, hostVars, diskHistory, historyVars
<1>8. CASE ReadNet
  <2>1. /\ stats'.net = RateSince(baseline) /\ stats'.cpuTemp = stats.cpuTemp
        /\ DOMAIN stats' = DOMAIN stats /\ at' = "done" /\ moved' = 0 /\ since' = clock
        /\ baseline' = [counter |-> counter, time |-> clock]
        /\ UNCHANGED <<startupVars, device, hostVars, diskHistory>>
    BY <1>8 DEF ReadNet, Goes
  <2> QED
    BY <2>1, RateTyped, CollectorAssumption DEF startupVars, hostVars, diskHistory
<1>9. CASE Return
  BY <1>9, CollectorAssumption
     DEF Return, Goes, EnterLoop, startupVars, hostVars, diskHistory, historyVars, NoStats, NoRate
<1>10. CASE (Listen \/ Crash \/ EditEnvironment) /\ UNCHANGED collectorVars
  BY <1>10 DEF Listen, Crash, EditEnvironment, collectorVars, hostVars, diskHistory, historyVars
<1>11. CASE Tick \/ Traffic \/ InterfaceVanishes
  <2>1. /\ UNCHANGED <<startupVars, at, stats, device, failing, baseline, diskHistory, since>>
        /\ clock' = clock \/ clock' = clock + 1
    BY <1>11 DEF Tick, Traffic, InterfaceVanishes, historyVars
  <2>2. counter' \in 0..(Wrap - 1) /\ moved' \in 0..(Wrap - 1)
    BY <1>11, NextBaselineInv DEF BaselineInv, Next, Host
  <2> QED
    BY <2>1, <2>2 DEF startupVars, diskHistory
<1>12. ASSUME NEW d \in Devices, DiskFails(d) PROVE TypeInv'
  BY <1>12 DEF DiskFails, startupVars, historyVars
<1>13. ASSUME NEW d \in Devices, SwapDisk(d) PROVE TypeInv'
  BY <1>13 DEF SwapDisk, PlugDisk, historyVars
<1>14. CASE UNCHANGED vars
  BY <1>14 DEF vars, startupVars, collectorVars, hostVars, diskHistory, historyVars
<1> QED
  BY <1>1, <1>2, <1>3, <1>4, <1>5, <1>6, <1>7, <1>8, <1>9, <1>10, <1>11, <1>12,
     <1>13, <1>14, <1>15 DEF Next, Collect, Host

\* Whatever sensors report, disks do and counters come to, every variable keeps to
\* its type: a CPU temperature is never negative, for the greatest of finitely many
\* readings and 0 exists, and a rate is over the time since the last reading
\* (checker.go:162-171, 410-431).
THEOREM TypeCorrect == Spec => []TypeOK
<1>1. TypeInv => TypeOK
  BY DEF TypeInv
<1> QED
  BY <1>1, InitTypeInv, NextTypeInv, InitBaselineInv, NextBaselineInv, PTL DEF Spec
=============================================================================
