------------------------------ MODULE Collector ------------------------------
(***************************************************************************)
(* internal/checker/checker.go: Collect reads the host into a snapshot,    *)
(* one kind of metric after the other, while disks fail, come and go and   *)
(* the network moves on.  It is called for the first check, for every tick *)
(* and for the heartbeat, by the one goroutine that Startup brings up, and *)
(* works on the partitions and the disks found there.                      *)
(*                                                                         *)
(* A metric that cannot be read is left at 0.  CPU, memory and load leave  *)
(* nothing behind that a later metric could depend on, and are left out.   *)
(* Received and sent bytes are treated alike: one counter stands for both. *)
(***************************************************************************)
EXTENDS Startup, FiniteSets, FiniteSetsExt

CONSTANTS
  SensorOutputs,  \* what "sensors -j" may report: sets of readings
  NoDevice,       \* no disk is being queried
  Wrap,           \* counters are taken modulo Wrap, 2^64
  MaxClock        \* bound on the clock

\* Families of chips, as friendlyChipName tells them apart.
FriendlyChipName ==
  [coretemp |-> "CPU", nouveau |-> "GPU", amdgpu |-> "GPU", radeon |-> "GPU",
   it87 |-> "Motherboard", nct |-> "Motherboard", w836 |-> "Motherboard",
   k10temp |-> "Motherboard", iwlwifi |-> "WiFi", ath |-> "WiFi", other |-> "other"]

Readings == [kind : {"temp", "fan", "voltage"}, chip : DOMAIN FriendlyChipName,
             label : {"core", "package", "cpu", "fan1", "temp1"}, value : Int]

ASSUME CollectorAssumption ==
  /\ SensorOutputs \subseteq SUBSET Readings
  /\ \A out \in SensorOutputs : IsFiniteSet(out)
  /\ Wrap \in Nat \ {0}
  /\ MaxClock \in Nat

VARIABLES
  at,        \* where Collect is
  stats,     \* the snapshot, as far as it is filled in
  device,    \* the disk smartctl is run for
  failing,   \* the disks whose self-assessment fails
  clock,     \* time since the process began
  counter,   \* bytes moved, as net.IOCounters sums them up
  baseline,  \* prevNetCounters and prevNetTime
  sick,      \* history: disks failing ever since Collect began
  failed,    \* history: disks failing at any time since then
  judged,    \* history: disks smartctl has printed a verdict of since then
  since,     \* history: when the counters were last read
  vanished,  \* history: an interface has vanished since then
  moved      \* history: bytes moved since then, while none has

hostVars      == <<failing, clock, counter>>
diskHistory   == <<sick, failed, judged>>
historyVars   == <<since, vanished, moved>>
collectorVars == <<at, stats, device, hostVars, baseline, diskHistory, historyVars>>
vars          == <<startupVars, collectorVars>>

NeverRead  == -1
NoBaseline == [counter |-> -1, time |-> -1]
NoRate     == [bytes |-> 0, over |-> 0]
NoStats    == [cpuTemp |-> 0, hwmon |-> FALSE, disks |-> <<>>, smart |-> <<>>,
               net |-> NoRate]

CollectorInit ==
  /\ Init
  /\ at = "idle"
  /\ stats = NoStats
  /\ device = NoDevice
  /\ failing = {}
  /\ clock = 0
  /\ counter = 0
  /\ baseline = NoBaseline
  /\ sick = {} /\ failed = {} /\ judged = {}
  /\ moved = 0
  /\ since = NeverRead
  /\ vanished = FALSE

-----------------------------------------------------------------------------
(* The sensors                                                             *)

\* A temperature below -50 is that of no probe.
Usable(out) == {r \in out : r.kind = "temp" => r.value >= -50}

\* Collect looks for the CPU in prefix and label of a reading.
NamesCpu(r) ==
  FriendlyChipName[r.chip] = "CPU" \/ r.label \in {"cpu", "core", "package"}

CPUTempCelsius(out) ==
  Max({0} \cup {r.value : r \in {u \in Usable(out) : u.kind = "temp" /\ NamesCpu(u)}})

-----------------------------------------------------------------------------
(* S.M.A.R.T.                                                              *)

\* The words querySmartHealth looks for, in a text of smartctl.  One that reports
\* a disk as passed, with attributes that failed once, has a column WHEN_FAILED.
Words == [silent |-> {}, other |-> {}, passed |-> {"PASSED"}, failed |-> {"FAILED"},
          marginal |-> {"PASSED", "FAILED"}]

\* What a run of smartctl for disk d may print, and whether it exits with an error.
\* It may not be installed, not open or know the disk, or word its verdict
\* otherwise, as for SCSI disks, at any time.
Runs(d) ==
  [text : {"silent", "other"}, error : BOOLEAN] \cup
    (IF d \notin attached THEN {}
     ELSE IF d \in failing THEN {[text |-> "failed", error |-> TRUE]}
     ELSE {[text |-> "passed", error |-> FALSE], [text |-> "marginal", error |-> TRUE]})

MutOutputOfSuccess(run) == IF run.error THEN "silent" ELSE run.text

\* Whatever was printed is taken, with an error or without.
Output(run) == run.text

MutQuerySmartHealthFailedFirst(text) ==
  IF "FAILED" \in Words[text] THEN "FAILED"
  ELSE IF "PASSED" \in Words[text] THEN "PASSED" ELSE "UNKNOWN"

QuerySmartHealth(text) ==
  IF "PASSED" \in Words[text] THEN "PASSED"
  ELSE IF "FAILED" \in Words[text] THEN "FAILED" ELSE "UNKNOWN"

-----------------------------------------------------------------------------
(* Collect                                                                 *)

Goes(from, to) == Running /\ at = from /\ at' = to

Begin ==
  /\ Goes("idle", "sensors")
  /\ sick' = failing
  /\ failed' = failing
  /\ UNCHANGED <<startupVars, stats, device, hostVars, baseline, judged, historyVars>>

\* Fans and voltages are read from sysfs when sensors gives nothing of use.
ReadSensors(out) ==
  /\ Goes("sensors", "disks")
  /\ stats' = [stats EXCEPT !.cpuTemp = CPUTempCelsius(out), !.hwmon = Usable(out) = {}]
  /\ UNCHANGED <<startupVars, device, hostVars, baseline, diskHistory, historyVars>>

MutReadDisksSkips(unreadable) ==
  /\ Goes("disks", "smart")
  /\ stats' = [stats EXCEPT !.disks = [m \in partitions \ unreadable |-> TRUE]]
  /\ UNCHANGED <<startupVars, device, hostVars, baseline, diskHistory, historyVars>>

\* A partition that cannot be read has an entry as well, with no usage.
ReadDisks(unreadable) ==
  /\ Goes("disks", "smart")
  /\ stats' = [stats EXCEPT !.disks = [m \in partitions |-> m \notin unreadable]]
  /\ UNCHANGED <<startupVars, device, hostVars, baseline, diskHistory, historyVars>>

Queried == DOMAIN stats.smart

\* runSmartctl tries the absolute path first.
QueryDisk(d) ==
  /\ Goes("smart", "/usr/sbin")
  /\ d \in smartDevices \ Queried
  /\ device' = d
  /\ UNCHANGED <<startupVars, stats, hostVars, baseline, diskHistory, historyVars>>

\* Where it printed nothing, the next is the one on PATH.
TryPath(run) ==
  /\ Goes("/usr/sbin", "PATH")
  /\ Output(run) = "silent"
  /\ judged' = IF Words[run.text] = {} THEN judged ELSE judged \cup {device}
  /\ UNCHANGED <<startupVars, stats, device, hostVars, baseline, sick, failed, historyVars>>

\* A run that printed, or the last, decides on the health of the disk.
TakeHealth(run) ==
  /\ \/ Goes("/usr/sbin", "smart") /\ Output(run) # "silent"
     \/ Goes("PATH", "smart")
  /\ stats' = [stats EXCEPT !.smart =
                 [e \in Queried \cup {device} |->
                    IF e = device THEN QuerySmartHealth(Output(run)) ELSE stats.smart[e]]]
  /\ device' = NoDevice
  /\ judged' = IF Words[run.text] = {} THEN judged ELSE judged \cup {device}
  /\ UNCHANGED <<startupVars, hostVars, baseline, sick, failed, historyVars>>

DisksQueried ==
  /\ Goes("smart", "net")
  /\ Queried = smartDevices
  /\ UNCHANGED <<startupVars, stats, device, hostVars, baseline, diskHistory, historyVars>>

MutRateSinceSigned(b) ==
  IF b = NoBaseline \/ clock = b.time THEN NoRate
  ELSE [bytes |-> counter - b.counter, over |-> clock - b.time]

\* The rate is that of the bytes between two readings, in the type of the counters.
RateSince(b) ==
  IF b = NoBaseline \/ clock = b.time THEN NoRate
  ELSE [bytes |-> (counter - b.counter) % Wrap, over |-> clock - b.time]

MutReadNetFirstTime ==
  /\ Goes("net", "done")
  /\ stats' = [stats EXCEPT !.net = RateSince(baseline)]
  /\ baseline' = [counter |-> counter,
                  time |-> IF baseline = NoBaseline THEN clock ELSE baseline.time]
  /\ moved' = 0
  /\ since' = clock
  /\ vanished' = FALSE
  /\ UNCHANGED <<startupVars, device, hostVars, diskHistory>>

ReadNet ==
  /\ Goes("net", "done")
  /\ stats' = [stats EXCEPT !.net = RateSince(baseline)]
  /\ baseline' = [counter |-> counter, time |-> clock]
  /\ moved' = 0
  /\ since' = clock
  /\ vanished' = FALSE
  /\ UNCHANGED <<startupVars, device, hostVars, diskHistory>>

\* The counters cannot be read: the next reading is compared with the last one.
NetUnreadable ==
  /\ Goes("net", "done")
  /\ UNCHANGED <<startupVars, stats, device, hostVars, baseline, diskHistory, historyVars>>

\* The snapshot is handed to the caller; the loop comes after the first check.
Return ==
  /\ Goes("done", "idle")
  /\ stats' = NoStats
  /\ IF phase = "check" THEN EnterLoop ELSE UNCHANGED startupVars
  /\ sick' = {} /\ failed' = {} /\ judged' = {}
  /\ UNCHANGED <<device, hostVars, baseline, historyVars>>

-----------------------------------------------------------------------------
(* The host.  What moves through the network while no check runs for want  *)
(* of a process is of no account: the next one has nothing to compare with. *)

Tick ==
  /\ Running
  /\ clock < MaxClock
  /\ clock' = clock + 1
  /\ UNCHANGED <<startupVars, at, stats, device, failing, counter, baseline,
                 diskHistory, historyVars>>

\* Fewer than 2^64 bytes move between two readings.
Traffic ==
  /\ Running
  /\ moved + 1 < Wrap
  /\ counter' = (counter + 1) % Wrap
  /\ moved' = IF since = NeverRead \/ vanished THEN 0 ELSE moved + 1
  /\ UNCHANGED <<startupVars, at, stats, device, failing, clock, baseline,
                 diskHistory, since, vanished>>

\* An interface vanishes, and the bytes it counted with it.
InterfaceVanishes ==
  /\ Running
  /\ \E n \in 0..(Wrap - 1) : n < counter /\ counter' = n
  /\ vanished' = TRUE
  /\ moved' = 0
  /\ UNCHANGED <<startupVars, at, stats, device, failing, clock, baseline,
                 diskHistory, since>>

DiskFails(d) ==
  /\ d \in attached \ failing
  /\ failing' = failing \cup {d}
  /\ failed' = IF at = "idle" THEN failed ELSE failed \cup {d}
  /\ UNCHANGED <<startupVars, at, stats, device, clock, counter, baseline,
                 sick, judged, historyVars>>

\* A disk is pulled, or another put in its place.
SwapDisk(d) ==
  /\ PlugDisk(d)
  /\ failing' = failing \ {d}
  /\ sick' = sick \ {d}
  /\ UNCHANGED <<at, stats, device, clock, counter, baseline, failed, judged,
                 historyVars>>

\* A new process begins with a new Checker, and with it the histories.
Reboot ==
  /\ Restart
  /\ at' = "idle"
  /\ stats' = NoStats
  /\ device' = NoDevice
  /\ clock' = 0
  /\ baseline' = NoBaseline
  /\ sick' = {} /\ failed' = {} /\ judged' = {}
  /\ moved' = 0
  /\ since' = NeverRead
  /\ vanished' = FALSE
  /\ UNCHANGED <<failing, counter>>

Collect ==
  \/ Begin
  \/ \E out \in SensorOutputs : ReadSensors(out)
  \/ \E unreadable \in SUBSET partitions : ReadDisks(unreadable)
  \/ \E d \in smartDevices : QueryDisk(d)
  \/ \E run \in Runs(device) : TryPath(run) \/ TakeHealth(run)
  \/ DisksQueried
  \/ ReadNet
  \/ NetUnreadable
  \/ Return

Boot == (LoadConfig \/ Build \/ CreateTickers) /\ UNCHANGED collectorVars

Host ==
  \/ (Listen \/ Crash \/ EditEnvironment) /\ UNCHANGED collectorVars
  \/ Tick \/ Traffic \/ InterfaceVanishes
  \/ \E d \in Devices : DiskFails(d) \/ SwapDisk(d)

Next == Boot \/ Reboot \/ Collect \/ Host

Spec == CollectorInit /\ [][Next]_vars

\* The program goes on, and systemd starts it again.
FairSpec == Spec /\ WF_vars(Boot \/ Collect) /\ WF_vars(Reboot)

-----------------------------------------------------------------------------
TypeOK ==
  /\ phase \in {"load", "build", "tickers", "check", "loop", "fatal", "panicked", "crashed"}
  /\ dashboard \in {"none", "starting", "settled"}
  /\ attached \subseteq Devices /\ smartDevices \subseteq Devices
  /\ at \in {"idle", "sensors", "disks", "smart", "/usr/sbin", "PATH", "net", "done"}
  /\ device \in Devices \cup {NoDevice}
  /\ stats.cpuTemp \in Nat
  /\ stats.net \in [bytes : 0..(Wrap - 1), over : Nat]
  /\ failing \cup sick \cup failed \cup judged \subseteq Devices
  /\ clock \in Nat /\ since \in Nat \cup {NeverRead}
  /\ counter \in 0..(Wrap - 1) /\ moved \in 0..(Wrap - 1)
  /\ baseline \in [counter : 0..(Wrap - 1), time : Nat] \cup {NoBaseline}

\* A snapshot handed out has an entry for every partition the settings name and
\* every disk found at startup, whatever could not be read and whatever was
\* pulled meanwhile: the alerts and the page look them up there
\* (checker.go:191-210 "so callers know the check failed").
SnapshotComplete ==
  at = "done" =>
    /\ DOMAIN stats.disks = partitions
    /\ DOMAIN stats.smart = smartDevices

\* The rate in a snapshot is that of the bytes really moved since counters were
\* last read, by whichever check or heartbeat, readings that failed and counters
\* that wrapped in between included; unless an interface has vanished
\* (checker.go:84, 410-431).
RateTrue ==
  [][at = "net" /\ at' = "done" /\ stats'.net # NoRate /\ ~vanished
     => stats'.net = [bytes |-> moved, over |-> clock - since]]_vars

\* A disk that was failing before the collection began, and is still the one
\* found at startup, is reported as FAILED if any run of smartctl gave a verdict of
\* it: whichever path gave it, and though smartctl then exits with an error
\* (checker.go:450-471 "may return non-zero while still printing useful health text").
FailingReported ==
  at = "done" => \A d \in sick \cap judged : stats.smart[d] = "FAILED"

\* A disk reported as FAILED was failing at some time in the collection: one with
\* attributes that failed in the past is no failing disk, nor is one that smartctl
\* cannot open (checker.go:441-447).
NoFalseFailure ==
  \A d \in Queried : stats.smart[d] = "FAILED" => d \in failed
=============================================================================
