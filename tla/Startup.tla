------------------------------- MODULE Startup -------------------------------
(***************************************************************************)
(* From an environment to a running program: internal/config/config.go and *)
(* the first half of main in cmd/monitor/main.go, which loads the settings,*)
(* looks for disks, starts the dashboard in a goroutine of its own and     *)
(* creates the tickers; systemd starts the program again when it fails.    *)
(*                                                                         *)
(* A setting is a text that is unset, no number, or a number (durations in *)
(* seconds); a list is the set of its entries that are not blank.  The     *)
(* four thresholds are treated alike, and threshold stands for each.       *)
(***************************************************************************)
EXTENDS Integers

CONSTANTS
  Unset, Garbage,  \* texts of a setting: none, and one that does not parse
  Environments,    \* the environments an operator may write
  Devices,         \* the disks detectSmartDevices looks for
  Mounts,          \* mount points DATA_PARTITIONS may name
  MaxFailures      \* bound on crashes of a running program

Texts    == Int \cup {Unset, Garbage}
Numbers  == {"smtpPort", "webPort", "threshold", "cpuConsecutiveChecks",
             "checkInterval", "diskInterval", "alertCooldown", "heartbeatHour"}
Settings == [number         : [Numbers -> Texts],
             credentials    : BOOLEAN,         \* SMTP_USER and SMTP_PASS are set
             recipients     : BOOLEAN,         \* ALERT_TO names an address
             dataPartitions : SUBSET Mounts]

ASSUME StartupAssumption ==
  /\ {Unset, Garbage} \cap Int = {}
  /\ Environments \subseteq Settings
  /\ Environments # {}
  /\ MaxFailures \in Nat

VARIABLES
  env,           \* the environment file
  attached,      \* the disks the host has
  phase,         \* how far main is, or how the process ended
  cfg,           \* the numbers of the Config
  partitions,    \* cfg.DataPartitions
  smartDevices,  \* the disks found
  dashboard,     \* the goroutine of the dashboard
  failures       \* crashes so far

startupVars == <<env, attached, phase, cfg, partitions, smartDevices,
                 dashboard, failures>>

NoConfig == [n \in Numbers |-> 0]

\* The process is there; it is past the creation of its tickers.
Up      == phase \notin {"fatal", "panicked", "crashed"}
Running == phase \in {"check", "loop"}

-----------------------------------------------------------------------------
(* config.Load                                                             *)

Default ==
  [smtpPort |-> 587, webPort |-> 8080, threshold |-> 95,
   cpuConsecutiveChecks |-> 3, checkInterval |-> 60, diskInterval |-> 900,
   alertCooldown |-> 10800, heartbeatHour |-> 8]

GetEnv(n) == IF env.number[n] = Unset THEN Default[n] ELSE env.number[n]

\* parseInt, parseFloat and parseDuration: what does not parse is 0.
ParseOrZero(n) == IF GetEnv(n) = Garbage THEN 0 ELSE GetEnv(n)

MutRejectedNoHour ==
  \/ GetEnv("smtpPort") = Garbage
  \/ ~env.recipients
  \/ GetEnv("webPort") = Garbage
  \/ ~env.credentials

\* What Load, or main after it, does not start with.
Rejected ==
  \/ GetEnv("smtpPort") = Garbage
  \/ ~env.recipients
  \/ ParseOrZero("heartbeatHour") \notin 0..23
  \/ GetEnv("webPort") = Garbage
  \/ ~env.credentials

-----------------------------------------------------------------------------
Init ==
  /\ env \in Environments
  /\ attached \in SUBSET Devices
  /\ phase = "load"
  /\ cfg = NoConfig
  /\ partitions = {}
  /\ smartDevices = {}
  /\ dashboard = "none"
  /\ failures = 0

\* log.Fatal where the settings are rejected.
LoadConfig ==
  /\ phase = "load"
  /\ IF Rejected THEN phase' = "fatal" /\ UNCHANGED <<cfg, partitions>>
     ELSE /\ phase' = "build"
          /\ cfg' = [n \in Numbers |-> ParseOrZero(n)]
          /\ partitions' = env.dataPartitions
  /\ UNCHANGED <<env, attached, smartDevices, dashboard, failures>>

\* The disks that exist are listed, once and for all; the goroutine is started.
Build ==
  /\ phase = "build"
  /\ smartDevices' = attached
  /\ dashboard' = "starting"
  /\ phase' = "tickers"
  /\ UNCHANGED <<env, attached, cfg, partitions, failures>>

MutListenFatal ==
  /\ dashboard = "starting"
  /\ \/ /\ cfg["webPort"] \in 0..65535
        /\ dashboard' = "settled"
        /\ phase' = phase
     \/ dashboard' = "none" /\ phase' = "fatal"
  /\ UNCHANGED <<env, attached, cfg, partitions, smartDevices, failures>>

\* The goroutine listens, or logs an error and ends; for the main goroutine it
\* is all the same.
Listen ==
  /\ dashboard = "starting"
  /\ dashboard' = "settled"
  /\ UNCHANGED <<env, attached, phase, cfg, partitions, smartDevices, failures>>

\* time.NewTicker panics unless the interval is positive, and with it the process.
CreateTickers ==
  /\ phase = "tickers"
  /\ phase' = IF cfg["checkInterval"] > 0 /\ cfg["diskInterval"] > 0
              THEN "check" ELSE "panicked"
  /\ dashboard' = IF phase' = "panicked" THEN "none" ELSE dashboard
  /\ UNCHANGED <<env, attached, cfg, partitions, smartDevices, failures>>

\* The first check is over.
EnterLoop ==
  /\ phase = "check"
  /\ phase' = "loop"
  /\ UNCHANGED <<env, attached, cfg, partitions, smartDevices,
                 dashboard, failures>>

\* The process dies.
Crash ==
  /\ Up
  /\ failures < MaxFailures
  /\ failures' = failures + 1
  /\ phase' = "crashed"
  /\ dashboard' = "none"
  /\ UNCHANGED <<env, attached, cfg, partitions, smartDevices>>

\* systemd starts the program again; it may find another environment.
Restart ==
  /\ ~Up
  /\ phase' = "load"
  /\ cfg' = NoConfig
  /\ partitions' = {}
  /\ smartDevices' = {}
  /\ UNCHANGED <<env, attached, dashboard, failures>>

\* The operator edits the environment of a program that has failed.
EditEnvironment ==
  /\ ~Up
  /\ env' \in Environments
  /\ UNCHANGED <<attached, phase, cfg, partitions, smartDevices,
                 dashboard, failures>>

\* A disk comes or goes.
PlugDisk(d) ==
  /\ attached' = IF d \in attached THEN attached \ {d} ELSE attached \cup {d}
  /\ UNCHANGED <<env, phase, cfg, partitions, smartDevices,
                 dashboard, failures>>

-----------------------------------------------------------------------------
\* Whatever the environment was edited to and however often the process died: a
\* process that runs its checks has what the main loop and its tickers take for
\* granted (Monitor, MonitorAssumption), and has somebody to mail to
\* (config.go:92-116, main.go:33-35, 59-60).
RunsConfigured ==
  Running =>
    /\ cfg["checkInterval"] > 0
    /\ cfg["diskInterval"] > 0
    /\ cfg["heartbeatHour"] \in 0..23
    /\ env.credentials /\ env.recipients

\* The environment is one the program can run with.
Sound ==
  /\ ~Rejected
  /\ ParseOrZero("checkInterval") > 0
  /\ ParseOrZero("diskInterval") > 0

\* Once the environment is one to run with, the program comes up and stays up,
\* wherever it died before and whether or not the dashboard could listen
\* (main.go:49-56, madeena-monitor.service:13).
ComesUp == <>[]Sound => <>[](phase = "loop")
=============================================================================
