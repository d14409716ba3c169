------------------------------- MODULE Monitor -------------------------------
(***************************************************************************)
(* cmd/monitor/main.go: the main goroutine.  It runs one check at startup, *)
(* then waits in a select for a tick of the check ticker, a tick of the    *)
(* disk ticker or a signal.  Every tick runs a check (collect, publish,    *)
(* evaluate the alerts, mails included); a tick of the check ticker may    *)
(* also send the daily heartbeat.  Nothing is persisted: a process that is *)
(* started again knows neither the alerts nor the heartbeats sent before.  *)
(*                                                                         *)
(* A ticker's channel has one slot; a tick that finds it full is dropped.  *)
(* The wall clock runs with the monotonic one, but for a shift of whole    *)
(* hours (daylight saving).  Of YearDay only its being different on        *)
(* different days matters: it is the number of the day.                    *)
(***************************************************************************)
EXTENDS Integers

CONSTANTS
  DataMounts, SmartDevices, Root, CPUConsecutiveChecks, AlertCooldown,
  TempEnabled, Samples, MailFaults, MaxTime,   \* see AlertManager
  CheckInterval,  \* cfg.CheckInterval, in units of the clock
  DiskInterval,   \* cfg.DiskInterval
  HeartbeatHour,  \* cfg.HeartbeatHour
  UnitsPerHour,   \* units of the clock in an hour
  HoursPerDay,    \* hours in a day
  StartHour,      \* the hour of the wall clock at time 0
  Shifts,         \* the hours the wall clock may once be set by, ahead or back
  Restarts        \* may the process crash, and is it started again?

ASSUME MonitorAssumption ==
  /\ CheckInterval \in Nat \ {0}   \* time.NewTicker panics on 0
  /\ DiskInterval \in Nat \ {0}
  /\ HoursPerDay \in Nat \ {0}
  /\ HeartbeatHour \in 0..(HoursPerDay - 1)
  /\ UnitsPerHour \in Nat \ {0}
  /\ StartHour \in Nat
  /\ Shifts \subseteq Int
  /\ \A h \in Shifts : StartHour + h \in Nat
  /\ Restarts \in BOOLEAN

VARIABLES
  now, stats, consecutiveCPUHighChecks, lastAlertTime, pending, sending,
  accepted, began, unsent, delivered, recent,  \* see AlertManager
  pc,               \* where the main goroutine is
  origin,           \* what the running check was started by
  booted,           \* when the tickers were created
  checkTick,        \* a tick waits in checkTicker.C
  diskTick,         \* a tick waits in diskTicker.C
  sigs,             \* a signal waits in the channel sigs
  lastHeartbeatDay,
  today,            \* YearDay when maybeHeartbeat last began a heartbeat
  shift,            \* hours the wall clock was set forward by
  mailedDays        \* history: days whose heartbeat the mail server took from
                    \* this process

AM == INSTANCE AlertManager

alertVars == <<now, stats, consecutiveCPUHighChecks, lastAlertTime, pending,
               sending, accepted, began, unsent, delivered, recent>>

loopVars == <<pc, origin, booted, checkTick, diskTick, sigs, lastHeartbeatDay,
              today, shift, mailedDays>>

vars == <<alertVars, loopVars>>

ASSUME AlertAssumption == AM!ConfigOK

NoDay == -1

-----------------------------------------------------------------------------
WallClock == now + (StartHour + shift) * UnitsPerHour
Hour      == (WallClock \div UnitsPerHour) % HoursPerDay
YearDay   == (WallClock \div UnitsPerHour) \div HoursPerDay

Running == pc \notin {"down", "stopped"}

\* signal.Notify is called after the first check.
Notified == Running /\ origin # "boot"

Init ==
  /\ AM!Init
  /\ pc = "collect"
  /\ origin = "boot"
  /\ booted = now
  /\ checkTick = FALSE
  /\ diskTick = FALSE
  /\ sigs = FALSE
  /\ lastHeartbeatDay = NoDay
  /\ today = NoDay
  /\ shift = 0
  /\ mailedDays = {}

\* runCheck: Collect returns snapshot s, the store publishes it, Evaluate begins.
RunCheck(s) ==
  /\ pc = "collect"
  /\ AM!Evaluate(s)
  /\ pc' = "evaluate"
  /\ UNCHANGED <<origin, booted, checkTick, diskTick, sigs, lastHeartbeatDay,
                 today, shift, mailedDays>>

\* Evaluate goes on.
Alert ==
  /\ pc = "evaluate"
  /\ \/ \E c \in AM!Conditions : AM!Skip(c) \/ AM!StartSend(c)
     \/ AM!MailAccepted
     \/ AM!SendSucceeds
     \/ AM!SendFails
  /\ UNCHANGED loopVars

MutCheckDoneRetries ==
  /\ pc = "evaluate"
  /\ AM!Idle
  /\ unsent = {}
  /\ pc' = IF origin = "check" THEN "heartbeat" ELSE "select"
  /\ origin' = "loop"
  /\ UNCHANGED <<alertVars, booted, checkTick, diskTick, sigs, lastHeartbeatDay,
                 today, shift, mailedDays>>

\* Evaluate and runCheck return; after a check tick maybeHeartbeat is next.
CheckDone ==
  /\ pc = "evaluate"
  /\ AM!Idle
  /\ pc' = IF origin = "check" THEN "heartbeat" ELSE "select"
  /\ origin' = "loop"
  /\ UNCHANGED <<alertVars, booted, checkTick, diskTick, sigs, lastHeartbeatDay,
                 today, shift, mailedDays>>

\* maybeHeartbeat reads the clock: it is not the hour, or the day is marked.
NoHeartbeat ==
  /\ pc = "heartbeat"
  /\ ~(Hour = HeartbeatHour /\ YearDay # lastHeartbeatDay)
  /\ pc' = "select"
  /\ UNCHANGED <<alertVars, origin, booted, checkTick, diskTick, sigs,
                 lastHeartbeatDay, today, shift, mailedDays>>

MutStartHeartbeatStale ==
  /\ pc = "heartbeat"
  /\ Hour = HeartbeatHour
  /\ YearDay # lastHeartbeatDay
  /\ pc' = "sendHeartbeat"
  /\ UNCHANGED <<alertVars, origin, booted, checkTick, diskTick, sigs,
                 lastHeartbeatDay, today, shift, mailedDays>>

\* maybeHeartbeat reads the clock: the heartbeat is due, and its mail begun.
StartHeartbeat ==
  /\ pc = "heartbeat"
  /\ Hour = HeartbeatHour
  /\ YearDay # lastHeartbeatDay
  /\ today' = YearDay
  /\ pc' = "sendHeartbeat"
  /\ UNCHANGED <<alertVars, origin, booted, checkTick, diskTick, sigs,
                 lastHeartbeatDay, shift, mailedDays>>

\* The mail server takes the heartbeat.
HeartbeatAccepted ==
  /\ pc = "sendHeartbeat"
  /\ pc' = "heartbeatTaken"
  /\ mailedDays' = mailedDays \cup {today}
  /\ UNCHANGED <<alertVars, origin, booted, checkTick, diskTick, sigs,
                 lastHeartbeatDay, today, shift>>

MutHeartbeatUnmarked ==
  /\ \/ pc = "heartbeatTaken"
     \/ pc = "sendHeartbeat" /\ "refused" \in MailFaults
  /\ pc' = "select"
  /\ UNCHANGED <<alertVars, origin, booted, checkTick, diskTick, sigs,
                 lastHeartbeatDay, today, shift, mailedDays>>

MutHeartbeatMarksLate ==
  /\ \/ pc = "heartbeatTaken"
     \/ pc = "sendHeartbeat" /\ "refused" \in MailFaults
  /\ lastHeartbeatDay' = YearDay
  /\ pc' = "select"
  /\ UNCHANGED <<alertVars, origin, booted, checkTick, diskTick, sigs, today,
                 shift, mailedDays>>

\* The send of the heartbeat returns, with or without an error: either way the
\* day is marked.
HeartbeatReturns ==
  /\ \/ pc = "heartbeatTaken"
     \/ pc = "sendHeartbeat" /\ "refused" \in MailFaults
  /\ lastHeartbeatDay' = today
  /\ pc' = "select"
  /\ UNCHANGED <<alertVars, origin, booted, checkTick, diskTick, sigs, today,
                 shift, mailedDays>>

\* select receives a tick of the check ticker.
TakeCheckTick ==
  /\ pc = "select"
  /\ checkTick
  /\ checkTick' = FALSE
  /\ pc' = "collect"
  /\ origin' = "check"
  /\ UNCHANGED <<alertVars, booted, diskTick, sigs, lastHeartbeatDay, today,
                 shift, mailedDays>>

\* select receives a tick of the disk ticker.
TakeDiskTick ==
  /\ pc = "select"
  /\ diskTick
  /\ diskTick' = FALSE
  /\ pc' = "collect"
  /\ origin' = "disk"
  /\ UNCHANGED <<alertVars, booted, checkTick, sigs, lastHeartbeatDay, today,
                 shift, mailedDays>>

MutTakeSignalBreaks ==
  /\ pc = "select"
  /\ sigs
  /\ sigs' = FALSE
  /\ UNCHANGED <<alertVars, pc, origin, booted, checkTick, diskTick,
                 lastHeartbeatDay, today, shift, mailedDays>>

\* select receives the signal: main returns.
TakeSignal ==
  /\ pc = "select"
  /\ sigs
  /\ sigs' = FALSE
  /\ pc' = "stopped"
  /\ UNCHANGED <<alertVars, origin, booted, checkTick, diskTick, lastHeartbeatDay,
                 today, shift, mailedDays>>

\* SIGINT or SIGTERM: kept in the channel once it is registered, where a second
\* one is dropped; before that the process dies of it.
Signal ==
  /\ Running
  /\ \/ Notified /\ sigs' = TRUE /\ pc' = pc
     \/ ~Notified /\ sigs' = sigs /\ pc' = "stopped"
  /\ UNCHANGED <<alertVars, origin, booted, checkTick, diskTick, lastHeartbeatDay,
                 today, shift, mailedDays>>

\* The process dies, at any point.
Crash ==
  /\ Restarts
  /\ Running
  /\ pc' = "down"
  /\ UNCHANGED <<alertVars, origin, booted, checkTick, diskTick, sigs,
                 lastHeartbeatDay, today, shift, mailedDays>>

\* systemd or the operator starts it again; nothing was saved, and with the new
\* process the histories begin anew.
Start ==
  /\ Restarts
  /\ ~Running
  /\ stats' = AM!NoStats
  /\ consecutiveCPUHighChecks' = 0
  /\ lastAlertTime' = AM!NoAlerts
  /\ pending' = {}
  /\ sending' = AM!NoCondition
  /\ accepted' = FALSE
  /\ began' = AM!Never
  /\ unsent' = {}
  /\ delivered' = AM!NoAlerts
  /\ recent' = AM!NoChecks
  /\ pc' = "collect"
  /\ origin' = "boot"
  /\ booted' = now
  /\ checkTick' = FALSE
  /\ diskTick' = FALSE
  /\ sigs' = FALSE
  /\ lastHeartbeatDay' = NoDay
  /\ today' = NoDay
  /\ mailedDays' = {}
  /\ UNCHANGED <<now, shift>>

\* Interval d of a ticker ends at the next unit of the clock.
Fires(d) == Running /\ (now + 1 - booted) % d = 0

\* Time passes, and the tickers fire into their one-slot channels.
Tick ==
  /\ AM!Tick
  /\ checkTick' = (checkTick \/ Fires(CheckInterval))
  /\ diskTick' = (diskTick \/ Fires(DiskInterval))
  /\ UNCHANGED <<pc, origin, booted, sigs, lastHeartbeatDay, today, shift,
                 mailedDays>>

\* The wall clock is set forward or back.
AdjustClock ==
  /\ shift = 0
  /\ shift' \in Shifts
  /\ UNCHANGED <<alertVars, pc, origin, booted, checkTick, diskTick, sigs,
                 lastHeartbeatDay, today, mailedDays>>

Select == TakeCheckTick \/ TakeDiskTick \/ TakeSignal

Next ==
  \/ \E s \in Samples : RunCheck(s)
  \/ Alert
  \/ CheckDone
  \/ NoHeartbeat \/ StartHeartbeat \/ HeartbeatAccepted \/ HeartbeatReturns
  \/ Select
  \/ Signal
  \/ Crash
  \/ Start
  \/ Tick
  \/ AdjustClock

Spec == Init /\ [][Next]_vars

\* What the program does by itself goes on; select picks at random among the
\* channels that are ready, so none is passed over for ever.
ProgramFairness ==
  /\ WF_vars(\E s \in Samples : RunCheck(s))
  /\ WF_vars(pc = "evaluate" /\ \E c \in AM!Conditions :
               (AM!Skip(c) \/ AM!StartSend(c)) /\ UNCHANGED loopVars)
  /\ WF_vars(CheckDone)
  /\ WF_vars(NoHeartbeat)
  /\ WF_vars(StartHeartbeat)
  /\ SF_vars(TakeCheckTick)
  /\ SF_vars(TakeDiskTick)
  /\ SF_vars(TakeSignal)

\* Every dialogue with the mail server ends, with or without an error.
MailFairness ==
  /\ WF_vars(pc = "evaluate" /\ sending # AM!NoCondition /\ Alert)
  /\ WF_vars(HeartbeatAccepted \/ HeartbeatReturns)

\* The mail server may leave the program waiting for its answer for ever: the
\* code sets no deadline on a connection.
HangSpec == Spec /\ ProgramFairness

FairSpec == HangSpec /\ MailFairness

-----------------------------------------------------------------------------
TypeOK ==
  /\ AM!TypeOK
  /\ pc \in {"collect", "evaluate", "heartbeat", "sendHeartbeat",
             "heartbeatTaken", "select", "stopped", "down"}
  /\ origin \in {"boot", "check", "disk", "loop"}
  /\ booted \in Nat
  /\ checkTick \in BOOLEAN
  /\ diskTick \in BOOLEAN
  /\ sigs \in BOOLEAN
  /\ lastHeartbeatDay \in Nat \cup {NoDay}
  /\ today \in Nat \cup {NoDay}
  /\ shift \in Shifts \cup {0}
  /\ mailedDays \subseteq Nat

\* The mail server gets one heartbeat per calendar day from one life of the
\* process, however long the mails take, whatever of them fail and wherever an
\* earlier process died (main.go:64 "so we only send once per calendar day").
OneHeartbeatPerDay ==
  [][pc = "sendHeartbeat" /\ pc' = "heartbeatTaken" => today \notin mailedDays]_vars

\* When the heartbeat hour ends with the loop waiting for its next tick, and
\* the process was up for that hour on a clock nobody set, the heartbeat of the
\* day was attempted (README "At HEARTBEAT_HOUR each day a summary email is
\* sent").  It takes a CheckInterval of at most an hour.
HeartbeatHourServed ==
  [][/\ Hour = HeartbeatHour /\ Hour' # HeartbeatHour
     /\ shift' = 0
     /\ now' - booted > UnitsPerHour
     /\ pc = "select" /\ ~checkTick
     => today = YearDay]_vars

\* A signal that has arrived ends the process (main.go:71-75, 88-90).
SignalHonoured == sigs ~> ~Running

\* A tick that has come is taken up while the process runs, so checks go on
\* whatever the mail server does (main.go:79-86).
TicksServed ==
  /\ checkTick ~> (~checkTick \/ ~Running)
  /\ diskTick ~> (~diskTick \/ ~Running)

\* One life of the process mails two alerts under one key no closer than one
\* cooldown, unless the reply to the first was lost; no part of an interrupted
\* check survives a restart to be mailed again (alertmanager.go:14-15).
OneMailPerCooldown == [][AM!SpacedMail]_vars
=============================================================================
