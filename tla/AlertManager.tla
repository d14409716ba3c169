---------------------------- MODULE AlertManager ----------------------------
(***************************************************************************)
(* internal/notifier/alertmanager.go: AlertManager.Evaluate examines one   *)
(* snapshot of the host.  It updates the run of high-CPU checks, then      *)
(* visits the alert conditions one by one: CPU, RAM, root disk, every data *)
(* partition, every S.M.A.R.T. device (two Go maps, so in any order), and  *)
(* at last the combined "cumulative" condition.  A breached condition      *)
(* whose key is not in its cooldown is mailed; the SMTP dialogue takes     *)
(* time and may fail before or after the server has taken the mail.        *)
(*                                                                         *)
(* A snapshot is abstracted to which thresholds it reaches.  A metric that *)
(* could not be read is 0 in the code and so reaches no threshold here.    *)
(* Only the monitor goroutine calls Evaluate, so the mutex is left out,    *)
(* and a condition that is not breached is passed over without a step.     *)
(* The counter stops at CPUConsecutiveChecks, the only value it is         *)
(* compared with; a negative CPUConsecutiveChecks acts as 0 does.          *)
(***************************************************************************)
EXTENDS Integers

CONSTANTS
  DataMounts,           \* cfg.DataPartitions
  SmartDevices,         \* devices found at startup
  Root,                 \* the mount point "/"; DATA_PARTITIONS may name it too
  CPUConsecutiveChecks, \* cfg.CPUConsecutiveChecks (0 when it does not parse)
  AlertCooldown,        \* cfg.AlertCooldown (0 when it does not parse; may be negative)
  TempEnabled,          \* cfg.TempThreshold > 0
  Samples,              \* the snapshots Collect may return
  MailFaults,           \* subset of {"refused", "lost"}: how a send may fail
  MaxTime               \* bound on the clock

Stats == [cpu : BOOLEAN, ram : BOOLEAN, root : BOOLEAN, temp : BOOLEAN,
          full   : SUBSET DataMounts,    \* partitions at or over the threshold
          failed : SUBSET SmartDevices]  \* devices reporting FAILED

ConfigOK ==
  /\ CPUConsecutiveChecks \in Nat
  /\ AlertCooldown \in Int
  /\ TempEnabled \in BOOLEAN
  /\ Samples \subseteq Stats
  /\ MailFaults \subseteq {"refused", "lost"}
  /\ MaxTime \in Nat

ASSUME ConfigAssumption == ConfigOK

VARIABLES
  now,                      \* the monotonic clock time.Since reads
  stats,                    \* the snapshot last handed to Evaluate
  consecutiveCPUHighChecks,
  lastAlertTime,            \* key -> time of the last alert, Never if not in the map
  pending,                  \* breached conditions the running Evaluate has still to visit
  sending,                  \* condition whose mail is being sent, or NoCondition
  accepted,                 \* the server has taken that mail, its reply is outstanding
  began,                    \* history: when Evaluate last began, Never before the first
  unsent,                   \* history: conditions whose send failed in this Evaluate
  delivered,                \* history: key -> when a mail of it last reached the server,
                            \* Never if its reply was lost
  recent                    \* history: recent[i] iff the i-th latest check saw the CPU high

vars == <<now, stats, consecutiveCPUHighChecks, lastAlertTime, pending,
          sending, accepted, began, unsent, delivered, recent>>

Never == -1
Time  == Nat \cup {Never}

-----------------------------------------------------------------------------
(* Conditions and the keys their alerts are recorded under.                *)

Cpu         == <<"cpu", "">>
Ram         == <<"ram", "">>
RootDisk    == <<"root", Root>>
Cumulative  == <<"cumulative", "">>
NoCondition == <<"none", "">>

Conditions ==
  {Cpu, Ram, RootDisk, Cumulative}
    \cup ({"data"} \X DataMounts) \cup ({"smart"} \X SmartDevices)

\* The order of the blocks of Evaluate.
Stage == [cpu |-> 1, ram |-> 2, root |-> 3, data |-> 4, smart |-> 5, cumulative |-> 6]

\* Root disk and data partitions share the prefix "disk:".
KeyOf(c) == IF c[1] \in {"root", "data"} THEN <<"disk", c[2]>> ELSE c

Keys == {KeyOf(c) : c \in Conditions}

MutAnomalyNoDisk(s) == (TempEnabled /\ s.temp) \/ s.cpu \/ s.ram

\* The triggers evaluateCumulative collects; S.M.A.R.T. is not one of them.
Anomaly(s) ==
  (TempEnabled /\ s.temp) \/ s.cpu \/ s.ram \/ s.root \/ s.full # {}

\* The conditions the snapshot breaches.
Breached ==
  {c \in Conditions :
     \/ c = Cpu /\ consecutiveCPUHighChecks >= CPUConsecutiveChecks
     \/ c = Ram /\ stats.ram
     \/ c = RootDisk /\ stats.root
     \/ c \in {"data"} \X stats.full
     \/ c \in {"smart"} \X stats.failed
     \/ c = Cumulative /\ Anomaly(stats)}

MutShouldAlertEarly(k) ==
  lastAlertTime[k] = Never \/ now - lastAlertTime[k] >= AlertCooldown - 1

\* No alert recorded for k, or its cooldown has elapsed.
ShouldAlert(k) ==
  lastAlertTime[k] = Never \/ now - lastAlertTime[k] >= AlertCooldown

\* Condition c is one Evaluate may visit next.
Visits(c) ==
  /\ sending = NoCondition
  /\ c \in pending
  /\ \A d \in pending : Stage[c[1]] <= Stage[d[1]]

Idle == pending = {} /\ sending = NoCondition

-----------------------------------------------------------------------------
\* A process that has just started has no snapshot and no alert on record.
NoStats == [cpu |-> FALSE, ram |-> FALSE, root |-> FALSE, temp |-> FALSE,
            full |-> {}, failed |-> {}]
NoAlerts == [k \in Keys |-> Never]
NoChecks == [i \in 1..CPUConsecutiveChecks |-> FALSE]

\* NewAlertManager.
New ==
  /\ stats = NoStats
  /\ consecutiveCPUHighChecks = 0
  /\ lastAlertTime = NoAlerts
  /\ pending = {}
  /\ sending = NoCondition
  /\ accepted = FALSE
  /\ began = Never
  /\ unsent = {}
  /\ delivered = NoAlerts
  /\ recent = NoChecks

Init == now = 0 /\ New

MutCountCPUDecays(s) ==
  IF ~s.cpu THEN consecutiveCPUHighChecks - 1
  ELSE IF consecutiveCPUHighChecks < CPUConsecutiveChecks
       THEN consecutiveCPUHighChecks + 1
       ELSE consecutiveCPUHighChecks

MutCountCPUNoReset(s) ==
  IF s.cpu /\ consecutiveCPUHighChecks < CPUConsecutiveChecks
  THEN consecutiveCPUHighChecks + 1
  ELSE consecutiveCPUHighChecks

\* The run of high-CPU checks after snapshot s.
CountCPU(s) ==
  IF ~s.cpu THEN 0
  ELSE IF consecutiveCPUHighChecks < CPUConsecutiveChecks
       THEN consecutiveCPUHighChecks + 1
       ELSE consecutiveCPUHighChecks

\* Evaluate is called with snapshot s.
Evaluate(s) ==
  /\ Idle
  /\ stats' = s
  /\ consecutiveCPUHighChecks' = CountCPU(s)
  /\ pending' = Breached'
  /\ began' = now
  /\ unsent' = {}
  /\ recent' = [i \in 1..CPUConsecutiveChecks |->
                 IF i = 1 THEN s.cpu ELSE recent[i - 1]]
  /\ UNCHANGED <<now, lastAlertTime, sending, accepted, delivered>>

\* The condition visited is in its cooldown.
Skip(c) ==
  /\ Visits(c)
  /\ ~ShouldAlert(KeyOf(c))
  /\ pending' = pending \ {c}
  /\ UNCHANGED <<now, stats, consecutiveCPUHighChecks, lastAlertTime, sending,
                 accepted, began, unsent, delivered, recent>>

MutStartSendReturns(c) ==
  /\ Visits(c)
  /\ ShouldAlert(KeyOf(c))
  /\ pending' = {}
  /\ sending' = c
  /\ UNCHANGED <<now, stats, consecutiveCPUHighChecks, lastAlertTime, accepted,
                 began, unsent, delivered, recent>>

\* The condition visited is mailed: sendAlert dials the server.
StartSend(c) ==
  /\ Visits(c)
  /\ ShouldAlert(KeyOf(c))
  /\ pending' = pending \ {c}
  /\ sending' = c
  /\ UNCHANGED <<now, stats, consecutiveCPUHighChecks, lastAlertTime, accepted,
                 began, unsent, delivered, recent>>

\* The server takes the mail.
MailAccepted ==
  /\ sending # NoCondition
  /\ ~accepted
  /\ accepted' = TRUE
  /\ delivered' = [delivered EXCEPT ![KeyOf(sending)] = now]
  /\ UNCHANGED <<now, stats, consecutiveCPUHighChecks, lastAlertTime, pending,
                 sending, began, unsent, recent>>

MutSendSucceedsUnrecorded ==
  /\ accepted
  /\ sending' = NoCondition
  /\ accepted' = FALSE
  /\ UNCHANGED <<now, stats, consecutiveCPUHighChecks, lastAlertTime, pending,
                 began, unsent, delivered, recent>>

\* The send returns without an error; sendAlert records the time.
SendSucceeds ==
  /\ accepted
  /\ lastAlertTime' = [lastAlertTime EXCEPT ![KeyOf(sending)] = now]
  /\ sending' = NoCondition
  /\ accepted' = FALSE
  /\ UNCHANGED <<now, stats, consecutiveCPUHighChecks, pending, began, unsent,
                 delivered, recent>>

\* The send returns an error; sendAlert returns and records nothing.  With
\* "refused" the server never took the mail, with "lost" its reply to the mail
\* it took does not arrive.
SendFails ==
  /\ sending # NoCondition
  /\ IF accepted THEN "lost" \in MailFaults ELSE "refused" \in MailFaults
  /\ unsent' = unsent \cup {sending}
  /\ sending' = NoCondition
  /\ accepted' = FALSE
  /\ delivered' = IF accepted THEN [delivered EXCEPT ![KeyOf(sending)] = Never]
                  ELSE delivered
  /\ UNCHANGED <<now, stats, consecutiveCPUHighChecks, lastAlertTime, pending,
                 began, recent>>

\* Time passes, also in the middle of a check or a mail.
Tick ==
  /\ now < MaxTime
  /\ now' = now + 1
  /\ UNCHANGED <<stats, consecutiveCPUHighChecks, lastAlertTime, pending, sending,
                 accepted, began, unsent, delivered, recent>>

Next ==
  \/ \E s \in Samples : Evaluate(s)
  \/ \E c \in Conditions : Skip(c) \/ StartSend(c)
  \/ MailAccepted
  \/ SendSucceeds
  \/ SendFails
  \/ Tick

Spec == Init /\ [][Next]_vars

\* The checks go on, Evaluate runs to its end, and the mail server is not down
\* for ever: a condition that is mailed again and again is at last accepted and
\* acknowledged.
Fairness ==
  /\ WF_vars(\E s \in Samples : Evaluate(s))
  /\ WF_vars(\E c \in Conditions : Skip(c) \/ StartSend(c))
  /\ \A c \in Conditions :
       /\ SF_vars(sending = c /\ MailAccepted)
       /\ SF_vars(sending = c /\ SendSucceeds)

FairSpec == Spec /\ Fairness

-----------------------------------------------------------------------------
TypeOK ==
  /\ now \in Nat
  /\ stats \in Stats
  /\ consecutiveCPUHighChecks \in 0..CPUConsecutiveChecks
  /\ lastAlertTime \in [Keys -> Time]
  /\ pending \subseteq Conditions
  /\ sending \in Conditions \cup {NoCondition}
  /\ accepted \in BOOLEAN
  /\ began \in Time
  /\ unsent \subseteq Conditions
  /\ delivered \in [Keys -> Time]
  /\ recent \in [1..CPUConsecutiveChecks -> BOOLEAN]

\* An alert under key k was recorded by the latest check, or was in its
\* cooldown when that check began.
Fresh(k) ==
  /\ lastAlertTime[k] # Never
  /\ \/ lastAlertTime[k] >= began
     \/ began - lastAlertTime[k] < AlertCooldown

\* No breach goes unnoticed: every condition the latest snapshot breaches is
\* still to be visited, being mailed, failed to be sent (and so is retried by
\* the next check), or has an alert within its cooldown; neither a failed mail
\* of another condition nor a mount both blocks look at loses it
\* (alertmanager.go, Evaluate, shouldAlert, sendAlert).
EveryBreachCovered ==
  began # Never =>
    \A c \in Breached : c \in pending \/ c = sending \/ c \in unsent \/ Fresh(KeyOf(c))

\* Whenever a check ends with the RAM, root disk or a data partition over its
\* threshold, the combined anomaly mail went out too, is in its own cooldown,
\* or failed (alertmanager.go, evaluateCumulative: "if ANY critical metric").
EveryBreachSummarised ==
  /\ Idle
  /\ began # Never
  /\ \E c \in Breached : c[1] \in {"ram", "root", "data"}
  => Cumulative \in unsent \/ Fresh(Cumulative)

\* The CPU alert is mailed only when each of the latest CPUConsecutiveChecks
\* checks saw the CPU high (alertmanager.go:45-50).
CpuAlertMeansRun ==
  sending = Cpu => \A i \in 1..CPUConsecutiveChecks : recent[i]

\* A mail the server takes is the first of its key, one cooldown apart from the
\* one before, or the repetition of one whose reply was lost.
SpacedMail ==
  ~accepted /\ accepted' =>
    LET last == delivered[KeyOf(sending)]
    IN  last = Never \/ now - last >= AlertCooldown

\* The mail server receives two mails under one key no closer together than
\* one cooldown, unless it is its own reply to the first that was lost
\* (alertmanager.go:14-15, 148-149).
OneMailPerCooldown == [][SpacedMail]_vars

\* A condition breached from some time on is alerted in every cooldown: it
\* never stays out of its cooldown, whatever mails fail on the way.
PersistentBreachAlerted ==
  \A c \in Conditions :
    <>[](c \in Breached) => []<>(~ShouldAlert(KeyOf(c)))

\* What alerting promises, whatever the order of the conditions and the mail
\* server's behaviour; a notification is an alert recorded as sent.
Policy == INSTANCE AlertPolicy WITH
  lastSent <- lastAlertTime,
  streak   <- consecutiveCPUHighChecks,
  CpuKey   <- KeyOf(Cpu)

ImplementsPolicy == Policy!Spec
=============================================================================
