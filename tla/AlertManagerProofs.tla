------------------------ MODULE AlertManagerProofs ------------------------
(***************************************************************************)
(* What holds of AlertManager for every configuration: any partitions and  *)
(* devices, any thresholds reached, any cooldown and number of checks.     *)
(***************************************************************************)
EXTENDS AlertManager, TLAPS

-----------------------------------------------------------------------------
(* Conditions and keys                                                     *)

\* "No mail in progress" is not one of the conditions Evaluate visits.
LEMMA NoConditionIsNone == NoCondition \notin Conditions
  BY DEF NoCondition, Conditions, Cpu, Ram, RootDisk, Cumulative

\* Every condition has its cooldown entry.
LEMMA KeyOfCondition ==
  ASSUME NEW c \in Conditions
  PROVE  KeyOf(c) \in Keys
  BY DEF Keys

\* The conditions of a snapshot are conditions.
LEMMA BreachedAreConditions == Breached \subseteq Conditions
  BY DEF Breached

\* No other condition is alerted under the key of the CPU.
LEMMA OnlyCpuHasCpuKey ==
  ASSUME NEW c \in Conditions, KeyOf(c) = KeyOf(Cpu)
  PROVE  c = Cpu
  BY DEF KeyOf, Conditions, Cpu, Ram, RootDisk, Cumulative

-----------------------------------------------------------------------------
(* The types                                                               *)

\* The run counter stays between 0 and the checks required.
LEMMA CountCPUBounded ==
  ASSUME NEW s, consecutiveCPUHighChecks \in 0..CPUConsecutiveChecks
  PROVE  CountCPU(s) \in 0..CPUConsecutiveChecks
  BY ConfigAssumption DEF ConfigOK, CountCPU

LEMMA NewTypeOK == now \in Nat /\ New => TypeOK
<1> SUFFICES ASSUME now \in Nat, New PROVE TypeOK
  OBVIOUS
<1> USE DEF New, NoStats, NoAlerts, NoChecks
<1>1. stats \in Stats
  BY DEF Stats
<1>2. lastAlertTime \in [Keys -> Time] /\ delivered \in [Keys -> Time]
  BY DEF Time, Never
<1>3. recent \in [1..CPUConsecutiveChecks -> BOOLEAN]
  OBVIOUS
<1>4. consecutiveCPUHighChecks \in 0..CPUConsecutiveChecks
  BY ConfigAssumption DEF ConfigOK
<1> QED
  BY <1>1, <1>2, <1>3, <1>4 DEF TypeOK, Time, Never

LEMMA InitTypeOK == Init => TypeOK
  BY NewTypeOK DEF Init

LEMMA NextTypeOK == TypeOK /\ [Next]_vars => TypeOK'
<1> SUFFICES ASSUME TypeOK, [Next]_vars PROVE TypeOK'
  OBVIOUS
<1> USE DEF TypeOK, Time, Never
<1>1. ASSUME NEW s \in Samples, Evaluate(s) PROVE TypeOK'
  <2>1. s \in Stats
    BY ConfigAssumption DEF ConfigOK
  <2>2. consecutiveCPUHighChecks' \in 0..CPUConsecutiveChecks
    BY <1>1, CountCPUBounded DEF Evaluate
  <2>3. pending' \subseteq Conditions
    BY <1>1 DEF Evaluate, Breached
  <2>4. recent' \in [1..CPUConsecutiveChecks -> BOOLEAN]
    <3>1. s.cpu \in BOOLEAN
      BY <2>1 DEF Stats
    <3>2. \A i \in 1..CPUConsecutiveChecks :
            (IF i = 1 THEN s.cpu ELSE recent[i - 1]) \in BOOLEAN
      BY <3>1, ConfigAssumption DEF ConfigOK
    <3> QED
      BY <1>1, <3>2 DEF Evaluate
  <2> QED
    BY <1>1, <2>1, <2>2, <2>3, <2>4 DEF Evaluate
<1>2. ASSUME NEW c \in Conditions, Skip(c) PROVE TypeOK'
  BY <1>2 DEF Skip
<1>3. ASSUME NEW c \in Conditions, StartSend(c) PROVE TypeOK'
  BY <1>3 DEF StartSend
<1>4. CASE MailAccepted
  BY <1>4, KeyOfCondition DEF MailAccepted
<1>5. CASE SendSucceeds
  BY <1>5, KeyOfCondition DEF SendSucceeds
<1>6. CASE SendFails
  BY <1>6, KeyOfCondition DEF SendFails
<1>7. CASE Tick
  BY <1>7 DEF Tick
<1>8. CASE UNCHANGED vars
  BY <1>8 DEF vars
<1> QED
  BY <1>1, <1>2, <1>3, <1>4, <1>5, <1>6, <1>7, <1>8 DEF Next

\* Every variable keeps to the values the code can give it.
THEOREM TypeCorrect == Spec => []TypeOK
  BY InitTypeOK, NextTypeOK, PTL DEF Spec

-----------------------------------------------------------------------------
(* The inductive invariant                                                 *)

\* No recorded time lies in the future.
ClockBounds ==
  /\ began <= now
  /\ \A k \in Keys : lastAlertTime[k] <= now /\ delivered[k] <= now

\* A mail in progress is about a condition the snapshot breaches and whose
\* cooldown was over when the mail was begun, and so still is.
InFlight ==
  /\ accepted => sending # NoCondition
  /\ sending # NoCondition =>
       sending \in Breached /\ ShouldAlert(KeyOf(sending))

\* What Evaluate has still to visit is breached.
PendingBreached == pending \subseteq Breached

\* The counter counts the latest checks, all of which saw the CPU high.
CounterCountsRun ==
  \A i \in 1..CPUConsecutiveChecks : i <= consecutiveCPUHighChecks => recent[i]

\* An alert is recorded no earlier than its mail was taken, save for a mail
\* whose reply is outstanding or lost.
Ledger ==
  \A k \in Keys : \/ delivered[k] <= lastAlertTime[k]
                  \/ accepted /\ KeyOf(sending) = k

IInv ==
  /\ TypeOK
  /\ ClockBounds
  /\ InFlight
  /\ PendingBreached
  /\ CounterCountsRun
  /\ Ledger
  /\ EveryBreachCovered

\* It holds of a new alert manager, whenever that is made.
LEMMA NewIInv == now \in Nat /\ New => IInv
<1> SUFFICES ASSUME now \in Nat, New PROVE IInv
  OBVIOUS
<1> USE DEF New, NoStats, NoAlerts, NoChecks
<1>1. TypeOK
  BY NewTypeOK
<1>2. ClockBounds
  BY DEF ClockBounds, Never
<1>3. InFlight /\ PendingBreached
  BY DEF InFlight, PendingBreached
<1>4. CounterCountsRun
  BY ConfigAssumption DEF ConfigOK, CounterCountsRun
<1>5. Ledger
  BY DEF Ledger, Never
<1>6. EveryBreachCovered
  BY DEF EveryBreachCovered
<1> QED
  BY <1>1, <1>2, <1>3, <1>4, <1>5, <1>6 DEF IInv

LEMMA InitIInv == Init => IInv
  BY NewIInv DEF Init

\* While the snapshot and the counter stay as they are, so do the breaches.
LEMMA BreachedStable ==
  ASSUME UNCHANGED <<stats, consecutiveCPUHighChecks>>
  PROVE  Breached' = Breached
  BY DEF Breached

\* The alerts recorded and the beginning of the check decide what is fresh.
LEMMA FreshStable ==
  ASSUME UNCHANGED <<lastAlertTime, began>>, NEW k
  PROVE  Fresh(k)' <=> Fresh(k)
  BY DEF Fresh

\* A condition is fresh that Evaluate passes over because of its cooldown.
LEMMA CooldownIsFresh ==
  ASSUME TypeOK, ClockBounds, NEW k \in Keys, ~ShouldAlert(k)
  PROVE  Fresh(k)
<1>1. lastAlertTime[k] \in Time /\ lastAlertTime[k] # Never
  BY DEF TypeOK, ShouldAlert
<1>2. now \in Nat /\ began \in Time /\ began <= now /\ AlertCooldown \in Int
  BY ConfigAssumption DEF ConfigOK, TypeOK, ClockBounds
<1>3. now - lastAlertTime[k] < AlertCooldown
  BY <1>1, <1>2 DEF ShouldAlert, Time, Never
<1> QED
  BY <1>1, <1>2, <1>3 DEF Fresh, Time, Never

LEMMA NextIInv == IInv /\ [Next]_vars => IInv'
<1> SUFFICES ASSUME IInv, [Next]_vars PROVE IInv'
  OBVIOUS
<1> USE DEF IInv
<1>0. TypeOK'
  BY NextTypeOK
<1>t. /\ now \in Nat /\ began \in Time
      /\ \A k \in Keys : lastAlertTime[k] \in Time /\ delivered[k] \in Time
  BY DEF TypeOK
<1>1. ASSUME NEW s \in Samples, Evaluate(s) PROVE IInv'
  <2> USE <1>1 DEF Evaluate
  <2>1. ClockBounds'
    BY <1>t DEF ClockBounds
  <2>2. InFlight'
    BY DEF InFlight, Idle
  <2>3. PendingBreached'
    BY DEF PendingBreached
  <2>4. CounterCountsRun'
    <3> SUFFICES ASSUME NEW i \in 1..CPUConsecutiveChecks,
                        i <= consecutiveCPUHighChecks'
                 PROVE  recent'[i]
      BY DEF CounterCountsRun
    <3>1. consecutiveCPUHighChecks' = CountCPU(s)
      OBVIOUS
    <3>2. consecutiveCPUHighChecks \in 0..CPUConsecutiveChecks
      BY DEF TypeOK
    <3>3. s.cpu
      BY <3>1 DEF CountCPU
    <3>4. recent'[i] = IF i = 1 THEN s.cpu ELSE recent[i - 1]
      OBVIOUS
    <3>5. CASE i = 1
      BY <3>3, <3>4, <3>5
    <3>6. CASE i # 1
      <4>1. i - 1 \in 1..CPUConsecutiveChecks /\ i - 1 <= consecutiveCPUHighChecks
        BY <3>1, <3>2, <3>3, <3>6, ConfigAssumption DEF ConfigOK, CountCPU
      <4> QED
        BY <4>1, <3>4, <3>6 DEF CounterCountsRun
    <3> QED
      BY <3>5, <3>6
  <2>5. Ledger'
    BY DEF Ledger, Idle, InFlight
  <2>6. EveryBreachCovered'
    BY DEF EveryBreachCovered
  <2> QED
    BY <1>0, <2>1, <2>2, <2>3, <2>4, <2>5, <2>6
<1>2. ASSUME NEW c \in Conditions, Skip(c) PROVE IInv'
  <2> USE <1>2 DEF Skip
  <2>0. Breached' = Breached
    BY BreachedStable
  <2>1. ClockBounds'
    BY DEF ClockBounds
  <2>2. InFlight'
    BY <2>0 DEF InFlight, Visits
  <2>3. PendingBreached'
    BY <2>0 DEF PendingBreached
  <2>4. CounterCountsRun'
    BY DEF CounterCountsRun
  <2>5. Ledger'
    BY DEF Ledger
  <2>6. EveryBreachCovered'
    <3>1. Fresh(KeyOf(c))
      BY CooldownIsFresh, KeyOfCondition
    <3> QED
      BY <2>0, <3>1, FreshStable DEF EveryBreachCovered, Fresh
  <2> QED
    BY <1>0, <2>1, <2>2, <2>3, <2>4, <2>5, <2>6
<1>3. ASSUME NEW c \in Conditions, StartSend(c) PROVE IInv'
  <2> USE <1>3 DEF StartSend
  <2>0. Breached' = Breached
    BY BreachedStable
  <2>1. ClockBounds'
    BY DEF ClockBounds
  <2>2. InFlight'
    <3>1. sending' # NoCondition
      BY NoConditionIsNone
    <3>2. sending' \in Breached'
      BY <2>0 DEF PendingBreached, Visits
    <3>3. ShouldAlert(KeyOf(sending))'
      BY DEF ShouldAlert
    <3> QED
      BY <3>1, <3>2, <3>3 DEF InFlight
  <2>3. PendingBreached'
    BY <2>0 DEF PendingBreached
  <2>4. CounterCountsRun'
    BY DEF CounterCountsRun
  <2>5. Ledger'
    BY DEF Ledger, InFlight, Visits
  <2>6. EveryBreachCovered'
    BY <2>0, NoConditionIsNone, BreachedAreConditions
       DEF EveryBreachCovered, Fresh, Visits
  <2> QED
    BY <1>0, <2>1, <2>2, <2>3, <2>4, <2>5, <2>6
<1>4. CASE MailAccepted
  <2> USE <1>4 DEF MailAccepted
  <2>0. Breached' = Breached
    BY BreachedStable
  <2>1. ClockBounds'
    BY <1>t, <1>0 DEF ClockBounds, TypeOK
  <2>2. InFlight'
    BY <2>0 DEF InFlight, ShouldAlert
  <2>3. PendingBreached'
    BY <2>0 DEF PendingBreached
  <2>4. CounterCountsRun'
    BY DEF CounterCountsRun
  <2>5. Ledger'
    BY DEF Ledger, TypeOK
  <2>6. EveryBreachCovered'
    BY <2>0 DEF EveryBreachCovered, Fresh
  <2> QED
    BY <1>0, <2>1, <2>2, <2>3, <2>4, <2>5, <2>6
<1>5. CASE SendSucceeds
  <2> USE <1>5 DEF SendSucceeds
  <2>0. Breached' = Breached
    BY BreachedStable
  <2>a. sending \in Conditions /\ KeyOf(sending) \in Keys
    BY KeyOfCondition DEF InFlight, TypeOK
  <2>1. ClockBounds'
    BY <1>t, <2>a DEF ClockBounds, TypeOK
  <2>2. InFlight'
    BY DEF InFlight
  <2>3. PendingBreached'
    BY <2>0 DEF PendingBreached
  <2>4. CounterCountsRun'
    BY DEF CounterCountsRun
  <2>5. Ledger'
    BY <1>t, <2>a DEF Ledger, ClockBounds, TypeOK
  <2>6. EveryBreachCovered'
    <3> SUFFICES ASSUME began # Never, NEW c \in Breached
                 PROVE  c \in pending \/ c \in unsent \/ Fresh(KeyOf(c))'
      BY <2>0 DEF EveryBreachCovered
    <3>1. CASE KeyOf(c) = KeyOf(sending)
      <4>1. lastAlertTime'[KeyOf(c)] = now
        BY <3>1, <2>a DEF TypeOK
      <4> QED
        BY <4>1, <1>t DEF Fresh, Never, ClockBounds
    <3>2. CASE KeyOf(c) # KeyOf(sending)
      <4>1. lastAlertTime'[KeyOf(c)] = lastAlertTime[KeyOf(c)]
        BY <3>2, BreachedAreConditions, KeyOfCondition DEF TypeOK
      <4> QED
        BY <4>1, <3>2 DEF EveryBreachCovered, Fresh
    <3> QED
      BY <3>1, <3>2
  <2> QED
    BY <1>0, <2>1, <2>2, <2>3, <2>4, <2>5, <2>6
<1>6. CASE SendFails
  <2> USE <1>6 DEF SendFails
  <2>0. Breached' = Breached
    BY BreachedStable
  <2>1. ClockBounds'
    BY <1>t DEF ClockBounds, TypeOK, Never
  <2>2. InFlight'
    BY DEF InFlight
  <2>3. PendingBreached'
    BY <2>0 DEF PendingBreached
  <2>4. CounterCountsRun'
    BY DEF CounterCountsRun
  <2>5. Ledger'
    BY <1>t DEF Ledger, TypeOK, Time, Never
  <2>6. EveryBreachCovered'
    BY <2>0 DEF EveryBreachCovered, Fresh
  <2> QED
    BY <1>0, <2>1, <2>2, <2>3, <2>4, <2>5, <2>6
<1>7. CASE Tick
  <2> USE <1>7 DEF Tick
  <2>0. Breached' = Breached
    BY BreachedStable
  <2>1. ClockBounds'
    BY <1>t DEF ClockBounds, Time, Never
  <2>2. InFlight'
    <3> SUFFICES ASSUME sending # NoCondition
                 PROVE  ShouldAlert(KeyOf(sending))'
      BY <2>0 DEF InFlight
    <3>1. KeyOf(sending) \in Keys
      BY KeyOfCondition DEF TypeOK
    <3> QED
      BY <3>1, <1>t, ConfigAssumption DEF ConfigOK, InFlight, ShouldAlert, Time, Never
  <2>3. PendingBreached'
    BY <2>0 DEF PendingBreached
  <2>4. CounterCountsRun'
    BY DEF CounterCountsRun
  <2>5. Ledger'
    BY DEF Ledger
  <2>6. EveryBreachCovered'
    BY <2>0 DEF EveryBreachCovered, Fresh
  <2> QED
    BY <1>0, <2>1, <2>2, <2>3, <2>4, <2>5, <2>6
<1>8. CASE UNCHANGED vars
  <2>0. Breached' = Breached
    BY <1>8, BreachedStable DEF vars
  <2> QED
    BY <1>0, <1>8, <2>0
       DEF vars, ClockBounds, InFlight, ShouldAlert, PendingBreached,
           CounterCountsRun, Ledger, EveryBreachCovered, Fresh
<1> QED
  BY <1>1, <1>2, <1>3, <1>4, <1>5, <1>6, <1>7, <1>8 DEF Next

\* The inductive invariant holds throughout.
THEOREM Invariance == Spec => []IInv
  BY InitIInv, NextIInv, PTL DEF Spec

-----------------------------------------------------------------------------
(* What follows for the operator of the host                               *)

\* No breach goes unnoticed, whatever mails fail and however partitions,
\* devices and the root mount point coincide (Evaluate, shouldAlert, sendAlert).
THEOREM BreachesCovered == Spec => []EveryBreachCovered
<1>1. IInv => EveryBreachCovered
  BY DEF IInv
<1> QED
  BY <1>1, Invariance, PTL

\* A breach of RAM or disk is an anomaly, which has its own condition.
LEMMA BreachIsAnomaly ==
  ASSUME NEW c \in Breached, c[1] \in {"ram", "root", "data"}
  PROVE  Cumulative \in Breached
<1>0. Cpu[1] = "cpu" /\ Cumulative[1] = "cumulative"
  BY DEF Cpu, Cumulative
<1>1. c # Cpu /\ c # Cumulative
  BY <1>0
<1>2. c \notin {"smart"} \X stats.failed
  OBVIOUS
<1>3. stats.ram \/ stats.root \/ stats.full # {}
  BY <1>1, <1>2 DEF Breached
<1> QED
  BY <1>3 DEF Breached, Anomaly, Conditions

\* A breach of RAM or disk is also covered by the combined anomaly mail when
\* the check is over (evaluateCumulative).
THEOREM BreachesSummarised == Spec => []EveryBreachSummarised
<1>1. IInv => EveryBreachSummarised
  <2> SUFFICES ASSUME IInv, Idle, began # Never, NEW c \in Breached,
                      c[1] \in {"ram", "root", "data"}
               PROVE  Cumulative \in unsent \/ Fresh(Cumulative)
    BY DEF EveryBreachSummarised
  <2>1. Cumulative \in Breached /\ Cumulative # NoCondition
    BY BreachIsAnomaly DEF Cumulative, NoCondition
  <2>2. KeyOf(Cumulative) = Cumulative
    BY DEF KeyOf, Cumulative
  <2> QED
    BY <2>1, <2>2 DEF IInv, EveryBreachCovered, Idle
<1> QED
  BY <1>1, Invariance, PTL

\* The CPU condition is breached only after the required run of high checks.
LEMMA CpuBreachMeansRun ==
  ASSUME IInv, Cpu \in Breached
  PROVE  \A i \in 1..CPUConsecutiveChecks : recent[i]
<1>1. consecutiveCPUHighChecks >= CPUConsecutiveChecks
  BY DEF Breached, Cpu, Ram, RootDisk, Cumulative
<1>2. consecutiveCPUHighChecks \in 0..CPUConsecutiveChecks
  BY DEF IInv, TypeOK
<1> QED
  BY <1>1, <1>2, ConfigAssumption DEF ConfigOK, IInv, CounterCountsRun

\* The CPU alert is never mailed on a run that is too short, or one that a
\* check with a low CPU interrupted (alertmanager.go:45-50).
THEOREM CpuAlertDebounced == Spec => []CpuAlertMeansRun
<1>1. Cpu # NoCondition
  BY DEF Cpu, NoCondition
<1>2. ASSUME IInv, sending = Cpu PROVE Cpu \in Breached
  BY <1>1, <1>2 DEF IInv, InFlight
<1>3. IInv => CpuAlertMeansRun
  BY <1>2, CpuBreachMeansRun DEF CpuAlertMeansRun
<1> QED
  BY <1>3, Invariance, PTL

\* A mail the server takes keeps its distance from the one before.
LEMMA IInvSpacesMail ==
  ASSUME IInv, [Next]_vars
  PROVE  SpacedMail
<1> DEFINE last == delivered[KeyOf(sending)]
<1> SUFFICES ASSUME ~accepted, accepted'
             PROVE  last = Never \/ now - last >= AlertCooldown
  BY DEF SpacedMail
<1>1. MailAccepted
  BY DEF Next, vars, Evaluate, Skip, StartSend, SendSucceeds, SendFails, Tick
<1>2. KeyOf(sending) \in Keys /\ ShouldAlert(KeyOf(sending))
  BY <1>1, KeyOfCondition DEF MailAccepted, IInv, InFlight, TypeOK
<1>3. last <= lastAlertTime[KeyOf(sending)]
  BY <1>2 DEF IInv, Ledger
<1>4. last \in Time /\ lastAlertTime[KeyOf(sending)] \in Time /\ now \in Nat
  BY <1>2 DEF IInv, TypeOK
<1> QED
  BY <1>2, <1>3, <1>4, ConfigAssumption DEF ConfigOK, ShouldAlert, Time, Never

\* The server receives no two mails under one key within a cooldown, unless it
\* is its own reply to the first that was lost.
THEOREM NoMailWithinCooldown == Spec => OneMailPerCooldown
<1>1. IInv /\ [Next]_vars => [SpacedMail]_vars
  BY IInvSpacesMail
<1> QED
  BY <1>1, Invariance, PTL DEF Spec, OneMailPerCooldown

-----------------------------------------------------------------------------
(* AlertManager implements AlertPolicy                                     *)

\* The start of the program is a start of the policy.
LEMMA InitRefines == Init => Policy!Init
  BY DEF Init, New, NoStats, NoAlerts, NoChecks, Policy!Init, Never, Policy!Never

\* A check counts for the policy what it counts for the alert manager.
LEMMA EvaluateRefines ==
  ASSUME TypeOK, NEW s \in Samples, Evaluate(s)
  PROVE  Policy!Check(s.cpu)
<1>1. consecutiveCPUHighChecks \in 0..CPUConsecutiveChecks
  BY DEF TypeOK
<1>2. consecutiveCPUHighChecks' = CountCPU(s)
  BY DEF Evaluate
<1>3. UNCHANGED <<now, lastAlertTime>>
  BY DEF Evaluate
<1>4. CASE ~s.cpu
  BY <1>2, <1>3, <1>4 DEF CountCPU, Policy!Check
<1>5. CASE s.cpu
  BY <1>1, <1>2, <1>3, <1>5, ConfigAssumption DEF ConfigOK, CountCPU, Policy!Check
<1> QED
  BY <1>4, <1>5

\* An alert recorded as sent is a notification the policy allows.
LEMMA SendSucceedsRefines ==
  ASSUME IInv, SendSucceeds
  PROVE  Policy!Notify(KeyOf(sending)) /\ KeyOf(sending) \in Keys
<1>1. sending \in Conditions /\ sending \in Breached /\ ShouldAlert(KeyOf(sending))
  BY DEF SendSucceeds, IInv, InFlight, TypeOK
<1>2. ASSUME KeyOf(sending) = KeyOf(Cpu)
      PROVE  consecutiveCPUHighChecks >= CPUConsecutiveChecks
  <2>1. Cpu \in Breached
    BY <1>1, <1>2, OnlyCpuHasCpuKey
  <2> QED
    BY <2>1 DEF Breached, Cpu, Ram, RootDisk, Cumulative
<1> QED
  BY <1>1, <1>2, KeyOfCondition
     DEF SendSucceeds, ShouldAlert, Policy!Notify, Never, Policy!Never

\* Every step of the alert manager is one of the policy, or invisible to it.
LEMMA NextRefines ==
  ASSUME IInv, [Next]_vars
  PROVE  [Policy!Next]_(Policy!policyVars)
<1> USE DEF Policy!policyVars
<1>1. ASSUME NEW s \in Samples, Evaluate(s) PROVE Policy!Next
  <2>1. s.cpu \in BOOLEAN
    BY ConfigAssumption DEF ConfigOK, Stats
  <2> QED
    BY <1>1, <2>1, EvaluateRefines DEF IInv, Policy!Next
<1>2. ASSUME NEW c \in Conditions, Skip(c) \/ StartSend(c)
      PROVE  UNCHANGED Policy!policyVars
  BY <1>2 DEF Skip, StartSend
<1>3. CASE MailAccepted \/ SendFails
  BY <1>3 DEF MailAccepted, SendFails
<1>4. CASE SendSucceeds
  BY <1>4, SendSucceedsRefines DEF Policy!Next
<1>5. CASE Tick
  BY <1>5 DEF Tick, Policy!Next, Policy!Pass
<1>6. CASE UNCHANGED vars
  BY <1>6 DEF vars
<1> QED
  BY <1>1, <1>2, <1>3, <1>4, <1>5, <1>6 DEF Next

\* Alerting keeps to its policy: whatever the mail server does, an alert is
\* recorded at most once per cooldown, and for the CPU only after the run.
THEOREM PolicyImplemented == Spec => ImplementsPolicy
  BY InitRefines, NextRefines, Invariance, PTL
     DEF Spec, Policy!Spec, ImplementsPolicy
=============================================================================
