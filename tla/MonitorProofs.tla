---------------------------- MODULE MonitorProofs ----------------------------
(***************************************************************************)
(* What holds of the main loop for every configuration.  Until the process *)
(* is started again it drives the alert manager as one caller would, and a *)
(* new process begins with a new alert manager: what is proved of the      *)
(* states of the alert manager holds of the program, restarts included.    *)
(***************************************************************************)
EXTENDS Monitor, TLAPS

Alerts == INSTANCE AlertManagerProofs

\* The loop starts with a new alert manager.
LEMMA InitDrives == Init => AM!Init
  BY DEF Init

\* Every step of the loop is a step of the alert manager, or none of its
\* business, save for the start of a new process.
LEMMA NextDrives ==
  ASSUME ~Start, [Next]_vars
  PROVE  [AM!Next]_(AM!vars)
<1> USE DEF AM!vars, alertVars
<1>1. ASSUME NEW s \in Samples, RunCheck(s) PROVE AM!Next
  BY <1>1 DEF RunCheck, AM!Next
<1>2. CASE Alert
  BY <1>2 DEF Alert, AM!Next
<1>3. CASE CheckDone \/ NoHeartbeat \/ StartHeartbeat \/ HeartbeatAccepted \/ HeartbeatReturns
  BY <1>3 DEF CheckDone, NoHeartbeat, StartHeartbeat, HeartbeatAccepted, HeartbeatReturns
<1>4. CASE Select
  BY <1>4 DEF Select, TakeCheckTick, TakeDiskTick, TakeSignal
<1>5. CASE Signal \/ Crash \/ Start \/ AdjustClock
  BY <1>5 DEF Signal, Crash, Start, AdjustClock
<1>6. CASE Tick
  BY <1>6 DEF Tick, AM!Next
<1>7. CASE UNCHANGED vars
  BY <1>7 DEF vars
<1> QED
  BY <1>1, <1>2, <1>3, <1>4, <1>5, <1>6, <1>7 DEF Next

\* The main goroutine uses the alert manager as its specification expects
\* (main.go:106-116).
THEOREM DrivesAlertManager ==
  ASSUME ~Restarts
  PROVE  Spec => AM!Spec
<1>1. [Next]_vars => [AM!Next]_(AM!vars)
  BY NextDrives DEF Start
<1> QED
  BY <1>1, InitDrives, PTL DEF Spec, AM!Spec

-----------------------------------------------------------------------------
(* The two instances of the alert manager, the one the loop drives and the *)
(* one the theorems are about, are the same.                               *)

LEMMA SameInit == AM!Init => Alerts!Init
  BY DEF AM!Init, Alerts!Init, AM!New, Alerts!New, AM!NoStats, Alerts!NoStats, AM!NoAlerts,
         Alerts!NoAlerts, AM!NoChecks, Alerts!NoChecks, AM!Keys,
         Alerts!Keys, AM!Conditions, Alerts!Conditions, AM!KeyOf,
         Alerts!KeyOf, AM!Cpu, Alerts!Cpu, AM!Ram, Alerts!Ram,
         AM!RootDisk, Alerts!RootDisk, AM!Cumulative, Alerts!Cumulative,
         AM!NoCondition, Alerts!NoCondition, AM!Never, Alerts!Never

LEMMA SameNext == [AM!Next]_(AM!vars) => [Alerts!Next]_(Alerts!vars)
  BY DEF AM!Next, Alerts!Next, AM!vars, Alerts!vars, AM!Evaluate,
         Alerts!Evaluate, AM!Skip, Alerts!Skip, AM!StartSend,
         Alerts!StartSend, AM!MailAccepted, Alerts!MailAccepted,
         AM!SendSucceeds, Alerts!SendSucceeds, AM!SendFails,
         Alerts!SendFails, AM!Tick, Alerts!Tick, AM!Visits, Alerts!Visits,
         AM!Idle, Alerts!Idle, AM!Stage, Alerts!Stage, AM!Breached,
         Alerts!Breached, AM!Anomaly, Alerts!Anomaly, AM!ShouldAlert,
         Alerts!ShouldAlert, AM!CountCPU, Alerts!CountCPU, AM!Keys,
         Alerts!Keys, AM!Conditions, Alerts!Conditions, AM!KeyOf,
         Alerts!KeyOf, AM!Cpu, Alerts!Cpu, AM!Ram, Alerts!Ram,
         AM!RootDisk, Alerts!RootDisk, AM!Cumulative, Alerts!Cumulative,
         AM!NoCondition, Alerts!NoCondition, AM!Never, Alerts!Never

\* The assumption of AlertManager holds of the instance.
LEMMA SameConfig == Alerts!ConfigOK
  BY AlertAssumption DEF AM!ConfigOK, Alerts!ConfigOK, AM!Stats, Alerts!Stats

\* A process that is started again has a new alert manager.
LEMMA StartIsNew == Start => Alerts!New' /\ now' = now
  BY DEF Start, Alerts!New, AM!NoStats, Alerts!NoStats, AM!NoAlerts,
         Alerts!NoAlerts, AM!NoChecks, Alerts!NoChecks, AM!Keys,
         Alerts!Keys, AM!Conditions, Alerts!Conditions, AM!KeyOf,
         Alerts!KeyOf, AM!Cpu, Alerts!Cpu, AM!Ram, Alerts!Ram,
         AM!RootDisk, Alerts!RootDisk, AM!Cumulative, Alerts!Cumulative,
         AM!NoCondition, Alerts!NoCondition, AM!Never, Alerts!Never

\* Crashes and restarts leave the invariant of the alert manager in force.
LEMMA NextAlertsInv ==  Alerts!IInv /\ [Next]_vars => Alerts!IInv'
<1>1. CASE Start
  <2>1. (now \in Nat /\ Alerts!New)' => Alerts!IInv'
    BY SameConfig, Alerts!NewIInv, PTL
  <2>2. Alerts!IInv => now \in Nat
    BY DEF Alerts!IInv, Alerts!TypeOK
  <2> QED
    BY <1>1, <2>1, <2>2, StartIsNew
<1>2. CASE ~Start
  <2>1. [Next]_vars => [AM!Next]_(AM!vars)
    BY <1>2, NextDrives
  <2>2. Alerts!IInv /\ [Alerts!Next]_(Alerts!vars) => Alerts!IInv'
    BY SameConfig, Alerts!NextIInv
  <2> QED
    BY <2>1, <2>2, SameNext
<1> QED
  BY <1>1, <1>2

\* What the proofs of AlertManager establish of its states holds of the whole
\* program, in which processes die and are started again at any time.
THEOREM AlertsInvariance == Spec => []Alerts!IInv
<1>1. Init => Alerts!IInv
  BY SameConfig, Alerts!InitIInv, InitDrives, SameInit
<1> QED
  BY <1>1, NextAlertsInv, PTL DEF Spec

\* From one life of the process, whatever the loop does besides and wherever it
\* is interrupted, the server receives no two alerts under one key within a
\* cooldown, unless its reply to the first was lost (alertmanager.go:14-15).
THEOREM NoMailWithinCooldown == Spec => OneMailPerCooldown
<1>1. Alerts!IInv /\ [Next]_vars => [AM!SpacedMail]_vars
  <2> SUFFICES ASSUME Alerts!IInv, Next PROVE AM!SpacedMail
    OBVIOUS
  <2>1. CASE Start
    BY <2>1 DEF Start, AM!SpacedMail
  <2>2. CASE ~Start
    <3>1. [Alerts!Next]_(Alerts!vars)
      BY <2>2, NextDrives, SameNext
    <3>2. Alerts!SpacedMail
      BY <3>1, SameConfig, Alerts!IInvSpacesMail
    <3> QED
      BY <3>2 DEF Alerts!SpacedMail, AM!SpacedMail, AM!KeyOf, Alerts!KeyOf,
                  AM!Never, Alerts!Never
  <2> QED
    BY <2>1, <2>2
<1> QED
  BY <1>1, AlertsInvariance, PTL DEF Spec, OneMailPerCooldown

-----------------------------------------------------------------------------
(* The wall clock                                                          *)

\* Of two times the later one is on no earlier a day (in no earlier an hour).
LEMMA DivMonotone ==
  ASSUME NEW a \in Nat, NEW b \in Nat, NEW n \in Nat \ {0}, a <= b
  PROVE  a \div n \in Nat /\ b \div n \in Nat /\ a \div n <= b \div n
  OBVIOUS

\* A later shift of the wall clock is more units of it.
LEMMA ShiftMonotone ==
  ASSUME NEW a \in Nat, NEW b \in Nat, NEW s \in Nat, NEW n \in Nat, a <= b
  PROVE  (s + a) * n \in Nat /\ (s + b) * n \in Nat /\ (s + a) * n <= (s + b) * n
  OBVIOUS

\* The day the wall clock shows is a number.
LEMMA YearDayInNat ==
  ASSUME now \in Nat, StartHour + shift \in Nat
  PROVE  YearDay \in Nat
<1>1. (StartHour + shift) * UnitsPerHour \in Nat
  BY ShiftMonotone, MonitorAssumption
<1>2. WallClock \in Nat
  BY <1>1 DEF WallClock
<1>3. WallClock \div UnitsPerHour \in Nat
  BY <1>2, DivMonotone, MonitorAssumption
<1> QED
  BY <1>3, DivMonotone, MonitorAssumption DEF YearDay

-----------------------------------------------------------------------------
(* The types                                                               *)

\* What the loop itself keeps, without the days, keeps to its values.
LoopTypeOK ==
  /\ pc \in {"collect", "evaluate", "heartbeat", "sendHeartbeat",
             "heartbeatTaken", "select", "stopped", "down"}
  /\ origin \in {"boot", "check", "disk", "loop"}
  /\ booted \in Nat
  /\ checkTick \in BOOLEAN
  /\ diskTick \in BOOLEAN
  /\ sigs \in BOOLEAN
  /\ shift \in Shifts \cup {0}

\* The days the loop remembers are numbers of days.
DaysOK ==
  /\ lastHeartbeatDay \in Nat \cup {NoDay}
  /\ today \in Nat \cup {NoDay}
  /\ pc \in {"sendHeartbeat", "heartbeatTaken"} => today \in Nat
  /\ mailedDays \subseteq Nat

LEMMA NextLoopTypeOK == now \in Nat /\ LoopTypeOK /\ [Next]_vars => LoopTypeOK'
<1> SUFFICES ASSUME now \in Nat, LoopTypeOK, [Next]_vars PROVE LoopTypeOK'
  OBVIOUS
<1> USE DEF LoopTypeOK
<1>1. ASSUME NEW s \in Samples, RunCheck(s) PROVE LoopTypeOK'
  BY <1>1 DEF RunCheck
<1>2. CASE Alert
  BY <1>2 DEF Alert, loopVars
<1>3. CASE CheckDone \/ NoHeartbeat \/ StartHeartbeat \/ HeartbeatAccepted \/ HeartbeatReturns
  BY <1>3 DEF CheckDone, NoHeartbeat, StartHeartbeat, HeartbeatAccepted, HeartbeatReturns
<1>4. CASE Select
  BY <1>4 DEF Select, TakeCheckTick, TakeDiskTick, TakeSignal
<1>5. CASE Signal \/ Crash \/ AdjustClock
  BY <1>5 DEF Signal, Crash, AdjustClock
<1>6. CASE Start
  BY <1>6 DEF Start
<1>7. CASE Tick
  BY <1>7 DEF Tick
<1>8. CASE UNCHANGED vars
  BY <1>8 DEF vars, loopVars
<1> QED
  BY <1>1, <1>2, <1>3, <1>4, <1>5, <1>6, <1>7, <1>8 DEF Next

LEMMA NextDaysOK ==
  ASSUME now \in Nat, LoopTypeOK, DaysOK, [Next]_vars
  PROVE  DaysOK'
<1> USE DEF DaysOK
<1>0. YearDay \in Nat
  <2>1. StartHour + shift \in Nat
    BY MonitorAssumption DEF LoopTypeOK
  <2> QED
    BY <2>1, YearDayInNat
<1>1. ASSUME NEW s \in Samples, RunCheck(s) PROVE DaysOK'
  BY <1>1 DEF RunCheck
<1>2. CASE Alert \/ UNCHANGED vars
  BY <1>2 DEF Alert, vars, loopVars
<1>3. CASE CheckDone \/ NoHeartbeat
  BY <1>3 DEF CheckDone, NoHeartbeat
<1>4. CASE StartHeartbeat
  BY <1>0, <1>4 DEF StartHeartbeat
<1>5. CASE HeartbeatAccepted \/ HeartbeatReturns
  BY <1>5 DEF HeartbeatAccepted, HeartbeatReturns
<1>6. CASE Select
  BY <1>6 DEF Select, TakeCheckTick, TakeDiskTick, TakeSignal
<1>7. CASE Signal \/ Crash \/ Start
  BY <1>7 DEF Signal, Crash, Start
<1>8. CASE Tick \/ AdjustClock
  BY <1>8 DEF Tick, AdjustClock
<1> QED
  BY <1>1, <1>2, <1>3, <1>4, <1>5, <1>6, <1>7, <1>8 DEF Next

\* The types of the two instances are the same.
LEMMA SameTypeOK == Alerts!TypeOK => AM!TypeOK
  BY DEF AM!TypeOK, Alerts!TypeOK, AM!Stats, Alerts!Stats, AM!Time,
         Alerts!Time, AM!Keys, Alerts!Keys, AM!Conditions,
         Alerts!Conditions, AM!KeyOf, Alerts!KeyOf, AM!Cpu, Alerts!Cpu,
         AM!Ram, Alerts!Ram, AM!RootDisk, Alerts!RootDisk, AM!Cumulative,
         Alerts!Cumulative, AM!NoCondition, Alerts!NoCondition, AM!Never,
         Alerts!Never

\* The loop begins with values of its types.
LEMMA InitLoop == Init => LoopTypeOK /\ DaysOK
<1> SUFFICES ASSUME Init PROVE LoopTypeOK /\ DaysOK
  OBVIOUS
<1>1. booted \in Nat
  BY DEF Init, AM!Init
<1> QED
  BY <1>1 DEF Init, LoopTypeOK, DaysOK

\* Every variable of the program keeps to the values the code can give it.
THEOREM TypeCorrect == Spec => []TypeOK
<1>1. Alerts!IInv => AM!TypeOK /\ now \in Nat
  BY SameTypeOK DEF Alerts!IInv, Alerts!TypeOK
<1>2. Alerts!IInv /\ LoopTypeOK /\ DaysOK /\ [Next]_vars => (LoopTypeOK /\ DaysOK)'
  BY <1>1, NextLoopTypeOK, NextDaysOK
<1>3. Alerts!IInv /\ LoopTypeOK /\ DaysOK => TypeOK
  BY <1>1 DEF LoopTypeOK, DaysOK, TypeOK
<1> QED
  BY InitLoop, <1>2, <1>3, AlertsInvariance, PTL DEF Spec

-----------------------------------------------------------------------------
(* The heartbeat                                                           *)

\* The hour the wall clock shows, counted from its zero.
HourIndex == WallClock \div UnitsPerHour

\* The heartbeat is under way.
Heartbeating == pc \in {"sendHeartbeat", "heartbeatTaken"}

\* The heartbeat hour of day d has begun, or had before the clock was set back.
Begun(d) ==
  LET begin == HoursPerDay * d + HeartbeatHour
  IN  IF shift = 0 THEN begin <= HourIndex ELSE begin < HourIndex + HoursPerDay

\* A day whose heartbeat the server took is marked, or about to be, unless the
\* process has died; the day of the heartbeat under way is later than any marked
\* one, and its heartbeat hour has begun.
HeartbeatInv ==
  /\ now \in Nat
  /\ shift \in {0} \cup Shifts
  /\ today \in Int
  /\ lastHeartbeatDay \in Int
  /\ mailedDays \subseteq Int
  /\ Begun(lastHeartbeatDay)
  /\ pc \in {"heartbeat", "sendHeartbeat", "heartbeatTaken"} => origin = "loop"
  /\ Heartbeating => lastHeartbeatDay < today /\ Begun(today)
  /\ \A d \in mailedDays :
       d <= lastHeartbeatDay \/ (pc \in {"heartbeatTaken", "down"} /\ d = today)

\* A quotient lies within one divisor of what is divided.
LEMMA DivBounds ==
  ASSUME NEW a \in Nat, NEW n \in Nat \ {0}
  PROVE  /\ a \div n \in Nat
         /\ n * (a \div n) <= a
         /\ a < n * (a \div n) + n
  OBVIOUS

\* Quotient and remainder make what is divided.
LEMMA DivMod ==
  ASSUME NEW a \in Nat, NEW n \in Nat \ {0}
  PROVE  a \div n \in Nat /\ a = n * (a \div n) + (a % n)
  OBVIOUS

\* Whole divisors come out of a quotient.
LEMMA DivShift ==
  ASSUME NEW a \in Nat, NEW k \in Nat, NEW n \in Nat \ {0}
  PROVE  (a + k * n) \div n = (a \div n) + k
<1> DEFINE p == a \div n
           q == (a + k * n) \div n
<1>1. k * n \in Nat /\ a + k * n \in Nat
  OBVIOUS
<1>2. /\ p \in Nat /\ n * p <= a /\ a < n * p + n
      /\ q \in Nat /\ n * q <= a + k * n /\ a + k * n < n * q + n
  BY <1>1, DivBounds
<1> HIDE DEF p, q
<1>3. n * (p + k) = n * p + k * n
  BY <1>2
<1>4. p + k + 1 <= q => n * (p + k + 1) <= n * q
  BY <1>2
<1>5. q + 1 <= p + k => n * (q + 1) <= n * (p + k)
  BY <1>2
<1>6. n * (p + k + 1) = n * (p + k) + n /\ n * (q + 1) = n * q + n
  BY <1>2
<1>7. n * p \in Nat /\ n * q \in Nat
  BY <1>2
<1>8. ~(p + k + 1 <= q)
  BY <1>1, <1>2, <1>3, <1>4, <1>6, <1>7
<1>9. ~(q + 1 <= p + k)
  BY <1>1, <1>2, <1>3, <1>5, <1>6, <1>7
<1>10. q = p + k
  BY <1>2, <1>8, <1>9
<1> QED
  BY <1>10 DEF p, q

\* The hour is that of the clock that runs, and the hours it was set by.
LEMMA HourIs ==
  ASSUME NEW n \in Nat, NEW h \in {0} \cup Shifts
  PROVE  /\ n \div UnitsPerHour \in Nat
         /\ StartHour + h \in Nat
         /\ (n + (StartHour + h) * UnitsPerHour) \div UnitsPerHour
              = (n \div UnitsPerHour) + (StartHour + h)
<1>1. StartHour + h \in Nat
  BY MonitorAssumption
<1>2. n \div UnitsPerHour \in Nat
  BY DivBounds, MonitorAssumption
<1> QED
  BY <1>1, <1>2, DivShift, MonitorAssumption

LEMMA HourIndexInNat ==
  ASSUME now \in Nat, shift \in {0} \cup Shifts
  PROVE  HourIndex \in Nat
<1>1. /\ now \div UnitsPerHour \in Nat
      /\ StartHour + shift \in Nat
      /\ HourIndex = (now \div UnitsPerHour) + (StartHour + shift)
  BY HourIs DEF HourIndex, WallClock
<1> QED
  BY <1>1

\* The hour of the day and the day make the hour.
LEMMA HourOfDay ==
  ASSUME HourIndex \in Nat
  PROVE  YearDay \in Nat /\ HourIndex = HoursPerDay * YearDay + Hour
<1>1. /\ HourIndex \div HoursPerDay \in Nat
      /\ HourIndex = HoursPerDay * (HourIndex \div HoursPerDay) + (HourIndex % HoursPerDay)
  BY DivMod, MonitorAssumption
<1> QED
  BY <1>1 DEF Hour, YearDay, HourIndex

\* While the clock stands, the hour does, and what has begun.
LEMMA BegunStands ==
  ASSUME UNCHANGED <<now, shift>>
  PROVE  /\ HourIndex' = HourIndex
         /\ \A d \in Int : Begun(d) => Begun(d)'
  BY DEF Begun, HourIndex, WallClock

\* What has begun stays so as the clock runs.
LEMMA BegunStays ==
  ASSUME now \in Nat, now' = now + 1, shift \in {0} \cup Shifts, shift' = shift,
         NEW d \in Int, Begun(d)
  PROVE  Begun(d)'
<1> DEFINE begin == HoursPerDay * d + HeartbeatHour
           m == now \div UnitsPerHour
           n == (now + 1) \div UnitsPerHour
<1>1. begin \in Int
  BY MonitorAssumption
<1>2. m \in Nat /\ StartHour + shift \in Nat /\ HourIndex = m + (StartHour + shift)
  BY HourIs DEF HourIndex, WallClock
<1>3. n \in Nat /\ HourIndex' = n + (StartHour + shift)
  <2>1. now + 1 \in Nat
    OBVIOUS
  <2>2. HourIndex' = ((now + 1) + (StartHour + shift) * UnitsPerHour) \div UnitsPerHour
    BY DEF HourIndex, WallClock
  <2> QED
    BY <2>1, <2>2, HourIs
<1>4. m <= n
  BY DivMonotone, MonitorAssumption
<1>5. IF shift = 0 THEN begin <= HourIndex ELSE begin < HourIndex + HoursPerDay
  BY DEF Begun
<1> HIDE DEF begin, m, n
<1>6. IF shift = 0 THEN begin <= HourIndex' ELSE begin < HourIndex' + HoursPerDay
  BY <1>1, <1>2, <1>3, <1>4, <1>5, MonitorAssumption
<1> QED
  BY <1>6 DEF Begun, begin

\* What has begun stays so when the clock is set by hours that are less than a day
\* back.
LEMMA BegunStaysSet ==
  ASSUME now \in Nat, now' = now, shift = 0, NEW h \in Shifts, shift' = h,
         h + HoursPerDay > 0, NEW d \in Int, Begun(d)
  PROVE  Begun(d)'
<1> DEFINE begin == HoursPerDay * d + HeartbeatHour
           m == now \div UnitsPerHour
<1>1. begin \in Int /\ h \in Int /\ StartHour \in Nat /\ HoursPerDay \in Nat
  BY MonitorAssumption
<1>2. m \in Nat /\ HourIndex = m + (StartHour + 0)
  BY HourIs DEF HourIndex, WallClock
<1>3. HourIndex' = m + (StartHour + h)
  <2>1. HourIndex' = (now + (StartHour + h) * UnitsPerHour) \div UnitsPerHour
    BY DEF HourIndex, WallClock
  <2> QED
    BY <2>1, HourIs
<1>4. begin <= HourIndex
  BY DEF Begun
<1> HIDE DEF begin, m
<1>5. begin < HourIndex' + HoursPerDay
  BY <1>1, <1>2, <1>3, <1>4
<1>6. h = 0 => begin <= HourIndex'
  BY <1>1, <1>2, <1>3, <1>4
<1> QED
  BY <1>5, <1>6 DEF Begun, begin

\* In the hour of the heartbeat its day has begun, and every other day that has is
\* earlier.
LEMMA BegunBefore ==
  ASSUME HourIndex \in Nat, Hour = HeartbeatHour, NEW d \in Int, Begun(d)
  PROVE  YearDay \in Nat /\ d <= YearDay /\ Begun(YearDay)
<1>1. YearDay \in Nat /\ HourIndex = HoursPerDay * YearDay + HeartbeatHour
  BY HourOfDay
<1>2. HoursPerDay * d < HoursPerDay * YearDay + HoursPerDay
  <2>1. HoursPerDay * d + HeartbeatHour < HourIndex + HoursPerDay
    BY MonitorAssumption DEF Begun
  <2> QED
    BY <1>1, <2>1, MonitorAssumption
<1>3. YearDay + 1 <= d => HoursPerDay * (YearDay + 1) <= HoursPerDay * d
  BY <1>1, MonitorAssumption
<1>4. HoursPerDay * (YearDay + 1) = HoursPerDay * YearDay + HoursPerDay
  BY <1>1, MonitorAssumption
<1>5. d <= YearDay
  BY <1>1, <1>2, <1>3, <1>4, MonitorAssumption
<1>6. Begun(YearDay)
  BY <1>1, MonitorAssumption DEF Begun
<1> QED
  BY <1>1, <1>5, <1>6

\* No day has begun before the clock shows one.
LEMMA NoDayBegun ==
  ASSUME HourIndex \in Nat
  PROVE  Begun(NoDay)
  BY MonitorAssumption DEF Begun, NoDay

LEMMA InitHeartbeatInv == Init => HeartbeatInv
<1> SUFFICES ASSUME Init PROVE HeartbeatInv
  OBVIOUS
<1>1. now = 0 /\ shift = 0
  BY DEF Init, AM!Init, AM!New
<1>2. Begun(NoDay)
  BY <1>1, HourIndexInNat, NoDayBegun
<1> QED
  BY <1>1, <1>2 DEF Init, HeartbeatInv, Heartbeating, NoDay

LEMMA NextHeartbeatInv ==
  ASSUME \A h \in Shifts : h + HoursPerDay > 0, HeartbeatInv, [Next]_vars
  PROVE  HeartbeatInv'
<1> USE DEF HeartbeatInv, Heartbeating
<1>0. HourIndex \in Nat
  BY HourIndexInNat
<1>1. ASSUME NEW s \in Samples, RunCheck(s) PROVE HeartbeatInv'
  <2>1. now' = now
    BY <1>1 DEF RunCheck, AM!Evaluate
  <2> QED
    BY <1>1, <2>1, BegunStands DEF RunCheck
<1>2. CASE Alert
  <2>1. now' = now
    BY <1>2 DEF Alert, AM!Skip, AM!StartSend, AM!MailAccepted, AM!SendSucceeds, AM!SendFails
  <2> QED
    BY <1>2, <2>1, BegunStands DEF Alert, loopVars
<1>3. CASE CheckDone
  BY <1>3, BegunStands DEF CheckDone, alertVars
<1>4. CASE NoHeartbeat
  BY <1>4, BegunStands DEF NoHeartbeat, alertVars
<1>5. CASE StartHeartbeat
  <2>1. YearDay \in Nat /\ lastHeartbeatDay <= YearDay /\ Begun(YearDay)
    BY <1>0, <1>5, BegunBefore DEF StartHeartbeat
  <2>2. lastHeartbeatDay < YearDay
    BY <1>5, <2>1 DEF StartHeartbeat
  <2> QED
    BY <1>5, <2>1, <2>2, BegunStands DEF StartHeartbeat, alertVars
<1>6. CASE HeartbeatAccepted
  BY <1>6, BegunStands DEF HeartbeatAccepted, alertVars
<1>7. CASE HeartbeatReturns
  BY <1>7, BegunStands DEF HeartbeatReturns, alertVars
<1>8. CASE Select
  BY <1>8, BegunStands DEF Select, TakeCheckTick, TakeDiskTick, TakeSignal, alertVars
<1>9. CASE Signal
  BY <1>9, BegunStands DEF Signal, Notified, Running, alertVars
<1>10. CASE Crash
  <2>1. now' = now /\ shift' = shift
    BY <1>10 DEF Crash, alertVars
  <2> QED
    BY <1>10, <2>1, BegunStands DEF Crash
<1>11. CASE Start
  <2>1. Begun(NoDay)
    BY <1>0, NoDayBegun
  <2>2. NoDay \in Int
    BY DEF NoDay
  <2> QED
    BY <1>11, <2>1, <2>2, BegunStands DEF Start
<1>12. CASE Tick
  <2>1. now' = now + 1 /\ UNCHANGED <<shift, pc, origin, today, lastHeartbeatDay, mailedDays>>
    BY <1>12 DEF Tick, AM!Tick
  <2>2. \A d \in Int : Begun(d) => Begun(d)'
    BY <2>1, BegunStays
  <2> QED
    BY <2>1, <2>2
<1>13. CASE AdjustClock
  <2>1. /\ now' = now /\ shift = 0 /\ shift' \in Shifts
        /\ UNCHANGED <<pc, origin, today, lastHeartbeatDay, mailedDays>>
    BY <1>13 DEF AdjustClock, alertVars
  <2>2. \A d \in Int : Begun(d) => Begun(d)'
    BY <2>1, BegunStaysSet
  <2> QED
    BY <2>1, <2>2
<1>14. CASE UNCHANGED vars
  BY <1>14, BegunStands DEF vars, alertVars, loopVars
<1> QED
  BY <1>1, <1>2, <1>3, <1>4, <1>5, <1>6, <1>7, <1>8, <1>9, <1>10, <1>11, <1>12, <1>13, <1>14
     DEF Next

\* However long the mails take, whatever of them fail and wherever an earlier
\* process died, the server gets one heartbeat per calendar day from one life of
\* the process, unless the clock is set back by a day or more: then a day before the
\* one that is marked comes again (main.go:64-66, 118-131).
THEOREM HeartbeatOncePerDay ==
  ASSUME \A h \in Shifts : h + HoursPerDay > 0
  PROVE  Spec => OneHeartbeatPerDay
<1> DEFINE Once == pc = "sendHeartbeat" /\ pc' = "heartbeatTaken" => today \notin mailedDays
<1>1. HeartbeatInv /\ [Next]_vars => HeartbeatInv'
  BY NextHeartbeatInv
<1>2. HeartbeatInv => [Once]_vars
  BY DEF HeartbeatInv, Heartbeating
<1> QED
  BY InitHeartbeatInv, <1>1, <1>2, PTL DEF Spec, OneHeartbeatPerDay

-----------------------------------------------------------------------------
(* The hour of the heartbeat                                               *)

\* The hour the wall clock shows, or showed, at time t, counted from its zero.
HourAt(t) == (t + (StartHour + shift) * UnitsPerHour) \div UnitsPerHour

\* The check ticker of this process has fired in the hour it is.
FiredThisHour ==
  \E t \in Nat : /\ booted < t /\ t <= now
                 /\ (t - booted) % CheckInterval = 0
                 /\ HourAt(t) = HourAt(now)

\* A tick is waiting, or its check or maybeHeartbeat goes on.
TickUnderWay == \/ checkTick
                \/ pc \in {"collect", "evaluate"} /\ origin = "check"
                \/ pc = "heartbeat"

\* A day that was begun is marked once its mail has ended.  A tick of the check
\* ticker in the hour of the heartbeat is on its way to maybeHeartbeat, or the
\* heartbeat of the day was begun.
HourInv ==
  /\ Running /\ ~Heartbeating => lastHeartbeatDay = today
  /\ Running /\ shift = 0 /\ Hour = HeartbeatHour /\ FiredThisHour
       => TickUnderWay \/ today = YearDay

\* A time is in the hour of a later one if one unit on is the next hour and less
\* than an hour lies between them.
LEMMA SameHour ==
  ASSUME NEW a \in Nat, NEW b \in Nat, NEW n \in Nat \ {0},
         a <= b, b < a + n, (b + 1) \div n # b \div n
  PROVE  a \div n = b \div n
<1> DEFINE p == a \div n
           q == b \div n
           r == (b + 1) \div n
<1>1. /\ p \in Nat /\ q \in Nat /\ r \in Nat
      /\ n * p <= a /\ a < n * p + n
      /\ n * q <= b /\ b < n * q + n
      /\ n * r <= b + 1 /\ b + 1 < n * r + n
  BY DivBounds
<1>2. p <= q /\ q <= r /\ q # r
  BY DivMonotone
<1> HIDE DEF p, q, r
<1>3. n * (q + 1) <= n * r
  BY <1>1, <1>2
<1>4. n * q <= a
  BY <1>1, <1>3
<1>5. p + 1 <= q => n * (p + 1) <= n * q
  BY <1>1
<1>6. p = q
  BY <1>1, <1>2, <1>4, <1>5
<1> QED
  BY <1>6 DEF p, q

\* While the clock stands, the hour it shows and the ticks of that hour are the
\* same.
LEMMA HourStands ==
  ASSUME UNCHANGED <<now, shift, booted>>
  PROVE  Hour' = Hour /\ YearDay' = YearDay /\ FiredThisHour' = FiredThisHour
  BY DEF Hour, YearDay, WallClock, FiredThisHour, HourAt

\* What HourInv says of a step depends on the clock, the process and these.
LEMMA HourInvStands ==
  ASSUME HourInv, UNCHANGED <<now, shift, booted>>, Running' => Running,
         Running' /\ ~Heartbeating' => lastHeartbeatDay' = today',
         Running /\ Running' /\ Hour = HeartbeatHour /\ (TickUnderWay \/ today = YearDay)
           => TickUnderWay' \/ today' = YearDay
  PROVE  HourInv'
<1>1. Hour' = Hour /\ YearDay' = YearDay /\ FiredThisHour' = FiredThisHour
  BY HourStands
<1>2. /\ Running' /\ shift' = 0 /\ Hour' = HeartbeatHour /\ FiredThisHour'
      => TickUnderWay' \/ today' = YearDay'
  BY <1>1 DEF HourInv
<1> QED
  BY <1>2 DEF HourInv

\* The hour of the clock at a time is a number, and grows with it.
LEMMA HourAtGrows ==
  ASSUME LoopTypeOK, NEW t \in Nat, NEW u \in Nat, t <= u
  PROVE  HourAt(t) \in Nat /\ HourAt(u) \in Nat /\ HourAt(t) <= HourAt(u)
<1>1. StartHour + shift \in Nat
  BY MonitorAssumption DEF LoopTypeOK
<1>2. (StartHour + shift) * UnitsPerHour \in Nat
  BY <1>1, ShiftMonotone, MonitorAssumption
<1> QED
  BY <1>2, DivMonotone, MonitorAssumption, SMTT(30) DEF HourAt

\* A tick of the check ticker in this hour is one that fires now, or it came
\* before and this was the hour then.
LEMMA FiresOrFired ==
  ASSUME now \in Nat, LoopTypeOK, Tick, FiredThisHour', Running
  PROVE  checkTick' \/ (FiredThisHour /\ Hour' = Hour /\ YearDay' = YearDay)
<1>1. now' = now + 1 /\ UNCHANGED <<shift, booted>>
  BY DEF Tick, AM!Tick
<1>2. PICK t \in Nat : /\ booted < t /\ t <= now + 1
                       /\ (t - booted) % CheckInterval = 0
                       /\ HourAt(t) = HourAt(now + 1)
  BY <1>1 DEF FiredThisHour, HourAt
<1>3. CASE t = now + 1
  <2>1. Fires(CheckInterval)
    <3>1. (t - booted) % CheckInterval = 0
      BY <1>2
    <3>2. t - booted = now + 1 - booted
      BY <1>3 DEF LoopTypeOK
    <3> QED
      BY <3>1, <3>2, Zenon DEF Fires
  <2>2. checkTick'
    BY <2>1, Zenon DEF Tick
  <2> QED
    BY <2>2
<1>4. CASE t # now + 1
  <2>1. t <= now
    BY <1>2, <1>4
  <2>2. HourAt(t) \in Nat /\ HourAt(t) <= HourAt(now)
    BY <2>1, HourAtGrows
  <2>3. HourAt(now) \in Nat /\ HourAt(now + 1) \in Nat /\ HourAt(now) <= HourAt(now + 1)
    BY HourAtGrows
  <2>4. HourAt(now) = HourAt(now + 1)
    BY <1>2, <2>2, <2>3
  <2>5. FiredThisHour
    BY <1>2, <2>1, <2>4 DEF FiredThisHour
  <2>6. Hour' = Hour /\ YearDay' = YearDay
    BY <1>1, <2>4 DEF Hour, YearDay, WallClock, HourAt
  <2> QED
    BY <2>5, <2>6
<1> QED
  BY <1>3, <1>4

\* At the end of an hour the process was up for, a check ticker with an interval
\* of at most an hour has fired in it.
LEMMA FiredByTheEnd ==
  ASSUME now \in Nat, LoopTypeOK, CheckInterval <= UnitsPerHour, Tick,
         Hour' # Hour, now' - booted > UnitsPerHour
  PROVE  FiredThisHour
<1> DEFINE t == now - ((now - booted) % CheckInterval)
           w == (StartHour + shift) * UnitsPerHour
<1>1. now' = now + 1 /\ UNCHANGED <<shift, booted>>
  BY DEF Tick, AM!Tick
<1>2. w \in Nat
  <2>1. StartHour + shift \in Nat
    BY MonitorAssumption DEF LoopTypeOK
  <2> QED
    BY <2>1, ShiftMonotone, MonitorAssumption
<1>3. (now + w + 1) \div UnitsPerHour # (now + w) \div UnitsPerHour
  BY <1>1, <1>2 DEF Hour, WallClock
<1>4. /\ t \in Int /\ t <= now /\ now < t + CheckInterval
      /\ (t - booted) % CheckInterval = 0
  <2>1. now - booted \in Int /\ CheckInterval \in Nat \ {0} /\ booted \in Nat
    BY MonitorAssumption DEF LoopTypeOK
  <2> DEFINE d == now - booted
  <2>2. /\ d % CheckInterval \in 0..(CheckInterval - 1)
        /\ d = CheckInterval * (d \div CheckInterval) + (d % CheckInterval)
        /\ d \div CheckInterval \in Int
    BY <2>1
  <2>3. t - booted = CheckInterval * (d \div CheckInterval)
    BY <2>1, <2>2
  <2>4. (t - booted) % CheckInterval = 0
    BY <2>1, <2>2, <2>3
  <2> QED
    BY <2>1, <2>2, <2>4
<1>5. now + 1 - booted > UnitsPerHour /\ booted \in Nat
  BY <1>1 DEF LoopTypeOK
<1> HIDE DEF t, w
<1>6. t \in Nat /\ booted < t
  BY <1>4, <1>5, MonitorAssumption
<1>7. (t + w) \div UnitsPerHour = (now + w) \div UnitsPerHour
  <2>1. /\ t + w \in Nat /\ now + w \in Nat /\ t + w <= now + w
        /\ now + w < (t + w) + UnitsPerHour
    BY <1>2, <1>4, <1>6, MonitorAssumption
  <2>2. ((now + w) + 1) \div UnitsPerHour # (now + w) \div UnitsPerHour
    BY <1>3
  <2> QED
    BY <2>1, <2>2, SameHour, MonitorAssumption
<1>8. HourAt(t) = HourAt(now)
  BY <1>7 DEF HourAt, w
<1> QED
  BY <1>4, <1>6, <1>8 DEF FiredThisHour

LEMMA InitHourInv == Init => HourInv
<1> SUFFICES ASSUME Init PROVE HourInv
  OBVIOUS
<1>1. now = booted /\ now = 0 /\ lastHeartbeatDay = today
  BY DEF Init, AM!Init, AM!New
<1>2. ~FiredThisHour
  BY <1>1 DEF FiredThisHour
<1> QED
  BY <1>1, <1>2 DEF HourInv

LEMMA NextHourInv ==
  ASSUME now \in Nat, LoopTypeOK, DaysOK, HourInv, [Next]_vars
  PROVE  HourInv'
<1>0. YearDay \in Nat
  <2>1. StartHour + shift \in Nat
    BY MonitorAssumption DEF LoopTypeOK
  <2> QED
    BY <2>1, YearDayInNat
<1>1. ASSUME NEW s \in Samples, RunCheck(s) PROVE HourInv'
  <2>1. UNCHANGED <<now, shift, booted>>
    BY <1>1 DEF RunCheck, AM!Evaluate
  <2> QED
    BY <1>1, <2>1, HourInvStands DEF HourInv, RunCheck, Running, Heartbeating, TickUnderWay
<1>2. CASE Alert
  <2>1. UNCHANGED <<now, loopVars>>
    BY <1>2 DEF Alert, AM!Skip, AM!StartSend, AM!MailAccepted, AM!SendSucceeds, AM!SendFails
  <2> QED
    BY <2>1, HourInvStands DEF HourInv, Running, Heartbeating, TickUnderWay, loopVars
<1>3. CASE CheckDone
  BY <1>3, HourInvStands DEF HourInv, CheckDone, Running, Heartbeating, TickUnderWay, alertVars
<1>4. CASE NoHeartbeat
  BY <1>4, HourInvStands DEF HourInv, NoHeartbeat, Running, Heartbeating, TickUnderWay, alertVars
<1>5. CASE StartHeartbeat
  BY <1>5, HourInvStands DEF HourInv, StartHeartbeat, Running, Heartbeating, TickUnderWay, alertVars
<1>6. CASE HeartbeatAccepted
  BY <1>6, HourInvStands DEF HourInv, HeartbeatAccepted, Running, Heartbeating, TickUnderWay, alertVars
<1>7. CASE HeartbeatReturns
  BY <1>7, HourInvStands DEF HourInv, HeartbeatReturns, Running, Heartbeating, TickUnderWay, alertVars
<1>8. CASE Select
  BY <1>8, HourInvStands DEF HourInv, Select, TakeCheckTick, TakeDiskTick, TakeSignal,
     Running, Heartbeating, TickUnderWay, alertVars
<1>9. CASE Signal
  BY <1>9, HourInvStands DEF HourInv, Signal, Running, Heartbeating, TickUnderWay, alertVars
<1>10. CASE Crash
  BY <1>10 DEF HourInv, Crash, Running
<1>11. CASE Start
  <2>1. booted' = now' /\ now' \in Nat /\ lastHeartbeatDay' = today'
    BY <1>11 DEF Start
  <2>2. ~FiredThisHour'
    BY <2>1 DEF FiredThisHour
  <2> QED
    BY <2>1, <2>2 DEF HourInv
<1>12. CASE Tick
  <2>1. Running' = Running /\ Heartbeating' = Heartbeating /\ shift' = shift
    BY <1>12 DEF Tick, Running, Heartbeating
  <2>2. checkTick => checkTick'
    BY <1>12, Zenon DEF Tick
  <2>3. lastHeartbeatDay' = lastHeartbeatDay /\ today' = today
    BY <1>12 DEF Tick
  <2>4. TickUnderWay => TickUnderWay'
    BY <1>12, <2>2, Zenon DEF Tick, TickUnderWay
  <2>5. ASSUME Running', shift' = 0, Hour' = HeartbeatHour, FiredThisHour'
        PROVE  TickUnderWay' \/ today' = YearDay'
    <3>1. checkTick' \/ (FiredThisHour /\ Hour' = Hour /\ YearDay' = YearDay)
      BY <1>12, <2>1, <2>5, FiresOrFired
    <3> QED
      BY <2>1, <2>3, <2>4, <2>5, <3>1 DEF HourInv, TickUnderWay
  <2> QED
    BY <2>1, <2>3, <2>5 DEF HourInv
<1>13. CASE AdjustClock
  <2>1. CASE shift' = 0
    BY <1>13, <2>1, HourInvStands DEF HourInv, AdjustClock, Running, Heartbeating, TickUnderWay, alertVars
  <2>2. CASE shift' # 0
    BY <1>13, <2>2 DEF HourInv, AdjustClock, Running, Heartbeating
  <2> QED
    BY <2>1, <2>2
<1>14. CASE UNCHANGED vars
  BY <1>14, HourInvStands DEF HourInv, vars, alertVars, loopVars, Running, Heartbeating, TickUnderWay
<1> QED
  BY <1>1, <1>2, <1>3, <1>4, <1>5, <1>6, <1>7, <1>8, <1>9, <1>10, <1>11, <1>12, <1>13, <1>14
     DEF Next

\* When the hour of the heartbeat ends with the loop waiting for its next tick,
\* and the process was up for that hour on a clock nobody set, the heartbeat of
\* the day was attempted, if checks come once an hour or more often (main.go:64-66,
\* 79-81, 118-131; README "At HEARTBEAT_HOUR each day a summary email is sent").
THEOREM HeartbeatAttempted ==
  ASSUME CheckInterval <= UnitsPerHour
  PROVE  Spec => HeartbeatHourServed
<1> DEFINE Served == /\ Hour = HeartbeatHour /\ Hour' # HeartbeatHour
                     /\ shift' = 0
                     /\ now' - booted > UnitsPerHour
                     /\ pc = "select" /\ ~checkTick
                     => today = YearDay
<1>1. Alerts!IInv /\ LoopTypeOK /\ DaysOK /\ HourInv /\ [Next]_vars
      => (LoopTypeOK /\ DaysOK /\ HourInv)'
  BY NextLoopTypeOK, NextDaysOK, NextHourInv DEF Alerts!IInv, Alerts!TypeOK
<1>2. Alerts!IInv /\ LoopTypeOK /\ DaysOK /\ HourInv /\ [Next]_vars => [Served]_vars
  <2> SUFFICES ASSUME Alerts!IInv, LoopTypeOK, DaysOK, HourInv, Next,
                      Hour = HeartbeatHour, Hour' # HeartbeatHour, shift' = 0,
                      now' - booted > UnitsPerHour, pc = "select", ~checkTick
               PROVE  today = YearDay
    OBVIOUS
  <2>1. now \in Nat
    BY DEF Alerts!IInv, Alerts!TypeOK
  <2>2. Tick
    <3> SUFFICES ASSUME ~Tick PROVE FALSE
      OBVIOUS
    <3>1. now' = now /\ shift' = shift
      BY DEF Next, Select, RunCheck, Alert, CheckDone, NoHeartbeat, StartHeartbeat,
         HeartbeatAccepted, HeartbeatReturns, TakeCheckTick, TakeDiskTick, TakeSignal,
         Signal, Crash, Start, AdjustClock, alertVars, Running
    <3> QED
      BY <3>1 DEF Hour, WallClock
  <2>3. shift = 0
    BY <2>2 DEF Tick
  <2>4. FiredThisHour
    BY <2>1, <2>2, FiredByTheEnd
  <2> QED
    BY <2>3, <2>4 DEF HourInv, Running, TickUnderWay
<1>3. Init => LoopTypeOK /\ DaysOK /\ HourInv
  BY InitLoop, InitHourInv
<1> QED
  BY <1>1, <1>2, <1>3, AlertsInvariance, PTL DEF Spec, HeartbeatHourServed
=============================================================================
