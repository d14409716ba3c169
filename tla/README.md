# A verification project for madeena-server-monitor

The repository is one Go program and one web page.  The program watches a
server, mails alerts and a daily heartbeat, and serves a dashboard on which the
server can also be managed.  This directory holds TLA+ models of it, the
configurations TLC checks them with, and proofs checked by TLAPS.
`PROJECT.json` lists components, runs, mutants, hazards, theorems, and for each
definition of a model the lines of code it stands for.

## 1. Inventory

| Component | State it keeps | Operations | Talks to |
|---|---|---|---|
| Main loop, `cmd/monitor/main.go` | `lastHeartbeatDay`, two tickers with one slot each, a signal channel | startup, `runCheck`, `maybeHeartbeat`, shutdown | collection, store, alerting; starts the dashboard goroutine |
| Alerting, `internal/notifier` | `lastAlertTime`, `consecutiveCPUHighChecks` | `Evaluate`, `SendHeartbeat` | SMTP server |
| Collection, `internal/checker/checker.go` | previous network counters | `Collect` | kernel, `sensors`, `smartctl` |
| Metrics store, `internal/checker/store.go` | latest snapshot, six series with history, sensors, one `RWMutex` | `Update`, `BuildHistoryResponse`, `BuildLiveResponse` | written by the loop, read by HTTP handlers |
| Dashboard server, `internal/dashboard/server.go` | none of its own | history, event stream, management handlers, basic auth | store, managers |
| Managers, `internal/manage` | the host's: units, bans, firewall rules, files | service status and actions, ban list, unban, allowlist, log tails, users | `systemctl`, `fail2ban-client`, `ufw`, files |
| Page, `internal/assets/web/index.html` | `MANAGEMENT_STATE`, six charts, the back-off of the stream | loads, buttons, `connectSSE`, `mockFetch` | dashboard server |
| Configuration and startup, `internal/config`, `main.go` | read once | `Load`, detection of disks, tickers | environment, systemd |

What is hard in it, and what has to be right:

- *Everything periodic is one goroutine.*  Checks, alert mails, the heartbeat
  and the reaction to signals follow one another, and a mail takes as long as
  the SMTP server likes.  Ticks are dropped meanwhile; the clock moves on.
  Right is: a tick and a signal are taken up in the end; one heartbeat per day;
  the heartbeat hour is not missed.
- *A mail may fail before or after the server has taken it,* and many
  conditions share one check.  Right is: no breach is lost by the failure of
  another's mail, a breach that lasts is alerted in every cooldown, and no more
  than once per cooldown.
- *Nothing is persisted.*  A restart forgets alerts, counters and heartbeats.
  Right is: each life of the process keeps its promises from its own beginning.
- *The environment may be wrong,* and every start takes it again; what does not
  parse is 0.  Right is: a process that runs its checks has settings it can run
  with, and once the environment is mended the program comes up by itself.
- *Every source of metrics fails on its own,* disks come and go, counters wrap, and
  checks and heartbeats share one baseline.  Right is: a snapshot has an entry for all
  it should have, a disk is called failing if smartctl said so and only then, and the
  network rate is that of the bytes moved.
- *Handlers read the store while the loop writes it.*  Right is: an answer is
  one of a store that does everything in one step, and readers never keep the
  writer out.
- *Management handlers run external commands,* several for one answer, while
  services die and fail2ban bans; the page has several requests under way and
  takes answers in any order.  Right is: what an answer and the page say was
  true of the host.
- *Logs are read while they are written and rotated,* and a public address is
  asked for at services that fail or never answer.  Right is: a tail misses no line,
  only an address that somebody vouches for gets on the allowlist, and what the handler
  says is allowed is.
- *The charts are fed by a stream that breaks,* after a history asked for apart
  from it.  Right is: one stream at a time, no point older than the ones before,
  the latest snapshot in the end, and every alarm shown.
- *Boundaries*: cooldown end, run of checks, first sample, full history,
  midnight, a clock that is set, counters that wrap.

All hazards, each at its line, are listed in `PROJECT.json`.

## 2. Modules

| Module | Models | Composition |
|---|---|---|
| `AlertPolicy` | what alerting promises, in one step per notification | abstract |
| `AlertManager` | `alertmanager.go`, the sends of `email.go` | implements `AlertPolicy` |
| `Monitor` | `main.go` | `AM == INSTANCE AlertManager`, sharing its variables |
| `AtomicStore` | what the store promises its readers | abstract |
| `MetricsStore` | `store.go` | implements `AtomicStore` |
| `ManagementPage` | the service and ban tables of the page with their handlers and managers | alone |
| `LiveCharts` | the charts and the alarm of the page, the event stream, its handlers | takes the answers of `AtomicStore` |
| `Startup` | `config.go`, the first half of `main.go`, systemd | part of `Collector` |
| `Collector` | `checker.go` | extends `Startup`, whose process calls it |
| `AuthLog` | `logs.go`, its handlers and viewers | alone |
| `SecurityPage` | `network.go`, its handlers and the allowlist of the page | alone |
| `AlertManagerProofs`, `MonitorProofs` | theorems about the two | the second instantiates the first |
| `MetricsStoreProofs`, `ManagementPageProofs`, `LiveChartsProofs`, `CollectorProofs`, `AuthLogProofs` | theorems about the module of that name | |
| `SecurityProofs` | theorems about `SecurityPage` | |
| `MC...` | instances for TLC | |

### AlertManager
`Evaluate(s)` is the beginning of `Evaluate`: the counter is updated, and the
conditions the snapshot breaches become `pending`.  They are then visited block
by block in the order of the code (`Stage`), and within the two loops over Go
maps in any order: `Skip` is a failed `shouldAlert`, `StartSend` the call of
`sendAlert`.  `MailAccepted` is a step of the server; `SendSucceeds` is the
return with `nil`, which records the time; `SendFails` is a return with an
error, before ("refused") or after ("lost") the server took the mail.  `Tick`
may come anywhere.

Abstractions: a snapshot is the set of thresholds it reaches (a metric that
could not be read is 0 in the code and reaches none, thresholds being positive);
the counter stops at `CPUConsecutiveChecks`, the only value it is compared with,
and a negative setting acts as 0; the mutex is left out, as only one goroutine
comes here; a condition that is not breached takes no step.  `began`, `unsent`,
`delivered` and `recent` are history variables that the properties need.

### Monitor
`pc` is where the main goroutine is.  `RunCheck` is `Collect`, `Update` and the
beginning of `Evaluate`; `Alert` is what is left of `Evaluate`, by the actions of
`AlertManager`; `CheckDone` its return, to `select` or to `maybeHeartbeat`.
`NoHeartbeat` and `StartHeartbeat` read the clock; `HeartbeatAccepted` and
`HeartbeatReturns` are the mail and the marking of the day.  `TakeCheckTick`,
`TakeDiskTick`, `TakeSignal` are the cases of `select`; `Tick` fires the tickers
into slots that hold one tick.  `Crash` may come anywhere, `Start` begins with
empty memory.  `Signal` before `signal.Notify` kills the process.
`AdjustClock` sets the wall clock once by whole hours.

Abstractions: `YearDay` is the number of the day, since the code only compares
it for being different and no run lasts a year; `Collect` never fails, as in
the code it always returns a nil error; the tickers start when the process does.

### MetricsStore
`CallUpdate`, `Lock`, `Write(f)`, `Unlock` are an `Update` field by field;
`RLock`, `Copy(c, p)`, `RUnlock` a handler that builds an answer part by part.
The lock is Go's: a waiting writer keeps new readers out.  The six series are
treated alike by the code, so they are any set, in any order.  CPU cores, fans
and voltages are written and copied as series and temperature sensors are, and
left out.  Of a sensor the model keeps which sensor its value is of.

### ManagementPage
A call is a fetch of the page or a request of another client: `Ask` is the click
or the load, and captures the fallback data as the arguments of `mockFetch` do;
the handlers then run command by command (`Command`, `Query`, `ListJail`,
`Unban`); `Apply` is the code after `await`.  `Lose` is a request or an answer
that is lost: `mockFetch` cannot tell it from an error answer.  `UnitFails` and
`BanChanges` are the host's own doing.  A request is lost before its handler
begins or after it has ended, never in the middle.  The page unbans in sshd, by
the handler's default (`unban`), other clients in any jail they name (`unbanIn`).

Two fields of a call are history, of the time since it was made, or for an action
since its command ran: `seen` has what each service was, or the bans in force, at some
time; `kept` the bans in force all the time, in jails whose list could be read.
Every step that changes the host notes it in all calls under way (`Noting`).  The
properties compare answers with these, so that they also say something of a call
during which a service died or a ban came.

### LiveCharts
`LoadPage` is the start of the script; `HandleHistory` the handler of the history,
`UpdateCharts` the arrival of its answer, `LoseHistory` its failure; both go on
with `connectSSE`.  `HandleLive` is the handler's first event and the page's
`onopen`, `PushEvent` a tick, `OnMessage` the whole of `onmessage`, `OnError` and
`Timeout` the way to the next stream.  `Disconnect` loses a connection, and any
number of the events on the wire; `Restart` loses the store as well.

Abstractions: the store answers in one step, which `store_atomic` justifies.  Of
an event the page uses the time and the six values; two charts stand for six.
Labels are times, not their wording; arrays of labels have a name, as it matters
which charts share one.  A pause ends sometime: `backoff` is kept but delays
nothing.  The values of an alarm are compared as they are, where the page
compares them rounded to one decimal.

### Startup and Collector
`LoadConfig` is `config.Load` with what `main` checks after it, `Build` the detection of
the disks and the start of the goroutine of the dashboard, `Listen` what becomes of that
goroutine, `CreateTickers` the two `time.NewTicker`.  `Crash` may come anywhere;
`Reboot` is systemd, and the new `Checker` that comes with a new process.
`EditEnvironment` is the operator, at a program that has failed. `Begin`, `ReadSensors`,
`ReadDisks`, `QueryDisk`, `TryPath`, `TakeHealth`, `DisksQueried`, `ReadNet` or
`NetUnreadable`, and `Return` are `Collect` in the order of the code.  For a disk,
`QueryDisk` starts `/usr/sbin/smartctl`; one that printed nothing is followed by the one
on `PATH` (`TryPath`); `TakeHealth` looks for `PASSED` and then for `FAILED` in what was
printed, and has `UNKNOWN` where neither is. Any run may print nothing, or a text
without a verdict (`Runs`), for want of an installation, a permission or support of the
disk, and exit with an error or not.  A verdict comes only of a disk that is attached:
`FAILED`, with an error, of one that is failing; of another `PASSED`, or `PASSED` with
an error and an attribute that once `FAILED`.  The host moves on between any two of
them: `Traffic`, `InterfaceVanishes`, `DiskFails`, `SwapDisk`, `Tick`.

Abstractions: a setting is unset, a text that is no number, or a number; the four
thresholds are one.  Partitions can be read or not at will.  Commands end: the code sets
them no deadline.  The clock counts from the start of the process.  Received and sent
bytes are one counter, taken modulo `Wrap` (2^64 in the code).  The half second
`cpu.Percent` sleeps is not told from other time.  CPU, memory, load and uptime are
values passed on, and left out. `sick`, `failed`, `judged`, `since`, `vanished` and
`moved` are history.

### AuthLog and SecurityPage
`FetchLogs`, `OpenLog`, `ScanLine`, `EndScan`, `RenderLogs` are a load of a viewer,
from click to display.  The scanner takes line by line, so that lines are written and
files renamed in the middle of it; a line too long for it ends the load with an error.
A line is its number in the whole log, so that the property can say which
are missing.  `WriteLine` is syslog, `Rotate` logrotate, which renames the file and
leaves it to the readers that have it open.

`QueryService` asks one service for the public address; nothing makes it come, as
`http.Get` has no timeout.  `FetchCurrentIP` is what the page makes of the answer;
`Click`, `WhitelistIP`, `ReportAllowed` are the button, the handler and the message of
success; `DeleteRule` is an administrator.  `Lose...` is a request or an answer that is
lost.

Abstractions: a text has four parts or not, and is an address or not; whether ufw
works is left open; port and protocol are always those of the page; dates of lines
and the texts the page makes up are left out; a behaviour is the life of one page.

## 3. What the runs check

| Run | Question | Result |
|---|---|---|
| `alert_safety` | types; the CPU alert needs its run; no breach goes unnoticed; the combined mail covers what the single ones do; one acknowledged mail per cooldown; `AlertManager` implements `AlertPolicy` | holds |
| `alert_live` | a breach that lasts is alerted in every cooldown | holds |
| `monitor_days` | types; one heartbeat per day also when the clock is set, per life of the process; the heartbeat hour is served unless the loop is busy | holds |
| `monitor_live` | with crashes and mail faults, signals are honoured and ticks taken up, and each life of the process mails once per cooldown | holds if every mail dialogue ends |
| `monitor_hang` | are signals honoured when the mail server is silent? | violated: no deadline is set |
| `store_atomic` | types; answers are those of `AtomicStore`; an update returns | holds |
| `page_tables` | types; a load that succeeds shows what was so of the host meanwhile; what a 200 claims was done | holds |
| `collect` | types; a running process is configured; snapshots are complete; a verdict of smartctl is passed on, and no failure made up; the network rate is true; the program comes up once its environment is mended | holds |
| `security` | types; an address that was granted and is reported is allowed; every rule is justified; log tails miss nothing | holds |
| `page_unban` | is a ban reported lifted only when it is? | violated: also when the request failed |
| `charts_stream` | types; one stream at a time; no chart goes back in time; alarms are put up; the charts catch up | holds |
| `charts_labels` | do the labels of a chart fit its points? | violated: six charts share one array |

Every property of a passing run has a mutant: a plausible bug in a definition
that models code, under which TLC finds the property violated in the same run.

**Bounds and why they are enough.**  `alert_safety`: two checks required, a cooldown of
2 within 3 units, so that a cooldown ends, and is entered again, within a run; a root
disk, and data partitions of which one is `/` again, so that keys collide; samples have
the CPU high, or the disks full, or neither, which is what the refinement is checked
with.  `alert_live`: a device, temperature and no data disks; a cooldown of 2 and time
up to 3.  Time stops at `MaxTime`: a condition breached from some time on must then have
its alert within the cooldown that is still running.  `monitor_days`: three hours a day
of two units each, a check each hour, almost two days in all, so that two heartbeat
hours and the midnight between them occur, and a mail may last from the one to the
other, with a shift of the clock in either direction at any time. `monitor_live`: two
units of time, both tickers, unlimited crashes. `store_atomic`: one series beside the
timestamps, histories of 2 and 3 updates, so that a history is cut, and two handlers,
the least that can pass the lock to each other for ever.  `page_tables`: two calls, two
jails, one managed service, one that the page first shows though it is not managed;
changes of the host are unlimited, between any two commands of a call; the two calls are
symmetric, and the properties are an invariant and properties of single steps, for which
that is sound.  `charts_stream`: two charts, of which one has an alarm, that hold two
points each, three snapshots, two failures of any kind, two events on the wire and room
for a second stream: a full chart is shifted, a stream is lost after another was, and a
restart comes between two snapshots.

`collect`: one disk and one partition, counters modulo 3 so that they wrap, two units of
time so that two readings differ or do not, one crash, and environments to run with (one
with a port the dashboard cannot listen on) beside ones with no recipient, an hour or a
port that is wrong, and intervals that are 0 or below.  One output of `sensors` is
enough: nothing in the collection depends on it but the temperature.  A disk is queried
by two runs of smartctl at most, each of which may print nothing, something else or its
verdict.

`security` runs the log or the allowlist: `AuthLog` and `SecurityPage` share no
variable, so their interleavings would show nothing more (`MCSecurity`).  Of the log:
two lines asked for of four ever written, each of them about a login, about something
else or too long, so that the order of two lines shows, cutting before filtering is told
from cutting after it, and a line is cut for a later one; rotations come before, between
or after the steps of one load at a time.  Of the allowlist: two clicks, three services
as in the code, a text of four parts that is no address.

Facts the models have but no run asks about:

- The combined mail is sent on one high CPU sample (`README.md:102` of the
  repository speaks of consecutive checks before alerting).
- A heartbeat that could not be mailed marks its day like one that was
  (`HeartbeatReturns`).
- `updateNamedMetrics` (`store.go:136`) keeps the names of the sensors while their
  number is the same, and takes the values by index, though `parseSensorsJSON`
  lists them in the order of a Go map: a value ends up under another's name
  (`UpdateNamed` with two orders in `SensorLists`; `store.go:78` says "index
  matches").
- `Stop` (`services.go:137`) returns the error of `systemctl is-active`, which fails
  for a service that is not active: every stop that works is answered with 500
  (`Query`; the README of the repository says at line 192 "All return updated
  service status").
- A click on the allowlist button that fails, or comes before the address is known (when
  it sends "unknown"), is reported as a success all the same, for the address known by then
  (`ReportAllowed`): it is the `mockFetch` of `page_unban` again.
- When no public address is found the page takes 198.51.100.99, and offers to
  allow it (`FetchCurrentIP`; `RuleJustified` has it as its exception).
- A log line longer than 64 KiB fails the load of either viewer (`ScanLine`).
- A disk whose health cannot be told is UNKNOWN, on which no alert is sent
  (`QuerySmartHealth`; `alertmanager.go:112` asks for FAILED): a failing disk that
  smartctl needs another option or permission for is not reported.
  `FailingReported` asks only that a verdict is not lost.
- CPU, memory, load and the root disk that cannot be read are 0 in a snapshot, as if
  idle; the models leave them out, and no property is about them.
- When an interface vanishes, the difference of the counters wraps to an absurd rate
  (`InterfaceVanishes`; `RateTrue` has it as its exception).

`CHECK_DEADLOCK FALSE` is set where the number of updates is bounded.

**Fairness.**  Steps of the program are weakly fair.  `select` picks at random
among the cases that are ready, so each of them is strongly fair.  The mail
server owes an answer only under `MailFairness`, which `monitor_hang` leaves out:
the code sets no deadline.  `alert_live` moreover assumes that the server is not
down for ever: for each condition, strongly fair acceptance and reply.  In the
store, whoever holds the lock goes on, and the lock is granted to a writer it is
free for; nobody is bound to ask.  Of the charts, what is not lost arrives, tickers
tick, timeouts expire, and the browser hears of a connection that is lost; that
failures end is the bound `MaxFaults`.  In `collect` the program goes on, and systemd
starts it again (`Restart=on-failure`); whether the dashboard could listen is left
open; that a check returns rests on the commands it runs to end.  `security` claims no
liveness: a service that takes the connection and is silent keeps the handler for ever,
and the others are never asked, though `network.go:22` has several "for redundancy".

## 4. What is proved

Every safety property that a passing run checks is also a theorem, for every value
of the constants that the named assumptions allow.

| Module | Theorems | States |
|---|---|---|
| `AlertManagerProofs` | `TypeCorrect`, `BreachesCovered`, `BreachesSummarised`, `CpuAlertDebounced`, `NoMailWithinCooldown` | the properties of `alert_safety` |
| | `PolicyImplemented` | `AlertManager` implements `AlertPolicy` |
| `MonitorProofs` | `DrivesAlertManager` | without restarts the main loop implements `AlertManager` |
| | `AlertsInvariance` | with crashes and restarts the invariant of the alert manager still holds |
| | `TypeCorrect`, `NoMailWithinCooldown` | types of the loop; one mail per key and cooldown in each life of the process |
| | `HeartbeatOncePerDay` | one heartbeat a day in each life, unless the clock is set back by a day or more |
| | `HeartbeatAttempted` | `HeartbeatHourServed`, if the check interval is at most an hour |
| `MetricsStoreProofs` | `TypeCorrect`, `AnswersAreAtomic` | types; `MetricsStore` implements `AtomicStore` |
| `ManagementPageProofs` | `TypeCorrect`, `TablesAreTrue`, `ActionsAreTrue` | types; loaded tables show what was so meanwhile, actions answered with 200 were done |
| `LiveChartsProofs` | `TypeCorrect`, `OneStreamAtATime`, `ChartsAdvance`, `AlarmsRaised` | types; one EventSource, no chart goes back, no alarm passed over |
| `CollectorProofs` | `TypeCorrect`, `RunningIsConfigured`, `SnapshotsComplete`, `FailuresReported`, `ReportedWereFailing`, `RateIsTrue` | the properties of `collect` but for liveness |
| `AuthLogProofs` | `TypeCorrect`, `TailsAreComplete` | types of the log; `TailComplete` |
| `SecurityProofs` | `TypeCorrect`, `ReportsAreTrue`, `RulesAreJustified` | types of the allowlist; `ReportTrue`, `RuleJustified` |

**Assumptions.**  `ConfigAssumption`: types of the settings, a natural
`CPUConsecutiveChecks`, any integer cooldown.  `MonitorAssumption`: intervals above 0, a
heartbeat hour of the day.  `StoreAssumption`: whole values, a history of at least one
point (config.go turns other lengths down), names of series that are no field.
`PageAssumption`: services and jails there are, sshd among the jails.
`ChartsAssumption`: snapshots have a time and a value for each series, charts hold at
least a history.  `CollectorAssumption`: a report of sensors is finite, as the text it
is parsed from is; without that the greatest reading need not exist.
`AuthLogAssumption`: a positive number of lines.  `HeartbeatOncePerDay` assumes that no
shift is a day back or more, which no change of daylight saving is.  The bound is exact:
on the instance of `monitor_days` with a shift of -3 hours, a day of that instance,
`MaxTime = 13` and `OneHeartbeatPerDay`, TLC finds a day that comes again after the next
one was marked. `HeartbeatAttempted` assumes `CheckInterval <= UnitsPerHour`: with
longer intervals a heartbeat hour can pass without a tick, and the default is a minute
(config.go:108).

**Invariants.**  The properties are not inductive by themselves.  The strengthened
invariants were checked by TLC on the instances of the runs before they were proved.

- `IInv` of `AlertManagerProofs` adds to the types that no recorded time lies in the
  future, that a mail in progress is about a breached condition whose cooldown is over
  (time only grows, so it stays over), that what is pending is breached, that the
  counter counts latest checks all of which were high, and that an alert is recorded no
  earlier than its mail was taken (`Ledger`).  `CpuAlertMeansRun` follows from the
  counter and the mail in progress, the cooldown from `Ledger` and `ShouldAlert`, the
  refinement from `ShouldAlert` being true still when the send returns.
- `MonitorProofs`: a new process is in the initial state of the alert manager but for
  the clock (`New`), and `IInv` holds of that state at any time (`NewIInv`), which carries
  it over a restart.  `HeartbeatInv` says that a day with a heartbeat taken is marked or
  about to be, and that the heartbeat hour of a marked day has begun, or had before the
  clock was set back (`Begun`), so that no later heartbeat hour is that of an earlier
  day.  `HourInv` says that
  once the check ticker has fired in the heartbeat hour, the tick waits in its channel,
  or its check or `maybeHeartbeat` is under way, or the heartbeat of the day was begun;
  disk checks in between change none of these.  `FiredByTheEnd` shows that
  it has fired by the end of an hour the process was up for: a multiple of the
  interval lies in any hour that is no shorter.
- `MetricsStoreProofs`: `StoreInv` says field by field what an update half done has
  written: `Written(f)` is what was published, and the snapshot under way if `f` is
  done.  `ReaderInv` says that nobody reads while `Update` writes and that a copy
  equals what is still in the store.  The refinement follows: when the last part is
  copied, the answer is that of `AtomicStore` for what is published, with the lowest and
  highest value determined by `IsLowest` and `IsHighest`.
- `ManagementPageProofs`: `Sound` says of each request under way what it has gathered,
  compared with what it noted of the host: `seen` only grows, and `kept` only shrinks,
  so that it survives all that others do.  `Noted` says that a call has noted what is so
  now, which is what a command that asks next finds.
- `LiveChartsProofs`: `OneInv` says that there is one stream, or one timeout that will
  open one, and neither before the history was loaded; `OrderInv` that what is on its way
  comes in order, after what the charts show and before the present; `AlarmInv` that the
  alarm remembered is that of the event handled last.
- `CollectorProofs`: `ConfigInv` says that the numbers past `LoadConfig` are those of the
  environment; `BaselineInv` that the counter differs from the baseline by the bytes
  moved, or by one width less; `SnapshotInv` that what `Collect` has passed is complete,
  that a disk queried was judged as it is reported, and that the disk under query has no
  verdict yet.
- `AuthLogProofs`: `LogInv` says that what a load has got increases, was asked for and
  scanned, lacks nothing of what was scanned, and when answered nothing written
  before the request but what comes before a full answer (`GotInv`); and that the file
  it has open lies within the log and ends after what was written when it was asked for
  (`FileInv`).
- `SecurityProofs`: `DetectionInv` says how far the services have been asked and what
  vouches for the address known, `ClickInv` that an address sent is still the one known
  (so a report is of the address that was sent, unless that was "unknown"), and
  `AllowedInv` that an address allowed stays so until it is deleted.

One fact is proved by a smallest counterexample, since the subsets of a finite set are
well-founded: that a finite set of numbers has a greatest one (`GreatestExists`).

**Only model-checked.**  Liveness, which is out of the prover's reach:
`PersistentBreachAlerted`, `SignalHonoured`, `TicksServed`, `UpdateReturns`,
`ChartsCatchUp`, `ComesUp`.  The properties of the three runs that expect a
violation do not hold.

## 5. What is not modelled, and the plan

Done: alerting, the main loop, startup and configuration, collection, the store, the
charts, the service, ban, log and allowlist parts of the page. The safety properties of
all of them are proved.  Next: `HeartbeatAttempted` for a clock that was set before the
hour began, and the proof that the charts take only answers the store of `MetricsStore`
can give.

Left out for good: the list of users, a filter of `/etc/passwd` that keeps no state
and that unit tests cover; basic auth and routing, which keep no state either;
`Search` and `RemoveIPWhitelist`, which nothing calls; the year of log lines, which
the code assigns without a condition (wrong for December lines read in January);
texts, layout and colours; `monitor.proto`, which no code uses; build files.  A
restart repeats an alert within its cooldown and a heartbeat within its hour: the
models have the restart, and the properties it breaks are stated for each life of
the process.
