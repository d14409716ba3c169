----------------------------- MODULE AlertPolicy -----------------------------
(***************************************************************************)
(* What alerting promises, whatever the mail server does and in whatever   *)
(* order the conditions are examined: an alert key is notified, and        *)
(* notified again no sooner than one cooldown later; the CPU key only      *)
(* while the CPU has been high in CPUConsecutiveChecks checks in a row     *)
(* (README "Alerting Logic").  AlertManager implements this specification. *)
(***************************************************************************)
EXTENDS Integers

CONSTANTS
  Keys,                 \* the alert keys
  CpuKey,               \* the key subject to the consecutive-checks rule
  CPUConsecutiveChecks, \* high checks in a row before the CPU key may be notified
  AlertCooldown         \* least time between two notifications of a key

VARIABLES
  now,      \* the clock
  lastSent, \* key -> time of its last notification, Never when there is none
  streak    \* consecutive checks with a high CPU, up to the checks required

policyVars == <<now, lastSent, streak>>

Never == -1

Init ==
  /\ now = 0
  /\ lastSent = [k \in Keys |-> Never]
  /\ streak = 0

\* Time passes.
Pass ==
  /\ now' = now + 1
  /\ UNCHANGED <<lastSent, streak>>

\* A check sees the CPU high, or sees it low and the run of high checks ends.
Check(high) ==
  /\ \/ high /\ streak < CPUConsecutiveChecks /\ streak' = streak + 1
     \/ high /\ streak = CPUConsecutiveChecks /\ streak' = streak
     \/ ~high /\ streak' = 0
  /\ UNCHANGED <<now, lastSent>>

\* Key k is notified.
Notify(k) ==
  /\ lastSent[k] = Never \/ now - lastSent[k] >= AlertCooldown
  /\ k = CpuKey => streak >= CPUConsecutiveChecks
  /\ lastSent' = [lastSent EXCEPT ![k] = now]
  /\ UNCHANGED <<now, streak>>

Next ==
  \/ Pass
  \/ \E high \in BOOLEAN : Check(high)
  \/ \E k \in Keys : Notify(k)

Spec == Init /\ [][Next]_policyVars
=============================================================================
