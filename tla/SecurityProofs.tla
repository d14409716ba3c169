--------------------------- MODULE SecurityProofs ---------------------------
(***************************************************************************)
(* What the allowlist of SecurityPage comes to contain and what the page   *)
(* says of it, for any services, texts, addresses and clicks.              *)
(***************************************************************************)
EXTENDS SecurityPage, TLAPS, SequenceTheorems

\* What vouches for an address.
Vouched ==
  Range(detection.heard) \cup (IF detection.lost \/ Failed THEN {MockIP} ELSE {})

\* Nothing is known before the detection is done; what is known then is vouched
\* for, and is what was clicked.
DetectionInv ==
  /\ detection \in [stage : {"asking", "answered", "done"},
                    heard : Seq(Texts \cup {NoText}), ok : BOOLEAN, lost : BOOLEAN]
  /\ currentIP \in FourPart \cup {Unknown}
  /\ Len(detection.heard) <= NumServices
  /\ detection.stage = "asking" =>
       /\ ~detection.ok
       /\ Len(detection.heard) < NumServices
       /\ Range(detection.heard) \cap FourPart = {}
  /\ detection.stage = "answered" =>
       IF detection.ok
       THEN detection.heard # <<>> /\ Last(detection.heard) \in FourPart
       ELSE detection.lost \/ Failed
  /\ currentIP # Unknown => detection.stage = "done" /\ currentIP \in Vouched

ClickInv ==
  /\ click \in [Clicks -> [stage : {"idle", "sent", "answered"},
                          ip : FourPart \cup {Unknown}, ok : BOOLEAN, kept : BOOLEAN]]
  /\ \A k \in Clicks :
       click[k].ip # Unknown => detection.stage = "done" /\ click[k].ip = currentIP

\* An address the handler allowed is on the list until it is deleted.
AllowedInv ==
  /\ rules \subseteq Addresses
  /\ \A k \in Clicks :
       click[k].stage = "answered" /\ click[k].ok /\ click[k].kept
       => click[k].ip \in rules

IInv == DetectionInv /\ ClickInv /\ AllowedInv

LEMMA InitIInv == Init => IInv
<1> SUFFICES ASSUME Init PROVE IInv
  OBVIOUS
<1> QED
  BY SecurityAssumption
     DEF Init, IInv, DetectionInv, ClickInv, AllowedInv, NoClick, Range

\* What one more service answered.
LEMMA HeardMore ==
  ASSUME NEW S, NEW s \in Seq(S), NEW x \in S
  PROVE  /\ Append(s, x) \in Seq(S)
         /\ Len(Append(s, x)) = Len(s) + 1
         /\ Range(Append(s, x)) = Range(s) \cup {x}
         /\ Append(s, x) # <<>>
         /\ Last(Append(s, x)) = x
<1> DEFINE t == Append(s, x)
<1>1. /\ t \in Seq(S) /\ Len(t) = Len(s) + 1 /\ t # <<>>
      /\ DOMAIN t = 1..(Len(s) + 1) /\ DOMAIN s = 1..Len(s)
      /\ \A i \in 1..Len(s) : t[i] = s[i]
      /\ t[Len(s) + 1] = x
  OBVIOUS
<1>2. Range(t) = Range(s) \cup {x}
  <2>1. \A i \in DOMAIN t : t[i] \in Range(s) \cup {x}
    BY <1>1 DEF Range
  <2>2. \A i \in DOMAIN s : s[i] \in Range(t)
    BY <1>1 DEF Range
  <2>3. x \in Range(t)
    BY <1>1 DEF Range
  <2> QED
    BY <2>1, <2>2, <2>3 DEF Range
<1>3. Last(t) = x
  BY <1>1 DEF Last
<1> QED
  BY <1>1, <1>2, <1>3

LEMMA LastHeard ==
  ASSUME NEW S, NEW s \in Seq(S), s # <<>>
  PROVE  Last(s) \in Range(s)
  BY DEF Last, Range

\* A step that leaves the detection alone leaves alone what it vouches for.
LEMMA VouchedStays == UNCHANGED detection => Vouched' = Vouched
  BY DEF Vouched, Failed

LEMMA NextIInv == IInv /\ [Next]_vars => IInv'
<1> SUFFICES ASSUME IInv, [Next]_vars PROVE IInv'
  OBVIOUS
<1> USE SecurityAssumption DEF IInv
<1>1. CASE UNCHANGED vars
  BY <1>1, VouchedStays DEF vars, DetectionInv, ClickInv, AllowedInv, Failed
<1>2. CASE QueryService
  <2> USE <1>2 DEF QueryService
  <2>1. PICK text \in Texts \cup {NoText} :
          detection' = [detection EXCEPT
            !.heard = Append(@, text),
            !.ok    = text \in FourPart,
            !.stage = IF text \in FourPart \/ Len(detection.heard) + 1 = NumServices
                      THEN "answered" ELSE "asking"]
    OBVIOUS
  <2>2. UNCHANGED <<rules, currentIP, click>> /\ detection.stage = "asking"
    OBVIOUS
  <2>3. currentIP = Unknown /\ \A k \in Clicks : click[k].ip = Unknown
    BY <2>2 DEF DetectionInv, ClickInv
  <2>4. /\ detection'.heard \in Seq(Texts \cup {NoText})
        /\ Len(detection'.heard) = Len(detection.heard) + 1
        /\ Range(detection'.heard) = Range(detection.heard) \cup {text}
        /\ detection'.heard # <<>> /\ Last(detection'.heard) = text
    <3> HIDE DEF QueryService
    <3>1. detection.heard \in Seq(Texts \cup {NoText})
      BY DEF DetectionInv
    <3>2. detection'.heard = Append(detection.heard, text)
      BY <2>1 DEF DetectionInv
    <3> QED
      BY <3>1, <3>2, HeardMore
  <2>5. /\ detection'.ok = (text \in FourPart)
        /\ detection'.lost = detection.lost
        /\ detection'.stage = IF text \in FourPart \/ Len(detection.heard) + 1 = NumServices
                              THEN "answered" ELSE "asking"
    BY <2>1 DEF DetectionInv
  <2>6. detection' \in [stage : {"asking", "answered", "done"},
                        heard : Seq(Texts \cup {NoText}), ok : BOOLEAN, lost : BOOLEAN]
    <3> HIDE DEF QueryService
    <3> DEFINE heard   == Append(detection.heard, text)
               found   == text \in FourPart
               stage   == IF found \/ Len(detection.heard) + 1 = NumServices
                          THEN "answered" ELSE "asking"
    <3>1. heard \in Seq(Texts \cup {NoText}) /\ found \in BOOLEAN
          /\ stage \in {"asking", "answered", "done"}
      BY HeardMore DEF DetectionInv
    <3>2. detection' = [detection EXCEPT !.heard = heard, !.ok = found, !.stage = stage]
      BY <2>1
    <3> HIDE DEF heard, found, stage
    <3> QED
      BY <3>1, <3>2 DEF DetectionInv
  <2>7. Len(detection.heard) \in Nat /\ Len(detection.heard) < NumServices
        /\ Range(detection.heard) \cap FourPart = {}
    BY <2>2 DEF DetectionInv
  <2>8. /\ Len(detection'.heard) <= NumServices
        /\ detection'.stage = "asking" =>
             /\ ~detection'.ok
             /\ Len(detection'.heard) < NumServices
             /\ Range(detection'.heard) \cap FourPart = {}
    <3> DEFINE n == Len(detection.heard)
               m == Len(detection'.heard)
    <3>1. n \in Nat /\ n < NumServices /\ m = n + 1
      BY <2>4, <2>7
    <3> HIDE DEF n, m, QueryService
    <3>2. m <= NumServices
      BY <3>1
    <3>3. detection'.stage = "asking" => text \notin FourPart /\ n + 1 # NumServices
      BY <2>5 DEF n
    <3>4. detection'.stage = "asking" => m < NumServices
      BY <3>1, <3>3
    <3>5. detection'.stage = "asking" => ~detection'.ok
      BY <2>5, <3>3
    <3>6. detection'.stage = "asking" => Range(detection'.heard) \cap FourPart = {}
      BY <2>4, <2>7, <3>3
    <3> QED
      BY <3>2, <3>4, <3>5, <3>6 DEF m
  <2>9. detection'.stage = "answered" /\ text \notin FourPart => Failed'
    BY <2>4, <2>5, <2>7 DEF Failed
  <2>10. DetectionInv'
    BY <2>2, <2>3, <2>4, <2>5, <2>6, <2>8, <2>9 DEF DetectionInv
  <2> QED
    BY <2>2, <2>3, <2>10 DEF ClickInv, AllowedInv
<1>3. CASE LoseDetection
  <2>1. currentIP = Unknown /\ \A k \in Clicks : click[k].ip = Unknown
    BY <1>3 DEF LoseDetection, DetectionInv, ClickInv
  <2> QED
    BY <1>3, <2>1 DEF LoseDetection, DetectionInv, ClickInv, AllowedInv, Failed
<1>4. CASE FetchCurrentIP
  <2>1. Vouched' = Vouched /\ Failed' = Failed
    BY <1>4 DEF FetchCurrentIP, Vouched, Failed, DetectionInv
  <2>2. currentIP' \in Vouched
    BY <1>4, LastHeard DEF FetchCurrentIP, DetectionInv, Vouched
  <2>3. \A k \in Clicks : click[k].ip = Unknown
    BY <1>4 DEF FetchCurrentIP, ClickInv
  <2> QED
    BY <1>4, <2>1, <2>2, <2>3 DEF FetchCurrentIP, DetectionInv, ClickInv, AllowedInv
<1>5. ASSUME NEW k \in Clicks, Click(k) \/ WhitelistIP(k) \/ LoseClick(k) \/ ReportAllowed(k)
      PROVE  IInv'
  <2>1. UNCHANGED <<currentIP, detection>> /\ rules \subseteq rules' /\ rules' \subseteq Addresses
    BY <1>5 DEF Click, WhitelistIP, LoseClick, ReportAllowed, AllowedInv
  <2>2. DetectionInv'
    BY <2>1, VouchedStays DEF DetectionInv, Failed
  <2>3. /\ click' \in [Clicks -> [stage : {"idle", "sent", "answered"},
                                  ip : FourPart \cup {Unknown}, ok : BOOLEAN, kept : BOOLEAN]]
        /\ \A c \in Clicks : click'[c].ip \in {click[c].ip, currentIP, Unknown}
        /\ \A c \in Clicks :
             click'[c].stage = "answered" /\ click'[c].ok =>
               \/ click'[c] = click[c]
               \/ click'[c].ip \in rules'
    <3>1. CASE Click(k)
      BY <1>5, <3>1 DEF Click, NoClick, ClickInv, DetectionInv
    <3>2. CASE WhitelistIP(k)
      BY <1>5, <3>2 DEF WhitelistIP, Answer, ClickInv
    <3>3. CASE LoseClick(k)
      BY <1>5, <3>3, ZenonT(30) DEF LoseClick, Answer, ClickInv
    <3>4. CASE ReportAllowed(k)
      BY <1>5, <3>4 DEF ReportAllowed, NoClick, ClickInv
    <3> QED
      BY <1>5, <3>1, <3>2, <3>3, <3>4
  <2>4. ClickInv'
    BY <2>1, <2>3, VouchedStays DEF ClickInv, DetectionInv
  <2>5. AllowedInv'
    BY <2>1, <2>3 DEF AllowedInv
  <2> QED
    BY <2>2, <2>4, <2>5
<1>6. ASSUME NEW a \in Addresses, DeleteRule(a) PROVE IInv'
  <2>1. /\ rules' = rules \ {a} /\ UNCHANGED <<currentIP, detection>>
        /\ click' = [k \in Clicks |->
             IF click[k].ip = a THEN [click[k] EXCEPT !.kept = FALSE] ELSE click[k]]
    BY <1>6 DEF DeleteRule
  <2>2. DetectionInv'
    BY <2>1, VouchedStays DEF DetectionInv, Failed
  <2>3. /\ click' \in [Clicks -> [stage : {"idle", "sent", "answered"},
                                  ip : FourPart \cup {Unknown}, ok : BOOLEAN, kept : BOOLEAN]]
        /\ \A k \in Clicks : click'[k].ip = click[k].ip
        /\ \A k \in Clicks : click[k].ip = a \/ click'[k] = click[k]
        /\ \A k \in Clicks : click[k].ip = a => ~click'[k].kept
    <3> DEFINE C == [stage : {"idle", "sent", "answered"},
                     ip : FourPart \cup {Unknown}, ok : BOOLEAN, kept : BOOLEAN]
    <3>1. ASSUME NEW r \in C
          PROVE  /\ [r EXCEPT !.kept = FALSE] \in C
                 /\ [r EXCEPT !.kept = FALSE].ip = r.ip
                 /\ ~[r EXCEPT !.kept = FALSE].kept
      OBVIOUS
    <3>2. click \in [Clicks -> C]
      BY DEF ClickInv
    <3> HIDE DEF C, IInv
    <3>3. \A k \in Clicks : click'[k] = IF click[k].ip = a THEN [click[k] EXCEPT !.kept = FALSE]
                                        ELSE click[k]
      BY <2>1
    <3>4. \A k \in Clicks : click'[k] \in C
      BY <3>1, <3>2, <3>3
    <3>5. click' \in [Clicks -> C]
      BY <2>1, <3>4
    <3> QED
      BY <3>1, <3>2, <3>3, <3>5 DEF C
  <2>4. ClickInv' /\ rules' \subseteq Addresses
    BY <2>1, <2>3 DEF ClickInv, AllowedInv
  <2>5. AllowedInv'
    BY <2>1, <2>3, <2>4 DEF AllowedInv
  <2> QED
    BY <2>2, <2>4, <2>5
<1> QED
  BY <1>1, <1>2, <1>3, <1>4, <1>5, <1>6 DEF Next

\* Where the handler said that an address was allowed, the one reported is, unless it
\* was deleted since the click (index.html:724-732; network.go, WhitelistIP).
THEOREM ReportsAreTrue == Spec => ReportTrue
<1> DEFINE True == \A k \in Clicks :
              Reported(k) /\ click[k].ok /\ click[k].kept => currentIP \in rules
<1>1. IInv /\ [Next]_vars => [True]_vars
  <2> SUFFICES ASSUME IInv, NEW k \in Clicks, click[k].stage = "answered",
                      click[k].ok, click[k].kept
               PROVE  currentIP \in rules
    BY DEF Reported
  <2>1. click[k].ip \in rules /\ click[k].ip # Unknown
    BY SecurityAssumption DEF IInv, AllowedInv
  <2> QED
    BY <2>1 DEF IInv, ClickInv
<1> QED
  BY <1>1, InitIInv, NextIInv, PTL DEF Spec, ReportTrue

\* Only an address that a service gave gets on the allowlist, or the made-up one
\* where none gave any or the call was lost (network.go, CurrentPublicIP).
THEOREM RulesAreJustified == Spec => RuleJustified
<1> DEFINE True == rules' \subseteq
       rules \cup Range(detection.heard)
             \cup (IF detection.lost \/ Failed THEN {MockIP} ELSE {})
<1>1. IInv /\ [Next]_vars => [True]_vars
  <2> SUFFICES ASSUME IInv, Next PROVE rules' \subseteq rules \cup Vouched
    BY DEF Vouched
  <2>1. CASE rules' \subseteq rules
    BY <2>1
  <2>2. ASSUME NEW k \in Clicks, WhitelistIP(k), click[k].ip \in Addresses
        PROVE  rules' \subseteq rules \cup Vouched
    <3>1. click[k].ip \in Vouched
      BY <2>2, SecurityAssumption DEF IInv, ClickInv, DetectionInv
    <3> QED
      BY <2>2, <3>1 DEF WhitelistIP
  <2> QED
    BY <2>1, <2>2 DEF Next, QueryService, LoseDetection, FetchCurrentIP,
       Click, WhitelistIP, LoseClick, ReportAllowed, DeleteRule
<1> QED
  BY <1>1, InitIInv, NextIInv, PTL DEF Spec, RuleJustified

LEMMA Types == IInv => TypeOK
<1> SUFFICES ASSUME IInv PROVE TypeOK
  OBVIOUS
<1>1. detection.heard \in BoundedSeq(Texts \cup {NoText}, NumServices)
  <2> DEFINE n == Len(detection.heard)
  <2>1. detection.heard \in Seq(Texts \cup {NoText}) /\ n <= NumServices
    BY DEF IInv, DetectionInv
  <2>2. detection.heard \in [1..n -> Texts \cup {NoText}] /\ n \in 0..NumServices
    BY <2>1, SecurityAssumption
  <2> QED
    BY <2>2 DEF BoundedSeq, SeqOf
<1> QED
  BY <1>1 DEF IInv, DetectionInv, ClickInv, AllowedInv, TypeOK

\* Every variable of the panel keeps to its type: no more services are asked than
\* there are, and only addresses are allowed.
THEOREM TypeCorrect == Spec => []TypeOK
  BY InitIInv, NextIInv, Types, PTL DEF Spec
=============================================================================
