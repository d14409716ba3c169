------------------------ MODULE ManagementPageProofs ------------------------
(***************************************************************************)
(* What the tables of the management page show, and what an answer of 200  *)
(* says of the host, for any number of requests under way and any          *)
(* services, jails and addresses.                                          *)
(***************************************************************************)
EXTENDS ManagementPage, TLAPS

CallRecords ==
  [op : ServiceOps \cup BanOps \cup {None},
   on : Services \cup DOMAIN MockServices \cup Bans \cup {Nothing},
   stage : {"idle", "sent", "query", "answered"},
   todo : SUBSET (Services \cup Jails),
   got : SUBSET ((Services \X BOOLEAN) \cup Bans),
   ok : BOOLEAN,
   fallback : SUBSET (((Services \cup DOMAIN MockServices) \X BOOLEAN) \cup Bans),
   seen : SUBSET ((Services \X BOOLEAN) \cup Bans),
   kept : SUBSET Bans]

\* What call r has gathered, if it was not lost and did not fail.
Gathers(r) == r.stage \in {"sent", "query"} \/ r.ok

\* A load of the services has of those it queried what they were; its fallback data
\* are those of a whole table.
StatusSound(r) ==
  /\ r.todo \subseteq Services
  /\ r.got \subseteq Services \X BOOLEAN
  /\ {p[1] : p \in r.fallback} \in {Services, DOMAIN MockServices}
  /\ Gathers(r) => {p[1] : p \in r.got} = Services \ r.todo /\ r.got \subseteq r.seen

\* A load of the bans has those that stayed, of the jails it read.
BannedSound(r) ==
  /\ r.todo \subseteq Jails
  /\ r.got \subseteq Bans
  /\ r.fallback \subseteq Bans
  /\ Gathers(r) => /\ r.got \subseteq r.seen
                   /\ \A b \in r.kept : b[2] \in r.todo \/ b \in r.got

\* A command is followed by a query of the same service; a service of which the
\* handler says that it was started has run.
ActionSound(r) ==
  /\ r.stage = "query" => r.on \in Services /\ r.todo = {r.on}
  /\ r.ok /\ r.op # "stop" => <<r.on, TRUE>> \in r.seen

\* An address of which the handler says so has been banned no more.
UnbanSound(r) ==
  /\ r.todo = {}
  /\ r.ok => r.on \notin r.kept

\* What is true of call r: as it notes more and more, it stays so.
Sound(r) ==
  /\ r \in CallRecords
  /\ r.op = None => r = NoCall
  /\ r.stage = "idle" => r.op = None
  /\ r.stage = "query" => r.op \notin Unbans
  /\ r.ok => r.stage = "answered" /\ r.todo = {}
  /\ r.op = "status" => StatusSound(r)
  /\ r.op = "banned" => BannedSound(r)
  /\ r.op \in UnitActions => ActionSound(r)
  /\ r.op \in Unbans => UnbanSound(r)

\* It has noted what is so by now, of services u and bans b.
Noted(r, u, b) ==
  /\ Seen(r.op, u, b) \subseteq r.seen
  /\ r.kept \subseteq Kept(r.op, b)

HostInv ==
  /\ unit \in [Services -> {"active", "inactive", "failed"}]
  /\ bans \subseteq Bans

PageInv ==
  /\ DOMAIN shownServices \in {Services, DOMAIN MockServices}
  /\ shownServices \in [DOMAIN shownServices -> BOOLEAN]
  /\ shownBans \subseteq Bans

CallsInv ==
  /\ call \in [Calls -> CallRecords]
  /\ \A c \in Calls : Sound(call[c]) /\ Noted(call[c], unit, bans)

IInv == HostInv /\ PageInv /\ CallsInv

LEMMA Kinds ==
  /\ None \notin ServiceOps \cup BanOps
  /\ "status" \notin UnitActions \cup Unbans /\ "banned" \notin UnitActions \cup Unbans
  /\ UnitActions \cap Unbans = {} /\ ServiceOps \cap BanOps = {}
  /\ "status" \in ServiceOps /\ "banned" \in BanOps
  /\ "restart" \in UnitActions /\ "start" \in UnitActions
  /\ UnitActions \subseteq ServiceOps /\ Unbans \subseteq BanOps
  /\ ServiceOps = UnitActions \cup {"status"} /\ BanOps = Unbans \cup {"banned"}
  BY DEF None, ServiceOps, UnitActions, BanOps, Unbans

LEMMA NoCallIs ==
  /\ NoCall \in CallRecords
  /\ NoCall.op = None /\ NoCall.stage = "idle" /\ NoCall.todo = {} /\ NoCall.got = {}
  /\ NoCall.ok = FALSE /\ NoCall.seen = {} /\ NoCall.kept = {}
<1>1. Nothing \in Services \cup DOMAIN MockServices \cup Bans \cup {Nothing}
  OBVIOUS
<1> QED
  BY <1>1 DEF NoCall, CallRecords

LEMMA NoCallSound ==
  ASSUME NEW u, NEW b
  PROVE  Sound(NoCall) /\ Noted(NoCall, u, b)
<1>1. Seen(None, u, b) = {}
  BY Kinds DEF Seen
<1>2. Noted(NoCall, u, b)
  BY <1>1, NoCallIs DEF Noted
<1>3. Sound(NoCall)
  BY NoCallIs, Kinds DEF Sound
<1> QED
  BY <1>2, <1>3

LEMMA InitIInv == Init => IInv
<1> SUFFICES ASSUME Init PROVE IInv
  OBVIOUS
<1>1. HostInv /\ PageInv
  BY PageAssumption DEF Init, HostInv, PageInv
<1> QED
  BY <1>1, NoCallIs, NoCallSound DEF Init, IInv, CallsInv

-----------------------------------------------------------------------------
(* What is noted                                                           *)

LEMMA SeenType ==
  ASSUME NEW op, NEW u, NEW b, b \subseteq Bans
  PROVE  /\ Seen(op, u, b) \in SUBSET ((Services \X BOOLEAN) \cup Bans)
         /\ Kept(op, b) \in SUBSET Bans
<1>1. Kept(op, b) \in SUBSET Bans
  BY DEF Kept
<1>2. CASE op \in ServiceOps
  <2>1. \A s \in Services : <<s, u[s] = "active">> \in Services \X BOOLEAN
    OBVIOUS
  <2>2. Seen(op, u, b) = {<<s, u[s] = "active">> : s \in Services}
    BY <1>2 DEF Seen
  <2> QED
    BY <1>1, <2>1, <2>2
<1>3. CASE op \notin ServiceOps
  BY <1>1, <1>3 DEF Seen
<1> QED
  BY <1>2, <1>3

\* What becomes of a call in a step that it has no part in.
LEMMA NotingIs ==
  ASSUME NEW r \in CallRecords, bans' \subseteq Bans
  PROVE  /\ Noting(r) \in CallRecords
         /\ Noting(r).op = r.op /\ Noting(r).on = r.on /\ Noting(r).stage = r.stage
         /\ Noting(r).todo = r.todo /\ Noting(r).got = r.got /\ Noting(r).ok = r.ok
         /\ Noting(r).fallback = r.fallback
         /\ Noting(r).seen = r.seen \cup Seen(r.op, unit', bans')
         /\ Noting(r).kept = r.kept \cap Kept(r.op, bans')
<1> DEFINE seen == r.seen \cup Seen(r.op, unit', bans')
           kept == r.kept \cap Kept(r.op, bans')
<1>1. /\ seen \in SUBSET ((Services \X BOOLEAN) \cup Bans)
      /\ kept \in SUBSET Bans
  <2>1. Seen(r.op, unit', bans') \in SUBSET ((Services \X BOOLEAN) \cup Bans)
    BY SeenType
  <2>2. r.seen \in SUBSET ((Services \X BOOLEAN) \cup Bans) /\ r.kept \in SUBSET Bans
    BY DEF CallRecords
  <2> QED
    BY <2>1, <2>2
<1>2. Noting(r) = [r EXCEPT !.seen = seen, !.kept = kept]
  BY DEF Noting
<1> HIDE DEF seen, kept
<1>3. /\ Noting(r) \in CallRecords
      /\ Noting(r).op = r.op /\ Noting(r).on = r.on /\ Noting(r).stage = r.stage
      /\ Noting(r).todo = r.todo /\ Noting(r).got = r.got /\ Noting(r).ok = r.ok
      /\ Noting(r).fallback = r.fallback /\ Noting(r).seen = seen /\ Noting(r).kept = kept
  BY <1>1, <1>2 DEF CallRecords
<1> QED
  BY <1>3 DEF seen, kept

LEMMA AnewIs ==
  ASSUME NEW r \in CallRecords, bans' \subseteq Bans
  PROVE  /\ Anew(r) \in CallRecords
         /\ Anew(r).op = r.op /\ Anew(r).on = r.on /\ Anew(r).stage = r.stage
         /\ Anew(r).todo = r.todo /\ Anew(r).got = r.got /\ Anew(r).ok = r.ok
         /\ Anew(r).fallback = r.fallback
         /\ Anew(r).kept = Kept(r.op, bans')
<1> DEFINE seen == Seen(r.op, unit', bans')
           kept == Kept(r.op, bans')
<1>1. /\ seen \in SUBSET ((Services \X BOOLEAN) \cup Bans)
      /\ kept \in SUBSET Bans
  BY SeenType
<1>2. Anew(r) = [r EXCEPT !.seen = seen, !.kept = kept]
  BY DEF Anew
<1> HIDE DEF seen, kept
<1>3. /\ Anew(r) \in CallRecords
      /\ Anew(r).op = r.op /\ Anew(r).on = r.on /\ Anew(r).stage = r.stage
      /\ Anew(r).todo = r.todo /\ Anew(r).got = r.got /\ Anew(r).ok = r.ok
      /\ Anew(r).fallback = r.fallback /\ Anew(r).kept = kept
  BY <1>1, <1>2 DEF CallRecords
<1> QED
  BY <1>3 DEF kept

\* What a call claims stays true as it notes more.
LEMMA NotingSound ==
  ASSUME NEW r, Sound(r), bans' \subseteq Bans
  PROVE  /\ Noting(r) \in CallRecords /\ Sound(Noting(r))
         /\ Noted(Noting(r), unit', bans')
<1> DEFINE t == Noting(r)
<1>1. /\ r \in CallRecords /\ t \in CallRecords
      /\ t.op = r.op /\ t.on = r.on /\ t.stage = r.stage /\ t.todo = r.todo
      /\ t.got = r.got /\ t.ok = r.ok /\ t.fallback = r.fallback
      /\ t.seen = r.seen \cup Seen(r.op, unit', bans')
      /\ t.kept = r.kept \cap Kept(r.op, bans')
  BY NotingIs DEF Sound
<1>2. r.op = None => t = NoCall
  <2> SUFFICES ASSUME r.op = None PROVE t = NoCall
    OBVIOUS
  <2>1. r = NoCall
    BY DEF Sound
  <2>2. t = [NoCall EXCEPT !.seen = {} \cup Seen(None, unit', bans'),
                           !.kept = {} \cap Kept(None, bans')]
    BY <2>1, NoCallIs DEF Noting
  <2>3. Seen(None, unit', bans') = {}
    BY Kinds DEF Seen
  <2>4. {} \cup Seen(None, unit', bans') = {} /\ {} \cap Kept(None, bans') = {}
    BY <2>3
  <2>5. t = [NoCall EXCEPT !.seen = {}, !.kept = {}]
    BY <2>2, <2>4
  <2> HIDE DEF t
  <2> QED
    BY <2>5 DEF NoCall
<1> HIDE DEF t
<1>3. t.seen \subseteq t.seen /\ r.seen \subseteq t.seen /\ t.kept \subseteq r.kept
      /\ Noted(t, unit', bans')
  BY <1>1 DEF Noted
<1>4. t.op = "status" => StatusSound(t)
  BY <1>1, <1>3 DEF Sound, StatusSound, Gathers
<1>5. t.op = "banned" => BannedSound(t)
  BY <1>1, <1>3 DEF Sound, BannedSound, Gathers
<1>6. t.op \in UnitActions => ActionSound(t)
  BY <1>1, <1>3 DEF Sound, ActionSound
<1>7. t.op \in Unbans => UnbanSound(t)
  BY <1>1, <1>3 DEF Sound, UnbanSound
<1>8. Sound(t)
  BY <1>1, <1>2, <1>4, <1>5, <1>6, <1>7 DEF Sound
<1> QED
  BY <1>1, <1>3, <1>8 DEF t

\* A step that makes c a sound call keeps all of them sound.
LEMMA BecomesSound ==
  ASSUME CallsInv, bans' \subseteq Bans, NEW c \in Calls, NEW r, Becomes(c, r), Sound(r)
  PROVE  CallsInv'
<1>1. ASSUME NEW d \in Calls
      PROVE  /\ call'[d] \in CallRecords /\ Sound(call'[d])
             /\ Noted(call'[d], unit', bans')
  <2> DEFINE q == IF d = c THEN r ELSE call[d]
  <2>1. Sound(q)
    BY DEF CallsInv
  <2>2. call'[d] = Noting(q)
    BY DEF Becomes
  <2> HIDE DEF q
  <2>3. /\ Noting(q) \in CallRecords /\ Sound(Noting(q)) /\ Noted(Noting(q), unit', bans')
    BY <2>1, NotingSound
  <2> QED
    BY <2>2, <2>3
<1>2. call' \in [Calls -> CallRecords]
  <2>1. call' = [d \in Calls |-> call'[d]]
    BY DEF Becomes
  <2> QED
    BY <1>1, <2>1
<1> QED
  BY <1>1, <1>2 DEF CallsInv

\* A call that is answered with an error, or lost, claims nothing.
LEMMA FailureSound ==
  ASSUME NEW r, Sound(r), r.op # None, bans' \subseteq Bans
  PROVE  Sound(Answer(r, FALSE)) /\ Sound(Anew(Answer(r, FALSE)))
<1> DEFINE t == Answer(r, FALSE)
<1>1. /\ t \in CallRecords
      /\ t.op = r.op /\ t.on = r.on /\ t.stage = "answered" /\ t.todo = r.todo
      /\ t.got = {} /\ t.ok = FALSE /\ t.fallback = r.fallback
  BY DEF Sound, CallRecords, Answer
<1> HIDE DEF t
<1>2. ASSUME NEW x \in CallRecords, x.op = r.op, x.stage = "answered", x.todo = r.todo,
             x.got = {}, x.ok = FALSE, x.fallback = r.fallback
      PROVE  Sound(x)
  <2>1. x.op = "status" => StatusSound(x)
    BY <1>2 DEF Sound, StatusSound, Gathers
  <2>2. x.op = "banned" => BannedSound(x)
    BY <1>2 DEF Sound, BannedSound, Gathers
  <2>3. x.op \in UnitActions => ActionSound(x)
    BY <1>2 DEF ActionSound
  <2>4. x.op \in Unbans => UnbanSound(x)
    BY <1>2 DEF Sound, UnbanSound
  <2> QED
    BY <1>2, <2>1, <2>2, <2>3, <2>4 DEF Sound
<1>3. Sound(t)
  BY <1>1, <1>2
<1>4. Sound(Anew(t))
  <2>1. /\ Anew(t) \in CallRecords
        /\ Anew(t).op = t.op /\ Anew(t).stage = t.stage /\ Anew(t).todo = t.todo
        /\ Anew(t).got = t.got /\ Anew(t).ok = t.ok /\ Anew(t).fallback = t.fallback
    BY <1>1, AnewIs
  <2> QED
    BY <1>1, <1>2, <2>1
<1> QED
  BY <1>3, <1>4 DEF t

-----------------------------------------------------------------------------
(* The page                                                                *)

\* A call that begins is sound: of the host it knows nothing yet.
LEMMA AskSound ==
  ASSUME IInv, NEW c \in Calls, NEW q \in Offered, Ask(c, q[1], q[2])
  PROVE  IInv'
<1> DEFINE op       == q[1]
           on       == q[2]
           todo     == IF op = "status" THEN Services ELSE IF op = "banned" THEN Jails ELSE {}
           fallback == IF op = "status" THEN {<<s, shownServices[s]>> : s \in DOMAIN shownServices}
                       ELSE IF op = "banned" THEN shownBans ELSE {}
           seen == Seen(op, unit, bans)
           kept == Kept(op, bans)
           r == [NoCall EXCEPT !.op = op, !.on = on, !.stage = "sent", !.todo = todo,
                               !.fallback = fallback, !.seen = seen, !.kept = kept]
<1>1. UNCHANGED <<unit, bans, shownServices, shownBans>>
  BY DEF Ask, host, page
<1>2. /\ op \in ServiceOps \cup BanOps
      /\ on \in Services \cup DOMAIN MockServices \cup Bans \cup {Nothing}
  BY PageAssumption DEF Offered, ServiceOps, UnitActions, BanOps, Unbans, IInv, PageInv, Bans
<1>3. call' = [call EXCEPT ![c] = r]
  BY Zenon DEF Ask
<1>4. /\ todo \in SUBSET (Services \cup Jails)
      /\ fallback \in SUBSET (((Services \cup DOMAIN MockServices) \X BOOLEAN) \cup Bans)
      /\ op = "status" => {p[1] : p \in fallback} = DOMAIN shownServices
      /\ op = "banned" => fallback \subseteq Bans
  <2>1. CASE op = "status"
    <3>1. fallback = {<<s, shownServices[s]>> : s \in DOMAIN shownServices}
      BY <2>1
    <3> HIDE DEF fallback
    <3>2. fallback \subseteq (Services \cup DOMAIN MockServices) \X BOOLEAN
      BY <3>1 DEF IInv, PageInv
    <3>3. \A s \in DOMAIN shownServices :
            <<s, shownServices[s]>> \in fallback /\ <<s, shownServices[s]>>[1] = s
      BY <3>1
    <3>4. \A p \in fallback : p[1] \in DOMAIN shownServices
      BY <3>1
    <3>5. \A s \in DOMAIN shownServices : \E p \in fallback : p[1] = s
      BY <3>3
    <3>6. {p[1] : p \in fallback} = DOMAIN shownServices
      BY <3>4, <3>5
    <3> QED
      BY <2>1, <3>2, <3>6
  <2>2. CASE op # "status"
    BY <2>2 DEF IInv, PageInv
  <2> QED
    BY <2>1, <2>2
<1>8. /\ seen \in SUBSET ((Services \X BOOLEAN) \cup Bans) /\ kept \in SUBSET Bans
  BY SeenType DEF IInv, HostInv
<1> HIDE DEF op, on, todo, fallback, seen, kept
<1>5. /\ r \in CallRecords
      /\ r.op = op /\ r.on = on /\ r.stage = "sent" /\ r.todo = todo /\ r.got = {}
      /\ r.ok = FALSE /\ r.fallback = fallback /\ r.seen = seen /\ r.kept = kept
  BY <1>2, <1>4, <1>8, NoCallIs, ZenonT(60) DEF CallRecords
<1> HIDE DEF r
<1>6. Sound(r) /\ Noted(r, unit, bans)
  <2>1. r.op = "status" => StatusSound(r)
    BY <1>4, <1>5 DEF StatusSound, Gathers, IInv, PageInv, todo
  <2>2. r.op = "banned" => BannedSound(r)
    <3>1. r.op = "banned" => r.todo = Jails
      BY <1>5 DEF todo
    <3> QED
      BY <1>4, <1>5, <1>8, <3>1 DEF BannedSound, Bans
  <2>3. r.op \in Unbans => r.todo = {}
    BY <1>5, Kinds DEF todo
  <2>4. Sound(r)
    BY <1>2, <1>5, <2>1, <2>2, <2>3, Kinds DEF Sound, ActionSound, UnbanSound
  <2> QED
    BY <1>5, <2>4 DEF Noted, seen, kept
<1>7. CallsInv'
  BY <1>1, <1>3, <1>5, <1>6 DEF IInv, CallsInv
<1> QED
  BY <1>1, <1>7 DEF IInv, HostInv, PageInv

\* A table has the rows of the pairs it is made of.
LEMMA TableRows ==
  ASSUME NEW S, NEW pairs
  PROVE  /\ {p[1] : p \in pairs} = S => DOMAIN Table(pairs) = S
         /\ Table(pairs) \in [{p[1] : p \in pairs} -> BOOLEAN]
  BY DEF Table

\* What the page takes up are rows for the services and bans of the jails.
LEMMA ApplySound ==
  ASSUME IInv, NEW c \in Calls, Apply(c)
  PROVE  IInv'
<1>1. UNCHANGED <<unit, bans>> /\ call' = [call EXCEPT ![c] = NoCall]
  BY DEF Apply, host
<1>2. call[c] \in CallRecords /\ Sound(call[c])
  BY DEF IInv, CallsInv
<1>3. CallsInv'
  BY <1>1, NoCallIs, NoCallSound DEF IInv, CallsInv
<1>4. PageInv'
  <2>1. CASE call[c].op = "status"
    <3>1. {p[1] : p \in Data(c)} \in {Services, DOMAIN MockServices}
      BY <1>2, <2>1 DEF Sound, StatusSound, Gathers, Data
    <3>2. shownServices' = Table(Data(c)) /\ shownBans' = shownBans
      BY <2>1 DEF Apply
    <3> QED
      BY <3>1, <3>2, TableRows DEF IInv, PageInv
  <2>2. CASE call[c].op = "banned"
    BY <1>2, <2>2 DEF Apply, Data, Sound, BannedSound, IInv, PageInv
  <2>3. CASE call[c].op = "restart"
    BY <2>3 DEF Apply, IInv, PageInv
  <2>4. CASE call[c].op \notin {"status", "banned", "restart"}
    BY <2>4 DEF Apply, IInv, PageInv
  <2> QED
    BY <2>1, <2>2, <2>3, <2>4
<1> QED
  BY <1>1, <1>3, <1>4 DEF IInv, HostInv

-----------------------------------------------------------------------------
(* The handlers                                                            *)

\* A call that is lost claims nothing.
LEMMA LoseSound ==
  ASSUME IInv, NEW c \in Calls, Lose(c)
  PROVE  IInv'
<1>1. /\ UNCHANGED <<unit, bans, shownServices, shownBans>>
      /\ Becomes(c, Answer(call[c], FALSE))
  BY DEF Lose, host, page
<1>2. Sound(call[c]) /\ call[c].op # None /\ bans' \subseteq Bans
  BY <1>1, NoCallIs DEF Lose, IInv, CallsInv, Sound, HostInv
<1>3. CallsInv'
  BY <1>1, <1>2, FailureSound, BecomesSound DEF IInv
<1> QED
  BY <1>1, <1>3 DEF IInv, HostInv, PageInv

\* systemctl, run or not, leaves each service in a state.
LEMMA CommandSound ==
  ASSUME IInv, NEW c \in Calls, Command(c)
  PROVE  IInv'
<1> DEFINE op == call[c].op
           s  == call[c].on
           r  == [call[c] EXCEPT !.stage = "query", !.todo = {s}]
<1>1. /\ op \in UnitActions /\ op # None /\ call[c].stage = "sent"
      /\ UNCHANGED <<bans, shownServices, shownBans>> /\ bans' \subseteq Bans
      /\ call[c] \in CallRecords /\ Sound(call[c])
  BY Kinds DEF Command, page, IInv, HostInv, CallsInv
<1>2. unit' \in [Services -> {"active", "inactive", "failed"}]
  <2>1. \A x \in Services : After(op, x) \in {"active", "inactive", "failed"}
    BY DEF After
  <2> QED
    BY <2>1 DEF Command, IInv, HostInv
<1>3. CallsInv'
  <2>1. CASE Becomes(c, Anew(Answer(call[c], FALSE)))
    BY <1>1, <2>1, FailureSound, BecomesSound DEF IInv
  <2>2. CASE Becomes(c, Anew(r)) /\ s \in Services
    <3>1. call[c].ok = FALSE
      BY <1>1 DEF Sound, CallRecords
    <3>2. /\ r \in CallRecords
          /\ r.op = op /\ r.on = s /\ r.stage = "query" /\ r.todo = {s} /\ r.ok = call[c].ok
      BY <1>1, <2>2 DEF CallRecords
    <3> HIDE DEF r
    <3>3. /\ Anew(r) \in CallRecords /\ Anew(r).op = op /\ Anew(r).on = s
          /\ Anew(r).stage = "query" /\ Anew(r).todo = {s} /\ Anew(r).ok = FALSE
      BY <1>1, <3>1, <3>2, AnewIs
    <3>4. Sound(Anew(r))
      BY <1>1, <2>2, <3>3, Kinds DEF Sound, ActionSound
    <3> QED
      BY <1>1, <2>2, <3>4, BecomesSound DEF IInv
  <2> QED
    BY <2>1, <2>2 DEF Command
<1> QED
  BY <1>1, <1>2, <1>3 DEF IInv, HostInv, PageInv

\* A service that was queried is known; the query after a command also tells
\* whether the command worked.
LEMMA QuerySound ==
  ASSUME IInv, NEW c \in Calls, NEW s \in Services, Query(c, s)
  PROVE  IInv'
<1> DEFINE q    == call[c]
           todo == q.todo \ {s}
           row  == <<s, unit[s] = "active">>
           got  == q.got \cup {row}
           stage == IF todo = {} THEN "answered" ELSE "query"
           ok   == todo = {} /\ (q.op = "status" \/ unit[s] = "active")
           r    == [q EXCEPT !.todo = todo, !.got = got, !.stage = stage, !.ok = ok]
<1>1. /\ UNCHANGED <<unit, bans, shownServices, shownBans>>
      /\ s \in q.todo
      /\ IF q.op = "status" THEN q.stage \in {"sent", "query"}
         ELSE q.op \in UnitActions /\ q.stage = "query"
      /\ Becomes(c, r)
  BY DEF Query, host, page
<1>2. q \in CallRecords /\ Sound(q) /\ Noted(q, unit, bans) /\ bans' \subseteq Bans
  BY <1>1 DEF IInv, CallsInv, HostInv
<1>3. /\ row \in Services \X BOOLEAN
      /\ row[1] = s /\ ok \in BOOLEAN /\ stage \in {"answered", "query"}
  OBVIOUS
<1>4. /\ r \in CallRecords
      /\ r.op = q.op /\ r.on = q.on /\ r.stage = stage /\ r.todo = todo /\ r.got = got
      /\ r.ok = ok /\ r.fallback = q.fallback /\ r.seen = q.seen /\ r.kept = q.kept
  <2> HIDE DEF row, ok, stage
  <2> QED
    BY <1>2, <1>3, ZenonT(60) DEF CallRecords
<1> HIDE DEF r
<1>7. row \in q.seen
  <2>1. q.op \in ServiceOps
    BY <1>1, Kinds
  <2>2. row \in Seen(q.op, unit, bans)
    BY <2>1 DEF Seen
  <2> QED
    BY <1>2, <2>2 DEF Noted
<1>5. CASE q.op = "status"
  <2>1. StatusSound(q) /\ Gathers(q)
    BY <1>1, <1>2, <1>5 DEF Sound, Gathers
  <2>2. {p[1] : p \in got} = Services \ todo
    <3> HIDE DEF row
    <3>1. {p[1] : p \in got} = {p[1] : p \in q.got} \cup {s}
      BY <1>3
    <3> QED
      BY <1>1, <2>1, <3>1 DEF StatusSound
  <2>3. got \subseteq q.seen
    <3> HIDE DEF row
    <3> QED
      BY <1>7, <2>1 DEF StatusSound
  <2>7. got \subseteq Services \X BOOLEAN
    <3> HIDE DEF row
    <3> QED
      BY <1>3, <2>1 DEF StatusSound
  <2>4. StatusSound(r)
    <3> HIDE DEF got, ok, stage
    <3> QED
      BY <1>1, <1>4, <2>1, <2>2, <2>3, <2>7 DEF StatusSound
  <2>5. r.ok => r.stage = "answered" /\ r.todo = {}
    BY <1>4
  <2>6. Sound(r)
    <3> HIDE DEF todo, got, ok, stage
    <3> QED
      BY <1>3, <1>4, <1>5, <2>4, <2>5, Kinds DEF Sound
  <2> QED
    BY <1>1, <1>2, <2>6, BecomesSound DEF IInv, HostInv, PageInv
<1>6. CASE q.op \in UnitActions
  <2>1. q.on \in Services /\ q.todo = {q.on}
    BY <1>1, <1>2, <1>6, Kinds DEF Sound, ActionSound
  <2>2. r.ok => r.stage = "answered" /\ r.todo = {}
    BY <1>4
  <2>3. q.op # "status" /\ q.op # "banned" /\ q.op \notin Unbans /\ q.op # None
    BY <1>6, Kinds
  <2>4. r.ok => <<q.on, TRUE>> \in q.seen
    <3>1. s = q.on
      BY <1>1, <2>1
    <3>2. r.ok => unit[s] = "active"
      BY <1>4, <2>3
    <3>3. unit[s] = "active" => row = <<s, TRUE>>
      OBVIOUS
    <3> QED
      BY <1>7, <3>1, <3>2, <3>3
  <2>5. r.stage = "answered"
    BY <1>1, <1>4, <2>1
  <2>6. Sound(r)
    <3> HIDE DEF todo, got, ok, stage
    <3> QED
      BY <1>1, <1>4, <1>6, <2>2, <2>3, <2>4, <2>5 DEF Sound, ActionSound
  <2> QED
    BY <1>1, <1>2, <2>6, BecomesSound DEF IInv, HostInv, PageInv
<1> QED
  BY <1>1, <1>5, <1>6

\* Of a jail that was read the bans are known; nothing is claimed of one that could not.
LEMMA ListJailSound ==
  ASSUME IInv, NEW c \in Calls, NEW j \in Jails, ListJail(c, j)
  PROVE  IInv'
<1> DEFINE q    == call[c]
           todo == q.todo \ {j}
           listed == {b \in bans : b[2] = j}
<1>1. /\ UNCHANGED <<unit, bans, shownServices, shownBans>>
      /\ q.op = "banned" /\ q.stage \in {"sent", "query"} /\ j \in q.todo
  BY DEF ListJail, host, page
<1>2. /\ q \in CallRecords /\ Sound(q) /\ BannedSound(q) /\ Gathers(q)
      /\ Noted(q, unit, bans) /\ bans \subseteq Bans
  BY <1>1 DEF IInv, CallsInv, Sound, Gathers, HostInv
<1>3. PICK readable \in BOOLEAN :
        Becomes(c, [q EXCEPT !.todo   = todo,
                             !.got    = IF readable THEN @ \cup listed ELSE @,
                             !.kept   = IF readable THEN @ ELSE {b \in @ : b[2] # j},
                             !.stage  = IF todo = {} THEN "answered" ELSE "query",
                             !.ok     = todo = {}])
  BY DEF ListJail
<1> DEFINE got    == IF readable THEN q.got \cup listed ELSE q.got
           kept   == IF readable THEN q.kept ELSE {b \in q.kept : b[2] # j}
           stage  == IF todo = {} THEN "answered" ELSE "query"
           ok     == todo = {}
           r == [q EXCEPT !.todo = todo, !.got = got, !.kept = kept, !.stage = stage, !.ok = ok]
<1>4. Becomes(c, r)
  BY <1>3
<1>5. /\ got \subseteq Bans /\ kept \in SUBSET Bans /\ ok \in BOOLEAN
      /\ stage \in {"answered", "query"} /\ todo \subseteq Jails
      /\ ok => stage = "answered" /\ todo = {}
  BY <1>2 DEF BannedSound, CallRecords
<1>6. /\ got \subseteq q.seen
      /\ \A b \in kept : b[2] \in todo \/ b \in got
  <2>1. bans \subseteq q.seen /\ q.kept \subseteq bans
    BY <1>1, <1>2, Kinds DEF Noted, Seen, Kept
  <2>2. q.got \subseteq q.seen /\ \A b \in q.kept : b[2] \in q.todo \/ b \in q.got
    BY <1>2 DEF BannedSound
  <2>3. CASE readable
    BY <2>1, <2>2, <2>3
  <2>4. CASE ~readable
    BY <2>1, <2>2, <2>4
  <2> QED
    BY <2>3, <2>4
<1> HIDE DEF todo, got, kept, stage, ok
<1>7. /\ r \in CallRecords
      /\ r.op = "banned" /\ r.stage = stage /\ r.todo = todo /\ r.got = got
      /\ r.ok = ok /\ r.fallback = q.fallback /\ r.seen = q.seen /\ r.kept = kept
  <2>1. todo \in SUBSET (Services \cup Jails) /\ got \in SUBSET ((Services \X BOOLEAN) \cup Bans)
    BY <1>5
  <2> QED
    BY <1>1, <1>2, <1>5, <2>1, ZenonT(30) DEF CallRecords
<1> HIDE DEF r
<1>8. BannedSound(r)
  BY <1>1, <1>2, <1>5, <1>6, <1>7 DEF BannedSound
<1>9. Sound(r)
  BY <1>5, <1>7, <1>8, Kinds DEF Sound
<1> QED
  BY <1>1, <1>2, <1>4, <1>9, BecomesSound DEF IInv, HostInv, PageInv

\* A ban that fail2ban-client lifted is lifted.
LEMMA LiftSound ==
  ASSUME IInv, NEW c \in Calls, Unban(c)
  PROVE  IInv'
<1> DEFINE q == call[c]
           r == Answer(q, TRUE)
<1>1. /\ UNCHANGED <<unit, shownServices, shownBans>> /\ bans' \subseteq Bans
      /\ q.op \in Unbans /\ q.stage = "sent" /\ q.op # None
      /\ q \in CallRecords /\ Sound(q) /\ q.todo = {}
  BY Kinds DEF Unban, page, IInv, HostInv, CallsInv, Sound, UnbanSound
<1>2. CallsInv'
  <2>1. CASE Becomes(c, Anew(Answer(q, FALSE)))
    BY <1>1, <2>1, FailureSound, BecomesSound DEF IInv
  <2>2. CASE Becomes(c, Anew(r)) /\ bans' = bans \ {q.on}
    <3>1. /\ r \in CallRecords /\ r.op = q.op /\ r.on = q.on /\ r.stage = "answered"
          /\ r.todo = {} /\ r.ok = TRUE
      BY <1>1 DEF CallRecords, Answer
    <3> HIDE DEF r, q
    <3>2. /\ Anew(r) \in CallRecords /\ Anew(r).op = q.op /\ Anew(r).on = q.on
          /\ Anew(r).stage = "answered" /\ Anew(r).todo = {} /\ Anew(r).ok = TRUE
          /\ Anew(r).kept = bans'
      BY <1>1, <3>1, AnewIs, Kinds DEF Kept
    <3>3. UnbanSound(Anew(r))
      BY <2>2, <3>2 DEF UnbanSound
    <3>4. Sound(Anew(r))
      BY <1>1, <3>2, <3>3, Kinds DEF Sound
    <3> QED
      BY <1>1, <2>2, <3>4, BecomesSound DEF IInv
  <2> QED
    BY <2>1, <2>2 DEF Unban
<1> QED
  BY <1>1, <1>2 DEF IInv, HostInv, PageInv

\* What the host does of itself, the calls note.
LEMMA HostSound ==
  ASSUME IInv,
         (\E s \in Services : UnitFails(s)) \/ (\E b \in Bans : BanChanges(b))
  PROVE  IInv'
<1>1. UNCHANGED <<shownServices, shownBans>> /\ HostInv'
  BY DEF UnitFails, BanChanges, page, IInv, HostInv
<1>2. call' = [c \in Calls |-> Noting(call[c])]
  BY DEF UnitFails, BanChanges
<1>3. ASSUME NEW c \in Calls
      PROVE  /\ call'[c] \in CallRecords /\ Sound(call'[c])
             /\ Noted(call'[c], unit', bans')
  <2>1. Sound(call[c]) /\ bans' \subseteq Bans
    BY <1>1 DEF IInv, CallsInv, HostInv
  <2>2. /\ Noting(call[c]) \in CallRecords /\ Sound(Noting(call[c]))
        /\ Noted(Noting(call[c]), unit', bans')
    BY <2>1, NotingSound
  <2> QED
    BY <1>2, <2>2
<1>4. call' \in [Calls -> CallRecords]
  <2>1. call' = [c \in Calls |-> call'[c]]
    BY <1>2
  <2> QED
    BY <1>3, <2>1
<1> QED
  BY <1>1, <1>3, <1>4 DEF IInv, PageInv, CallsInv

-----------------------------------------------------------------------------
(* What follows                                                            *)

LEMMA NextIInv == IInv /\ [Next]_vars => IInv'
<1> SUFFICES ASSUME IInv, [Next]_vars PROVE IInv'
  OBVIOUS
<1>1. ASSUME NEW c \in Calls, NEW q \in Offered, Ask(c, q[1], q[2]) PROVE IInv'
  BY <1>1, AskSound
<1>2. ASSUME NEW c \in Calls,
             Lose(c) \/ Apply(c) \/ Command(c) \/ Unban(c)
      PROVE  IInv'
  BY <1>2, LoseSound, ApplySound, CommandSound, LiftSound
<1>3. ASSUME NEW c \in Calls,
             (\E s \in Services : Query(c, s)) \/ (\E j \in Jails : ListJail(c, j))
      PROVE  IInv'
  BY <1>3, QuerySound, ListJailSound
<1>4. ASSUME (\E s \in Services : UnitFails(s)) \/ (\E b \in Bans : BanChanges(b))
      PROVE  IInv'
  BY <1>4, HostSound
<1>5. CASE UNCHANGED vars
  BY <1>5 DEF vars, IInv, HostInv, PageInv, CallsInv
<1> QED
  BY <1>1, <1>2, <1>3, <1>4, <1>5 DEF Next

LEMMA Invariance == Spec => []IInv
  BY InitIInv, NextIInv, PTL DEF Spec

\* The page and its handlers keep to their types: at any time the table of the
\* services has the rows of the managed ones, or those it was first shown with
\* (index.html, fetchServiceStatus, fetchBannedIPs).
THEOREM TypeCorrect == Spec => []TypeOK
<1>1. IInv => TypeOK
  <2> SUFFICES ASSUME IInv, NEW c \in Calls
               PROVE  /\ call[c].stage \in {"idle", "sent", "query", "answered"}
                      /\ call[c].stage = "query" => call[c].op \in ServiceOps \cup {"banned"}
                      /\ call[c].ok => call[c].stage = "answered" /\ call[c].todo = {}
    BY DEF IInv, HostInv, PageInv, TypeOK
  <2>1. call[c] \in CallRecords /\ Sound(call[c])
    BY DEF IInv, CallsInv
  <2> QED
    BY <2>1, NoCallIs DEF CallRecords, Sound, BanOps
<1> QED
  BY <1>1, Invariance, PTL

\* Only the page that takes up its answer ends a call.
LEMMA OnlyApplyTakes ==
  ASSUME IInv, Next, NEW c \in Calls, Taken(c)
  PROVE  Apply(c)
<1>1. call[c].stage = "answered" /\ call'[c] = NoCall
  BY DEF Taken
<1>2. call[c] # NoCall /\ call[c] \in CallRecords /\ NoCall.stage = "idle" /\ NoCall.op = None
  BY <1>1 DEF NoCall, IInv, CallsInv
<1>3. call[c].op # None
  BY <1>1, <1>2 DEF IInv, CallsInv, Sound
<1>13. Next => bans' \subseteq Bans
  BY <1>2 DEF Next, Ask, Lose, Apply, Command, Query, ListJail, Unban, UnitFails, BanChanges,
         host, page, IInv, HostInv
<1>4. ASSUME NEW d \in Calls, NEW r \in CallRecords, Becomes(d, r), d = c => r.stage # "idle"
      PROVE  FALSE
  <2>1. CASE d = c
    <3>1. call'[c] = Noting(r)
      BY <1>4, <2>1 DEF Becomes
    <3>2. Noting(r).stage = r.stage
      BY <1>13, NotingIs
    <3> QED
      BY <1>1, <1>2, <1>4, <2>1, <3>1, <3>2
  <2>2. CASE d # c
    <3>1. call'[c] = Noting(call[c])
      BY <1>4, <2>2 DEF Becomes
    <3>2. Noting(call[c]).op = call[c].op
      BY <1>2, <1>13, NotingIs
    <3> QED
      BY <1>1, <1>2, <1>3, <3>1, <3>2
  <2> QED
    BY <2>1, <2>2
<1>5. ASSUME NEW d \in Calls, NEW ok \in BOOLEAN,
             Becomes(d, Answer(call[d], ok)) \/ Becomes(d, Anew(Answer(call[d], ok)))
      PROVE  FALSE
  <2> DEFINE r == Answer(call[d], ok)
  <2>1. r \in CallRecords /\ r.stage = "answered"
    <3>1. call[d] \in CallRecords
      BY DEF IInv, CallsInv
    <3> QED
      BY <3>1 DEF CallRecords, Answer
  <2>2. Becomes(d, r) \/ Becomes(d, Anew(r))
    BY <1>5
  <2> HIDE DEF r
  <2>3. Anew(r) \in CallRecords /\ Anew(r).stage = "answered"
    BY <1>13, <2>1, AnewIs
  <2> QED
    BY <1>4, <2>1, <2>2, <2>3
<1>6. ASSUME NEW d \in Calls, NEW s \in Services, Query(d, s) PROVE FALSE
  <2> DEFINE todo  == call[d].todo \ {s}
             got   == call[d].got \cup {<<s, unit[s] = "active">>}
             stage == IF todo = {} THEN "answered" ELSE "query"
             ok    == todo = {} /\ (call[d].op = "status" \/ unit[s] = "active")
             r     == [call[d] EXCEPT !.todo = todo, !.got = got, !.stage = stage, !.ok = ok]
  <2>1. Becomes(d, r) /\ stage \in {"query", "answered"} /\ ok \in BOOLEAN
    BY <1>6 DEF Query
  <2>2. call[d] \in CallRecords
    BY DEF IInv, CallsInv
  <2>3. /\ todo \in SUBSET (Services \cup Jails)
        /\ got \in SUBSET ((Services \X BOOLEAN) \cup Bans)
    <3>1. <<s, unit[s] = "active">> \in Services \X BOOLEAN
      OBVIOUS
    <3> QED
      BY <2>2, <3>1 DEF CallRecords
  <2> HIDE DEF todo, got, stage, ok
  <2>4. r \in CallRecords /\ r.stage = stage
    BY <2>1, <2>2, <2>3 DEF CallRecords
  <2> QED
    BY <1>4, <2>1, <2>4
<1>7. ASSUME NEW d \in Calls, NEW j \in Jails, ListJail(d, j) PROVE FALSE
  <2> DEFINE todo  == call[d].todo \ {j}
             stage == IF todo = {} THEN "answered" ELSE "query"
             ok    == todo = {}
  <2>1. PICK readable \in BOOLEAN :
          Becomes(d, [call[d] EXCEPT
            !.todo   = todo,
            !.got    = IF readable THEN @ \cup {b \in bans : b[2] = j} ELSE @,
            !.kept   = IF readable THEN @ ELSE {b \in @ : b[2] # j},
            !.stage  = stage,
            !.ok     = ok])
    BY <1>7 DEF ListJail
  <2> DEFINE got == IF readable THEN call[d].got \cup {b \in bans : b[2] = j} ELSE call[d].got
             kept == IF readable THEN call[d].kept ELSE {b \in call[d].kept : b[2] # j}
             r == [call[d] EXCEPT !.todo = todo, !.got = got, !.kept = kept,
                                  !.stage = stage, !.ok = ok]
  <2>2. Becomes(d, r) /\ stage \in {"query", "answered"} /\ ok \in BOOLEAN
    BY <2>1
  <2>3. call[d] \in CallRecords /\ bans \subseteq Bans
    BY DEF IInv, CallsInv, HostInv
  <2>4. /\ todo \in SUBSET (Services \cup Jails)
        /\ got \in SUBSET ((Services \X BOOLEAN) \cup Bans)
        /\ kept \in SUBSET Bans
    BY <2>3 DEF CallRecords
  <2> HIDE DEF todo, got, stage, ok, kept
  <2>5. r \in CallRecords /\ r.stage = stage
    BY <2>2, <2>3, <2>4 DEF CallRecords
  <2> QED
    BY <1>4, <2>2, <2>5
<1>8. ASSUME NEW d \in Calls, Command(d) PROVE FALSE
  <2>1. CASE Becomes(d, Anew(Answer(call[d], FALSE)))
    BY <1>5, <2>1
  <2>2. ASSUME Becomes(d, Anew([call[d] EXCEPT !.stage = "query", !.todo = {call[d].on}])),
               call[d].on \in Services
        PROVE  FALSE
    <3> DEFINE r == [call[d] EXCEPT !.stage = "query", !.todo = {call[d].on}]
    <3>1. r \in CallRecords /\ r.stage = "query"
      <4>1. call[d] \in CallRecords
        BY DEF IInv, CallsInv
      <4> QED
        BY <2>2, <4>1 DEF CallRecords
    <3>2. Becomes(d, Anew(r))
      BY <2>2
    <3> HIDE DEF r
    <3>3. Anew(r) \in CallRecords /\ Anew(r).stage = "query"
      BY <1>13, <3>1, AnewIs
    <3> QED
      BY <1>4, <3>2, <3>3
  <2> QED
    BY <1>8, <2>1, <2>2 DEF Command
<1>9. ASSUME NEW d \in Calls, Lose(d) \/ Unban(d) PROVE FALSE
  BY <1>5, <1>9 DEF Lose, Unban
<1>10. ASSUME NEW d \in Calls, NEW q \in Offered, Ask(d, q[1], q[2]) PROVE FALSE
  BY <1>1, <1>2, <1>10 DEF Ask, IInv, CallsInv
<1>11. ASSUME (\E s \in Services : UnitFails(s)) \/ (\E b \in Bans : BanChanges(b))
       PROVE  FALSE
  <2>1. call'[c] = Noting(call[c])
    BY <1>11 DEF UnitFails, BanChanges
  <2>2. Noting(call[c]).op = call[c].op
    BY <1>2, <1>13, NotingIs
  <2> QED
    BY <1>1, <1>2, <1>3, <2>1, <2>2
<1>12. ASSUME NEW d \in Calls, Apply(d), d # c PROVE FALSE
  BY <1>1, <1>2, <1>12 DEF Apply, IInv, CallsInv
<1> QED
  BY <1>6, <1>7, <1>8, <1>9, <1>10, <1>11, <1>12 DEF Next

\* A table loaded from the server shows of each service what it was at some time
\* during the load, and each ban that stayed in force, in a jail that could be read,
\* and none that never was, whatever other requests ran in between (services.go,
\* Status; fail2ban.go, BannedIPs).
THEOREM TablesAreTrue == Spec => TablesTrue
<1> DEFINE True == \A c \in Calls :
       Taken(c) /\ call[c].ok =>
         /\ call[c].op = "status" =>
              /\ DOMAIN shownServices' = Services
              /\ \A s \in Services : <<s, shownServices'[s]>> \in call[c].seen
         /\ call[c].op = "banned" =>
              call[c].kept \subseteq shownBans' /\ shownBans' \subseteq call[c].seen
<1>1. IInv /\ [Next]_vars => [True]_vars
  <2> SUFFICES ASSUME IInv, Next, NEW c \in Calls, Taken(c), call[c].ok
               PROVE  /\ call[c].op = "status" =>
                           /\ DOMAIN shownServices' = Services
                           /\ \A s \in Services : <<s, shownServices'[s]>> \in call[c].seen
                      /\ call[c].op = "banned" =>
                           call[c].kept \subseteq shownBans' /\ shownBans' \subseteq call[c].seen
    OBVIOUS
  <2>1. Apply(c)
    BY OnlyApplyTakes
  <2>2. Sound(call[c]) /\ call[c] \in CallRecords /\ call[c].todo = {} /\ Gathers(call[c])
    BY DEF IInv, CallsInv, Sound, Gathers
  <2>3. ASSUME call[c].op = "status"
        PROVE  /\ DOMAIN shownServices' = Services
               /\ \A s \in Services : <<s, shownServices'[s]>> \in call[c].seen
    <3> DEFINE got == call[c].got
    <3>1. {p[1] : p \in got} = Services /\ got \subseteq call[c].seen
      BY <2>2, <2>3 DEF Sound, StatusSound
    <3>2. shownServices' = [s \in Services |-> <<s, TRUE>> \in got]
      BY <2>1, <2>3, <3>1 DEF Apply, Data, Table
    <3>3. ASSUME NEW s \in Services PROVE <<s, shownServices'[s]>> \in got
      <4>1. CASE <<s, TRUE>> \in got
        <5>1. shownServices'[s] = TRUE
          BY <3>2, <4>1
        <5> QED
          BY <4>1, <5>1
      <4>2. CASE <<s, TRUE>> \notin got
        <5>1. shownServices'[s] = FALSE
          <6>1. shownServices'[s] = (<<s, TRUE>> \in got)
            BY <3>2, Zenon
          <6>2. (<<s, TRUE>> \in got) = FALSE
            BY <4>2
          <6> QED
            BY <6>1, <6>2
        <5>2. PICK p \in got : p[1] = s
          BY <3>1
        <5>3. p = <<s, TRUE>> \/ p = <<s, FALSE>>
          <6>1. p \in Services \X BOOLEAN
            BY <2>2, <2>3, <5>2 DEF Sound, StatusSound
          <6>2. PICK x \in Services, b \in BOOLEAN : p = <<x, b>>
            BY <6>1
          <6> QED
            BY <5>2, <6>2
        <5> QED
          BY <4>2, <5>1, <5>2, <5>3
      <4> QED
        BY <4>1, <4>2
    <3> QED
      BY <3>1, <3>2, <3>3
  <2>4. ASSUME call[c].op = "banned"
        PROVE  call[c].kept \subseteq shownBans' /\ shownBans' \subseteq call[c].seen
    <3>1. call[c].kept \subseteq call[c].got /\ call[c].got \subseteq call[c].seen
      BY <2>2, <2>4 DEF Sound, BannedSound
    <3> QED
      BY <2>1, <2>4, <3>1 DEF Apply, Data
  <2> QED
    BY <2>3, <2>4
<1> QED
  BY <1>1, Invariance, PTL DEF Spec, TablesTrue

\* An action answered with 200 was done: the service has been active, the address
\* has not been banned, since its command ran (services.go, Restart, Start;
\* fail2ban.go, Unban).
THEOREM ActionsAreTrue == Spec => ActionsTrue
<1> DEFINE True == \A c \in Calls :
       Taken(c) /\ call[c].ok =>
         /\ call[c].op \in {"restart", "start"} => <<call[c].on, TRUE>> \in call[c].seen
         /\ call[c].op \in Unbans => call[c].on \notin call[c].kept
<1>1. IInv /\ [Next]_vars => [True]_vars
  <2> SUFFICES ASSUME IInv, NEW c \in Calls, call[c].ok
               PROVE  /\ call[c].op \in {"restart", "start"} =>
                           <<call[c].on, TRUE>> \in call[c].seen
                      /\ call[c].op \in Unbans => call[c].on \notin call[c].kept
    OBVIOUS
  <2> QED
    BY DEF IInv, CallsInv, Sound, ActionSound, UnbanSound, UnitActions
<1> QED
  BY <1>1, Invariance, PTL DEF Spec, ActionsTrue
=============================================================================
