--------------------------- MODULE CyclicTaskProofs ---------------------------
(***************************************************************************)
(* Theorems about three parts of CyclicTask: its deadlines (Deadline), for *)
(* every period and however late the thread is, the reset of its           *)
(* statistics (StatisticsReset), for any number of commands, and what it   *)
(* publishes about the bus (BusPublication), for any number of slaves and  *)
(* whatever they, the link and IgH do.                                     *)
(***************************************************************************)
EXTENDS Deadline, StatisticsReset, BusPublication, TLAPS

-----------------------------------------------------------------------------
(* Deadlines.                                                              *)

\* What advanceDeadline computes: a whole number of periods, at least one, that
\* takes a deadline that is not in the future past the finish, and not further
\* than needed.
LEMMA AdvanceFacts ==
    ASSUME NEW p \in Nat, NEW f \in Nat, f >= p
    PROVE  /\ Intervals(p, f) \in Nat \ {0}
           /\ AdvanceDeadline(p, f) \in Nat
           /\ AdvanceDeadline(p, f) > f
           /\ AdvanceDeadline(p, f) = p + Period \/ AdvanceDeadline(p, f) - Period <= f
<1> DEFINE e == f - p
           q == e \div Period
<1>0. Period \in Nat /\ Period > 0
  BY DeadlineAssumption
<1>1. e \in Nat
  OBVIOUS
<1>2. q \in Nat /\ q * Period <= e /\ e < (q + 1) * Period
  BY <1>0, <1>1, SMTT(30)
<1>3. CASE f >= p + Period
  <2>1. Intervals(p, f) = q + 1
    BY <1>3 DEF Intervals
  <2>2. AdvanceDeadline(p, f) = p + (q + 1) * Period
    BY <2>1 DEF AdvanceDeadline
  <2>3. (q + 1) * Period = q * Period + Period /\ q * Period \in Nat
    BY <1>0, <1>2
  <2> HIDE DEF q
  <2> QED
    BY <1>0, <1>2, <2>1, <2>2, <2>3
<1>4. CASE ~(f >= p + Period)
  <2>1. Intervals(p, f) = 1
    BY <1>4 DEF Intervals
  <2>2. AdvanceDeadline(p, f) = p + Period
    BY <2>1, <1>0 DEF AdvanceDeadline
  <2> QED
    BY <1>0, <1>4, <2>1, <2>2
<1> QED
  BY <1>3, <1>4

\* A whole number of periods after the origin.
Slot(t) == \E n \in Nat : t = origin + n * Period

\* A number of periods is never larger than the time they take.
LEMMA SlotOnGrid ==
    ASSUME NEW t \in Nat, origin \in Nat, Slot(t)
    PROVE  OnGrid(t)
<1>1. PICK n \in Nat : t = origin + n * Period
  BY DEF Slot
<1>2. Period \in Nat /\ Period >= 1
  BY DeadlineAssumption
<1>3. n <= n * Period
  BY <1>2, SMTT(30)
<1>4. n * Period \in Nat
  BY <1>2
<1>5. n \in 0..t
  BY <1>1, <1>3, <1>4
<1> QED
  BY <1>1, <1>5 DEF OnGrid

\* Multiples of the period add up.
LEMMA Distribute ==
    ASSUME NEW a \in Nat, NEW b \in Nat
    PROVE  /\ (a + b) * Period = a * Period + b * Period
           /\ a * Period \in Nat
           /\ 0 * Period = 0
  BY DeadlineAssumption, SMTT(30)

\* The inductive invariant: what the properties say, at every point of the
\* cycle, and that a cycle never runs before its deadline.
GridInv == pc # "begin" => Slot(deadline)
AppInv == appTime # -1 => Slot(appTime)
LedgerInv == pc # "begin" => deadline = first + (cycles + missed) * Period
WakeInv == pc = "work" => now >= deadline
BeginInv == pc = "begin" => /\ origin <= now /\ appTime = -1
                            /\ missed = 0 /\ cycles = 0

FutureDeadline == pc = "sleep" => deadline > now

IInv == /\ DeadlineTypeOK /\ FutureDeadline /\ GridInv /\ AppInv
        /\ LedgerInv /\ WakeInv /\ BeginInv

LEMMA InitIInv == DeadlineInit => IInv
  BY DEF DeadlineInit, IInv, DeadlineTypeOK, FutureDeadline, GridInv, AppInv, LedgerInv, WakeInv, BeginInv

LEMMA BeginIInv == IInv /\ Begin => IInv'
<1> SUFFICES ASSUME IInv, Begin PROVE IInv'
  OBVIOUS
<1> USE DEF IInv
<1>1. /\ Period \in Nat \ {0} /\ now \in Nat /\ origin \in Nat /\ origin <= now
      /\ missed = 0 /\ cycles = 0 /\ appTime = -1
  BY DeadlineAssumption DEF DeadlineTypeOK, BeginInv, Begin
<1>2. now' \in Nat /\ now' >= now
  BY <1>1 DEF Begin
<1>3. deadline' \in Nat /\ deadline' > now'
  <2>1. CASE dc
    <3>1. deadline' = AdvanceDeadline(origin, now')
      BY <2>1 DEF Begin
    <3>2. now' >= origin
      BY <1>1, <1>2
    <3>3. /\ AdvanceDeadline(origin, now') \in Nat
          /\ AdvanceDeadline(origin, now') > now'
      BY <3>2, <1>1, <1>2, AdvanceFacts
    <3> QED
      BY <3>1, <3>3
  <2>2. CASE ~dc
    <3>1. PICK t \in Nat : t = now'
      BY <1>2
    <3>2. deadline' = t + Period
      BY <2>2, <3>1 DEF Begin
    <3>3. t + Period \in Nat /\ t + Period > t
      BY <1>1
    <3> QED
      BY <3>1, <3>2, <3>3, Zenon
  <2> QED
    BY <2>1, <2>2
<1>4. origin' \in Nat /\ first' = deadline'
  BY <1>1, <1>3 DEF Begin
<1>5. DeadlineTypeOK'
  BY <1>1, <1>2, <1>3, <1>4 DEF DeadlineTypeOK, Begin
<1>6. Slot(deadline)'
  <2>1. CASE dc
    <3>1. Intervals(origin, now') \in Nat
      BY <1>1, <1>2, AdvanceFacts
    <3> QED
      BY <2>1, <3>1, <1>1 DEF Slot, Begin, AdvanceDeadline
  <2>2. CASE ~dc
    <3>1. origin' = deadline'
      BY <2>2 DEF Begin
    <3>2. deadline' = origin' + 0 * Period
      BY <3>1, <1>3, Distribute
    <3> QED
      BY <3>2 DEF Slot
  <2> QED
    BY <2>1, <2>2
<1>7. deadline' = first' + (cycles' + missed') * Period
  <2>1. cycles' + missed' = 0
    BY <1>1 DEF Begin
  <2> QED
    BY <1>3, <1>4, <2>1, Distribute
<1> QED
  BY <1>1, <1>3, <1>5, <1>6, <1>7
  DEF Begin, FutureDeadline, GridInv, AppInv, LedgerInv, WakeInv, BeginInv

LEMMA WakeIInv == IInv /\ Wake => IInv'
<1> SUFFICES ASSUME IInv, Wake PROVE IInv'
  OBVIOUS
<1> USE DEF IInv
<1>1. now' \in Nat /\ now' >= deadline /\ deadline' = deadline /\ appTime' = deadline
  BY DEF Wake, DeadlineTypeOK
<1>2. DeadlineTypeOK'
  BY <1>1 DEF Wake, DeadlineTypeOK
<1>3. Slot(deadline)' /\ Slot(appTime)'
  BY <1>1 DEF Wake, GridInv, Slot
<1> QED
  BY <1>1, <1>2, <1>3
  DEF Wake, FutureDeadline, GridInv, AppInv, LedgerInv, WakeInv, BeginInv

LEMMA FinishIInv == IInv /\ Finish => IInv'
<1> SUFFICES ASSUME IInv, Finish PROVE IInv'
  OBVIOUS
<1> USE DEF IInv
<1> DEFINE i == Intervals(deadline, now')
<1>1. /\ Period \in Nat \ {0} /\ deadline \in Nat /\ origin \in Nat /\ first \in Nat
      /\ missed \in Nat /\ cycles \in Nat
      /\ now' \in Nat /\ now' >= deadline
  BY DeadlineAssumption DEF DeadlineTypeOK, WakeInv, Finish
<1>2. i \in Nat \ {0} /\ deadline' \in Nat /\ deadline' > now'
  BY <1>1, AdvanceFacts DEF Finish
<1>3. deadline' = deadline + i * Period /\ missed' = missed + (i - 1)
  BY DEF Finish, AdvanceDeadline, Missed
<1> HIDE DEF i
<1>4. DeadlineTypeOK'
  BY <1>1, <1>2, <1>3 DEF DeadlineTypeOK, Finish
<1>5. Slot(deadline)'
  <2>1. PICK n \in Nat : deadline = origin + n * Period
    BY DEF Finish, GridInv, Slot
  <2>2. deadline' = origin + (n + i) * Period
    BY <1>1, <1>2, <1>3, <2>1, Distribute
  <2> QED
    BY <1>2, <2>2 DEF Slot, Finish
<1>6. Slot(appTime)' \/ appTime' = -1
  BY DEF Finish, AppInv, Slot
<1>7. deadline' = first' + (cycles' + missed') * Period
  <2>1. cycles' + missed' = (cycles + missed) + i
    BY <1>1, <1>2, <1>3 DEF Finish
  <2>2. cycles + missed \in Nat
    BY <1>1
  <2> QED
    BY <1>1, <1>2, <1>3, <2>1, <2>2, Distribute DEF Finish, LedgerInv
<1> QED
  BY <1>2, <1>4, <1>5, <1>6, <1>7
  DEF Finish, FutureDeadline, GridInv, AppInv, LedgerInv, WakeInv, BeginInv

LEMMA Invariance == DeadlineSpec => []IInv
<1>1. IInv /\ UNCHANGED deadlineVars => IInv'
  BY DEF IInv, DeadlineTypeOK, FutureDeadline, GridInv, AppInv, LedgerInv, WakeInv, BeginInv,
         Slot, deadlineVars
<1>2. IInv /\ [DeadlineNext]_deadlineVars => IInv'
  BY <1>1, BeginIInv, WakeIInv, FinishIInv DEF DeadlineNext
<1> QED
  BY <1>2, InitIInv, PTL DEF DeadlineSpec

\* Deadlines and times are naturals: nothing wraps below the phase origin.
THEOREM TypeCorrect == DeadlineSpec => []DeadlineTypeOK
<1>1. IInv => DeadlineTypeOK
  BY DEF IInv
<1> QED
  BY <1>1, Invariance, PTL

\* The phase given to IgH before activation is kept for ever: deadlines and
\* application times are whole numbers of periods after it.
THEOREM PhaseForEver == DeadlineSpec => []PhaseKept
<1>1. IInv => PhaseKept
  <2> SUFFICES ASSUME IInv PROVE PhaseKept
    OBVIOUS
  <2>1. origin \in Nat /\ deadline \in Nat /\ appTime \in Nat \union {-1}
    BY DEF IInv, DeadlineTypeOK
  <2> QED
    BY <2>1, SlotOnGrid DEF IInv, GridInv, AppInv, PhaseKept
<1> QED
  BY <1>1, Invariance, PTL

\* Cycles and missed_deadlines add up to the slots that have gone by.
THEOREM SlotsAccounted == DeadlineSpec => []LedgerBalances
<1>1. IInv => LedgerBalances
  BY DEF IInv, LedgerInv, LedgerBalances
<1> QED
  BY <1>1, Invariance, PTL

\* The slot the thread sleeps towards lies ahead, and none is given up that
\* could still be met.
THEOREM ShortestSkip == DeadlineSpec => NearestSlot
<1> DEFINE A == pc # "sleep" /\ pc' = "sleep" =>
                  /\ deadline' > now'
                  /\ pc = "work" =>
                        deadline' = deadline + Period \/ deadline' - Period <= now'
<1>1. IInv /\ IInv' /\ [DeadlineNext]_deadlineVars => [A]_deadlineVars
  <2> SUFFICES ASSUME IInv, IInv', DeadlineNext, pc # "sleep", pc' = "sleep"
               PROVE  /\ deadline' > now'
                      /\ pc = "work" =>
                            deadline' = deadline + Period \/ deadline' - Period <= now'
    OBVIOUS
  <2>1. deadline' > now'
    BY DEF IInv, FutureDeadline
  <2>2. ASSUME pc = "work"
        PROVE  deadline' = deadline + Period \/ deadline' - Period <= now'
    <3>1. Finish
      BY <2>2 DEF DeadlineNext, Begin, Wake
    <3>2. deadline \in Nat /\ now' \in Nat /\ now' >= deadline
      BY <2>2, <3>1 DEF IInv, DeadlineTypeOK, WakeInv, Finish
    <3> QED
      BY <3>1, <3>2, AdvanceFacts DEF Finish
  <2> QED
    BY <2>1, <2>2
<1> QED
  BY <1>1, Invariance, PTL DEF DeadlineSpec, NearestSlot

-----------------------------------------------------------------------------
(* The reset of the statistics.  Tickets and acknowledgements differ by at *)
(* most the one ticket in flight (Tickets), and the aggregates are fresh   *)
(* whenever they agree (Fresh): only the cyclic thread can make them agree *)
(* again, and it has zeroed everything by then.                            *)

AllFresh == stats # "old" /\ \A f \in Fields : bus[f] # "old"

Tickets ==
    /\ requested = acknowledged \/ requested = acknowledged + 1
    /\ cyc = "zero" => /\ requested = acknowledged + 1 /\ ticket = requested
                       /\ resets = requested
    /\ cyc # "zero" => resets = acknowledged

Calls ==
    /\ worker # "idle" => verdict = "None"
    /\ worker = "submit" => requested = acknowledged
    /\ worker \in {"poll", "tire"} => mine = requested
    /\ verdict = "RESULT_OK" => requested = acknowledged

Fresh ==
    /\ requested = acknowledged => AllFresh
    /\ cyc = "zero" => stats = "zero"

ResetInv == TypeOK /\ Tickets /\ Calls /\ Fresh

LEMMA ResetInit == Init => ResetInv
  <1> SUFFICES ASSUME Init PROVE ResetInv
    OBVIOUS
  <1>1. bus \in [Fields -> Ages] /\ calls \in Nat
    BY DEF Init, Ages
  <1>2. expired \in BOOLEAN /\ startupReady \in BOOLEAN /\ stop \in BOOLEAN
    BY DEF Init
  <1>3. TypeOK
    BY <1>1, <1>2 DEF Init, TypeOK, Ages
  <1>4. Tickets /\ Calls /\ Fresh
    BY DEF Init, Tickets, Calls, Fresh, AllFresh
  <1> QED
    BY <1>3, <1>4 DEF ResetInv

LEMMA ResetCyclic ==
  ASSUME ResetInv, Cyclic
  PROVE  ResetInv'
  <1> USE DEF ResetInv, TypeOK, Tickets, Calls, Fresh, AllFresh, Fields,
                              Ages, shared, workVars, CycleOver
  <1>1. CASE LeaveStartup
    BY <1>1 DEF LeaveStartup
  <1>2. CASE Sample
    BY <1>2 DEF Sample
  <1>3. CASE NothingPending
    BY <1>3 DEF NothingPending
  <1>4. CASE ResetTiming
    BY <1>4 DEF ResetTiming, Pending
  <1>5. CASE Acknowledge
    <2>1. acknowledged' = requested /\ requested' = requested /\ cyc' # "zero"
      BY <1>5 DEF Acknowledge
    <2>2. AllFresh'
      BY <1>5 DEF Acknowledge, Published
    <2>3. TypeOK'
      BY <1>5 DEF Acknowledge
    <2>4. Tickets' /\ Calls'
      BY <1>5, <2>1 DEF Acknowledge
    <2> QED
      BY <2>1, <2>2, <2>3, <2>4
  <1>6. ASSUME NEW f \in Fields, PublishZero(f) PROVE ResetInv'
    BY <1>6 DEF PublishZero
  <1> QED
    BY <1>1, <1>2, <1>3, <1>4, <1>5, <1>6 DEF Cyclic

LEMMA ResetWorker ==
  ASSUME ResetInv, Command \/ Worker \/ Expire \/ StopReporter
  PROVE  ResetInv'
  <1> USE DEF ResetInv, TypeOK, Tickets, Calls, Fresh, AllFresh, Fields,
                              Ages, shared, cycVars, workVars, Verdict
  <1>1. CASE Command
    <2>1. /\ worker' \in {"idle", "enter"} /\ expired' = FALSE
          /\ verdict' \in {"None", "UNSUPPORTED", "STATE_MISMATCH"}
          /\ worker' # "idle" => verdict' = "None"
      BY <1>1 DEF Command
    <2>2. calls' \in Nat
      BY <1>1 DEF Command
    <2>3. TypeOK'
      BY <1>1, <2>1, <2>2 DEF Command
    <2>4. Tickets' /\ Calls' /\ Fresh'
      BY <1>1, <2>1 DEF Command
    <2> QED
      BY <2>3, <2>4
  <1>2. CASE Enter
    BY <1>2 DEF Enter, Outstanding
  <1>3. CASE Submit
    <2>1. /\ requested' = acknowledged' + 1 /\ mine' = requested'
          /\ verdict' = "None" /\ worker' = "poll" /\ cyc # "zero"
      BY <1>3 DEF Submit
    <2>2. TypeOK'
      BY <1>3 DEF Submit, Aged
    <2>3. Tickets' /\ Calls' /\ Fresh'
      BY <1>3, <2>1 DEF Submit
    <2> QED
      BY <2>2, <2>3
  <1>4. CASE Poll
    BY <1>4 DEF Poll
  <1>5. CASE Tire
    BY <1>5 DEF Tire
  <1>6. CASE Expire
    BY <1>6 DEF Expire
  <1>7. CASE StopReporter
    BY <1>7 DEF StopReporter
  <1> QED
    BY <1>1, <1>2, <1>3, <1>4, <1>5, <1>6, <1>7 DEF Worker

LEMMA ResetInvariance == Spec => []ResetInv
  <1>1. ResetInv /\ [Next]_(vars) => ResetInv'
    <2> SUFFICES ASSUME ResetInv, [Next]_(vars) PROVE ResetInv'
      OBVIOUS
    <2>1. CASE UNCHANGED vars
      BY <2>1 DEF vars, shared, cycVars, workVars, ResetInv, TypeOK, Tickets, Calls,
                  Fresh, AllFresh
    <2> QED
      BY <2>1, ResetCyclic, ResetWorker DEF Next
  <1> QED
    BY <1>1, ResetInit, PTL DEF Spec

\* The types of both threads' locals and of the shared counters.
THEOREM ResetTypes == Spec => []TypeOK
  <1>1. ResetInv => TypeOK
    BY DEF ResetInv
  <1> QED
    BY <1>1, ResetInvariance, PTL

\* RESULT_OK is only returned over aggregates cleared after the command.
THEOREM OkFresh == Spec => []OkMeansFresh
  <1>1. ResetInv => OkMeansFresh
    BY DEF ResetInv, Calls, Fresh, AllFresh, OkMeansFresh
  <1> QED
    BY <1>1, ResetInvariance, PTL

\* Tickets, resets and acknowledgements stay in step: no command is applied
\* twice, none is acknowledged without having been applied.
THEOREM ResetOnce == Spec => []ResetOncePerTicket
  <1>1. ResetInv => ResetOncePerTicket
    BY DEF ResetInv, TypeOK, Tickets, ResetOncePerTicket
  <1> QED
    BY <1>1, ResetInvariance, PTL

-----------------------------------------------------------------------------
(* The publication: types, the honesty of the heartbeat and the            *)
(* consistency at rest.                                                    *)

AfterSummary == {"connected", "link", "bits", "heartbeat"}

\* The state of the watched slave was stored in this cycle.
Stored ==
    \/ stage \in AfterSummary \union {"summary"}
    \/ stage \in {"query", "al"} /\ k > Watched
    \/ stage = "valid" /\ k >= Watched

\* What the history holds of the present, and locals of this cycle of the history.
Recorded ==
    /\ (alNow => alSince) /\ (linkNow => linkSince)
    /\ (Shown => alNow) /\ (link => linkNow)
    /\ state.link => linkNow
    /\ k = Watched /\ answer.al = WatchedAl => alNow
    /\ stage \in {"wait", "state"} => state.link = FALSE /\ k = 1
    /\ stage \notin {"al", "valid"} => answer.al = Offline

\* Published values are covered by the history since the heartbeat, and those
\* stored in this cycle by the history since its wake.
Covered ==
    /\ record[Watched].al = WatchedAl => alSince
    /\ Stored /\ record[Watched].al = WatchedAl => alNow
    /\ current = WatchedAl => linkSince /\ alSince
    /\ stage \in AfterSummary /\ current = WatchedAl => linkNow /\ alNow
    /\ linkUp = 1 => linkSince
    /\ stage \in {"bits", "heartbeat"} /\ linkUp = 1 => linkNow

HonestInv == BusTypeOK /\ Recorded /\ Covered

\* Each field is the one of this cycle from its store on.
Agreed ==
    /\ stage \in AfterSummary /\ current # 0 =>
          Common(current)
    /\ stage \in {"link", "bits", "heartbeat"} => connected = state.responding
    /\ stage \in {"bits", "heartbeat"} => linkUp = IF state.link THEN 1 ELSE 0
    /\ stage = "heartbeat" => valid = state.master

-----------------------------------------------------------------------------

\* The summary is 0, or a state in which every slave was published.
LEMMA SummaryIs ==
    /\ Summary \in KnownStates \union {0}
    /\ Summary # 0 => Common(Summary)
<1>1. CASE \E x \in KnownStates : Common(x)
  <2> DEFINE c == CHOOSE x \in KnownStates : Common(x)
  <2>1. c \in KnownStates /\ Common(c)
    BY <1>1
  <2>2. Summary = c
    BY <1>1 DEF Summary
  <2> QED BY <2>1, <2>2
<1>2. CASE ~\E x \in KnownStates : Common(x)
  BY <1>2 DEF Summary
<1> QED BY <1>1, <1>2

LEMMA StoreType ==
    ASSUME record \in [Slaves -> [online : {0, 1}, al : AlStates \union {0}, valid : {0, 1, 3}]],
           k \in Slaves,
           NEW f \in {"online", "al", "valid"}, NEW v, NEW next, StoreRecord(f, v, next),
           f = "online" => v \in {0, 1},
           f = "al" => v \in AlStates \union {0},
           f = "valid" => v \in {0, 1, 3}
    PROVE  record' \in [Slaves -> [online : {0, 1}, al : AlStates \union {0}, valid : {0, 1, 3}]]
<1> DEFINE R == [online : {0, 1}, al : AlStates \union {0}, valid : {0, 1, 3}]
<1>1. PICK r \in R : r = record[k]
  OBVIOUS
<1>2. [r EXCEPT ![f] = v] \in R
  OBVIOUS
<1>3. record' = [record EXCEPT ![k] = [r EXCEPT ![f] = v]]
  BY <1>1 DEF StoreRecord
<1> QED BY <1>2, <1>3

LEMMA TypeInit == BusInit => BusTypeOK
<1> SUFFICES ASSUME BusInit PROVE BusTypeOK
  OBVIOUS
<1>1. 1 \in Slaves /\ Watched \in Slaves
  BY BusAssumption DEF Slaves
<1> QED
  BY <1>1 DEF BusInit, Shown, BusTypeOK, Stages, NoState, NoAnswer, NoRecord, Offline

\* Every variable keeps its type.
THEOREM BusTypes == BusSpec => []BusTypeOK
<1>1. BusTypeOK /\ [BusNext]_busVars => BusTypeOK'
  <2> SUFFICES ASSUME BusTypeOK, [BusNext]_busVars PROVE BusTypeOK'
    OBVIOUS
  <2>w. Watched \in Slaves /\ 1 \in Slaves
    BY BusAssumption DEF Slaves
  <2>1. CASE UNCHANGED busVars
    BY <2>1 DEF BusTypeOK, busVars, world, fields, lately, since
  <2>2. CASE WakeUp
    BY <2>2, <2>w DEF WakeUp, BusTypeOK, Stages, world, fields, lately, since, Shown, Offline
  <2>3. CASE ReadState
    <3>1. state' \in [master : BOOLEAN, link : BOOLEAN, responding : Nat]
      <4>1. link \in BOOLEAN
        BY DEF BusTypeOK
      <4>2. CASE state' = NoState
        BY <4>2 DEF NoState
      <4>3. ASSUME NEW n \in Counts,
                   state' = [master |-> TRUE, link |-> link, responding |-> n]
            PROVE  state' \in [master : BOOLEAN, link : BOOLEAN, responding : Nat]
        BY <4>1, <4>3, BusAssumption
      <4> QED BY <2>3, <4>2, <4>3 DEF ReadState
    <3> QED BY <2>3, <3>1 DEF ReadState, BusTypeOK, Stages, world, fields, lately, since
  <2>5. CASE StoreOnline
    <3>1. al[k] \in AlStates \union {Offline}
      BY DEF BusTypeOK
    <3>2. answer' \in [valid : BOOLEAN, al : AlStates \union {Offline}]
      <4>1. CASE answer' = NoAnswer
        BY <4>1 DEF NoAnswer
      <4>2. CASE answer' = [valid |-> TRUE, al |-> al[k]]
        BY <3>1, <4>2
      <4> QED BY <2>5, <4>1, <4>2 DEF StoreOnline
    <3>3. record' \in [Slaves -> [online : {0, 1}, al : AlStates \union {0}, valid : {0, 1, 3}]]
      BY <2>5, StoreType DEF StoreOnline, BusTypeOK
    <3> QED BY <2>5, <3>2, <3>3 DEF StoreOnline, StoreRecord, BusTypeOK, Stages, world, fields, lately,
                                    since
  <2>6. CASE StoreAl
    <3>1. record' \in [Slaves -> [online : {0, 1}, al : AlStates \union {0}, valid : {0, 1, 3}]]
      BY <2>6, StoreType DEF StoreAl, BusTypeOK, Online, Offline
    <3> QED BY <2>6, <3>1 DEF StoreAl, StoreRecord, BusTypeOK, Stages, world, fields, lately, since
  <2>7. CASE StoreValid
    <3>1. record' \in [Slaves -> [online : {0, 1}, al : AlStates \union {0}, valid : {0, 1, 3}]]
      BY <2>7, StoreType DEF StoreValid, BusTypeOK
    <3>2. k' \in Slaves
      BY <2>7, BusAssumption DEF StoreValid, BusTypeOK, LastSlave, Slaves
    <3> QED BY <2>7, <3>1, <3>2 DEF StoreValid, StoreRecord, BusTypeOK, Stages, world, fields, lately,
                                    since, NoAnswer, Offline
  <2>8. CASE StoreSummary
    BY <2>8, SummaryIs DEF StoreSummary, BusTypeOK, Stages, world, lately, since
  <2>9. CASE StoreConnected
    BY <2>9 DEF StoreConnected, BusTypeOK, Stages, world, lately, since
  <2>10. CASE StoreLink
    BY <2>10 DEF StoreLink, BusTypeOK, Stages, world, lately, since
  <2>11. CASE StoreBits
    BY <2>11 DEF StoreBits, BusTypeOK, Stages, world, lately, since
  <2>12. CASE StoreHeartbeat
    BY <2>12, <2>w DEF StoreHeartbeat, BusTypeOK, Stages, world, fields, lately, NoState
  <2>13. CASE Return
    BY <2>13 DEF Return, BusTypeOK, Stages, world, fields, lately, since
  <2>14. ASSUME NEW s \in Slaves, SlaveMoves(s) PROVE BusTypeOK'
    <3>1. al' \in [Slaves -> AlStates \union {Offline}]
      BY <2>14 DEF SlaveMoves, BusTypeOK
    <3>2. alNow' \in BOOLEAN /\ alSince' \in BOOLEAN
      BY <2>14 DEF SlaveMoves
    <3> QED BY <2>14, <3>1, <3>2 DEF SlaveMoves, BusTypeOK, fields
  <2>15. CASE LinkMoves
    BY <2>15 DEF LinkMoves, BusTypeOK, fields
  <2> QED
    BY <2>1, <2>2, <2>3, <2>5, <2>6, <2>7, <2>8, <2>9, <2>10, <2>11, <2>12, <2>13,
       <2>14, <2>15 DEF BusNext, Cycle, Bus
<1> QED BY <1>1, TypeInit, PTL DEF BusSpec

-----------------------------------------------------------------------------

LEMMA HonestInit == BusInit => HonestInv
<1> SUFFICES ASSUME BusInit PROVE HonestInv
  OBVIOUS
<1>1. BusTypeOK
  BY TypeInit
<1>2. Recorded
  BY BusAssumption DEF BusInit, Recorded, NoState, NoAnswer, Shown, Offline
<1>3. Covered
  BY BusAssumption DEF BusInit, Covered, Stored, AfterSummary, NoRecord, Shown, Offline, Slaves
<1> QED BY <1>1, <1>2, <1>3 DEF HonestInv

\* A slave that moves, or the link, only adds to the history.
LEMMA HonestBus == HonestInv /\ BusTypeOK' /\ Bus => HonestInv'
<1> SUFFICES ASSUME HonestInv, BusTypeOK', Bus PROVE HonestInv'
  OBVIOUS
<1> USE DEF HonestInv
<1>1. ASSUME NEW s \in Slaves, SlaveMoves(s) PROVE Recorded' /\ Covered'
  <2>1. /\ alNow' = (alNow \/ Shown') /\ alSince' = (alSince \/ Shown')
        /\ UNCHANGED <<link, stage, k, state, answer, record, current, linkUp, linkNow, linkSince>>
    BY <1>1 DEF SlaveMoves, fields
  <2>2. Recorded'
    BY <2>1 DEF Recorded
  <2>3. Covered'
    BY <2>1 DEF Covered, Stored, AfterSummary
  <2> QED BY <2>2, <2>3
<1>2. CASE LinkMoves
  <2>1. /\ link' => linkNow'
        /\ (linkNow => linkNow') /\ (linkSince => linkSince') /\ (linkNow' => linkSince')
    BY <1>2 DEF LinkMoves, Recorded
  <2>2. UNCHANGED <<al, stage, k, state, answer, record, current, linkUp, alNow, alSince>>
    BY <1>2 DEF LinkMoves, fields
  <2>3. Recorded'
    BY <2>1, <2>2 DEF Recorded, Shown
  <2>4. Covered'
    BY <2>1, <2>2 DEF Covered, Stored, AfterSummary, Shown
  <2> QED BY <2>3, <2>4
<1> QED BY <1>1, <1>2 DEF Bus

\* Storing into the record of slave k.
LEMMA StoreOther ==
    ASSUME BusTypeOK, NEW f \in {"online", "al", "valid"}, NEW v, NEW next, StoreRecord(f, v, next)
    PROVE  /\ k # Watched \/ f # "al" => record'[Watched].al = record[Watched].al
           /\ k = Watched /\ f = "al" => record'[Watched].al = v
<1>1. Watched \in Slaves /\ k \in Slaves
  BY BusAssumption DEF Slaves, BusTypeOK
<1>2. PICK r \in [online : {0, 1}, al : AlStates \union {0}, valid : {0, 1, 3}] : r = record[k]
  BY <1>1 DEF BusTypeOK
<1>3. record' = [record EXCEPT ![k] = [r EXCEPT ![f] = v]]
  BY <1>2 DEF StoreRecord
<1>4. record'[k] = [r EXCEPT ![f] = v] /\ (k # Watched => record'[Watched] = record[Watched])
  BY <1>1, <1>3 DEF BusTypeOK
<1>5. f # "al" => [r EXCEPT ![f] = v].al = r.al
  BY <1>2
<1>6. f = "al" => [r EXCEPT ![f] = v].al = v
  BY <1>2
<1> QED BY <1>2, <1>4, <1>5, <1>6

LEMMA HonestCycle == HonestInv /\ BusTypeOK' /\ Cycle => HonestInv'
<1> SUFFICES ASSUME HonestInv, BusTypeOK', Cycle PROVE HonestInv'
  OBVIOUS
<1> USE DEF HonestInv
<1>w. Watched \in Slaves /\ k \in Nat /\ Watched \in Nat \ {0} /\ k' \in Nat
  BY BusAssumption DEF Slaves, BusTypeOK
<1>1. CASE WakeUp
  <2>1. Recorded'
    BY <1>1, BusAssumption DEF WakeUp, Recorded, Shown, Offline, world, since
  <2>2. Covered'
    BY <1>1, <1>w DEF WakeUp, Covered, Stored, AfterSummary, Shown, fields, since
  <2> QED BY <2>1, <2>2
<1>2. CASE ReadState
  <2>0. state'.link => link
    BY <1>2 DEF ReadState, NoState
  <2>1. Recorded'
    BY <1>2, <2>0 DEF ReadState, Recorded, Shown, Offline, world, lately, since
  <2>2. Covered'
    BY <1>2, <1>w DEF ReadState, Recorded, Covered, Stored, AfterSummary, Shown, fields, lately, since
  <2> QED BY <2>1, <2>2
<1>4. CASE StoreOnline
  <2>0. record'[Watched].al = record[Watched].al
    BY <1>4, StoreOther DEF StoreOnline
  <2>1. k = Watched /\ answer'.al = WatchedAl => alNow
    BY <1>4, BusAssumption DEF StoreOnline, NoAnswer, Recorded, Shown, Offline
  <2>2. Recorded'
    BY <1>4, <2>1 DEF StoreOnline, StoreRecord, Recorded, Shown, world, lately, since
  <2>3. Covered'
    BY <1>4, <2>0, <1>w DEF StoreOnline, StoreRecord, Covered, Stored, AfterSummary, fields, lately, since
  <2> QED BY <2>2, <2>3
<1>5. CASE StoreAl
  <2>0. /\ k # Watched => record'[Watched].al = record[Watched].al
        /\ k = Watched => record'[Watched].al = IF Online THEN answer.al ELSE 0
    BY <1>5, StoreOther DEF StoreAl
  <2>1. k = Watched /\ record'[Watched].al = WatchedAl => alNow
    BY <2>0, BusAssumption DEF Recorded
  <2>2. Recorded'
    BY <1>5 DEF StoreAl, StoreRecord, Recorded, Shown, world, lately, since
  <2>3. alNow' = alNow /\ alSince' = alSince /\ stage = "al" /\ stage' = "valid" /\ k' = k
        /\ UNCHANGED <<current, linkUp, linkNow, linkSince>>
    BY <1>5 DEF StoreAl, StoreRecord, fields, lately, since
  <2>4. record'[Watched].al = WatchedAl => alSince
    BY <2>0, <2>1 DEF Covered, Recorded
  <2>5. Stored' /\ record'[Watched].al = WatchedAl => alNow
    <3>1. CASE k = Watched
      BY <3>1, <2>1
    <3>2. CASE k # Watched
      BY <3>2, <2>0, <2>3, <1>w DEF Covered, Stored, AfterSummary
    <3> QED BY <3>1, <3>2
  <2>6. Covered'
    BY <2>3, <2>4, <2>5 DEF Covered, AfterSummary
  <2> QED BY <2>2, <2>6
<1>6. CASE StoreValid
  <2>0. record'[Watched].al = record[Watched].al
    BY <1>6, StoreOther DEF StoreValid
  <2>1. Recorded'
    BY <1>6, BusAssumption DEF StoreValid, StoreRecord, Recorded, NoAnswer, Shown, Offline, world, lately, since
  <2>2. Stored' => Stored
    BY <1>6, <1>w DEF StoreValid, StoreRecord, LastSlave, Stored, AfterSummary, Slaves
  <2>3. Covered'
    BY <1>6, <2>0, <2>2 DEF StoreValid, StoreRecord, Covered, AfterSummary, fields, lately, since
  <2> QED BY <2>1, <2>3
<1>7. CASE StoreSummary
  <2>0. Summary = WatchedAl => linkNow /\ alNow
    <3> SUFFICES ASSUME Summary = WatchedAl PROVE linkNow /\ alNow
      OBVIOUS
    <3>1. Common(Summary)
      BY SummaryIs, BusAssumption
    <3>2. record[Watched].al = WatchedAl /\ state.link
      BY <3>1, <1>w DEF Common
    <3>3. alNow
      BY <1>7, <3>2 DEF Covered, Stored, StoreSummary
    <3> QED BY <3>2, <3>3 DEF Recorded
  <2>1. Recorded'
    BY <1>7 DEF StoreSummary, Recorded, Shown, world, lately, since
  <2>2. Covered'
    BY <1>7, <2>0 DEF StoreSummary, Covered, Recorded, Stored, AfterSummary, lately, since
  <2> QED BY <2>1, <2>2
<1>8. CASE StoreConnected
  <2>1. Recorded'
    BY <1>8 DEF StoreConnected, Recorded, Shown, world, lately, since
  <2>2. Covered'
    BY <1>8 DEF StoreConnected, Covered, Stored, AfterSummary, lately, since
  <2> QED BY <2>1, <2>2
<1>9. CASE StoreLink
  <2>1. Recorded'
    BY <1>9 DEF StoreLink, Recorded, Shown, world, lately, since
  <2>2. Covered'
    BY <1>9 DEF StoreLink, Covered, Recorded, Stored, AfterSummary, lately, since
  <2> QED BY <2>1, <2>2
<1>10. CASE StoreBits
  <2>1. Recorded'
    BY <1>10 DEF StoreBits, Recorded, Shown, world, lately, since
  <2>2. Covered'
    BY <1>10 DEF StoreBits, Covered, Stored, AfterSummary, lately, since
  <2> QED BY <2>1, <2>2
<1>11. CASE StoreHeartbeat
  <2>1. Recorded'
    <3>1. answer'.al = Offline
      BY <1>11 DEF StoreHeartbeat, Recorded
    <3> QED BY <1>11, <3>1, BusAssumption DEF StoreHeartbeat, Offline, Recorded, NoState, Shown, world, lately
  <2>2. Covered'
    BY <1>11, <1>w DEF StoreHeartbeat, Covered, Stored, AfterSummary, fields, lately
  <2> QED BY <2>1, <2>2
<1> QED
  BY <1>1, <1>2, <1>4, <1>5, <1>6, <1>7, <1>8, <1>9, <1>10, <1>11 DEF Cycle

\* The heartbeat dates everything an App finds with it.
THEOREM HeartbeatDates == BusSpec => []HeartbeatHonest
<1>1. HonestInv /\ BusTypeOK' /\ [BusNext]_busVars => HonestInv'
  <2> SUFFICES ASSUME HonestInv, BusTypeOK', [BusNext]_busVars PROVE HonestInv'
    OBVIOUS
  <2>1. CASE UNCHANGED busVars
    BY <2>1 DEF HonestInv, Recorded, Covered, Stored, Shown, busVars, world, fields, lately, since
  <2>2. CASE Return
    BY <2>2 DEF Return, HonestInv, Recorded, Covered, Stored, AfterSummary, Shown, world, fields,
                lately, since
  <2> QED BY <2>1, <2>2, HonestBus, HonestCycle DEF BusNext
<1>2. HonestInv => HeartbeatHonest
  BY DEF HonestInv, Covered, HeartbeatHonest
<1> QED BY <1>1, <1>2, HonestInit, BusTypes, PTL DEF BusSpec

-----------------------------------------------------------------------------

\* Between two publications current_state agrees with what it summarises.
THEOREM RestAgrees == BusSpec => []RestConsistent
<1> DEFINE Inv == Agreed /\ RestConsistent
<1>1. BusInit => Inv
  BY DEF BusInit, Agreed, RestConsistent, AfterSummary
<1>2. Inv /\ BusTypeOK /\ [BusNext]_busVars => Inv'
  <2> SUFFICES ASSUME Agreed, RestConsistent, BusTypeOK, [BusNext]_busVars PROVE Inv'
    OBVIOUS
  <2> USE DEF Agreed, RestConsistent, AfterSummary, Common
  <2>1. CASE UNCHANGED busVars
    BY <2>1 DEF busVars, fields
  <2>2. CASE WakeUp \/ ReadState \/ Return
    BY <2>2 DEF WakeUp, ReadState, Return
  <2>3. CASE StoreOnline \/ StoreAl \/ StoreValid
    BY <2>3 DEF StoreOnline, StoreAl, StoreValid, StoreRecord
  <2>4. CASE StoreSummary
    BY <2>4, SummaryIs DEF StoreSummary
  <2>5. CASE StoreConnected
    BY <2>5 DEF StoreConnected
  <2>6. CASE StoreLink
    BY <2>6 DEF StoreLink
  <2>7. CASE StoreBits
    BY <2>7 DEF StoreBits
  <2>8. CASE StoreHeartbeat
    BY <2>8 DEF StoreHeartbeat, fields
  <2>9. CASE Bus
    BY <2>9 DEF Bus, SlaveMoves, LinkMoves, fields
  <2> QED BY <2>1, <2>2, <2>3, <2>4, <2>5, <2>6, <2>7, <2>8, <2>9 DEF BusNext, Cycle
<1> QED BY <1>1, <1>2, BusTypes, PTL DEF BusSpec
=============================================================================
