-------------------------- MODULE StartupGateProofs --------------------------
(***************************************************************************)
(* Proofs about StartupGate for every number of slaves and checks and      *)
(* every budget.  The inductive invariant has one named part per argument: *)
(*   Trust  - what was compared is still true of the devices, because a    *)
(*            slave cannot be reconfigured without a poll seeing it gone;  *)
(*   Tally  - the counters of the code account for the healthy polls;      *)
(*   Reads  - the request in flight belongs to the check being read;       *)
(*   Shut   - before the gate the outputs are those left by activation;    *)
(*   Budget - outside a check the budget is not used up.                   *)
(***************************************************************************)
EXTENDS StartupGate, TLAPS

InStartup == pc \in StartupPcs

Progress ==
    /\ InStartup => result # "Failed"
    /\ result = "Pending" => cursor < NChecks
    /\ result = "Complete" => cursor = NChecks
    /\ InStartup /\ stable > 0 => result = "Complete"
    /\ pc = "gate" => stop \/ stable >= StablePolls
    /\ cursor > 0 => started

Trust ==
    /\ InStartup /\ healthy => op \union unseen = Slaves
    /\ InStartup /\ started => healthy
    /\ InStartup => \A c \in 1..cursor : device[c] = "Match"
    /\ InStartup /\ busy /\ Answer.state = "Success" /\ Answer.value = "Match"
         => device[cursor + 1] = "Match"

Reads ==
    /\ busy => started /\ cursor < NChecks /\ Answer.check = cursor + 1
    /\ \A s \in Slaves : request[s].state # "Unused" => started
    /\ \A s \in Slaves : request[s].state = "Busy" => busy /\ s = SlaveOf[cursor + 1]

Tally ==
    /\ ~started => initialHealthy = streak
    /\ InStartup /\ started =>
         streak >= (StablePolls - 1) + 2 * cursor + stable
                   + (IF busy THEN 1 ELSE 0) + (IF pc = "check" THEN 1 ELSE 0)

Shut ==
    /\ startupReady => ~InStartup
    /\ pc \in RunPcs => startupReady
    /\ ~startupReady => domainOut = "initial" /\ wire = "initial"

Budget ==
    /\ InStartup => now <= OpTimeout + MaxLate
    /\ pc \in {"sleep", "send", "gate"} => now < OpTimeout

IInv == TypeOK /\ Progress /\ Trust /\ Reads /\ Tally /\ Shut /\ Budget

-----------------------------------------------------------------------------

LEMMA InitIInv == Init => IInv
  <1> SUFFICES ASSUME Init PROVE IInv
    OBVIOUS
  <1> USE StartupAssumption DEF Init, Checks, StartupPcs, RunPcs, InStartup,
                                StablePolls
  <1>1. request \in [Slaves -> Requests]
    <2>1. NoRequest \in Requests
      BY DEF NoRequest, Requests
    <2> QED
      BY <2>1
  <1>2. TypeOK
    <2>1. /\ pc \in StartupPcs /\ rc = "None" /\ failure \in Failures
          /\ result = "Pending" /\ domainOut = "initial" /\ wire = "initial"
          /\ op \subseteq Slaves /\ unseen \subseteq Slaves
          /\ device \in [Checks -> {"Match", "Differ"}]
      BY DEF Failures
    <2>2. /\ cursor \in 0..NChecks /\ now \in Nat /\ reqDeadline \in Nat
          /\ initialHealthy \in Nat /\ stable \in Nat /\ streak \in Nat
      OBVIOUS
    <2>3. /\ healthy \in BOOLEAN /\ started \in BOOLEAN /\ busy \in BOOLEAN
          /\ startupReady \in BOOLEAN /\ stop \in BOOLEAN /\ busOk \in BOOLEAN
      OBVIOUS
    <2> QED
      BY <1>1, <2>1, <2>2, <2>3 DEF TypeOK
  <1>3. Progress /\ Tally /\ Shut /\ Budget
    BY DEF Progress, Tally, Shut, Budget
  <1>4. Trust /\ Reads
    BY DEF Trust, Reads, NoRequest
  <1> QED
    BY <1>2, <1>3, <1>4 DEF IInv

\* The startup loop, one step per action; the three that move the verification
\* or open the gate are split by the part of the invariant they disturb.
LEMMA StartupIInv ==
  ASSUME IInv,
         Sleep \/ Poll \/ PollFails \/ ClockFails \/ TimedOut \/ Observe
           \/ StartRead \/ ReadFails \/ AwaitRead \/ AcceptRead \/ Send \/ Gate
  PROVE  IInv'
  <1> USE StartupAssumption
      DEF IInv, TypeOK, Progress, Trust, Reads, Tally, Shut, Budget,
          InStartup, StartupPcs, RunPcs, StablePolls, Checks,
          counters, verification, outputs, bus, Goto, Return, Fail
  <1>1. CASE Sleep
    BY <1>1 DEF Sleep, StopSeen, Answer
  <1>2. CASE Poll
    BY <1>2 DEF Poll, BusHealthy, LossAborts, Answer, Failures
  <1>3. CASE PollFails
    BY <1>3 DEF PollFails, Answer, Failures
  <1>4. CASE ClockFails
    BY <1>4 DEF ClockFails, Answer
  <1>5. CASE TimedOut
    BY <1>5 DEF TimedOut, Expired, Answer, Failures
  <1>6. CASE Observe
    BY <1>6 DEF Observe, Expired, MayStep, Stable, Answer
  <1>7. CASE StartRead
    <2>1. /\ cursor + 1 \in Checks /\ cursor < NChecks
          /\ SlaveOf[cursor + 1] \in Slaves
          /\ result = "Pending" /\ stable' = 0
      BY <1>7 DEF StartRead, MayStep, Stable
    <2>2. request' \in [Slaves -> Requests]
      <3>1. [state |-> "Busy", check |-> cursor + 1, value |-> "None"] \in Requests
        BY <2>1 DEF Requests
      <3> QED
        BY <1>7, <2>1, <3>1 DEF StartRead
    <2>3. /\ result' \in {"Pending", "Failed"} /\ failure' \in Failures
          /\ busy' \in BOOLEAN
      BY <1>7, <2>1 DEF StartRead, Failures
    <2>8. reqDeadline' \in Nat
      BY <1>7 DEF StartRead
    <2>3a. TypeOK'
      BY <1>7, <2>1, <2>2, <2>3, <2>8 DEF StartRead
    <2>4. Reads'
      BY <1>7, <2>1 DEF StartRead, Answer
    <2>5. Trust'
      BY <1>7, <2>1 DEF StartRead, MayStep, Answer
    <2>6. Tally'
      BY <1>7, <2>1 DEF StartRead, MayStep
    <2>7. Progress' /\ Shut' /\ Budget'
      BY <1>7, <2>1 DEF StartRead, Expired
    <2> QED
      BY <2>3a, <2>4, <2>5, <2>6, <2>7 DEF IInv
  <1>8. CASE ReadFails
    BY <1>8 DEF ReadFails, MayStep, Stable, Answer, Failures
  <1>9. CASE AwaitRead
    BY <1>9 DEF AwaitRead, Expired, MayStep, Stable, Answer
  <1>10. CASE AcceptRead
    <2>1. /\ cursor + 1 \in Checks /\ cursor < NChecks
          /\ device[cursor + 1] = "Match" /\ device' = device
          /\ started /\ stable' = 0 /\ cursor' = cursor + 1 /\ busy' = FALSE
      BY <1>10 DEF AcceptRead, MayStep, Stable
    <2>2. TypeOK'
      <3>1. pc' = "send" /\ rc' = rc /\ result' \in {"Pending", "Complete"}
        BY <1>10 DEF AcceptRead
      <3>2. cursor' \in 0..NChecks /\ stable' \in Nat
        BY <2>1
      <3>3. busy' \in BOOLEAN
        BY <2>1
      <3> QED
        BY <1>10, <3>1, <3>2, <3>3 DEF AcceptRead
    <2>6. Progress' /\ Shut' /\ Budget'
      BY <1>10, <2>1 DEF AcceptRead, Expired, MayStep
    <2>3. Reads'
      BY <1>10, <2>1 DEF AcceptRead, Answer
    <2>4. Trust'
      BY <1>10, <2>1 DEF AcceptRead
    <2>5. Tally'
      BY <1>10, <2>1 DEF AcceptRead
    <2> QED
      BY <2>2, <2>3, <2>4, <2>5, <2>6 DEF IInv
  <1>11. CASE Send
    BY <1>11 DEF Send, StopSeen, StartupFrame, Answer
  <1>12. CASE Gate
    <2>1. /\ ~InStartup'
          /\ UNCHANGED <<now, counters, verification, domainOut, wire, stop, bus>>
      BY <1>12 DEF Gate
    <2>2. TypeOK'
      BY <1>12, <2>1 DEF Gate
    <2>3. Progress' /\ Tally' /\ Budget'
      BY <1>12, <2>1 DEF Gate
    <2>4. Trust' /\ Reads'
      BY <2>1 DEF Answer
    <2>5. Shut'
      BY <1>12, <2>1 DEF Gate
    <2> QED
      BY <2>2, <2>3, <2>4, <2>5 DEF IInv
  <1> QED
    BY <1>1, <1>2, <1>3, <1>4, <1>5, <1>6, <1>7, <1>8, <1>9, <1>10, <1>11, <1>12

LEMMA RunIInv ==
  ASSUME IInv, RunSleep \/ Exchange \/ RunSend
  PROVE  IInv'
  <1> USE DEF IInv, TypeOK, Progress, Trust, Reads, Tally, Shut, Budget,
              InStartup, StartupPcs, RunPcs, Answer,
              counters, verification, outputs, bus, Goto, Return
  <1>1. CASE RunSleep
    BY <1>1 DEF RunSleep, StopSeen
  <1>2. CASE Exchange
    BY <1>2 DEF Exchange
  <1>3. CASE RunSend
    BY <1>3 DEF RunSend, StopSeen
  <1> QED
    BY <1>1, <1>2, <1>3

\* What the world does.  Once reading has started no slave can come back, so
\* the objects compared so far are frozen.
LEMMA EnvironmentIInv ==
  ASSUME IInv, pc # "done", Environment
  PROVE  IInv'
  <1> USE StartupAssumption
      DEF IInv, TypeOK, Progress, Trust, Reads, Tally, Shut, Budget,
          InStartup, StartupPcs, RunPcs, Checks,
          thread, counters, verification, outputs, bus
  <1>1. CASE RequestStop
    BY <1>1 DEF RequestStop, Answer
  <1>2. CASE BusFlips
    BY <1>2 DEF BusFlips, Answer
  <1>3. ASSUME NEW s \in Slaves, DropSlave(s) PROVE IInv'
    BY <1>3 DEF DropSlave, Answer
  <1>4. ASSUME NEW s \in Slaves, RaiseSlave(s) PROVE IInv'
    <2>1. UNCHANGED <<thread, stop, busOk, unseen>> /\ op' = op \union {s}
      BY <1>4 DEF RaiseSlave
    <2>2. InStartup => ~started /\ cursor = 0 /\ ~busy /\ ~healthy
      BY <1>4 DEF RaiseSlave
    <2>3. TypeOK' /\ Progress' /\ Tally' /\ Shut' /\ Budget'
      BY <1>4, <2>1 DEF RaiseSlave
    <2>4. Trust'
      BY <2>1, <2>2
    <2>5. Reads'
      BY <2>1 DEF Answer
    <2> QED
      BY <2>3, <2>4, <2>5 DEF IInv
  <1>5. ASSUME NEW s \in Slaves, AnswerRead(s) PROVE IInv'
    <2>1. /\ request[s].state = "Busy" /\ busy /\ s = SlaveOf[cursor + 1]
          /\ cursor + 1 \in Checks /\ request[s].check = cursor + 1
      BY <1>5 DEF AnswerRead, Answer
    <2>2. UNCHANGED <<pc, rc, now, counters, started, busy, cursor, result,
                      failure, reqDeadline, outputs, stop, bus>>
      BY <1>5 DEF AnswerRead
    <2>6. request' \in [Slaves -> Requests]
      <3>1. device[request[s].check] \in {"Match", "Differ"}
        BY <2>1
      <3>2. [state : {"Success"}, check : {request[s].check},
             value : {device[request[s].check], "BadSize"}] \subseteq Requests
        BY <2>1, <3>1 DEF Requests
      <3>3. [request[s] EXCEPT !.state = "Error"] \in Requests
        BY DEF Requests
      <3>4. PICK reply \in Requests : request' = [request EXCEPT ![s] = reply]
        BY <1>5, <3>2, <3>3 DEF AnswerRead
      <3> QED
        BY <3>4
    <2>7. /\ \A t \in Slaves \ {s} : request'[t] = request[t]
          /\ request'[s].check = request[s].check
          /\ request'[s].state \in {"Success", "Error"}
      BY <1>5 DEF AnswerRead, Requests
    <2>8. request'[s].state = "Success" =>
            request'[s].value \in {device[request[s].check], "BadSize"}
      BY <1>5 DEF AnswerRead, Requests
    <2>3. TypeOK' /\ Progress' /\ Tally' /\ Shut' /\ Budget'
      BY <2>2, <2>6
    <2>4. Reads'
      BY <2>1, <2>2, <2>7 DEF Answer
    <2>5. Trust'
      BY <2>1, <2>2, <2>7, <2>8 DEF Answer
    <2> QED
      BY <2>3, <2>4, <2>5 DEF IInv
  <1> QED
    BY <1>1, <1>2, <1>3, <1>4, <1>5 DEF Environment

LEMMA NextIInv == IInv /\ [Next]_vars => IInv'
  <1> SUFFICES ASSUME IInv, [Next]_vars PROVE IInv'
    OBVIOUS
  <1>1. CASE Thread
    BY <1>1, StartupIInv, RunIInv DEF Thread, Advance
  <1>2. CASE pc # "done" /\ Environment
    BY <1>2, EnvironmentIInv
  <1>3. CASE UNCHANGED vars
    BY <1>3 DEF vars, thread, counters, verification, outputs, bus, IInv, TypeOK,
       Progress, Trust, Reads, Tally, Shut, Budget, InStartup, Answer
  <1> QED
    BY <1>1, <1>2, <1>3 DEF Next, Returned

LEMMA Invariance == Spec => []IInv
  <1> QED
    BY InitIInv, NextIInv, PTL DEF Spec

-----------------------------------------------------------------------------

\* The types of CyclicTask, StartupWait and PdoVerification state.
THEOREM TypeCorrect == Spec => []TypeOK
  <1>1. IInv => TypeOK
    BY DEF IInv
  <1> QED
    BY <1>1, Invariance, PTL

\* The startup loop never sends, and the run loop alone sends, client outputs.
THEOREM OutputsGated == Spec => []NoEarlyOutput
  <1>1. IInv => NoEarlyOutput
    BY DEF IInv, Shut, TypeOK, NoEarlyOutput
  <1> QED
    BY <1>1, Invariance, PTL

\* Late wakes cannot stretch a startup beyond its budget by more than one wake.
THEOREM StartupBounded == Spec => []StartupBudget
  <1>1. IInv => StartupBudget
    BY DEF IInv, Budget, InStartup, StartupBudget
  <1> QED
    BY <1>1, Invariance, PTL

\* PdoVerification::step drives one request at a time, the cursor's.
THEOREM SingleRead == Spec => []OneReadAtATime
  <1>1. IInv => OneReadAtATime
    BY DEF IInv, Reads, Answer, OneReadAtATime
  <1> QED
    BY <1>1, Invariance, PTL

\* startup_ready_ is raised only over devices that hold what was configured and
\* only after an unbroken healthy run, whatever the slaves did meanwhile.
THEOREM GateTrustworthy == Spec => GateSound /\ GateSettled
  <1> DEFINE Opens == startupReady' /\ ~startupReady
             Sound == Opens => \A c \in Checks : device[c] = "Match"
             Settled == Opens => streak >= (StablePolls - 1) + 2 * NChecks + StablePolls
  <1>1. ASSUME IInv, Next, Opens
        PROVE  Gate /\ ~stop
    <2>1. CASE Gate
      BY <1>1, <2>1 DEF Gate, StopSeen
    <2>2. CASE Thread /\ ~Gate
      BY <1>1, <2>2 DEF Thread, Advance, Sleep, Poll, PollFails, ClockFails, TimedOut, Observe,
         StartRead, ReadFails, AwaitRead, AcceptRead, Send, RunSleep, Exchange,
         RunSend, outputs
    <2>3. CASE Environment
      BY <1>1, <2>3 DEF Environment, RequestStop, DropSlave, RaiseSlave, BusFlips,
         AnswerRead, thread, outputs
    <2>4. CASE Returned
      BY <1>1, <2>4 DEF Returned, vars, thread, outputs
    <2> QED
      BY <1>1, <2>1, <2>2, <2>3, <2>4 DEF Next
  <1>2. ASSUME IInv, Gate, ~stop
        PROVE  /\ InStartup /\ stable >= StablePolls /\ result = "Complete"
               /\ cursor = NChecks /\ started /\ pc = "gate" /\ ~busy
    BY <1>2, StartupAssumption
       DEF IInv, Gate, TypeOK, Progress, Reads, InStartup, StartupPcs, StablePolls
  <1>3. ASSUME IInv, Next, Opens
        PROVE  /\ \A c \in Checks : device[c] = "Match"
               /\ streak >= (StablePolls - 1) + 2 * NChecks + StablePolls
    <2>1. Gate /\ ~stop
      BY <1>1, <1>3
    <2>2. \A c \in Checks : device[c] = "Match"
      BY <1>2, <1>3, <2>1 DEF IInv, Trust, Checks
    <2>3. streak >= (StablePolls - 1) + 2 * NChecks + StablePolls
      BY <1>2, <1>3, <2>1, StartupAssumption DEF IInv, TypeOK, Tally, StablePolls
    <2> QED
      BY <2>2, <2>3
  <1>4. IInv /\ [Next]_vars => [Sound]_vars /\ [Settled]_vars
    BY <1>3
  <1>5. Spec => [][Sound]_vars /\ [][Settled]_vars
    BY <1>4, Invariance, PTL DEF Spec
  <1> QED
    BY <1>5 DEF GateSound, GateSettled
=============================================================================
