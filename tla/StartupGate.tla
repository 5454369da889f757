----------------------------- MODULE StartupGate -----------------------------
(***************************************************************************)
(* The cyclic thread from the start of CyclicTask::run to its return: the  *)
(* startup loop (StartupWait, PdoVerification::step and abort), the gate   *)
(* that opens business output, and the control of the run loop.            *)
(*                                                                         *)
(* The thread shares the machine with the slaves (which leave OP and come  *)
(* back, possibly reconfigured), with IgH (which answers the asynchronous  *)
(* SDO requests) and with the signal handler.  One tick of `now' is one    *)
(* cycle period; every wake is at least one period after the last one, and *)
(* at most MaxLate periods late.                                           *)
(***************************************************************************)
EXTENDS Integers, FiniteSets

CONSTANTS
    Slaves,         \* the configured slaves
    NChecks,        \* length of checks_, the flattened SM2/SM3 expectations
    SlaveOf,        \* the slave each check reads from (Check::slave_index)
    OpTimeout,      \* op_timeout_ms, in periods
    RequestTimeout, \* kRequestTimeoutMs, in periods
    MaxLate         \* bound: periods a wake can be late

ASSUME StartupAssumption ==
    /\ NChecks \in Nat \ {0}
    /\ SlaveOf \in [1..NChecks -> Slaves]
    /\ OpTimeout \in Nat \ {0}
    /\ RequestTimeout \in Nat \ {0}
    /\ MaxLate \in Nat

\* Consecutive healthy polls demanded before the first read and after the last.
StablePolls == 5

Checks == 1..NChecks

VARIABLES
    \* the cyclic thread
    pc, rc, now,
    healthy,            \* outcome of the last poll
    initialHealthy,     \* initial_healthy_cycles
    stable,             \* StartupWait::stable_count_
    started, busy, cursor, result, failure, reqDeadline,   \* PdoVerification
    request,            \* the one SDO request object of each slave
    startupReady,       \* startup_ready_, read by the reporter
    domainOut, wire,    \* output domain image, output of the last frame sent
    \* the world around it
    stop,               \* g_stop_requested
    op,                 \* slaves that are in OP
    busOk,              \* link up, every slave responding, both WCs complete
    device,             \* does the object a check reads hold what it expects?
    unseen,             \* slaves that left OP and were not polled since
    streak              \* history: consecutive healthy polls so far

verification == <<started, busy, cursor, result, failure, reqDeadline, request>>
counters     == <<healthy, initialHealthy, stable, streak>>
outputs      == <<startupReady, domainOut, wire>>
thread       == <<pc, rc, now, counters, verification, outputs>>
bus          == <<op, busOk, device, unseen>>
vars         == <<thread, stop, bus>>

StartupPcs == {"sleep", "poll", "check", "send", "gate"}
RunPcs     == {"runSleep", "exchange", "runSend"}
Failures   == {"None", "BusUnhealthy", "StartupTimeout", "RequestTimeout",
               "Request", "Read", "Mismatch"}
NoRequest  == [state |-> "Unused", check |-> 0, value |-> "None"]
Requests   == [state : {"Unused", "Busy", "Success", "Error"},
               check : 0..NChecks,
               value : {"None", "Match", "Differ", "BadSize"}]

Init ==
    /\ pc = "sleep" /\ rc = "None" /\ now = 0
    /\ healthy = FALSE /\ initialHealthy = 0 /\ stable = 0 /\ streak = 0
    /\ started = FALSE /\ busy = FALSE /\ cursor = 0
    /\ result = "Pending" /\ failure = "None" /\ reqDeadline = 0
    /\ request = [s \in Slaves |-> NoRequest]
    /\ startupReady = FALSE /\ domainOut = "initial" /\ wire = "initial"
    /\ stop \in BOOLEAN
    /\ op \in SUBSET Slaves /\ busOk \in BOOLEAN /\ unseen = {}
    /\ device \in [Checks -> {"Match", "Differ"}]

-----------------------------------------------------------------------------
(* The startup loop.                                                       *)

\* The thread leaves run() with the given code.
Return(code) == pc' = "done" /\ rc' = code

Goto(label) == pc' = label /\ rc' = rc

\* PdoVerification::fail: the first failure is kept.
Fail(kind) ==
    /\ failure' = IF result = "Failed" THEN failure ELSE kind
    /\ result' = "Failed"

\* Mutant of StopSeen: the flag is not volatile and was read once, before the loop.
StopHoisted == FALSE

\* g_stop_requested as the thread reads it.
StopSeen == stop

\* clock_nanosleep to the absolute deadline; a signal ends it early.  Every
\* deadline lies in the future of the previous cycle's finish time.
Sleep ==
    /\ pc = "sleep"
    /\ \/ StopSeen /\ Return("OK") /\ UNCHANGED now
       \/ ~StopSeen /\ Return("ERRNO") /\ UNCHANGED now     \* sleep or clock failed
       \/ ~StopSeen /\ Return("EIO") /\ UNCHANGED now       \* setApplicationTime
       \/ /\ ~StopSeen
          /\ now' \in (now + 1)..(now + 1 + MaxLate)
          /\ Goto("poll")
    /\ UNCHANGED <<counters, verification, outputs, stop, bus>>

BusHealthy == op = Slaves /\ busOk

\* Mutant of LossAborts: a loss of health is waited out, the verification resumes.
LossWaitedOut == FALSE

\* Health lost after the first SDO was queued ends the startup.
LossAborts == started /\ ~BusHealthy

\* receiveAndProcess, readState, pollSlaves and the health bookkeeping.
Poll ==
    /\ pc = "poll"
    /\ healthy' = BusHealthy
    /\ streak' = IF BusHealthy THEN streak + 1 ELSE 0
    /\ initialHealthy' = IF started THEN initialHealthy
                         ELSE IF BusHealthy THEN initialHealthy + 1 ELSE 0
    /\ unseen' = {}
    /\ IF LossAborts
       THEN Fail("BusUnhealthy") /\ Return("EIO")
       ELSE Goto("check") /\ UNCHANGED <<result, failure>>
    /\ UNCHANGED <<now, stable, started, busy, cursor, reqDeadline, request,
                   outputs, stop, op, busOk, device>>

\* pollSlaves or the diagnostics clock fails; nothing was observed.
PollFails ==
    /\ pc = "poll"
    /\ \/ /\ Return("EIO")
          /\ IF started THEN Fail("BusUnhealthy") ELSE UNCHANGED <<result, failure>>
       \/ Return("ERRNO") /\ UNCHANGED <<result, failure>>
    /\ UNCHANGED <<now, counters, started, busy, cursor, reqDeadline, request,
                   outputs, stop, bus>>

\* Mutant of Expired: the budget is charged only to polls that verify.
ExpiredOnlyHealthy == healthy /\ now >= OpTimeout

Expired == now >= OpTimeout

\* StartupWait::observe on time: the whole startup shares one budget.
TimedOut ==
    /\ pc = "check" /\ Expired
    /\ Return("ETIMEDOUT")
    /\ IF started THEN Fail("StartupTimeout") ELSE UNCHANGED <<result, failure>>
    /\ UNCHANGED <<now, counters, started, busy, cursor, reqDeadline, request,
                   outputs, stop, bus>>

\* The clock read between the poll and observe fails.
ClockFails ==
    /\ pc = "check" /\ Return("ERRNO")
    /\ UNCHANGED <<now, counters, verification, outputs, stop, bus>>

\* observe in budget: the polls that count are those after the verification.
Stable == IF healthy /\ result = "Complete" THEN stable + 1 ELSE 0

\* Mutant of MayStep: the first read does not wait for a settled bus.
MayStepUnsettled == healthy /\ result # "Complete"

MayStep == healthy /\ initialHealthy >= StablePolls /\ result # "Complete"

\* The poll is neither late nor one the verification advances on.
Observe ==
    /\ pc = "check" /\ ~Expired /\ ~MayStep
    /\ stable' = Stable
    /\ Goto("send")
    /\ UNCHANGED <<now, healthy, initialHealthy, streak, verification, outputs,
                   stop, bus>>

\* PdoVerification::step with no request in flight: issue the next read.
StartRead ==
    /\ pc = "check" /\ ~Expired /\ MayStep /\ ~busy
    /\ stable' = Stable
    /\ started' = TRUE
    /\ \/ /\ request' = [request EXCEPT ![SlaveOf[cursor + 1]] =
                           [state |-> "Busy", check |-> cursor + 1, value |-> "None"]]
          /\ reqDeadline' = now + RequestTimeout
          /\ busy' = TRUE
          /\ Goto("send")
          /\ UNCHANGED <<result, failure>>
       \/ /\ Fail("Request") /\ Return("EIO")      \* index or read refused
          /\ UNCHANGED <<request, reqDeadline, busy>>
    /\ UNCHANGED <<now, healthy, initialHealthy, streak, cursor, outputs, stop, bus>>

Late == now >= reqDeadline

Answer == request[SlaveOf[cursor + 1]]

\* PdoVerification::step with a request in flight that was not answered well.
ReadFails ==
    /\ pc = "check" /\ ~Expired /\ MayStep /\ busy
    /\ stable' = Stable
    /\ \/ Late /\ Fail("RequestTimeout") /\ Return("ETIMEDOUT")
       \/ ~Late /\ Answer.state = "Error" /\ Fail("Read") /\ Return("EIO")
       \/ /\ ~Late /\ Answer.state = "Success" /\ Answer.value # "Match"
          /\ Fail("Mismatch") /\ Return("EIO")
    /\ UNCHANGED <<now, healthy, initialHealthy, streak, started, busy, cursor,
                   reqDeadline, request, outputs, stop, bus>>

\* Mutant of AwaitRead: the thread blocks until IgH has answered.
AwaitReadBlocks ==
    /\ pc = "check" /\ ~Expired /\ MayStep /\ busy
    /\ ~Late /\ Answer.state = "Busy"
    /\ UNCHANGED vars

\* PdoVerification::step with a request in flight that is still busy.
AwaitRead ==
    /\ pc = "check" /\ ~Expired /\ MayStep /\ busy
    /\ ~Late /\ Answer.state = "Busy"
    /\ stable' = Stable
    /\ Goto("send")
    /\ UNCHANGED <<now, healthy, initialHealthy, streak, verification, outputs,
                   stop, bus>>

\* PdoVerification::step on the expected value: on to the next check.
AcceptRead ==
    /\ pc = "check" /\ ~Expired /\ MayStep /\ busy
    /\ ~Late /\ Answer.state = "Success" /\ Answer.value = "Match"
    /\ stable' = Stable
    /\ busy' = FALSE
    /\ cursor' = cursor + 1
    /\ result' = IF cursor + 1 = NChecks THEN "Complete" ELSE "Pending"
    /\ Goto("send")
    /\ UNCHANGED <<now, healthy, initialHealthy, streak, started, failure,
                   reqDeadline, request, outputs, stop, bus>>

\* Mutant of StartupFrame: the startup loop exchanges process data as well.
StartupFrameShared == "shared"

\* What the startup loop puts on the wire: the zero image left by activation.
StartupFrame == domainOut

\* queueAndSend and advanceDeadline, then the loop condition.
Send ==
    /\ pc = "send"
    /\ \/ Return("EIO") /\ UNCHANGED wire                  \* queueAndSend failed
       \/ Return("ERRNO") /\ wire' = StartupFrame             \* the clock failed
       \/ /\ wire' = StartupFrame
          /\ Goto(IF stable >= StablePolls \/ StopSeen THEN "gate" ELSE "sleep")
    /\ UNCHANGED <<now, counters, verification, startupReady, domainOut, stop, bus>>

\* Between the loops: a stop request wins over readiness.
Gate ==
    /\ pc = "gate"
    /\ \/ StopSeen /\ Return("OK") /\ UNCHANGED startupReady
       \/ ~StopSeen /\ startupReady' = TRUE /\ Goto("runSleep")
       \/ ~StopSeen /\ startupReady' = TRUE /\ Return("ERRNO")
    /\ UNCHANGED <<now, counters, verification, domainOut, wire, stop, bus>>

-----------------------------------------------------------------------------
(* The run loop, as far as outputs and termination go.                     *)

RunSleep ==
    /\ pc = "runSleep"
    /\ \/ StopSeen /\ Return("OK")
       \/ ~StopSeen /\ (Return("ERRNO") \/ Return("EIO"))
       \/ ~StopSeen /\ Goto("exchange")
    /\ UNCHANGED <<now, counters, verification, outputs, stop, bus>>

\* exchangeProcessData: the output domain takes what clients wrote.
Exchange ==
    /\ pc = "exchange"
    /\ \/ domainOut' = "shared" /\ Goto("runSend")
       \/ domainOut' \in {domainOut, "shared"} /\ Return("ERRNO")
    /\ UNCHANGED <<now, counters, verification, startupReady, wire, stop, bus>>

RunSend ==
    /\ pc = "runSend"
    /\ \/ Return("EIO") /\ UNCHANGED wire
       \/ Return("ERRNO") /\ wire' = domainOut
       \/ StopSeen /\ Return("OK") /\ wire' = domainOut
       \/ ~StopSeen /\ Goto("runSleep") /\ wire' = domainOut
    /\ UNCHANGED <<now, counters, verification, startupReady, domainOut, stop, bus>>

-----------------------------------------------------------------------------
(* Signals, slaves and IgH.                                                *)

RequestStop ==
    /\ ~stop /\ stop' = TRUE
    /\ UNCHANGED <<thread, bus>>

DropSlave(s) ==
    /\ s \in op
    /\ op' = op \ {s}
    /\ unseen' = unseen \union {s}
    /\ UNCHANGED <<thread, stop, busOk, device>>

\* A slave back in OP may hold other objects than before: IgH reconfigured it.
\* The walk through PREOP takes longer than a cycle, so a poll has seen it gone.
RaiseSlave(s) ==
    /\ s \notin op
    /\ s \notin unseen \/ startupReady
    /\ op' = op \union {s}
    /\ device' \in [Checks -> {"Match", "Differ"}]
    /\ \A c \in Checks : SlaveOf[c] # s => device'[c] = device[c]
    /\ UNCHANGED <<thread, stop, busOk, unseen>>

BusFlips ==
    /\ busOk' = ~busOk
    /\ UNCHANGED <<thread, stop, op, device, unseen>>

\* IgH completes the read of slave s with what the device holds, or fails it.
AnswerRead(s) ==
    /\ request[s].state = "Busy"
    /\ \E reply \in [state : {"Success"}, check : {request[s].check},
                     value : {device[request[s].check], "BadSize"}]
                    \union {[request[s] EXCEPT !.state = "Error"]} :
         request' = [request EXCEPT ![s] = reply]
    /\ UNCHANGED <<pc, rc, now, counters, started, busy, cursor, result, failure,
                   reqDeadline, outputs, stop, bus>>

\* What the thread does while clock and master answer.
Advance ==
    \/ Sleep \/ Poll \/ TimedOut \/ Observe
    \/ StartRead \/ ReadFails \/ AwaitRead \/ AcceptRead \/ Send \/ Gate
    \/ RunSleep \/ Exchange \/ RunSend

Thread == Advance \/ PollFails \/ ClockFails

Environment ==
    \/ RequestStop
    \/ \E s \in Slaves : DropSlave(s) \/ RaiseSlave(s) \/ AnswerRead(s)
    \/ BusFlips

Returned == pc = "done" /\ UNCHANGED vars

Next == Thread \/ (pc # "done" /\ Environment) \/ Returned

\* The thread is scheduled; nothing is asked of slaves, bus or IgH, and no failing
\* call is counted on to get it out of a loop.
Spec == Init /\ [][Next]_vars /\ WF_vars(Advance)

-----------------------------------------------------------------------------
(* Properties.                                                             *)

TypeOK ==
    /\ pc \in StartupPcs \union RunPcs \union {"done"}
    /\ rc \in {"None", "OK", "EIO", "ETIMEDOUT", "ERRNO"}
    /\ now \in Nat /\ reqDeadline \in Nat
    /\ initialHealthy \in Nat /\ stable \in Nat /\ streak \in Nat
    /\ healthy \in BOOLEAN /\ started \in BOOLEAN /\ busy \in BOOLEAN
    /\ startupReady \in BOOLEAN /\ stop \in BOOLEAN /\ busOk \in BOOLEAN
    /\ cursor \in 0..NChecks
    /\ result \in {"Pending", "Complete", "Failed"}
    /\ failure \in Failures
    /\ request \in [Slaves -> Requests]
    /\ domainOut \in {"initial", "shared"} /\ wire \in {"initial", "shared"}
    /\ op \subseteq Slaves /\ unseen \subseteq Slaves
    /\ device \in [Checks -> {"Match", "Differ"}]

\* The gate opens only over devices whose objects, at that moment, still hold
\* what every check expects: no slave was reconfigured behind a finished check.
GateSound ==
    [][startupReady' /\ ~startupReady => \A c \in Checks : device[c] = "Match"]_vars

\* The gate opens only after an unbroken run of healthy polls: five before the
\* first read, two for each check, five after the last one.
GateSettled ==
    [][startupReady' /\ ~startupReady =>
         streak >= (StablePolls - 1) + 2 * NChecks + StablePolls]_vars

\* Startup outlives its budget by at most the lateness of one wake.
StartupBudget == pc \in StartupPcs => now <= OpTimeout + MaxLate

\* What clients wrote reaches the slaves only through the open gate.
NoEarlyOutput == wire = "shared" => startupReady

\* Reads start only on a settled bus, one at a time, and the one in flight is
\* the check the cursor stands on.
OneReadAtATime ==
    /\ \A s \in Slaves : request[s].state # "Unused" => started
    /\ \A s \in Slaves :
         request[s].state = "Busy" => s = SlaveOf[cursor + 1] /\ request[s].check = cursor + 1

\* Whatever slaves and IgH do, startup ends: ready, or with a return code.
StartupEnds == <>(startupReady \/ pc = "done")

\* A stop request ends the thread from wherever it is.
StopEnds == stop ~> pc = "done"
=============================================================================
