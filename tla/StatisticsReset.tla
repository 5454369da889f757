--------------------------- MODULE StatisticsReset ---------------------------
(***************************************************************************)
(* CMD_RESET_STATS: the command worker (the reporter thread) hands a       *)
(* ticket to the cyclic thread, which clears its timing aggregates and the *)
(* published ones at a cycle boundary and acknowledges.  The two share     *)
(* requested_ and acknowledged_ only; every load and store of one that the *)
(* other thread can overtake is a step of its own.                         *)
(*                                                                         *)
(* An aggregate is modelled by what it is made of: "zero" when nothing was *)
(* accounted, "old" when it includes a sample taken before the last        *)
(* accepted request, "new" when all its samples are younger.               *)
(***************************************************************************)
EXTENDS Integers

CONSTANT MaxCalls   \* bound: commands the App sends

ASSUME ResetAssumption == MaxCalls \in Nat

VARIABLES
    requested, acknowledged,   \* StatisticsReset
    cyc,        \* the cyclic thread: where in its cycle
    ticket,     \* the ticket it found pending
    stats,      \* statistics_ of the cyclic thread (min, max, avg, cycles)
    bus,        \* the four published aggregates
    worker,     \* the command worker: where in execute()
    mine,       \* the ticket it submitted
    verdict,    \* what the last command returned
    expired,    \* monotonicNs() has reached the command's deadline
    startupReady, stop,        \* startup_ready_, reporter_stop
    calls, resets              \* history: commands sent, resets performed

shared    == <<requested, acknowledged>>
cycVars   == <<cyc, ticket, stats, bus, resets>>
workVars  == <<worker, mine, verdict, expired, calls>>
vars      == <<shared, cycVars, workVars, startupReady, stop>>

Fields == {"min", "max", "avg", "current"}
Ages   == {"zero", "old", "new"}

\* What a value is to a request submitted now.
Aged(x) == IF x = "zero" THEN "zero" ELSE "old"

Init ==
    /\ requested = 0 /\ acknowledged = 0
    /\ cyc = "startup" /\ ticket = 0
    /\ stats = "zero" /\ bus = [f \in Fields |-> "new"]   \* startup's own samples
    /\ worker = "idle" /\ mine = 0 /\ verdict = "None" /\ expired = FALSE
    /\ startupReady = FALSE /\ stop = FALSE
    /\ calls = 0 /\ resets = 0

-----------------------------------------------------------------------------
(* The cyclic thread.                                                      *)

\* The startup loop is left: to the run loop or, on error or signal, for good.
LeaveStartup ==
    /\ cyc = "startup"
    /\ \/ cyc' = "sample" /\ startupReady' = TRUE
       \/ cyc' = "ended" /\ UNCHANGED startupReady
    /\ UNCHANGED <<shared, ticket, stats, bus, resets, workVars, stop>>

\* updateSharedBus: account the sample, publish the aggregates.
Sample ==
    /\ cyc = "sample"
    /\ stats' = IF stats = "zero" THEN "new" ELSE stats
    /\ bus' = [f \in Fields |-> IF f = "current" THEN "new" ELSE stats']
    /\ cyc' = "look"
    /\ UNCHANGED <<shared, ticket, resets, workVars, startupReady, stop>>

\* Mutant of Pending: the acknowledgement is not consulted.
PendingAlways == requested

\* StatisticsReset::pending.
Pending == IF requested # acknowledged THEN requested ELSE 0

\* The cycle is over: the next one, or (error, signal) the end of the thread.
CycleOver == cyc' \in {"sample", "ended"}

NothingPending ==
    /\ cyc = "look" /\ Pending = 0
    /\ CycleOver
    /\ UNCHANGED <<shared, ticket, stats, bus, resets, workVars, startupReady, stop>>

\* resetTimingStatistics.
ResetTiming ==
    /\ cyc = "look" /\ Pending # 0
    /\ ticket' = Pending
    /\ stats' = "zero"
    /\ resets' = resets + 1
    /\ cyc' = "zero"
    /\ UNCHANGED <<shared, bus, workVars, startupReady, stop>>

\* One of the four stores of 0.0 that publish the reset.
PublishZero(f) ==
    /\ cyc = "zero" /\ bus[f] # "zero"
    /\ bus' = [bus EXCEPT ![f] = "zero"]
    /\ UNCHANGED <<shared, cyc, ticket, stats, resets, workVars, startupReady, stop>>

\* Mutant of Published: the acknowledgement is stored before the zeros.
PublishedLater == TRUE

Published == \A f \in Fields : bus[f] = "zero"

Acknowledge ==
    /\ cyc = "zero" /\ Published
    /\ acknowledged' = ticket
    /\ CycleOver
    /\ UNCHANGED <<requested, ticket, stats, bus, resets, workVars, startupReady, stop>>

-----------------------------------------------------------------------------
(* The command worker.                                                     *)

\* execute() returns, the worker is free for the next command.
Verdict(v) == verdict' = v /\ worker' = "idle"

\* A command is taken from the mailbox; the worker looks there only while it
\* is not stopped.
Command ==
    /\ worker = "idle" /\ ~stop /\ calls < MaxCalls
    /\ calls' = calls + 1
    /\ expired' = FALSE
    /\ \/ Verdict("UNSUPPORTED")                           \* any other command
       \/ ~startupReady /\ Verdict("STATE_MISMATCH")
       \/ startupReady /\ worker' = "enter" /\ verdict' = "None"
    /\ UNCHANGED <<shared, cycVars, mine, startupReady, stop>>

\* An earlier request, abandoned by its command, was not applied yet.
Outstanding == acknowledged # requested

\* execute() up to the acceptance of the request.
Enter ==
    /\ worker = "enter"
    /\ \/ stop /\ Verdict("STATE_MISMATCH")
       \/ ~stop /\ expired /\ Verdict("DEADLINE_EXCEEDED")
       \/ ~stop /\ ~expired /\ Outstanding /\ Verdict("BUSY")
       \/ ~stop /\ ~expired /\ ~Outstanding /\ worker' = "submit" /\ UNCHANGED verdict
    /\ UNCHANGED <<shared, cycVars, mine, expired, calls, startupReady, stop>>

Submit ==
    /\ worker = "submit"
    /\ mine' = requested + 1
    /\ requested' = requested + 1
    /\ stats' = Aged(stats) /\ bus' = [f \in Fields |-> Aged(bus[f])]
    /\ worker' = "poll"
    /\ UNCHANGED <<acknowledged, cyc, ticket, resets, verdict, expired, calls,
                   startupReady, stop>>

\* while (acknowledged_.load() != ticket).
Poll ==
    /\ worker = "poll"
    /\ IF acknowledged = mine THEN Verdict("RESULT_OK")
       ELSE worker' = "tire" /\ UNCHANGED verdict
    /\ UNCHANGED <<shared, cycVars, mine, expired, calls, startupReady, stop>>

\* Mutant of Tire: a command that gives up takes its request back.
TireCancels ==
    /\ worker = "tire"
    /\ IF stop \/ expired
       THEN /\ Verdict("OUTCOME_UNKNOWN")
            /\ requested' = requested - 1
       ELSE worker' = "poll" /\ UNCHANGED <<verdict, requested>>
    /\ UNCHANGED <<acknowledged, cycVars, mine, expired, calls, startupReady, stop>>

\* Mutant of Tire: only the shutdown is looked at, not the deadline.
TireOnStop ==
    /\ worker = "tire"
    /\ IF stop THEN Verdict("OUTCOME_UNKNOWN")
       ELSE worker' = "poll" /\ UNCHANGED verdict
    /\ UNCHANGED <<shared, cycVars, mine, expired, calls, startupReady, stop>>

\* Give up at the deadline or at shutdown; the request stays where it is.
Tire ==
    /\ worker = "tire"
    /\ IF stop \/ expired THEN Verdict("OUTCOME_UNKNOWN")
       ELSE worker' = "poll" /\ UNCHANGED verdict
    /\ UNCHANGED <<shared, cycVars, mine, expired, calls, startupReady, stop>>

-----------------------------------------------------------------------------
(* Clock and main thread.                                                  *)

Expire ==
    /\ worker # "idle" /\ ~expired
    /\ expired' = TRUE
    /\ UNCHANGED <<shared, cycVars, worker, mine, verdict, calls, startupReady, stop>>

\* main() stops the worker once run() has returned.
StopReporter ==
    /\ cyc = "ended" /\ ~stop
    /\ stop' = TRUE
    /\ UNCHANGED <<shared, cycVars, workVars, startupReady>>

Cyclic ==
    \/ LeaveStartup \/ Sample \/ NothingPending \/ ResetTiming \/ Acknowledge
    \/ \E f \in Fields : PublishZero(f)

Worker == Enter \/ Submit \/ Poll \/ Tire

Next == Cyclic \/ Command \/ Worker \/ Expire \/ StopReporter

\* Both threads are scheduled and time passes.  Neither the App nor main() is
\* expected to do anything: the worker cannot count on being stopped.
Fairness == WF_vars(Cyclic) /\ WF_vars(Worker) /\ WF_vars(Expire)

Spec == Init /\ [][Next]_vars /\ Fairness

-----------------------------------------------------------------------------
(* Properties.                                                             *)

TypeOK ==
    /\ requested \in Nat /\ acknowledged \in Nat /\ ticket \in Nat /\ mine \in Nat
    /\ cyc \in {"startup", "sample", "look", "zero", "ended"}
    /\ stats \in Ages /\ bus \in [Fields -> Ages]
    /\ worker \in {"idle", "enter", "submit", "poll", "tire"}
    /\ verdict \in {"None", "RESULT_OK", "OUTCOME_UNKNOWN", "BUSY", "UNSUPPORTED",
                    "DEADLINE_EXCEEDED", "STATE_MISMATCH"}
    /\ expired \in BOOLEAN /\ startupReady \in BOOLEAN /\ stop \in BOOLEAN
    /\ calls \in Nat /\ resets \in Nat

\* A client that was told RESULT_OK never reads an aggregate that still
\* includes a sample from before its command was accepted.
OkMeansFresh ==
    verdict = "RESULT_OK" =>
        stats # "old" /\ \A f \in Fields : bus[f] # "old"

\* Every accepted command is applied once: no acknowledgement without a reset
\* of its own, no reset without a request of its own.
ResetOncePerTicket == acknowledged <= resets /\ resets <= requested

\* A request outlives the command that gave up on it: as long as cycles run it
\* is applied.
AcceptedIsApplied ==
    \A t \in 1..MaxCalls :
        requested = t ~> acknowledged >= t \/ cyc = "ended"

\* A command is answered even if the cyclic thread never reaches a boundary
\* again and nobody stops the worker.
CommandAnswered == worker # "idle" ~> worker = "idle"
=============================================================================
