------------------------------- MODULE Deadline -------------------------------
(***************************************************************************)
(* The absolute deadlines of the cyclic thread: how run() derives the      *)
(* first one, advanceDeadline, the application time handed to IgH and the  *)
(* count of missed cycles.  Time is in nanoseconds of CLOCK_MONOTONIC; a   *)
(* small Period stands for the configured one.                             *)
(***************************************************************************)
EXTENDS Integers

CONSTANTS
    Period,    \* period_us, in ns
    Horizon    \* bound: the last instant looked at

ASSUME DeadlineAssumption ==
    /\ Period \in Nat \ {0}
    /\ Horizon \in Nat

VARIABLES
    pc,           \* "begin", "sleep" or "work"
    now,
    dc,           \* dc_enabled: IgH was given a phase origin
    origin,       \* dc_phase_origin_ns, or without DC the first deadline
    deadline,
    appTime,      \* the last application time, -1 before the first
    missed,       \* statistics_.missed_deadlines
    cycles,       \* history: cycles finished
    first         \* history: the first deadline

deadlineVars == <<pc, now, dc, origin, deadline, appTime, missed, cycles, first>>

\* Mutant of Intervals: a finish exactly on the next deadline is not late.
IntervalsLenient(previous, finish) ==
    IF finish > previous + Period THEN (finish - previous) \div Period + 1 ELSE 1

\* The periods advanceDeadline moves on by.
Intervals(previous, finish) ==
    IF finish >= previous + Period THEN (finish - previous) \div Period + 1 ELSE 1

\* Mutant of AdvanceDeadline: the next period is counted from the finish.
AdvanceDeadlineFromNow(previous, finish) == finish + Period

AdvanceDeadline(previous, finish) == previous + Intervals(previous, finish) * Period

\* Mutant of Missed: the cycle that was late counts as missed itself.
MissedInclusive(previous, finish) == Intervals(previous, finish)

\* missed_intervals.
Missed(previous, finish) == Intervals(previous, finish) - 1

\* The clock is read before activation: dc_phase_origin_ns.
DeadlineInit ==
    /\ pc = "begin" /\ dc \in BOOLEAN /\ now \in 1..Horizon /\ origin = now
    /\ deadline = 0 /\ appTime = -1 /\ missed = 0 /\ cycles = 0 /\ first = 0

\* run() starts, any number of periods after activation.
Begin ==
    /\ pc = "begin"
    /\ now' \in now..Horizon
    /\ deadline' = IF dc THEN AdvanceDeadline(origin, now') ELSE now' + Period
    /\ origin' = IF dc THEN origin ELSE deadline'
    /\ first' = deadline'
    /\ pc' = "sleep"
    /\ UNCHANGED <<dc, appTime, missed, cycles>>

\* clock_nanosleep returns at the deadline or later; setApplicationTime.
Wake ==
    /\ pc = "sleep"
    /\ \E t \in now..Horizon : t >= deadline /\ now' = t
    /\ appTime' = deadline
    /\ pc' = "work"
    /\ UNCHANGED <<dc, origin, deadline, missed, cycles, first>>

\* The cycle is done; its finish time decides on the next deadline.
Finish ==
    /\ pc = "work"
    /\ now' \in now..Horizon
    /\ deadline' = AdvanceDeadline(deadline, now')
    /\ missed' = missed + Missed(deadline, now')
    /\ cycles' = cycles + 1
    /\ pc' = "sleep"
    /\ UNCHANGED <<dc, origin, appTime, first>>

DeadlineNext == Begin \/ Wake \/ Finish

DeadlineSpec == DeadlineInit /\ [][DeadlineNext]_deadlineVars

-----------------------------------------------------------------------------
(* Properties.                                                             *)

DeadlineTypeOK ==
    /\ pc \in {"begin", "sleep", "work"} /\ dc \in BOOLEAN
    /\ now \in Nat /\ origin \in Nat /\ deadline \in Nat
    /\ appTime \in Nat \union {-1}
    /\ missed \in Nat /\ cycles \in Nat /\ first \in Nat

OnGrid(t) == \E k \in 0..t : t = origin + k * Period

\* No delay, at activation, at a wake or in a cycle, shifts the phase IgH was
\* given: every deadline and every application time is a whole number of
\* periods after the origin.
PhaseKept ==
    /\ pc # "begin" => OnGrid(deadline)
    /\ appTime # -1 => OnGrid(appTime)

\* Every slot of the period grid since the first deadline was either a cycle
\* or is counted as missed: none twice, none not at all.
LedgerBalances ==
    pc = "sleep" => deadline = first + (cycles + missed) * Period

\* After a cycle, however late it is, the thread sleeps towards the next slot
\* of the grid that can still be met: no burst of cycles whose deadlines have
\* passed, and no slot given up that was still ahead.
NearestSlot ==
    [][pc # "sleep" /\ pc' = "sleep" =>
         /\ deadline' > now'
         /\ pc = "work" =>
                deadline' = deadline + Period \/ deadline' - Period <= now']_deadlineVars
=============================================================================
