------------------------------- MODULE Process -------------------------------
(***************************************************************************)
(* The process: main(), which acquires the resources, starts the reporter, *)
(* becomes the cyclic thread and takes everything down again, and the      *)
(* reporter, with RuntimeReportMailbox between the two.                    *)
(*                                                                         *)
(* The mailbox slot is a struct that is copied word by word while the      *)
(* other thread runs; only its flag is atomic.  What a report says is      *)
(* reduced to the window it is about, the faults of that window and the    *)
(* total it shows beside them, for one of the three kinds of fault: missed *)
(* deadlines, of which the startup loop has had its share and a cycle can  *)
(* have several, or wc errors or link losses, which are counted from zero  *)
(* and at most once per cycle.  The startup loop is that of module         *)
(* StartupGate, the command step of the reporter is module StatisticsReset;*)
(* here they take time and end somehow.                                    *)
(***************************************************************************)
EXTENDS Integers, Sequences

CONSTANTS
    Words,        \* the words of a RuntimeReport
    MaxWindows,   \* bound: report windows that end
    MaxFaulty     \* bound: faults since the start

ASSUME ProcessAssumption ==
    /\ MaxWindows \in Nat
    /\ MaxFaulty \in Nat
    /\ Words # {}

VARIABLES
    main,          \* where main() is
    held,          \* how many of the resources are alive
    sig,           \* g_stop_requested
    ipcReady,      \* header->ready, seen by the Apps
    reporterStop,  \* reporter_stop
    startupReady,  \* startup_ready_
    window,        \* RuntimeReport of the current window
    carried,       \* history: the total with which the run loop began
    slot, full,    \* RuntimeReportMailbox: slot_, ready_
    filled,        \* words of slot the publisher has written
    reporter,      \* where the reporter is
    stopped, announced,   \* its locals
    report, copied,       \* its local copy, words copied so far
    accepted, printed     \* history: publish() returned true; printed

resources == <<main, held, ipcReady, reporterStop>>
publisher == <<startupReady, window, carried, filled, accepted>>
mailbox   == <<slot, full>>
reader    == <<reporter, stopped, announced, report, copied, printed>>
vars      == <<resources, sig, publisher, mailbox, reader>>

\* In the order main() acquires them.
Resources == <<"master", "ipc", "task">>
AllHeld == held = 3
Alive == {Resources[i] : i \in 1..held}

Windows == [window : 1..(MaxWindows + 1), faulty : 0..MaxFaulty, total : 0..MaxFaulty]

\* A report as the struct it is copied as.
Spread(x) == [w \in Words |-> x]

Init ==
    /\ main = "acquire" /\ held = 0 /\ sig \in BOOLEAN
    /\ ipcReady = FALSE /\ reporterStop = FALSE /\ startupReady = FALSE
    /\ window = [window |-> 1, faulty |-> 0, total |-> 0] /\ carried = 0
    /\ slot = Spread(window) /\ full = FALSE /\ filled = {}
    /\ reporter = "none" /\ stopped = FALSE /\ announced = FALSE
    /\ report = Spread(window) /\ copied = {}
    /\ accepted = <<>> /\ printed = <<>>

-----------------------------------------------------------------------------
(* main() up to the cyclic task.                                           *)

\* EthercatMaster::initialize, the creation and metadata of IPC, CyclicTask.
Acquire ==
    /\ main = "acquire" /\ held < 3
    /\ \/ held' = held + 1 /\ UNCHANGED main
       \/ held < 2 /\ main' = "unwind" /\ UNCHANGED held
    /\ UNCHANGED <<sig, ipcReady, reporterStop, publisher, mailbox, reader>>

StartReporter ==
    /\ main = "acquire" /\ AllHeld
    /\ \/ reporter' = "top" /\ main' = "publish"
       \/ main' = "unwind" /\ UNCHANGED reporter       \* std::thread threw
    /\ UNCHANGED <<held, sig, ipcReady, reporterStop, publisher, mailbox,
                   stopped, announced, report, copied, printed>>

PublishReady ==
    /\ main = "publish"
    /\ \/ ipcReady' = TRUE /\ main' = "realtime" /\ UNCHANGED reporterStop
       \/ reporterStop' = TRUE /\ main' = "join" /\ UNCHANGED ipcReady
    /\ UNCHANGED <<held, sig, publisher, mailbox, reader>>

ConfigureRealtime ==
    /\ main = "realtime"
    /\ main' \in {"startup", "withdraw"}
    /\ UNCHANGED <<held, sig, ipcReady, reporterStop, publisher, mailbox, reader>>

-----------------------------------------------------------------------------
(* CyclicTask::run.                                                        *)

\* The startup loop ends, and with it perhaps run(): the faults of the loop are
\* in the total, as missed_deadlines has them, and in no window.
LeaveStartup ==
    /\ main = "startup"
    /\ \/ /\ ~sig /\ startupReady' = TRUE /\ main' \in {"work", "withdraw"}
          /\ carried' \in 0..MaxFaulty
          /\ window' = [window EXCEPT !.total = carried']
       \/ main' = "withdraw" /\ UNCHANGED <<startupReady, window, carried>>
    /\ UNCHANGED <<held, sig, ipcReady, reporterStop, filled, accepted, mailbox, reader>>

\* Mutant of Counted: the total is taken from the windows that were accepted.
CountedInWindow(x, n) == [x EXCEPT !.faulty = @ + n]

\* What a cycle adds counts for its window and for the total.
Counted(x, n) ==
    [window |-> x.window, faulty |-> x.faulty + n, total |-> x.total + n]

\* One cycle, with any number of faults; with the last one of a window the
\* report is due.
Cycle ==
    /\ main = "work" /\ ~sig
    /\ \E n \in 0..(MaxFaulty - window.total) : window' = Counted(window, n)
    /\ \/ UNCHANGED main
       \/ window.window <= MaxWindows /\ main' = "offer"
    /\ UNCHANGED <<held, sig, ipcReady, reporterStop, startupReady, carried, filled,
                   accepted, mailbox, reader>>

\* A signal or an error ends run().
LeaveRun ==
    /\ main = "work"
    /\ main' = "withdraw"
    /\ UNCHANGED <<held, sig, ipcReady, reporterStop, publisher, mailbox, reader>>

\* window = {} after publish(), whatever that returned; the totals go on.
NextWindow ==
    window' = [window |-> window.window + 1, faulty |-> 0, total |-> window.total]

\* Mutant of Refused: the flag is not looked at.
RefusedUnseen == FALSE

\* ready_ is still set: the reporter did not take the last report yet.
Refused == full

\* Mutant of Drop: the publisher waits until the slot is free.
DropWaits == main = "offer" /\ Refused /\ UNCHANGED vars

\* RuntimeReportMailbox::publish: the report is dropped.
Drop ==
    /\ main = "offer" /\ Refused
    /\ NextWindow
    /\ main' = "work"
    /\ UNCHANGED <<held, sig, ipcReady, reporterStop, startupReady, carried, filled,
                   accepted, mailbox, reader>>

\* slot_ = report, word by word.
Fill(w) ==
    /\ main = "offer" /\ ~Refused /\ w \notin filled
    /\ slot' = [slot EXCEPT ![w] = window]
    /\ filled' = filled \union {w}
    /\ UNCHANGED <<resources, sig, startupReady, window, carried, accepted, full, reader>>

\* Mutant of Written: the flag is stored before the struct.
WrittenLater == TRUE

Written == filled = Words

Store ==
    /\ main = "offer" /\ ~Refused /\ Written
    /\ full' = TRUE
    /\ accepted' = Append(accepted, Spread(window))
    /\ filled' = {}
    /\ NextWindow
    /\ main' = "work"
    /\ UNCHANGED <<held, sig, ipcReady, reporterStop, startupReady, carried, slot, reader>>

-----------------------------------------------------------------------------
(* main() after the cyclic task.                                           *)

\* Mutant of Withdraw: the flag is left to the destructor of IPC.
WithdrawForgotten ==
    /\ main = "withdraw"
    /\ main' = "stop"
    /\ UNCHANGED <<held, sig, ipcReady, reporterStop, publisher, mailbox, reader>>

Withdraw ==
    /\ main = "withdraw"
    /\ ipcReady' = FALSE
    /\ main' = "stop"
    /\ UNCHANGED <<held, sig, reporterStop, publisher, mailbox, reader>>

\* Mutant of StopReporter: the reporter is joined without being told to stop.
StopReporterUntold ==
    /\ main = "stop"
    /\ main' = "join"
    /\ UNCHANGED <<held, sig, ipcReady, reporterStop, publisher, mailbox, reader>>

StopReporter ==
    /\ main = "stop"
    /\ reporterStop' = TRUE
    /\ main' = "join"
    /\ UNCHANGED <<held, sig, ipcReady, publisher, mailbox, reader>>

\* Mutant of Joined: the reporter is detached.
JoinedNever == TRUE

Joined == reporter = "done"

Join ==
    /\ main = "join" /\ Joined
    /\ main' = "unwind"
    /\ UNCHANGED <<held, sig, ipcReady, reporterStop, publisher, mailbox, reader>>

\* Local objects are destroyed in the reverse order of their construction.
Unwind ==
    /\ main = "unwind"
    /\ IF held = 0 THEN main' = "exit" /\ UNCHANGED held
       ELSE held' = held - 1 /\ UNCHANGED main
    /\ UNCHANGED <<sig, ipcReady, reporterStop, publisher, mailbox, reader>>

-----------------------------------------------------------------------------
(* The reporter.                                                           *)

Top ==
    /\ reporter = "top"
    /\ stopped' = reporterStop
    /\ reporter' = IF reporterStop THEN "announce" ELSE "command"
    /\ UNCHANGED <<resources, sig, publisher, mailbox, announced, report, copied, printed>>

\* processCommand, as long as it takes.
Command ==
    /\ reporter = "command"
    /\ reporter' = "announce"
    /\ UNCHANGED <<resources, sig, publisher, mailbox, stopped, announced, report,
                   copied, printed>>

Announce ==
    /\ reporter = "announce"
    /\ announced' = (announced \/ startupReady)
    /\ reporter' = "look"
    /\ UNCHANGED <<resources, sig, publisher, mailbox, stopped, report, copied, printed>>

\* Mutant of AfterTake: the flag reporter_stop is read again at the end.
AfterTakeRereads == IF reporterStop THEN "done" ELSE "top"

\* Round again, unless the flag was set when this round began.
AfterTake == IF stopped THEN "done" ELSE "top"

\* RuntimeReportMailbox::consume: nothing there.
NothingThere ==
    /\ reporter = "look" /\ ~full
    /\ reporter' = AfterTake
    /\ UNCHANGED <<resources, sig, publisher, mailbox, stopped, announced, report,
                   copied, printed>>

\* report = slot_, word by word.
CopyOut(w) ==
    /\ reporter = "look" /\ full /\ w \notin copied
    /\ report' = [report EXCEPT ![w] = slot[w]]
    /\ copied' = copied \union {w}
    /\ UNCHANGED <<resources, sig, publisher, mailbox, reporter, stopped, announced, printed>>

\* ready_ is cleared, the copy is printed.
Release ==
    /\ reporter = "look" /\ full /\ copied = Words
    /\ full' = FALSE
    /\ copied' = {}
    /\ printed' = Append(printed, report)
    /\ reporter' = AfterTake
    /\ UNCHANGED <<resources, sig, publisher, slot, stopped, announced, report>>

-----------------------------------------------------------------------------

Signal ==
    /\ main # "exit" /\ ~sig
    /\ sig' = TRUE
    /\ UNCHANGED <<resources, publisher, mailbox, reader>>

Main ==
    \/ Acquire \/ StartReporter \/ PublishReady \/ ConfigureRealtime
    \/ LeaveStartup \/ Cycle \/ LeaveRun \/ Drop \/ Store
    \/ \E w \in Words : Fill(w)
    \/ Withdraw \/ StopReporter \/ Join \/ Unwind

Reporter ==
    \/ Top \/ Command \/ Announce \/ NothingThere \/ Release
    \/ \E w \in Words : CopyOut(w)

Exited == main = "exit" /\ UNCHANGED vars

Next == Main \/ Reporter \/ Signal \/ Exited

\* The main thread runs (at real-time priority while it is cyclic).
Spec == Init /\ [][Next]_vars /\ WF_vars(Main)

-----------------------------------------------------------------------------
(* Properties.                                                             *)

MainPcs == {"acquire", "publish", "realtime", "startup", "work", "offer",
            "withdraw", "stop", "join", "unwind", "exit"}
ReporterPcs == {"none", "top", "command", "announce", "look", "done"}

TypeOK ==
    /\ main \in MainPcs /\ reporter \in ReporterPcs
    /\ held \in 0..3
    /\ sig \in BOOLEAN /\ ipcReady \in BOOLEAN /\ reporterStop \in BOOLEAN
    /\ startupReady \in BOOLEAN /\ full \in BOOLEAN
    /\ stopped \in BOOLEAN /\ announced \in BOOLEAN
    /\ window \in Windows /\ carried \in 0..MaxFaulty
    /\ slot \in [Words -> Windows] /\ report \in [Words -> Windows]
    /\ filled \subseteq Words /\ copied \subseteq Words
    /\ accepted \in Seq([Words -> Windows]) /\ printed \in Seq([Words -> Windows])

Channel == INSTANCE ReportChannel
    WITH Reports <- {Spread(x) : x \in Windows}, delivered <- printed

\* The mailbox is the channel: no torn, lost, repeated or reordered report,
\* although its slot is copied while the other thread runs.
IsChannel == Channel!Spec

Running == reporter \notin {"none", "done"}

\* When the reporter has ended, every report that was accepted is out, the last
\* one included, and readiness, if it was reached, has been announced.
DrainedAtExit ==
    reporter = "done" => printed = accepted /\ announced = startupReady

\* A dropped report costs its window only: totals hold every fault counted
\* before, those of the startup loop included, and of adjacent windows nothing
\* is missing in between.
FaultsAccounted ==
    \A i \in 1..Len(printed), w \in Words :
        LET this   == printed[i][w]
            before == IF i = 1 THEN [window |-> 0, total |-> carried]
                      ELSE [window |-> printed[i-1][w].window, total |-> printed[i-1][w].total]
        IN  /\ this.total >= before.total + this.faulty
            /\ this.window > before.window
            /\ this.window = before.window + 1 => this.total = before.total + this.faulty

\* While an App finds the ABI ready there is a reporter to serve its commands,
\* one that was not told to stop.
ReadyMeansServed == ipcReady => Running /\ ~reporterStop

\* The threads use nothing that was released.
NothingReleasedInUse ==
    Running \/ main \in {"startup", "work", "offer"} => AllHeld

\* A stop request is followed by the end of the process, unless the reporter,
\* which has normal priority, is starved for ever.
SignalEnds == WF_vars(Reporter) => (sig ~> main = "exit")

\* The reporter cannot hold up the cyclic thread: a stop request ends the cycles
\* even if the reporter never gets to run again.
CyclesEnd == sig /\ main \in {"startup", "work", "offer"} ~> main = "withdraw"

\* As architecture.md has it: IPC is unmapped after the master is released.
MasterFirst ==
    [][main = "unwind" /\ "ipc" \in Alive /\ "ipc" \notin Alive' => "master" \notin Alive]_vars
=============================================================================
