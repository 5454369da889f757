---------------------------- MODULE ProcessProofs ----------------------------
(***************************************************************************)
(* Theorems about main(), the reporter and the mailbox between them, for   *)
(* every number of words in a report and any number of windows.            *)
(***************************************************************************)
EXTENDS Process, TLAPS

Structs == [Words -> Windows]

\* The part of the type invariant the argument needs.
Typed ==
    /\ main \in MainPcs /\ reporter \in ReporterPcs /\ held \in Int
    /\ window \in Windows /\ carried \in 0..MaxFaulty
    /\ slot \in Structs /\ report \in Structs
    /\ filled \subseteq Words /\ copied \subseteq Words
    /\ accepted \in Seq(Structs) /\ printed \in Seq(Structs)
    /\ announced \in BOOLEAN /\ startupReady \in BOOLEAN

\* Which way main() has gone says what is alive, visible and running.
LifeInv ==
    /\ main = "acquire" => reporter = "none" /\ ~ipcReady /\ ~reporterStop
    /\ main \in {"publish", "stop"} => AllHeld /\ Running /\ ~ipcReady /\ ~reporterStop
    /\ main \in {"realtime", "startup", "work", "offer", "withdraw"} =>
         AllHeld /\ Running /\ ~reporterStop
    /\ main = "join" => AllHeld /\ reporter # "none" /\ ~ipcReady /\ reporterStop
    /\ main \in {"unwind", "exit"} => reporter \in {"none", "done"} /\ ~ipcReady

\* The flag is only ever raised, so what the reporter saw stays true.
StopInv == (stopped => reporterStop) /\ (reporter = "done" => stopped)

\* The flag of the mailbox tells whether one report is on its way.
SlotInv ==
    /\ full => accepted = Append(printed, slot)
    /\ ~full => accepted = printed

\* A half-written slot belongs to the publisher, a half-copied one to the reader.
FillInv ==
    /\ filled # {} => main = "offer" /\ ~full
    /\ \A w \in filled : slot[w] = window
CopyInv ==
    /\ copied # {} => reporter = "look" /\ full
    /\ \A w \in copied : report[w] = slot[w]

\* Once the reporter knows that it is the last round, nothing new comes.
LastRoundInv ==
    /\ announced => startupReady
    /\ stopped /\ reporter \in {"look", "done"} => (startupReady => announced)
    /\ reporter = "done" => ~full

\* A report is due only for windows within the bound; its faults are in the
\* total; before the run loop there is neither.
WindowInv ==
    /\ main = "offer" => window.window <= MaxWindows
    /\ window.faulty <= window.total
    /\ main \in {"acquire", "publish", "realtime", "startup"} =>
         window = [window |-> 1, faulty |-> 0, total |-> 0] /\ accepted = <<>>

IInv == /\ Typed /\ LifeInv /\ StopInv /\ SlotInv
        /\ FillInv /\ CopyInv /\ LastRoundInv /\ WindowInv

LEMMA InitIInv == Init => IInv
<1> SUFFICES ASSUME Init PROVE IInv
  OBVIOUS
<1>1. window \in Windows /\ carried \in 0..MaxFaulty
  BY ProcessAssumption DEF Init, Windows
<1>2. Spread(window) \in Structs
  BY <1>1 DEF Spread, Structs
<1>3. announced \in BOOLEAN /\ startupReady \in BOOLEAN
  BY DEF Init
<1>4. Typed
  BY <1>1, <1>2, <1>3 DEF Init, Typed, MainPcs, ReporterPcs
<1> QED
  BY <1>4 DEF Init, IInv, LifeInv, StopInv, SlotInv, FillInv, CopyInv, LastRoundInv, WindowInv

\* The faults of the startup loop are nobody's but the total's.
LEMMA StartupTyped ==
    ASSUME NEW t \in 0..MaxFaulty, window = [window |-> 1, faulty |-> 0, total |-> 0],
           window' = [window EXCEPT !.total = t]
    PROVE  /\ window' \in Windows /\ window'.window = 1
           /\ window'.faulty = 0 /\ window'.total = t
           /\ window'.faulty <= window'.total
<1>1. window' = [window |-> 1, faulty |-> 0, total |-> t]
  OBVIOUS
<1> QED
  BY <1>1, ProcessAssumption DEF Windows

\* The steps of main() outside the cyclic task.
LEMMA LifecycleIInv ==
    ASSUME IInv, \/ Acquire \/ StartReporter \/ PublishReady \/ ConfigureRealtime
                 \/ LeaveStartup \/ LeaveRun \/ Withdraw \/ StopReporter \/ Join \/ Unwind
    PROVE  IInv'
<1> USE DEF IInv, Typed, MainPcs, ReporterPcs, AllHeld, Running, mailbox, reader, publisher
<1>1. CASE Acquire
  BY <1>1 DEF Acquire, LifeInv, StopInv, SlotInv, FillInv, CopyInv, LastRoundInv, WindowInv
<1>2. CASE StartReporter
  BY <1>2 DEF StartReporter, LifeInv, StopInv, SlotInv, FillInv, CopyInv, LastRoundInv, WindowInv
<1>3. CASE PublishReady
  BY <1>3 DEF PublishReady, LifeInv, StopInv, SlotInv, FillInv, CopyInv, LastRoundInv, WindowInv
<1>4. CASE ConfigureRealtime
  BY <1>4 DEF ConfigureRealtime, LifeInv, StopInv, SlotInv, FillInv, CopyInv, LastRoundInv, WindowInv
<1>5. CASE LeaveStartup
  <2>1. filled = {}
    BY <1>5 DEF LeaveStartup, FillInv
  <2>2. /\ window' \in Windows /\ carried' \in 0..MaxFaulty
        /\ window'.faulty <= window'.total
    BY <1>5, StartupTyped DEF LeaveStartup, WindowInv
  <2>3. Typed'
    BY <1>5, <2>2 DEF LeaveStartup
  <2>4. WindowInv'
    BY <1>5, <2>2 DEF LeaveStartup, WindowInv
  <2> QED
    BY <1>5, <2>1, <2>3, <2>4 DEF LeaveStartup, LifeInv, StopInv, SlotInv, FillInv, CopyInv,
       LastRoundInv
<1>6. CASE LeaveRun
  BY <1>6 DEF LeaveRun, LifeInv, StopInv, SlotInv, FillInv, CopyInv, LastRoundInv, WindowInv
<1>7. CASE Withdraw
  BY <1>7 DEF Withdraw, LifeInv, StopInv, SlotInv, FillInv, CopyInv, LastRoundInv, WindowInv
<1>8. CASE StopReporter
  BY <1>8 DEF StopReporter, LifeInv, StopInv, SlotInv, FillInv, CopyInv, LastRoundInv, WindowInv
<1>9. CASE Join
  BY <1>9 DEF Join, Joined, LifeInv, StopInv, SlotInv, FillInv, CopyInv, LastRoundInv, WindowInv
<1>10. CASE Unwind
  BY <1>10 DEF Unwind, LifeInv, StopInv, SlotInv, FillInv, CopyInv, LastRoundInv, WindowInv
<1> QED
  BY <1>1, <1>2, <1>3, <1>4, <1>5, <1>6, <1>7, <1>8, <1>9, <1>10

LEMMA NextWindowTyped ==
    ASSUME Typed, NextWindow, window.window <= MaxWindows
    PROVE  /\ window' \in Windows
           /\ window'.window = window.window + 1
           /\ window'.faulty = 0 /\ window'.total = window.total
<1>1. PICK n \in 1..(MaxWindows + 1), f \in 0..MaxFaulty, t \in 0..MaxFaulty :
        window = [window |-> n, faulty |-> f, total |-> t]
  BY DEF Typed, Windows
<1>2. n + 1 \in 1..(MaxWindows + 1)
  BY <1>1, ProcessAssumption
<1>3. window' = [window |-> n + 1, faulty |-> 0, total |-> t]
  BY <1>1 DEF NextWindow
<1>4. 0 \in 0..MaxFaulty
  BY ProcessAssumption
<1> QED
  BY <1>1, <1>2, <1>3, <1>4 DEF Windows

LEMMA CountedTyped ==
    ASSUME Typed, window.faulty <= window.total, NEW n \in 0..(MaxFaulty - window.total)
    PROVE  /\ n \in Nat
           /\ Counted(window, n) \in Windows
           /\ Counted(window, n).window = window.window
           /\ Counted(window, n).faulty = window.faulty + n
           /\ Counted(window, n).total = window.total + n
<1>1. PICK k \in 1..(MaxWindows + 1), f \in 0..MaxFaulty, t \in 0..MaxFaulty :
        window = [window |-> k, faulty |-> f, total |-> t]
  BY DEF Typed, Windows
<1>2. window.window = k /\ window.faulty = f /\ window.total = t
  BY <1>1
<1>3. Counted(window, n) = [window |-> k, faulty |-> f + n, total |-> t + n]
  BY <1>2 DEF Counted
<1>4. n \in Nat /\ f + n \in 0..MaxFaulty /\ t + n \in 0..MaxFaulty
  BY <1>2, ProcessAssumption
<1> QED
  BY <1>2, <1>3, <1>4 DEF Windows

LEMMA CycleIInv == ASSUME IInv, Cycle PROVE IInv'
<1> USE DEF IInv
<1>1. PICK n \in 0..(MaxFaulty - window.total) : window' = Counted(window, n)
  BY DEF Cycle
<1>2. /\ n \in Nat /\ window' \in Windows /\ window'.window = window.window
      /\ window'.faulty = window.faulty + n /\ window'.total = window.total + n
  BY <1>1, CountedTyped DEF WindowInv
<1>3. window.faulty \in Int /\ window.total \in Int
  BY DEF Typed, Windows
<1>4. Typed'
  BY <1>2 DEF Cycle, Typed, MainPcs, mailbox, reader
<1>5. WindowInv'
  BY <1>2, <1>3 DEF Cycle, WindowInv
<1> QED
  BY <1>4, <1>5 DEF Cycle, AllHeld, Running, mailbox, reader,
            LifeInv, StopInv, SlotInv, FillInv, CopyInv, LastRoundInv

LEMMA DropIInv == ASSUME IInv, Drop PROVE IInv'
<1> USE DEF IInv
<1>1. main = "offer" /\ full /\ filled = {}
  BY DEF Drop, Refused, FillInv
<1>2. /\ window' \in Windows /\ window'.faulty = 0 /\ window'.total = window.total
  BY <1>1, NextWindowTyped DEF Drop, WindowInv
<1>3. Typed'
  BY <1>2 DEF Drop, Typed, MainPcs, mailbox, reader
<1>4. WindowInv'
  BY <1>2 DEF Drop, WindowInv, Windows
<1> QED
  BY <1>1, <1>3, <1>4 DEF Drop, AllHeld, Running, mailbox, reader,
              LifeInv, StopInv, SlotInv, FillInv, CopyInv, LastRoundInv

LEMMA FillIInv == ASSUME IInv, NEW w \in Words, Fill(w) PROVE IInv'
<1> USE DEF IInv
<1>1. main = "offer" /\ ~full /\ copied = {}
  BY DEF Fill, Refused, CopyInv
<1>2. Typed'
  BY DEF Fill, Typed, Structs, resources, reader
<1>3. FillInv'
  BY <1>1 DEF Fill, FillInv, Typed, Structs, resources
<1> QED
  BY <1>1, <1>2, <1>3 DEF Fill, AllHeld, Running, resources, reader,
              LifeInv, StopInv, SlotInv, CopyInv, LastRoundInv, WindowInv

LEMMA StoreIInv == ASSUME IInv, Store PROVE IInv'
<1> USE DEF IInv
<1>1. main = "offer" /\ ~full /\ filled = Words /\ copied = {} /\ accepted = printed
  BY DEF Store, Refused, Written, CopyInv, SlotInv
<1>2. /\ window' \in Windows /\ window'.faulty = 0 /\ window'.total = window.total
  BY <1>1, NextWindowTyped DEF Store, WindowInv
<1>3. slot = Spread(window)
  BY <1>1 DEF FillInv, Spread, Typed, Structs
<1>4. accepted' = Append(printed, slot)
  BY <1>1, <1>3 DEF Store
<1>5. Typed'
  BY <1>1, <1>2, <1>4 DEF Store, Typed, MainPcs, reader
<1>6. WindowInv'
  BY <1>2 DEF Store, WindowInv, Windows
<1>7. reporter # "done"
  BY <1>1 DEF LifeInv, Running
<1> QED
  BY <1>1, <1>4, <1>5, <1>6, <1>7 DEF Store, AllHeld, Running, reader,
              LifeInv, StopInv, SlotInv, FillInv, CopyInv, LastRoundInv

LEMMA CopyOutIInv == ASSUME IInv, NEW w \in Words, CopyOut(w) PROVE IInv'
<1> USE DEF IInv
<1>1. Typed'
  BY DEF CopyOut, Typed, Structs, resources, publisher, mailbox
<1>2. CopyInv'
  BY DEF CopyOut, CopyInv, Typed, Structs, mailbox
<1> QED
  BY <1>1, <1>2 DEF CopyOut, AllHeld, Running, resources, publisher, mailbox,
              LifeInv, StopInv, SlotInv, FillInv, LastRoundInv, WindowInv

LEMMA ReleaseIInv == ASSUME IInv, Release PROVE IInv'
<1> USE DEF IInv
<1>1. reporter = "look" /\ full /\ copied = Words /\ filled = {}
  BY DEF Release, FillInv
<1>2. report = slot
  BY <1>1 DEF CopyInv, Typed, Structs
<1>3. accepted' = printed'
  BY <1>1, <1>2 DEF Release, SlotInv, publisher
<1>4. Typed'
  BY <1>1 DEF Release, AfterTake, Typed, ReporterPcs, resources, publisher
<1> QED
  BY <1>1, <1>3, <1>4 DEF Release, AfterTake, AllHeld, Running, resources, publisher,
              LifeInv, StopInv, SlotInv, FillInv, CopyInv, LastRoundInv, WindowInv

\* The steps of the reporter that leave the mailbox alone, and the signal.
LEMMA ReporterIInv ==
    ASSUME IInv, Top \/ Command \/ Announce \/ NothingThere \/ Signal
    PROVE  IInv'
<1> USE DEF IInv, Typed, ReporterPcs, AllHeld, Running, mailbox, publisher, resources
<1>1. CASE Top
  BY <1>1 DEF Top, LifeInv, StopInv, SlotInv, FillInv, CopyInv, LastRoundInv, WindowInv
<1>2. CASE Command
  BY <1>2 DEF Command, LifeInv, StopInv, SlotInv, FillInv, CopyInv, LastRoundInv, WindowInv
<1>3. CASE Announce
  BY <1>3 DEF Announce, LifeInv, StopInv, SlotInv, FillInv, CopyInv, LastRoundInv, WindowInv
<1>4. CASE NothingThere
  BY <1>4 DEF NothingThere, AfterTake, LifeInv, StopInv, SlotInv, FillInv, CopyInv,
              LastRoundInv, WindowInv
<1>5. CASE Signal
  BY <1>5 DEF Signal, reader, LifeInv, StopInv, SlotInv, FillInv, CopyInv,
              LastRoundInv, WindowInv
<1> QED
  BY <1>1, <1>2, <1>3, <1>4, <1>5

LEMMA NextIInv == IInv /\ [Next]_vars => IInv'
<1> SUFFICES ASSUME IInv, [Next]_vars PROVE IInv'
  OBVIOUS
<1>1. CASE UNCHANGED vars
  BY <1>1 DEF vars, resources, publisher, mailbox, reader, IInv, Typed, AllHeld, Running,
     LifeInv, StopInv, SlotInv, FillInv, CopyInv, LastRoundInv, WindowInv
<1>2. CASE Main
  BY <1>2, LifecycleIInv, CycleIInv, DropIInv, FillIInv, StoreIInv DEF Main
<1>3. CASE Reporter
  BY <1>3, ReporterIInv, CopyOutIInv, ReleaseIInv DEF Reporter
<1> QED
  BY <1>1, <1>2, <1>3, ReporterIInv DEF Next, Exited

LEMMA Invariance == Spec => []IInv
  BY InitIInv, NextIInv, PTL DEF Spec

\* The mailbox is the channel: every step of the two threads is one of the
\* channel or leaves it alone.
THEOREM MailboxIsChannel == Spec => IsChannel
<1>1. Init => Channel!Init
  BY DEF Init, Channel!Init
<1>2. IInv /\ [Next]_vars => [Channel!Next]_<<accepted, printed>>
  <2> SUFFICES ASSUME IInv, Next PROVE [Channel!Next]_<<accepted, printed>>
    BY DEF vars, publisher, reader
  <2>0. accepted \in Seq(Structs) /\ printed \in Seq(Structs)
    BY DEF IInv, Typed
  <2>1. CASE Store
    <3>1. accepted = printed
      BY <2>1 DEF Store, Refused, IInv, SlotInv
    <3>2. accepted' = Append(accepted, Spread(window)) /\ printed' = printed
      BY <2>1 DEF Store, reader
    <3>3. window \in Windows
      BY DEF IInv, Typed
    <3> QED
      BY <3>1, <3>2, <3>3 DEF Channel!Next, Channel!Accept
  <2>2. CASE Release
    <3>1. accepted = Append(printed, slot) /\ slot \in Structs
      BY <2>2 DEF Release, IInv, SlotInv, Typed
    <3>2. report = slot
      BY <2>2 DEF Release, IInv, CopyInv, Typed, Structs
    <3>3. Len(accepted) = Len(printed) + 1 /\ accepted[Len(printed) + 1] = slot
      BY <2>0, <3>1
    <3>4. Len(accepted) > Len(printed)
      BY <2>0, <3>3
    <3>5. printed' = Append(printed, slot) /\ accepted' = accepted
      BY <2>2, <3>2 DEF Release, publisher
    <3> QED
      BY <3>3, <3>4, <3>5 DEF Channel!Next, Channel!Deliver
  <2>3. CASE ~Store /\ ~Release
    BY <2>3 DEF Next, Main, Reporter, Signal, Exited, Acquire, StartReporter, PublishReady,
       ConfigureRealtime, LeaveStartup, Cycle, LeaveRun, Drop, Fill, Withdraw, StopReporter,
       Join, Unwind, Top, Command, Announce, NothingThere, CopyOut, vars, publisher, reader
  <2> QED
    BY <2>1, <2>2, <2>3
<1> QED
  BY <1>1, <1>2, Invariance, PTL
  DEF Spec, IsChannel, Channel!Spec, Channel!channel

\* The reporter never leaves a report behind that publish() accepted, nor the
\* announcement of readiness.
THEOREM NothingLeftBehind == Spec => []DrainedAtExit
<1>1. IInv => DrainedAtExit
  <2> SUFFICES ASSUME IInv, reporter = "done"
               PROVE  printed = accepted /\ announced = startupReady
    BY DEF DrainedAtExit
  <2>1. printed = accepted
    BY DEF IInv, SlotInv, LastRoundInv
  <2>2. announced <=> startupReady
    BY DEF IInv, StopInv, LastRoundInv
  <2>3. announced \in BOOLEAN /\ startupReady \in BOOLEAN
    BY DEF IInv, Typed
  <2> QED
    BY <2>1, <2>2, <2>3
<1> QED
  BY <1>1, Invariance, PTL

\* The ABI is ready only while somebody answers commands.
THEOREM ReadyIsServed == Spec => []ReadyMeansServed
<1>1. IInv => ReadyMeansServed
  BY DEF IInv, Typed, MainPcs, LifeInv, ReadyMeansServed
<1> QED
  BY <1>1, Invariance, PTL

\* Nothing is released under a running thread.
THEOREM ReleasedAfterUse == Spec => []NothingReleasedInUse
<1>1. IInv => NothingReleasedInUse
  BY DEF IInv, Typed, MainPcs, LifeInv, Running, NothingReleasedInUse
<1> QED
  BY <1>1, Invariance, PTL

-----------------------------------------------------------------------------
(* Types.                                                                  *)

\* What Typed leaves out of the type invariant.
RestTyped ==
    /\ held \in 0..3
    /\ sig \in BOOLEAN /\ ipcReady \in BOOLEAN /\ reporterStop \in BOOLEAN
    /\ full \in BOOLEAN /\ stopped \in BOOLEAN

LEMMA RestNext == RestTyped /\ [Next]_vars => RestTyped'
<1> SUFFICES ASSUME RestTyped, [Next]_vars PROVE RestTyped'
  OBVIOUS
<1>1. held' \in 0..3
  BY DEF RestTyped, AllHeld, Next, Main, Reporter, Signal, Exited, Acquire, StartReporter,
     PublishReady, ConfigureRealtime, LeaveStartup, Cycle, LeaveRun, Drop, Fill, Store, Withdraw,
     StopReporter, Join, Unwind, Top, Command, Announce, NothingThere, CopyOut, Release,
     vars, resources
<1>2. sig' \in BOOLEAN /\ ipcReady' \in BOOLEAN /\ reporterStop' \in BOOLEAN
  BY DEF RestTyped, Next, Main, Reporter, Signal, Exited, Acquire, StartReporter,
     PublishReady, ConfigureRealtime, LeaveStartup, Cycle, LeaveRun, Drop, Fill, Store, Withdraw,
     StopReporter, Join, Unwind, Top, Command, Announce, NothingThere, CopyOut, Release,
     vars, resources
<1>3. full' \in BOOLEAN /\ stopped' \in BOOLEAN
  BY DEF RestTyped, Next, Main, Reporter, Signal, Exited, Acquire, StartReporter,
     PublishReady, ConfigureRealtime, LeaveStartup, Cycle, LeaveRun, Drop, Fill, Store, Withdraw,
     StopReporter, Join, Unwind, Top, Command, Announce, NothingThere, CopyOut, Release,
     vars, resources, mailbox, reader
<1> QED
  BY <1>1, <1>2, <1>3 DEF RestTyped

\* The types of main(), the mailbox and the reporter.
THEOREM TypeCorrect == Spec => []TypeOK
<1>1. Init => RestTyped
  <2> SUFFICES ASSUME Init PROVE RestTyped
    OBVIOUS
  <2>1. held \in 0..3
    BY DEF Init
  <2>2. sig \in BOOLEAN /\ ipcReady \in BOOLEAN /\ reporterStop \in BOOLEAN
    BY DEF Init
  <2>3. full \in BOOLEAN /\ stopped \in BOOLEAN
    BY DEF Init
  <2> QED
    BY <2>1, <2>2, <2>3 DEF RestTyped
<1>2. IInv /\ RestTyped => TypeOK
  BY DEF IInv, Typed, RestTyped, TypeOK, Structs
<1> QED
  BY <1>1, <1>2, RestNext, Invariance, PTL DEF Spec

-----------------------------------------------------------------------------
(* The ledger of faults.                                                   *)

\* What the first report follows: the run loop begins with the startup's total.
Nothing == [window |-> 0, total |-> carried]

\* The report before the i-th of s, as word w has it.
Prior(s, i, w) ==
    IF i = 1 THEN Nothing ELSE [window |-> s[i-1][w].window, total |-> s[i-1][w].total]

\* What FaultsAccounted says of two reports in a row.
Follows(this, before) ==
    /\ this.total >= before.total + this.faulty
    /\ this.window > before.window
    /\ this.window = before.window + 1 => this.total = before.total + this.faulty

\* The accepted reports follow each other, and the current window the last one.
Ledger ==
    /\ \A i \in 1..Len(accepted), w \in Words : Follows(accepted[i][w], Prior(accepted, i, w))
    /\ \A w \in Words : Follows(window, Prior(accepted, Len(accepted) + 1, w))

LEMMA WindowNumbers ==
    ASSUME NEW x \in Windows
    PROVE  x.window \in Nat /\ x.faulty \in Nat /\ x.total \in Nat
BY ProcessAssumption DEF Windows

LEMMA PriorNumbers ==
    ASSUME NEW s \in Seq(Structs), NEW i \in 1..(Len(s) + 1), NEW w \in Words
    PROVE  carried \in 0..MaxFaulty =>
             Prior(s, i, w).window \in Nat /\ Prior(s, i, w).total \in Nat
<1>1. CASE i = 1
  BY <1>1, ProcessAssumption DEF Prior, Nothing
<1>2. CASE i # 1
  <2>1. s[i-1][w] \in Windows
    BY <1>2 DEF Structs
  <2> QED
    BY <1>2, <2>1, WindowNumbers DEF Prior
<1> QED
  BY <1>1, <1>2

LEMMA LedgerInit == Init => Ledger
<1> SUFFICES ASSUME Init PROVE Ledger
  OBVIOUS
<1>1. Len(accepted) = 0 /\ carried = 0 /\ window = [window |-> 1, faulty |-> 0, total |-> 0]
  BY DEF Init
<1> QED
  BY <1>1 DEF Ledger, Follows, Prior, Nothing

LEMMA FollowsOn ==
    ASSUME NEW x \in Windows, NEW y \in Windows, NEW p,
           p.window \in Nat, p.total \in Nat, Follows(x, p),
           NEW n \in Nat,
           \/ y.window = x.window /\ y.faulty = x.faulty + n /\ y.total = x.total + n
           \/ y.window = x.window + 1 /\ y.faulty = 0 /\ y.total = x.total
    PROVE  Follows(y, p)
<1>1. /\ x.window \in Nat /\ x.faulty \in Nat /\ x.total \in Nat
      /\ y.window \in Nat /\ y.faulty \in Nat /\ y.total \in Nat
  BY WindowNumbers
<1> QED
  BY <1>1 DEF Follows

\* Steps that leave the accepted reports alone move the window on.
LEMMA LedgerWindow ==
    ASSUME IInv, Ledger, UNCHANGED <<accepted, carried>>, window' \in Windows, NEW n \in Nat,
           \/ /\ window'.window = window.window
              /\ window'.faulty = window.faulty + n /\ window'.total = window.total + n
           \/ /\ window'.window = window.window + 1
              /\ window'.faulty = 0 /\ window'.total = window.total
    PROVE  Ledger'
<1>1. PICK next \in Windows : next = window'
  OBVIOUS
<1>2. \/ next.window = window.window /\ next.faulty = window.faulty + n
         /\ next.total = window.total + n
      \/ next.window = window.window + 1 /\ next.faulty = 0 /\ next.total = window.total
  BY <1>1
<1>3. accepted \in Seq(Structs) /\ window \in Windows /\ carried \in 0..MaxFaulty
  BY DEF IInv, Typed
<1>4. ASSUME NEW w \in Words
      PROVE  Follows(next, Prior(accepted, Len(accepted) + 1, w))
  <2> DEFINE p == Prior(accepted, Len(accepted) + 1, w)
  <2>1. p.window \in Nat /\ p.total \in Nat
    BY <1>3, PriorNumbers
  <2>2. Follows(window, p)
    BY DEF Ledger
  <2> QED
    BY <1>1, <1>3, <1>2, <2>1, <2>2, FollowsOn
<1> QED
  BY <1>1, <1>4 DEF Ledger, Prior, Nothing

LEMMA LedgerStore == ASSUME IInv, Ledger, Store PROVE Ledger'
<1> DEFINE n == Len(accepted) + 1
<1>1. accepted \in Seq(Structs) /\ window \in Windows /\ n \in Nat
  BY DEF IInv, Typed
<1>2. /\ window' \in Windows /\ window'.window = window.window + 1
      /\ window'.faulty = 0 /\ window'.total = window.total
  BY NextWindowTyped DEF IInv, Store, WindowInv
<1>3. PICK next \in Windows : next = window'
  BY <1>2
<1>4. PICK s : s = accepted'
  OBVIOUS
<1>5. s = Append(accepted, Spread(window)) /\ Spread(window) \in Structs
  BY <1>1, <1>4 DEF Store, Spread, Structs
<1>6. /\ Len(s) = n /\ s[n] = Spread(window)
      /\ \A i \in 1..Len(accepted) : s[i] = accepted[i]
  BY <1>1, <1>5
<1>7. ASSUME NEW i \in 1..n, NEW w \in Words PROVE Follows(s[i][w], Prior(s, i, w))
  <2>1. Prior(s, i, w) = Prior(accepted, i, w)
    BY <1>1, <1>6 DEF Prior
  <2>2. CASE i = n
    <3>1. s[i][w] = window
      BY <1>6, <2>2 DEF Spread
    <3> QED
      BY <2>1, <2>2, <3>1 DEF Ledger
  <2>3. CASE i # n
    <3>1. i \in 1..Len(accepted)
      BY <1>1, <2>3
    <3> QED
      BY <1>6, <2>1, <3>1 DEF Ledger
  <2> QED
    BY <2>2, <2>3
<1>8. ASSUME NEW w \in Words PROVE Follows(next, Prior(s, n + 1, w))
  <2>1. s[n][w] = window /\ n + 1 # 1 /\ (n + 1) - 1 = n
    BY <1>1, <1>6 DEF Spread
  <2>2. Prior(s, n + 1, w) = [window |-> window.window, total |-> window.total]
    <3> HIDE DEF n
    <3> QED
      BY <2>1 DEF Prior
  <2>3. window.window \in Nat /\ window.total \in Nat
    BY <1>1, WindowNumbers
  <2> QED
    BY <1>2, <1>3, <2>2, <2>3 DEF Follows
<1>0. UNCHANGED carried
  BY DEF Store
<1>9. Ledger' = /\ \A i \in 1..Len(s), w \in Words : Follows(s[i][w], Prior(s, i, w))
                /\ \A w \in Words : Follows(next, Prior(s, Len(s) + 1, w))
  BY <1>0, <1>3, <1>4 DEF Ledger, Prior, Nothing
<1> QED
  BY <1>6, <1>7, <1>8, <1>9

LEMMA LedgerNext == IInv /\ Ledger /\ [Next]_vars => Ledger'
<1> SUFFICES ASSUME IInv, Ledger, [Next]_vars PROVE Ledger'
  OBVIOUS
<1>1. CASE Store
  BY <1>1, LedgerStore
<1>2. CASE Drop
  <2>1. UNCHANGED <<accepted, carried>>
    BY <1>2 DEF Drop
  <2>2. /\ window' \in Windows /\ window'.window = window.window + 1
        /\ window'.faulty = 0 /\ window'.total = window.total
    BY <1>2, NextWindowTyped DEF IInv, Drop, WindowInv
  <2> QED
    BY <2>1, <2>2, LedgerWindow
<1>3. CASE Cycle
  <2>1. UNCHANGED <<accepted, carried>>
    BY <1>3 DEF Cycle
  <2>2. PICK n \in 0..(MaxFaulty - window.total) : window' = Counted(window, n)
    BY <1>3 DEF Cycle
  <2>3. /\ n \in Nat /\ window' \in Windows /\ window'.window = window.window
        /\ window'.faulty = window.faulty + n /\ window'.total = window.total + n
    BY <2>2, CountedTyped DEF IInv, WindowInv
  <2> QED
    BY <2>1, <2>3, LedgerWindow
<1>4. CASE LeaveStartup /\ window' = [window EXCEPT !.total = carried']
                       /\ carried' \in 0..MaxFaulty
  <2>1. /\ accepted = <<>> /\ accepted' = <<>>
        /\ window = [window |-> 1, faulty |-> 0, total |-> 0]
    BY <1>4 DEF LeaveStartup, IInv, WindowInv
  <2>2. window'.window = 1 /\ window'.faulty = 0 /\ window'.total = carried'
    BY <1>4, <2>1, StartupTyped
  <2>3. Len(accepted') = 0
    BY <2>1
  <2> QED
    BY <1>4, <2>2, <2>3 DEF Ledger, Follows, Prior, Nothing
<1>5. CASE UNCHANGED <<accepted, window, carried>>
  BY <1>5 DEF Ledger, Prior, Nothing
<1>6. \/ Store \/ Drop \/ Cycle
      \/ /\ LeaveStartup /\ window' = [window EXCEPT !.total = carried']
         /\ carried' \in 0..MaxFaulty
      \/ UNCHANGED <<accepted, window, carried>>
  BY DEF Next, Main, Reporter, Signal, Exited, Acquire, StartReporter, PublishReady,
     ConfigureRealtime, LeaveStartup, LeaveRun, Fill, Withdraw, StopReporter,
     Join, Unwind, Top, Command, Announce, NothingThere, CopyOut, Release, vars, publisher
<1> QED
  BY <1>1, <1>2, <1>3, <1>4, <1>5, <1>6

\* A report that is dropped takes no fault with it but those of its window, and
\* those of the startup loop are in every total.
THEOREM FaultsKept == Spec => []FaultsAccounted
<1>1. IInv /\ Ledger => FaultsAccounted
  <2> SUFFICES ASSUME IInv, Ledger, NEW i \in 1..Len(printed), NEW w \in Words
               PROVE  Follows(printed[i][w], Prior(printed, i, w))
    BY DEF FaultsAccounted, Follows, Prior, Nothing
  <2>1. accepted \in Seq(Structs) /\ printed \in Seq(Structs)
    BY DEF IInv, Typed
  <2>2. /\ Len(printed) <= Len(accepted)
        /\ \A j \in 1..Len(printed) : accepted[j] = printed[j]
    <3>1. CASE full
      <4>1. accepted = Append(printed, slot) /\ slot \in Structs
        BY <3>1 DEF IInv, SlotInv, Typed
      <4> QED
        BY <2>1, <4>1
    <3>2. CASE ~full
      BY <2>1, <3>2 DEF IInv, SlotInv
    <3> QED
      BY <3>1, <3>2
  <2>3. i \in 1..Len(accepted) /\ accepted[i] = printed[i]
    BY <2>1, <2>2
  <2>4. Prior(accepted, i, w) = Prior(printed, i, w)
    BY <2>1, <2>2 DEF Prior
  <2>5. Follows(accepted[i][w], Prior(accepted, i, w))
    BY <2>3 DEF Ledger
  <2> QED
    BY <2>3, <2>4, <2>5
<1> QED
  BY <1>1, LedgerInit, LedgerNext, Invariance, PTL DEF Spec
=============================================================================
