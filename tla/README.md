# Formal models of rocos-igh

TLA+ models of the EtherCAT master process in `src/src`, model-checked with TLC
and, where marked, proved with TLAPS. Line references are to `src/src/` unless
they name another directory. The table in `PROJECT.json` ("map") gives the
source lines of every definition.

## 1. The system

`rocos-igh` is one process that drives an EtherCAT bus through the IgH master and
exposes the process data in shared memory (`rocos-shm`, a submodule that is not
part of this tree). It has two threads:

- the **main thread**: it configures the master and the IPC, becomes the
  real-time **cyclic thread** (`CyclicTask::run`) and tears everything down;
- the **reporter** (`main.cpp:287-343`): a normal-priority thread that
  executes commands of the Apps and prints reports.

Around them are the Apps (shared memory and the command mailbox), IgH and the
slaves (states, SDO answers, working counters), the signal handler, and whoever
edits the configuration file.

### Inventory

| component | state it keeps | operations | model |
|---|---|---|---|
| Startup loop and output gate: `cyclic_task.cpp` `run`, `startup_wait.hpp` | deadline, `initial_healthy_cycles`, `StartupWait::stable_count_`, `startup_ready_` | wake, poll, observe, step a read, send, open the gate | **StartupGate** |
| PDO verification in OP: `pdo_verification.cpp` `step`, `fail`, `abort` | `started_`, `busy_`, `cursor_`, `result_`, one SDO request object per slave | start a read, await it, compare, time out | **StartupGate** |
| PDO configuration in PREOP: `configurePreop` | attempt, `keep_mapping`, place in six write phases | guard, download, upload, compare, retry | **PreopConfig** |
| Preparation of the checks: `prepare` | `checks_`, `init_writes_` | flatten the slave configuration | **SlaveTables** |
| Deadlines: `advanceDeadline`, `run` | next deadline, phase origin, `missed_deadlines` | begin, wake, finish | **Deadline** |
| Statistics reset: `statistics_reset.hpp`, `applyStatisticsReset` | `requested_`, `acknowledged_`, timing aggregates | execute (worker), sample, reset, acknowledge (cyclic thread) | **StatisticsReset** |
| Report mailbox and reporter: `runtime_report.hpp`, `main.cpp` | slot and flag, windows and totals, the reporter's locals | publish, consume, announce | **Process**, **ReportChannel** |
| Start and teardown: `main.cpp` | what is acquired, `ready` of the ABI, `reporter_stop` | acquire, start, publish, withdraw, join, unwind | **Process** |
| Discovery and writeback: `pdo_discovery.cpp`, `pdo_config_file.cpp` | the configuration in memory, the file, a temporary file | read PDOs, compare, create, write, compare, rename | **ConfigWriteback** |
| Master lifecycle: `ethercat_master.cpp` | master and domain handles, `initialized_`, phase origin | initialize, wait for PREOP, activate, reset | **MasterStartup** |
| Bus publication: `updateSharedBus`, `summarizeBusState`, `publishSlaveRuntime` | the `EcatBus` in shared memory | publish, summarise | **BusPublication** |
| Process data: `process_data_layout.cpp`, `exchangeProcessData` | sizes of the two images | check the layout, copy | **SlaveTables** (layout), **StartupGate** (when) |
| Slave configuration, DC setup: `slave_config.cpp` | IgH tables, the views into them, `EcatBus` metadata, clock settings | build, validate, publish, choose the reference clock | **SlaveTables**, **StartupOptions** |
| YAML and ENI: `pdo_config.cpp`, `eni_config.cpp` | none (a file to a record) | select and order PDOs, check, lay settings over defaults | **SlaveTables** (slaves), **StartupOptions** (settings) |
| Command line: `runtime_options.cpp`, `main.cpp` | options, the flags seen | parse, parse again over the file's settings | **StartupOptions** |
| CPU affinity, real-time setup: `thread_affinity.cpp`, `main.cpp` | none here | probe, bind | **StartupOptions** (probe), **Process** (one step) |
| Startup report, console style | none | formatting | not modelled |

### How the parts interact

- The cyclic thread **polls** IgH once per cycle and **steps** the verification
  from inside the startup loop, so a blocking verification would stop the bus.
- IgH answers SDO requests between two cycles, in its own time, with what the
  device holds *then*.
- Cyclic thread and reporter share exactly: `startup_ready_` (one writer), the
  two ticket counters of `StatisticsReset` (one writer each), the mailbox slot
  (a plain struct) with one atomic flag, and `reporter_stop`.
- Apps see the ABI's `ready`, the aggregates and the process data. They write
  outputs at any time, long before the bus is in OP.
- Every cycle publishes what IgH says about the bus, field by field, while the bus
  changes; the Apps have one heartbeat to judge the age of all of it.
- One description of the slaves becomes five tables (sync managers, entries,
  offsets, checks, published variables) that later stages walk in parallel; discovery
  replaces the description while pointers into the old one exist.
- The command line is parsed twice, before and after the file it names is loaded.
- `initialize` runs discovery, writeback and the PREOP configuration, in this
  order and within one budget, before the cyclic thread exists.

### What is hard here

Every hazard is listed with its line and the properties about it in
`PROJECT.json`. They come down to these questions:

1. Is what the verification compared still true when outputs start to move? A
   slave can leave OP, be reconfigured by IgH, and come back between two polls.
2. Do budgets really bound the startup, under late wakes, busy requests, an
   unhealthy bus and retries?
3. Does a write order that works from factory defaults work from *any* content,
   including what a failed attempt has left behind?
4. Do the two lock-free protocols (mailbox, tickets) keep their promises when the
   other thread runs between any two memory accesses?
5. Does every error path stop, join and release in an order that leaves no
   thread with freed memory and no App with a dead command worker?
6. Is the configuration file whole at every instant, under kills and editors?
7. Does the arithmetic of deadlines neither drift, nor burst, nor give up slots?
8. Does `initialize` end, within its one budget, with a complete master or with none?
9. What does the heartbeat say about the fields around it, when nothing is read or
   written as a snapshot?
10. Do the parallel walks over sync managers, entries, offsets and checks agree, so
    that a variable an App writes is the object it is named for, and the one that was verified?
11. Does the program run with the period, clocks and CPU it was asked for, and do the
    slaves get the same period?

## 2. The modules

### StartupGate (`cyclic_task.cpp`, `startup_wait.hpp`, `pdo_verification.cpp`)

One iteration of the startup loop is `Sleep`, `Poll`, one of
`Observe`/`StartRead`/`AwaitRead`/`AcceptRead` (or a failing `TimedOut`,
`ReadFails`, `ClockFails`, `PollFails`), and `Send`. The program counter stands
where the other actors can slip in: asleep, between the poll and its evaluation,
before the frame, between the loops. `Gate` is the code between the loops;
`RunSleep`, `Exchange`, `RunSend` are the run loop reduced to outputs and
termination.

| variable | code |
|---|---|
| `initialHealthy`, `stable` | `initial_healthy_cycles`, `stable_count_` |
| `started`, `busy`, `cursor`, `result`, `failure`, `reqDeadline` | the fields of `PdoVerification` |
| `request[s]` | the SDO request object of slave *s*: state, the check it was started for, what it returned |
| `device[c]` | whether the object check *c* reads holds the expected value |
| `domainOut`, `wire` | origin of the output image and of the last frame: the zeros of activation or what Apps wrote |
| `unseen`, `streak` | history: slaves that left OP since the last poll; consecutive healthy polls |

A tick of `now` is one cycle period. Every wake is at least one period after
the previous one (module Deadline shows that deadlines lie ahead) and at most
`MaxLate` periods late.

*Assumption about IgH.* A slave that leaves OP does not get back there before the
next poll (`RaiseSlave`): the walk through PREOP and SAFEOP takes many datagram
round trips. Without it no poller could notice a reconfiguration. When the slave
is back, its objects may hold anything.

### PreopConfig (`configurePreop`)

The conversation with the slaves before activation, one SDO at a time. Every SDO is
three steps, because the code looks at the slave and at the clock before *and*
after it: `Guard`, the call, the confirmation. Between any two of them a
slave can leave PREOP (and then holds one of the power-up dictionaries) or the
budget can run out.

| variable | code |
|---|---|
| `mode`, `command` | before, in or after the loop over slaves; the index into `init_writes_` |
| `slave`, `attempt` | the group of `checks_` and the attempt of its retry loop |
| `pos` | the loop and the check it is at: phase 0 is the preread of the mappings, 1 to 6 are the writes, 7 is the readback |
| `keep` | `keep_mapping`, as the set of checks whose flag is set |
| `at`, `reply` | where in the SDO the thread is, and what IgH returned |

The nested loops are an order of positions (`Before`) and a filter (`Visited`: what each loop skips);
a loop goes on at the `Soonest` position that is `Later` than the one it leaves. Two assumptions
say what the tables look like. `BlocksAssumption`: entries follow the count of their
mapping and occur nowhere else, as `prepare` (`pdo_verification.cpp:61-81`) adds them; SlaveTables checks
this. `WorldAssumption`: a device has a mapping read-only as a whole. With half a mapping
read-only `NoHomemadeFailure` would be false: such a mapping can differ in the other
half, is then not kept, and the write to the read-only half is refused although it holds what is expected.

The device is modelled as strict as a device may be (`OutOfOrder`): it refuses a
mapping object while PDOs are assigned, an entry while its count is not zero, an
assignment while its count is not zero, and any write to a read-only mapping
(`Fixed`). Init commands are arbitrary objects, so only what is sent, and when,
is kept of them (`sent`). A slave that left PREOP is not back between two guards of its
own (`RegainPreop`), for the reason given above. `MaxFaults` bounds SDO and clock errors that have no cause in the
model, downloads that are acknowledged and not kept among them.

### StatisticsReset (`statistics_reset.hpp`, `cyclic_task.cpp`, `main.cpp`)

The ticket protocol. Each load or store of a shared counter that the other
thread can overtake is a step; the four zeros are published one by one. An
aggregate is its *age* relative to the last accepted request: `zero`, `old` (has
a sample from before) or `new`. Submitting a request makes everything that
is accounted `old`.

### Process (`main.cpp`, `runtime_report.hpp`, `cyclic_task.cpp`) and ReportChannel

`Process` has both threads from the first resource to the exit. Resources are
acquired in the order in which `main()` declares them and destroyed in reverse.
The mailbox slot is copied word by word (`Fill`, `CopyOut`), the flag stored last
(`Store`) and cleared last (`Release`). A report is reduced to its window, the
faults in it and the total printed beside them. The model has one such pair of counters, and each of
the three that the code has is an instance of it. `total_missed` is `statistics_.missed_deadlines`,
to which the startup loop has added its own while no window was open, and which a cycle raises by any
number: hence `LeaveStartup` lets the run loop begin with any total (`carried` remembers which), and
`Cycle` adds any number to both counters. wc errors and link losses are counted from zero, once per cycle at most;
theirs are the behaviours with `carried = 0` and steps of 0 or 1. A statistics reset leaves all of
them alone. The startup loop and the command
are single steps here: modules StartupGate and StatisticsReset have them in
detail, with the same two results each (`startup_ready_` set or not; an answer
in bounded time).

`ReportChannel` is the abstract specification: a channel of capacity one that
delivers what it accepted, unchanged, once, in order, and makes nobody wait.
`Process` implements it under `Reports <- {Spread(x)}`, `delivered <- printed`
(`accepted` has the same name in both); this is checked by TLC and proved.

The slot is a plain struct and the flag is read and written with
release/acquire order; the model is sequentially consistent, which this order
justifies as long as slot accesses are separated by the flag. That they are is
part of the invariant (`FillInv`, `CopyInv`: never both at once).

### Deadline (`advanceDeadline`, `run`, `activateWithDcTime`)

Integers, not ticks: the period, the phase origin given to IgH before activation,
the first deadline, and the absolute deadline after every cycle, for any lateness
of activation, wake or finish. `cycles` and `first` are history. The module's `Init`, `Next`, `Spec` are called
`DeadlineInit`, `DeadlineNext`, `DeadlineSpec` (in BusPublication `BusInit`, and so on), because
CyclicTaskProofs extends both together with StatisticsReset.

### ConfigWriteback (`discoverEmptyPdoEntries`, `saveDiscoveredPdoConfig`)

The file system as inodes with contents. A content is what others have edited,
how many PDOs are filled in and whether it is complete. Discovery reads one PDO
per step; each system call of the writeback is a step. Others edit in place or
by renaming a new file over the old; inode numbers of unlinked files are reused,
as file systems do. `Crash` is a kill at any point. What the edit of the YAML text looks
like is not modelled.

### MasterStartup (`ethercat_master.cpp`)

`initializeImpl` from a fresh object to its return, one action per call or per
iteration of a loop, with `waitForSlavesInPreop` and `activateWithDcTime` in
place. `CallFails` is the error return of whichever call is next, `Fail` is what all
of them do (`reset()`). Arguments that are rejected before the master is requested
hold nothing yet and are left out; so is initializing an object again.

| variable | code |
|---|---|
| `held` | the pointers and tables that are not null: master, domains, checks, domain data, layout |
| `identities`, `configs` | lengths of `slave_identities_`, `slave_configs_` |
| `preopDeadline`, `limit`, `remaining` | `preop_deadline`, the deadline the callee makes for itself, `remaining_ms` |
| `at`, `allReady`, `stable` | `slave_index`, `all_ready`, `stable_count` of the wait |
| `origin`, `given` | `dc_phase_origin_ns_`; history: the times given to IgH |
| `igh` | whether the kernel's master is free, reserved or active |
| `ready`, `streak` | slaves in error-free PREOP; history: consecutive polls that saw each slave so |

A tick is one poll interval. Every step may take up to `MaxLag` ticks. Slaves are asked one by
one and change state between two questions. Discovery and `configurePreop` are single steps that
take any time their deadline admits: ConfigWriteback and PreopConfig have them in
detail, and Process has the whole of `initialize` as one step.

### BusPublication (`publishSlaveRuntime`, `summarizeBusState`, `updateSharedBus`)

One cycle, startup or running: wake, ask IgH for the master, then slave by slave ask
and store (`StoreOnline`, which is the question too, `StoreAl`, `StoreValid`), then the summary, the
number of slaves, the link, the validity bits, and the heartbeat last. Slaves and the link change
between any two of these steps, any query may fail, and `run` may return before or after, which
leaves the last publication standing. An App may look in every state.

| variable | code |
|---|---|
| `state`, `answer` | the `BusState` of the cycle, the `ec_slave_config_state_t` of slave `k` |
| `record[s]` | `bus.slaves[s]`: `online`, `al_state`, `runtime_valid` |
| `current`, `linkUp`, `connected`, `valid` | `current_state`, `link_up`, `connected_slave_num`, bits 0 and 1 of `status_valid` |
| `alNow`, `linkNow`; `alSince`, `linkSince` | history: whether slave `Watched` was seen in AL state `WatchedAl`, and the states of the link, since the wake of this cycle, and since the wake the heartbeat stands for |

`summarizeBusState` reads the stored records again, but only this thread writes them, so it is one
step. The heartbeat is dated with the wake of its cycle, before everything that is
published with it; that is why the history begins there.

### SlaveTables (`eni_config.cpp`, `pdo_config.cpp`, `slave_config.cpp`, `initializeImpl`, `prepare`, `process_data_layout.cpp`)

From a file to the shared memory, one action per function: load, build, discover and build again,
identify, register one slave, prepare the checks, check the layout, publish. `Refuse` stands for
whatever check or call fails.

| variable | code |
|---|---|
| `source` | what the file declares: PDOs, and in ENI the SM list, the enable flag, `Sm` attributes |
| `built`, `view` | the `LoadedSlaveConfig::Impl`s in the order they were made, the one `config` points into |
| `at`, `image` | `slave_index`; the domains as IgH lays them out, byte by byte |
| `identities`, `checks`, `published` | `slave_identities_`, `checks_`, the metadata in `EcatBus` |

An entry is an object and a bit length. `Laid` and `Offset` are IgH: it lays out the entries of a sync
manager in its own order, whatever table the program keeps, and returns the place
of the entry *it* was asked for by position. So `image` is independent of the tables it is compared with.
Writeback is in ConfigWriteback, the rest of `initialize` in MasterStartup.

Two assumptions: `LimitsAssumption` (limits that are naturals, `MAX_SLAVE_NUM` within 16 bits, a
mapping for every index and an identity for every position), and `SourcesAssumption`, that YAML files have no identities and
name no PDO twice in a section. The code does not check the latter (section 5); what IgH
makes of such a file is not in the code either, so these files are outside the model. For ENI
nothing is assumed: what the loader refuses is refused by `LoadEni`.

### StartupOptions (`runtime_options.cpp`, `main.cpp`, `pdo_config.cpp`, `eni_config.cpp`, `slave_config.cpp`)

The two passes over the command line, one argument or pair per step, the file in between, the
probe of the CPU and `buildDistributedClockRuntimeConfig`. Texts are model strings, `Number` gives those
that are integers their value. The width of the integers is a constant, so that periods whose
nanoseconds wrap are among the small ones: products are taken modulo `UintMax + 1`
as in the code. `file` remembers what was loaded, `denied` that the kernel refused the CPU.
Clocks are set up inside `initialize`; the steps of MasterStartup before
that do not touch them.

## 3. What is checked

Every property of every passing run is accompanied by a mutant in
`PROJECT.json`: a plausible bug in one definition under which TLC finds the property
violated in the same configuration. The mutants stand beside the definitions
they replace.

| run | bounds | distinct states | properties |
|---|---|---|---|
| `startup_gate` | 2 slaves, 1 check each, budget 15, request timeout 2, lateness 1 | 179,568 | `GateSound`, `GateSettled`, `NoEarlyOutput`, `StartupBudget`, `StartupEnds`, `StopEnds` |
| `preop_config` | 2 slaves, 12 checks, 2 init commands, 2 attempts, 3 power-up dictionaries, 1 fault | 53,312 | `SuccessConfigured`, `OrderedWrites`, `NoHomemadeFailure`, `InitOnce`, `ConfigurationEnds` |
| `statistics_reset` | 4 commands | 4,728 | `OkMeansFresh`, `ResetOncePerTicket`, `AcceptedIsApplied`, `CommandAnswered` |
| `process` | 2 words, 3 windows, 3 faults | 52,766 | `IsChannel`, `DrainedAtExit`, `FaultsAccounted`, `ReadyMeansServed`, `NothingReleasedInUse`, `SignalEnds`, `CyclesEnd` |
| `deadline` | period 3, instants up to 24, with and without DC | 7,890 | `PhaseKept`, `LedgerBalances`, `NearestSlot` |
| `master_startup` | 2 slaves, budget 7, lateness 1, instants up to 14 | 123,464 | `AllOrNothing`, `SettledBeforeTouch`, `ActivatedInBudget`, `PhaseSeeded`, `InitializeEnds` |
| `config_writeback` | 2 empty PDOs, 3 edits | 507 | `FileWhole`, `FailureIsClean`, `EarlyEditsKept`, `WritebackEnds` |
| `bus_publication` | 2 slaves, AL states SAFEOP and OP, 1 or 2 slaves counted, OP of slave 2 watched | 475,968 | `HeartbeatHonest`, `RestConsistent`, `LossShown` |
| `slave_tables` | 2 slaves, 346 ENI and 34 YAML sources that run, 3 variables, 6 bytes of image | 33,956 | `VariablesAreTheirObjects`, `VerifiedIsPublished` |
| `startup_options` | all command lines of 2 and 3 texts, those with `config` and up to two settings; 4-bit words, 4 ns per us, 2 CPUs | 262,166 | `StartsAsAsked` |
| `config_writeback_race` | 2 empty PDOs, 1 edit | - | `ReplacesSnapshot` is violated (5.1) |
| `process_teardown_order` | 1 word, 1 window, 1 fault | - | `MasterFirst` is violated (5.2) |

Types are not checked by these runs but proved (section 4); those SlaveTables needs are part of the
invariant of its proofs.

### Why the bounds are enough to be interesting

- `startup_gate`: a clean startup of two checks takes 4 + 2*2 + 5 = 13 healthy
  polls, so a budget of 15 periods admits success, success with one late
  wake, and every kind of timeout. Two slaves are needed for a request object to be left
  behind and for a slave to be lost whose check has passed. A request timeout of
  2 allows an answer in time, an answer too late and none.
- `preop_config`: slave 0 has a writable PDO with one entry and a read-only one,
  slave 1 an empty PDO and a sync manager without any: every class of object
  `configurePreop` treats differently. The dictionaries are the configured one, one with other mappings and
  assignments, and one whose read-only mapping is wrong, which must fail. Two
  attempts and one fault give a retry that succeeds and one that does not.
- `statistics_reset`: two commands overlap only through a timed-out request; four
  give the sequence accepted, timed out, refused as busy, accepted again.
- `process`: two words suffice to tear a report. Three windows give an
  accepted, a dropped and a late one in a row, so that totals and windows
  differ; the third is in the slot when the stop comes. Three faults allow one of the startup loop,
  two of one cycle, or one in each window.
- `deadline`: period 3 has remainders 0, 1 and 2, so finishes just before,
  exactly on and just after a deadline occur; eight periods allow several skips in
  succession, with a skip of several slots among them.
- `master_startup`: five polls need four sleeps, so a budget of 7 admits a settled bus
  with and without late steps, an interrupted count that starts over, and expiry at
  each of the three deadlines. The horizon lies beyond the latest activation (7 + 3). With a
  bound of two late steps instead of three `ActivatedInBudget` is violated: it is tight.
- `bus_publication`: two slaves give a mixed summary and a slave that changes after it was
  asked; two AL states tell a wrong state from a missing one; a count of 1 is a bus that lost a slave
  nobody was asked about. The history is kept of one slave, the last to be asked, and one AL state, OP; the
  theorem is for any of both.
- `slave_tables`: entries of one and two bytes put a shifted offset into the middle of a
  neighbour; two PDOs can be listed in the other order; empty, bit-wise and repeated PDOs,
  disabled sync managers, slaves in the wrong place and of the wrong kind are among the sources, and
  3 variables and 6 bytes are limits some of them exceed.
- `startup_options`: with 4-bit words and 4 ns per us, periods 1 to 3 fit into SYNC0, 4 is rejected as
  too long, and 16 is no integer of the width. Files have clocks whose own cycle is that of
  period 2, of period 1, or none, no, one or two references, and each subset of settings.
- `config_writeback`: one edit before, one during and one after the window
  between the comparisons.

### Properties in words

- **GateSound**: at the moment the gate opens every object still holds what the
  configuration demands, not just at the moment it was read.
- **GateSettled**: the gate opens after at least 4 + 2*NChecks + 5 consecutive
  healthy polls, over three counters that are reset in different places.
- **NoEarlyOutput**: no frame carries what Apps wrote before the gate is open.
- **StartupBudget**, **StartupEnds**: the startup overshoots its budget by the
  lateness of one wake at most, and always ends. Of an SDO request that stays busy this says only that it does not
  hold the startup; that its check is not skipped is `GateSound`'s, and that its object serves no other
  check meanwhile is proved (`SingleRead`, section 4).
- **StopEnds**, **SignalEnds**: a stop request ends the thread, and the process.
- **SuccessConfigured**: success means that dictionaries hold the configuration,
  except for slaves that restarted after they were verified (which the startup
  loop reads again).
- **OrderedWrites**: no device is asked for a write that the order makes it refuse.
- **NoHomemadeFailure**: a failure has a cause outside the program.
- **InitOnce**: init commands go out once, in order, before any PDO object.
- **OkMeansFresh**: after `RESULT_OK` no aggregate contains an older sample.
- **ResetOncePerTicket**, **AcceptedIsApplied**: a timed-out command is neither
  cancelled nor repeated; its reset is applied while cycles run.
- **CommandAnswered**: a command returns although the cyclic thread has ended and
  nobody has stopped the worker.
- **IsChannel**: the mailbox implements `ReportChannel`.
- **DrainedAtExit**: at the reporter's end every accepted report is out.
- **FaultsAccounted**: a dropped report loses its window, never its totals. The first report's total
  is what the startup loop has had plus its window's count (the repository's `README.md:179`), each later one's the total of
  the report before plus its window's count, and more only where a window in between was dropped.
- **ReadyMeansServed**: ABI readiness implies a command worker that runs.
- **NothingReleasedInUse**: destructors run after the threads have ended.
- **CyclesEnd**: the cyclic thread ends even if the reporter never runs again.
- **PhaseKept**: deadlines and application times stay on the grid given to IgH.
- **LedgerBalances**: each slot is a cycle or counted as missed.
- **NearestSlot**: a late cycle is followed by a sleep, not a burst, and only slots that are over are skipped.
- **AllOrNothing**: whichever call fails, IgH is free and no handle is left;
  success means that everything is in place.
- **SettledBeforeTouch**: nothing is sent to a slave before each was seen ready five polls running.
- **ActivatedInBudget**: wait, discovery and configuration share one budget.
- **PhaseSeeded**: IgH has a time before it is activated, and the cyclic phase is that time.
- **InitializeEnds**: `initialize` returns however slaves flicker.
- **FileWhole**: at any instant, and after a kill, the file is complete.
- **FailureIsClean**: an error of the discovery or the writeback, up to and including the rename,
  leaves no discovered entry in the file or in memory and no temporary file beside it. A startup that
  fails after the writeback does not undo it (`docs/pdo-config.md:145`).
- **EarlyEditsKept**: an edit made before the last look at the file survives.
- **HeartbeatHonest**: at any instant, an AL state, link or `current_state` an App reads was
  real at some moment since the wake the heartbeat stands for.
- **RestConsistent**: between two publications a known `current_state` agrees with every field it summarises.
- **LossShown**: a slave that stays out of a state for good takes that state off `current_state`.
- **VariablesAreTheirObjects**: the bytes of each published variable are the bytes IgH exchanges
  with the object the file names, of the device at that position.
- **VerifiedIsPublished**: what is written, read back and compared before the gate opens is what
  Apps were told, under counts that agree with it.
- **StartsAsAsked**: command line before YAML before ENI before built-in values, for every setting; SYNC0 is
  exactly the period; and the first pass refuses nothing a file could make acceptable.

### Fairness

| spec | fairness | why the code justifies it |
|---|---|---|
| StartupGate | `WF(Advance)` | a SCHED_FIFO thread on its own CPU whose every iteration sleeps to an absolute deadline and calls only rt-safe functions. Nothing is asked of slaves, IgH or the bus: they may be silent for ever. `Advance` is the thread without the failures of clock and polls, so that no failing call is counted on to leave a loop. |
| PreopConfig | `WF(Thread)` | the ioctl of an SDO transfer returns (the kernel module has its own timeout); what it returns is open, and the clock need not advance |
| StatisticsReset | `WF(Cyclic)`, `WF(Worker)`, `WF(Expire)` | both threads run and the clock reaches the deadline. `StopReporter` and `Command` are not fair. |
| Process | `WF(Main)` | the main thread runs. `SignalEnds` alone asks for more, in its own statement: if the reporter is not starved for ever (`WF(Reporter)`: a normal thread gets to run, standard output does not block for ever, a command ends as `CommandAnswered` says), a signal ends the process. |
| MasterStartup | `WF(Advance)` | the main thread runs, its calls return and its sleeps end; slaves may change state for ever. No failing call is counted on. |
| ConfigWriteback | `WF(Discovery \/ Writeback)` | system calls and uploads return |
| BusPublication | `WF(Cycle)` | as StartupGate; `Return` is not fair, and IgH may fail every query |
| Deadline, SlaveTables, StartupOptions | none | safety only |

`WF(Main)` is enough for `SignalEnds` although `Main` includes the cycles: after the signal
only the ways out of the loop stay enabled.

Deadlock is checked in StartupGate, PreopConfig, MasterStartup and Process, whose ends are
explicit (`Returned`, `Exited`). In the others the system stops at a bound (`MaxCalls` commands,
`Horizon`), is done (loaded, started, refused) or only the bus is left to move, and the check is off.

## 4. What is proved

The theorems hold for every value of the constants that satisfies the module's
`ASSUME`; TLC evaluates the assumptions in the runs.

| module | theorems | assumptions |
|---|---|---|
| StartupGateProofs | `TypeCorrect`, `GateTrustworthy` (`GateSound` and `GateSettled`), `OutputsGated`, `StartupBounded`, `SingleRead` | at least one check; positive timeouts; any slaves |
| MasterStartupProofs | `TypeCorrect`, `NothingHalfway`, `SettledFirst`, `OneBudget`, `OriginGiven` | at least one slave, the reference among them; a positive budget; any lateness |
| PreopConfigProofs | `TypeCorrect`, `OkIsConfigured`, `WritesInOrder`, `FailureHasCause`, `CommandsOnce` | any slaves, checks, init commands, attempts, dictionaries and faults; mappings in one piece, and read-only as a whole |
| CyclicTaskProofs | of StatisticsReset `ResetTypes`, `OkFresh`, `ResetOnce`; of Deadline `TypeCorrect`, `PhaseForEver`, `SlotsAccounted`, `ShortestSkip`; of BusPublication `BusTypes`, `HeartbeatDates`, `RestAgrees` | any number of commands; a positive period; at least one slave, any of them and any AL state watched, any AL states and counts |
| ProcessProofs | `TypeCorrect`, `MailboxIsChannel` (refinement), `NothingLeftBehind`, `ReadyIsServed`, `ReleasedAfterUse`, `FaultsKept` | a report has at least one word |
| ConfigWritebackProofs | `TypeCorrect`, `AlwaysLoadable`, `NoTrace`, `EarlierEditsSurvive` | any number of PDOs and edits |
| SlaveTablesProofs | `VariablesReachTheirObjects`, `ChecksVerifyTheVariables` | any files, devices and identities; up to 65536 slaves; no PDO twice in a YAML section |
| StartupOptionsProofs | `TypeCorrect`, `Starts` | any set of command lines and files; any width that holds the defaults |

**StartupGate.** `GateSound` is not inductive: that a device holds its value now
follows from a chain of facts. The invariant names the links. `Trust`: before the
gate, if the last poll was healthy, every slave is in OP or has left since and will be
seen missing; once reads have begun the last poll *was* healthy (a loss returns
from `run`); so what the cursor has passed is unchanged, and what IgH has answered is
still true of the device. `Reads`: the answer belongs to the cursor's check and
not to an earlier request of the same slave object. `Tally` relates the three
counters to the history of healthy polls. `Shut` keeps Apps' data
out of the image, `Budget` says that outside the evaluation of a poll the budget
is not used up. One step per action shows that each is preserved.

**PreopConfig.** That a write is in order, or that success means configured, does not follow from where
the thread is but from what its loops have passed, so the invariant is stated over the
order of positions. `Cleared`: an assignment or mapping count that
is behind the thread and not yet due again is zero, which with `KeepClosed` (what is kept is kept as
whole mappings) gives `OrderedWrites`. `Verified`: slaves before the
present one, and what phase 7 has passed of this one, hold what is expected, or the
slave has strayed. `Calm` is about the runs in which nothing has gone wrong outside: no reply is a
failure without a cause in the dictionary (`Answered`), what is kept matches (`Kept`), read-only
mappings that match are kept once passed (`FixedKept`), and what a write phase has passed holds its
final value (`Restored`); so only a dictionary that cannot be repaired can make an
attempt fail. None of these survives a restart of the attempt by itself: `StartAttemptIInv` shows that
they hold again with nothing kept and nothing passed. `Later` sets have a soonest
position because a nonempty set of naturals has a least element (`LeastExists`, from the
well-foundedness of strict inclusion on finite sets, since the library's induction over naturals
cannot be instantiated); `Arrival` says once what every step of every loop needs: all
that lies between the place left and the place reached is skipped by right.

**StatisticsReset.** `Tickets` orders the counters (`acknowledged <= requested <= acknowledged + 1`
and the ticket the cyclic thread works on is the outstanding one), `Calls` ties the worker's
place to them, and `Fresh` says that once a ticket is acknowledged nothing is old.

**Process.** `LifeInv` relates the place of `main()` to what is held, visible and
running; `SlotInv` is the mapping: the flag is set exactly while one
report is between `accepted` and `printed`; `FillInv` and `CopyInv` say who
owns a half-copied slot; `LastRoundInv` says that after the round that began with the stop flag
set nothing new can arrive. `MailboxIsChannel` shows that `Store` is
`Accept`, `Release` is `Deliver`, and every other step stutters. `Ledger` says of every accepted
report, word by word, that it follows its predecessor, and of the current window that it follows the
last one accepted; a dropped window moves on without the latter changing. Before the run loop nothing
is accepted and the window is the initial one (`WindowInv`), so the startup's share can become the
base of the first report without disturbing any.

**Deadline.** `AdvanceFacts` bounds the result of the integer division on both
sides; `SlotOnGrid` and `Distribute` do the arithmetic of the grid. The invariant carries the number of
periods since the origin as a witness.

**MasterStartup.** `Stage` says what is held and configured at each point, so that success is
complete and `reset` releases whatever there is. `Count` relates `stable_count` to what
was seen of *every* slave, in the middle of a poll too: slaves before `at` are one
poll ahead. `Spent` follows the budget through its three forms and says by how many late steps it can
have been overdrawn. `Clocked` ties the phase origin to the first time given. A failing call is
one lemma (`FailIInv`) for all places.

**ConfigWriteback.** `FilesInv` says that no path but the configuration and our temporary file leads
to an inode with a text, `PlaceInv` that until the rename nothing of the discovery is in the
configuration, `TempInv` where the temporary file is and that it is complete before it is
looked at again. The cases are the inodes an edit or a rename reuses.

**BusPublication.** What is published in this cycle is covered by the history since its wake, what is left
from the last one by the longer history (`Covered`); `Stored` is the place where the watched slave
passes from one to the other. The heartbeat step turns the first history into the second, which needs everything to be
fresh by then. For `RestConsistent`, `Agreed` says which fields are already those of this cycle.

**SlaveTables.** The invariant follows the description from table to table. `ConfigInv`: what is configured
for a position is what the file asks for (`Asked`), or before discovery what a YAML file states.
`TablesInv`: the flat list holds the entries of the sync managers in the order of the walk through
them, outputs first (`Match`). `IdentitiesInv`: identities are those of the devices, and agree with the
file. `PlacedInv`: of every slave registered so far, each entry's bytes are in the image of its
direction at its offset (`InImage`); a later slave only appends. `PreparedInv`: in the checks every
count is followed by as many as it says, and the mapping entries of a slave and direction are its
configured entries. At publication the two chains meet: `PlacedInv` and `Match` give
`VariablesAreTheirObjects`, `PreparedInv` and the shape of what was published `VerifiedIsPublished`.

What joining, picking and flattening sequences yields would be shown by induction over them. The library's `FlattenSeq` is a fold,
and a fold is a function chosen to satisfy a recursive equation, so the lemmas first show that such a function exists and
is determined on each prefix (`FlattenFunction`), then climb the prefixes (`Climb`, again
by a least counterexample). After that everything is stated once for operations that go through
concatenation (`FlattenThrough`, `FlattenClosed`): counting, picking and laying out are such operations.

**StartupOptions.** `Formed` and `Recorded` say of the arguments before `at` what the property says
of the whole line; `DefaultsInv` that the second pass started from the file's settings, and the first
from the built-in ones. `FitsUnwrapped` is the arithmetic of SYNC0. That the
first pass refuses nothing a file could repair is `CauseInv`.

**Only model-checked.** Liveness (`StartupEnds`, `StopEnds`,
`ConfigurationEnds`, `AcceptedIsApplied`, `CommandAnswered`, `SignalEnds`,
`CyclesEnd`, `WritebackEnds`, `InitializeEnds`, `LossShown`) is outside the prover's reach.
Every other property of a passing run is a theorem.

## 5. Where code and documentation disagree

1. **Writeback and concurrent edits.** `pdo_config.hpp:68-69` says the writeback
   "atomically replaces the file if its snapshot still matches", and
   `src/docs/pdo-config.md:141-143` lists simultaneous modification among the cases
   that abort the startup. The code compares (`pdo_config_file.cpp:140`) and
   renames (`:142`) in two steps; an edit in between is overwritten silently
   (`config_writeback_race`). What the code does guarantee is `EarlyEditsKept`.
2. **Teardown order.** `src/docs/architecture.md:157-158` draws the release of the
   master before the unmapping of IPC. `main()` declares the master (`:229`)
   before IPC (`:243`), so the destructors run the other way round
   (`process_teardown_order`). `NothingReleasedInUse` shows that this order does no harm.

Smaller ones, read in the code and without a run:

- `src/docs/shared-memory-v2.md:80` says that a non-zero `bit_position` registered by IgH fails *before*
  activation. Registration rejects only positions above 7 (`ethercat_master.cpp:318`); others are rejected by
  `ProcessDataLayout::build` (`:398`), after activation (`:366`).
- `src/docs/pdo-config.md:136-137` says that discovery supports 1-bit entries. The re-read of the
  temporary file (`pdo_config_file.cpp:136-137`) refuses them, as `shared-memory-v2.md:79-80` says.
- ENI rejects a PDO that is declared or assigned twice (`eni_config.cpp:119,133`), YAML does not.

## 6. What is not modelled

- *Reading text* (YAML, XML, integers) and *formatting* (reports, console, the edits of the
  writeback): modelled as what a file or argument says, not how it is spelled. Names, station addresses,
  watchdogs and the clocks' shifts are carried along by the code and left out.
- *Contents of init commands*: PreopConfig has when they are sent.
- *`exchangeProcessData`*: one `memcpy` per direction between images of equal size; which bytes belong to whom is SlaveTables.
- *`wc_state`* and bit 2 of `status_valid`: stored independently of the fields BusPublication relates.
- *Kernel services* (affinity, memory locking, scheduling class): one step that
  succeeds or fails.
- *rocos-shm*: absent from the tree; only what the code does with it appears.
- The application time that is given once after activation, off the deadlines'
  grid, to have a time before the first cycle: Deadline begins with `run`.
- Apps writing outputs while they are copied: the architecture accepts mixed images.

## 7. Plan

Order of work, most important behaviour first; all of it is done but the points named under "left".

1. StartupGate, StartupGateProofs.
2. PreopConfig, PreopConfigProofs.
3. StatisticsReset, CyclicTaskProofs (which has the proofs of 5 and 8 too).
4. Process, ReportChannel, ProcessProofs.
5. Deadline, CyclicTaskProofs.
6. ConfigWriteback, ConfigWritebackProofs.
7. MasterStartup, MasterStartupProofs. Left: the abstract contract *holds a configured,
   activated master or holds nothing* as a module of its own that it refines.
8. BusPublication, CyclicTaskProofs. Left: `wc_state`, and the timing fields of
   StatisticsReset under the same heartbeat.
9. SlaveTables, SlaveTablesProofs. It discharges PreopConfig's assumption that checks are grouped and every
   count is followed by what it counts.
10. StartupOptions, StartupOptionsProofs.

The number of runs and properties is kept small on purpose; where a theorem
covers a property for all constants, its run is kept as the cheap check of the
model rather than enlarged.
