---------------------------- MODULE MasterStartup ----------------------------
(***************************************************************************)
(* EthercatMaster::initialize: from the reservation of the IgH master to   *)
(* the activated bus, or, on any failure, back to nothing.                 *)
(*                                                                         *)
(* Waiting for PREOP, discovery and PDO configuration share one budget     *)
(* that is turned into a deadline at three places; between two places any  *)
(* step can be up to MaxLag ticks late.  A tick is one poll interval.  The *)
(* slaves change state while they are polled one by one.  Discovery is     *)
(* module ConfigWriteback and the PDO configuration module PreopConfig;    *)
(* here they take time and end somehow.                                    *)
(***************************************************************************)
EXTENDS Integers, Sequences

CONSTANTS
    NSlaves,     \* config.slave_count
    Reference,   \* dc_runtime.reference_slave_index, counted from 1
    Timeout,     \* preop_timeout_ms, in ticks
    MaxLag,      \* bound: ticks one step of the program can take
    Horizon      \* bound: later instants are not told apart

ASSUME MasterAssumption ==
    /\ NSlaves \in Nat \ {0}
    /\ Reference \in 1..NSlaves
    /\ Timeout \in Nat \ {0}
    /\ MaxLag \in Nat
    /\ Horizon \in Nat \ {0}

Slaves == 1..NSlaves

\* kPreopStableConfirmations.
StableConfirmations == 5

\* What the object owns or borrows once it is initialized.
Handles == {"master", "input", "output", "checks", "data", "layout"}

VARIABLES
    pc, result,
    now,
    preopDeadline,  \* computed before the wait
    limit,          \* the deadline of the callee: of the wait, of configurePreop
    remaining,      \* remaining_ms
    at, allReady,   \* the poll: slave it has come to, outcome so far
    stable,         \* stable_count
    held,           \* the handles that are not null
    identities, configs,   \* lengths of slave_identities_ and slave_configs_
    reference,      \* reference_clock_config
    initialized,
    origin,         \* dc_phase_origin_ns_, -1 when there is none
    dc,             \* dc_runtime.enabled
    igh,            \* the master in the kernel: free, reserved or active
    given,          \* history: application times given to IgH
    ready,          \* slaves in error-free PREOP
    streak          \* history: consecutive polls that saw each slave ready

polling == <<at, allReady, stable, streak>>
object  == <<held, identities, configs, reference, initialized>>
phase   == <<origin, given, igh>>
budget  == <<preopDeadline, limit, remaining>>
vars    == <<pc, result, now, budget, polling, object, phase, dc, ready>>

Init ==
    /\ pc = "request" /\ result = "Pending" /\ now = 0
    /\ preopDeadline = 0 /\ limit = 0 /\ remaining = 0
    /\ at = 0 /\ allReady = FALSE /\ stable = 0
    /\ held = {} /\ identities = 0 /\ configs = 0 /\ reference = FALSE
    /\ initialized = FALSE /\ origin = -1
    /\ dc \in BOOLEAN /\ igh = "free" /\ given = <<>>
    /\ ready \in SUBSET Slaves /\ streak = [s \in Slaves |-> 0]

-----------------------------------------------------------------------------
(* Steps.                                                                  *)

\* When a step that was reached at t is over.
Later(t) == {IF t + lag <= Horizon THEN t + lag ELSE Horizon : lag \in 0..MaxLag}

Goto(label) == pc' = label /\ result' = result /\ now' \in Later(now)

\* Mutant of Release: only an initialized master is given back.
ReleaseInitialized == IF initialized THEN "free" ELSE igh

\* ecrt_release_master, if there is one.
Release == IF "master" \in held THEN "free" ELSE igh

\* reset() and the return of an error.
Fail ==
    /\ pc' = "done" /\ result' = "Failed"
    /\ held' = {} /\ identities' = 0 /\ configs' = 0 /\ reference' = FALSE
    /\ initialized' = FALSE
    /\ origin' = -1 /\ igh' = Release
    /\ UNCHANGED <<now, budget, polling, given, dc, ready>>

\* Everything before the wait and after it that acquires one handle.
Acquire(from, handle, to) ==
    /\ pc = from
    /\ Goto(to)
    /\ held' = held \union {handle}
    /\ UNCHANGED <<budget, polling, identities, configs, reference, initialized,
                   phase, dc, ready>>

\* ecrt_request_master; the bus scan that follows is only printed.
Request ==
    /\ pc = "request"
    /\ Goto("budget")
    /\ held' = {"master"} /\ igh' = "reserved"
    /\ UNCHANGED <<budget, polling, identities, configs, reference, initialized,
                   origin, given, dc, ready>>

\* The budget begins.
StartBudget ==
    /\ pc = "budget"
    /\ preopDeadline' = now + Timeout
    /\ Goto("wait")
    /\ UNCHANGED <<limit, remaining, polling, object, phase, dc, ready>>

-----------------------------------------------------------------------------
(* waitForSlavesInPreop.                                                   *)

BeginWait ==
    /\ pc = "wait"
    /\ limit' = now + Timeout
    /\ stable' = 0
    /\ Goto("poll")
    /\ UNCHANGED <<preopDeadline, remaining, at, allReady, streak, object, phase, dc, ready>>

\* Mutant of Expired: the time is looked at after polls that succeed only.
ExpiredOnceReady == now >= limit /\ allReady

Expired == now >= limit

\* The head of the loop.
BeginPoll ==
    /\ pc = "poll" /\ ~Expired
    /\ at' = 1 /\ allReady' = TRUE
    /\ Goto("query")
    /\ UNCHANGED <<budget, stable, streak, object, phase, dc, ready>>

\* ecrt_master_get_slave for one slave.
Query ==
    /\ pc = "query" /\ at <= NSlaves
    /\ at' = at + 1
    /\ allReady' = (allReady /\ at \in ready)
    /\ streak' = [streak EXCEPT ![at] = IF at \in ready THEN @ + 1 ELSE 0]
    /\ Goto("query")
    /\ UNCHANGED <<budget, stable, object, phase, dc, ready>>

\* Mutant of Counted: a slave that is not ready interrupts the count only.
CountedKept == IF allReady THEN stable + 1 ELSE stable

\* stable_count after a poll.
Counted == IF allReady THEN stable + 1 ELSE 0

\* All slaves were asked, in time: done, or sleep and poll again.
EndPoll ==
    /\ pc = "query" /\ at > NSlaves /\ ~Expired
    /\ stable' = Counted
    /\ Goto(IF Counted >= StableConfirmations THEN "discover" ELSE "sleep")
    /\ UNCHANGED <<budget, at, allReady, streak, object, phase, dc, ready>>

\* wait: the poll interval, but not beyond the deadline.
Sleep ==
    /\ pc = "sleep"
    /\ pc' = "poll" /\ UNCHANGED result
    /\ now' \in Later(IF now + 1 <= limit THEN now + 1 ELSE now)
    /\ UNCHANGED <<budget, polling, object, phase, dc, ready>>

WaitExpired ==
    /\ \/ pc = "poll"
       \/ pc = "query" /\ at > NSlaves
    /\ Expired
    /\ Fail

-----------------------------------------------------------------------------
(* From the settled bus to the configured one.                             *)

\* discoverEmptyPdoEntries: nothing to do, or SDOs up to some time in budget.
Discover ==
    /\ pc = "discover"
    /\ pc' = "identify" /\ UNCHANGED result
    /\ \/ now' \in Later(now)
       \/ \E t \in now..(preopDeadline - 1) : t <= Horizon /\ now' \in Later(t)
    /\ UNCHANGED <<budget, polling, object, phase, dc, ready>>

\* The SII identity of one slave is what is configured, or is adopted.
Identify ==
    /\ pc = "identify" /\ identities < NSlaves
    /\ identities' = identities + 1
    /\ Goto(IF identities + 1 = NSlaves THEN "input" ELSE "identify")
    /\ UNCHANGED <<budget, polling, held, configs, reference, initialized, phase, dc, ready>>

CreateInput  == Acquire("input", "input", "output")
CreateOutput == Acquire("output", "output", "slaves")

\* PDOs, distributed clock and entries of one slave; the last is followed by
\* the checks of the reference clock.
ConfigureSlave ==
    /\ pc = "slaves" /\ configs < NSlaves
    /\ configs' = configs + 1
    /\ reference' = (reference \/ (dc /\ configs + 1 = Reference))
    /\ Goto(IF configs + 1 = NSlaves THEN "reference" ELSE "slaves")
    /\ UNCHANGED <<budget, polling, held, identities, initialized, phase, dc, ready>>

\* ecrt_master_select_reference_clock.
SelectReference ==
    /\ pc = "reference" /\ (dc => reference)
    /\ Goto("checks")
    /\ UNCHANGED <<budget, polling, object, phase, dc, ready>>

\* PdoVerification::prepare.
Prepare == Acquire("checks", "checks", "remaining")

\* Mutant of Left: the configuration gets a budget of its own.
LeftAfresh == Timeout

\* What the budget has left.
Left == preopDeadline - now

TakeRemaining ==
    /\ pc = "remaining" /\ Left > 0
    /\ remaining' = Left
    /\ Goto("configure")
    /\ UNCHANGED <<preopDeadline, limit, polling, object, phase, dc, ready>>

NothingLeft == pc = "remaining" /\ Left <= 0 /\ Fail

\* configurePreop: it makes a deadline of what it was given and succeeds within.
ConfigurePreop ==
    /\ pc = "configure"
    /\ limit' = now + remaining
    /\ pc' = (IF dc THEN "seed" ELSE "activate") /\ UNCHANGED result
    /\ \E t \in now..Horizon : t < limit' /\ now' \in Later(t)
    /\ UNCHANGED <<preopDeadline, remaining, polling, object, phase, dc, ready>>

-----------------------------------------------------------------------------
(* activateWithDcTime and the rest of initialize.                          *)

\* Mutant of Origin: every time that is supplied becomes the origin.
OriginLatest(initial) == now

\* dc_phase_origin_ns_ after supply_time.
Origin(initial) == IF initial THEN now ELSE origin

SupplyTime(from, initial, to) ==
    /\ pc = from
    /\ given' = Append(given, now)
    /\ origin' = Origin(initial)
    /\ Goto(to)
    /\ UNCHANGED <<igh, budget, polling, object, dc, ready>>

Seed   == SupplyTime("seed", TRUE, "activate")
Reseed == SupplyTime("reseed", FALSE, "data")

Activate ==
    /\ pc = "activate"
    /\ igh' = "active"
    /\ Goto(IF dc THEN "reseed" ELSE "data")
    /\ UNCHANGED <<origin, given, budget, polling, object, dc, ready>>

\* The domains' memory, of a size that fits the ABI.
MapDomains == Acquire("data", "data", "layout")

\* ProcessDataLayout::build, outputs zeroed, success.
Succeed ==
    /\ pc = "layout"
    /\ pc' = "done" /\ result' = "Ok" /\ now' = now
    /\ held' = held \union {"layout"}
    /\ initialized' = TRUE
    /\ UNCHANGED <<budget, polling, identities, configs, reference, phase, dc, ready>>

\* The calls that can fail, as far as the clock has no part in it.
Fallible == {"request", "query", "discover", "identify", "input", "output", "slaves",
             "reference", "checks", "configure", "seed", "activate", "reseed",
             "data", "layout"}

CallFails ==
    /\ pc \in Fallible
    /\ pc = "query" => at <= NSlaves
    /\ Fail

-----------------------------------------------------------------------------

\* A slave reaches PREOP, leaves it, or has its error flag change.
SlaveChanges(s) ==
    /\ pc # "done"
    /\ ready' = IF s \in ready THEN ready \ {s} ELSE ready \union {s}
    /\ UNCHANGED <<pc, result, now, budget, polling, object, phase, dc>>

Advance ==
    \/ Request \/ StartBudget \/ BeginWait \/ BeginPoll \/ Query \/ EndPoll \/ Sleep
    \/ WaitExpired \/ Discover \/ Identify \/ CreateInput \/ CreateOutput
    \/ ConfigureSlave \/ SelectReference \/ Prepare \/ TakeRemaining \/ NothingLeft
    \/ ConfigurePreop \/ Seed \/ Activate \/ Reseed \/ MapDomains \/ Succeed

Returned == pc = "done" /\ UNCHANGED vars

Next ==
    \/ Advance
    \/ CallFails
    \/ \E s \in Slaves : SlaveChanges(s)
    \/ Returned

\* The main thread runs and its sleeps end; slaves may do anything.
Spec == Init /\ [][Next]_vars /\ WF_vars(Advance)

-----------------------------------------------------------------------------
(* Properties.                                                             *)

EarlyPcs == {"request", "budget", "wait", "poll", "query", "sleep"}
LatePcs  == {"discover", "identify", "input", "output", "slaves", "reference",
             "checks", "remaining", "configure", "seed", "activate", "reseed",
             "data", "layout"}

TypeOK ==
    /\ pc \in EarlyPcs \union LatePcs \union {"done"}
    /\ result \in {"Pending", "Ok", "Failed"}
    /\ now \in Nat /\ preopDeadline \in Nat /\ limit \in Nat /\ remaining \in Nat
    /\ at \in Nat /\ stable \in Nat /\ allReady \in BOOLEAN
    /\ held \subseteq Handles /\ identities \in 0..NSlaves /\ configs \in 0..NSlaves
    /\ reference \in BOOLEAN /\ initialized \in BOOLEAN /\ dc \in BOOLEAN
    /\ origin \in Nat \union {-1} /\ given \in Seq(Nat)
    /\ igh \in {"free", "reserved", "active"}
    /\ ready \subseteq Slaves /\ streak \in [Slaves -> Nat]

\* initialize() returns all or nothing: a failure, at whichever of its calls and
\* after activation as well, leaves IgH free and no handle behind; success means
\* that everything is there and the bus active.
AllOrNothing ==
    /\ result = "Failed" => igh = "free" /\ held = {} /\ configs = 0 /\ ~initialized
    /\ result = "Ok" => /\ igh = "active" /\ held = Handles /\ initialized
                        /\ configs = NSlaves /\ identities = NSlaves

\* No SDO is sent and nothing is configured before each slave was seen in
\* error-free PREOP five times running: IgH may still be driving it down.
SettledBeforeTouch ==
    pc \in LatePcs => \A s \in Slaves : streak[s] >= StableConfirmations

\* The phases share one budget: whatever each takes, the bus is activated no
\* later than the budget plus the delay of three steps.
ActivatedInBudget == pc = "activate" => now < preopDeadline + 3 * MaxLag

\* IgH has a time before it is activated with distributed clocks, and the
\* phase the cyclic deadlines keep is that first one.
PhaseSeeded == igh = "active" /\ dc => given # <<>> /\ origin = given[1]

\* initialize() returns, even if slaves flicker in and out of PREOP for ever.
InitializeEnds == <>(pc = "done")
=============================================================================
