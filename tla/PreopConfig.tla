----------------------------- MODULE PreopConfig -----------------------------
(***************************************************************************)
(* PdoVerification::configurePreop: the blocking SDO conversation that     *)
(* initialises every slave and writes and reads back its PDO dictionary    *)
(* before activation.                                                      *)
(*                                                                         *)
(* Every SDO is bracketed by a guard (slave in error-free PREOP, budget    *)
(* left), so an operation has three points between which slaves and clock  *)
(* move on: `at' is "guard", "call" or "confirm".  The loops over one      *)
(* slave are the phases 0 (which mappings are configured already), 1 to 6  *)
(* (writes) and 7 (read back); each visits the checks of the slave it is   *)
(* about in order, and `pos' is the phase and the check the thread is at.  *)
(* Dictionary values are numbers; a count is the number it counts, any     *)
(* other object holds what is expected of it or something else.            *)
(***************************************************************************)
EXTENDS Integers, Sequences

CONSTANTS
    Checks,       \* checks_: records [slave, sm, field, expected], slave by slave
    InitWrites,   \* init_writes_: the slave each command goes to, in order
    MaxAttempts,  \* pdo_config_attempts
    Fixed,        \* checks of read-only mappings
    PowerUp,      \* dictionaries slaves can wake up with
    MaxFaults     \* bound: SDOs that fail for no reason of ours

Fields  == {"AssignmentCount", "Assignment", "MappingCount", "MappingEntry"}
Indices == DOMAIN Checks
Slaves  == {Checks[c].slave : c \in Indices}

Is(c, field) == Checks[c].field = field

\* A mapping count and the entries it counts.
Block(m) == m..(m + Checks[m].expected)

\* The counts of the mappings that are not empty, and all checks of those mappings.
Mappings == {m \in Indices : Is(m, "MappingCount") /\ Checks[m].expected # 0}
Mapped   == UNION {Block(m) : m \in Mappings}

ASSUME ChecksAssumption ==
    /\ Checks \in Seq([slave : Nat, sm : {2, 3}, field : Fields, expected : Nat])
    /\ Checks # <<>>
    /\ \A b, c \in Indices : b < c => Checks[b].slave <= Checks[c].slave

\* prepare() adds a mapping count and then the entries it counts, and entries
\* nowhere else.
ASSUME BlocksAssumption ==
    /\ \A m \in Mappings : \A e \in Block(m) \ {m} :
         e \in Indices /\ Is(e, "MappingEntry") /\ Checks[e].slave = Checks[m].slave
    /\ \A e \in Indices : Is(e, "MappingEntry") => e \in Mapped

\* A mapping is read-only as a whole; one that is empty is never written anyway.
ASSUME WorldAssumption ==
    /\ InitWrites \in Seq(Slaves)
    /\ MaxAttempts \in Nat \ {0}
    /\ Fixed \subseteq Mapped
    /\ \A m \in Mappings : Block(m) \subseteq Fixed \/ Block(m) \cap Fixed = {}
    /\ PowerUp \subseteq [Indices -> Nat] /\ PowerUp # {}
    /\ MaxFaults \in Nat

VARIABLES
    mode,      \* "init": init commands, "pdo": the slaves in turn, or "done"
    command,   \* the init command at hand
    slave,     \* the slave being configured
    attempt,
    pos,       \* <<phase, check>> the thread is at (cursor_)
    at,        \* where in the operation the thread is
    keep,      \* checks of mappings found configured already (keep_mapping)
    reply,     \* what the last SDO returned
    result, failure,
    device,    \* the dictionaries
    preop,     \* slaves in error-free PREOP
    expired,   \* the PREOP budget is used up
    faults,    \* history: unexplained SDO or clock failures
    strayed,   \* history: slaves that left PREOP after they were verified
    left,      \* history: slaves that ever left PREOP
    sent       \* history: init commands downloaded

verdict == <<result, failure>>
loop    == <<mode, command, slave, attempt, pos, keep, verdict>>
world   == <<device, preop, expired, strayed, left>>
vars    == <<loop, at, reply, faults, sent, world>>

-----------------------------------------------------------------------------
(* Which checks the loops visit, and in which order.                       *)

Group(s) == {c \in Indices : Checks[c].slave = s}

\* The mapping check c belongs to.
BlockOf(c) == Block(CHOOSE m \in Mappings : c \in Block(m))

\* Mutant of Phases: the mappings are rewritten before the assignments are disabled.
PhasesMappingFirst == <<"MappingCount", "AssignmentCount", "MappingEntry",
                        "MappingCount", "Assignment", "AssignmentCount">>

Phases == <<"AssignmentCount", "MappingCount", "MappingEntry",
            "MappingCount", "Assignment", "AssignmentCount">>

\* Mutant of Untouched: matching mappings are rewritten like all others.
UntouchedNone(c, kept) == Is(c, "MappingCount") /\ Checks[c].expected = 0

\* Kept mappings and the counts of empty PDOs are never written.
Untouched(c, kept) == c \in kept \/ (Is(c, "MappingCount") /\ Checks[c].expected = 0)

\* Mutant of ReadBack: the entries are taken on trust once the counts match.
ReadBackCounts(c) == Is(c, "AssignmentCount") \/ Is(c, "MappingCount")

\* The checks that are read back: all of them.
ReadBack(c) == c \in Indices

Visited(p, c, kept) ==
    \/ p = 0 /\ c \in Mapped
    \/ p \in 1..6 /\ Is(c, Phases[p]) /\ ~Untouched(c, kept)
    \/ p = 7 /\ ReadBack(c)

Before(o, q) == o[1] < q[1] \/ (o[1] = q[1] /\ o[2] < q[2])

\* What is left of the loops over slave s after position o.
Later(s, o, kept) ==
    {q \in (0..7) \X Group(s) : Before(o, q) /\ Visited(q[1], q[2], kept)}

Soonest(S) == CHOOSE o \in S : \A q \in S : o = q \/ Before(o, q)

Nowhere == <<0, 0>>

FirstSlave == Checks[1].slave
LaterSlaves == {s \in Slaves : s > slave}

Phase  == pos[1]
Cursor == pos[2]
Reading == mode = "pdo" /\ Phase \in {0, 7}
Writing == mode = "pdo" /\ Phase \in 1..6

\* What a write phase writes: counts are cleared first.
Value == IF Phase <= 2 THEN 0 ELSE Checks[Cursor].expected

-----------------------------------------------------------------------------
(* Where the loops go next.                                                *)

\* The head of the attempt loop: nothing is kept, the mappings are read first.
StartAttempt(s, n) ==
    /\ mode' = "pdo" /\ slave' = s /\ attempt' = n /\ keep' = {}
    /\ pos' = Soonest(Later(s, Nowhere, {})) /\ at' = "guard"
    /\ UNCHANGED <<command, verdict>>

Finish(outcome, why) ==
    /\ mode' = "done" /\ pos' = Nowhere /\ at' = "guard"
    /\ result' = outcome /\ failure' = why
    /\ UNCHANGED <<command, slave, attempt, keep>>

\* On to what comes after position o.
Continue(o, kept) ==
    /\ pos' = Soonest(Later(slave, o, kept)) /\ keep' = kept /\ at' = "guard"
    /\ UNCHANGED <<mode, command, slave, attempt, verdict>>

\* Mutant of Retry: a failed attempt starts over with the init commands.
RetryFromInit(why) ==
    IF attempt < MaxAttempts
    THEN /\ mode' = "init" /\ command' = 1 /\ pos' = Nowhere /\ at' = "guard"
         /\ attempt' = attempt + 1
         /\ UNCHANGED <<slave, keep, verdict>>
    ELSE Finish("Failed", why)

\* Mutant of Retry: the attempts are not counted.
RetryUncounted(why) == StartAttempt(slave, attempt)

\* A failed attempt: once more for the whole slave, or give up.
Retry(why) ==
    IF attempt < MaxAttempts
    THEN StartAttempt(slave, attempt + 1)
    ELSE Finish("Failed", why)

\* The slave was read back entirely: on to the next, or done.
NextSlave ==
    IF LaterSlaves = {}
    THEN Finish("Ok", "None")
    ELSE \E s \in LaterSlaves : (\A t \in LaterSlaves : s <= t) /\ StartAttempt(s, 1)

Init ==
    /\ mode = "init" /\ command = 1 /\ pos = Nowhere /\ at = "guard"
    /\ slave = FirstSlave /\ attempt = 1 /\ keep = {}
    /\ reply = "None" /\ result = "Pending" /\ failure = "None"
    /\ device \in PowerUp
    /\ preop = Slaves /\ expired = FALSE
    /\ faults = 0 /\ strayed = {} /\ left = {} /\ sent = <<>>

-----------------------------------------------------------------------------
(* One SDO between two guards.                                             *)

Commanding == mode = "init" /\ command <= Len(InitWrites)
Busy == Commanding \/ mode = "pdo"

Addressed == IF Commanding THEN InitWrites[command] ELSE slave

GuardPasses == Addressed \in preop /\ ~expired

\* A failing guard ends the configuration for good, whatever the loop.
GuardFails ==
    /\ at \in {"guard", "confirm"} /\ Busy
    /\ \/ /\ ~GuardPasses
          /\ Finish("Failed", IF Addressed \in preop THEN "PreopTimeout" ELSE "PreopState")
          /\ UNCHANGED faults
       \/ /\ faults < MaxFaults /\ faults' = faults + 1      \* clock or state query
          /\ Finish("Failed", "Clock") \/ Finish("Failed", "PreopState")
    /\ UNCHANGED <<reply, sent, world>>

Guard ==
    /\ at = "guard" /\ Busy /\ GuardPasses
    /\ at' = "call"
    /\ UNCHANGED <<loop, reply, faults, sent, world>>

\* The init commands are through: the slaves take their turns.
BeginSlaves ==
    /\ mode = "init" /\ ~Commanding
    /\ StartAttempt(slave, attempt)
    /\ UNCHANGED <<reply, faults, sent, world>>

AssignmentsOf(s) == {c \in Group(s) : Is(c, "AssignmentCount")}

\* What a device refuses: touching a PDO mapping while PDOs are assigned, an
\* entry of a mapping that is in force, an assignment that is in force.
OutOfOrder(c) ==
    \/ /\ Is(c, "MappingCount") \/ Is(c, "MappingEntry")
       /\ \E a \in AssignmentsOf(Checks[c].slave) : device[a] # 0
    \/ Is(c, "MappingEntry") /\ \E m \in BlockOf(c) : Is(m, "MappingCount") /\ device[m] # 0
    \/ /\ Is(c, "Assignment")
       /\ \E a \in AssignmentsOf(Checks[c].slave) :
            Checks[a].sm = Checks[c].sm /\ device[a] # 0

Reached == Addressed \in preop

\* ecrt_master_sdo_download of a dictionary value: refused or done; or, as a
\* fault, failed on the way there or back, or acknowledged and not kept (a
\* device that will not clear a count would break the order of writes itself).
CallWrite ==
    /\ at = "call" /\ Writing
    /\ LET written == [device EXCEPT ![Cursor] = Value]
           refused == ~Reached \/ OutOfOrder(Cursor) \/ Cursor \in Fixed
       IN  \/ refused /\ reply' = "Error" /\ UNCHANGED <<device, faults>>
           \/ ~refused /\ reply' = "Done" /\ device' = written /\ UNCHANGED faults
           \/ /\ faults < MaxFaults /\ faults' = faults + 1
              /\ \/ reply' = "Error" /\ UNCHANGED device
                 \/ reply' = "Error" /\ ~refused /\ device' = written
                 \/ reply' = "Done" /\ Reached /\ Value # 0 /\ UNCHANGED device
    /\ at' = "confirm"
    /\ UNCHANGED <<loop, sent, preop, expired, strayed, left>>

\* ecrt_master_sdo_download of an init command.
CallInit ==
    /\ at = "call" /\ Commanding
    /\ sent' = Append(sent, command)
    /\ \/ reply' = (IF Reached THEN "Done" ELSE "Error") /\ UNCHANGED faults
       \/ faults < MaxFaults /\ faults' = faults + 1 /\ reply' = "Error"
    /\ at' = "confirm"
    /\ UNCHANGED <<loop, world>>

\* ecrt_master_sdo_upload and the comparison of size and value.
CallRead ==
    /\ at = "call" /\ Reading
    /\ \/ /\ Reached
          /\ reply' = (IF device[Cursor] = Checks[Cursor].expected THEN "Match" ELSE "Differ")
          /\ UNCHANGED faults
       \/ ~Reached /\ reply' = "Error" /\ UNCHANGED faults
       \/ faults < MaxFaults /\ faults' = faults + 1 /\ reply' \in {"Error", "BadSize"}
    /\ at' = "confirm"
    /\ UNCHANGED <<loop, sent, world>>

Confirmed == at = "confirm" /\ GuardPasses

\* A failed init command is final: the commands are not replayed.
ConfirmInit ==
    /\ Confirmed /\ Commanding
    /\ IF reply # "Done" THEN Finish("Failed", "Write")
       ELSE /\ command' = command + 1 /\ at' = "guard"
            /\ UNCHANGED <<mode, slave, attempt, pos, keep, verdict>>
    /\ UNCHANGED <<reply, faults, sent, world>>

\* A mapping is kept when its count and all its entries match; at the first
\* difference the rest of it is not read.
ConfirmPreread ==
    /\ Confirmed /\ mode = "pdo" /\ Phase = 0
    /\ \E last \in BlockOf(Cursor) :
         /\ \A d \in BlockOf(Cursor) : d <= last
         /\ \/ reply = "Match" /\ Cursor # last /\ Continue(pos, keep)
            \/ reply = "Match" /\ Cursor = last /\ Continue(pos, keep \union BlockOf(Cursor))
            \/ reply = "Differ" /\ Continue(<<0, last>>, keep)
            \/ reply \notin {"Match", "Differ"} /\ Retry("Read")
    /\ UNCHANGED <<reply, faults, sent, world>>

ConfirmWrite ==
    /\ Confirmed /\ Writing
    /\ IF reply = "Done" THEN Continue(pos, keep) ELSE Retry("Write")
    /\ UNCHANGED <<reply, faults, sent, world>>

ConfirmReadback ==
    /\ Confirmed /\ mode = "pdo" /\ Phase = 7
    /\ \/ reply # "Match" /\ Retry("Compare")
       \/ reply = "Match" /\ Later(slave, pos, keep) # {} /\ Continue(pos, keep)
       \/ reply = "Match" /\ Later(slave, pos, keep) = {} /\ NextSlave
    /\ UNCHANGED <<reply, faults, sent, world>>

-----------------------------------------------------------------------------
(* Slaves and clock.                                                       *)

\* A slave drops out of PREOP and wakes up with a dictionary of its own.
LeavePreop(s) ==
    /\ s \in preop
    /\ preop' = preop \ {s} /\ left' = left \union {s}
    /\ strayed' = IF s < slave
                  THEN strayed \union {s} ELSE strayed
    /\ \E image \in PowerUp :
         device' = [c \in Indices |-> IF c \in Group(s) THEN image[c] ELSE device[c]]
    /\ UNCHANGED <<loop, at, reply, faults, sent, expired>>

\* Coming back takes longer than the gap between two guards of one slave.
RegainPreop(s) ==
    /\ s \notin preop /\ Addressed # s
    /\ preop' = preop \union {s}
    /\ UNCHANGED <<loop, at, reply, faults, sent, device, expired, strayed, left>>

Expire ==
    /\ ~expired /\ expired' = TRUE
    /\ UNCHANGED <<loop, at, reply, faults, sent, device, preop, strayed, left>>

Thread ==
    \/ BeginSlaves \/ Guard \/ GuardFails \/ CallInit \/ CallWrite \/ CallRead
    \/ ConfirmInit \/ ConfirmPreread \/ ConfirmWrite \/ ConfirmReadback

Environment ==
    /\ Busy
    /\ Expire \/ \E s \in Slaves : LeavePreop(s) \/ RegainPreop(s)

Returned == mode = "done" /\ UNCHANGED vars

Next == Thread \/ Environment \/ Returned

\* An SDO ioctl returns sooner or later; nothing else is asked of the world.
Spec == Init /\ [][Next]_vars /\ WF_vars(Thread)

-----------------------------------------------------------------------------
(* Properties.                                                             *)

\* Success means that every dictionary holds the configuration, except for a
\* slave that restarted after its own turn (the startup loop looks again).
SuccessConfigured ==
    result = "Ok" => \A c \in Indices :
        Checks[c].slave \notin strayed => device[c] = Checks[c].expected

\* A slave that stayed in PREOP is never asked for a write it has to refuse
\* because of what is still assigned or mapped.
OrderedWrites ==
    at = "call" /\ Writing /\ Reached => ~OutOfOrder(Cursor)

\* A failure has a cause outside this program: an SDO or clock fault, a slave
\* out of PREOP, the budget, or a read-only object that is not as configured.
NoHomemadeFailure ==
    result = "Failed" =>
        \/ faults > 0 \/ left # {} \/ expired
        \/ \E c \in Indices :
             /\ c \in Fixed \/ (Is(c, "MappingCount") /\ Checks[c].expected = 0)
             /\ device[c] # Checks[c].expected

\* Init commands are sent in order, each at most once however often the PDO
\* part is retried, and all of them before the first PDO object is touched.
InitOnce ==
    /\ \A i \in 1..Len(sent) : sent[i] = i
    /\ mode = "pdo" => Len(sent) = Len(InitWrites)

\* The conversation ends, however often attempts fail.
ConfigurationEnds == <>(mode = "done")
=============================================================================
