--------------------------- MODULE BusPublication ---------------------------
(***************************************************************************)
(* What the cyclic thread publishes about the bus in every cycle, startup  *)
(* and running alike: it asks IgH for the master, the domains and each     *)
(* slave, one call after the other, stores field by field, and closes with *)
(* the heartbeat an App judges the age of the rest by.  Slaves, link and   *)
(* working counters change between any two of these steps, and an App may  *)
(* look after any of them.                                                 *)
(*                                                                         *)
(* Timing fields are in module StatisticsReset; wall time, dt and the      *)
(* authorisation flag say nothing about the bus, and wc_state with its bit *)
(* of status_valid depends on no other field.  There is no counter of      *)
(* cycles: what was true since a heartbeat is kept in history variables,   *)
(* for one slave and one AL state, which may be any.                       *)
(***************************************************************************)
EXTENDS Integers

CONSTANTS
    NSlaves,    \* bus.slave_num
    AlStates,   \* AL states a slave may be in, with error bits or without
    Counts,     \* numbers of slaves IgH may find on the bus, known ones or not
    Watched,    \* the slave whose past the history follows
    WatchedAl   \* and the AL state it looks for

ASSUME BusAssumption ==
    /\ NSlaves \in Nat \ {0}
    /\ AlStates \subseteq Nat \ {0}
    /\ Counts \subseteq Nat
    /\ Watched \in 1..NSlaves
    /\ WatchedAl \in AlStates

VARIABLES
    al, link,           \* the bus as IgH sees it: AL states (0: off line), link
    stage, k,           \* where the cyclic thread is, the slave it is at
    state,              \* BusState of this cycle
    answer,             \* ec_slave_config_state_t of slave k
    record,             \* bus.slaves[]
    current, linkUp, connected, valid,  \* fields of EcatBus (valid: bits 0, 1)
    alNow, linkNow,     \* history: true at some moment since the wake of this cycle
    alSince, linkSince  \* and since the wake the heartbeat stands for

world   == <<al, link>>
fields  == <<current, linkUp, connected, valid>>
lately  == <<alNow, linkNow>>
since   == <<alSince, linkSince>>
busVars == <<world, stage, k, state, answer, record, fields, lately, since>>

Slaves == 1..NSlaves
Offline == 0

\* The states summarizeBusState knows: INIT, PREOP, BOOTSTRAP, SAFEOP, OP.
KnownStates == {1, 2, 3, 4, 8}

\* What the history looks for.
Shown == al[Watched] = WatchedAl

NoState == [master |-> FALSE, link |-> FALSE, responding |-> 0]
NoAnswer == [valid |-> FALSE, al |-> Offline]
NoRecord == [online |-> 0, al |-> 0, valid |-> 0]

BusInit ==
    /\ al \in [Slaves -> AlStates \union {Offline}] /\ link \in BOOLEAN
    /\ stage = "wait" /\ k = 1 /\ state = NoState /\ answer = NoAnswer
    /\ record = [s \in Slaves |-> NoRecord]
    /\ current = 0 /\ linkUp = 0 /\ connected = 0 /\ valid = FALSE
    /\ alNow = Shown /\ linkNow = link
    /\ alSince = alNow /\ linkSince = linkNow

-----------------------------------------------------------------------------
(* One cycle.                                                              *)

WakeUp ==
    /\ stage = "wait" /\ stage' = "state"
    /\ alNow' = Shown /\ linkNow' = link
    /\ UNCHANGED <<world, k, state, answer, record, fields, since>>

\* readState
ReadState ==
    /\ stage = "state" /\ stage' = "query"
    /\ \/ \E n \in Counts : state' = [master |-> TRUE, link |-> link, responding |-> n]
       \/ state' = NoState
    /\ UNCHANGED <<world, k, answer, record, fields, lately, since>>

Online == answer.valid /\ answer.al # Offline

StoreRecord(field, value, next) ==
    /\ record' = [record EXCEPT ![k] = [@ EXCEPT ![field] = value]]
    /\ stage' = next
    /\ UNCHANGED <<world, state, fields, lately, since>>

\* publishSlaveRuntime asks for one slave and stores what it heard in three steps
\* (between the question and the first store nothing changes that anyone sees).
StoreOnline ==
    /\ stage = "query" /\ UNCHANGED k
    /\ answer' \in {NoAnswer, [valid |-> TRUE, al |-> al[k]]}
    /\ StoreRecord("online", IF Online' THEN 1 ELSE 0, "al")

\* Mutant of StoreAl: the last known state stays when the query fails.
StoreAlKept ==
    /\ stage = "al" /\ UNCHANGED <<k, answer>>
    /\ StoreRecord("al", IF Online THEN answer.al
                         ELSE IF answer.valid THEN 0 ELSE record[k].al, "valid")

StoreAl ==
    /\ stage = "al" /\ UNCHANGED <<k, answer>>
    /\ StoreRecord("al", IF Online THEN answer.al ELSE 0, "valid")

LastSlave == k = NSlaves

\* Mutant of StoreValid: a slave that does not answer is asked again.
StoreValidAsked ==
    /\ stage = "valid"
    /\ k' = IF LastSlave \/ ~answer.valid THEN k ELSE k + 1
    /\ answer' = NoAnswer
    /\ StoreRecord("valid", IF answer.valid THEN (IF Online THEN 3 ELSE 1) ELSE 0,
                   IF ~answer.valid THEN "query" ELSE IF LastSlave THEN "summary" ELSE "query")

StoreValid ==
    /\ stage = "valid"
    /\ k' = IF LastSlave THEN k ELSE k + 1
    /\ answer' = NoAnswer
    /\ StoreRecord("valid", IF answer.valid THEN (IF Online THEN 3 ELSE 1) ELSE 0,
                   IF LastSlave THEN "summary" ELSE "query")

\* Mutant of Common: the link is not looked at.
CommonUnlinked(x) ==
    /\ state.master /\ state.responding = NSlaves
    /\ \A s \in Slaves : record[s] = [online |-> 1, al |-> x, valid |-> 3]

\* Every configured slave was published as on line in state x, on a bus that is
\* linked and counts exactly so many slaves.
Common(x) ==
    /\ state.master /\ state.link /\ state.responding = NSlaves
    /\ \A s \in Slaves : record[s] = [online |-> 1, al |-> x, valid |-> 3]

\* summarizeBusState
Summary ==
    IF \E x \in KnownStates : Common(x) THEN CHOOSE x \in KnownStates : Common(x) ELSE 0

\* updateSharedBus
StoreSummary ==
    /\ stage = "summary" /\ stage' = "connected"
    /\ current' = Summary
    /\ UNCHANGED <<world, k, state, answer, record, linkUp, connected, valid, lately, since>>

StoreConnected ==
    /\ stage = "connected" /\ stage' = "link"
    /\ connected' = state.responding
    /\ UNCHANGED <<world, k, state, answer, record, current, linkUp, valid, lately, since>>

StoreLink ==
    /\ stage = "link" /\ stage' = "bits"
    /\ linkUp' = IF state.link THEN 1 ELSE 0
    /\ UNCHANGED <<world, k, state, answer, record, current, connected, valid, lately, since>>

StoreBits ==
    /\ stage = "bits" /\ stage' = "heartbeat"
    /\ valid' = state.master
    /\ UNCHANGED <<world, k, state, answer, record, current, linkUp, connected, lately, since>>

\* The wake time of this cycle, after everything else; then the cycle goes on
\* to send, and to sleep.
StoreHeartbeat ==
    /\ stage = "heartbeat" /\ stage' = "wait"
    /\ alSince' = alNow /\ linkSince' = linkNow
    /\ k' = 1 /\ state' = NoState
    /\ UNCHANGED <<world, answer, record, fields, lately>>

\* run() returns: a signal or a clock before the bus is asked, CLOCK_REALTIME
\* before the publication, an error of the frame after it.
Return ==
    /\ stage \in {"wait", "state", "query"} /\ (stage = "query" => k = 1)
    /\ stage' = "returned"
    /\ UNCHANGED <<world, k, state, answer, record, fields, lately, since>>

-----------------------------------------------------------------------------
(* The bus.                                                                *)

SlaveMoves(s) ==
    /\ al' \in {[al EXCEPT ![s] = x] : x \in AlStates \union {Offline}}
    /\ alNow' = (alNow \/ Shown') /\ alSince' = (alSince \/ Shown')
    /\ UNCHANGED <<link, stage, k, state, answer, record, fields, linkNow, linkSince>>

LinkMoves ==
    /\ link' = ~link
    /\ linkNow' = (linkNow \/ link') /\ linkSince' = (linkSince \/ link')
    /\ UNCHANGED <<al, stage, k, state, answer, record, fields, alNow, alSince>>

-----------------------------------------------------------------------------

Cycle ==
    \/ WakeUp \/ ReadState
    \/ StoreOnline \/ StoreAl \/ StoreValid
    \/ StoreSummary \/ StoreConnected \/ StoreLink \/ StoreBits \/ StoreHeartbeat

Bus == (\E s \in Slaves : SlaveMoves(s)) \/ LinkMoves

BusNext == Cycle \/ Return \/ Bus

\* The cyclic thread runs at real-time priority and its deadlines come.
BusSpec == BusInit /\ [][BusNext]_busVars /\ WF_busVars(Cycle)

-----------------------------------------------------------------------------
(* Properties.                                                             *)

Stages == {"wait", "state", "query", "al", "valid", "summary",
        "connected", "link", "bits", "heartbeat", "returned"}

\* Every variable has its type (the names of the fields are those of EcatBus).
BusTypeOK ==
    /\ al \in [Slaves -> AlStates \union {Offline}] /\ link \in BOOLEAN
    /\ stage \in Stages /\ k \in Slaves
    /\ state \in [master : BOOLEAN, link : BOOLEAN, responding : Nat]
    /\ answer \in [valid : BOOLEAN, al : AlStates \union {Offline}]
    /\ record \in [Slaves -> [online : {0, 1}, al : AlStates \union {0}, valid : {0, 1, 3}]]
    /\ current \in KnownStates \union {0} /\ linkUp \in {0, 1} /\ connected \in Nat
    /\ valid \in BOOLEAN
    /\ alNow \in BOOLEAN /\ alSince \in BOOLEAN
    /\ linkNow \in BOOLEAN /\ linkSince \in BOOLEAN

\* The heartbeat dates everything an App finds with it, whenever it looks: an AL
\* state or a link it reads was real at some moment since the wake the heartbeat
\* stands for, and current_state was real of every slave (the watched slave and
\* state are any).
HeartbeatHonest ==
    /\ current = WatchedAl => linkSince /\ alSince
    /\ record[Watched].al = WatchedAl => alSince
    /\ linkUp = 1 => linkSince

\* Between two publications a current_state other than 0 agrees with every field
\* it summarises: slaves, link, number of slaves and their validity.
RestConsistent ==
    stage = "wait" /\ current # 0 =>
        /\ \A s \in Slaves : record[s] = [online |-> 1, al |-> current, valid |-> 3]
        /\ linkUp = 1 /\ connected = NSlaves /\ valid

\* An old OP is not kept: when a slave stays out of a state for good, off line or
\* stuck in another one, current_state ends elsewhere, unless run() has returned.
LossShown ==
    \A s \in Slaves, x \in AlStates :
        <>[](al[s] # x) => <>[](current # x \/ stage = "returned")
=============================================================================
