--------------------------- MODULE StartupOptions ---------------------------
(***************************************************************************)
(* How main() arrives at the options it runs with: the command line is     *)
(* parsed, the startup file (and an ENI file it names) loaded, the command *)
(* line parsed again over the file's settings, and the options checked     *)
(* against the machine and against the clocks of the slaves.               *)
(*                                                                         *)
(* A flag is named like the setting it gives; "attempts" stands for the    *)
(* four settings that are plain integers (the timeouts and master_id as    *)
(* well, whose minimum differs), "bogus" for every unknown flag.  Texts    *)
(* are model strings, Number says which of them are unsigned integers.     *)
(***************************************************************************)
EXTENDS Integers, Sequences, FiniteSets

CONSTANTS
    CommandLines,   \* what may be passed
    Files,          \* what the startup file may say
    Number,         \* the texts that are integers, and their values
    MinPeriod,      \* 1000 us
    UintMax,        \* 2^32 - 1
    NsPerUs,        \* 1000
    CpuSetSize

Settings == {"config", "period", "dc", "cpu", "attempts"}
Flags    == Settings \union {"help", "bogus"}

\* cpu = -1: not bound.
BuiltIn ==
    [s \in Settings |-> IF s = "config" THEN "" ELSE IF s = "dc" THEN FALSE
                        ELSE IF s = "cpu" THEN -1 ELSE IF s = "period" THEN MinPeriod ELSE 5]

ASSUME OptionsAssumption ==
    /\ MinPeriod \in Nat \ {0} /\ NsPerUs \in Nat \ {0} /\ CpuSetSize \in Nat
    /\ UintMax \in Nat /\ MinPeriod <= UintMax \div NsPerUs /\ 5 <= UintMax
    /\ Number \in [DOMAIN Number -> Nat]
    /\ DOMAIN Number \intersect (Flags \union {"auto", "null", "on", "off"}) = {}
    /\ CommandLines \subseteq Seq(STRING)
    /\ \A f \in Files : f.slaves # <<>> /\ IsFiniteSet(DOMAIN f.slaves)

VARIABLES
    pc,
    argv,
    options,
    at, seen,    \* i and the _seen flags of parseRuntimeOptions
    help,        \* show_help
    defaults,    \* what the command line is laid over
    file,        \* what the startup file says, once it is read
    denied,      \* history: the kernel did not let us have the CPU
    dcRuntime    \* DistributedClockRuntimeConfig

parser == <<options, at, seen, help>>
vars   == <<pc, argv, parser, defaults, file, denied, dcRuntime>>

NoFile  == [eni |-> FALSE, period |-> MinPeriod, yaml |-> <<>>, slaves |-> <<>>]
Loaded  == file.slaves # <<>>
NoClock == [enabled |-> FALSE, sync0 |-> 0, reference |-> 0]

Init ==
    /\ pc = "parse" /\ argv \in CommandLines
    /\ options = BuiltIn /\ defaults = BuiltIn
    /\ at = 1 /\ seen = {} /\ help = FALSE
    /\ file = NoFile /\ denied = FALSE /\ dcRuntime = NoClock

Reject == pc' = "rejected"

-----------------------------------------------------------------------------
(* parseRuntimeOptions, one argument or pair per step.                     *)

Integer(text, least) == text \in DOMAIN Number /\ Number[text] \in least..UintMax

\* Whether a setting takes this text, and what it means.
Legal(setting, text) ==
    \/ setting = "config" /\ text \notin Flags
    \/ setting = "period" /\ Integer(text, MinPeriod)
    \/ setting = "dc" /\ text \in {"on", "off"}
    \/ setting = "cpu" /\ (text = "auto" \/ Integer(text, 0))
    \/ setting = "attempts" /\ Integer(text, 1)

Meaning(setting, text) ==
    IF setting = "config" THEN text
    ELSE IF setting = "dc" THEN text = "on"
    ELSE IF setting = "cpu" /\ text \in {"auto", "null"} THEN -1
    ELSE Number[text]

Arguing == pc = "parse" /\ at <= Len(argv)

Help ==
    /\ Arguing /\ argv[at] = "help"
    /\ help' = TRUE /\ at' = at + 1
    /\ UNCHANGED <<pc, argv, options, seen, defaults, file, denied, dcRuntime>>

\* A flag and its value; each flag once.
Takes(setting) ==
    /\ argv[at] = setting /\ at < Len(argv) /\ setting \notin seen
    /\ Legal(setting, argv[at + 1])

Take(setting) ==
    /\ Arguing /\ Takes(setting)
    /\ options' = [options EXCEPT ![setting] = Meaning(setting, argv[at + 1])]
    /\ seen' = seen \union {setting} /\ at' = at + 2
    /\ UNCHANGED <<pc, argv, help, defaults, file, denied, dcRuntime>>

\* An unknown flag, one without a value or with a bad one, one repeated.
RefuseArgument ==
    /\ Arguing /\ argv[at] # "help" /\ \A s \in Settings : ~Takes(s)
    /\ Reject
    /\ UNCHANGED <<argv, parser, defaults, file, denied, dcRuntime>>

\* Nanoseconds of SYNC0 that do not fit into their 32 bits.
TooLong(period) == period > UintMax \div NsPerUs

\* The checks after the last argument.
Complete == (help \/ "config" \in seen) /\ ~(options["dc"] /\ TooLong(options["period"]))

\* First pass: usage, or on to the file.  Second pass: on to the machine.
EndParse ==
    /\ pc = "parse" /\ at > Len(argv)
    /\ IF ~Complete THEN Reject
       ELSE pc' = IF Loaded THEN "machine" ELSE IF help THEN "usage" ELSE "load"
    /\ UNCHANGED <<argv, parser, defaults, file, denied, dcRuntime>>

-----------------------------------------------------------------------------
(* loadPdoConfig and loadEniConfig, as far as options and clocks go.       *)

References(slaves) == {i \in DOMAIN slaves : slaves[i].dc /\ slaves[i].reference}

HasClock(f) == \E i \in DOMAIN f.slaves : f.slaves[i].dc

\* Mutant of EniDefaults: an ENI with clocks does not switch them on.
EniDefaultsPeriodOnly(f) == IF f.eni THEN [BuiltIn EXCEPT !["period"] = f.period] ELSE BuiltIn

\* What an ENI file says goes before the built-in values.
EniDefaults(f) ==
    IF f.eni THEN [BuiltIn EXCEPT !["period"] = f.period, !["dc"] = HasClock(f)] ELSE BuiltIn

\* The settings of the YAML are named there or not; cpu may be null.
YamlLegal(f) ==
    \A s \in DOMAIN f.yaml :
        IF s = "cpu" THEN f.yaml[s] = "null" \/ Integer(f.yaml[s], 0) ELSE Legal(s, f.yaml[s])

Overlaid(base, f) ==
    [s \in Settings |-> IF s \in DOMAIN f.yaml THEN Meaning(s, f.yaml[s]) ELSE base[s]]

\* An ENI with clocks has one reference, a YAML file at most one.
FileLegal(f) ==
    /\ YamlLegal(f)
    /\ f.eni => f.period \in MinPeriod..UintMax
    /\ f.eni /\ HasClock(f) => Cardinality(References(f.slaves)) = 1
    /\ Cardinality(References(f.slaves)) <= 1

Load(f) ==
    /\ pc = "load"
    /\ file' = f
    /\ IF FileLegal(f)
       THEN /\ pc' = "parse"
            /\ defaults' = Overlaid(EniDefaults(f), f)
            /\ options' = [defaults' EXCEPT !["config"] = ""]
            /\ at' = 1 /\ seen' = {} /\ help' = FALSE
       ELSE /\ Reject
            /\ UNCHANGED <<defaults, parser>>
    /\ UNCHANGED <<argv, denied, dcRuntime>>

-----------------------------------------------------------------------------
(* Before the master is requested.                                         *)

\* validateThreadCpu: a thread that tries to bind itself.
CheckCpu ==
    /\ pc = "machine"
    /\ \/ options["cpu"] < CpuSetSize /\ pc' = "clocks" /\ UNCHANGED denied
       \/ options["cpu"] # -1 /\ denied' = TRUE /\ Reject
    /\ UNCHANGED <<argv, parser, defaults, file, dcRuntime>>

Wrapped(ns) == ns % (UintMax + 1)

\* Mutant of ClocksAgree: only the reference clock's cycle is compared.
ClocksAgreeReference ==
    \A i \in References(file.slaves) :
        file.slaves[i].cycle \in {0, Wrapped(options["period"] * NsPerUs)}

\* A slave whose cycle is fixed must have that of the program.
ClocksAgree ==
    \A i \in DOMAIN file.slaves : file.slaves[i].dc =>
        file.slaves[i].cycle \in {0, Wrapped(options["period"] * NsPerUs)}

\* buildDistributedClockRuntimeConfig, the way it is called by initialize.
BuildClocks ==
    /\ pc = "clocks"
    /\ IF ~options["dc"]
       THEN pc' = "ready" /\ UNCHANGED dcRuntime
       ELSE IF ~TooLong(options["period"]) /\ ClocksAgree
                 /\ Cardinality(References(file.slaves)) = 1
            THEN /\ dcRuntime' = [enabled |-> TRUE,
                                  sync0 |-> Wrapped(options["period"] * NsPerUs),
                                  reference |-> CHOOSE i \in References(file.slaves) : TRUE]
                 /\ pc' = "ready"
            ELSE Reject /\ UNCHANGED dcRuntime
    /\ UNCHANGED <<argv, parser, defaults, file, denied>>

Next ==
    \/ Help \/ (\E s \in Settings : Take(s)) \/ RefuseArgument \/ EndParse
    \/ (\E f \in Files : Load(f)) \/ CheckCpu \/ BuildClocks

Spec == Init /\ [][Next]_vars

-----------------------------------------------------------------------------
(* Properties.                                                             *)

\* Where a setting is on the command line, and what it says there.
Given(s) == {p \in 1..Len(argv) : argv[p] = s}
FromArgv(s) == {Meaning(s, argv[p + 1]) : p \in Given(s)}

\* The value a setting is asked to have, by precedence: the command line, the
\* YAML file, the ENI file, the built-in value.
Asked(s) ==
    IF Given(s) # {} THEN FromArgv(s)
    ELSE IF s \in DOMAIN file.yaml THEN {Meaning(s, file.yaml[s])}
    ELSE IF file.eni /\ s = "period" THEN {file.period}
    ELSE IF file.eni /\ s = "dc" THEN {HasClock(file)}
    ELSE {BuiltIn[s]}

\* A command line is flags, each once, each but help before a value it takes.
WellFormed ==
    /\ \A p \in 1..Len(argv) :
          \/ argv[p] = "help"
          \/ argv[p] \in Settings /\ p < Len(argv) /\ Legal(argv[p], argv[p + 1])
          \/ p > 1 /\ argv[p - 1] \in Settings /\ argv[p] \notin Flags
    /\ \A s \in Settings, p, q \in 1..Len(argv) : argv[p] = s /\ argv[q] = s => p = q

\* SYNC0 is the period itself, neither wrapped nor other than a slave's own.
ClocksExact ==
    /\ dcRuntime.sync0 = options["period"] * NsPerUs
    /\ References(file.slaves) = {dcRuntime.reference}
    /\ \A i \in DOMAIN file.slaves :
          file.slaves[i].dc => file.slaves[i].cycle \in {0, dcRuntime.sync0}

\* What the program starts with is what was asked for by precedence, although
\* the command line is parsed twice, over different defaults.  With distributed
\* clocks the slaves are told exactly the period the program runs at.  And the
\* first parse, which does not know the file's settings yet, refuses a command
\* line only if no file could make it acceptable.
StartsAsAsked ==
    /\ pc = "ready" =>
          /\ WellFormed /\ \A s \in Settings : Asked(s) = {options[s]}
          /\ dcRuntime.enabled = options["dc"]
          /\ options["dc"] => ClocksExact
    /\ pc = "rejected" /\ ~Loaded =>
          \/ ~WellFormed
          \/ Given("help") = {} /\ Given("config") = {}
          \/ FromArgv("dc") = {TRUE} /\ \E n \in FromArgv("period") : TooLong(n)
=============================================================================
