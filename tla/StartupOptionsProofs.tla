------------------------ MODULE StartupOptionsProofs ------------------------
(***************************************************************************)
(* The program starts with what was asked for, for any command line, any   *)
(* file and any word length.                                               *)
(***************************************************************************)
EXTENDS StartupOptions, FiniteSetTheorems, TLAPS

\* Of a period that is not too long the nanoseconds do not wrap.
LEMMA FitsUnwrapped ==
    ASSUME NEW p \in Nat, ~TooLong(p)
    PROVE  Wrapped(p * NsPerUs) = p * NsPerUs
<1> DEFINE q == UintMax \div NsPerUs
<1>1. UintMax \in Nat /\ NsPerUs \in Nat /\ NsPerUs > 0
  BY OptionsAssumption
<1>2. q \in Nat /\ q * NsPerUs <= UintMax
  BY <1>1, SMTT(30)
<1>3. p <= q
  BY <1>1, <1>2 DEF TooLong
<1>4. p * NsPerUs <= q * NsPerUs /\ p * NsPerUs \in Nat
  <2> HIDE DEF q
  <2> QED
    BY <1>1, <1>2, <1>3, SMTT(30)
<1>5. p * NsPerUs < UintMax + 1
  <2> HIDE DEF q
  <2> QED
    BY <1>1, <1>2, <1>4
<1>6. \A x \in Nat : x < UintMax + 1 => x % (UintMax + 1) = x
  BY <1>1, SMTT(30)
<1> QED
  BY <1>4, <1>5, <1>6 DEF Wrapped

-----------------------------------------------------------------------------
(* The inductive invariant.  Before is what the arguments before `at' have *)
(* amounted to; it says of a prefix what the property says of the whole.   *)

Pcs == {"parse", "usage", "load", "machine", "clocks", "ready", "rejected"}

\* Types, as far as the argument needs them.
TypeOK ==
    /\ pc \in Pcs
    /\ argv \in CommandLines /\ argv \in Seq(STRING)
    /\ options = [s \in Settings |-> options[s]]
    /\ options["period"] \in Nat /\ options["dc"] \in BOOLEAN
    /\ defaults["period"] \in Nat /\ defaults["dc"] \in BOOLEAN
    /\ at \in Nat \ {0} /\ seen \subseteq Settings /\ help \in BOOLEAN

Prefix == 1..(at - 1)

\* The arguments so far are flags with their values, and a pair is never split.
Formed ==
    /\ at <= Len(argv) + 1
    /\ at > 1 => argv[at - 1] \notin Settings
    /\ \A p \in Prefix :
          \/ argv[p] = "help"
          \/ argv[p] \in Settings /\ p < Len(argv) /\ Legal(argv[p], argv[p + 1])
          \/ p > 1 /\ argv[p - 1] \in Settings /\ argv[p] \notin Flags
    /\ \A p, q \in Prefix : argv[p] = argv[q] /\ argv[p] \in Settings => p = q

\* They are what seen and help say, and the options are laid over the defaults.
Recorded ==
    /\ \A p \in Prefix : argv[p] \in Settings => argv[p] \in seen
    /\ \A s \in seen : \E p \in Prefix : argv[p] = s
    /\ help => \E p \in Prefix : argv[p] = "help"
    /\ \A p \in Prefix : argv[p] = "help" => help
    /\ \A p \in Prefix : argv[p] \in Settings =>
          options[argv[p]] = Meaning(argv[p], argv[p + 1])
    /\ \A s \in Settings \ seen :
          options[s] = IF s = "config" THEN "" ELSE defaults[s]

Before == pc # "rejected" => Formed /\ Recorded

Whole == pc \notin {"parse", "rejected"} => at = Len(argv) + 1

DefaultsInv ==
    defaults = IF Loaded /\ FileLegal(file) THEN Overlaid(EniDefaults(file), file) ELSE BuiltIn

Places ==
    /\ pc \in {"machine", "clocks", "ready"} => Loaded /\ ~(options["dc"] /\ TooLong(options["period"]))
    /\ pc \in {"load", "usage"} => ~Loaded
    /\ Loaded /\ pc # "rejected" => FileLegal(file)
    /\ Loaded => file \in Files
    /\ pc = "load" \/ Loaded => Given("config") # {}

\* The clocks are set up in the last step.
ClockInv ==
    /\ pc # "ready" => dcRuntime = NoClock
    /\ pc = "ready" =>
          /\ dcRuntime.enabled = options["dc"]
          /\ options["dc"] => ClocksExact

CauseInv ==
    pc = "rejected" /\ ~Loaded =>
        \/ ~WellFormed
        \/ Given("help") = {} /\ Given("config") = {}
        \/ FromArgv("dc") = {TRUE} /\ \E n \in FromArgv("period") : TooLong(n)

IInv == TypeOK /\ Before /\ Whole /\ DefaultsInv /\ Places /\ ClockInv /\ CauseInv

-----------------------------------------------------------------------------
(* Texts.                                                                  *)

\* What a setting takes is no flag, so that values are never read as flags.
LEMMA ValueNoFlag ==
    ASSUME NEW s \in Settings, NEW t, Legal(s, t)
    PROVE  t \notin Flags
<1>1. ASSUME NEW n, Integer(t, n) PROVE t \notin Flags
  BY <1>1, OptionsAssumption DEF Integer
<1>2. CASE s = "config"
  BY <1>2 DEF Legal
<1>3. CASE s = "period"
  BY <1>1, <1>3 DEF Legal
<1>4. CASE s = "dc"
  BY <1>4 DEF Legal, Flags, Settings
<1>5. CASE s = "cpu"
  BY <1>1, <1>5 DEF Legal, Flags, Settings
<1>6. CASE s = "attempts"
  BY <1>1, <1>6 DEF Legal
<1> QED
  BY <1>2, <1>3, <1>4, <1>5, <1>6 DEF Settings

LEMMA MeaningTypes ==
    ASSUME NEW t
    PROVE  /\ Legal("period", t) => Meaning("period", t) \in Nat
           /\ Meaning("dc", t) \in BOOLEAN
<1>1. Meaning("dc", t) = (t = "on")
  BY DEF Meaning
<1>2. Meaning("period", t) = Number[t]
  BY DEF Meaning
<1>3. Legal("period", t) => t \in DOMAIN Number
  BY DEF Legal, Integer
<1> QED
  BY <1>1, <1>2, <1>3, OptionsAssumption

LEMMA BuiltInTypes ==
    /\ BuiltIn["period"] = MinPeriod /\ BuiltIn["dc"] = FALSE /\ BuiltIn["config"] = ""
    /\ MinPeriod \in Nat /\ ~TooLong(MinPeriod)
    /\ BuiltIn = [s \in Settings |-> BuiltIn[s]]
<1>1. MinPeriod \in Nat /\ ~TooLong(MinPeriod)
  BY OptionsAssumption DEF TooLong
<1> QED
  BY <1>1 DEF BuiltIn, Settings

-----------------------------------------------------------------------------
(* One step per action.                                                    *)

LEMMA InitIInv == Init => IInv
<1> SUFFICES ASSUME Init PROVE IInv
  OBVIOUS
<1>1. argv \in CommandLines /\ argv \in Seq(STRING)
  BY OptionsAssumption DEF Init
<1>2. pc = "parse" /\ options = BuiltIn /\ defaults = BuiltIn /\ at = 1 /\ seen = {}
      /\ help = FALSE /\ file.slaves = <<>> /\ dcRuntime = NoClock
  BY DEF Init, NoFile
<1>3. TypeOK
  <2>1. pc \in Pcs /\ seen \subseteq Settings /\ at \in Nat \ {0}
    BY <1>2 DEF Pcs
  <2>5. help \in BOOLEAN
    BY <1>2
  <2>2. options = [s \in Settings |-> options[s]]
    BY <1>2, BuiltInTypes
  <2>3. options["period"] \in Nat /\ defaults["period"] \in Nat
    BY <1>2, BuiltInTypes
  <2>4. options["dc"] \in BOOLEAN /\ defaults["dc"] \in BOOLEAN
    BY <1>2, BuiltInTypes
  <2> QED
    BY <1>1, <2>1, <2>2, <2>3, <2>4, <2>5 DEF TypeOK
<1>4. Prefix = {}
  BY <1>2 DEF Prefix
<1>5. Formed
  BY <1>1, <1>2, <1>4 DEF Formed
<1>6. Recorded
  BY <1>2, <1>4, BuiltInTypes DEF Recorded
<1>7. Whole /\ DefaultsInv /\ Places /\ ClockInv /\ CauseInv
  BY <1>2 DEF Whole, DefaultsInv, Places, ClockInv, CauseInv, Loaded
<1> QED
  BY <1>3, <1>5, <1>6, <1>7 DEF IInv, Before

LEMMA HelpIInv == IInv /\ Help => IInv'
<1> SUFFICES ASSUME IInv, Help PROVE IInv'
  OBVIOUS
<1>1. pc = "parse" /\ at <= Len(argv) /\ argv[at] = "help" /\ help' = TRUE /\ at' = at + 1
      /\ UNCHANGED <<pc, argv, options, seen, defaults, file, denied, dcRuntime>>
  BY DEF Help, Arguing
<1>2. TypeOK /\ Formed /\ Recorded
  BY <1>1 DEF IInv, Before
<1>3. at \in Nat \ {0} /\ Len(argv) \in Nat /\ at' \in Nat \ {0}
  BY <1>1, <1>2 DEF TypeOK
<1>4. TypeOK'
  BY <1>1, <1>2, <1>3 DEF TypeOK
<1>5. Prefix' = Prefix \union {at} /\ at \notin Prefix
  BY <1>1, <1>3 DEF Prefix
<1>6. argv[at] \notin Settings
  BY <1>1 DEF Settings
<1>7. Formed'
  <2>1. at' <= Len(argv) + 1 /\ argv[at' - 1] \notin Settings
    BY <1>1, <1>3, <1>6
  <2> QED
    BY <1>1, <1>2, <1>5, <1>6, <2>1 DEF Formed
<1>8. Recorded'
  BY <1>1, <1>2, <1>5, <1>6 DEF Recorded
<1>9. (Whole /\ DefaultsInv /\ Places /\ ClockInv /\ CauseInv)'
  BY <1>1 DEF IInv, Whole, DefaultsInv, Places, ClockInv, CauseInv, Loaded, Given
<1> QED
  BY <1>4, <1>7, <1>8, <1>9 DEF IInv, Before

\* The argument at `at' is a setting that was not seen, its value no flag.
LEMMA TakeIInv == ASSUME IInv, NEW s \in Settings, Take(s) PROVE IInv'
<1> DEFINE value == argv[at + 1]
<1>1. pc = "parse" /\ at < Len(argv) /\ argv[at] = s /\ s \notin seen /\ Legal(s, value)
      /\ options' = [options EXCEPT ![s] = Meaning(s, value)]
      /\ seen' = seen \union {s} /\ at' = at + 2
      /\ UNCHANGED <<pc, argv, help, defaults, file, denied, dcRuntime>>
  BY DEF Take, Takes, Arguing
<1>2. TypeOK /\ Formed /\ Recorded
  BY <1>1 DEF IInv, Before
<1>3. at \in Nat \ {0} /\ Len(argv) \in Nat /\ at' \in Nat \ {0} /\ at' - 1 = at + 1
  BY <1>1, <1>2 DEF TypeOK
<1>4. value \notin Flags /\ value \notin Settings /\ value # "help"
  BY <1>1, ValueNoFlag DEF Flags
<1>5. /\ options'[s] = Meaning(s, value)
      /\ \A t \in Settings : t # s => options'[t] = options[t]
      /\ options' = [t \in Settings |-> options'[t]]
  BY <1>1, <1>2 DEF TypeOK
<1>6. TypeOK'
  <2>1. options'["period"] \in Nat
    BY <1>1, <1>2, <1>5, MeaningTypes DEF TypeOK, Settings
  <2>2. options'["dc"] \in BOOLEAN
    BY <1>1, <1>2, <1>5, MeaningTypes DEF TypeOK, Settings
  <2> QED
    BY <1>1, <1>2, <1>3, <1>5, <2>1, <2>2 DEF TypeOK
<1>7. Prefix' = Prefix \union {at, at + 1} /\ at \notin Prefix /\ at + 1 \notin Prefix
  BY <1>1, <1>3 DEF Prefix
<1>8. \A p \in Prefix : argv[p] # s
  BY <1>1, <1>2 DEF Recorded
<1>9. Formed'
  <2>1. at' <= Len(argv) + 1 /\ argv[at' - 1] \notin Settings
    BY <1>1, <1>3, <1>4
  <2>2. \A p \in Prefix' :
           \/ argv[p] = "help"
           \/ argv[p] \in Settings /\ p < Len(argv) /\ Legal(argv[p], argv[p + 1])
           \/ p > 1 /\ argv[p - 1] \in Settings /\ argv[p] \notin Flags
    <3>1. (at + 1) - 1 = at /\ at + 1 > 1
      BY <1>3
    <3> QED
      BY <1>1, <1>2, <1>4, <1>7, <3>1 DEF Formed
  <2>3. \A p, q \in Prefix' : argv[p] = argv[q] /\ argv[p] \in Settings => p = q
    BY <1>1, <1>2, <1>4, <1>7, <1>8 DEF Formed
  <2> QED
    BY <1>1, <2>1, <2>2, <2>3 DEF Formed
<1>10. Recorded'
  <2>1. \A p \in Prefix' : argv[p] \in Settings => argv[p] \in seen'
    BY <1>1, <1>2, <1>4, <1>7 DEF Recorded
  <2>2. \A t \in seen' : \E p \in Prefix' : argv[p] = t
    BY <1>1, <1>2, <1>7 DEF Recorded
  <2>3. /\ help => \E p \in Prefix' : argv[p] = "help"
        /\ \A p \in Prefix' : argv[p] = "help" => help
    BY <1>1, <1>2, <1>4, <1>7 DEF Recorded, Settings
  <2>4. \A p \in Prefix' : argv[p] \in Settings =>
           options'[argv[p]] = Meaning(argv[p], argv[p + 1])
    <3> SUFFICES ASSUME NEW p \in Prefix', argv[p] \in Settings
                 PROVE  options'[argv[p]] = Meaning(argv[p], argv[p + 1])
      OBVIOUS
    <3>1. CASE p \in Prefix
      BY <1>2, <1>5, <1>8, <3>1 DEF Recorded
    <3>2. CASE p = at
      BY <1>1, <1>5, <3>2
    <3> QED
      BY <1>4, <1>7, <3>1, <3>2
  <2>5. \A t \in Settings \ seen' :
           options'[t] = IF t = "config" THEN "" ELSE defaults[t]
    BY <1>1, <1>2, <1>5 DEF Recorded
  <2> QED
    BY <1>1, <2>1, <2>2, <2>3, <2>4, <2>5 DEF Recorded
<1>11. (Whole /\ DefaultsInv /\ Places /\ ClockInv /\ CauseInv)'
  BY <1>1 DEF IInv, Whole, DefaultsInv, Places, ClockInv, CauseInv, Loaded, Given
<1> QED
  BY <1>6, <1>9, <1>10, <1>11 DEF IInv, Before

\* An argument that no setting takes is at no place a command line has for it.
LEMMA RefuseIInv == IInv /\ RefuseArgument => IInv'
<1> SUFFICES ASSUME IInv, RefuseArgument PROVE IInv'
  OBVIOUS
<1>1. pc = "parse" /\ at <= Len(argv) /\ argv[at] # "help" /\ pc' = "rejected"
      /\ UNCHANGED <<argv, options, at, seen, help, defaults, file, denied, dcRuntime>>
  BY DEF RefuseArgument, Arguing, Reject, parser
<1>2. TypeOK /\ Formed /\ Recorded
  BY <1>1 DEF IInv, Before
<1>3. at \in Nat \ {0} /\ Len(argv) \in Nat /\ at \in 1..Len(argv)
  BY <1>1, <1>2 DEF TypeOK
<1>4. ~WellFormed
  <2> SUFFICES ASSUME WellFormed PROVE FALSE
    OBVIOUS
  <2>1. ~(at > 1 /\ argv[at - 1] \in Settings)
    BY <1>2 DEF Formed
  <2>2. argv[at] \in Settings /\ at < Len(argv) /\ Legal(argv[at], argv[at + 1])
    BY <1>1, <1>3, <2>1 DEF WellFormed
  <2>3. argv[at] \in seen
    BY <2>2 DEF RefuseArgument, Takes
  <2>4. PICK p \in Prefix : argv[p] = argv[at]
    BY <1>2, <2>3 DEF Recorded
  <2>5. p \in 1..Len(argv) /\ p # at
    BY <1>3, <2>4 DEF Prefix
  <2> QED
    BY <1>3, <2>2, <2>4, <2>5 DEF WellFormed
<1>5. TypeOK'
  BY <1>1, <1>2 DEF TypeOK, Pcs
<1>6. WellFormed' = WellFormed
  BY <1>1 DEF WellFormed
<1>7. (Before /\ Whole /\ DefaultsInv /\ Places /\ ClockInv)'
  BY <1>1 DEF IInv, Before, Whole, DefaultsInv, Places, ClockInv, Loaded, Given
<1> QED
  BY <1>4, <1>5, <1>6, <1>7 DEF IInv, CauseInv

\* At the end of a parse the invariant speaks of the whole command line.
LEMMA WholeLine ==
    ASSUME TypeOK, Formed, Recorded, at = Len(argv) + 1
    PROVE  /\ WellFormed
           /\ \A s \in seen : Given(s) # {} /\ FromArgv(s) = {options[s]}
           /\ \A s \in Settings \ seen : Given(s) = {}
           /\ help <=> Given("help") # {}
<1>1. Len(argv) \in Nat /\ Prefix = 1..Len(argv)
  BY DEF TypeOK, Prefix
<1>2. WellFormed
  BY <1>1 DEF Formed, WellFormed
<1>3. ASSUME NEW s \in seen PROVE Given(s) # {} /\ FromArgv(s) = {options[s]}
  <2>1. s \in Settings
    BY <1>3 DEF TypeOK
  <2>2. PICK p \in 1..Len(argv) : argv[p] = s
    BY <1>1, <1>3 DEF Recorded
  <2>3. \A q \in Given(s) : options[s] = Meaning(s, argv[q + 1])
    BY <1>1, <2>1 DEF Recorded, Given
  <2>4. p \in Given(s)
    BY <2>2 DEF Given
  <2> QED
    BY <2>3, <2>4 DEF FromArgv
<1>4. ASSUME NEW s \in Settings \ seen PROVE Given(s) = {}
  BY <1>1, <1>4 DEF Recorded, Given
<1>5. help <=> Given("help") # {}
  BY <1>1 DEF Recorded, Given
<1> QED
  BY <1>2, <1>3, <1>4, <1>5

\* The first parse finds clocks with too long a period only on the command line.
LEMMA EndParseIInv == IInv /\ EndParse => IInv'
<1> SUFFICES ASSUME IInv, EndParse PROVE IInv'
  OBVIOUS
<1>1. pc = "parse" /\ at > Len(argv)
      /\ UNCHANGED <<argv, options, at, seen, help, defaults, file, denied, dcRuntime>>
  BY DEF EndParse, parser
<1>2. TypeOK /\ Formed /\ Recorded
  BY <1>1 DEF IInv, Before
<1>3. at = Len(argv) + 1
  <2>1. at \in Nat /\ Len(argv) \in Nat
    BY <1>2 DEF TypeOK
  <2> QED
    BY <1>1, <1>2, <2>1 DEF Formed
<1>4. pc' \in {"rejected", "machine", "usage", "load"}
  BY DEF EndParse, Reject
<1>5. TypeOK'
  BY <1>1, <1>2, <1>4 DEF TypeOK, Pcs
<1>6. (Before /\ Whole /\ DefaultsInv /\ ClockInv)'
  <2>1. Formed' /\ Recorded'
    BY <1>1, <1>2 DEF Formed, Recorded, Prefix
  <2>2. pc' # "ready"
    BY <1>4
  <2>3. DefaultsInv'
    BY <1>1 DEF IInv, DefaultsInv, Loaded
  <2>4. ClockInv'
    BY <1>1, <2>2 DEF IInv, ClockInv
  <2> QED
    BY <1>1, <1>3, <2>1, <2>3, <2>4 DEF Before, Whole
<1>7. /\ "config" \in Settings /\ "dc" \in Settings /\ "period" \in Settings
      /\ WellFormed
      /\ \A s \in seen : Given(s) # {} /\ FromArgv(s) = {options[s]}
      /\ \A s \in Settings \ seen : Given(s) = {}
      /\ help <=> Given("help") # {}
  BY <1>2, <1>3, WholeLine DEF Settings
<1>8. CASE Complete
  <2>1. pc' = IF Loaded THEN "machine" ELSE IF help THEN "usage" ELSE "load"
    BY <1>8 DEF EndParse
  <2>2. CauseInv'
    BY <2>1 DEF CauseInv
  <2>3. pc' = "load" => Given("config") # {}
    BY <1>7, <1>8, <2>1 DEF Complete
  <2>4. Places'
    <3>1. Loaded' = Loaded /\ Given("config")' = Given("config")
          /\ FileLegal(file)' = FileLegal(file)
      BY <1>1 DEF Loaded, Given
    <3> QED
      BY <1>1, <1>8, <2>1, <2>3, <3>1 DEF IInv, Places, Complete
  <2> QED
    BY <1>5, <1>6, <2>2, <2>4 DEF IInv
<1>9. CASE ~Complete
  <2>1. pc' = "rejected"
    BY <1>9 DEF EndParse, Reject
  <2>2. Places'
    BY <1>1, <2>1 DEF IInv, Places, Loaded, Given
  <2>3. ASSUME ~Loaded
        PROVE  \/ Given("help") = {} /\ Given("config") = {}
               \/ FromArgv("dc") = {TRUE} /\ \E n \in FromArgv("period") : TooLong(n)
    <3>1. CASE ~(help \/ "config" \in seen)
      BY <1>7, <3>1
    <3>2. CASE options["dc"] /\ TooLong(options["period"])
      <4>1. defaults = BuiltIn
        BY <2>3 DEF IInv, DefaultsInv
      <4>2. "dc" \in seen
        BY <1>2, <1>7, <3>2, <4>1, BuiltInTypes DEF Recorded
      <4>3. "period" \in seen
        BY <1>2, <1>7, <3>2, <4>1, BuiltInTypes DEF Recorded
      <4>4. FromArgv("dc") = {options["dc"]} /\ FromArgv("period") = {options["period"]}
        BY <1>7, <4>2, <4>3
      <4>5. options["dc"] = TRUE
        BY <1>2, <3>2 DEF TypeOK
      <4> QED
        BY <3>2, <4>4, <4>5
    <3> QED
      BY <1>9, <3>1, <3>2 DEF Complete
  <2>4. CauseInv'
    <3>1. Loaded' = Loaded /\ Given("config")' = Given("config")
          /\ Given("help")' = Given("help") /\ FromArgv("dc")' = FromArgv("dc")
          /\ FromArgv("period")' = FromArgv("period")
      BY <1>1 DEF Loaded, Given, FromArgv
    <3> QED
      BY <2>3, <3>1 DEF CauseInv
  <2> QED
    BY <1>5, <1>6, <2>2, <2>4 DEF IInv
<1> QED
  BY <1>8, <1>9

\* What a file says has the types of the options.
LEMMA LoadedTypes ==
    ASSUME NEW f \in Files, FileLegal(f)
    PROVE  LET d == Overlaid(EniDefaults(f), f)
           IN  d["period"] \in Nat /\ d["dc"] \in BOOLEAN
<1> DEFINE base == EniDefaults(f)
           d == Overlaid(base, f)
<1>1. "period" \in Settings /\ "dc" \in Settings /\ "period" # "cpu" /\ "dc" # "cpu"
  BY DEF Settings
<1>2. base["period"] \in Nat
  <2>1. CASE f.eni
    <3>1. base["period"] = f.period
      BY <1>1, <2>1, BuiltInTypes DEF EniDefaults
    <3>2. f.period \in MinPeriod..UintMax
      BY <2>1 DEF FileLegal
    <3> QED
      BY <3>1, <3>2, OptionsAssumption
  <2>2. CASE ~f.eni
    BY <2>2, BuiltInTypes DEF EniDefaults
  <2> QED
    BY <2>1, <2>2
<1>3. base["dc"] \in BOOLEAN
  <2>1. CASE f.eni
    <3>1. base["dc"] = HasClock(f)
      BY <1>1, <2>1, BuiltInTypes DEF EniDefaults
    <3> QED
      BY <3>1 DEF HasClock
  <2>2. CASE ~f.eni
    BY <2>2, BuiltInTypes DEF EniDefaults
  <2> QED
    BY <2>1, <2>2
<1>4. \A s \in Settings : d[s] = IF s \in DOMAIN f.yaml THEN Meaning(s, f.yaml[s]) ELSE base[s]
  BY DEF Overlaid
<1>5. d["period"] \in Nat
  <2>1. CASE "period" \in DOMAIN f.yaml
    <3>1. Legal("period", f.yaml["period"])
      BY <1>1, <2>1 DEF FileLegal, YamlLegal
    <3> QED
      BY <1>1, <1>4, <2>1, <3>1, MeaningTypes
  <2> QED
    BY <1>1, <1>2, <1>4, <2>1
<1>6. d["dc"] \in BOOLEAN
  BY <1>1, <1>3, <1>4, MeaningTypes
<1> QED
  BY <1>5, <1>6

LEMMA LoadIInv == ASSUME IInv, NEW f \in Files, Load(f) PROVE IInv'
<1> DEFINE d == Overlaid(EniDefaults(f), f)
<1>1. pc = "load" /\ file' = f /\ f.slaves # <<>>
      /\ UNCHANGED <<argv, denied, dcRuntime>>
  BY OptionsAssumption DEF Load
<1>2. TypeOK /\ ~Loaded /\ Given("config") # {} /\ Loaded' /\ argv \in Seq(STRING)
  BY <1>1 DEF IInv, Places, Loaded, TypeOK
<1>3. CauseInv'
  BY <1>2 DEF CauseInv
<1>4. Given("config")' # {}
  BY <1>1, <1>2 DEF Given
<1>5. ClockInv' /\ Whole'
  <2>1. pc' \in {"parse", "rejected"}
    BY DEF Load, Reject
  <2> QED
    BY <1>1, <2>1 DEF IInv, ClockInv, Whole
<1>6. CASE FileLegal(f)
  <2>1. pc' = "parse" /\ defaults' = d /\ options' = [d EXCEPT !["config"] = ""]
        /\ at' = 1 /\ seen' = {} /\ help' = FALSE
    BY <1>6 DEF Load
  <2>0. pc' = "parse" /\ at' = 1 /\ seen' = {}
    BY <2>1
  <2>2. d["period"] \in Nat /\ d["dc"] \in BOOLEAN
    BY <1>6, LoadedTypes
  <2>3. d = [s \in Settings |-> d[s]]
    BY DEF Overlaid
  <2>4. /\ options' = [s \in Settings |-> options'[s]]
        /\ \A s \in Settings : options'[s] = IF s = "config" THEN "" ELSE d[s]
    <3> HIDE DEF d
    <3> QED
      BY <2>1, <2>3
  <2>5. TypeOK'
    <3>1. options'["period"] = d["period"] /\ options'["dc"] = d["dc"]
      BY <2>4 DEF Settings
    <3>2. pc' \in Pcs /\ at' \in Nat \ {0} /\ seen' \subseteq Settings
      BY <2>0 DEF Pcs
    <3>3. help' \in BOOLEAN
      BY <2>1
    <3>4. argv' \in CommandLines /\ argv' \in Seq(STRING)
      BY <1>1, <1>2 DEF TypeOK
    <3>5. options'["period"] \in Nat /\ options'["dc"] \in BOOLEAN
      BY <2>2, <3>1
    <3>6. defaults'["period"] \in Nat /\ defaults'["dc"] \in BOOLEAN
      BY <2>1, <2>2
    <3> HIDE DEF d
    <3> QED
      BY <2>4, <3>2, <3>3, <3>4, <3>5, <3>6 DEF TypeOK
  <2>6. Prefix' = {}
    BY <2>0 DEF Prefix
  <2>7. Formed'
    BY <1>1, <1>2, <2>0, <2>6 DEF Formed
  <2>8. Recorded'
    <3> HIDE DEF d
    <3> QED
      BY <2>1, <2>4, <2>6 DEF Recorded
  <2>9. DefaultsInv' /\ Places'
    BY <1>1, <1>2, <1>4, <1>6, <2>1 DEF DefaultsInv, Places
  <2> QED
    BY <1>3, <1>5, <2>5, <2>7, <2>8, <2>9 DEF IInv, Before
<1>7. CASE ~FileLegal(f)
  <2>1. pc' = "rejected" /\ UNCHANGED <<options, at, seen, help, defaults>>
    BY <1>7 DEF Load, Reject, parser
  <2>2. TypeOK'
    BY <1>1, <1>2, <2>1 DEF TypeOK, Pcs
  <2>3. DefaultsInv'
    BY <1>1, <1>2, <1>7, <2>1 DEF IInv, DefaultsInv
  <2>4. Places' /\ Before'
    BY <1>1, <1>2, <1>4, <2>1 DEF Places, Before
  <2> QED
    BY <1>3, <1>5, <2>2, <2>3, <2>4 DEF IInv
<1> QED
  BY <1>6, <1>7

LEMMA CheckCpuIInv == IInv /\ CheckCpu => IInv'
<1> SUFFICES ASSUME IInv, CheckCpu PROVE IInv'
  OBVIOUS
<1>1. pc = "machine" /\ pc' \in {"clocks", "rejected"}
      /\ UNCHANGED <<argv, options, at, seen, help, defaults, file, dcRuntime>>
  BY DEF CheckCpu, Reject, parser
<1>2. TypeOK'
  BY <1>1 DEF IInv, TypeOK, Pcs
<1>3. Before'
  BY <1>1 DEF IInv, Before, Formed, Recorded, Prefix
<1>4. Loaded /\ Loaded' /\ DefaultsInv' /\ Places'
  BY <1>1 DEF IInv, DefaultsInv, Places, Loaded, Given
<1>5. Whole' /\ ClockInv' /\ CauseInv'
  BY <1>1, <1>4 DEF IInv, Whole, ClockInv, CauseInv
<1> QED
  BY <1>2, <1>3, <1>4, <1>5 DEF IInv

\* The clocks get the period unwrapped, and only one of them is the reference.
LEMMA BuildIInv == IInv /\ BuildClocks => IInv'
<1> SUFFICES ASSUME IInv, BuildClocks PROVE IInv'
  OBVIOUS
<1>1. pc = "clocks" /\ pc' \in {"ready", "rejected"}
      /\ UNCHANGED <<argv, options, at, seen, help, defaults, file, denied>>
  BY DEF BuildClocks, Reject, parser
<1>2. TypeOK'
  BY <1>1 DEF IInv, TypeOK, Pcs
<1>3. Before'
  BY <1>1 DEF IInv, Before, Formed, Recorded, Prefix
<1>4. Loaded /\ Loaded' /\ DefaultsInv' /\ Places' /\ file \in Files
  BY <1>1 DEF IInv, DefaultsInv, Places, Loaded, Given
<1>5. Whole' /\ CauseInv'
  BY <1>1, <1>4 DEF IInv, Whole, CauseInv
<1>6. dcRuntime = NoClock /\ options["dc"] \in BOOLEAN /\ options["period"] \in Nat
  BY <1>1 DEF IInv, ClockInv, TypeOK
<1>7. ClockInv'
  <2>1. CASE ~options["dc"]
    <3>1. dcRuntime' = dcRuntime
      BY <2>1 DEF BuildClocks
    <3> QED
      BY <1>1, <1>6, <2>1, <3>1 DEF ClockInv, NoClock
  <2>2. CASE options["dc"] /\ pc' = "rejected"
    <3>1. dcRuntime' = dcRuntime
      BY <2>2 DEF BuildClocks
    <3> QED
      BY <1>6, <2>2, <3>1 DEF ClockInv
  <2>3. CASE options["dc"] /\ pc' = "ready"
    <3> DEFINE p == options["period"]
               R == References(file.slaves)
    <3>1. /\ ~TooLong(p) /\ ClocksAgree /\ Cardinality(R) = 1
          /\ dcRuntime' = [enabled |-> TRUE, sync0 |-> Wrapped(p * NsPerUs),
                           reference |-> CHOOSE i \in R : TRUE]
      BY <2>3 DEF BuildClocks, Reject
    <3>2. R \subseteq DOMAIN file.slaves /\ IsFiniteSet(DOMAIN file.slaves)
      BY <1>4, OptionsAssumption DEF References
    <3>3. PICK r : R = {r}
      BY <3>1, <3>2, FS_Subset, FS_Singleton
    <3>4. dcRuntime'.reference = r
      BY <3>1, <3>3
    <3>5. dcRuntime'.enabled = TRUE /\ dcRuntime'.sync0 = p * NsPerUs
      BY <1>6, <3>1, FitsUnwrapped
    <3>6. \A i \in DOMAIN file.slaves :
             file.slaves[i].dc => file.slaves[i].cycle \in {0, dcRuntime'.sync0}
      BY <1>6, <3>1, <3>5, FitsUnwrapped DEF ClocksAgree
    <3>7. ClocksExact'
      BY <1>1, <3>3, <3>4, <3>5, <3>6 DEF ClocksExact
    <3> QED
      BY <1>1, <1>6, <2>3, <3>5, <3>7 DEF ClockInv
  <2> QED
    BY <1>1, <1>6, <2>1, <2>2, <2>3
<1> QED
  BY <1>2, <1>3, <1>4, <1>5, <1>7 DEF IInv

LEMMA NextIInv == IInv /\ [Next]_vars => IInv'
<1> SUFFICES ASSUME IInv, [Next]_vars PROVE IInv'
  OBVIOUS
<1>1. CASE Help
  BY <1>1, HelpIInv
<1>2. CASE \E s \in Settings : Take(s)
  BY <1>2, TakeIInv
<1>3. CASE RefuseArgument
  BY <1>3, RefuseIInv
<1>4. CASE EndParse
  BY <1>4, EndParseIInv
<1>5. CASE \E f \in Files : Load(f)
  BY <1>5, LoadIInv
<1>6. CASE CheckCpu
  BY <1>6, CheckCpuIInv
<1>7. CASE BuildClocks
  BY <1>7, BuildIInv
<1>8. CASE UNCHANGED vars
  <2>1. UNCHANGED <<pc, argv, options, at, seen, help, defaults, file, denied, dcRuntime>>
    BY <1>8 DEF vars, parser
  <2>2. (TypeOK /\ Before)'
    BY <2>1 DEF IInv, TypeOK, Before, Formed, Recorded, Prefix
  <2>3. (Whole /\ DefaultsInv /\ Places)'
    BY <2>1 DEF IInv, Whole, DefaultsInv, Places, Loaded, Given
  <2>4. (ClockInv /\ CauseInv)'
    BY <2>1 DEF IInv, ClockInv, ClocksExact, CauseInv, WellFormed, Given, FromArgv, Loaded
  <2> QED
    BY <2>2, <2>3, <2>4 DEF IInv
<1> QED
  BY <1>1, <1>2, <1>3, <1>4, <1>5, <1>6, <1>7, <1>8 DEF Next

-----------------------------------------------------------------------------
(* The theorems.                                                           *)

LEMMA Ready == IInv => StartsAsAsked
<1> SUFFICES ASSUME IInv PROVE StartsAsAsked
  OBVIOUS
<1>1. ASSUME pc = "ready"
      PROVE  WellFormed /\ \A s \in Settings : Asked(s) = {options[s]}
  <2>1. TypeOK /\ Formed /\ Recorded /\ at = Len(argv) + 1
    BY <1>1 DEF IInv, Before, Whole
  <2>2. /\ WellFormed
        /\ \A s \in seen : Given(s) # {} /\ FromArgv(s) = {options[s]}
        /\ \A s \in Settings \ seen : Given(s) = {}
    BY <2>1, WholeLine
  <2>3. defaults = Overlaid(EniDefaults(file), file) /\ Given("config") # {}
    BY <1>1 DEF IInv, DefaultsInv, Places
  <2>4. ASSUME NEW s \in Settings, s \notin seen PROVE Asked(s) = {options[s]}
    <3>1. Given(s) = {} /\ s # "config"
      BY <2>2, <2>3, <2>4
    <3>2. options[s] = defaults[s]
      BY <2>1, <2>4, <3>1 DEF Recorded
    <3>3. defaults[s] = IF s \in DOMAIN file.yaml THEN Meaning(s, file.yaml[s])
                        ELSE EniDefaults(file)[s]
      BY <2>3 DEF Overlaid
    <3>4. EniDefaults(file)[s] = IF file.eni /\ s = "period" THEN file.period
                                 ELSE IF file.eni /\ s = "dc" THEN HasClock(file)
                                 ELSE BuiltIn[s]
      <4>1. CASE file.eni
        <5>1. EniDefaults(file) = [BuiltIn EXCEPT !["period"] = file.period, !["dc"] = HasClock(file)]
          BY <4>1 DEF EniDefaults
        <5> QED
          BY <4>1, <5>1, BuiltInTypes DEF Settings
      <4>2. CASE ~file.eni
        BY <4>2 DEF EniDefaults
      <4> QED
        BY <4>1, <4>2
    <3> QED
      BY <3>1, <3>2, <3>3, <3>4 DEF Asked
  <2>5. ASSUME NEW s \in seen PROVE Asked(s) = {options[s]}
    BY <2>2 DEF Asked
  <2> QED
    BY <2>2, <2>4, <2>5
<1>2. pc = "ready" =>
         /\ dcRuntime.enabled = options["dc"]
         /\ options["dc"] => ClocksExact
  BY DEF IInv, ClockInv
<1>3. CauseInv
  BY DEF IInv
<1> QED
  BY <1>1, <1>2, <1>3 DEF StartsAsAsked, CauseInv

\* The types of what the two parses and the file loaded in between leave.
THEOREM TypeCorrect == Spec => []TypeOK
<1>1. Init => IInv
  BY InitIInv
<1>2. IInv /\ [Next]_vars => IInv'
  BY NextIInv
<1>3. IInv => TypeOK
  BY DEF IInv
<1> QED
  BY <1>1, <1>2, <1>3, PTL DEF Spec

\* Whatever the command line and the file, the program starts with the options
\* and clocks they ask for, by precedence, or for a reason does not start.
THEOREM Starts == Spec => []StartsAsAsked
<1>1. Init => IInv
  BY InitIInv
<1>2. IInv /\ [Next]_vars => IInv'
  BY NextIInv
<1>3. IInv => StartsAsAsked
  BY Ready
<1> QED
  BY <1>1, <1>2, <1>3, PTL DEF Spec
=============================================================================
