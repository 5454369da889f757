---------------------------- MODULE SlaveTables ----------------------------
(***************************************************************************)
(* From what a configuration file declares to what Apps find in shared     *)
(* memory: one description of the slaves is turned into five tables (the   *)
(* sync managers given to IgH, the flat list of entries, the domain        *)
(* offsets, the checks of the verification, the published variables),      *)
(* which later stages walk in parallel.                                    *)
(*                                                                         *)
(* A source declares for each slave and direction a section: PDOs with     *)
(* their entries and, in ENI, the SM list, the enable flag and the Sm      *)
(* attributes ("none", "own" or "other").  An entry is an object and its   *)
(* bit length; names, watchdogs and init commands are left out.            *)
(***************************************************************************)
EXTENDS Integers, SequencesExt, FiniteSets

CONSTANTS
    Objects,    \* what entries map, by index and subindex
    Indexes,    \* the indexes PDOs have
    Sources,    \* what the file may declare
    Device,     \* the mappings on the bus: [position][PDO index]
    Identity,   \* SII identities on the bus, by position
    MaxSlaves,  \* MAX_SLAVE_NUM
    MaxVars,    \* MAX_PDINPUT_NUM, MAX_PDOUTPUT_NUM
    MaxImage    \* EC_SHM_MAX_SIZE

\* RxPDOs, which SM2 carries to the slave, and TxPDOs in SM3.
Directions == {"out", "in"}

Word == {n \in Nat : n < 65536}

Entry       == [object : Objects, bits : Nat]
Declaration == [index : Indexes, sm : {"none", "own", "other"}, entries : Seq(Entry)]
Section     == [list : Seq(Indexes), enabled : BOOLEAN, pdos : Seq(Declaration)]
Slave       == [address : Word, identity : Nat, out : Section, in : Section]

Distinct(s) == \A i, j \in DOMAIN s : s[i] = s[j] => i = j

Catalogue(section) == [i \in DOMAIN section.pdos |-> section.pdos[i].index]

ASSUME LimitsAssumption ==
    /\ MaxSlaves \in Nat \ {0} /\ MaxSlaves <= 65536 /\ MaxVars \in Nat /\ MaxImage \in Nat
    /\ Device \in [0..(MaxSlaves - 1) -> [Indexes -> Seq(Entry)]]
    /\ Identity \in [0..(MaxSlaves - 1) -> Nat]

\* YAML has no identities.  That no PDO stands twice in a section is checked for
\* ENI only; what IgH makes of such a YAML file the code does not say.
ASSUME SourcesAssumption == \A file \in Sources :
    /\ file \in [kind : {"eni", "yaml"}, slaves : Seq(Slave)]
    /\ file.kind = "yaml" =>
         \A i \in DOMAIN file.slaves :
             /\ file.slaves[i].identity = 0
             /\ \A d \in Directions : Distinct(Catalogue(file.slaves[i][d]))

VARIABLES
    pc,
    source,      \* what the file declares
    config,      \* PdoBusConfig
    built,       \* what LoadedSlaveConfig::build made, the latest last
    at,          \* slave_index
    view,        \* the one `config' of initialize points into
    identities,  \* slave_identities_
    image,       \* the domains as IgH lays them out: [object, byte] per byte
    checks,      \* PdoVerification::checks_
    published    \* the EcatBus

vars == <<pc, source, config, at, built, view, identities, image, checks, published>>

Init ==
    /\ pc = "load" /\ source \in Sources /\ at = 1
    /\ config = <<>> /\ built = <<>> /\ view = 0 /\ identities = <<>>
    /\ image = [d \in Directions |-> <<>>]
    /\ checks = <<>> /\ published = <<>>

-----------------------------------------------------------------------------
(* The two files.                                                          *)

\* The elements of s at the places of the set I, in the order of s: what a
\* loop leaves of s that skips the other places.
Pick(s, I) == FlattenSeq([i \in DOMAIN s |-> IF i \in I THEN <<s[i]>> ELSE <<>>])

Entries(pdos) == FlattenSeq([i \in DOMAIN pdos |-> pdos[i].entries])

\* What the ABI can hold.
Fits(pdos) ==
    /\ Len(Entries(pdos)) <= MaxVars
    /\ \A e \in ToSet(Entries(pdos)) : e.bits # 0 /\ e.bits % 8 = 0

Mapping(pdo) == [index |-> pdo.index, entries |-> pdo.entries]

\* The places of the PDOs the walk over the declarations selects.
Selected(section) ==
    {j \in DOMAIN section.pdos :
        IF section.list = <<>> THEN section.pdos[j].sm # "none"
        ELSE section.pdos[j].index \in ToSet(section.list)}

Declarations(section) == Pick(section.pdos, Selected(section))

\* Mutant of Ordered: the order of the declarations stays.
OrderedAsDeclared(section) ==
    [i \in DOMAIN Declarations(section) |-> Mapping(Declarations(section)[i])]

\* The SM list, if there is one, gives the order.
Ordered(section) ==
    IF section.list = <<>>
    THEN [i \in DOMAIN Declarations(section) |-> Mapping(Declarations(section)[i])]
    ELSE [i \in DOMAIN section.list |->
             Mapping(section.pdos[CHOOSE j \in Selected(section) :
                                      section.pdos[j].index = section.list[i]])]

\* pdos() of the ENI loader.
EniPdos(section) == IF section.enabled THEN Ordered(section) ELSE <<>>

EniAccepts(section) ==
    IF ~section.enabled
    THEN section.list = <<>> /\ \A p \in ToSet(section.pdos) : p.sm = "none"
    ELSE /\ Distinct(Catalogue(section)) /\ Distinct(section.list)
         /\ ToSet(section.list) \subseteq ToSet(Catalogue(section))
         /\ \A p \in ToSet(section.pdos) :
               /\ p.sm # "other"
               /\ p.sm = "own" /\ section.list # <<>> => p.index \in ToSet(section.list)
         /\ Fits(Ordered(section))

\* AutoIncAddr counts down from zero, in 16 bits.
Position(address) == (0 - address) % 65536

\* The declarations of slaves at a position, wherever they stand in the file.
AtPosition(p) == {i \in DOMAIN source.slaves : Position(source.slaves[i].address) = p}

Acceptable == Len(source.slaves) \in 1..MaxSlaves

\* Sorted by position, which must be unique and contiguous from 0.
LoadEni ==
    /\ pc = "load" /\ source.kind = "eni" /\ Acceptable
    /\ \A s \in ToSet(source.slaves) :
          s.identity # 0 /\ \A d \in Directions : EniAccepts(s[d])
    /\ \A n \in DOMAIN source.slaves : \E i \in DOMAIN source.slaves : AtPosition(n - 1) = {i}
    /\ config' = [n \in DOMAIN source.slaves |->
                    LET s == source.slaves[CHOOSE i \in AtPosition(n - 1) : TRUE] IN
                    [id |-> n - 1, identity |-> s.identity,
                     pdos |-> [d \in Directions |-> EniPdos(s[d])]]]
    /\ pc' = "build"
    /\ UNCHANGED <<source, at, built, view, identities, image, checks, published>>

\* loadPdoConfig: sections are taken as they are, empty PDOs are found later.
LoadYaml ==
    /\ pc = "load" /\ source.kind = "yaml" /\ Acceptable
    /\ \A i \in DOMAIN source.slaves :
          /\ source.slaves[i].address = i - 1
          /\ \A d \in Directions :
                source.slaves[i][d].pdos # <<>> /\ Fits(source.slaves[i][d].pdos)
    /\ config' = [i \in DOMAIN source.slaves |->
                    LET s == source.slaves[i] IN
                    [id |-> s.address, identity |-> 0,
                     pdos |-> [d \in Directions |->
                                 [j \in DOMAIN s[d].pdos |-> Mapping(s[d].pdos[j])]]]]
    /\ pc' = "build"
    /\ UNCHANGED <<source, at, built, view, identities, image, checks, published>>

-----------------------------------------------------------------------------
(* LoadedSlaveConfig::build, before and after discovery.                   *)

Views(pdos, d) ==
    [i \in DOMAIN Entries(pdos) |->
        [direction |-> d, object |-> Entries(pdos)[i].object,
         bits |-> Entries(pdos)[i].bits, offset |-> 0]]

EntryViews(pdos) == Views(pdos["out"], "out") \o Views(pdos["in"], "in")

Tables(slave) ==
    [id |-> slave.id, identity |-> slave.identity,
     syncs |-> <<[direction |-> "out", pdos |-> slave.pdos["out"]],
                 [direction |-> "in", pdos |-> slave.pdos["in"]]>>,
     entries |-> EntryViews(slave.pdos)]

InDirection(entries, d) == Pick(entries, {k \in DOMAIN entries : entries[k].direction = d})

\* validateSlaveConfig
Valid(slave) ==
    /\ \A e \in ToSet(slave.entries) : e.bits # 0 /\ e.bits % 8 = 0
    /\ \A d \in Directions : Len(InDirection(slave.entries, d)) <= MaxVars

Build ==
    /\ pc = "build"
    /\ LET tables == [i \in DOMAIN config |-> Tables(config[i])] IN
       /\ \A slave \in ToSet(tables) : Valid(slave)
       /\ built' = Append(built, tables)
    /\ view' = 1
    /\ pc' = IF source.kind = "eni" THEN "identify" ELSE "discover"
    /\ UNCHANGED <<source, config, at, identities, image, checks, published>>

\* discoverEmptyPdoEntries; what can go wrong is in ConfigWriteback.
Filled(id, pdo) ==
    IF pdo.entries # <<>> THEN pdo ELSE [pdo EXCEPT !.entries = Device[id][pdo.index]]

Resolved(slave) ==
    [slave EXCEPT !.pdos = [d \in Directions |->
        [j \in DOMAIN slave.pdos[d] |-> Filled(slave.id, slave.pdos[d][j])]]]

\* Mutant of CurrentView: the pointers taken before discovery are kept.
CurrentViewStale == view

CurrentView == Len(built')

\* The tables are built again, and config = loaded_config->view().
Discover ==
    /\ pc = "discover"
    /\ config' = [i \in DOMAIN config |-> Resolved(config[i])]
    /\ LET tables == [i \in DOMAIN config' |-> Tables(config'[i])] IN
       /\ \A slave \in ToSet(tables) : Valid(slave)
       /\ built' = Append(built, tables)
    /\ view' = CurrentView
    /\ pc' = "identify"
    /\ UNCHANGED <<source, at, identities, image, checks, published>>

-----------------------------------------------------------------------------
(* initialize, from the identities to the layout of the process data.      *)

Slaves == built[view]

\* A slave without an identity gets that of the SII, the others must have it.
Identify ==
    /\ pc = "identify"
    /\ \A i \in DOMAIN Slaves :
          Slaves[i].identity \in {0, Identity[Slaves[i].id]}
    /\ identities' = [i \in DOMAIN Slaves |-> Identity[Slaves[i].id]]
    /\ \A i \in DOMAIN identities' : identities'[i] # 0
    /\ built' = [built EXCEPT ![view] =
                    [i \in DOMAIN Slaves |-> [Slaves[i] EXCEPT !.identity = identities'[i]]]]
    /\ pc' = "register"
    /\ UNCHANGED <<source, config, at, view, image, checks, published>>

Size(e) == e.bits \div 8

\* How IgH lays out a sync manager in a domain: PDO after PDO, little by little.
Bytes(e) == [b \in 1..Size(e) |-> [object |-> e.object, byte |-> b]]

Blocks(pdos) == [i \in DOMAIN Entries(pdos) |-> Bytes(Entries(pdos)[i])]

Laid(pdos) == FlattenSeq(Blocks(pdos))

\* ecrt_slave_config_reg_pdo_entry_pos: where the i-th entry of a sync manager
\* is, which begins at the present end of its domain.
Offset(sync, i) ==
    Len(image[sync.direction]) + Len(FlattenSeq(SubSeq(Blocks(sync.pdos), 1, i - 1)))

\* What the loops over sync managers, PDOs and entries ask for: the i-th entry
\* of the n-th sync manager.
Walk(syncs) ==
    FlattenSeq([n \in DOMAIN syncs |->
        [i \in DOMAIN Entries(syncs[n].pdos) |-> [sync |-> n, place |-> i]]])

\* The answers go into the flat list, one after the other.
Placed(slave) ==
    LET walk == Walk(slave.syncs) IN
    [slave EXCEPT !.entries = [k \in DOMAIN slave.entries |->
        [slave.entries[k] EXCEPT !.offset =
            Offset(slave.syncs[walk[k].sync], walk[k].place)]]]

\* One slave: its PDOs are configured and its entries registered.
Register ==
    /\ pc = "register"
    /\ Len(Walk(Slaves[at].syncs)) = Len(Slaves[at].entries)
    /\ built' = [built EXCEPT ![view] = [Slaves EXCEPT ![at] = Placed(Slaves[at])]]
    /\ image' = [d \in Directions |-> image[d] \o FlattenSeq(
          [n \in DOMAIN Slaves[at].syncs |->
              IF Slaves[at].syncs[n].direction = d THEN Laid(Slaves[at].syncs[n].pdos) ELSE <<>>])]
    /\ at' = at + 1
    /\ pc' = IF at = Len(Slaves) THEN "prepare" ELSE "register"
    /\ UNCHANGED <<source, config, view, identities, checks, published>>

Check(slave, d, field, value) ==
    [slave |-> slave.id, direction |-> d, field |-> field, value |-> value]

\* Mutant of SyncChecks: one block of assignments, then one of mappings.
SyncChecksBlocks(slave, sync) ==
    LET check(field, value) == Check(slave, sync.direction, field, value) IN
    <<check("AssignmentCount", Len(sync.pdos))>>
    \o [i \in DOMAIN sync.pdos |-> check("Assignment", sync.pdos[i].index)]
    \o [i \in DOMAIN sync.pdos |-> check("MappingCount", Len(sync.pdos[i].entries))]
    \o [i \in DOMAIN Entries(sync.pdos) |-> check("MappingEntry", Entries(sync.pdos)[i])]

\* The count of the assignment, then each PDO with its count and its entries.
SyncChecks(slave, sync) ==
    LET check(field, value) == Check(slave, sync.direction, field, value) IN
    <<check("AssignmentCount", Len(sync.pdos))>> \o FlattenSeq(
        [i \in DOMAIN sync.pdos |->
            <<check("Assignment", sync.pdos[i].index),
              check("MappingCount", Len(sync.pdos[i].entries))>>
            \o [j \in DOMAIN sync.pdos[i].entries |->
                    check("MappingEntry", sync.pdos[i].entries[j])]])

\* PdoVerification::prepare
Prepare ==
    /\ pc = "prepare"
    /\ checks' = FlattenSeq([i \in DOMAIN Slaves |-> FlattenSeq(
                    [n \in DOMAIN Slaves[i].syncs |->
                        SyncChecks(Slaves[i], Slaves[i].syncs[n])])])
    /\ pc' = "layout"
    /\ UNCHANGED <<source, config, at, built, view, identities, image, published>>

\* The domains have their sizes once the master is active: ProcessDataLayout.
Layout ==
    /\ pc = "layout"
    /\ \A d \in Directions : Len(image[d]) \in 1..MaxImage
    /\ \A slave \in ToSet(Slaves) :
          /\ Valid(slave)
          /\ \A e \in ToSet(slave.entries) : e.offset + Size(e) <= Len(image[e.direction])
    /\ pc' = "publish"
    /\ UNCHANGED <<source, config, at, built, view, identities, image, checks, published>>

PdVar(e) == [object |-> e.object, offset |-> e.offset, size |-> Size(e)]

\* publishConfig with loaded_config.view(), then publishIdentity.
Publish ==
    /\ pc = "publish"
    /\ published' = [i \in DOMAIN Last(built) |->
          [identity |-> identities[i],
           vars |-> [d \in Directions |->
              LET es == InDirection(Last(built)[i].entries, d) IN
              [k \in DOMAIN es |-> PdVar(es[k])]]]]
    /\ pc' = "run"
    /\ UNCHANGED <<source, config, at, built, view, identities, image, checks>>

\* A check that fails, or a call: whichever it is, main() returns.
Refuse ==
    /\ pc \notin {"run", "refused"}
    /\ pc' = "refused"
    /\ UNCHANGED <<source, config, at, built, view, identities, image, checks, published>>

Next == \/ LoadEni \/ LoadYaml \/ Build \/ Discover \/ Identify \/ Register
        \/ Prepare \/ Layout \/ Publish \/ Refuse

Spec == Init /\ [][Next]_vars

-----------------------------------------------------------------------------
(* Properties.                                                             *)

\* The declaration of the slave at a position, whatever its place in the file.
Declared(i) ==
    CHOOSE s \in ToSet(source.slaves) :
        IF source.kind = "eni" THEN (s.address + i) % 65536 = 0 ELSE s.address = i

\* The PDOs the file asks for, by index and in order.
Wanted(section) ==
    IF source.kind = "yaml" THEN Catalogue(section)
    ELSE IF section.list # <<>> THEN section.list
    ELSE LET own == Pick(section.pdos, {j \in DOMAIN section.pdos : section.pdos[j].sm = "own"})
         IN  [j \in DOMAIN own |-> own[j].index]

\* The declaration of a PDO.
TheOne(section, index) == CHOOSE q \in ToSet(section.pdos) : q.index = index

\* The entries it has: those declared, or in an empty one of a YAML file those
\* of the device.
Contents(i, section, index) ==
    LET p == TheOne(section, index) IN
    IF source.kind = "yaml" /\ p.entries = <<>> THEN Device[i][index] ELSE p.entries

Expected(i, d) ==
    LET section == Declared(i)[d]
        wanted  == Wanted(section)
    IN  FlattenSeq([j \in DOMAIN wanted |-> Contents(i, section, wanted[j])])

\* The variables of slave i show the Apps, in the order of the file, exactly
\* the objects the file asks for: each variable's bytes are the bytes IgH
\* exchanges with that object, of the device that is at this position.
VariablesAreTheirObjects ==
    pc = "run" => \A i \in DOMAIN published :
        /\ published[i].identity = Identity[i - 1]
        /\ Declared(i - 1).identity \in {0, Identity[i - 1]}
        /\ \A d \in Directions :
              LET vs == published[i].vars[d]
                  ex == Expected(i - 1, d)
              IN  /\ Len(vs) = Len(ex)
                  /\ \A k \in DOMAIN vs :
                        /\ vs[k].object = ex[k].object /\ 8 * vs[k].size = ex[k].bits
                        /\ SubSeq(image[d], vs[k].offset + 1, vs[k].offset + vs[k].size)
                             = [b \in 1..vs[k].size |-> [object |-> ex[k].object, byte |-> b]]

\* The checks, as module PreopConfig assumes them: a count says how many
\* assignments, or entries, come before the next count of its kind.
Following(s, c, item, others) ==
    {k \in DOMAIN s : /\ c < k /\ s[k].field = item
                      /\ \A m \in (c + 1)..k : s[m].field \notin others}

Counted(s, count, item, others) ==
    \A c \in DOMAIN s : s[c].field = count =>
        s[c].value = Cardinality(Following(s, c, item, others))

\* The mapping entries of one slave and direction among the checks s.
EntriesOf(s, id, d) ==
    Pick(s, {c \in DOMAIN s : /\ s[c].slave = id /\ s[c].direction = d
                              /\ s[c].field = "MappingEntry"})

\* What is written to and read back from the devices before outputs are
\* released is what Apps were told: the same entries of the same slave in the
\* same order, under counts that agree with them.
VerifiedIsPublished ==
    pc = "run" =>
        /\ Counted(checks, "AssignmentCount", "Assignment", {"AssignmentCount"})
        /\ Counted(checks, "MappingCount", "MappingEntry",
                   {"AssignmentCount", "Assignment", "MappingCount"})
        /\ \A i \in DOMAIN published : \A d \in Directions :
              LET own == EntriesOf(checks, i - 1, d)
                  vs  == published[i].vars[d]
              IN  /\ Len(own) = Len(vs)
                  /\ \A k \in DOMAIN own :
                        own[k].value = [object |-> vs[k].object, bits |-> 8 * vs[k].size]
=============================================================================
